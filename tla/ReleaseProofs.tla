--------------------------- MODULE ReleaseProofs ---------------------------
(***************************************************************************)
(* The schedule of a game, for any number of phases, immediate releases,   *)
(* workers, editors and faults: features change in the order of            *)
(* release_at, what was set by hand stands, and an event that counts as    *)
(* notified was dealt with in full.                                        *)
(*                                                                         *)
(* The argument: phases that kept their time get their ids in the order of *)
(* it, a pass takes the events in the order of the ids and ends at the     *)
(* first error, so that whoever works for a phase has seen every earlier   *)
(* one notified, and what is notified is in the history, which a           *)
(* transaction that has locked the feature looks at once more.  Two passes *)
(* may overlap: nothing here rests on the advisory lock.                   *)
(***************************************************************************)
EXTENDS Release, FiniteSetTheorems, WellFoundedInduction, TLAPS

(* A phase that is there and was not written at or after its time.         *)
Standing(p) == p \in Phase \ late /\ Row(p)

Earlier(p, q) == Standing(p) /\ phase[p].at < phase[q].at

(* Ids grow, and in the order of the times.                                *)
IdsOrdered ==
  /\ \A e \in Event : id[e] <= sequence
  /\ \A i \in Immediate : open[i] <= sequence
  /\ \A p \in Phase : id[p] # 0 => Row(p)
  /\ \A q \in Phase : Standing(q) /\ id[q] # 0 =>
       /\ phase[q].at <= now
       /\ \A p \in Phase : Earlier(p, q) => id[p] # 0 /\ id[p] < id[q]

(* What the history shows of a phase, all earlier ones have done.          *)
HistoryOrdered ==
  /\ \A a \in applied : id[a[1]] # 0
  /\ \A f \in Feature : source[f] # None => <<source[f], f>> \in applied
  /\ \A q \in Phase, f \in Feature : Standing(q) /\ <<q, f>> \in applied =>
       \A p \in Phase : Earlier(p, q) => p \in notified

(* The statements of a pass after the list of its events was read, and of  *)
(* a request that has made its pass.                                       *)
Serving == {"next", "changes", "check", "lock", "mark", "flag", "hints", "tell", "notified"}

(* What is dealt with, or is still on the list of w or in its hands.       *)
InSight(w, p) ==
  p \in notified \/ p \in work[w].todo \/ (p = work[w].event /\ pc[w] # "next")

(* The list of w, and what was due when its request came in.               *)
Listed(w) ==
  /\ \A p \in work[w].due :
       /\ phase[p].row # "new"
       /\ Standing(p) => /\ phase[p].at <= now
                         /\ pc[w] = "list" => id[p] # 0
                         /\ pc[w] \in Serving => InSight(w, p)
  /\ pc[w] \in Serving =>
       /\ \A q \in Phase : q \in work[w].todo \cup {work[w].event} =>
            phase[q].row # "new" /\ (Row(q) => id[q] # 0)
       /\ \A q \in Phase, p \in Phase : Standing(q) /\ Earlier(p, q) =>
            /\ q \in work[w].todo => InSight(w, p)
            /\ q = work[w].event => p \in notified

(* The transaction that changes the features.                              *)
Changing(w) ==
  LET p == work[w].event IN
  /\ \A f \in Feature : held[f] = w <=> f \in work[w].writes
  /\ \A f \in work[w].left \cup work[w].writes : work[w].changes[f] # "same"
  /\ work[w].writes # {} => pc[w] \in {"check", "lock"}
  /\ pc[w] = "lock" => work[w].left # {}
  /\ pc[w] \in {"check", "lock", "mark"} => p \in Phase \cup {None}
  /\ pc[w] = "changes" => p \in Phase
  /\ pc[w] \in {"idle", "wait", "materialize", "list"} => p = None
  /\ pc[w] \in {"check", "lock"} /\ p = None => work[w].todo = {}
  /\ w \in Admin /\ pc[w] \notin {"idle", "done"} =>
       \E f \in Feature : work[w].wish[f] # "same"
  /\ p # None => \A f \in work[w].writes : Row(p) /\ <<p, f>> \notin applied
  /\ Standing(p) /\ pc[w] \in {"check", "lock"} =>
       /\ work[w].changes = phase[p].changes
       /\ \A f \in Feature : work[w].changes[f] # "same" =>
            f \in work[w].left \cup work[w].writes \/ <<p, f>> \in applied
  /\ Standing(p) /\ pc[w] \in {"mark", "flag", "hints", "tell", "notified"} =>
       \A f \in Feature : phase[p].changes[f] # "same" => <<p, f>> \in applied

(* What follows the changes.                                               *)
Told(w) ==
  LET e == work[w].event IN
  /\ pc[w] \in {"flag", "hints", "tell", "notified"} => e # None
  /\ pc[w] \in {"hints", "tell", "notified"} => "content" \in done[e]
  /\ pc[w] \in {"tell", "notified"} => "hints" \in done[e]
  /\ pc[w] = "notified" => "told" \in done[e]

SettledFirst ==
  \A f \in Feature : \A p \in settled[f] :
    phase[p].row # "new" /\ (Standing(p) => p \in notified)

EditInv == \A e \in Editor : edit[e].pc = "checked" => edit[e].phase \in Phase

WorkInv == \A w \in Worker : Listed(w) /\ Changing(w) /\ Told(w)

IInv == /\ TypeOK /\ IdsOrdered /\ HistoryOrdered /\ SettledFirst /\ EditInv /\ WorkInv
        /\ NotifiedInFull /\ InOrder /\ ManualStands

-----------------------------------------------------------------------------
(* Constants, types, and the smallest of some features.                    *)

LEMMA Constants ==
  /\ Feature \subseteq Nat /\ Leaderboard \in Feature /\ IsFiniteSet(Phase)
  /\ Scheduler \cap Admin = {} /\ Phase \cap Immediate = {}
  /\ None \notin Worker /\ None \notin Event
  /\ MaxTime \in Nat \ {0} /\ MaxFaults \in Nat
  /\ Plan \subseteq [Phase -> PhaseRow]
BY ConstantAssumption

LEMMA LeastIs ==
  ASSUME NEW S, S \subseteq Feature, S # {}
  PROVE  Least(S) \in S
<1>1. S \subseteq Nat
  BY Constants
<1>2. OpToRel(<, Nat) = {ss \in Nat \X Nat : ss[1] < ss[2]}
  BY Zenon DEF OpToRel
<1> DEFINE less == {ss \in Nat \X Nat : ss[1] < ss[2]}
<1>3. IsWellFoundedOn(less, Nat)
  BY <1>2, NatLessThanWellFounded, Zenon
<1> HIDE DEF less
<1>4. PICK n \in S : \A m \in S : ~ <<m, n>> \in less
  BY <1>1, <1>3, WFMin
<1>5. ASSUME NEW m \in S PROVE n <= m
  <2>1. ~(m < n)
    <3> SUFFICES ASSUME m < n PROVE <<m, n>> \in less
      BY <1>4
    <3> QED BY <1>1 DEF less
  <2> QED BY <1>1, <2>1
<1> QED BY <1>5 DEF Least

WorkType ==
  [todo: SUBSET Event, event: Event \cup {None}, changes: Changes, left: SUBSET Feature,
   writes: SUBSET Feature, due: SUBSET Phase, wish: Changes]

EditType ==
  [pc: {"new", "checked", "done"}, kind: {"none", "create", "edit", "keep"},
   phase: Phase \cup {None}, at: Time, changes: Changes]

Types ==
  /\ now \in Nat /\ phase \in [Phase -> PhaseRow] /\ id \in [Event -> Nat]
  /\ open \in [Immediate -> Nat] /\ sequence \in Nat
  /\ source \in [Feature -> Phase \cup {None}] /\ applied \subseteq Phase \X Feature
  /\ held \in [Feature -> Worker \cup {None}] /\ pc \in [Worker -> PC]
  /\ work \in [Worker -> WorkType] /\ edit \in [Editor -> EditType]
  /\ done \in [Event -> SUBSET {"content", "hints", "told"}]
  /\ settled \in [Feature -> SUBSET Phase] /\ late \subseteq Phase
  /\ notified \subseteq Event /\ \A p \in Phase : phase[p].at \in Nat

LEMMA Typed == TypeOK => Types
BY Constants DEF TypeOK, Types, WorkType, EditType, PhaseRow, Time

-----------------------------------------------------------------------------
(* How the tables may change.                                              *)

(* A phase that keeps its time is as it was, or lies in the future.        *)
Grows ==
  /\ now <= now' /\ late \subseteq late' /\ \A e \in Event : done[e] \subseteq done'[e]
  /\ \A p \in Phase :
       /\ phase[p].row # "new" => phase'[p].row # "new" /\ (Row(p)' => Row(p))
       /\ Row(p)' /\ id[p] # 0 => id'[p] # 0
       /\ Standing(p)' =>
            \/ /\ Standing(p) /\ phase'[p] = phase[p] /\ (p \in notified => p \in notified')
               /\ \A f \in Feature : <<p, f>> \in applied => <<p, f>> \in applied'
            \/ /\ now' < phase'[p].at /\ id'[p] = 0
               /\ Standing(p) => now < phase[p].at /\ id[p] = 0
  /\ \A w \in Worker, p \in Phase :
       work[w].writes # {} /\ work[w].event = p /\ Row(p) => Row(p)'

(* Nothing is done for an event.                                           *)
Quiet ==
  /\ Grows
  /\ \A e \in Event : id'[e] <= sequence'
  /\ \A i \in Immediate : open'[i] <= sequence'
  /\ \A p \in Phase : id'[p] = id[p] \/ (id'[p] = 0 /\ ~Row(p)')
  /\ \A p \in Phase : id'[p] # 0 => Row(p)'
  /\ applied' \subseteq applied /\ \A a \in applied' : id'[a[1]] = id[a[1]]
  /\ \A f \in Feature : source'[f] # None =>
       source'[f] = source[f] /\ (<<source[f], f>> \in applied => <<source[f], f>> \in applied')
  /\ notified' \subseteq notified /\ UNCHANGED settled

Globals ==
  IdsOrdered /\ HistoryOrdered /\ SettledFirst /\ NotifiedInFull /\ InOrder /\ ManualStands

(* What has an id, or was due, is still what it was.                       *)
LEMMA Remains ==
  ASSUME TypeOK, TypeOK', IdsOrdered, Grows, NEW p \in Phase, Standing(p)',
         \/ id'[p] # 0
         \/ phase[p].row # "new" /\ (Standing(p) => phase[p].at <= now \/ id[p] # 0)
  PROVE  /\ Standing(p) /\ phase'[p] = phase[p] /\ (p \in notified => p \in notified')
         /\ \A f \in Feature : <<p, f>> \in applied => <<p, f>> \in applied'
<1>1. p \notin late
  BY DEF Standing, Grows
<1>2. now \in Nat /\ phase[p].at \in Nat
  BY Typed DEF Types
<1>3. CASE phase[p].row # "new" /\ (Standing(p) => phase[p].at <= now \/ id[p] # 0)
  <2>1. Row(p)
    BY <1>3 DEF Standing, Grows
  <2>2. Standing(p)
    BY <1>1, <2>1 DEF Standing
  <2> QED BY <1>2, <1>3, <2>2 DEF Grows
<1>4. CASE id'[p] # 0
  BY <1>4 DEF Grows
<1> QED BY <1>3, <1>4

(* An earlier phase of one that has an id is not new.                      *)
LEMMA EarlierRemains ==
  ASSUME TypeOK, TypeOK', IdsOrdered, Grows, NEW p \in Phase, NEW q \in Phase,
         Earlier(p, q)', Standing(q), phase'[q] = phase[q], id[q] # 0
  PROVE  /\ Earlier(p, q) /\ phase'[p] = phase[p] /\ (p \in notified => p \in notified')
<1>0. Types /\ Types'
  BY Typed, PTL
<1>1. PICK a \in Nat, b \in Nat, n \in Nat, m \in Nat :
        a = phase'[p].at /\ b = phase[q].at /\ n = now /\ m = now'
  BY <1>0 DEF Types
<1>2. a < b /\ b <= n /\ n <= m /\ phase'[q].at = b /\ Standing(p)'
  BY <1>1 DEF Earlier, IdsOrdered, Grows
<1>3. ~(now' < phase'[p].at)
  BY <1>1, <1>2
<1>4. Standing(p) /\ phase'[p] = phase[p] /\ (p \in notified => p \in notified')
  BY <1>2, <1>3 DEF Grows
<1> QED BY <1>1, <1>2, <1>4 DEF Earlier

(* A worker that does not move keeps what it knows.                        *)
LEMMA OthersKeep ==
  ASSUME TypeOK, TypeOK', IdsOrdered, Grows, NEW v \in Worker,
         Listed(v), Changing(v), Told(v),
         pc'[v] = pc[v], work'[v] = work[v],
         \A f \in Feature : held'[f] = v <=> held[f] = v,
         \A f \in work[v].writes : <<work[v].event, f>> \notin applied'
  PROVE  Listed(v)' /\ Changing(v)' /\ Told(v)'
<1>1. PICK todo \in SUBSET Event, event \in Event \cup {None}, due \in SUBSET Phase,
           writes \in SUBSET Feature, left \in SUBSET Feature, changes \in Changes :
        /\ work[v].todo = todo /\ work[v].event = event /\ work[v].due = due
        /\ work[v].writes = writes /\ work[v].left = left /\ work[v].changes = changes
  BY Typed DEF Types, WorkType
<1>2. /\ work'[v].todo = todo /\ work'[v].event = event /\ work'[v].due = due
      /\ work'[v].writes = writes /\ work'[v].left = left /\ work'[v].changes = changes
  BY <1>1
<1>3. None \notin Phase
  BY Constants DEF Event
<1>4. ASSUME NEW p \in Phase, Standing(p)', p \in due
      PROVE  Standing(p) /\ phase'[p] = phase[p] /\ phase[p].at <= now
  BY <1>1, <1>4, Remains DEF Listed
<1>5. ASSUME NEW q \in Phase, Standing(q)', pc[v] \in Serving, q \in todo \cup {event}
      PROVE  /\ Standing(q) /\ phase'[q] = phase[q] /\ id[q] # 0
             /\ \A f \in Feature : <<q, f>> \in applied => <<q, f>> \in applied'
  <2>1. phase[q].row # "new" /\ (Row(q) => id[q] # 0)
    BY <1>1, <1>5 DEF Listed
  <2>2. Standing(q) => id[q] # 0
    BY <2>1 DEF Standing
  <2> QED BY <1>5, <2>1, <2>2, Remains
<1>6. Listed(v)'
  <2>1. ASSUME NEW p \in due
        PROVE  /\ phase'[p].row # "new"
               /\ Standing(p)' => /\ phase'[p].at <= now'
                                  /\ pc'[v] = "list" => id'[p] # 0
                                  /\ pc'[v] \in Serving => InSight(v, p)'
    <3>1. phase'[p].row # "new"
      BY <1>1, <2>1 DEF Listed, Grows
    <3>2. ASSUME Standing(p)' PROVE phase'[p].at <= now'
      <4>1. phase'[p] = phase[p] /\ phase[p].at <= now
        BY <1>4, <3>2
      <4>2. Types /\ Types'
        BY Typed, PTL
      <4>3. now <= now' /\ now \in Nat /\ now' \in Nat /\ phase[p].at \in Nat
        BY <4>2 DEF Types, Grows
      <4> QED BY <4>1, <4>3
    <3>3. ASSUME Standing(p)', pc[v] = "list" PROVE id'[p] # 0
      BY <1>1, <1>4, <2>1, <3>3 DEF Listed, Grows, Standing
    <3>4. ASSUME Standing(p)', pc[v] \in Serving PROVE InSight(v, p)'
      <4>1. Standing(p) /\ phase[p].row # "new" /\ phase[p].at <= now
        BY <1>1, <1>4, <2>1, <3>4 DEF Listed
      <4>2. p \in notified => p \in notified'
        BY <3>4, <4>1, Remains
      <4>3. InSight(v, p)
        BY <1>1, <2>1, <3>4, <4>1 DEF Listed
      <4> QED BY <4>2, <4>3 DEF InSight
    <3> QED BY <3>1, <3>2, <3>3, <3>4
  <2>2. ASSUME pc[v] \in Serving, NEW q \in Phase, q \in todo \cup {event}
        PROVE  phase'[q].row # "new" /\ (Row(q)' => id'[q] # 0)
    BY <1>1, <2>2 DEF Listed, Grows
  <2>3. ASSUME pc[v] \in Serving, NEW q \in Phase, NEW p \in Phase,
               Standing(q)', Earlier(p, q)', q \in todo \cup {event}
        PROVE  /\ q \in todo => InSight(v, p)'
               /\ q = event => p \in notified'
    <3>1. Standing(q) /\ phase'[q] = phase[q] /\ id[q] # 0
      BY <1>5, <2>3
    <3>2. Earlier(p, q) /\ (p \in notified => p \in notified')
      BY <2>3, <3>1, EarlierRemains
    <3>3. /\ q \in todo => InSight(v, p)
          /\ q = event => p \in notified
      BY <1>1, <2>3, <3>1, <3>2 DEF Listed
    <3> QED BY <3>2, <3>3 DEF InSight
  <2> QED BY <1>2, <2>1, <2>2, <2>3 DEF Listed
<1>7. Changing(v)'
  <2>1. /\ \A f \in Feature : held'[f] = v <=> f \in writes
        /\ \A f \in left \cup writes : changes[f] # "same"
        /\ writes # {} => pc'[v] \in {"check", "lock"}
        /\ pc'[v] = "lock" => left # {}
        /\ pc'[v] \in {"check", "lock", "mark"} => event \in Phase \cup {None}
        /\ pc'[v] = "changes" => event \in Phase
        /\ pc'[v] \in {"idle", "wait", "materialize", "list"} => event = None
        /\ pc'[v] \in {"check", "lock"} /\ event = None => todo = {}
        /\ v \in Admin /\ pc'[v] \notin {"idle", "done"} =>
             \E f \in Feature : work'[v].wish[f] # "same"
    BY <1>1 DEF Changing
  <2>2. ASSUME event # None, NEW f \in writes PROVE Row(event)' /\ <<event, f>> \notin applied'
    <3>1. event \in Phase /\ Row(event)
      BY <1>1, <2>2 DEF Changing
    <3> QED BY <1>1, <2>2, <3>1 DEF Grows
  <2>3. ASSUME Standing(event)', pc[v] \in Serving
        PROVE  /\ Standing(event) /\ phase'[event] = phase[event]
               /\ \A f \in Feature : <<event, f>> \in applied => <<event, f>> \in applied'
    BY <1>5, <2>3 DEF Standing
  <2>4. ASSUME Standing(event)', pc[v] \in {"check", "lock"}
        PROVE  /\ changes = phase'[event].changes
               /\ \A f \in Feature : changes[f] # "same" =>
                    f \in left \cup writes \/ <<event, f>> \in applied'
    BY <1>1, <2>3, <2>4 DEF Changing, Serving
  <2>5. ASSUME Standing(event)', pc[v] \in {"mark", "flag", "hints", "tell", "notified"}
        PROVE  \A f \in Feature : phase'[event].changes[f] # "same" => <<event, f>> \in applied'
    BY <1>1, <2>3, <2>5 DEF Changing, Serving
  <2> QED BY <1>2, <2>1, <2>2, <2>4, <2>5 DEF Changing
<1>8. Told(v)'
  <2>1. event # None => done[event] \subseteq done'[event]
    BY DEF Grows
  <2> QED BY <1>1, <1>2, <2>1 DEF Told
<1> QED BY <1>6, <1>7, <1>8

(* Where nothing is done for an event, what was done for it stands.        *)
LEMMA QuietKeeps ==
  ASSUME TypeOK, TypeOK', Globals, Quiet
  PROVE  Globals'
<1>0. Types /\ Types'
  BY Typed, PTL
<1>1. IdsOrdered /\ Grows /\ Types /\ Types' /\ None \notin Phase
  BY <1>0, Constants DEF Globals, Quiet, Event
<1>2. ASSUME NEW p \in Phase, id'[p] # 0, p \notin late'
      PROVE  /\ Standing(p) /\ Standing(p)' /\ phase'[p] = phase[p] /\ id'[p] = id[p]
             /\ (p \in notified => p \in notified')
             /\ \A f \in Feature : <<p, f>> \in applied => <<p, f>> \in applied'
  <2>1. Standing(p)' /\ id'[p] = id[p]
    BY <1>2 DEF Quiet, Standing
  <2> QED BY <1>1, <1>2, <2>1, Remains
<1>3. IdsOrdered'
  <2>1. ASSUME NEW q \in Phase, Standing(q)', id'[q] # 0
        PROVE  /\ phase'[q].at <= now'
               /\ \A p \in Phase : Earlier(p, q)' => id'[p] # 0 /\ id'[p] < id'[q]
    <3>1. q \notin late'
      BY <2>1 DEF Standing
    <3>2. Standing(q) /\ phase'[q] = phase[q] /\ id'[q] = id[q]
      BY <1>2, <2>1, <3>1
    <3>3. phase[q].at <= now /\ now <= now'
      BY <1>1, <2>1, <3>2 DEF IdsOrdered, Grows
    <3>4. phase'[q].at <= now'
      BY <1>1, <3>2, <3>3 DEF Types
    <3>5. ASSUME NEW p \in Phase, Earlier(p, q)' PROVE id'[p] # 0 /\ id'[p] < id'[q]
      <4>1. Earlier(p, q)
        BY <1>1, <2>1, <3>2, <3>5, EarlierRemains
      <4>2. id[p] # 0 /\ id[p] < id[q]
        BY <1>1, <2>1, <3>2, <4>1 DEF IdsOrdered
      <4>3. id'[p] = id[p]
        BY <3>5 DEF Quiet, Earlier, Standing
      <4> QED BY <3>2, <4>2, <4>3
    <3> QED BY <3>4, <3>5
  <2> QED BY <2>1 DEF IdsOrdered, Quiet
<1>4. ASSUME NEW f \in Feature, source'[f] # None
      PROVE  source'[f] = source[f] /\ <<source'[f], f>> \in applied' /\ source'[f] \in Phase
  BY <1>1, <1>4 DEF Quiet, Globals, HistoryOrdered, Types
<1>5. ASSUME NEW p \in Phase, NEW f \in Feature, <<p, f>> \in applied'
      PROVE  id'[p] # 0 /\ <<p, f>> \in applied
  BY <1>5 DEF Quiet, Globals, HistoryOrdered
<1>6. HistoryOrdered'
  <2>1. \A a \in applied' : id'[a[1]] # 0
    BY DEF Quiet, Globals, HistoryOrdered
  <2>2. ASSUME NEW q \in Phase, NEW f \in Feature, Standing(q)', <<q, f>> \in applied',
               NEW p \in Phase, Earlier(p, q)'
        PROVE  p \in notified'
    <3>1. q \notin late' /\ id'[q] # 0 /\ <<q, f>> \in applied
      BY <1>5, <2>2 DEF Standing
    <3>2. Standing(q) /\ phase'[q] = phase[q] /\ id[q] # 0
      BY <1>2, <3>1
    <3>3. Earlier(p, q) /\ (p \in notified => p \in notified')
      BY <1>1, <2>2, <3>2, EarlierRemains
    <3> QED BY <3>1, <3>2, <3>3 DEF Globals, HistoryOrdered
  <2> QED BY <1>4, <2>1, <2>2 DEF HistoryOrdered
<1>7. SettledFirst'
  <2>1. ASSUME NEW f \in Feature, NEW p \in settled[f]
        PROVE  phase'[p].row # "new" /\ (Standing(p)' => p \in notified')
    <3>1. p \in Phase /\ phase[p].row # "new" /\ (Standing(p) => p \in notified)
      BY <1>1, <2>1 DEF Globals, SettledFirst, Types
    <3>2. Standing(p) => id[p] # 0
      BY <3>1 DEF TypeOK
    <3> QED BY <1>1, <3>1, <3>2, Remains DEF Grows
  <2> QED BY <2>1 DEF SettledFirst, Quiet
<1>8. NotifiedInFull'
  <2>1. ASSUME NEW e \in notified' PROVE done'[e] = {"content", "hints", "told"}
    <3>1. e \in Event /\ done[e] = {"content", "hints", "told"}
      BY <1>1, <2>1 DEF Quiet, Globals, NotifiedInFull, Types
    <3>2. done[e] \subseteq done'[e] /\ done'[e] \subseteq {"content", "hints", "told"}
      BY <1>1, <3>1 DEF Grows, Types
    <3> QED BY <3>1, <3>2
  <2>2. ASSUME NEW e \in notified', e \in Phase \ late', NEW f \in Feature,
               phase'[e].changes[f] # "same"
        PROVE  <<e, f>> \in applied'
    <3>1. id'[e] # 0
      BY <2>2 DEF TypeOK
    <3>2. Standing(e) /\ phase'[e] = phase[e] /\ (<<e, f>> \in applied => <<e, f>> \in applied')
      BY <1>2, <2>2, <3>1
    <3>3. e \in notified
      BY <2>2 DEF Quiet
    <3> QED BY <2>2, <3>2, <3>3 DEF Globals, NotifiedInFull, Standing
  <2> QED BY <2>1, <2>2 DEF NotifiedInFull
<1>9. InOrder'
  <2>1. ASSUME NEW f \in Feature, source'[f] # None, source'[f] \notin late',
               NEW q \in Phase \ late', <<q, f>> \in applied'
        PROVE  phase'[q].at <= phase'[source'[f]].at
    <3>1. source'[f] = source[f] /\ <<source'[f], f>> \in applied' /\ source'[f] \in Phase
      BY <1>4, <2>1
    <3>2. id'[q] # 0 /\ <<q, f>> \in applied /\ id'[source'[f]] # 0
      BY <1>5, <2>1, <3>1
    <3>3. /\ Standing(q) /\ phase'[q] = phase[q]
          /\ Standing(source'[f]) /\ phase'[source'[f]] = phase[source'[f]]
      BY <1>2, <2>1, <3>1, <3>2
    <3> QED BY <2>1, <3>1, <3>2, <3>3 DEF Globals, InOrder, Standing
  <2> QED BY <2>1 DEF InOrder
<1>10. ManualStands'
  <2>1. ASSUME NEW f \in Feature PROVE source'[f] \in late' \/ source'[f] \notin settled'[f]
    <3>1. CASE source'[f] = None
      BY <1>1, <3>1 DEF Types
    <3>2. CASE source'[f] # None
      BY <1>4, <3>2 DEF Globals, ManualStands, Quiet, Grows
    <3> QED BY <3>1, <3>2
  <2> QED BY <2>1 DEF ManualStands
<1> QED BY <1>3, <1>6, <1>7, <1>8, <1>9, <1>10 DEF Globals

-----------------------------------------------------------------------------
(* The types.                                                              *)

LEMMA Shapes ==
  /\ Idle \in WorkType /\ Free \in EditType
  /\ Nothing \in Changes
<1>1. Nothing \in Changes
  BY DEF Nothing, Changes, Change
<1>2. 1 \in Time
  BY Constants DEF Time
<1> QED BY <1>1, <1>2 DEF Idle, Free, WorkType, EditType

LEMMA TypeTable ==
  ASSUME TypeOK, IdsOrdered, EditInv,
         \/ Tick \/ (\E e \in Editor : CheckEdit(e) \/ WriteEdit(e) \/ Delete(e))
         \/ (\E i \in Immediate : OpenEvent(i) \/ CommitEvent(i))
  PROVE  TypeOK'
<1>1. CASE Tick
  BY <1>1, Constants DEF Tick, TypeOK, tables, feature, locks, history, Row
<1>2. ASSUME NEW e \in Editor, CheckEdit(e) PROVE TypeOK'
  BY <1>2 DEF CheckEdit, TypeOK, tables, feature, locks, history, Row
<1>3. ASSUME NEW e \in Editor, WriteEdit(e) PROVE TypeOK'
  <2>1. PICK p \in Phase, at \in Time :
          /\ p = edit[e].phase
          /\ at = IF edit[e].kind = "keep" THEN phase[p].at ELSE edit[e].at
    BY <1>3 DEF WriteEdit, EditInv, TypeOK, PhaseRow
  <2>2. \/ UNCHANGED <<phase, late>>
        \/ /\ phase' = [phase EXCEPT ![p] = [row |-> "row", at |-> at,
                                            changes |-> edit[e].changes]]
           /\ late' \in {late, late \cup {p}}
    BY <1>3, <2>1 DEF WriteEdit
  <2>3. phase' \in [Phase -> PhaseRow] /\ late' \subseteq Phase
    <3>1. edit[e].changes \in Changes
      BY DEF TypeOK
    <3>2. [row |-> "row", at |-> at, changes |-> edit[e].changes] \in PhaseRow
      BY <2>1, <3>1 DEF PhaseRow
    <3>3. phase \in [Phase -> PhaseRow] /\ late \subseteq Phase
      BY DEF TypeOK
    <3> QED BY <2>1, <2>2, <3>2, <3>3
  <2>4. \A q \in Phase : Row(q) => Row(q)'
    BY <2>1, <2>2 DEF TypeOK, Row
  <2>5. edit' \in [Editor -> EditType]
    <3>1. edit' = [edit EXCEPT ![e].pc = "done"] /\ edit \in [Editor -> EditType]
      BY <1>3 DEF WriteEdit, TypeOK, EditType
    <3> QED BY <3>1 DEF EditType
  <2> QED BY <1>3, <2>3, <2>4, <2>5 DEF WriteEdit, TypeOK, feature, locks, EditType
<1>4. ASSUME NEW e \in Editor, Delete(e) PROVE TypeOK'
  <2>1. PICK p \in Phase :
          /\ Row(p) /\ phase' = [phase EXCEPT ![p].row = "deleted"]
          /\ id' = [id EXCEPT ![p] = 0] /\ notified' = notified \ {p}
          /\ applied' = {a \in applied : a[1] # p}
          /\ source' = [f \in Feature |-> IF source[f] = p THEN None ELSE source[f]]
    BY <1>4 DEF Delete
  <2>2. phase' \in [Phase -> PhaseRow] /\ id' \in [Event -> Nat]
    <3>1. phase \in [Phase -> PhaseRow] /\ id \in [Event -> Nat]
      BY DEF TypeOK
    <3>2. phase' \in [Phase -> PhaseRow]
      BY <2>1, <3>1 DEF PhaseRow
    <3> QED BY <2>1, <3>1, <3>2
  <2>3. \A q \in Phase : Row(q) /\ q # p => Row(q)'
    BY <2>1 DEF TypeOK, Row
  <2>4. edit' \in [Editor -> EditType]
    <3>1. edit' = [edit EXCEPT ![e].pc = "done"] /\ edit \in [Editor -> EditType]
      BY <1>4 DEF Delete, TypeOK, EditType
    <3> QED BY <3>1 DEF EditType
  <2>5. notified' \subseteq {x \in Event : id'[x] # 0}
    BY <2>1 DEF TypeOK
  <2>6. source' \in [Feature -> {None} \cup {q \in Phase : Row(q)'}]
    BY <2>1, <2>3 DEF TypeOK
  <2>7. applied' \subseteq {q \in Phase : Row(q)'} \X Feature
    BY <2>1, <2>3 DEF TypeOK
  <2> QED BY <1>4, <2>2, <2>4, <2>5, <2>6, <2>7 DEF Delete, TypeOK, locks, history, EditType
<1>5. ASSUME NEW i \in Immediate, OpenEvent(i) PROVE TypeOK'
  BY <1>5 DEF OpenEvent, TypeOK, feature, locks, history, Row
<1>6. ASSUME NEW i \in Immediate, CommitEvent(i) PROVE TypeOK'
  <2>1. id' \in [Event -> Nat] /\ open' \in [Immediate -> Nat]
    BY <1>6 DEF CommitEvent, TypeOK, Event
  <2>2. notified' \subseteq {x \in Event : id'[x] # 0}
    BY <1>6 DEF CommitEvent, TypeOK, Event
  <2> QED BY <1>6, <2>1, <2>2 DEF CommitEvent, TypeOK, feature, locks, history, Row
<1> QED BY <1>1, <1>2, <1>3, <1>4, <1>5, <1>6

(* A worker at rest.                                                       *)
LEMMA Ends ==
  ASSUME TypeOK, NEW w \in Worker, End(w)
  PROVE  /\ pc' \in [Worker -> PC] /\ work' \in [Worker -> WorkType]
         /\ pc'[w] = Rest(w) /\ pc'[w] \in {"idle", "done"} /\ work'[w] = Idle
         /\ \A v \in Worker \ {w} : pc'[v] = pc[v] /\ work'[v] = work[v]
<1>1. pc \in [Worker -> PC] /\ work \in [Worker -> WorkType]
  BY DEF TypeOK, WorkType
<1>2. pc' = [pc EXCEPT ![w] = Rest(w)] /\ work' = [work EXCEPT ![w] = Idle]
  BY DEF End, Goto
<1>3. Rest(w) \in {"idle", "done"} /\ Idle \in WorkType
  BY Shapes DEF Rest
<1> QED BY <1>1, <1>2, <1>3 DEF PC

LEMMA Freed ==
  ASSUME TypeOK, NEW w \in Worker, Frees(w)
  PROVE  /\ held' \in [Feature -> Worker \cup {None}]
         /\ \A f \in Feature : held'[f] # w
         /\ \A v \in Worker \ {w}, f \in Feature : held'[f] = v <=> held[f] = v
BY Constants DEF TypeOK, Frees

(* A step of a worker that touches only its own variables, the lock, the   *)
(* features it has locked, and what the history notes.                     *)
LEMMA TypeStill ==
  ASSUME TypeOK, UNCHANGED <<now, tables, feature, edit, settled, late>>,
         pc' \in [Worker -> PC], work' \in [Worker -> WorkType],
         held' \in [Feature -> Worker \cup {None}], lock' \in Worker \cup {None},
         done' \in [Event -> SUBSET {"content", "hints", "told"}],
         unmarked' \in 0..1, lost' \in 0..1, faults' \in 0..MaxFaults
  PROVE  TypeOK'
BY DEF TypeOK, tables, feature, Row, WorkType

LEMMA Goes ==
  ASSUME TypeOK, NEW w \in Worker, NEW next \in PC, Goto(w, next)
  PROVE  /\ pc' \in [Worker -> PC] /\ pc'[w] = next
         /\ \A v \in Worker \ {w} : pc'[v] = pc[v]
BY DEF TypeOK, Goto

(* What a worker has at hand.                                              *)
LEMMA AtHand ==
  ASSUME TypeOK, NEW w \in Worker
  PROVE  /\ work[w] \in WorkType /\ pc[w] \in PC /\ work \in [Worker -> WorkType]
         /\ work[w].todo \subseteq Event /\ work[w].event \in Event \cup {None}
         /\ work[w].changes \in Changes /\ work[w].left \subseteq Feature
         /\ work[w].writes \subseteq Feature /\ work[w].due \subseteq Phase
         /\ work[w].wish \in Changes
BY DEF TypeOK, WorkType

(* The steps of a worker that change its variables only.                   *)
Local(w) ==
  \/ Request(w) \/ Start(w) \/ List(w) \/ NextEvent(w) \/ ReadChanges(w)
  \/ CheckHistory(w) \/ LockFeature(w) \/ Refuse(w) \/ Mark(w)
  \/ Flag(w) \/ Refresh(w) \/ Tell(w) \/ Unlock(w) \/ LoseLock(w) \/ Fail(w)

(* What such a step leaves alone.                                          *)
Still(w) ==
  /\ UNCHANGED <<now, tables, feature, edit, settled, late>>
  /\ \A v \in Worker \ {w} : pc'[v] = pc[v] /\ work'[v] = work[v]
  /\ \A v \in Worker \ {w}, f \in Feature : held'[f] = v <=> held[f] = v
  /\ \A e \in Event : done[e] \subseteq done'[e]

LEMMA LocalTypes ==
  ASSUME TypeOK, WorkInv, NEW w \in Worker, Local(w)
  PROVE  TypeOK' /\ Still(w)
<1> DEFINE V == work' \in [Worker -> WorkType] /\ \A v \in Worker \ {w} : work'[v] = work[v]
           P == pc' \in [Worker -> PC] /\ \A v \in Worker \ {w} : pc'[v] = pc[v]
           H == /\ held' \in [Feature -> Worker \cup {None}]
                /\ \A v \in Worker \ {w}, f \in Feature : held'[f] = v <=> held[f] = v
           D == /\ done' \in [Event -> SUBSET {"content", "hints", "told"}]
                /\ \A e \in Event : done[e] \subseteq done'[e]
           O == /\ lock' \in Worker \cup {None} /\ unmarked' \in 0..1 /\ lost' \in 0..1
                /\ faults' \in 0..MaxFaults
           T == UNCHANGED <<now, tables, feature, edit, settled, late>>
<1>1. V /\ P /\ H /\ D /\ O /\ T => TypeOK' /\ Still(w)
  <2>1. V /\ P /\ H /\ D /\ O /\ T => TypeOK'
    BY TypeStill
  <2>2. V /\ P /\ H /\ D /\ O /\ T => Still(w)
    BY DEF Still
  <2> QED BY <2>1, <2>2
<1>2. /\ UNCHANGED work => V
      /\ UNCHANGED pc => P
      /\ UNCHANGED held => H
      /\ UNCHANGED done => D
  BY AtHand DEF TypeOK
<1>3. UNCHANGED <<lock, unmarked, lost, faults>> => O
  BY DEF TypeOK
<1>4. ASSUME NEW next \in PC, Goto(w, next) PROVE P
  BY <1>4, Goes
<1>5. ASSUME NEW r \in WorkType, work' = [work EXCEPT ![w] = r] PROVE V
  BY <1>5, AtHand
<1>6. CASE Request(w)
  <2>1. PICK f \in Feature, s \in State :
          work' = [work EXCEPT ![w].wish = [Nothing EXCEPT ![f] = s],
                               ![w].due = {p \in Phase : Due(p)}]
    BY <1>6 DEF Request
  <2>2. [Nothing EXCEPT ![f] = s] \in Changes
    BY DEF Nothing, Changes, Change, State
  <2>3. PICK due \in SUBSET Phase : due = {p \in Phase : Due(p)}
    OBVIOUS
  <2>4. V
    <3>1. [work[w] EXCEPT !.wish = [Nothing EXCEPT ![f] = s], !.due = due] \in WorkType
      BY <2>2, AtHand DEF WorkType
    <3> QED BY <1>5, <2>1, <2>3, <3>1
  <2> QED BY <1>1, <1>2, <1>3, <1>4, <1>6, <2>4 DEF Request, PC, locks, history
<1>7. CASE Start(w)
  BY <1>1, <1>2, <1>4, <1>7 DEF Start, PC, history, TypeOK
<1>8. CASE List(w)
  <2>1. V
    <3>1. PICK todo \in SUBSET Event : todo = {e \in Event : id[e] # 0 /\ e \notin notified}
      OBVIOUS
    <3>2. [work[w] EXCEPT !.todo = todo] \in WorkType
      BY AtHand DEF WorkType
    <3> QED BY <1>5, <1>8, <3>1, <3>2 DEF List
  <2> QED BY <1>1, <1>2, <1>3, <1>4, <1>8, <2>1 DEF List, PC, locks, history
<1>9. CASE NextEvent(w)
  <2>1. PICK e \in work[w].todo :
          /\ work' = [work EXCEPT ![w].event = e, ![w].todo = @ \ {e}]
          /\ Goto(w, IF e \in Phase THEN "changes" ELSE "flag")
    BY <1>9 DEF NextEvent
  <2>2. V
    <3>1. [work[w] EXCEPT !.event = e, !.todo = work[w].todo \ {e}] \in WorkType
      BY AtHand DEF WorkType
    <3> QED BY <1>5, <2>1, <3>1
  <2>3. P
    BY <1>4, <2>1 DEF PC
  <2> QED BY <1>1, <1>2, <1>3, <1>9, <2>2, <2>3 DEF NextEvent, locks, history
<1>10. CASE ReadChanges(w)
  <2>1. PICK changes \in Changes :
          /\ changes = IF Row(work[w].event) THEN phase[work[w].event].changes ELSE Nothing
          /\ work' = [work EXCEPT ![w].changes = changes,
                                  ![w].left = {f \in Feature : changes[f] # "same"}]
    <3>1. pc[w] = "changes" /\ work[w].event \in Phase
      BY <1>10 DEF ReadChanges, WorkInv, Changing
    <3>2. phase[work[w].event].changes \in Changes /\ Nothing \in Changes
      BY <3>1, Shapes DEF TypeOK, PhaseRow
    <3> QED BY <1>10, <3>2 DEF ReadChanges
  <2>2. V
    <3>1. PICK left \in SUBSET Feature : left = {f \in Feature : changes[f] # "same"}
      OBVIOUS
    <3>2. [work[w] EXCEPT !.changes = changes, !.left = left] \in WorkType
      BY AtHand DEF WorkType
    <3> QED BY <1>5, <2>1, <3>1, <3>2
  <2> QED BY <1>1, <1>2, <1>3, <1>4, <1>10, <2>2 DEF ReadChanges, PC, locks, history
<1>11. CASE CheckHistory(w)
  <2>1. V
    <3>1. [work[w] EXCEPT !.left = work[w].left \ {Least(work[w].left)}] \in WorkType
      BY AtHand DEF WorkType
    <3> QED BY <1>2, <1>5, <1>11, <3>1 DEF CheckHistory
  <2>2. P
    BY <1>2, <1>4, <1>11 DEF CheckHistory, PC
  <2> QED BY <1>1, <1>2, <1>3, <1>11, <2>1, <2>2 DEF CheckHistory, locks, history
<1>12. CASE LockFeature(w)
  <2>1. PICK f \in Feature :
          /\ f = Least(work[w].left) /\ held[f] = None
          /\ held' = [held EXCEPT ![f] = w]
          /\ work' = [work EXCEPT ![w].left = @ \ {f}, ![w].writes = @ \cup {f}]
    <3>1. work[w].left \subseteq Feature /\ work[w].left # {}
      BY <1>12, AtHand DEF LockFeature, WorkInv, Changing
    <3> QED BY <1>12, <3>1, LeastIs DEF LockFeature
  <2>2. V
    <3>1. [work[w] EXCEPT !.left = work[w].left \ {f}, !.writes = work[w].writes \cup {f}]
            \in WorkType
      BY AtHand DEF WorkType
    <3> QED BY <1>5, <2>1, <3>1
  <2>3. H
    BY <2>1, Constants DEF TypeOK
  <2> QED BY <1>1, <1>2, <1>4, <1>12, <2>2, <2>3 DEF LockFeature, PC, history, TypeOK
<1>13. CASE Refuse(w)
  BY <1>1, <1>2, <1>13, Ends, Freed DEF Refuse, Unlocks, history, TypeOK
<1>14. CASE Mark(w)
  BY <1>1, <1>2, <1>4, <1>14 DEF Mark, PC, locks, TypeOK
<1>15. ASSUME NEW from, NEW what \in {"content", "hints", "told"}, NEW next \in PC,
              Serves(w, from, what, next)
       PROVE  TypeOK' /\ Still(w)
  <2>1. D
    BY <1>15 DEF Serves, TypeOK
  <2> QED BY <1>1, <1>2, <1>3, <1>4, <1>15, <2>1 DEF Serves, locks, history
<1>16. CASE Flag(w) \/ Refresh(w) \/ Tell(w)
  BY <1>15, <1>16 DEF Flag, Refresh, Tell, PC
<1>17. CASE Unlock(w)
  <2>1. V /\ P
    <3>1. CASE End(w)
      BY <3>1, Ends
    <3>2. CASE ~End(w)
      <4>1. PICK left \in SUBSET Feature : left = {f \in Feature : work[w].wish[f] # "same"}
        OBVIOUS
      <4>2. [work[w] EXCEPT !.event = None, !.changes = work[w].wish, !.left = left] \in WorkType
        BY AtHand DEF WorkType
      <4>3. /\ work' = [work EXCEPT ![w] = [work[w] EXCEPT !.event = None,
                                               !.changes = work[w].wish, !.left = left]]
            /\ Goto(w, "lock") /\ "lock" \in PC
        BY <1>17, <3>2, <4>1 DEF Unlock, PC
      <4> QED BY <1>4, <1>5, <4>2, <4>3
    <3> QED BY <3>1, <3>2
  <2> QED BY <1>1, <1>2, <1>17, <2>1 DEF Unlock, Unlocks, history, TypeOK
<1>18. CASE LoseLock(w)
  BY <1>1, <1>2, <1>18, Constants DEF LoseLock, Fault, TypeOK
<1>19. CASE Fail(w)
  BY <1>1, <1>2, <1>19, Ends, Freed, Constants DEF Fail, Fault, Unlocks, TypeOK
<1> QED BY <1>6, <1>7, <1>8, <1>9, <1>10, <1>11, <1>12, <1>13, <1>14, <1>16, <1>17, <1>18,
           <1>19 DEF Local

LEMMA OtherTypes ==
  ASSUME TypeOK, WorkInv, IdsOrdered, NEW w \in Worker,
         Materialize(w) \/ MarkNotified(w)
  PROVE  TypeOK'
<1>1. CASE Materialize(w)
  <2>1. PICK fresh \in SUBSET Phase :
          /\ fresh = {p \in Phase : Due(p) /\ id[p] = 0}
          /\ id' = [e \in Event |->
                      IF e \in fresh
                      THEN sequence + Cardinality({p \in fresh : phase[p].at <= phase[e].at})
                      ELSE id[e]]
          /\ sequence' = sequence + Cardinality(fresh)
    BY <1>1 DEF Materialize
  <2>2. \A S \in SUBSET Phase : Cardinality(S) \in Nat
    BY Constants, FS_Subset, FS_CardinalityType
  <2>3. ASSUME NEW e \in Event PROVE Cardinality({p \in fresh : phase[p].at <= phase[e].at}) \in Nat
    BY <2>2
  <2>4. id' \in [Event -> Nat] /\ sequence' \in Nat
    BY <2>1, <2>2, <2>3 DEF TypeOK
  <2>5. \A e \in notified : id'[e] # 0 /\ e \in Event
    BY <2>1 DEF TypeOK
  <2>6. pc' \in [Worker -> PC]
    BY <1>1, Goes DEF Materialize, PC
  <2> QED BY <1>1, <2>4, <2>5, <2>6 DEF Materialize, TypeOK, Row, feature, locks, history
<1>2. CASE MarkNotified(w)
  <2>1. pc' \in [Worker -> PC] /\ work[w].event \in Event
    BY <1>2, Goes, AtHand DEF MarkNotified, PC, WorkInv, Told
  <2> QED BY <1>2, <2>1 DEF MarkNotified, TypeOK, Row, feature, locks, history
<1> QED BY <1>1, <1>2

(* What the transaction that changes the features commits.                 *)
Commits(w) ==
  /\ pc[w] = "check" /\ work[w].left = {}
  /\ Writes(w)
  /\ UNCHANGED <<now, tables, edit, done, late>>

LEMMA CommitTypes ==
  ASSUME TypeOK, WorkInv, NEW w \in Worker, Commit(w) \/ CommitUnheard(w)
  PROVE  /\ TypeOK' /\ Commits(w)
         /\ \A v \in Worker \ {w} : pc'[v] = pc[v] /\ work'[v] = work[v]
         /\ \A v \in Worker \ {w}, f \in Feature : held'[f] = v <=> held[f] = v
<1>1. PICK p \in Phase \cup {None}, W \in SUBSET Feature, changes \in Changes :
        /\ p = work[w].event /\ W = work[w].writes /\ changes = work[w].changes
        /\ \A f \in W : changes[f] # "same"
        /\ p # None => \A f \in W : Row(p)
  <2>1. Changing(w) /\ pc[w] = "check"
    BY DEF WorkInv, Commit, CommitUnheard
  <2>2. work[w].event \in Phase \cup {None}
    BY <2>1 DEF Changing
  <2>3. /\ \A f \in work[w].writes : work[w].changes[f] # "same"
        /\ work[w].event # None => \A f \in work[w].writes : Row(work[w].event)
    BY <2>1 DEF Changing
  <2>4. work[w].changes \in Changes /\ work[w].writes \in SUBSET Feature
    BY AtHand
  <2> QED BY <2>2, <2>3, <2>4, Zenon
<1>2. Commits(w)
  BY DEF Commit, CommitUnheard, Commits
<1>3. state' \in [Feature -> State]
  BY <1>1, <1>2 DEF Commits, Writes, TypeOK, Changes, Change, State
<1>4. source' \in [Feature -> {None} \cup {q \in Phase : Row(q)}]
  BY <1>1, <1>2 DEF Commits, Writes, TypeOK
<1>5. applied' \subseteq {q \in Phase : Row(q)} \X Feature
  BY <1>1, <1>2 DEF Commits, Writes, TypeOK
<1>6. settled' \in [Feature -> SUBSET Phase]
  BY <1>2, AtHand DEF Commits, Writes, TypeOK
<1>7. /\ held' \in [Feature -> Worker \cup {None}]
      /\ \A v \in Worker \ {w}, f \in Feature : held'[f] = v <=> held[f] = v
  BY <1>2, Freed DEF Commits, Writes
<1>8. /\ lock' \in Worker \cup {None} /\ unmarked' \in 0..1 /\ lost' \in 0..1
      /\ faults' \in 0..MaxFaults
  BY Constants DEF Commit, CommitUnheard, Fault, Unlocks, TypeOK
<1>9. /\ pc' \in [Worker -> PC] /\ work' \in [Worker -> WorkType]
      /\ \A v \in Worker \ {w} : pc'[v] = pc[v] /\ work'[v] = work[v]
  <2>1. CASE Commit(w)
    <3>1. [work[w] EXCEPT !.writes = {}] \in WorkType
      BY AtHand DEF WorkType
    <3>2. work' = [work EXCEPT ![w] = [work[w] EXCEPT !.writes = {}]]
      BY <2>1 DEF Commit
    <3>3. \E next \in PC : Goto(w, next)
      BY <2>1 DEF Commit, PC
    <3> QED BY <3>1, <3>2, <3>3, AtHand, Goes
  <2>2. CASE CommitUnheard(w)
    BY <2>2, Ends DEF CommitUnheard
  <2> QED BY <2>1, <2>2
<1>10. TypeOK'
  <2>1. UNCHANGED <<now, phase, id, open, sequence, notified, edit, done, late>>
    BY <1>2 DEF Commits, tables
  <2> QED BY <1>3, <1>4, <1>5, <1>6, <1>7, <1>8, <1>9, <2>1 DEF TypeOK, Row, WorkType
<1> QED BY <1>2, <1>7, <1>9, <1>10

-----------------------------------------------------------------------------
(* What a step does to the others.                                         *)

LEMMA Others ==
  ASSUME TypeOK, TypeOK', IdsOrdered, Grows, WorkInv, NEW w \in Worker,
         \A v \in Worker \ {w} : pc'[v] = pc[v] /\ work'[v] = work[v],
         \A v \in Worker \ {w}, f \in Feature : held'[f] = v <=> held[f] = v,
         \A a \in applied' : a \in applied \/ (a[2] \in Feature /\ held[a[2]] = w)
  PROVE  \A v \in Worker \ {w} : Listed(v)' /\ Changing(v)' /\ Told(v)'
<1>1. ASSUME NEW v \in Worker \ {w}, NEW f \in work[v].writes
      PROVE  <<work[v].event, f>> \notin applied'
  <2>1. Changing(v) /\ f \in Feature /\ held[f] = v
    BY <1>1, AtHand DEF WorkInv, Changing
  <2>2. <<work[v].event, f>> \notin applied
    <3>1. CASE work[v].event = None
      BY <3>1, Constants DEF TypeOK, Event
    <3>2. CASE work[v].event # None
      BY <1>1, <2>1, <3>2 DEF Changing
    <3> QED BY <3>1, <3>2
  <2>3. <<work[v].event, f>> \in applied' =>
          <<work[v].event, f>> \in applied \/ held[f] = w
    BY <2>1
  <2> QED BY <2>1, <2>2, <2>3
<1> QED BY <1>1, OthersKeep DEF WorkInv

(* A step of the schedule, of which no worker knows.                       *)
LEMMA TableQuiet ==
  ASSUME IInv, TypeOK',
         \/ Tick \/ (\E e \in Editor : CheckEdit(e) \/ WriteEdit(e) \/ Delete(e))
         \/ (\E i \in Immediate : OpenEvent(i) \/ CommitEvent(i))
  PROVE  Quiet
<1>0. Types
  BY Typed DEF IInv
<1> USE DEF IInv, Types
<1>1. ASSUME UNCHANGED <<phase, id, open, notified, feature, settled, done, late>>,
             now' \in Nat, sequence' \in Nat, now <= now', sequence <= sequence'
      PROVE  Quiet
  <2>1. Grows
    <3>1. \A p \in Phase : (Standing(p)' => Standing(p)) /\ (Row(p)' <=> Row(p))
      BY <1>1 DEF Standing, Row
    <3> QED BY <1>1, <3>1 DEF Grows, feature
  <2>2. /\ \A e \in Event : id'[e] <= sequence'
        /\ \A i \in Immediate : open'[i] <= sequence'
    BY <1>0, <1>1 DEF IdsOrdered
  <2> QED BY <1>0, <1>1, <2>1, <2>2 DEF Quiet, feature, IdsOrdered, Row
<1>2. CASE Tick
  BY <1>0, <1>1, <1>2 DEF Tick, tables, history
<1>3. ASSUME NEW e \in Editor, CheckEdit(e) PROVE Quiet
  BY <1>0, <1>1, <1>3 DEF CheckEdit, tables, history
<1>4. ASSUME NEW i \in Immediate, OpenEvent(i) PROVE Quiet
  <2>1. Grows
    BY <1>0, <1>4 DEF OpenEvent, Grows, Standing, Row, feature, history
  <2>2. \A e \in Event : id'[e] <= sequence'
    BY <1>0, <1>4 DEF OpenEvent, IdsOrdered
  <2>3. \A j \in Immediate : open'[j] <= sequence'
    BY <1>0, <1>4 DEF OpenEvent, IdsOrdered
  <2> QED BY <1>0, <1>4, <2>1, <2>2, <2>3 DEF OpenEvent, Quiet, feature, history, IdsOrdered, Row
<1>5. ASSUME NEW i \in Immediate, CommitEvent(i) PROVE Quiet
  <2>1. \A p \in Phase : id'[p] = id[p]
    BY <1>0, <1>5, Constants DEF CommitEvent
  <2>2. Grows
    BY <1>0, <1>5, <2>1 DEF CommitEvent, Grows, Standing, Row, feature, history
  <2>3. \A e \in Event : id'[e] <= sequence'
    BY <1>0, <1>5 DEF CommitEvent, IdsOrdered, Event
  <2>4. \A j \in Immediate : open'[j] <= sequence'
    BY <1>0, <1>5 DEF CommitEvent, IdsOrdered
  <2>5. \A a \in applied : a[1] \in Phase
    BY <1>0
  <2> QED BY <1>0, <1>5, <2>1, <2>2, <2>3, <2>4, <2>5
          DEF CommitEvent, Quiet, feature, history, IdsOrdered, Row
<1>6. ASSUME NEW e \in Editor, WriteEdit(e) PROVE Quiet
  <2>1. CASE UNCHANGED <<phase, late>>
    BY <1>0, <1>1, <1>6, <2>1 DEF WriteEdit
  <2>2. CASE ~UNCHANGED <<phase, late>>
    <3>1. PICK p \in Phase, at \in Nat, changes \in Changes :
            /\ phase[p].row \in {"new", "row"}
            /\ phase' = [phase EXCEPT ![p] = [row |-> "row", at |-> at, changes |-> changes]]
            /\ late' = IF at <= now \/ Due(p) \/ id[p] # 0 THEN late \cup {p} ELSE late
      <4>1. edit[e].phase \in Phase /\ edit[e].changes \in Changes /\ edit[e].at \in Nat
        BY <1>0, <1>6, Constants DEF WriteEdit, EditInv, EditType, Time
      <4> QED BY <1>0, <1>6, <2>2, <4>1 DEF WriteEdit
    <3>2. \A q \in Phase \ {p} : phase'[q] = phase[q]
      BY <1>0, <3>1
    <3>3. phase'[p] = [row |-> "row", at |-> at, changes |-> changes]
      BY <1>0, <3>1
    <3>4. \A q \in Phase : /\ phase[q].row # "new" => phase'[q].row # "new"
                           /\ Row(q) => Row(q)'
      BY <3>2, <3>3 DEF Row
    <3>5. \A q \in Phase : phase[q].row # "new" => (Row(q)' => Row(q))
      BY <3>1, <3>2 DEF Row
    <3>6. UNCHANGED <<now, id, open, sequence, notified, feature, work, settled, done>>
      BY <1>6 DEF WriteEdit
    <3>7. late \subseteq late'
      BY <3>1
    <3>8. ASSUME NEW q \in Phase, Standing(q)'
          PROVE  \/ Standing(q) /\ phase'[q] = phase[q]
                 \/ /\ now < phase'[q].at /\ id[q] = 0
                    /\ Standing(q) => now < phase[q].at
      <4>1. CASE q = p
        <5>1. p \notin late'
          BY <3>8, <4>1 DEF Standing
        <5>2. ~(at <= now) /\ ~Due(p) /\ id[p] = 0
          BY <3>1, <5>1
        <5> QED BY <1>0, <3>3, <4>1, <5>2 DEF Standing, Due
      <4>2. CASE q # p
        BY <3>2, <3>7, <3>8, <4>2 DEF Standing, Row
      <4> QED BY <4>1, <4>2
    <3>9. Grows
      <4>1. now <= now' /\ \A x \in Event : done[x] \subseteq done'[x]
        BY <1>0, <3>6
      <4> QED BY <3>4, <3>5, <3>6, <3>7, <3>8, <4>1 DEF Grows, feature
    <3> QED BY <1>0, <3>4, <3>6, <3>9 DEF Quiet, feature, IdsOrdered
  <2> QED BY <2>1, <2>2
<1>7. ASSUME NEW e \in Editor, Delete(e) PROVE Quiet
  <2>1. PICK p \in Phase :
          /\ Row(p) /\ ~Referred(p) /\ phase' = [phase EXCEPT ![p].row = "deleted"]
          /\ id' = [id EXCEPT ![p] = 0] /\ notified' = notified \ {p}
          /\ applied' = {a \in applied : a[1] # p}
          /\ source' = [f \in Feature |-> IF source[f] = p THEN None ELSE source[f]]
    BY <1>7 DEF Delete
  <2>2. \A q \in Phase \ {p} : phase'[q] = phase[q]
    BY <1>0, <2>1
  <2>3. phase'[p].row = "deleted" /\ phase[p].row = "row"
    BY <1>0, <2>1 DEF PhaseRow, Row
  <2>4. id'[p] = 0 /\ \A x \in Event \ {p} : id'[x] = id[x]
    BY <1>0, <2>1 DEF Event
  <2>5. UNCHANGED <<now, open, sequence, work, settled, late, done>>
    BY <1>7 DEF Delete, history
  <2>6. \A v \in Worker : work[v].event = p => work[v].writes = {}
    BY <2>1 DEF Referred
  <2>7. ASSUME NEW q \in Phase, q # p
        PROVE  /\ Standing(q)' <=> Standing(q)
               /\ q \in notified => q \in notified'
               /\ \A f \in Feature : <<q, f>> \in applied => <<q, f>> \in applied'
    BY <2>1, <2>2, <2>5, <2>7 DEF Standing, Row
  <2>8. Grows
    <3>1. now <= now' /\ \A x \in Event : done[x] \subseteq done'[x]
      BY <1>0, <2>5
    <3>2. ~Standing(p)' /\ ~Row(p)'
      BY <2>3 DEF Standing, Row
    <3>3. ASSUME NEW q \in Phase
          PROVE  /\ phase[q].row # "new" => phase'[q].row # "new" /\ (Row(q)' => Row(q))
                 /\ Row(q)' /\ id[q] # 0 => id'[q] # 0
                 /\ Standing(q)' =>
                      /\ Standing(q) /\ phase'[q] = phase[q] /\ (q \in notified => q \in notified')
                      /\ \A f \in Feature : <<q, f>> \in applied => <<q, f>> \in applied'
      <4>1. CASE q = p
        BY <2>3, <3>2, <4>1
      <4>2. CASE q # p
        BY <2>2, <2>4, <2>7, <4>2 DEF Row, Event
      <4> QED BY <4>1, <4>2
    <3>4. ASSUME NEW v \in Worker, work[v].writes # {}, work[v].event \in Phase,
                 Row(work[v].event)
          PROVE  Row(work[v].event)'
      BY <2>2, <2>5, <2>6, <3>4 DEF Row
    <3> QED BY <2>5, <3>1, <3>3, <3>4 DEF Grows
  <2>9. /\ \A x \in Event : id'[x] <= sequence'
        /\ \A i \in Immediate : open'[i] <= sequence'
    BY <1>0, <2>4, <2>5 DEF IdsOrdered
  <2>10. \A q \in Phase : /\ id'[q] = id[q] \/ (id'[q] = 0 /\ ~Row(q)')
                          /\ id'[q] # 0 => Row(q)'
    BY <2>2, <2>3, <2>4 DEF Row, Event, IdsOrdered
  <2>11. applied' \subseteq applied /\ \A a \in applied' : id'[a[1]] = id[a[1]]
    <3>1. \A a \in applied : a[1] \in Phase
      BY <1>0
    <3> QED BY <2>1, <2>4, <3>1 DEF Event
  <2>12. ASSUME NEW f \in Feature, source'[f] # None
         PROVE  source'[f] = source[f] /\ (<<source[f], f>> \in applied => <<source[f], f>> \in applied')
    BY <2>1, <2>12
  <2> QED BY <2>1, <2>5, <2>8, <2>9, <2>10, <2>11, <2>12 DEF Quiet
<1> QED BY <1>2, <1>3, <1>4, <1>5, <1>6, <1>7

LEMMA TableStep ==
  ASSUME IInv,
         \/ Tick \/ (\E e \in Editor : CheckEdit(e) \/ WriteEdit(e) \/ Delete(e))
         \/ (\E i \in Immediate : OpenEvent(i) \/ CommitEvent(i))
  PROVE  IInv'
<1>1. TypeOK'
  BY TypeTable DEF IInv
<1>2. Quiet
  BY <1>1, TableQuiet
<1>3. Globals'
  BY <1>1, <1>2, QuietKeeps DEF IInv, Globals
<1>4. UNCHANGED <<pc, work, held>>
  BY DEF Tick, CheckEdit, WriteEdit, Delete, OpenEvent, CommitEvent, locks
<1>5. WorkInv'
  <2> SUFFICES ASSUME NEW v \in Worker PROVE Listed(v)' /\ Changing(v)' /\ Told(v)'
    BY DEF WorkInv
  <2>1. \A f \in work[v].writes : <<work[v].event, f>> \notin applied'
    <3>1. CASE work[v].event = None
      BY <1>1, <3>1, Constants DEF TypeOK, Event
    <3>2. CASE work[v].event # None
      BY <1>2, <3>2 DEF IInv, WorkInv, Changing, Quiet
    <3> QED BY <3>1, <3>2
  <2> QED BY <1>1, <1>2, <1>4, <2>1, OthersKeep DEF IInv, WorkInv, Quiet
<1>6. EditInv'
  <2>1. ASSUME NEW e \in Editor, CheckEdit(e) PROVE EditInv'
    BY <2>1 DEF CheckEdit, EditInv, IInv, TypeOK
  <2>2. ASSUME NEW e \in Editor, WriteEdit(e) \/ Delete(e) PROVE EditInv'
    <3>1. edit' = [edit EXCEPT ![e].pc = "done"] /\ edit \in [Editor -> EditType]
      BY <2>2 DEF WriteEdit, Delete, IInv, TypeOK, EditType
    <3>2. \A d \in Editor : edit'[d].phase = edit[d].phase /\ (edit'[d].pc = edit[d].pc
                              \/ edit'[d].pc = "done")
      BY <3>1 DEF EditType
    <3> QED BY <3>2 DEF EditInv, IInv
  <2>3. CASE UNCHANGED edit
    BY <2>3 DEF EditInv, IInv
  <2> QED BY <2>1, <2>2, <2>3 DEF Tick, OpenEvent, CommitEvent
<1> QED BY <1>1, <1>3, <1>5, <1>6 DEF IInv, Globals

LEMMA StillQuiet ==
  ASSUME IInv, NEW w \in Worker, Still(w)
  PROVE  Quiet
<1>1. UNCHANGED <<now, phase, id, open, sequence, notified, source, applied, settled, late>>
  BY DEF Still, tables, feature
<1>2. Types
  BY Typed DEF IInv
<1>3. \A p \in Phase : (Standing(p)' <=> Standing(p)) /\ (Row(p)' <=> Row(p))
  BY <1>1 DEF Standing, Row
<1>4. Grows
  BY <1>1, <1>2, <1>3 DEF Grows, Still, Types
<1> QED BY <1>1, <1>3, <1>4 DEF Quiet, IInv, IdsOrdered

LEMMA LocalStep ==
  ASSUME IInv, NEW w \in Worker, Local(w), Listed(w)', Changing(w)', Told(w)'
  PROVE  IInv'
<1>1. TypeOK' /\ Still(w)
  BY LocalTypes DEF IInv
<1>2. Quiet
  BY <1>1, StillQuiet
<1>3. Globals'
  BY <1>1, <1>2, QuietKeeps DEF IInv, Globals
<1>4. \A v \in Worker \ {w} : Listed(v)' /\ Changing(v)' /\ Told(v)'
  BY <1>1, <1>2, Others DEF IInv, Quiet, Still, feature
<1>5. WorkInv'
  BY <1>4 DEF WorkInv
<1>6. EditInv'
  BY <1>1 DEF Still, EditInv, IInv
<1> QED BY <1>1, <1>3, <1>5, <1>6 DEF IInv, Globals

-----------------------------------------------------------------------------
(* What a step does to the worker that takes it.                           *)

(* Where the variables a step leaves alone are seen as they were.          *)
Same == UNCHANGED <<now, phase, id, notified, applied, late>>

LEMMA SameViews ==
  ASSUME Same, NEW p \in Phase, NEW q \in Phase
  PROVE  /\ Standing(p)' <=> Standing(p)
         /\ Earlier(p, q)' <=> Earlier(p, q)
         /\ Row(p)' <=> Row(p)
BY DEF Same, Standing, Earlier, Row

(* At rest.                                                                *)
LEMMA AtRest ==
  ASSUME TypeOK, NEW w \in Worker, End(w), \A f \in Feature : held'[f] # w
  PROVE  Listed(w)' /\ Changing(w)' /\ Told(w)'
<1>1. pc'[w] \in {"idle", "done"} /\ work'[w] = Idle
  BY Ends
<1>2. None \notin Phase
  BY Constants DEF Event
<1>3. Listed(w)'
  BY <1>1 DEF Listed, Serving, Idle
<1>4. Changing(w)'
  BY <1>1, <1>2 DEF Changing, Idle, Standing
<1>5. Told(w)'
  BY <1>1 DEF Told
<1> QED BY <1>3, <1>4, <1>5

LEMMA RequestOwn ==
  ASSUME IInv, NEW w \in Worker, Request(w)
  PROVE  Listed(w)' /\ Changing(w)' /\ Told(w)'
<1>1. PICK f \in Feature, s \in State :
        work' = [work EXCEPT ![w].wish = [Nothing EXCEPT ![f] = s],
                             ![w].due = {p \in Phase : Due(p)}]
  BY DEF Request
<1>2. /\ work'[w].wish = [Nothing EXCEPT ![f] = s] /\ work'[w].due = {p \in Phase : Due(p)}
      /\ work'[w].event = work[w].event /\ work'[w].todo = work[w].todo
      /\ work'[w].writes = work[w].writes /\ work'[w].left = work[w].left
      /\ work'[w].changes = work[w].changes
  BY <1>1, AtHand DEF IInv, WorkType
<1>3. pc[w] = "idle" /\ pc'[w] = "wait" /\ UNCHANGED held /\ Same
  BY Goes DEF IInv, Request, PC, tables, feature, history, locks, Same
<1>4. work'[w].wish[f] # "same"
  BY <1>2 DEF Nothing, State
<1>5. Listed(w)'
  BY <1>2, <1>3 DEF Listed, Serving, Same, Due, Row, Standing
<1>6. Changing(w)'
  <2>1. Changing(w) /\ work[w].event = None /\ work[w].writes = {}
    BY <1>3 DEF IInv, WorkInv, Changing
  <2>2. None \notin Phase
    BY Constants DEF Event
  <2> QED BY <1>2, <1>3, <1>4, <2>1, <2>2 DEF Changing, Standing
<1>7. Told(w)'
  BY <1>3 DEF Told
<1> QED BY <1>5, <1>6, <1>7

LEMMA StartOwn ==
  ASSUME IInv, NEW w \in Worker, Start(w)
  PROVE  Listed(w)' /\ Changing(w)' /\ Told(w)'
<1>1. /\ pc[w] \in {"idle", "wait"} /\ (w \in Admin => pc[w] = "wait")
      /\ pc'[w] = "materialize" /\ UNCHANGED <<work, held>> /\ Same
  BY Goes, Constants DEF IInv, Start, Begins, PC, tables, feature, history, Same, Worker
<1>2. Listed(w) /\ Changing(w) /\ work[w].event = None /\ work[w].writes = {}
  BY <1>1 DEF IInv, WorkInv, Changing
<1>3. None \notin Phase
  BY Constants DEF Event
<1>4. Listed(w)'
  BY <1>1, <1>2 DEF Listed, Serving, Same, Row, Standing
<1>5. Changing(w)'
  BY <1>1, <1>2, <1>3 DEF Changing, Standing
<1>6. Told(w)'
  BY <1>1 DEF Told
<1> QED BY <1>4, <1>5, <1>6

LEMMA ListOwn ==
  ASSUME IInv, NEW w \in Worker, List(w)
  PROVE  Listed(w)' /\ Changing(w)' /\ Told(w)'
<1>1. pc[w] = "list" /\ pc'[w] = "next" /\ UNCHANGED held /\ Same
  BY Goes DEF IInv, List, PC, tables, feature, history, locks, Same
<1>2. /\ work' = [work EXCEPT ![w] = [work[w] EXCEPT
                    !.todo = {e \in Event : id[e] # 0 /\ e \notin notified}]]
      /\ work[w] \in WorkType
  BY AtHand DEF IInv, List
<1>3. /\ work'[w].todo = {e \in Event : id[e] # 0 /\ e \notin notified}
      /\ work'[w].event = work[w].event /\ work'[w].due = work[w].due
      /\ work'[w].writes = work[w].writes /\ work'[w].left = work[w].left
      /\ work'[w].changes = work[w].changes /\ work'[w].wish = work[w].wish
  BY <1>2, AtHand DEF IInv, WorkType
<1>4. Listed(w) /\ Changing(w) /\ work[w].event = None /\ work[w].writes = {}
  BY <1>1 DEF IInv, WorkInv, Changing
<1>5. None \notin Phase /\ work[w].due \subseteq Phase /\ Phase \subseteq Event
  BY Constants, AtHand DEF Event, IInv
<1>6. Listed(w)'
  <2>1. ASSUME NEW p \in work[w].due
        PROVE  /\ phase'[p].row # "new"
               /\ Standing(p)' => phase'[p].at <= now' /\ InSight(w, p)'
    BY <1>1, <1>3, <1>4, <1>5, <2>1 DEF Listed, Same, Row, Standing, InSight
  <2>2. ASSUME NEW q \in Phase, q \in work'[w].todo
        PROVE  phase'[q].row # "new" /\ (Row(q)' => id'[q] # 0)
    BY <1>1, <1>3, <2>2 DEF Same, Row, IInv, IdsOrdered
  <2>3. ASSUME NEW q \in Phase, NEW p \in Phase, Standing(q)', Earlier(p, q)',
               q \in work'[w].todo
        PROVE  InSight(w, p)'
    <3>1. Standing(q) /\ Earlier(p, q) /\ id[q] # 0
      BY <1>1, <1>3, <2>3, SameViews
    <3>2. id[p] # 0
      BY <3>1 DEF IInv, IdsOrdered
    <3> QED BY <1>1, <1>3, <1>5, <3>2 DEF Same, InSight
  <2> QED BY <1>1, <1>3, <1>4, <1>5, <2>1, <2>2, <2>3 DEF Listed
<1>7. Changing(w)'
  BY <1>1, <1>3, <1>4, <1>5 DEF Changing, Standing
<1>8. Told(w)'
  BY <1>1 DEF Told
<1> QED BY <1>6, <1>7, <1>8

LEMMA NextEventOwn ==
  ASSUME IInv, NEW w \in Worker, NextEvent(w)
  PROVE  Listed(w)' /\ Changing(w)' /\ Told(w)'
<1>1. PICK e \in work[w].todo :
        /\ \A d \in work[w].todo : id[e] <= id[d]
        /\ work' = [work EXCEPT ![w].event = e, ![w].todo = @ \ {e}]
        /\ Goto(w, IF e \in Phase THEN "changes" ELSE "flag")
  BY DEF NextEvent
<1>2. PICK todo \in SUBSET Event : todo = work[w].todo
  BY AtHand DEF IInv
<1>3. work' = [work EXCEPT ![w] = [work[w] EXCEPT !.event = e, !.todo = todo \ {e}]]
  BY <1>1, <1>2
<1>4. /\ work'[w].todo = todo \ {e}
      /\ work'[w].event = e /\ work'[w].due = work[w].due
      /\ work'[w].writes = work[w].writes /\ work'[w].left = work[w].left
      /\ work'[w].changes = work[w].changes /\ work'[w].wish = work[w].wish
  BY <1>3, AtHand DEF IInv, WorkType
<1>5. /\ pc[w] = "next" /\ pc'[w] = (IF e \in Phase THEN "changes" ELSE "flag")
      /\ UNCHANGED held /\ Same
  BY <1>1, Goes DEF IInv, NextEvent, PC, tables, feature, history, locks, Same
<1>6. Listed(w) /\ Changing(w) /\ work[w].writes = {}
  BY <1>5 DEF IInv, WorkInv, Changing
<1>7. e \in Event /\ None \notin Event /\ None \notin Phase /\ work[w].due \subseteq Phase
  BY <1>1, AtHand, Constants DEF IInv, Event
<1>8. \A p \in Phase : InSight(w, p) => InSight(w, p)'
  BY <1>2, <1>4, <1>5 DEF InSight, Same
<1>9. Listed(w)'
  <2>1. ASSUME NEW p \in work[w].due
        PROVE  /\ phase'[p].row # "new"
               /\ Standing(p)' => phase'[p].at <= now' /\ InSight(w, p)'
    BY <1>5, <1>6, <1>7, <1>8, <2>1 DEF Listed, Same, Row, Standing, Serving
  <2>2. ASSUME NEW q \in Phase, q \in todo
        PROVE  phase'[q].row # "new" /\ (Row(q)' => id'[q] # 0)
    BY <1>2, <1>5, <1>6, <2>2 DEF Same, Row, Listed, Serving
  <2>3. ASSUME NEW q \in Phase, NEW p \in Phase, Standing(q)', Earlier(p, q)', q \in todo
        PROVE  InSight(w, p)' /\ (q = e => p \in notified')
    <3>1. Standing(q) /\ Earlier(p, q) /\ InSight(w, p) /\ id[q] # 0
      <4>1. Standing(q) /\ Earlier(p, q)
        BY <1>5, <2>3, SameViews
      <4> QED BY <1>2, <1>5, <1>6, <2>3, <4>1 DEF Listed, Serving, Standing
    <3>2. ASSUME q = e PROVE p \in notified'
      <4>1. p \in notified \/ p \in todo
        BY <1>2, <1>5, <3>1 DEF InSight
      <4>2. id[p] < id[q] /\ id[p] \in Nat /\ id[q] \in Nat
        BY <3>1, Typed DEF IInv, IdsOrdered, Types, Event
      <4>3. p \notin todo
        BY <1>1, <1>2, <3>2, <4>2
      <4> QED BY <1>5, <4>1, <4>3 DEF Same
    <3> QED BY <1>8, <3>1, <3>2
  <2> QED BY <1>1, <1>2, <1>4, <1>5, <1>6, <1>7, <2>1, <2>2, <2>3 DEF Listed
<1>10. Changing(w)'
  BY <1>4, <1>5, <1>6, <1>7 DEF Changing, Standing
<1>11. Told(w)'
  BY <1>4, <1>5, <1>7 DEF Told
<1> QED BY <1>9, <1>10, <1>11

LEMMA ReadChangesOwn ==
  ASSUME IInv, NEW w \in Worker, ReadChanges(w)
  PROVE  Listed(w)' /\ Changing(w)' /\ Told(w)'
<1>1. PICK p \in Phase : p = work[w].event
  BY DEF ReadChanges, IInv, WorkInv, Changing
<1>2. PICK changes : changes = IF Row(p) THEN phase[p].changes ELSE Nothing
  OBVIOUS
<1>3. work' = [work EXCEPT ![w] = [work[w] EXCEPT !.changes = changes,
                 !.left = {f \in Feature : changes[f] # "same"}]]
  BY <1>1, <1>2 DEF ReadChanges
<1>4. /\ work'[w].todo = work[w].todo
      /\ work'[w].event = p /\ work'[w].due = work[w].due
      /\ work'[w].writes = work[w].writes /\ work'[w].wish = work[w].wish
      /\ work'[w].left = {f \in Feature : changes[f] # "same"}
      /\ work'[w].changes = changes
  BY <1>1, <1>3, AtHand DEF IInv, WorkType
<1>5. pc[w] = "changes" /\ pc'[w] = "check" /\ UNCHANGED held /\ Same
  BY Goes DEF IInv, ReadChanges, PC, tables, feature, history, locks, Same
<1>6. Listed(w) /\ Changing(w) /\ work[w].writes = {}
  BY <1>5 DEF IInv, WorkInv, Changing
<1>7. p # None /\ None \notin Phase /\ work[w].due \subseteq Phase
  BY AtHand, Constants DEF IInv, Event
<1>8. Listed(w)'
  BY <1>1, <1>4, <1>5, <1>6, <1>7 DEF Listed, Serving, InSight, Same, Standing, Earlier, Row
<1>9. Changing(w)'
  BY <1>2, <1>4, <1>5, <1>6, <1>7 DEF Changing, Standing, Same, Row
<1>10. Told(w)'
  BY <1>5 DEF Told
<1> QED BY <1>8, <1>9, <1>10

(* A worker keeps its list while it deals with an event.                   *)
LEMMA ListKept ==
  ASSUME NEW w \in Worker, Listed(w), work[w].due \subseteq Phase, Same,
         work'[w].todo = work[w].todo, work'[w].event = work[w].event,
         work'[w].due = work[w].due, pc[w] \in Serving \ {"next"}, pc'[w] \in Serving \ {"next"}
  PROVE  Listed(w)'
BY DEF Listed, Serving, InSight, Same, Standing, Earlier, Row

LEMMA CheckHistoryOwn ==
  ASSUME IInv, NEW w \in Worker, CheckHistory(w)
  PROVE  Listed(w)' /\ Changing(w)' /\ Told(w)'
<1>1. /\ pc[w] = "check" /\ UNCHANGED held /\ Same /\ work[w].left # {}
      /\ work[w].due \subseteq Phase /\ None \notin Phase
  BY AtHand, Constants DEF IInv, CheckHistory, tables, feature, history, locks, Same, Event
<1>2. Listed(w) /\ Changing(w)
  BY DEF IInv, WorkInv
<1>3. PICK f \in Feature : f = Least(work[w].left) /\ f \in work[w].left
  BY <1>1, AtHand, LeastIs DEF IInv
<1>4. CASE <<work[w].event, f>> \in applied
  <2>1. /\ work' = [work EXCEPT ![w] = [work[w] EXCEPT !.left = work[w].left \ {f}]]
        /\ pc'[w] = "check"
    BY <1>1, <1>3, <1>4 DEF CheckHistory
  <2>2. /\ work'[w].todo = work[w].todo
        /\ work'[w].event = work[w].event /\ work'[w].due = work[w].due
        /\ work'[w].writes = work[w].writes /\ work'[w].wish = work[w].wish
        /\ work'[w].left = work[w].left \ {f} /\ work'[w].changes = work[w].changes
    BY <2>1, AtHand DEF IInv, WorkType
  <2>3. Changing(w)'
    BY <1>1, <1>2, <1>4, <2>1, <2>2 DEF Changing, Standing, Same, Row
  <2>4. Told(w)'
    BY <2>1 DEF Told
  <2> QED BY <1>1, <1>2, <2>1, <2>2, <2>3, <2>4, ListKept DEF Serving
<1>5. CASE <<work[w].event, f>> \notin applied
  <2>1. pc'[w] = "lock" /\ UNCHANGED work
    BY <1>3, <1>5, Goes DEF CheckHistory, IInv, PC
  <2>2. Changing(w)'
    BY <1>1, <1>2, <2>1 DEF Changing, Standing, Same, Row
  <2>3. Told(w)'
    BY <2>1 DEF Told
  <2> QED BY <1>1, <1>2, <2>1, <2>2, <2>3, ListKept DEF Serving
<1> QED BY <1>4, <1>5

LEMMA LockFeatureOwn ==
  ASSUME IInv, NEW w \in Worker, LockFeature(w)
  PROVE  Listed(w)' /\ Changing(w)' /\ Told(w)'
<1>1. /\ pc[w] = "lock" /\ pc'[w] = "check" /\ Same
      /\ work[w].due \subseteq Phase /\ None \notin Phase /\ ~Refused(w)
  BY AtHand, Goes, Constants DEF IInv, LockFeature, PC, tables, feature, history, Same, Event
<1>2. Listed(w) /\ Changing(w)
  BY DEF IInv, WorkInv
<1>3. PICK f \in Feature : f = Least(work[w].left) /\ f \in work[w].left
  BY <1>1, <1>2, AtHand, LeastIs DEF IInv, Changing
<1>4. /\ work' = [work EXCEPT ![w] = [work[w] EXCEPT !.left = work[w].left \ {f},
                                        !.writes = work[w].writes \cup {f}]]
      /\ held' = [held EXCEPT ![f] = w]
  BY <1>1, <1>3 DEF LockFeature
<1>5. /\ work'[w].todo = work[w].todo
      /\ work'[w].event = work[w].event /\ work'[w].due = work[w].due
      /\ work'[w].writes = work[w].writes \cup {f} /\ work'[w].wish = work[w].wish
      /\ work'[w].left = work[w].left \ {f} /\ work'[w].changes = work[w].changes
  BY <1>4, AtHand DEF IInv, WorkType
<1>6. \A g \in Feature : held'[g] = w <=> g \in work'[w].writes
  BY <1>2, <1>4, <1>5 DEF Changing, IInv, TypeOK
<1>7. PICK e \in Phase \cup {None} : e = work[w].event
  BY <1>1, <1>2 DEF Changing
<1>8. e # None => Row(e) /\ <<e, f>> \notin applied
  BY <1>1, <1>3, <1>7 DEF Refused
<1>9. e # None => \A g \in work'[w].writes : Row(e)' /\ <<e, g>> \notin applied'
  BY <1>1, <1>2, <1>5, <1>7, <1>8 DEF Changing, Same, Row
<1>10. work'[w].left \cup work'[w].writes = work[w].left \cup work[w].writes
  BY <1>3, <1>5
<1>11. Standing(e)' =>
         /\ work'[w].changes = phase'[e].changes
         /\ \A g \in Feature : work'[w].changes[g] # "same" =>
              g \in work'[w].left \cup work'[w].writes \/ <<e, g>> \in applied'
  <2>1. Standing(e)' <=> Standing(e)
    BY <1>1, <1>7 DEF Same, Standing, Row
  <2> QED BY <1>1, <1>2, <1>5, <1>7, <1>10, <2>1 DEF Changing, Same
<1>12. Changing(w)'
  <2>1. work'[w].event = e /\ pc'[w] = "check"
    BY <1>1, <1>5, <1>7
  <2>2. \A g \in work'[w].left \cup work'[w].writes : work'[w].changes[g] # "same"
    BY <1>2, <1>5, <1>10 DEF Changing
  <2>3. e = None => work'[w].todo = {}
    BY <1>1, <1>2, <1>5, <1>7 DEF Changing
  <2>4. w \in Admin => \E g \in Feature : work'[w].wish[g] # "same"
    BY <1>1, <1>2, <1>5 DEF Changing
  <2> QED BY <1>6, <1>9, <1>11, <2>1, <2>2, <2>3, <2>4 DEF Changing
<1>13. Told(w)'
  BY <1>1 DEF Told
<1> QED BY <1>1, <1>2, <1>5, <1>12, <1>13, ListKept DEF Serving

LEMMA MarkOwn ==
  ASSUME IInv, NEW w \in Worker, Mark(w)
  PROVE  Listed(w)' /\ Changing(w)' /\ Told(w)'
<1>1. /\ pc[w] = "mark" /\ pc'[w] = (IF work[w].event = None THEN "done" ELSE "flag")
      /\ UNCHANGED <<work, held>> /\ Same
      /\ work[w].due \subseteq Phase /\ None \notin Phase
  BY AtHand, Goes, Constants DEF IInv, Mark, PC, tables, feature, locks, Same, Event
<1>2. Listed(w) /\ Changing(w)
  BY DEF IInv, WorkInv
<1>3. Changing(w)'
  BY <1>1, <1>2 DEF Changing, Standing, Same, Row
<1>4. Told(w)'
  BY <1>1 DEF Told
<1>5. CASE work[w].event = None
  <2>1. Listed(w)'
    BY <1>1, <1>2, <1>5 DEF Listed, Serving, Same, Standing, Row
  <2> QED BY <1>3, <1>4, <2>1
<1>6. CASE work[w].event # None
  BY <1>1, <1>2, <1>3, <1>4, <1>6, ListKept DEF Serving
<1> QED BY <1>5, <1>6

LEMMA ServesOwn ==
  ASSUME IInv, NEW w \in Worker, Flag(w) \/ Refresh(w) \/ Tell(w)
  PROVE  Listed(w)' /\ Changing(w)' /\ Told(w)'
<1>1. PICK from \in {"flag", "hints", "tell"}, what \in {"content", "hints", "told"},
           next \in {"hints", "tell", "notified"} :
        /\ Serves(w, from, what, next)
        /\ <<from, what, next>> \in {<<"flag", "content", "hints">>,
                                     <<"hints", "hints", "tell">>,
                                     <<"tell", "told", "notified">>}
  BY DEF Flag, Refresh, Tell
<1>2. /\ pc[w] = from /\ pc'[w] = next /\ UNCHANGED <<work, held>> /\ Same
      /\ work[w].due \subseteq Phase /\ None \notin Phase
  BY <1>1, AtHand, Goes, Constants
     DEF IInv, Serves, PC, tables, feature, locks, history, Same, Event
<1>3. Listed(w) /\ Changing(w) /\ Told(w)
  BY DEF IInv, WorkInv
<1>4. Changing(w)'
  BY <1>1, <1>2, <1>3 DEF Changing, Standing, Same, Row
<1>5. Told(w)'
  <2>1. PICK e \in Event : e = work[w].event
    BY <1>1, <1>2, <1>3, AtHand DEF Told, IInv
  <2>2. done'[e] = done[e] \cup {what}
    BY <1>1, <2>1 DEF Serves, IInv, TypeOK
  <2>3. work'[w].event = e /\ e # None
    BY <1>1, <1>2, <1>3, <2>1 DEF Told
  <2> QED BY <1>1, <1>2, <1>3, <2>1, <2>2, <2>3 DEF Told
<1>6. Listed(w)'
  BY <1>1, <1>2, <1>3, ListKept DEF Serving
<1> QED BY <1>4, <1>5, <1>6

LEMMA UnlockOwn ==
  ASSUME IInv, NEW w \in Worker, Unlock(w)
  PROVE  Listed(w)' /\ Changing(w)' /\ Told(w)'
<1>1. /\ pc[w] = "next" /\ UNCHANGED held /\ Same /\ work[w].todo = {}
      /\ work[w].due \subseteq Phase /\ None \notin Phase
  BY AtHand, Constants DEF IInv, Unlock, tables, feature, history, Same, Event
<1>2. Listed(w) /\ Changing(w) /\ work[w].writes = {}
  BY <1>1 DEF IInv, WorkInv, Changing
<1>3. CASE End(w)
  BY <1>1, <1>2, <1>3, AtRest DEF IInv, Changing
<1>4. CASE ~End(w)
  <2>1. /\ w \in Admin /\ Goto(w, "lock") /\ "lock" \in PC
        /\ work' = [work EXCEPT ![w] = [work[w] EXCEPT !.event = None,
              !.changes = work[w].wish, !.left = {f \in Feature : work[w].wish[f] # "same"}]]
    BY <1>4 DEF Unlock, PC
  <2>2. pc'[w] = "lock"
    BY <2>1, Goes DEF IInv
  <2>3. /\ work'[w].todo = {}
        /\ work'[w].event = None /\ work'[w].due = work[w].due
        /\ work'[w].writes = {} /\ work'[w].wish = work[w].wish
        /\ work'[w].left = {f \in Feature : work[w].wish[f] # "same"}
        /\ work'[w].changes = work[w].wish
    BY <1>1, <1>2, <2>1, AtHand DEF IInv, WorkType
  <2>4. Listed(w)'
    BY <1>1, <1>2, <2>2, <2>3 DEF Listed, Serving, InSight, Same, Standing, Row
  <2>5. Changing(w)'
    <3>1. \E f \in Feature : work[w].wish[f] # "same"
      BY <1>1, <1>2, <2>1 DEF Changing
    <3> QED BY <1>1, <1>2, <2>2, <2>3, <3>1 DEF Changing, Standing
  <2>6. Told(w)'
    BY <2>2 DEF Told
  <2> QED BY <2>4, <2>5, <2>6
<1> QED BY <1>3, <1>4

LEMMA LocalOwn ==
  ASSUME IInv, NEW w \in Worker, Local(w)
  PROVE  Listed(w)' /\ Changing(w)' /\ Told(w)'
<1>1. CASE LoseLock(w)
  <2>1. UNCHANGED <<pc, work, held, done>> /\ Same
    BY <1>1 DEF LoseLock, tables, feature, Same
  <2> QED BY <2>1 DEF IInv, WorkInv, Listed, Serving, InSight, Changing, Told, Same,
                      Standing, Earlier, Row
<1>2. CASE Refuse(w) \/ Fail(w)
  <2>1. End(w) /\ \A f \in Feature : held'[f] # w
    BY <1>2, Freed DEF Refuse, Fail, IInv
  <2> QED BY <2>1, AtRest DEF IInv
<1> QED BY <1>1, <1>2, RequestOwn, StartOwn, ListOwn, NextEventOwn, ReadChangesOwn,
           CheckHistoryOwn, LockFeatureOwn, MarkOwn, ServesOwn, UnlockOwn DEF Local

-----------------------------------------------------------------------------
(* The steps that change what all see.                                     *)

LEMMA MaterializeStep ==
  ASSUME IInv, NEW w \in Worker, Materialize(w)
  PROVE  IInv'
<1>1. PICK fresh \in SUBSET Phase :
        /\ fresh = {p \in Phase : Due(p) /\ id[p] = 0}
        /\ id' = [e \in Event |->
                    IF e \in fresh
                    THEN sequence + Cardinality({p \in fresh : phase[p].at <= phase[e].at})
                    ELSE id[e]]
        /\ sequence' = sequence + Cardinality(fresh)
  BY DEF Materialize
<1>2. /\ TypeOK' /\ Types /\ Types'
      /\ UNCHANGED <<now, phase, open, notified, state, source, applied, held, work, edit, done,
                     settled, late>>
      /\ pc[w] = "materialize" /\ None \notin Phase
      /\ pc'[w] = "list" /\ \A v \in Worker \ {w} : pc'[v] = pc[v]
  <2>1. TypeOK'
    BY OtherTypes DEF IInv
  <2>2. Types /\ Types'
    BY <2>1, Typed, PTL DEF IInv
  <2> QED BY <2>1, <2>2, Goes, Constants DEF Materialize, IInv, PC, feature, locks, history, Event
<1>3. \A S, T \in SUBSET Phase :
        /\ Cardinality(S) \in Nat /\ (S # {} => Cardinality(S) # 0)
        /\ S \subseteq T => Cardinality(S) <= Cardinality(T)
        /\ S \subseteq T /\ S # T => Cardinality(S) < Cardinality(T)
  <2> SUFFICES ASSUME NEW S \in SUBSET Phase, NEW T \in SUBSET Phase
               PROVE  /\ Cardinality(S) \in Nat /\ (S # {} => Cardinality(S) # 0)
                      /\ S \subseteq T => Cardinality(S) <= Cardinality(T)
                      /\ S \subseteq T /\ S # T => Cardinality(S) < Cardinality(T)
    OBVIOUS
  <2>1. IsFiniteSet(S) /\ IsFiniteSet(T)
    BY Constants, FS_Subset
  <2>2. Cardinality(S) \in Nat /\ Cardinality(T) \in Nat
    BY <2>1, FS_CardinalityType
  <2>3. S # {} => Cardinality(S) # 0
    BY <2>1, FS_EmptySet
  <2>4. S \subseteq T => Cardinality(S) <= Cardinality(T)
    BY <2>1, FS_Subset
  <2>5. S \subseteq T /\ S # T => Cardinality(S) < Cardinality(T)
    BY <2>1, <2>2, <2>4, FS_Subset
  <2> QED BY <2>2, <2>3, <2>4, <2>5
<1> DEFINE Until(p) == {q \in fresh : phase[q].at <= phase[p].at}
<1>4. \A p \in Event : /\ p \in fresh => id'[p] = sequence + Cardinality(Until(p))
                       /\ p \notin fresh => id'[p] = id[p]
  BY <1>1
<1>5. ASSUME NEW p \in fresh
      PROVE  /\ p \in Phase /\ Row(p) /\ phase[p].at <= now
             /\ Cardinality(Until(p)) \in Nat \ {0} /\ Cardinality(Until(p)) <= Cardinality(fresh)
             /\ id'[p] # 0 /\ id'[p] \in Nat /\ id'[p] > sequence /\ id'[p] <= sequence'
  <2>1. p \in Phase /\ p \in Event /\ Row(p) /\ phase[p].at <= now
    BY <1>1 DEF Due, Event
  <2>2. p \in Until(p) /\ Until(p) \subseteq fresh
    BY <1>2, <2>1 DEF Types
  <2>3. Cardinality(Until(p)) \in Nat \ {0} /\ Cardinality(Until(p)) <= Cardinality(fresh)
    BY <1>3, <2>2
  <2>4. Cardinality(fresh) \in Nat /\ sequence \in Nat
    BY <1>2, <1>3 DEF Types
  <2> QED BY <1>1, <1>4, <2>1, <2>3, <2>4
<1>6. sequence' >= sequence /\ sequence \in Nat /\ sequence' \in Nat
  BY <1>1, <1>2, <1>3 DEF Types
<1>7. \A p \in Event : id[p] # 0 => id'[p] = id[p]
  BY <1>1, <1>4
<1> HIDE DEF Until
<1>8. \A p, q \in Phase : /\ Standing(p)' <=> Standing(p)
                          /\ Earlier(p, q)' <=> Earlier(p, q)
                          /\ Row(p)' <=> Row(p)
  BY <1>2 DEF Standing, Earlier, Row
<1>9. Grows
  BY <1>2, <1>7, <1>8 DEF Grows, Types, Event
<1>10. IdsOrdered'
  <2>1. ASSUME NEW e \in Event PROVE id'[e] <= sequence'
    <3>1. CASE e \in fresh
      BY <1>5, <3>1
    <3>2. CASE e \notin fresh
      BY <1>2, <1>4, <1>6, <3>2 DEF IInv, IdsOrdered, Types
    <3> QED BY <3>1, <3>2
  <2>2. ASSUME NEW i \in Immediate PROVE open'[i] <= sequence'
    BY <1>2, <1>6 DEF IInv, IdsOrdered, Types
  <2>3. ASSUME NEW p \in Phase, id'[p] # 0 PROVE Row(p)'
    BY <1>4, <1>5, <1>8, <2>3 DEF IInv, IdsOrdered, Event
  <2>4. ASSUME NEW q \in Phase, Standing(q), id'[q] # 0
        PROVE  phase[q].at <= now
    BY <1>4, <1>5, <2>4 DEF IInv, IdsOrdered, Event
  <2>5. ASSUME NEW q \in Phase, NEW p \in Phase, Standing(q), id'[q] # 0, Earlier(p, q)
        PROVE  id'[p] # 0 /\ id'[p] < id'[q]
    <3>1. q \in fresh \/ (q \notin fresh /\ id'[q] = id[q] /\ id[q] # 0)
      BY <1>4, <2>5 DEF Event
    <3>2. CASE q \notin fresh
      BY <1>7, <2>5, <3>1, <3>2 DEF IInv, IdsOrdered, Event
    <3>3. CASE q \in fresh /\ p \notin fresh
      <4>1. Due(p)
        <5>1. phase[p].at <= now
          BY <1>2, <1>5, <2>5, <3>3 DEF Earlier, Types
        <5> QED BY <2>5, <5>1 DEF Earlier, Standing, Due
      <4>2. id[p] # 0 /\ id'[p] = id[p]
        BY <1>1, <1>7, <3>3, <4>1 DEF Event
      <4>3. id[p] <= sequence /\ id[p] \in Nat
        BY <1>2 DEF IInv, IdsOrdered, Types, Event
      <4> QED BY <1>5, <1>6, <3>3, <4>2, <4>3
    <3>4. CASE q \in fresh /\ p \in fresh
      <4>1. phase[p].at < phase[q].at /\ phase[p].at \in Nat /\ phase[q].at \in Nat
        BY <1>2, <2>5 DEF Earlier, Types
      <4>2. Until(p) \subseteq Until(q)
        <5> SUFFICES ASSUME NEW r \in Until(p) PROVE r \in Until(q)
          OBVIOUS
        <5>1. phase[r].at \in Nat
          BY <1>2 DEF Until, Types
        <5> QED BY <4>1, <5>1 DEF Until
      <4>3. q \in Until(q) /\ q \notin Until(p)
        BY <3>4, <4>1 DEF Until
      <4>4. Until(p) \in SUBSET Phase /\ Until(q) \in SUBSET Phase
        BY DEF Until
      <4>5. Cardinality(Until(p)) < Cardinality(Until(q))
        BY <1>3, <4>2, <4>3, <4>4
      <4> QED BY <1>4, <1>5, <1>6, <3>4, <4>5 DEF Event
    <3> QED BY <3>1, <3>2, <3>3, <3>4
  <2> QED BY <1>2, <1>8, <2>1, <2>2, <2>3, <2>4, <2>5 DEF IdsOrdered
<1>11. HistoryOrdered' /\ SettledFirst' /\ NotifiedInFull' /\ InOrder' /\ ManualStands'
  <2>1. \A a \in applied : a[1] \in Event
    BY <1>2 DEF Types, Event
  <2>2. HistoryOrdered'
    BY <1>2, <1>7, <1>8, <2>1 DEF IInv, HistoryOrdered
  <2>3. SettledFirst'
    BY <1>2, <1>8 DEF IInv, SettledFirst, Types
  <2> QED BY <1>2, <2>2, <2>3 DEF IInv, NotifiedInFull, InOrder, ManualStands
<1>12. WorkInv'
  <2>1. \A v \in Worker \ {w} : Listed(v)' /\ Changing(v)' /\ Told(v)'
    BY <1>2, <1>9, Others DEF IInv
  <2>2. Listed(w) /\ Changing(w) /\ work[w].due \subseteq Phase /\ work[w].event = None
    BY <1>2, AtHand DEF IInv, WorkInv, Changing
  <2>3. ASSUME NEW p \in work[w].due, Standing(p) PROVE id'[p] # 0
    <3>1. Due(p) /\ p \in Phase
      BY <2>2, <2>3 DEF Listed, Standing, Due
    <3> QED BY <1>1, <1>5, <1>7, <3>1 DEF Event
  <2>4. Listed(w)'
    BY <1>2, <1>8, <2>2, <2>3 DEF Listed, Serving
  <2>5. Changing(w)'
    BY <1>2, <2>2 DEF Changing, Standing
  <2>6. Told(w)'
    BY <1>2 DEF Told
  <2> QED BY <2>1, <2>4, <2>5, <2>6 DEF WorkInv
<1> QED BY <1>2, <1>10, <1>11, <1>12 DEF IInv, EditInv

LEMMA MarkNotifiedStep ==
  ASSUME IInv, NEW w \in Worker, MarkNotified(w)
  PROVE  IInv'
<1>1. PICK e \in Event : e = work[w].event
  BY AtHand DEF IInv, WorkInv, Told, MarkNotified
<1>2. /\ TypeOK' /\ Types /\ Types'
      /\ UNCHANGED <<now, phase, id, open, sequence, state, source, applied, held, work, edit,
                     done, settled, late>>
      /\ notified' = IF id[e] = 0 THEN notified ELSE notified \cup {e}
      /\ pc[w] = "notified" /\ None \notin Phase
      /\ pc'[w] = "next" /\ \A v \in Worker \ {w} : pc'[v] = pc[v]
  <2>1. TypeOK'
    BY OtherTypes DEF IInv
  <2>2. Types /\ Types'
    BY <2>1, Typed, PTL DEF IInv
  <2> QED BY <1>1, <2>1, <2>2, Goes, Constants
          DEF MarkNotified, IInv, PC, feature, locks, history, Event
<1>3. \A p, q \in Phase : /\ Standing(p)' <=> Standing(p)
                          /\ Earlier(p, q)' <=> Earlier(p, q)
                          /\ Row(p)' <=> Row(p)
  BY <1>2 DEF Standing, Earlier, Row
<1>4. Grows
  BY <1>2, <1>3 DEF Grows, Types
<1>5. IdsOrdered'
  BY <1>2, <1>3 DEF IInv, IdsOrdered
<1>6. HistoryOrdered' /\ SettledFirst' /\ InOrder' /\ ManualStands'
  <2>1. HistoryOrdered'
    BY <1>2, <1>3 DEF IInv, HistoryOrdered
  <2>2. SettledFirst'
    BY <1>2, <1>3 DEF IInv, SettledFirst, Types
  <2> QED BY <1>2, <2>1, <2>2 DEF IInv, InOrder, ManualStands
<1>7. Listed(w) /\ Changing(w) /\ Told(w)
  BY DEF IInv, WorkInv
<1>8. NotifiedInFull'
  <2>1. ASSUME NEW x \in notified'
        PROVE  /\ done[x] = {"content", "hints", "told"}
               /\ x \in Phase \ late =>
                    \A f \in Feature : phase[x].changes[f] # "same" => <<x, f>> \in applied
    <3>1. CASE x \in notified
      BY <3>1 DEF IInv, NotifiedInFull
    <3>2. CASE x \notin notified
      <4>1. x = e /\ id[e] # 0
        BY <1>2, <2>1, <3>2
      <4>2. done[e] = {"content", "hints", "told"}
        BY <1>1, <1>2, <1>7 DEF Told, Types
      <4>3. e \in Phase \ late => Standing(e)
        BY <4>1 DEF IInv, IdsOrdered, Standing
      <4> QED BY <1>1, <1>2, <1>7, <4>1, <4>2, <4>3 DEF Changing
    <3> QED BY <3>1, <3>2
  <2> QED BY <1>2, <2>1 DEF NotifiedInFull
<1>9. WorkInv'
  <2>1. \A v \in Worker \ {w} : Listed(v)' /\ Changing(v)' /\ Told(v)'
    BY <1>2, <1>4, Others DEF IInv
  <2>2. work[w].due \subseteq Phase /\ work[w].writes = {}
    BY <1>2, <1>7, AtHand DEF IInv, Changing
  <2>3. ASSUME NEW p \in Phase, Standing(p), InSight(w, p) PROVE InSight(w, p)'
    <3>1. p = work[w].event => id[p] # 0
      BY <1>2, <1>7, <2>3 DEF Listed, Serving, Standing
    <3> QED BY <1>1, <1>2, <2>3, <3>1 DEF InSight
  <2>4. Listed(w)'
    <3>1. ASSUME NEW p \in work[w].due
          PROVE  /\ phase'[p].row # "new"
                 /\ Standing(p)' => phase'[p].at <= now' /\ InSight(w, p)'
      BY <1>2, <1>3, <1>7, <2>2, <2>3, <3>1 DEF Listed, Serving
    <3>2. ASSUME NEW q \in Phase, q \in work[w].todo \cup {work[w].event}
          PROVE  phase'[q].row # "new" /\ (Row(q)' => id'[q] # 0)
      BY <1>2, <1>3, <1>7, <3>2 DEF Listed, Serving
    <3>3. ASSUME NEW q \in Phase, NEW p \in Phase, Standing(q)', Earlier(p, q)'
          PROVE  /\ q \in work[w].todo => InSight(w, p)'
                 /\ q = work[w].event => p \in notified'
      <4>1. Standing(q) /\ Earlier(p, q) /\ Standing(p)
        BY <1>3, <3>3 DEF Earlier
      <4> QED BY <1>2, <1>7, <2>3, <4>1 DEF Listed, Serving
    <3> QED BY <1>2, <3>1, <3>2, <3>3 DEF Listed, Serving
  <2>5. Changing(w)'
    BY <1>2, <1>7, <2>2 DEF Changing, Standing
  <2>6. Told(w)'
    BY <1>2 DEF Told
  <2> QED BY <2>1, <2>4, <2>5, <2>6 DEF WorkInv
<1> QED BY <1>2, <1>5, <1>6, <1>8, <1>9 DEF IInv, EditInv

(* The commit: no later phase has changed the feature, and the phase is    *)
(* none of those that were due when the feature was last set by hand.      *)
LEMMA CommitGlobals ==
  ASSUME IInv, NEW w \in Worker, Commits(w), TypeOK'
  PROVE  Grows /\ Globals'
<1>1. PICK p \in Phase \cup {None}, W \in SUBSET Feature, changes \in Changes,
           due \in SUBSET Phase :
        /\ p = work[w].event /\ W = work[w].writes /\ changes = work[w].changes
        /\ due = work[w].due
  <2>1. work[w].event \in Phase \cup {None}
    BY DEF IInv, WorkInv, Changing, Commits
  <2>2. /\ work[w].writes \in SUBSET Feature /\ work[w].changes \in Changes
        /\ work[w].due \in SUBSET Phase
    BY AtHand DEF IInv
  <2> QED BY <2>1, <2>2, Zenon
<1>2. Listed(w) /\ Changing(w) /\ pc[w] = "check" /\ work[w].left = {}
  BY DEF IInv, WorkInv, Commits
<1>3. /\ source' = [f \in Feature |-> IF f \in W THEN p ELSE source[f]]
      /\ applied' = IF p = None THEN applied ELSE applied \cup {<<p, f>> : f \in W}
      /\ settled' = [f \in Feature |-> IF f \in W /\ p = None THEN due ELSE settled[f]]
      /\ UNCHANGED <<now, phase, id, open, sequence, notified, edit, done, late>>
  BY <1>1 DEF Commits, Writes, tables
<1>4. Types /\ Types' /\ None \notin Phase
  <2>1. Types /\ Types'
    BY Typed, PTL DEF IInv
  <2> QED BY <2>1, Constants DEF Event
<1>5. \A q, r \in Phase : /\ Standing(q)' <=> Standing(q)
                          /\ Earlier(q, r)' <=> Earlier(q, r)
                          /\ Row(q)' <=> Row(q)
  BY <1>3 DEF Standing, Earlier, Row
<1>6. ASSUME NEW a \in applied'
      PROVE  a \in applied \/ (p \in Phase /\ a = <<p, a[2]>> /\ a[2] \in W)
  BY <1>1, <1>3
<1>7. applied \subseteq applied'
  BY <1>3
<1>8. \A f \in Feature : /\ f \in W => source'[f] = p
                         /\ f \notin W => source'[f] = source[f]
                         /\ f \in W /\ p = None => settled'[f] = due
                         /\ ~(f \in W /\ p = None) => settled'[f] = settled[f]
  BY <1>3
<1>9. ASSUME p \in Phase, NEW f \in W
      PROVE  /\ Row(p) /\ id[p] # 0 /\ <<p, f>> \notin applied
             /\ p \notin late => p \notin notified
  <2>1. Row(p) /\ <<p, f>> \notin applied
    BY <1>1, <1>2, <1>4, <1>9 DEF Changing
  <2>2. id[p] # 0
    BY <1>1, <1>2, <1>9, <2>1 DEF Listed, Serving
  <2>3. ASSUME p \notin late, p \in notified PROVE FALSE
    <3>1. phase[p].changes[f] # "same"
      BY <1>1, <1>2, <1>9, <2>1, <2>3 DEF Changing, Standing
    <3> QED BY <1>9, <2>1, <2>3, <3>1 DEF IInv, NotifiedInFull
  <2> QED BY <2>1, <2>2, <2>3
<1>10. Grows
  BY <1>3, <1>4, <1>5, <1>7 DEF Grows, Types, Event
<1>11. IdsOrdered'
  BY <1>3, <1>5 DEF IInv, IdsOrdered
<1>12. HistoryOrdered'
  <2>1. ASSUME NEW a \in applied' PROVE id'[a[1]] # 0
    BY <1>3, <1>6, <1>9, <2>1 DEF IInv, HistoryOrdered
  <2>2. ASSUME NEW f \in Feature, source'[f] # None PROVE <<source'[f], f>> \in applied'
    <3>1. CASE f \in W
      BY <1>1, <1>3, <1>8, <2>2, <3>1
    <3>2. CASE f \notin W
      BY <1>7, <1>8, <2>2, <3>2 DEF IInv, HistoryOrdered
    <3> QED BY <3>1, <3>2
  <2>3. ASSUME NEW q \in Phase, NEW f \in Feature, Standing(q), <<q, f>> \in applied',
               NEW r \in Phase, Earlier(r, q)
        PROVE  r \in notified
    <3>1. CASE <<q, f>> \in applied
      BY <2>3, <3>1 DEF IInv, HistoryOrdered
    <3>2. CASE <<q, f>> \notin applied
      <4>1. q = p
        BY <1>6, <2>3, <3>2
      <4> QED BY <1>1, <1>2, <2>3, <4>1 DEF Listed, Serving
    <3> QED BY <3>1, <3>2
  <2> QED BY <1>3, <1>5, <2>1, <2>2, <2>3 DEF HistoryOrdered
<1>13. SettledFirst'
  <2>1. ASSUME NEW f \in Feature, NEW q \in settled'[f]
        PROVE  phase[q].row # "new" /\ (Standing(q) => q \in notified) /\ q \in Phase
    <3>1. CASE f \in W /\ p = None
      <4>1. q \in due /\ work[w].event = None /\ work[w].todo = {} /\ q # None
        BY <1>1, <1>2, <1>4, <1>8, <2>1, <3>1 DEF Changing
      <4>2. Standing(q) => InSight(w, q)
        BY <1>1, <1>2, <4>1 DEF Listed, Serving
      <4> QED BY <1>1, <1>2, <4>1, <4>2 DEF Listed, InSight
    <3>2. CASE ~(f \in W /\ p = None)
      BY <1>4, <1>8, <2>1, <3>2 DEF IInv, SettledFirst, Types
    <3> QED BY <3>1, <3>2
  <2> QED BY <1>3, <1>5, <2>1 DEF SettledFirst
<1>14. NotifiedInFull'
  BY <1>3, <1>7 DEF IInv, NotifiedInFull
<1>15. InOrder'
  <2>1. ASSUME NEW f \in Feature, source'[f] # None, source'[f] \notin late,
               NEW q \in Phase \ late, <<q, f>> \in applied'
        PROVE  phase[q].at <= phase[source'[f]].at
    <3>1. CASE f \notin W
      BY <1>6, <1>8, <2>1, <3>1 DEF IInv, InOrder
    <3>2. CASE f \in W /\ q = p
      BY <1>4, <1>8, <2>1, <3>2 DEF Types
    <3>3. CASE f \in W /\ q # p
      <4>1. source'[f] = p /\ p \in Phase /\ <<q, f>> \in applied
        BY <1>1, <1>6, <1>8, <2>1, <3>3
      <4>2. Row(q)
        BY <4>1 DEF IInv, TypeOK
      <4>3. Standing(p) /\ Standing(q) /\ p \notin notified
        BY <1>9, <2>1, <3>3, <4>1, <4>2 DEF Standing
      <4>4. ~Earlier(p, q)
        BY <4>1, <4>3 DEF IInv, HistoryOrdered
      <4>5. phase[p].at \in Nat /\ phase[q].at \in Nat
        BY <1>4, <4>1 DEF Types
      <4> QED BY <4>1, <4>3, <4>4, <4>5 DEF Earlier
    <3> QED BY <3>1, <3>2, <3>3
  <2> QED BY <1>3, <2>1 DEF InOrder
<1>16. ManualStands'
  <2>1. ASSUME NEW f \in Feature PROVE source'[f] \in late \/ source'[f] \notin settled'[f]
    <3>1. CASE f \notin W
      BY <1>8, <3>1 DEF IInv, ManualStands
    <3>2. CASE f \in W /\ p = None
      BY <1>4, <1>8, <3>2
    <3>3. CASE f \in W /\ p \in Phase
      <4>1. source'[f] = p /\ settled'[f] = settled[f]
        BY <1>4, <1>8, <3>3
      <4>2. p \in settled[f] /\ p \notin late => p \in notified
        BY <1>9, <3>3 DEF IInv, SettledFirst, Standing
      <4> QED BY <1>9, <3>3, <4>1, <4>2
    <3> QED BY <3>1, <3>2, <3>3
  <2> QED BY <1>3, <2>1 DEF ManualStands
<1> QED BY <1>10, <1>11, <1>12, <1>13, <1>14, <1>15, <1>16 DEF Globals

LEMMA CommitStep ==
  ASSUME IInv, NEW w \in Worker, Commit(w) \/ CommitUnheard(w)
  PROVE  IInv'
<1>1. /\ TypeOK' /\ Commits(w)
      /\ \A v \in Worker \ {w} : pc'[v] = pc[v] /\ work'[v] = work[v]
      /\ \A v \in Worker \ {w}, f \in Feature : held'[f] = v <=> held[f] = v
  BY CommitTypes DEF IInv
<1>2. Grows /\ Globals'
  BY <1>1, CommitGlobals
<1>3. Listed(w) /\ Changing(w) /\ pc[w] = "check" /\ work[w].left = {}
  BY <1>1 DEF IInv, WorkInv, Commits
<1>4. \A f \in Feature : held'[f] # w
  BY <1>1, Freed DEF IInv, Commits, Writes
<1>5. PICK p \in Phase \cup {None} : p = work[w].event
  BY <1>3 DEF Changing
<1>6. /\ applied' = IF p = None THEN applied ELSE applied \cup {<<p, f>> : f \in work[w].writes}
      /\ UNCHANGED <<now, phase, id, notified, edit, done, late>>
  BY <1>1, <1>5 DEF Commits, Writes, tables
<1>7. None \notin Phase /\ work[w].due \subseteq Phase /\ work[w].writes \subseteq Feature
  BY AtHand, Constants DEF IInv, Event
<1>8. \A v \in Worker \ {w} : Listed(v)' /\ Changing(v)' /\ Told(v)'
  <2>1. \A a \in applied' : a \in applied \/ (a[2] \in Feature /\ held[a[2]] = w)
    BY <1>3, <1>6, <1>7 DEF Changing
  <2> QED BY <1>1, <1>2, <2>1, Others DEF IInv
<1>9. Listed(w)' /\ Changing(w)' /\ Told(w)'
  <2>1. CASE CommitUnheard(w)
    BY <1>4, <2>1, AtRest DEF CommitUnheard, IInv
  <2>2. CASE Commit(w)
    <3>1. /\ work' = [work EXCEPT ![w] = [work[w] EXCEPT !.writes = {}]]
          /\ Goto(w, IF MustMark(w) THEN "mark" ELSE IF p = None THEN "done" ELSE "flag")
      BY <1>5, <2>2 DEF Commit
    <3>2. /\ work'[w].todo = work[w].todo
          /\ work'[w].event = p /\ work'[w].due = work[w].due
          /\ work'[w].writes = {} /\ work'[w].wish = work[w].wish
          /\ work'[w].left = {} /\ work'[w].changes = work[w].changes
      BY <1>3, <1>5, <3>1, AtHand DEF IInv, WorkType
    <3>3. /\ pc'[w] \in {"mark", "done", "flag"}
          /\ p = None => pc'[w] # "flag"
          /\ pc'[w] = "done" => p = None
      BY <3>1, Goes DEF IInv, PC
    <3>4. \A q, r \in Phase : /\ Standing(q)' <=> Standing(q)
                              /\ Earlier(q, r)' <=> Earlier(q, r)
                              /\ Row(q)' <=> Row(q)
      BY <1>6 DEF Standing, Earlier, Row
    <3>5. Listed(w)'
      <4>1. \A q \in Phase : InSight(w, q) /\ pc'[w] # "done" => InSight(w, q)'
        BY <1>3, <1>5, <1>6, <3>2, <3>3 DEF InSight
      <4>2. ASSUME NEW q \in work[w].due
            PROVE  /\ phase'[q].row # "new"
                   /\ Standing(q)' => /\ phase'[q].at <= now'
                                      /\ pc'[w] # "done" => InSight(w, q)'
        BY <1>3, <1>6, <1>7, <3>4, <4>1, <4>2 DEF Listed, Serving
      <4>3. ASSUME NEW q \in Phase, q \in work[w].todo \cup {p}
            PROVE  phase'[q].row # "new" /\ (Row(q)' => id'[q] # 0)
        BY <1>3, <1>5, <1>6, <3>4, <4>3 DEF Listed, Serving
      <4>4. ASSUME NEW q \in Phase, NEW r \in Phase, Standing(q)', Earlier(r, q)',
                   pc'[w] # "done"
            PROVE  /\ q \in work[w].todo => InSight(w, r)'
                   /\ q = p => r \in notified'
        BY <1>3, <1>5, <1>6, <3>4, <4>1, <4>4 DEF Listed, Serving
      <4> QED BY <3>2, <3>3, <4>2, <4>3, <4>4 DEF Listed, Serving
    <3>6. Changing(w)'
      <4>1. Standing(p)' => \A f \in Feature : phase'[p].changes[f] # "same" => <<p, f>> \in applied'
        <5> SUFFICES ASSUME Standing(p)', NEW f \in Feature, phase'[p].changes[f] # "same"
                     PROVE  <<p, f>> \in applied'
          OBVIOUS
        <5>1. p \in Phase /\ p # None /\ Standing(p)
          BY <1>7, <3>4 DEF Standing
        <5>2. f \in work[w].writes \/ <<p, f>> \in applied
          BY <1>3, <1>5, <1>6, <5>1 DEF Changing
        <5> QED BY <1>6, <5>1, <5>2
      <4>2. w \in Admin => \E f \in Feature : work'[w].wish[f] # "same"
        BY <1>3, <3>2 DEF Changing
      <4> QED BY <1>4, <3>2, <3>3, <4>1, <4>2 DEF Changing
    <3>7. Told(w)'
      BY <3>2, <3>3 DEF Told
    <3> QED BY <3>5, <3>6, <3>7
  <2> QED BY <2>1, <2>2
<1>10. WorkInv'
  BY <1>8, <1>9 DEF WorkInv
<1> QED BY <1>1, <1>2, <1>6, <1>10 DEF IInv, Globals, EditInv

-----------------------------------------------------------------------------
(* The theorems.                                                           *)

LEMMA InitInv == Init => IInv
<1> SUFFICES ASSUME Init PROVE IInv
  OBVIOUS
<1>1. Idle \in WorkType /\ Free \in EditType /\ Nothing \in Changes
  BY Shapes
<1>2. None \notin Phase /\ None \notin Worker /\ Plan \subseteq [Phase -> PhaseRow]
      /\ MaxTime \in Nat /\ MaxFaults \in Nat /\ Phase \subseteq Event
  BY Constants DEF Event
<1>3. TypeOK
  BY <1>1, <1>2 DEF Init, TypeOK, WorkType, EditType, PC, State
<1>4. IdsOrdered /\ HistoryOrdered /\ SettledFirst
  BY <1>2 DEF Init, IdsOrdered, HistoryOrdered, SettledFirst, Event
<1>5. EditInv
  BY DEF Init, EditInv, Free
<1>6. WorkInv
  <2> SUFFICES ASSUME NEW w \in Worker PROVE Listed(w) /\ Changing(w) /\ Told(w)
    BY DEF WorkInv
  <2>1. pc[w] = "idle" /\ work[w] = Idle /\ \A f \in Feature : held[f] # w
    BY <1>2 DEF Init
  <2> QED BY <1>2, <2>1 DEF Listed, Changing, Told, Idle, Serving, Standing
<1>7. NotifiedInFull /\ InOrder /\ ManualStands
  BY <1>2 DEF Init, NotifiedInFull, InOrder, ManualStands
<1> QED BY <1>3, <1>4, <1>5, <1>6, <1>7 DEF IInv

LEMMA Stutter == IInv /\ UNCHANGED vars => IInv'
BY DEF IInv, TypeOK, IdsOrdered, HistoryOrdered, SettledFirst, EditInv, WorkInv, Listed,
       Changing, Told, InSight, Serving, Standing, Earlier, NotifiedInFull, InOrder,
       ManualStands, Row, vars, tables, feature, locks, history

LEMMA StepInv == IInv /\ [Next]_vars => IInv'
<1> SUFFICES ASSUME IInv, [Next]_vars PROVE IInv'
  OBVIOUS
<1>1. CASE \/ Tick \/ (\E e \in Editor : CheckEdit(e) \/ WriteEdit(e) \/ Delete(e))
           \/ (\E i \in Immediate : OpenEvent(i) \/ CommitEvent(i))
  BY <1>1, TableStep
<1>2. ASSUME NEW w \in Worker, Local(w) PROVE IInv'
  BY <1>2, LocalOwn, LocalStep
<1>3. ASSUME NEW w \in Worker,
             Materialize(w) \/ MarkNotified(w) \/ Commit(w) \/ CommitUnheard(w)
      PROVE  IInv'
  BY <1>3, MaterializeStep, MarkNotifiedStep, CommitStep
<1>4. CASE UNCHANGED vars
  BY <1>4, Stutter
<1> QED BY <1>1, <1>2, <1>3, <1>4 DEF Next, Step, Local

(* Ids follow release_at, a pass follows the ids, and the history says     *)
(* what is done: the facts a pass works from hold at any time, for any     *)
(* number of passes that overlap.                                          *)
THEOREM Invariance == Spec => []IInv
BY InitInv, StepInv, PTL DEF Spec

(* A feature never shows an earlier phase when a later one has changed it  *)
(* (process_due_releases_locked, set_state_conn).                          *)
THEOREM FeaturesInOrder == Spec => []InOrder
<1>1. IInv => InOrder
  BY DEF IInv
<1> QED BY Invariance, <1>1, PTL

(* What an administrator has set is not undone by a phase that was due     *)
(* when the request came in (module/release.rs: the update makes a pass    *)
(* first).                                                                 *)
THEOREM ManualAlwaysStands == Spec => []ManualStands
<1>1. IInv => ManualStands
  BY DEF IInv
<1> QED BY Invariance, <1>1, PTL

(* The rows refer to phases that are there, and an event with notified_at  *)
(* was dealt with in full.                                                 *)
THEOREM EventsAlwaysSound == Spec => []EventsSound
<1>1. IInv => EventsSound
  BY DEF IInv, EventsSound
<1> QED BY Invariance, <1>1, PTL
=============================================================================
