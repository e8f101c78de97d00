--------------------------- MODULE FrontendProofs ---------------------------
(***************************************************************************)
(* Proofs about what is kept in files.                                     *)
(*   Frontend   for any number of admins, readers, packages, groups of     *)
(*              files and revisions: packages keep their files, the cache  *)
(*              follows the published revision, and published pages change *)
(*              by publication only                                        *)
(*   AssetGroup as MCParts instantiates it, for any files, folders, names  *)
(*              and requests: what a failed renaming has moved is moved    *)
(*              back, and every file keeps its bytes                       *)
(***************************************************************************)
EXTENDS Frontend, MCParts, FiniteSetTheorems, WellFoundedInduction, TLAPS

(* Revisions are numbered one after the other; one is published, one is a  *)
(* draft.                                                                  *)
Numbered ==
  \E n \in 0..MaxRevision : \A r \in Revision : revision[r] # "none" <=> r <= n

Single ==
  /\ \A r, s \in Published : r = s
  /\ \A r, s \in Draft : r = s
  /\ \A p, q \in Current : p = q

(* What the published revision and the draft use is there.                 *)
UsedThere ==
  /\ \A r \in Live : binding[r] \in Present \cup {0} /\ active[r] \subseteq Present
  /\ \A r \in Revision : revision[r] = "none" => binding[r] = 0 /\ active[r] = {}

(* The files of one package are not those of another.                      *)
Apart ==
  /\ \A p, q \in Present : package[p].group = package[q].group => p = q
  /\ \A p \in Present : package[p].group \notin garbage /\ package[p].group <= groups
  /\ \A g \in stored \cup garbage : g <= groups

(* Whose files a call will drop, or give to a package.                     *)
Owns(c) ==
  LET g == call[c].group IN
  /\ g <= groups
  /\ call[c].pc \in {"replaced", "delete files", "cleanup files"} =>
       \A p \in Present : package[p].group # g
  /\ call[c].pc \in {"unuse", "delete", "cleanup delete"} =>
       \A p \in Present : package[p].group = g => p = call[c].package
  /\ call[c].pc = "register" =>
       /\ g \in stored \ garbage /\ \A p \in Present : package[p].group # g
       /\ \A d \in Admin \ {c} : call[d].group # g

(* What a call is about.                                                   *)
Fit(c) ==
  /\ call[c].pc \in {"bind", "feature on", "feature off", "config"} => call[c].revision \in Revision
  /\ call[c].pc \in {"feature on", "feature off", "config", "mark", "unuse", "delete",
                     "cleanup delete"} => call[c].package \in Package
  /\ c \notin Admin => call[c].pc \in {"idle", "store"}

IInv ==
  /\ TypeOK /\ Numbered /\ Single /\ UsedThere /\ Apart /\ FilesThere /\ CacheFresh
  /\ \A c \in Admin \cup Reader : Owns(c) /\ Fit(c)

-----------------------------------------------------------------------------
(* Types, and what is shown.                                               *)

PackageRow == [group: 0..MaxGroup, page: BOOLEAN, feature: BOOLEAN, pending: BOOLEAN]
CallRow ==
  [pc: PC, revision: 0..MaxRevision, package: 0..MaxPackage, group: 0..MaxGroup]

LEMMA Typed ==
  ASSUME TypeOK
  PROVE  /\ package \in [Package -> PackageRow]
         /\ revision \in [Revision -> {"none", "draft", "published", "deleted"}]
         /\ binding \in [Revision -> 0..MaxPackage] /\ active \in [Revision -> SUBSET Package]
         /\ stored \subseteq Group /\ groups \in 0..MaxGroup
         /\ garbage \subseteq Group /\ journal \in BOOLEAN
         /\ cache \in [group: -1..MaxGroup, excused: BOOLEAN]
         /\ call \in [Admin \cup Reader -> CallRow]
BY DEF TypeOK, PackageRow, CallRow

LEMMA Bounds ==
  /\ MaxPackage \in Nat /\ MaxGroup \in Nat /\ MaxRevision \in Nat
  /\ 0 \notin Package /\ 0 \notin Group /\ 0 \notin Revision
  /\ NoPackage \in PackageRow /\ NoCall \in CallRow
<1>1. MaxPackage \in Nat /\ MaxGroup \in Nat /\ MaxRevision \in Nat
  BY ConstantAssumption
<1>2. 0 \notin Package /\ 0 \notin Group /\ 0 \notin Revision
  BY <1>1 DEF Package, Group, Revision
<1>3. 0 \in 0..MaxGroup /\ 0 \in 0..MaxPackage /\ 0 \in 0..MaxRevision
  BY <1>1
<1>4. NoPackage \in PackageRow
  BY <1>3 DEF NoPackage, PackageRow
<1>5. NoCall \in CallRow
  BY <1>3 DEF NoCall, CallRow, PC
<1> QED BY <1>1, <1>2, <1>4, <1>5

LEMMA Ranges ==
  /\ \A p \in Package : p \in 0..MaxPackage /\ p # 0
  /\ \A r \in Revision : r \in 0..MaxRevision /\ r # 0
  /\ \A g \in Group : g \in 0..MaxGroup /\ g # 0
BY Bounds DEF Package, Revision, Group

LEMMA Zero ==
  /\ 0 \in 0..MaxGroup /\ 0 \in 0..MaxPackage /\ 0 \in 0..MaxRevision
  /\ \A g \in 0..MaxGroup : 0 <= g /\ g \in Int
BY ConstantAssumption

LEMMA NewestIs ==
  ASSUME NEW n \in 0..MaxRevision, \A r \in Revision : revision[r] # "none" <=> r <= n
  PROVE  Newest = n
<1>1. {r \in Revision : revision[r] # "none"} = 1..n
  BY Bounds DEF Revision
<1>2. n \in Nat
  BY Bounds
<1>3. Cardinality(1..n) = n
  BY <1>2, FS_Interval
<1> QED BY <1>1, <1>3 DEF Newest

(* The next revision is none yet.                                          *)
LEMMA NextIs ==
  ASSUME Numbered, Newest < MaxRevision
  PROVE  /\ Newest + 1 \in Revision /\ revision[Newest + 1] = "none"
         /\ \A r \in Revision : revision[r] # "none" <=> r <= Newest
         /\ Newest \in 0..MaxRevision
<1>1. PICK n \in 0..MaxRevision : \A r \in Revision : revision[r] # "none" <=> r <= n
  BY DEF Numbered
<1>2. Newest = n
  BY <1>1, NewestIs
<1> QED BY <1>1, <1>2, Bounds DEF Revision

LEMMA AnswerIs ==
  ASSUME Single, NEW r \in Published
  PROVE  Answer = IF binding[r] # 0 THEN package[binding[r]].group ELSE 0
<1>1. (CHOOSE s \in Published : TRUE) \in Published
  OBVIOUS
<1>2. (CHOOSE s \in Published : TRUE) = r
  BY <1>1 DEF Single
<1>3. (\E s \in Published : binding[s] # 0) <=> binding[r] # 0
  BY DEF Single
<1> QED BY <1>2, <1>3 DEF Answer

LEMMA AnswerType ==
  ASSUME TypeOK, Single
  PROVE  /\ Answer \in 0..MaxGroup
         /\ UsedThere /\ Answer # 0 => \E p \in Present : Answer = package[p].group
<1>1. CASE Published = {}
  BY <1>1, Bounds DEF Answer
<1>2. ASSUME NEW r \in Published
      PROVE  /\ Answer \in 0..MaxGroup
             /\ UsedThere /\ Answer # 0 => \E p \in Present : Answer = package[p].group
  <2>1. r \in Revision /\ r \in Live
    BY DEF Published, Live
  <2>2. binding[r] # 0 => binding[r] \in Package
    BY <2>1, Typed, Bounds DEF Package
  <2>3. binding[r] # 0 => package[binding[r]].group \in 0..MaxGroup
    BY <2>2, Typed DEF PackageRow
  <2> QED BY <1>2, <2>1, <2>3, AnswerIs, Bounds DEF UsedThere
<1> QED BY <1>1, <1>2

(* What a reader is shown stays.                                           *)
Seen ==
  /\ Published' = Published
  /\ \A r \in Published :
       /\ binding'[r] = binding[r] /\ active'[r] = active[r]
       /\ \A p \in Package : Uses(r, p) => package'[p].group = package[p].group

LEMMA SeenAnswer ==
  ASSUME TypeOK, Single, Single',
         Published' = Published,
         \A r \in Published :
           /\ binding'[r] = binding[r]
           /\ binding[r] \in Package => package'[binding[r]].group = package[binding[r]].group
  PROVE  Answer' = Answer
<1>1. CASE Published = {}
  BY <1>1 DEF Answer
<1>2. ASSUME NEW r \in Published PROVE Answer' = Answer
  <2>1. Answer = IF binding[r] # 0 THEN package[binding[r]].group ELSE 0
    BY <1>2, AnswerIs
  <2>2. Answer' = IF binding'[r] # 0 THEN package'[binding'[r]].group ELSE 0
    <3>1. (CHOOSE s \in Published' : TRUE) = r
      BY <1>2 DEF Single
    <3>2. (\E s \in Published' : binding'[s] # 0) <=> binding'[r] # 0
      BY <1>2 DEF Single
    <3> QED BY <3>1, <3>2 DEF Answer
  <2>3. binding[r] # 0 => binding[r] \in Package
    BY <1>2, Typed, Bounds DEF Package, Published
  <2> QED BY <1>2, <2>1, <2>2, <2>3
<1> QED BY <1>1, <1>2

LEMMA SeenShown ==
  ASSUME TypeOK, Seen
  PROVE  Shown' = Shown
<1> DEFINE T(r) == <<r, IF binding[r] = 0 THEN 0 ELSE package[binding[r]].group,
                     {package[p].group : p \in active[r]}>>
           U(r) == <<r, IF binding'[r] = 0 THEN 0 ELSE package'[binding'[r]].group,
                     {package'[p].group : p \in active'[r]}>>
<1>1. ASSUME NEW r \in Published PROVE U(r) = T(r)
  <2>1. r \in Revision /\ binding[r] \in 0..MaxPackage /\ active[r] \subseteq Package
    BY Typed DEF Published
  <2>2. binding'[r] = binding[r] /\ active'[r] = active[r]
    BY DEF Seen
  <2>3. binding[r] # 0 => binding[r] \in Package
    BY <2>1, Bounds DEF Package
  <2>4. binding[r] # 0 => package'[binding[r]].group = package[binding[r]].group
    BY <2>3 DEF Seen, Uses
  <2>5. \A p \in active[r] : package'[p].group = package[p].group
    BY <2>1 DEF Seen, Uses
  <2>6. {package'[p].group : p \in active[r]} = {package[p].group : p \in active[r]}
    BY <2>5
  <2> QED BY <2>2, <2>4, <2>6
<1>2. Shown = {T(r) : r \in Published} /\ Shown' = {U(r) : r \in Published'}
  BY DEF Shown
<1>3. Published' = Published
  BY DEF Seen
<1> HIDE DEF T, U
<1> QED BY <1>1, <1>2, <1>3

-----------------------------------------------------------------------------
(* What a step leaves of what is known.                                    *)

(* A call that does not move keeps its files apart from those of others.   *)
LEMMA OwnsKept ==
  ASSUME TypeOK, TypeOK', NEW c \in Admin \cup Reader, Owns(c), Fit(c), call'[c] = call[c],
         groups <= groups',
         \A p \in Present' : \/ p \in Present /\ package'[p].group = package[p].group
                             \/ package'[p].group # call[c].group
                             \/ c \notin Admin,
         call[c].pc = "register" =>
           /\ call[c].group \in stored' \ garbage'
           /\ \A p \in Present' : package'[p].group # call[c].group
           /\ \A d \in Admin \ {c} : call'[d].group # call[c].group
  PROVE  Owns(c)' /\ Fit(c)'
<1>1. call'[c].group = call[c].group /\ call'[c].pc = call[c].pc
      /\ call'[c].package = call[c].package /\ call'[c].revision = call[c].revision
  OBVIOUS
<1>2. call[c].group <= groups'
  <2>1. call[c].group \in Int /\ groups \in Int /\ call[c].group <= groups
    <3>1. call[c] \in CallRow /\ groups \in 0..MaxGroup
      BY Typed
    <3>2. call[c].group <= groups
      BY DEF Owns
    <3> QED BY <3>1, <3>2, Bounds DEF CallRow
  <2>2. groups' \in Int
    BY DEF TypeOK
  <2> QED BY <1>1, <2>1, <2>2
<1>3. Fit(c)'
  BY <1>1 DEF Fit
<1> QED BY <1>1, <1>2, <1>3 DEF Owns, Fit

(* The cache, when nobody who cleans up has ended.                         *)
LEMMA CacheKept ==
  ASSUME CacheFresh, Answer' = Answer, cache' = cache,
         \A c \in Admin : call[c].pc \in Cleaning => call'[c].pc \in Cleaning
  PROVE  CacheFresh'
BY DEF CacheFresh

LEMMA CacheExcused ==
  ASSUME TypeOK, Excuse
  PROVE  CacheFresh' /\ cache' \in [group: -1..MaxGroup, excused: BOOLEAN]
<1>1. cache \in [group: -1..MaxGroup, excused: BOOLEAN]
  BY Typed
<1>2. cache'.group = cache.group /\ cache'.excused = (cache.excused \/ cache.group # -1)
  BY <1>1 DEF Excuse
<1>3. cache' \in [group: -1..MaxGroup, excused: BOOLEAN]
  BY <1>1 DEF Excuse
<1> QED BY <1>2, <1>3 DEF CacheFresh

LEMMA CacheCleared ==
  ASSUME cache' = NoEntry
  PROVE  CacheFresh' /\ cache' \in [group: -1..MaxGroup, excused: BOOLEAN]
<1>1. -1 \in -1..MaxGroup
  BY Bounds
<1> QED BY <1>1 DEF CacheFresh, NoEntry

(* The invariant but for the calls and the cache.                          *)
TablesInv == Numbered /\ Single /\ UsedThere
FilesInv  == Apart /\ FilesThere
CallsInv  == \A c \in Admin \cup Reader : Owns(c) /\ Fit(c)

LEMMA Whole == IInv <=> TypeOK /\ TablesInv /\ FilesInv /\ CacheFresh /\ CallsInv
BY DEF IInv, TablesInv, FilesInv, CallsInv

LEMMA AnswerSame ==
  ASSUME UNCHANGED tables
  PROVE  Answer' = Answer
<1>1. UNCHANGED <<package, revision, binding, active>>
  BY DEF tables
<1>2. Published' = Published
  BY <1>1 DEF Published
<1> QED BY <1>1, <1>2 DEF Answer

LEMMA TablesSame ==
  ASSUME TypeOK, TypeOK', TablesInv, UNCHANGED tables
  PROVE  TablesInv' /\ Answer' = Answer /\ Seen
<1>1. UNCHANGED <<package, revision, binding, active>>
  BY DEF tables
<1>2. Published' = Published /\ Draft' = Draft /\ Live' = Live /\ Present' = Present
      /\ Current' = Current
  BY <1>1 DEF Published, Draft, Live, Present, Current
<1>3. TablesInv'
  BY <1>1, <1>2 DEF TablesInv, Numbered, Single, UsedThere
<1>4. Seen
  BY <1>1, <1>2 DEF Seen
<1>5. Answer' = Answer
  BY <1>1, <1>2 DEF Answer
<1> QED BY <1>3, <1>4, <1>5

-----------------------------------------------------------------------------
(* What a step makes of the call it belongs to.                            *)

LEMMA Calls ==
  ASSUME TypeOK, NEW c \in Admin \cup Reader
  PROVE  /\ call[c] \in CallRow /\ call[c].pc \in PC /\ call[c].revision \in 0..MaxRevision
         /\ call[c].package \in 0..MaxPackage /\ call[c].group \in 0..MaxGroup
BY Typed DEF CallRow

LEMMA Updated ==
  ASSUME TypeOK, NEW c \in Admin \cup Reader, NEW r \in CallRow, call' = [call EXCEPT ![c] = r]
  PROVE  /\ call' \in [Admin \cup Reader -> CallRow] /\ call'[c] = r
         /\ \A d \in (Admin \cup Reader) \ {c} : call'[d] = call[d]
BY Typed

LEMMA Gone ==
  ASSUME TypeOK, NEW c \in Admin \cup Reader, Done(c)
  PROVE  /\ call' \in [Admin \cup Reader -> CallRow] /\ call'[c] = NoCall
         /\ \A d \in (Admin \cup Reader) \ {c} : call'[d] = call[d]
BY Updated, Bounds DEF Done

LEMMA Moved ==
  ASSUME TypeOK, NEW c \in Admin \cup Reader, NEW pc \in PC, Goto(c, pc)
  PROVE  /\ call' \in [Admin \cup Reader -> CallRow] /\ call'[c] = [call[c] EXCEPT !.pc = pc]
         /\ call'[c].pc = pc /\ call'[c].group = call[c].group
         /\ call'[c].package = call[c].package /\ call'[c].revision = call[c].revision
         /\ \A d \in (Admin \cup Reader) \ {c} : call'[d] = call[d]
<1>1. [call[c] EXCEPT !.pc = pc] \in CallRow /\ call[c] \in CallRow
  BY Calls DEF CallRow
<1>2. call' = [call EXCEPT ![c] = [call[c] EXCEPT !.pc = pc]]
  BY DEF Goto
<1>3. /\ call' \in [Admin \cup Reader -> CallRow] /\ call'[c] = [call[c] EXCEPT !.pc = pc]
      /\ \A d \in (Admin \cup Reader) \ {c} : call'[d] = call[d]
  BY <1>1, <1>2, Updated
<1> QED BY <1>1, <1>3 DEF CallRow

LEMMA Begun ==
  ASSUME TypeOK, NEW c \in Admin \cup Reader, NEW pc \in PC, NEW r \in 0..MaxRevision,
         NEW p \in 0..MaxPackage, Begin(c, pc, r, p)
  PROVE  /\ call' \in [Admin \cup Reader -> CallRow] /\ call[c].pc = "idle"
         /\ call'[c].pc = pc /\ call'[c].group = 0
         /\ call'[c].package = p /\ call'[c].revision = r
         /\ \A d \in (Admin \cup Reader) \ {c} : call'[d] = call[d]
<1>1. [NoCall EXCEPT !.pc = pc, !.revision = r, !.package = p] \in CallRow
  BY Bounds DEF CallRow, NoCall
<1>2. /\ call[c].pc = "idle"
      /\ call' = [call EXCEPT ![c] = [NoCall EXCEPT !.pc = pc, !.revision = r, !.package = p]]
  BY DEF Begin, Idle
<1>3. /\ call' \in [Admin \cup Reader -> CallRow]
      /\ call'[c] = [NoCall EXCEPT !.pc = pc, !.revision = r, !.package = p]
      /\ \A d \in (Admin \cup Reader) \ {c} : call'[d] = call[d]
  BY <1>1, <1>2, Updated
<1> QED BY <1>2, <1>3 DEF NoCall

(* Files that no package has may go, and packages may lose theirs.         *)
LEMMA FilesGo ==
  ASSUME TypeOK, TypeOK', FilesInv, groups' = groups,
         \A p \in Present' : p \in Present /\ package'[p].group = package[p].group,
         stored' \subseteq stored, garbage' \subseteq garbage,
         \A p \in Present' : package[p].group \in stored => package[p].group \in stored'
  PROVE  FilesInv'
<1>1. \A p \in Present' : package'[p].group \in stored'
  BY DEF FilesInv, FilesThere
<1>2. Apart'
  BY DEF FilesInv, Apart
<1> QED BY <1>1, <1>2 DEF FilesInv, FilesThere

(* Calls that own nothing of their own.                                    *)
Plain == PC \ {"replaced", "delete files", "cleanup files", "unuse", "delete", "cleanup delete",
               "register"}

LEMMA PlainOwns ==
  ASSUME NEW c \in Admin \cup Reader, call'[c].group <= groups', call'[c].pc \in Plain
  PROVE  Owns(c)'
BY DEF Owns, Plain

(* The other calls, when nothing of theirs changes hands.                  *)
LEMMA CallsKept ==
  ASSUME TypeOK, TypeOK', FilesInv, CallsInv, NEW c \in Admin \cup Reader,
         \A d \in (Admin \cup Reader) \ {c} : call'[d] = call[d],
         groups' = groups, garbage' \subseteq garbage,
         \A p \in Present' : p \in Present /\ package'[p].group = package[p].group,
         \A d \in Admin \ {c} : call[d].pc = "register" =>
           /\ call[d].group \in stored'
           /\ c \in Admin => call'[c].group # call[d].group
  PROVE  \A d \in (Admin \cup Reader) \ {c} : Owns(d)' /\ Fit(d)'
<1> SUFFICES ASSUME NEW d \in (Admin \cup Reader) \ {c} PROVE Owns(d)' /\ Fit(d)'
  OBVIOUS
<1>1. Owns(d) /\ Fit(d) /\ call'[d] = call[d]
  BY DEF CallsInv
<1>2. groups <= groups'
  BY Typed
<1>3. ASSUME call[d].pc = "register"
      PROVE  /\ call[d].group \in stored' \ garbage'
             /\ \A p \in Present' : package'[p].group # call[d].group
             /\ \A e \in Admin \ {d} : call'[e].group # call[d].group
  <2>1. d \in Admin
    BY <1>1, <1>3 DEF Fit
  <2>2. call[d].group \in stored' /\ call[d].group \notin garbage'
    BY <1>1, <1>3, <2>1 DEF Owns
  <2>3. \A p \in Present' : package'[p].group # call[d].group
    BY <1>1, <1>3 DEF Owns
  <2>4. ASSUME NEW e \in Admin \ {d} PROVE call'[e].group # call[d].group
    <3>1. CASE e = c
      BY <1>3, <2>1, <3>1
    <3>2. CASE e # c
      BY <1>1, <1>3, <3>2 DEF Owns
    <3> QED BY <3>1, <3>2
  <2> QED BY <2>2, <2>3, <2>4
<1> QED BY <1>1, <1>2, <1>3, OwnsKept

-----------------------------------------------------------------------------
(* Steps that change calls, files and the cache only.                      *)

LEMMA Quiet ==
  ASSUME IInv, TypeOK', UNCHANGED tables, FilesInv', CacheFresh', CallsInv'
  PROVE  IInv' /\ Seen
<1>1. TypeOK /\ TablesInv
  BY Whole
<1>2. TablesInv' /\ Seen
  BY <1>1, TablesSame
<1>3. IInv'
  BY <1>2 DEF IInv, TablesInv, FilesInv, CallsInv
<1> QED BY <1>2, <1>3

(* An upload that waits for its registration has files of its own.         *)
LEMMA Waiting ==
  ASSUME TypeOK, CallsInv, NEW d \in Admin \cup Reader, call[d].pc = "register"
  PROVE  /\ d \in Admin /\ call[d].group \in Group /\ call[d].group \in stored \ garbage
         /\ call[d].group # 0
         /\ \A p \in Present : package[p].group # call[d].group
         /\ \A e \in Admin \ {d} : call[e].group # call[d].group
<1>1. Owns(d) /\ Fit(d)
  BY DEF CallsInv
<1>2. call[d].group \in stored \ garbage
  BY <1>1 DEF Owns
<1> QED BY <1>1, <1>2, Typed, Bounds DEF Owns, Fit

(* Only one call moves, and with it the cache.                             *)
LEMMA CallOnly ==
  ASSUME IInv, NEW c \in Admin \cup Reader, UNCHANGED <<tables, files>>,
         call' \in [Admin \cup Reader -> CallRow],
         \A d \in (Admin \cup Reader) \ {c} : call'[d] = call[d],
         cache' \in [group: -1..MaxGroup, excused: BOOLEAN],
         Owns(c)', Fit(c)', CacheFresh',
         \A d \in Admin \ {c} : call[d].pc = "register" => call'[c].group # call[d].group
  PROVE  IInv' /\ Seen
<1>1. TypeOK /\ FilesInv /\ CallsInv
  BY Whole
<1>2. /\ UNCHANGED <<package, revision, binding, active>>
      /\ UNCHANGED <<stored, groups, garbage, journal>> /\ UNCHANGED tables
  BY DEF tables, files
<1>3. TypeOK'
  BY <1>1, <1>2 DEF TypeOK, CallRow
<1>4. Present' = Present
  BY <1>2 DEF Present
<1>5. FilesInv'
  BY <1>1, <1>2, <1>4 DEF FilesInv, Apart, FilesThere
<1>6. \A d \in Admin \ {c} : call[d].pc = "register" => call[d].group \in stored'
  BY <1>1, <1>2, Waiting
<1>7. \A d \in (Admin \cup Reader) \ {c} : Owns(d)' /\ Fit(d)'
  BY <1>1, <1>2, <1>3, <1>4, <1>6, CallsKept
<1>8. CallsInv'
  BY <1>7 DEF CallsInv
<1> QED BY <1>2, <1>3, <1>5, <1>8, Quiet

LEMMA Begins ==
  ASSUME IInv, NEW c \in Admin, NEW pc \in {"bind", "feature on", "feature off", "config"},
         NEW r \in Revision, NEW p \in 0..MaxPackage, Begin(c, pc, r, p),
         pc # "bind" => p \in Package, UNCHANGED <<tables, files, cache>>
  PROVE  IInv' /\ Seen
<1>1. TypeOK /\ CallsInv /\ CacheFresh /\ TablesInv
  BY Whole
<1>2. pc \in PC /\ pc \in Plain /\ r \in 0..MaxRevision /\ pc \notin Cleaning
  <2>1. pc \in PC /\ pc \in Plain /\ pc \notin Cleaning
    BY DEF PC, Plain, Cleaning
  <2> QED BY <2>1, Ranges
<1>3. /\ call' \in [Admin \cup Reader -> CallRow] /\ call[c].pc = "idle"
      /\ call'[c].pc = pc /\ call'[c].group = 0
      /\ call'[c].package = p /\ call'[c].revision = r
      /\ \A d \in (Admin \cup Reader) \ {c} : call'[d] = call[d]
  BY <1>1, <1>2, Begun
<1>4. UNCHANGED <<tables, files>> /\ cache' = cache /\ groups' = groups /\ groups \in 0..MaxGroup
  BY <1>1, Typed DEF files
<1>5. Owns(c)'
  <2>1. 0 <= groups'
    BY <1>4, Zero
  <2> QED BY <1>2, <1>3, <2>1, PlainOwns
<1>6. Fit(c)'
  BY <1>2, <1>3 DEF Fit
<1>7. \A d \in Admin \ {c} : call[d].pc = "register" => call'[c].group # call[d].group
  BY <1>1, <1>3, Waiting
<1>8. Answer' = Answer
  BY <1>4, AnswerSame
<1>9. CacheFresh'
  BY <1>1, <1>3, <1>4, <1>8, CacheKept DEF Cleaning
<1>10. cache' \in [group: -1..MaxGroup, excused: BOOLEAN]
  BY <1>1, <1>4, Typed
<1> QED BY <1>3, <1>4, <1>5, <1>6, <1>7, <1>9, <1>10, CallOnly

LEMMA StepAskBind ==
  ASSUME IInv, NEW c \in Admin, NEW r \in Revision, NEW p \in 0..MaxPackage, AskBind(c, r, p)
  PROVE  IInv' /\ Seen
BY Begins DEF AskBind

LEMMA StepAskFeature ==
  ASSUME IInv, NEW c \in Admin, NEW r \in Revision, NEW p \in Package, AskFeature(c, r, p)
  PROVE  IInv' /\ Seen
<1>1. PICK on \in {"feature on", "feature off"} : Begin(c, on, r, p)
  BY DEF AskFeature
<1>2. p \in 0..MaxPackage /\ UNCHANGED <<tables, files, cache>>
  BY Ranges DEF AskFeature
<1> QED BY <1>1, <1>2, Begins

LEMMA StepAskConfig ==
  ASSUME IInv, NEW c \in Admin, NEW r \in Revision, NEW p \in Package, AskConfig(c, r, p)
  PROVE  IInv' /\ Seen
<1>1. Begin(c, "config", r, p) /\ UNCHANGED <<tables, files, cache>>
  BY DEF AskConfig
<1>2. p \in 0..MaxPackage
  BY Ranges
<1> QED BY <1>1, <1>2, Begins

(* A call that ends or turns plain, the cache kept.                        *)
LEMMA CacheStays ==
  ASSUME IInv, UNCHANGED tables, cache' = cache,
         \A c \in Admin : call[c].pc \in Cleaning => call'[c].pc \in Cleaning
  PROVE  CacheFresh' /\ cache' \in [group: -1..MaxGroup, excused: BOOLEAN]
<1>1. TypeOK /\ CacheFresh
  BY Whole
<1>2. Answer' = Answer
  BY AnswerSame
<1> QED BY <1>1, <1>2, Typed, CacheKept

(* What a call becomes when it takes the files of a package over.          *)
LEMMA Takes ==
  ASSUME IInv, NEW c \in Admin, UNCHANGED <<tables, files, cache>>, NEW p \in Present,
         NEW row \in CallRow, row.package = p, row.group = package[p].group,
         row.pc \in {"mark", "unuse", "cleanup delete"}, call' = [call EXCEPT ![c] = row],
         call[c].pc \in Cleaning => row.pc \in Cleaning
  PROVE  IInv' /\ Seen
<1>1. TypeOK /\ CallsInv /\ FilesInv /\ TablesInv
  BY Whole
<1>2. p \in Package /\ p \in 0..MaxPackage
  BY Ranges DEF Present
<1>3. package[p].group \in 0..MaxGroup /\ package[p].group <= groups
  <2>1. package[p].group \in 0..MaxGroup
    BY <1>1, <1>2, Typed DEF PackageRow
  <2> QED BY <1>1, <2>1 DEF FilesInv, Apart
<1>4. /\ call' \in [Admin \cup Reader -> CallRow] /\ call'[c] = row
      /\ \A d \in (Admin \cup Reader) \ {c} : call'[d] = call[d]
  BY <1>1, Updated
<1>5. UNCHANGED <<tables, files>> /\ UNCHANGED tables /\ cache' = cache /\ groups' = groups
      /\ package' = package /\ Present' = Present
  BY DEF tables, files, Present
<1>6. \A q \in Present : package[q].group = package[p].group => q = p
  BY <1>1 DEF FilesInv, Apart
<1>7. Owns(c)'
  BY <1>3, <1>4, <1>5, <1>6 DEF Owns
<1>8. Fit(c)'
  BY <1>2, <1>4 DEF Fit
<1>9. \A d \in Admin \ {c} : call[d].pc = "register" => call'[c].group # call[d].group
  <2>1. call'[c].group = package[p].group
    BY <1>4
  <2>2. \A d \in Admin \ {c} : call[d].pc = "register" => package[p].group # call[d].group
    BY <1>1, Waiting
  <2> QED BY <2>1, <2>2
<1>10. CacheFresh' /\ cache' \in [group: -1..MaxGroup, excused: BOOLEAN]
  BY <1>4, <1>5, CacheStays
<1> QED BY <1>4, <1>5, <1>7, <1>8, <1>9, <1>10, CallOnly

LEMMA StepAskDelete ==
  ASSUME IInv, NEW c \in Admin, NEW p \in Package, AskDelete(c, p)
  PROVE  IInv' /\ Seen
<1>1. p \in Present /\ call[c].pc = "idle" /\ UNCHANGED <<tables, files, cache>>
  BY DEF AskDelete, Idle
<1>2. PICK pc \in {"mark", "unuse"} :
        call' = [call EXCEPT ![c] = [pc |-> pc, revision |-> 0, package |-> p,
                                     group |-> package[p].group]]
  BY DEF AskDelete
<1> DEFINE row == [pc |-> pc, revision |-> 0, package |-> p, group |-> package[p].group]
<1>3. row \in CallRow
  <2>1. pc \in PC
    BY DEF PC
  <2>2. p \in 0..MaxPackage /\ package[p].group \in 0..MaxGroup
    BY Whole, Ranges, Typed DEF PackageRow
  <2> QED BY <2>1, <2>2, Zero DEF CallRow
<1>4. row.pc = pc /\ row.package = p /\ row.group = package[p].group
  OBVIOUS
<1>5. call' = [call EXCEPT ![c] = row] /\ call[c].pc \notin Cleaning
  BY <1>1, <1>2 DEF Cleaning
<1> HIDE DEF row
<1> QED BY <1>1, <1>3, <1>4, <1>5, Takes

(* A call ends, or goes on with nothing of its own.                        *)
LEMMA Ends ==
  ASSUME IInv, NEW c \in Admin \cup Reader, UNCHANGED <<tables, files>>, NEW row \in CallRow,
         call' = [call EXCEPT ![c] = row], row.pc \in {"idle", "drop published"}, row.group = 0,
         c \notin Admin => row.pc = "idle",
         CacheFresh' /\ cache' \in [group: -1..MaxGroup, excused: BOOLEAN]
  PROVE  IInv' /\ Seen
<1>1. TypeOK /\ CallsInv
  BY Whole
<1>2. /\ call' \in [Admin \cup Reader -> CallRow] /\ call'[c] = row
      /\ \A d \in (Admin \cup Reader) \ {c} : call'[d] = call[d]
  BY <1>1, Updated
<1>3. groups' = groups /\ groups \in 0..MaxGroup
  BY <1>1, Typed DEF files
<1>4. Owns(c)'
  <2>1. 0 <= groups'
    BY <1>3, Zero
  <2>2. row.pc \in Plain
    BY DEF Plain, PC
  <2> QED BY <1>2, <2>1, <2>2, PlainOwns
<1>5. Fit(c)'
  BY <1>2 DEF Fit
<1>6. \A d \in Admin \ {c} : call[d].pc = "register" => call'[c].group # call[d].group
  BY <1>1, <1>2, Waiting
<1> QED BY <1>2, <1>4, <1>5, <1>6, CallOnly

LEMMA StepCleanNext ==
  ASSUME IInv, NEW c \in Admin, CleanNext(c)
  PROVE  IInv' /\ Seen
<1>1. call[c].pc = "cleanup" /\ UNCHANGED <<tables, files, cache>>
  BY DEF CleanNext, At
<1>2. TypeOK
  BY Whole
<1>3. ASSUME NEW p \in Present,
             call' = [call EXCEPT ![c].pc = "cleanup delete", ![c].package = p,
                                  ![c].group = package[p].group]
      PROVE  IInv' /\ Seen
  <2> DEFINE row == [call[c] EXCEPT !.pc = "cleanup delete", !.package = p,
                                    !.group = package[p].group]
  <2>1. call[c] \in CallRow /\ call \in [Admin \cup Reader -> CallRow]
    BY <1>2, Typed
  <2>2. p \in 0..MaxPackage /\ package[p].group \in 0..MaxGroup
    BY <1>2, Ranges, Typed DEF Present, PackageRow
  <2>3. "cleanup delete" \in PC
    BY DEF PC
  <2>4. /\ row \in CallRow
        /\ row.pc = "cleanup delete" /\ row.package = p /\ row.group = package[p].group
    BY <2>1, <2>2, <2>3 DEF CallRow
  <2>5. call' = [call EXCEPT ![c] = row]
    BY <1>3, <2>1
  <2> HIDE DEF row
  <2> QED BY <1>1, <2>4, <2>5, Takes DEF Cleaning
<1>4. ASSUME call' = [call EXCEPT ![c] = [NoCall EXCEPT !.pc = "drop published"]]
      PROVE  IInv' /\ Seen
  <2> DEFINE row == [NoCall EXCEPT !.pc = "drop published"]
  <2>1. row \in CallRow /\ row.pc = "drop published" /\ row.group = 0
    BY Bounds DEF NoCall, CallRow, PC
  <2> HIDE DEF row
  <2>2. call' = [call EXCEPT ![c] = row]
    BY <1>4 DEF row
  <2>3. call'[c] = row /\ \A d \in (Admin \cup Reader) \ {c} : call'[d] = call[d]
    BY <1>2, <2>1, <2>2, Updated
  <2>4. CacheFresh' /\ cache' \in [group: -1..MaxGroup, excused: BOOLEAN]
    BY <1>1, <2>1, <2>3, CacheStays DEF Cleaning
  <2> QED BY <1>1, <2>1, <2>2, <2>4, Ends
<1> QED BY <1>3, <1>4 DEF CleanNext

LEMMA StepInvalidate ==
  ASSUME IInv, NEW c \in Admin, Invalidate(c)
  PROVE  IInv' /\ Seen
<1>1. call' = [call EXCEPT ![c] = NoCall] /\ cache' = NoEntry /\ UNCHANGED <<tables, files>>
  BY DEF Invalidate, Done
<1>2. NoCall \in CallRow /\ NoCall.pc = "idle" /\ NoCall.group = 0
  BY Bounds DEF NoCall
<1> QED BY <1>1, <1>2, CacheCleared, Ends

LEMMA StepStop ==
  ASSUME IInv, NEW c \in Admin, Stop(c)
  PROVE  IInv' /\ Seen
<1>1. call' = [call EXCEPT ![c] = NoCall] /\ UNCHANGED <<tables, files>>
  BY DEF Stop, Done
<1>2. NoCall \in CallRow /\ NoCall.pc = "idle" /\ NoCall.group = 0
  BY Bounds DEF NoCall
<1>3. TypeOK
  BY Whole
<1>4. CASE call[c].pc \in Cleaning
  <2>1. Excuse
    BY <1>4 DEF Stop
  <2> QED BY <1>1, <1>2, <1>3, <2>1, CacheExcused, Ends
<1>5. CASE call[c].pc \notin Cleaning
  <2>1. cache' = cache
    BY <1>5 DEF Stop
  <2>2. \A d \in (Admin \cup Reader) \ {c} : call'[d] = call[d]
    BY <1>1, <1>3, <1>2, Updated
  <2>3. CacheFresh' /\ cache' \in [group: -1..MaxGroup, excused: BOOLEAN]
    BY <1>1, <1>5, <2>1, <2>2, CacheStays
  <2> QED BY <1>1, <1>2, <2>3, Ends
<1> QED BY <1>4, <1>5

LEMMA StepMiss ==
  ASSUME IInv, NEW c \in Reader, Miss(c)
  PROVE  IInv' /\ Seen
<1> DEFINE row == [NoCall EXCEPT !.pc = "store", !.group = Answer]
<1>1. /\ call[c].pc = "idle" /\ call' = [call EXCEPT ![c] = row] /\ UNCHANGED <<tables, files>>
      /\ UNCHANGED <<tables, files, cache>>
  BY DEF Miss, Idle
<1>2. TypeOK /\ CallsInv /\ FilesInv /\ TablesInv /\ Single /\ UsedThere
  BY Whole DEF TablesInv
<1>3. Answer \in 0..MaxGroup /\ (Answer # 0 => \E p \in Present : Answer = package[p].group)
  BY <1>2, AnswerType
<1>4. row \in CallRow /\ row.pc = "store" /\ row.group = Answer
  BY <1>3, Bounds DEF NoCall, CallRow, PC
<1> HIDE DEF row
<1>5. /\ call' \in [Admin \cup Reader -> CallRow] /\ call'[c] = row
      /\ \A d \in (Admin \cup Reader) \ {c} : call'[d] = call[d]
  BY <1>1, <1>2, <1>4, Updated
<1>6. Answer <= groups /\ groups' = groups
  <2>1. groups' = groups /\ groups \in 0..MaxGroup
    BY <1>1, <1>2, Typed DEF files
  <2>2. \A p \in Present : package[p].group <= groups
    BY <1>2 DEF FilesInv, Apart
  <2> QED BY <1>3, <2>1, <2>2
<1>7. Owns(c)'
  BY <1>4, <1>5, <1>6, PlainOwns DEF Plain, PC
<1>8. Fit(c)'
  BY <1>4, <1>5 DEF Fit
<1>9. \A d \in Admin \ {c} : call[d].pc = "register" => call'[c].group # call[d].group
  BY <1>2, <1>3, <1>4, <1>5, Waiting
<1>10. CacheFresh' /\ cache' \in [group: -1..MaxGroup, excused: BOOLEAN]
  BY <1>1, <1>5, CacheStays DEF Cleaning
<1> QED BY <1>1, <1>5, <1>7, <1>8, <1>9, <1>10, CallOnly

LEMMA StepStoreAnswer ==
  ASSUME IInv, NEW c \in Reader, StoreAnswer(c)
  PROVE  IInv' /\ Seen
<1>1. /\ call' = [call EXCEPT ![c] = NoCall] /\ UNCHANGED <<tables, files>>
      /\ cache' = [group |-> call[c].group, excused |-> call[c].group # Answer]
  BY DEF StoreAnswer, Done
<1>2. NoCall \in CallRow /\ NoCall.pc = "idle" /\ NoCall.group = 0
  BY Bounds DEF NoCall
<1>3. TypeOK
  BY Whole
<1>4. Answer' = Answer
  BY <1>1, AnswerSame
<1>5. CacheFresh'
  BY <1>1, <1>4 DEF CacheFresh
<1>6. call[c].group \in -1..MaxGroup
  <2>1. call[c].group \in 0..MaxGroup
    BY <1>3, Calls
  <2> QED BY <2>1, Bounds
<1>7. cache' \in [group: -1..MaxGroup, excused: BOOLEAN]
  BY <1>1, <1>6
<1> QED BY <1>1, <1>2, <1>5, <1>7, Ends

-----------------------------------------------------------------------------
(* Steps that change the files.                                            *)

(* Nobody moves, and files go that nothing is left of.                     *)
LEMMA Standing ==
  ASSUME IInv, TypeOK', UNCHANGED tables, groups' = groups, call' = call, CacheFresh',
         garbage' \subseteq garbage, stored' \subseteq stored, stored \ stored' \subseteq garbage
  PROVE  IInv' /\ Seen
<1>1. TypeOK /\ FilesInv /\ CallsInv
  BY Whole
<1>2. package' = package /\ Present' = Present
  BY DEF tables, Present
<1>3. \A p \in Present : package[p].group \in stored => package[p].group \in stored'
  BY <1>1 DEF FilesInv, Apart
<1>4. FilesInv'
  BY <1>1, <1>2, <1>3, FilesGo
<1>5. ASSUME NEW c \in Admin \cup Reader PROVE Owns(c)' /\ Fit(c)'
  <2>1. Owns(c) /\ Fit(c) /\ groups <= groups' /\ call'[c] = call[c]
    BY <1>1, Typed DEF CallsInv
  <2>2. call[c].pc = "register" =>
          /\ call[c].group \in stored' \ garbage'
          /\ \A p \in Present' : package'[p].group # call[c].group
          /\ \A d \in Admin \ {c} : call'[d].group # call[c].group
    BY <1>1, <1>2, Waiting
  <2> QED BY <1>1, <1>2, <2>1, <2>2, OwnsKept
<1>6. CallsInv'
  BY <1>5 DEF CallsInv
<1> QED BY <1>4, <1>6, Quiet

LEMMA StepDropGarbage ==
  ASSUME IInv, NEW g \in Group, DropGarbage(g)
  PROVE  IInv' /\ Seen
<1>1. /\ UNCHANGED tables /\ groups' = groups /\ call' = call /\ cache' = cache
      /\ garbage' = garbage \ {g} /\ stored' = stored \ {g} /\ g \in garbage
      /\ UNCHANGED <<package, revision, binding, active>> /\ journal' = journal
  BY DEF DropGarbage, tables
<1>2. TypeOK
  BY Whole
<1>3. TypeOK'
  BY <1>1, <1>2 DEF TypeOK
<1>4. CacheFresh'
  BY <1>1, CacheStays
<1> QED BY <1>1, <1>3, <1>4, Standing

LEMMA StepJournaled ==
  ASSUME IInv, Journaled
  PROVE  IInv' /\ Seen
<1>1. /\ UNCHANGED tables /\ groups' = groups /\ call' = call /\ cache' = NoEntry
      /\ garbage' = garbage /\ stored' = stored /\ journal' = FALSE
      /\ UNCHANGED <<package, revision, binding, active>>
  BY DEF Journaled, tables
<1>2. TypeOK
  BY Whole
<1>3. CacheFresh' /\ cache' \in [group: -1..MaxGroup, excused: BOOLEAN]
  BY <1>1, CacheCleared
<1>4. TypeOK'
  BY <1>1, <1>2, <1>3 DEF TypeOK
<1> QED BY <1>1, <1>3, <1>4, Standing

LEMMA StepExpire ==
  ASSUME IInv, Expire
  PROVE  IInv' /\ Seen
<1>1. /\ UNCHANGED tables /\ groups' = groups /\ call' = call /\ cache' = NoEntry
      /\ garbage' = garbage /\ stored' = stored /\ journal' = journal
      /\ UNCHANGED <<package, revision, binding, active>>
  BY DEF Expire, tables, files
<1>2. TypeOK
  BY Whole
<1>3. CacheFresh' /\ cache' \in [group: -1..MaxGroup, excused: BOOLEAN]
  BY <1>1, CacheCleared
<1>4. TypeOK'
  BY <1>1, <1>2, <1>3 DEF TypeOK
<1> QED BY <1>1, <1>3, <1>4, Standing

(* A call drops the files it was left with.                                *)
LEMMA Drops ==
  ASSUME IInv, NEW c \in Admin, UNCHANGED <<tables, groups, garbage, journal, cache>>,
         call[c].pc \in {"replaced", "delete files", "cleanup files"},
         stored' \in {stored, stored \ {call[c].group}},
         call' \in [Admin \cup Reader -> CallRow],
         \A d \in (Admin \cup Reader) \ {c} : call'[d] = call[d],
         call'[c].pc \in {"idle", "invalidate", "cleanup"},
         call'[c].group \in {0, call[c].group},
         call[c].pc = "cleanup files" => call'[c].pc = "cleanup"
  PROVE  IInv' /\ Seen
<1>1. TypeOK /\ FilesInv /\ CallsInv
  BY Whole
<1>2. /\ UNCHANGED <<package, revision, binding, active>> /\ UNCHANGED tables
      /\ groups' = groups /\ garbage' = garbage /\ journal' = journal /\ cache' = cache
  BY DEF tables
<1>3. Present' = Present
  BY <1>2 DEF Present
<1>4. TypeOK'
  BY <1>1, <1>2 DEF TypeOK, CallRow
<1>5. /\ call[c].group <= groups /\ \A p \in Present : package[p].group # call[c].group
      /\ call[c].group \in 0..MaxGroup
  BY <1>1, Calls DEF CallsInv, Owns
<1>6. FilesInv'
  BY <1>1, <1>2, <1>3, <1>4, <1>5, FilesGo
<1>7. \A d \in Admin \ {c} : call[d].pc = "register" =>
        call[d].group \in stored' /\ call'[c].group # call[d].group
  BY <1>1, Waiting
<1>8. \A d \in (Admin \cup Reader) \ {c} : Owns(d)' /\ Fit(d)'
  BY <1>1, <1>2, <1>3, <1>4, <1>7, CallsKept
<1>9. Owns(c)'
  <2>1. call'[c].group <= groups'
    BY <1>1, <1>2, <1>5, Typed, Zero
  <2>2. call'[c].pc \in Plain
    BY DEF Plain, PC
  <2> QED BY <2>1, <2>2, PlainOwns
<1>10. Fit(c)'
  BY DEF Fit
<1>11. CallsInv'
  BY <1>8, <1>9, <1>10 DEF CallsInv
<1>12. \A d \in Admin : call[d].pc \in Cleaning => call'[d].pc \in Cleaning
  BY DEF Cleaning
<1>13. CacheFresh'
  BY <1>2, <1>12, CacheStays
<1> QED BY <1>2, <1>4, <1>6, <1>11, <1>13, Quiet

LEMMA StepDropReplaced ==
  ASSUME IInv, NEW c \in Admin, DropReplaced(c)
  PROVE  IInv' /\ Seen
<1>1. /\ call[c].pc = "replaced" /\ Goto(c, "invalidate")
      /\ stored' \in {stored, stored \ {call[c].group}}
      /\ UNCHANGED <<tables, groups, garbage, journal, cache>>
  BY DEF DropReplaced, At
<1>2. TypeOK /\ "invalidate" \in PC
  BY Whole DEF PC
<1>3. /\ call' \in [Admin \cup Reader -> CallRow]
      /\ call'[c].pc = "invalidate" /\ call'[c].group = call[c].group
      /\ \A d \in (Admin \cup Reader) \ {c} : call'[d] = call[d]
  BY <1>1, <1>2, Moved
<1> QED BY <1>1, <1>3, Drops

LEMMA StepDeleteFiles ==
  ASSUME IInv, NEW c \in Admin, DeleteFiles(c)
  PROVE  IInv' /\ Seen
<1>1. /\ call[c].pc \in {"delete files", "cleanup files"}
      /\ stored' = stored \ {call[c].group}
      /\ UNCHANGED <<tables, groups, garbage, journal, cache>>
  BY DEF DeleteFiles
<1>2. TypeOK /\ "cleanup" \in PC
  BY Whole DEF PC
<1>3. CASE call[c].pc = "delete files"
  <2>1. Done(c)
    BY <1>3 DEF DeleteFiles, At
  <2>2. /\ call' \in [Admin \cup Reader -> CallRow] /\ call'[c] = NoCall
        /\ \A d \in (Admin \cup Reader) \ {c} : call'[d] = call[d]
    BY <1>2, <2>1, Gone
  <2>3. NoCall.pc = "idle" /\ NoCall.group = 0
    BY DEF NoCall
  <2> QED BY <1>1, <1>3, <2>2, <2>3, Drops
<1>4. CASE call[c].pc = "cleanup files"
  <2>1. Goto(c, "cleanup")
    BY <1>4 DEF DeleteFiles, At
  <2>2. /\ call' \in [Admin \cup Reader -> CallRow]
        /\ call'[c].pc = "cleanup" /\ call'[c].group = call[c].group
        /\ \A d \in (Admin \cup Reader) \ {c} : call'[d] = call[d]
    BY <1>2, <2>1, Moved
  <2> QED BY <1>1, <1>4, <2>2, Drops
<1> QED BY <1>1, <1>3, <1>4

LEMMA StepUpload ==
  ASSUME IInv, NEW c \in Admin, Upload(c)
  PROVE  IInv' /\ Seen
<1> DEFINE row == [NoCall EXCEPT !.pc = "register", !.group = groups + 1]
<1>1. /\ groups < MaxGroup /\ groups' = groups + 1 /\ stored' = stored \cup {groups + 1}
      /\ call' = [call EXCEPT ![c] = row] /\ UNCHANGED tables
      /\ garbage' = garbage /\ journal' = journal /\ cache' = cache
      /\ UNCHANGED <<package, revision, binding, active>> /\ call[c].pc = "idle"
  BY DEF Upload, tables, Idle
<1>2. TypeOK /\ FilesInv /\ CallsInv
  BY Whole
<1>3. groups \in Nat /\ groups + 1 \in 0..MaxGroup /\ groups + 1 \in Group
  <2>1. groups \in 0..MaxGroup
    BY <1>2, Typed
  <2>2. MaxGroup \in Nat
    BY Bounds
  <2> QED BY <1>1, <2>1, <2>2 DEF Group
<1>4. row \in CallRow /\ row.pc = "register" /\ row.group = groups + 1
  <2>1. "register" \in PC
    BY DEF PC
  <2> QED BY <1>3, <2>1, Zero DEF NoCall, CallRow
<1> HIDE DEF row
<1>5. /\ call' \in [Admin \cup Reader -> CallRow] /\ call'[c] = row
      /\ \A d \in (Admin \cup Reader) \ {c} : call'[d] = call[d]
  BY <1>1, <1>2, <1>4, Updated
<1>6. TypeOK'
  BY <1>1, <1>2, <1>3, <1>5 DEF TypeOK, CallRow
<1>7. Present' = Present
  BY <1>1 DEF Present
<1>8. /\ \A p \in Present : package[p].group \in Nat /\ package[p].group <= groups
      /\ \A g \in stored \cup garbage : g \in Nat /\ g <= groups
      /\ \A d \in Admin \cup Reader : call[d].group \in Nat /\ call[d].group <= groups
  <2>1. \A p \in Present : package[p].group \in Nat /\ package[p].group <= groups
    BY <1>2, Typed, Bounds DEF FilesInv, Apart, Present, PackageRow
  <2>2. \A g \in stored \cup garbage : g \in Nat /\ g <= groups
    BY <1>2, Typed, Bounds DEF FilesInv, Apart, Group
  <2>3. \A d \in Admin \cup Reader : call[d].group \in Nat /\ call[d].group <= groups
    <3> SUFFICES ASSUME NEW d \in Admin \cup Reader
                 PROVE  call[d].group \in Nat /\ call[d].group <= groups
      OBVIOUS
    <3>1. call[d].group \in 0..MaxGroup
      BY <1>2, Calls
    <3>2. Owns(d)
      BY <1>2 DEF CallsInv
    <3>3. call[d].group \in Nat
      BY <3>1, Bounds
    <3>4. call[d].group <= groups
      BY <3>2 DEF Owns
    <3> QED BY <3>3, <3>4
  <2> QED BY <2>1, <2>2, <2>3
<1>9. \A n \in Nat : n <= groups => n <= groups + 1 /\ n # groups + 1
  BY <1>3
<1>10. FilesInv'
  <2>1. \A p, q \in Present' : package'[p].group = package'[q].group => p = q
    BY <1>1, <1>2, <1>7 DEF FilesInv, Apart
  <2>2. \A p \in Present' : /\ package'[p].group \notin garbage'
                            /\ package'[p].group <= groups' /\ package'[p].group \in stored'
    BY <1>1, <1>2, <1>7, <1>8, <1>9 DEF FilesInv, Apart, FilesThere
  <2>3. \A g \in stored' \cup garbage' : g <= groups'
    BY <1>1, <1>3, <1>8, <1>9
  <2> QED BY <2>1, <2>2, <2>3 DEF FilesInv, Apart, FilesThere
<1>11. ASSUME NEW d \in (Admin \cup Reader) \ {c} PROVE Owns(d)' /\ Fit(d)'
  <2>1. Owns(d) /\ Fit(d) /\ call'[d] = call[d] /\ groups <= groups'
    BY <1>1, <1>2, <1>3, <1>5 DEF CallsInv
  <2>2. ASSUME call[d].pc = "register"
        PROVE  /\ call[d].group \in stored' \ garbage'
               /\ \A p \in Present' : package'[p].group # call[d].group
               /\ \A e \in Admin \ {d} : call'[e].group # call[d].group
    <3>1. /\ call[d].group \in stored \ garbage
          /\ \A p \in Present : package[p].group # call[d].group
          /\ \A e \in Admin \ {d} : call[e].group # call[d].group
      BY <1>2, <2>2, Waiting
    <3>2. ASSUME NEW e \in Admin \ {d} PROVE call'[e].group # call[d].group
      <4>1. CASE e = c
        BY <1>4, <1>5, <1>8, <1>9, <4>1
      <4>2. CASE e # c
        BY <1>5, <3>1, <4>2
      <4> QED BY <4>1, <4>2
    <3> QED BY <1>1, <1>7, <3>1, <3>2
  <2> QED BY <1>1, <1>2, <1>6, <1>7, <2>1, <2>2, OwnsKept
<1>12. Owns(c)'
  <2>1. groups + 1 \in stored' \ garbage'
    BY <1>1, <1>3, <1>8, <1>9
  <2>2. \A p \in Present' : package'[p].group # groups + 1
    BY <1>1, <1>7, <1>8, <1>9
  <2>3. \A d \in Admin \ {c} : call'[d].group # groups + 1
    BY <1>5, <1>8, <1>9
  <2>4. call'[c].group = groups + 1 /\ call'[c].pc = "register" /\ groups + 1 <= groups'
    BY <1>1, <1>3, <1>4, <1>5
  <2> QED BY <2>1, <2>2, <2>3, <2>4 DEF Owns
<1>13. Fit(c)'
  BY <1>4, <1>5 DEF Fit
<1>14. CallsInv'
  BY <1>11, <1>12, <1>13 DEF CallsInv
<1>15. CacheFresh'
  <2>1. \A d \in Admin : call[d].pc \in Cleaning => call'[d].pc \in Cleaning
    BY <1>1, <1>5 DEF Cleaning
  <2> QED BY <1>1, <2>1, CacheStays
<1> QED BY <1>1, <1>6, <1>10, <1>14, <1>15, Quiet

-----------------------------------------------------------------------------
(* Steps that change revisions and what they use.                          *)

(* What the published pages show stays, unless somebody publishes or comes *)
(* late.                                                                   *)
Stands == Seen \/ Published' # Published \/ \E c \in Admin : Late(c) /\ call'[c] # call[c]

LEMMA SeenFresh ==
  ASSUME IInv, Single', Seen, cache' = cache,
         \A c \in Admin : call[c].pc \in Cleaning => call'[c].pc \in Cleaning
  PROVE  CacheFresh' /\ cache' \in [group: -1..MaxGroup, excused: BOOLEAN]
<1>1. TypeOK /\ CacheFresh /\ Single
  BY DEF IInv
<1>2. /\ Published' = Published
      /\ \A r \in Published :
           /\ binding'[r] = binding[r]
           /\ binding[r] \in Package => package'[binding[r]].group = package[binding[r]].group
  BY DEF Seen, Uses
<1>3. Answer' = Answer
  BY <1>1, <1>2, SeenAnswer
<1> QED BY <1>1, <1>3, Typed, CacheKept

(* The packages and their files stay, and one call moves.                  *)
LEMMA Rewritten ==
  ASSUME IInv, NEW c \in Admin, package' = package, UNCHANGED files, TypeOK', TablesInv',
         CacheFresh', \A d \in (Admin \cup Reader) \ {c} : call'[d] = call[d],
         Owns(c)', Fit(c)', call'[c].group \in {0, call[c].group}
  PROVE  IInv'
<1>1. TypeOK /\ FilesInv /\ CallsInv
  BY Whole
<1>2. /\ stored' = stored /\ groups' = groups /\ garbage' = garbage /\ Present' = Present
  BY DEF files, Present
<1>3. FilesInv'
  BY <1>1, <1>2, FilesGo
<1>4. \A d \in Admin \ {c} : call[d].pc = "register" =>
        call[d].group \in stored' /\ call'[c].group # call[d].group
  BY <1>1, <1>2, Waiting
<1>5. \A d \in (Admin \cup Reader) \ {c} : Owns(d)' /\ Fit(d)'
  BY <1>1, <1>2, <1>4, CallsKept
<1>6. CallsInv'
  BY <1>5 DEF CallsInv
<1> QED BY <1>3, <1>6 DEF IInv, TablesInv, FilesInv, CallsInv

LEMMA StepEnsureDraft ==
  ASSUME IInv, EnsureDraft
  PROVE  IInv' /\ Stands
<1> DEFINE d == Newest + 1
<1>1. TypeOK /\ TablesInv /\ Numbered /\ Single /\ UsedThere /\ FilesInv /\ CallsInv
  BY Whole DEF TablesInv
<1>2. /\ Draft = {} /\ Newest < MaxRevision
      /\ revision' = [revision EXCEPT ![d] = "draft"]
      /\ package' = package /\ UNCHANGED files /\ cache' = cache /\ call' = call
  BY DEF EnsureDraft
<1>3. /\ d \in Revision /\ revision[d] = "none"
      /\ \A r \in Revision : revision[r] # "none" <=> r <= Newest
      /\ Newest \in 0..MaxRevision
  BY <1>1, <1>2, NextIs
<1>4. d \in 0..MaxRevision /\ \A r \in Revision : r <= d <=> r <= Newest \/ r = d
  <2>1. \A r \in Revision : r \in Int
    BY Bounds DEF Revision
  <2>2. Newest \in Int /\ Newest + 1 \in 0..MaxRevision
    BY <1>2, <1>3, Bounds
  <2> QED BY <2>1, <2>2
<1>5. \A r \in Revision \ {d} : binding'[r] = binding[r] /\ active'[r] = active[r]
  BY <1>1, Typed DEF EnsureDraft
<1>6. \/ binding'[d] = 0 /\ active'[d] = {}
      \/ \E r \in Published : binding'[d] = binding[r] /\ active'[d] = active[r]
  <2>1. CASE UNCHANGED <<binding, active>>
    BY <1>1, <1>3, <2>1 DEF UsedThere
  <2>2. ASSUME NEW r \in Published, binding' = [binding EXCEPT ![d] = binding[r]],
               active' = [active EXCEPT ![d] = active[r]]
        PROVE  binding'[d] = binding[r] /\ active'[d] = active[r]
    BY <1>1, <1>3, <2>2, Typed
  <2> QED BY <2>1, <2>2 DEF EnsureDraft
<1>7. binding' \in [Revision -> 0..MaxPackage] /\ active' \in [Revision -> SUBSET Package]
  BY <1>1, Typed DEF EnsureDraft, Published
<1>8. revision' \in [Revision -> {"none", "draft", "published", "deleted"}]
  BY <1>1, <1>2, Typed
<1>9. \A r \in Revision : revision'[r] = IF r = d THEN "draft" ELSE revision[r]
  BY <1>1, <1>2, <1>3, Typed
<1> HIDE DEF d
<1>10. TypeOK'
  BY <1>1, <1>2, <1>7, <1>8 DEF TypeOK, files
<1>11. Published' = Published /\ Draft' = {d} /\ Live' = Live \cup {d} /\ d \notin Published
       /\ Present' = Present /\ Current' = Current
  BY <1>2, <1>3, <1>9 DEF Published, Draft, Live, Present, Current
<1>12. Numbered'
  BY <1>3, <1>4, <1>9 DEF Numbered
<1>13. Single'
  BY <1>1, <1>11 DEF Single
<1>14. UsedThere'
  <2>1. \A r \in Published : binding[r] \in Present \cup {0} /\ active[r] \subseteq Present
    BY <1>1 DEF UsedThere, Published, Live
  <2>2. binding'[d] \in Present \cup {0} /\ active'[d] \subseteq Present
    BY <1>6, <2>1
  <2>3. \A r \in Live' : binding'[r] \in Present' \cup {0} /\ active'[r] \subseteq Present'
    BY <1>1, <1>5, <1>11, <2>2 DEF UsedThere, Live
  <2>4. \A r \in Revision : revision'[r] = "none" => binding'[r] = 0 /\ active'[r] = {}
    BY <1>1, <1>5, <1>9 DEF UsedThere
  <2> QED BY <2>3, <2>4 DEF UsedThere
<1>15. Seen
  BY <1>2, <1>5, <1>11 DEF Seen, Published
<1>16. CacheFresh'
  BY <1>2, <1>13, <1>15, SeenFresh
<1>17. FilesInv' /\ CallsInv'
  BY <1>1, <1>2, <1>11
     DEF files, FilesInv, Apart, FilesThere, CallsInv, Owns, Fit
<1> QED BY <1>10, <1>12, <1>13, <1>14, <1>15, <1>16, <1>17
        DEF IInv, FilesInv, CallsInv, Stands

(* A revision is rewritten by a call that ends.                            *)
LEMMA Rewrites ==
  ASSUME IInv, NEW c \in Admin, NEW r \in Revision, Done(c), UNCHANGED <<package, revision, files>>,
         call[c].pc \in {"bind", "feature on", "feature off", "config"},
         call[c].revision = r,
         NEW b \in 0..MaxPackage, NEW a \in SUBSET Package,
         binding' = [binding EXCEPT ![r] = b], active' = [active EXCEPT ![r] = a],
         r \in Live => b \in Present \cup {0} /\ a \subseteq Present,
         revision[r] = "none" => b = 0 /\ a = {},
         \/ Excuse
         \/ cache' = cache /\ (r \in Published => b = binding[r])
  PROVE  IInv' /\ Stands
<1>1. TypeOK /\ TablesInv /\ Numbered /\ Single /\ UsedThere /\ FilesInv /\ CallsInv /\ CacheFresh
  BY Whole DEF TablesInv
<1>2. /\ call' \in [Admin \cup Reader -> CallRow] /\ call'[c] = NoCall
      /\ \A d \in (Admin \cup Reader) \ {c} : call'[d] = call[d]
  BY <1>1, Gone
<1>3. /\ binding' \in [Revision -> 0..MaxPackage] /\ active' \in [Revision -> SUBSET Package]
      /\ binding'[r] = b /\ active'[r] = a
      /\ \A q \in Revision \ {r} : binding'[q] = binding[q] /\ active'[q] = active[q]
  BY <1>1, Typed
<1>4. Published' = Published /\ Draft' = Draft /\ Live' = Live /\ Present' = Present
      /\ Current' = Current
  BY DEF Published, Draft, Live, Present, Current
<1>5. TablesInv'
  <2>1. Numbered' /\ Single'
    BY <1>1, <1>4 DEF Numbered, Single
  <2>2. \A q \in Live' : binding'[q] \in Present' \cup {0} /\ active'[q] \subseteq Present'
    BY <1>1, <1>3, <1>4 DEF UsedThere, Live
  <2>3. \A q \in Revision : revision'[q] = "none" => binding'[q] = 0 /\ active'[q] = {}
    BY <1>1, <1>3 DEF UsedThere
  <2> QED BY <2>1, <2>2, <2>3 DEF TablesInv, UsedThere
<1>6. \A d \in Admin : call[d].pc \in Cleaning => call'[d].pc \in Cleaning
  BY <1>2 DEF Cleaning
<1>7. CacheFresh' /\ cache' \in [group: -1..MaxGroup, excused: BOOLEAN]
  <2>1. CASE Excuse
    BY <1>1, <2>1, CacheExcused
  <2>2. CASE cache' = cache /\ (r \in Published => b = binding[r])
    <3>1. \A q \in Published : binding'[q] = binding[q]
      BY <1>3, <2>2 DEF Published
    <3>2. Answer' = Answer
      BY <1>1, <1>4, <1>5, <3>1, SeenAnswer DEF TablesInv
    <3> QED BY <1>1, <1>6, <2>2, <3>2, Typed, CacheKept
  <2> QED BY <2>1, <2>2
<1>8. TypeOK'
  BY <1>1, <1>2, <1>3, <1>7 DEF TypeOK, CallRow, files
<1>9. Stands
  <2>1. CASE r \in Published
    <3>1. call[c].revision \notin Draft
      BY <2>1 DEF Published, Draft
    <3>2. NoCall.pc = "idle"
      BY DEF NoCall
    <3>3. call'[c] # call[c]
      BY <1>2, <3>2
    <3> QED BY <3>1, <3>3 DEF Late, Stands
  <2>2. CASE r \notin Published
    <3>1. Seen
      BY <1>3, <1>4, <2>2 DEF Seen, Published
    <3> QED BY <3>1 DEF Stands
  <2> QED BY <2>1, <2>2
<1>10. Owns(c)' /\ Fit(c)'
  <2>1. NoCall.pc = "idle" /\ NoCall.group = 0 /\ "idle" \in Plain
    BY DEF NoCall, Plain, PC
  <2>2. 0 <= groups'
    BY <1>1, Typed, Zero DEF files
  <2> QED BY <1>2, <2>1, <2>2, PlainOwns DEF Fit
<1>11. call'[c].group = 0
  <2>1. NoCall.group = 0
    BY DEF NoCall
  <2> QED BY <1>2, <2>1
<1> QED BY <1>2, <1>5, <1>7, <1>8, <1>9, <1>10, <1>11, Rewritten

(* ... or it finds nothing to rewrite.                                     *)
LEMMA NothingToRewrite ==
  ASSUME IInv, NEW c \in Admin, Done(c), UNCHANGED <<package, revision, binding, active, files, cache>>,
         call[c].pc \notin Cleaning
  PROVE  IInv' /\ Stands
<1>1. TypeOK
  BY Whole
<1>2. NoCall \in CallRow /\ NoCall.pc = "idle" /\ NoCall.group = 0
      /\ call' = [call EXCEPT ![c] = NoCall]
  BY Bounds DEF NoCall, Done
<1>3. \A d \in (Admin \cup Reader) \ {c} : call'[d] = call[d]
  BY <1>1, Gone
<1>4. UNCHANGED <<tables, files>> /\ UNCHANGED tables /\ cache' = cache
  BY DEF tables
<1>5. CacheFresh' /\ cache' \in [group: -1..MaxGroup, excused: BOOLEAN]
  BY <1>3, <1>4, CacheStays
<1>6. IInv' /\ Seen
  BY <1>2, <1>4, <1>5, Ends
<1> QED BY <1>6 DEF Stands

LEMMA StepBind ==
  ASSUME IInv, NEW c \in Admin, Bind(c)
  PROVE  IInv' /\ Stands
<1> DEFINE r == call[c].revision
           p == call[c].package
<1>1. TypeOK /\ UsedThere /\ CallsInv
  BY Whole DEF TablesInv
<1>2. /\ call[c].pc = "bind" /\ Done(c) /\ UNCHANGED <<package, revision, active, files>>
      /\ call[c].pc \notin Cleaning
  BY DEF Bind, At, Cleaning
<1>3. r \in Revision /\ p \in 0..MaxPackage
  BY <1>1, <1>2, Calls DEF CallsInv, Fit
<1>4. CASE r \in Live /\ (p = 0 \/ p \in Present)
  <2>1. /\ binding' = [binding EXCEPT ![r] = p]
        /\ IF r \in Published THEN Excuse ELSE UNCHANGED cache
    BY <1>4 DEF Bind
  <2>2. active' = [active EXCEPT ![r] = active[r]] /\ active[r] \in SUBSET Package
    BY <1>1, <1>2, <1>3, Typed
  <2>3. active[r] \subseteq Present /\ revision[r] # "none"
    BY <1>1, <1>4 DEF UsedThere, Live
  <2> QED BY <1>2, <1>3, <1>4, <2>1, <2>2, <2>3, Rewrites
<1>5. CASE ~(r \in Live /\ (p = 0 \/ p \in Present))
  <2>1. UNCHANGED <<binding, cache>>
    BY <1>5 DEF Bind
  <2> QED BY <1>2, <2>1, NothingToRewrite
<1> QED BY <1>4, <1>5

LEMMA StepFeature ==
  ASSUME IInv, NEW c \in Admin, Feature(c)
  PROVE  IInv' /\ Stands
<1> DEFINE r == call[c].revision
           p == call[c].package
           kept == {q \in active[r] : p \in Present => ~package[q].pending}
           a == IF At(c, "feature on") /\ r \in Live /\ p \in Present THEN kept \cup {p} ELSE kept \ {p}
<1>1. TypeOK /\ UsedThere /\ CallsInv
  BY Whole DEF TablesInv
<1>2. /\ call[c].pc \in {"feature on", "feature off"} /\ Done(c)
      /\ UNCHANGED <<package, revision, binding, files, cache>>
      /\ active' = [active EXCEPT ![r] = a]
  BY DEF Feature
<1>3. r \in Revision /\ p \in Package
  BY <1>1, <1>2 DEF CallsInv, Fit
<1>4. a \in SUBSET Package
  <2>1. active[r] \subseteq Package
    BY <1>1, <1>3, Typed
  <2> QED BY <1>3, <2>1
<1>5. binding' = [binding EXCEPT ![r] = binding[r]] /\ binding[r] \in 0..MaxPackage
  BY <1>1, <1>2, <1>3, Typed
<1>6. r \in Live => binding[r] \in Present \cup {0} /\ a \subseteq Present
  <2>1. r \in Live => binding[r] \in Present \cup {0} /\ active[r] \subseteq Present
    BY <1>1 DEF UsedThere
  <2> QED BY <2>1
<1>7. revision[r] = "none" => binding[r] = 0 /\ a = {}
  <2>1. revision[r] = "none" => r \notin Live /\ binding[r] = 0 /\ active[r] = {}
    BY <1>1, <1>3 DEF UsedThere, Live
  <2> QED BY <2>1
<1> HIDE DEF a
<1> QED BY <1>2, <1>3, <1>4, <1>5, <1>6, <1>7, Rewrites

LEMMA StepConfig ==
  ASSUME IInv, NEW c \in Admin, Config(c)
  PROVE  IInv' /\ Stands
<1> DEFINE r == call[c].revision
           p == call[c].package
<1>1. TypeOK /\ CallsInv
  BY Whole
<1>2. /\ call[c].pc = "config" /\ Done(c) /\ UNCHANGED <<package, revision, files>>
      /\ call[c].pc \notin Cleaning
  BY DEF Config, At, Cleaning
<1>3. r \in Revision /\ p \in Package /\ p \in 0..MaxPackage
  BY <1>1, <1>2, Calls DEF CallsInv, Fit
<1>4. CASE r \in Live /\ p \in Present
  <2>1. /\ binding' = [binding EXCEPT ![r] = p] /\ active' = [active EXCEPT ![r] = {p}]
        /\ IF r \in Published THEN Excuse ELSE UNCHANGED cache
    BY <1>4 DEF Config
  <2>2. {p} \in SUBSET Package /\ {p} \subseteq Present /\ revision[r] # "none"
    BY <1>3, <1>4 DEF Live
  <2> QED BY <1>2, <1>3, <1>4, <2>1, <2>2, Rewrites
<1>5. CASE ~(r \in Live /\ p \in Present)
  <2>1. UNCHANGED <<binding, active, cache>>
    BY <1>5 DEF Config
  <2> QED BY <1>2, <2>1, NothingToRewrite
<1> QED BY <1>4, <1>5

LEMMA StepPublish ==
  ASSUME IInv, NEW c \in Admin, NEW r \in Revision, Publish(c, r)
  PROVE  IInv' /\ Stands
<1> DEFINE d == Newest + 1
           here(p)  == p # 0 /\ (~package[p].pending \/ Current # {})
           moved(p) == IF package[p].pending THEN Named(p) ELSE p
           b == IF here(binding[r]) THEN moved(binding[r]) ELSE 0
           a == {moved(p) : p \in {q \in active[r] : here(q)}}
<1>1. TypeOK /\ TablesInv /\ Numbered /\ Single /\ UsedThere /\ FilesInv /\ CallsInv /\ CacheFresh
  BY Whole DEF TablesInv
<1>2. /\ r \in Draft /\ Newest < MaxRevision /\ Begin(c, "cleanup", 0, 0)
      /\ revision' = [q \in Revision |->
           IF q = r THEN "published" ELSE IF q \in Published THEN "deleted"
           ELSE IF q = d THEN "draft" ELSE revision[q]]
      /\ binding' = [q \in Revision |->
           IF q \in {r, d} THEN b ELSE IF q \in Published THEN 0 ELSE binding[q]]
      /\ active' = [q \in Revision |->
           IF q \in {r, d} THEN a ELSE IF q \in Published THEN {} ELSE active[q]]
      /\ package' = package /\ UNCHANGED files /\ cache' = cache
  BY DEF Publish
<1>3. /\ d \in Revision /\ revision[d] = "none"
      /\ \A q \in Revision : revision[q] # "none" <=> q <= Newest
      /\ Newest \in 0..MaxRevision
  BY <1>1, <1>2, NextIs
<1>4. d \in 0..MaxRevision /\ \A q \in Revision : q <= d <=> q <= Newest \/ q = d
  <2>1. \A q \in Revision : q \in Int
    BY Bounds DEF Revision
  <2>2. Newest \in Int /\ Newest + 1 \in 0..MaxRevision
    BY <1>2, <1>3, Bounds
  <2> QED BY <2>1, <2>2
<1>5. \A p \in Present : here(p) => moved(p) \in Present
  <2> SUFFICES ASSUME NEW p \in Present, here(p) PROVE moved(p) \in Present
    OBVIOUS
  <2>1. CASE ~package[p].pending
    BY <2>1
  <2>2. CASE package[p].pending
    <3>1. Current # {} /\ Named(p) = CHOOSE q \in Current : TRUE
      BY <2>2 DEF Named
    <3>2. (CHOOSE q \in Current : TRUE) \in Current
      BY <3>1
    <3> QED BY <2>2, <3>1, <3>2 DEF Current
  <2> QED BY <2>1, <2>2
<1>6. binding[r] \in Present \cup {0} /\ active[r] \subseteq Present
  BY <1>1, <1>2 DEF UsedThere, Draft, Live
<1>7. b \in Present \cup {0} /\ a \subseteq Present
  <2>1. b \in Present \cup {0}
    BY <1>5, <1>6
  <2>2. a \subseteq Present
    BY <1>5, <1>6
  <2> QED BY <2>1, <2>2
<1>8. b \in 0..MaxPackage /\ a \subseteq Package
  <2>1. Present \subseteq Package
    BY DEF Present
  <2> QED BY <1>7, <2>1, Ranges, Zero
<1> HIDE DEF a, b, d, here, moved
<1>9. revision' \in [Revision -> {"none", "draft", "published", "deleted"}]
  <2>1. \A q \in Revision : revision[q] \in {"none", "draft", "published", "deleted"}
    BY <1>1, Typed
  <2> QED BY <1>2, <2>1
<1>10. binding' \in [Revision -> 0..MaxPackage] /\ active' \in [Revision -> SUBSET Package]
  <2>1. \A q \in Revision : binding[q] \in 0..MaxPackage /\ active[q] \subseteq Package
    BY <1>1, Typed
  <2> QED BY <1>2, <1>8, <2>1, Zero
<1>11. /\ call' \in [Admin \cup Reader -> CallRow] /\ call[c].pc = "idle"
       /\ call'[c].pc = "cleanup" /\ call'[c].group = 0
       /\ \A e \in (Admin \cup Reader) \ {c} : call'[e] = call[e]
  <2>1. "cleanup" \in PC
    BY DEF PC
  <2> QED BY <1>1, <1>2, <2>1, Zero, Begun
<1>12. TypeOK'
  BY <1>1, <1>2, <1>9, <1>10, <1>11 DEF TypeOK, files, CallRow
<1>13. r # d /\ revision[r] = "draft" /\ \A q \in Draft : q = r
  BY <1>1, <1>2, <1>3 DEF Draft, Single
<1>14. \A q \in Revision :
         /\ revision'[q] = "published" <=> q = r
         /\ revision'[q] = "draft" <=> q = d
         /\ revision'[q] = "none" <=> revision[q] = "none" /\ q # d
  <2> SUFFICES ASSUME NEW q \in Revision
               PROVE  /\ revision'[q] = "published" <=> q = r
                      /\ revision'[q] = "draft" <=> q = d
                      /\ revision'[q] = "none" <=> revision[q] = "none" /\ q # d
    OBVIOUS
  <2>1. revision'[q] = IF q = r THEN "published" ELSE IF q \in Published THEN "deleted"
                       ELSE IF q = d THEN "draft" ELSE revision[q]
    BY <1>2
  <2>2. (q \in Published <=> revision[q] = "published") /\ (revision[q] = "draft" => q = r)
    BY <1>13 DEF Published, Draft
  <2> QED BY <1>3, <1>13, <2>1, <2>2
<1>15. /\ Published' = {r} /\ Draft' = {d} /\ Live' = {r, d}
       /\ Present' = Present /\ Current' = Current
  <2>1. Present' = Present /\ Current' = Current
    BY <1>2 DEF Present, Current
  <2>2. Published' = {r} /\ Draft' = {d}
    BY <1>3, <1>14 DEF Published, Draft
  <2>3. Live' = {r, d}
    BY <1>3, <1>14 DEF Live
  <2> QED BY <2>1, <2>2, <2>3
<1>16. Numbered'
  BY <1>3, <1>4, <1>14 DEF Numbered
<1>17. Single'
  BY <1>1, <1>15 DEF Single
<1>18. UsedThere'
  <2>1. \A q \in Live' : binding'[q] = b /\ active'[q] = a
    BY <1>2, <1>3, <1>15
  <2>2. ASSUME NEW q \in Revision, revision'[q] = "none"
        PROVE  binding'[q] = 0 /\ active'[q] = {}
    <3>1. q \notin {r, d} /\ revision[q] = "none" /\ q \notin Published
      BY <1>13, <1>14, <2>2 DEF Published
    <3> QED BY <1>1, <1>2, <3>1 DEF UsedThere
  <2> QED BY <1>7, <1>15, <2>1, <2>2 DEF UsedThere
<1>19. TablesInv'
  BY <1>16, <1>17, <1>18 DEF TablesInv
<1>20. CacheFresh'
  BY <1>11 DEF CacheFresh, Cleaning
<1>21. Owns(c)'
  <2>1. call'[c].pc \in Plain
    BY <1>11 DEF Plain, PC
  <2>2. call'[c].group <= groups'
    BY <1>1, <1>2, <1>11, Typed, Zero DEF files
  <2> QED BY <2>1, <2>2, PlainOwns
<1>22. Fit(c)'
  BY <1>11 DEF Fit
<1>23. Stands
  <2>1. r \notin Published
    BY <1>13 DEF Published
  <2> QED BY <1>15, <2>1 DEF Stands
<1> QED BY <1>2, <1>11, <1>12, <1>19, <1>20, <1>21, <1>22, <1>23, Rewritten

LEMMA StepUnuse ==
  ASSUME IInv, NEW c \in Admin, Unuse(c)
  PROVE  IInv' /\ Stands
<1> DEFINE p == call[c].package
<1>1. TypeOK /\ TablesInv /\ Numbered /\ Single /\ UsedThere /\ FilesInv /\ CallsInv /\ CacheFresh
  BY Whole DEF TablesInv
<1>2. /\ call[c].pc = "unuse" /\ Goto(c, "delete")
      /\ binding' = [r \in Revision |-> IF binding[r] = p THEN 0 ELSE binding[r]]
      /\ active' = [r \in Revision |-> active[r] \ {p}]
      /\ IF Referenced(p) THEN Excuse ELSE UNCHANGED cache
      /\ package' = package /\ revision' = revision /\ UNCHANGED files
  BY DEF Unuse, At
<1>3. Owns(c) /\ Fit(c) /\ p \in Package /\ p # 0
  BY <1>1, <1>2, Ranges DEF CallsInv, Fit
<1>4. "delete" \in PC
  BY DEF PC
<1>5. /\ call' \in [Admin \cup Reader -> CallRow]
      /\ call'[c].pc = "delete" /\ call'[c].group = call[c].group /\ call'[c].package = p
      /\ \A d \in (Admin \cup Reader) \ {c} : call'[d] = call[d]
  BY <1>1, <1>2, <1>4, Moved
<1> HIDE DEF p
<1>6. \A r \in Revision : binding[r] \in 0..MaxPackage /\ active[r] \subseteq Package
  BY <1>1, Typed
<1>7. binding' \in [Revision -> 0..MaxPackage] /\ active' \in [Revision -> SUBSET Package]
  BY <1>2, <1>6, Zero
<1>8. Published' = Published /\ Draft' = Draft /\ Live' = Live /\ Present' = Present
      /\ Current' = Current
  BY <1>2 DEF Published, Draft, Live, Present, Current
<1>9. Numbered' /\ Single'
  BY <1>1, <1>2, <1>8 DEF Numbered, Single
<1>10. UsedThere'
  <2>1. \A r \in Live' : binding'[r] \in Present' \cup {0} /\ active'[r] \subseteq Present'
    BY <1>1, <1>2, <1>8 DEF UsedThere, Live
  <2>2. \A r \in Revision : revision'[r] = "none" => binding'[r] = 0 /\ active'[r] = {}
    BY <1>1, <1>2, <1>3 DEF UsedThere
  <2> QED BY <2>1, <2>2 DEF UsedThere
<1>11. TablesInv'
  BY <1>9, <1>10 DEF TablesInv
<1>12. ASSUME ~Referenced(p) PROVE Seen
  <2>1. \A r \in Published : binding[r] # p /\ p \notin active[r]
    BY <1>12 DEF Referenced, Uses
  <2>2. \A r \in Published : binding'[r] = binding[r] /\ active'[r] = active[r]
    BY <1>2, <2>1 DEF Published
  <2> QED BY <1>2, <1>8, <2>2 DEF Seen
<1>13. \A d \in Admin : call[d].pc \in Cleaning => call'[d].pc \in Cleaning
  BY <1>2, <1>5 DEF Cleaning
<1>14. CacheFresh' /\ cache' \in [group: -1..MaxGroup, excused: BOOLEAN]
  <2>1. CASE Referenced(p)
    BY <1>1, <1>2, <2>1, CacheExcused
  <2>2. CASE ~Referenced(p)
    BY <1>2, <1>9, <1>12, <1>13, <2>2, SeenFresh
  <2> QED BY <2>1, <2>2
<1>15. TypeOK'
  BY <1>1, <1>2, <1>5, <1>7, <1>14 DEF TypeOK, files, CallRow
<1>16. Stands
  <2>1. CASE Referenced(p)
    <3>1. Late(c)
      BY <1>2, <2>1 DEF Late, At, p
    <3>2. call'[c] # call[c]
      BY <1>2, <1>5
    <3> QED BY <3>1, <3>2 DEF Stands
  <2>2. CASE ~Referenced(p)
    BY <1>12, <2>2 DEF Stands
  <2> QED BY <2>1, <2>2
<1>17. Owns(c)'
  <2>1. /\ call[c].group <= groups
        /\ \A q \in Present : package[q].group = call[c].group => q = p
    BY <1>2, <1>3 DEF Owns, p
  <2>2. groups' = groups
    BY <1>2 DEF files
  <2> QED BY <1>2, <1>5, <1>8, <2>1, <2>2 DEF Owns
<1>18. Fit(c)'
  BY <1>3, <1>5 DEF Fit
<1> QED BY <1>2, <1>5, <1>11, <1>14, <1>15, <1>16, <1>17, <1>18, Rewritten

-----------------------------------------------------------------------------
(* Steps that change packages.                                             *)

(* Packages go or change their mark; the pages and the files stay.         *)
LEMMA Repackaged ==
  ASSUME IInv, UNCHANGED <<revision, binding, active, files>>, cache' = cache,
         package' \in [Package -> PackageRow],
         \A p \in Present' : p \in Present /\ package'[p].group = package[p].group,
         Single', UsedThere', Seen, call' \in [Admin \cup Reader -> CallRow],
         \A c \in Admin : call[c].pc \in Cleaning => call'[c].pc \in Cleaning,
         TypeOK' => CallsInv'
  PROVE  IInv' /\ Stands
<1>1. TypeOK /\ TablesInv /\ Numbered /\ FilesInv
  BY Whole DEF TablesInv
<1>2. /\ revision' = revision /\ binding' = binding /\ active' = active /\ cache' = cache
      /\ stored' = stored /\ groups' = groups /\ garbage' = garbage /\ journal' = journal
  BY DEF files
<1>3. TypeOK'
  BY <1>1, <1>2 DEF TypeOK, CallRow, PackageRow
<1>4. FilesInv'
  BY <1>1, <1>2, <1>3, FilesGo
<1>5. CacheFresh'
  BY SeenFresh
<1>6. Numbered'
  BY <1>1, <1>2 DEF Numbered
<1> QED BY <1>3, <1>4, <1>5, <1>6 DEF IInv, FilesInv, CallsInv, Stands

LEMMA StepMark ==
  ASSUME IInv, NEW c \in Admin, Mark(c)
  PROVE  IInv' /\ Stands
<1> DEFINE p == call[c].package
<1>1. TypeOK /\ TablesInv /\ Numbered /\ Single /\ UsedThere /\ FilesInv /\ CallsInv
  BY Whole DEF TablesInv
<1>2. /\ call[c].pc = "mark" /\ Done(c) /\ UNCHANGED <<revision, binding, active, files, cache>>
      /\ package' = IF p \in Present THEN [package EXCEPT ![p].pending = TRUE] ELSE package
      /\ call[c].pc \notin Cleaning
  BY DEF Mark, At, Cleaning
<1>3. /\ call' \in [Admin \cup Reader -> CallRow] /\ call'[c] = NoCall
      /\ \A d \in (Admin \cup Reader) \ {c} : call'[d] = call[d]
  BY <1>1, <1>2, Gone
<1>4. NoCall.pc = "idle" /\ NoCall.group = 0 /\ NoCall.pc \in Plain
  BY DEF NoCall, Plain, PC
<1> HIDE DEF p
<1>5. CASE p \in Present
  <2>1. /\ package' \in [Package -> PackageRow]
        /\ \A q \in Package : /\ package'[q].group = package[q].group
                              /\ package'[q].pending = (package[q].pending \/ q = p)
    <3>1. \A q \in Package : package[q] \in PackageRow
      BY <1>1, Typed
    <3>2. package' = [package EXCEPT ![p] = [package[p] EXCEPT !.pending = TRUE]]
      BY <1>1, <1>2, <1>5, Typed
    <3>3. [package[p] EXCEPT !.pending = TRUE] \in PackageRow
      BY <1>5, <3>1 DEF PackageRow, Present
    <3>4. /\ [package[p] EXCEPT !.pending = TRUE].group = package[p].group
          /\ [package[p] EXCEPT !.pending = TRUE].pending = TRUE
      BY <1>5, <3>1 DEF PackageRow, Present
    <3>5. \A q \in Package : package[q].pending \in BOOLEAN
      BY <3>1 DEF PackageRow
    <3>6. \A q \in Package :
            package'[q] = IF q = p THEN [package[p] EXCEPT !.pending = TRUE] ELSE package[q]
      BY <1>1, <3>2, Typed
    <3>7. package' \in [Package -> PackageRow]
      BY <1>1, <3>2, <3>3, Typed
    <3> QED BY <3>4, <3>5, <3>6, <3>7
  <2>2. Present' = Present /\ Current' \subseteq Current
    BY <2>1 DEF Present, Current
  <2>3. /\ Single' /\ UsedThere' /\ Seen
    <3>1. Published' = Published /\ Draft' = Draft /\ Live' = Live
      BY <1>2 DEF Published, Draft, Live
    <3> QED BY <1>1, <1>2, <2>1, <2>2, <3>1 DEF Single, UsedThere, Seen, Published
  <2>4. ASSUME TypeOK' PROVE CallsInv'
    <3>1. \A d \in Admin \ {c} : call[d].pc = "register" =>
            call[d].group \in stored' /\ call'[c].group # call[d].group
      BY <1>1, <1>2, <1>3, <1>4, Waiting DEF files
    <3>2. \A d \in (Admin \cup Reader) \ {c} : Owns(d)' /\ Fit(d)'
      BY <1>1, <1>2, <1>3, <2>1, <2>2, <2>4, <3>1, CallsKept DEF files, Present
    <3>3. Owns(c)' /\ Fit(c)'
      <4>1. 0 <= groups'
        BY <1>1, <1>2, Typed, Zero DEF files
      <4> QED BY <1>3, <1>4, <4>1, PlainOwns DEF Fit
    <3> QED BY <3>2, <3>3 DEF CallsInv
  <2>5. \A d \in Admin : call[d].pc \in Cleaning => call'[d].pc \in Cleaning
    BY <1>2, <1>3
  <2> QED BY <1>2, <1>3, <2>1, <2>2, <2>3, <2>4, <2>5, Repackaged DEF Present
<1>6. CASE p \notin Present
  BY <1>2, <1>6, NothingToRewrite
<1> QED BY <1>5, <1>6

LEMMA StepRestore ==
  ASSUME IInv, NEW p \in Package, Restore(p)
  PROVE  IInv' /\ Stands
<1>1. TypeOK /\ TablesInv /\ Numbered /\ Single /\ UsedThere /\ FilesInv /\ CallsInv
  BY Whole DEF TablesInv
<1>2. /\ p \in Present /\ Current = {} /\ UNCHANGED <<revision, binding, active, files, cache>>
      /\ package' = [package EXCEPT ![p].pending = FALSE] /\ call' = call
  BY DEF Restore
<1>3. /\ package' \in [Package -> PackageRow]
      /\ \A q \in Package : /\ package'[q].group = package[q].group
                            /\ q # p => package'[q].pending = package[q].pending
  <2>1. package[p] \in PackageRow
    BY <1>1, Typed
  <2>2. package' = [package EXCEPT ![p] = [package[p] EXCEPT !.pending = FALSE]]
    BY <1>1, <1>2, Typed
  <2>3. /\ [package[p] EXCEPT !.pending = FALSE] \in PackageRow
        /\ [package[p] EXCEPT !.pending = FALSE].group = package[p].group
    BY <2>1 DEF PackageRow
  <2>4. \A q \in Package :
          package'[q] = IF q = p THEN [package[p] EXCEPT !.pending = FALSE] ELSE package[q]
    BY <1>1, <2>2, Typed
  <2>5. package' \in [Package -> PackageRow]
    BY <1>1, <2>2, <2>3, Typed
  <2> QED BY <2>3, <2>4, <2>5
<1>4. Present' = Present
  BY <1>3 DEF Present
<1>5. Current' \subseteq {p}
  BY <1>2, <1>3, <1>4 DEF Current, Present
<1>6. /\ Single' /\ UsedThere' /\ Seen
  <2>1. Published' = Published /\ Draft' = Draft /\ Live' = Live
    BY <1>2 DEF Published, Draft, Live
  <2> QED BY <1>1, <1>2, <1>3, <1>4, <1>5, <2>1 DEF Single, UsedThere, Seen, Published
<1>7. ASSUME TypeOK' PROVE CallsInv'
  <2>1. \A q \in Present : package'[q].group = package[q].group
    BY <1>3 DEF Present
  <2>2. stored' = stored /\ groups' = groups /\ garbage' = garbage
    BY <1>2 DEF files
  <2>3. ASSUME NEW c \in Admin \cup Reader PROVE Owns(c)' /\ Fit(c)'
    <3>1. Owns(c) /\ Fit(c) /\ groups <= groups' /\ call'[c] = call[c]
      BY <1>1, <1>2, <2>2, Typed DEF CallsInv
    <3>2. call[c].pc = "register" =>
            /\ call[c].group \in stored' \ garbage'
            /\ \A q \in Present' : package'[q].group # call[c].group
            /\ \A d \in Admin \ {c} : call'[d].group # call[c].group
      BY <1>1, <1>2, <1>4, <2>1, <2>2, Waiting
    <3> QED BY <1>1, <1>4, <1>7, <2>1, <3>1, <3>2, OwnsKept
  <2> QED BY <2>3 DEF CallsInv
<1> QED BY <1>1, <1>2, <1>3, <1>4, <1>6, <1>7, Repackaged, Typed DEF Present

LEMMA StepPermanentlyDelete ==
  ASSUME IInv, NEW c \in Admin, PermanentlyDelete(c)
  PROVE  IInv' /\ Stands
<1> DEFINE p == call[c].package
           pc == IF At(c, "delete") THEN "delete files" ELSE "cleanup files"
<1>1. TypeOK /\ TablesInv /\ Numbered /\ Single /\ UsedThere /\ FilesInv /\ CallsInv
  BY Whole DEF TablesInv
<1>2. /\ call[c].pc \in {"delete", "cleanup delete"}
      /\ UNCHANGED <<revision, binding, active, files, cache>>
  BY DEF PermanentlyDelete
<1>3. Owns(c) /\ Fit(c) /\ p \in Package /\ p # 0
  BY <1>1, <1>2, Ranges DEF CallsInv, Fit
<1>4. CASE p \in Present /\ (\A r \in Live : ~Uses(r, p))
  <2>1. package' = [package EXCEPT ![p] = NoPackage] /\ Goto(c, pc)
    BY <1>4 DEF PermanentlyDelete
  <2>2. pc \in PC /\ pc \in {"delete files", "cleanup files"}
        /\ (call[c].pc \in Cleaning => pc \in Cleaning)
    BY <1>2 DEF PC, At, Cleaning
  <2> HIDE DEF pc
  <2>3. /\ call' \in [Admin \cup Reader -> CallRow]
        /\ call'[c].pc = pc /\ call'[c].group = call[c].group
        /\ \A d \in (Admin \cup Reader) \ {c} : call'[d] = call[d]
    BY <1>1, <2>1, <2>2, Moved
  <2>4. /\ package' \in [Package -> PackageRow] /\ package'[p] = NoPackage
        /\ \A q \in Package \ {p} : package'[q] = package[q]
    BY <1>1, <1>3, <2>1, Typed, Bounds
  <2>5. Present' = Present \ {p} /\ Current' \subseteq Current
    <3>1. NoPackage.group = 0
      BY DEF NoPackage
    <3> QED BY <2>4, <3>1 DEF Present, Current
  <2>6. \A q \in Present' : q \in Present /\ package'[q].group = package[q].group
    BY <2>4, <2>5 DEF Present
  <2>7. \A r \in Live : binding[r] # p /\ p \notin active[r]
    BY <1>4 DEF Uses
  <2>8. Published' = Published /\ Draft' = Draft /\ Live' = Live /\ Published \subseteq Live
    BY <1>2 DEF Published, Draft, Live
  <2>9. /\ Single' /\ UsedThere' /\ Seen
    <3>1. Single'
      BY <1>1, <2>5, <2>8 DEF Single
    <3>2. UsedThere'
      BY <1>1, <1>2, <2>5, <2>7, <2>8 DEF UsedThere
    <3>3. Seen
      BY <1>2, <2>4, <2>7, <2>8 DEF Seen, Uses
    <3> QED BY <3>1, <3>2, <3>3
  <2>10. ASSUME TypeOK' PROVE CallsInv'
    <3>1. groups' = groups /\ garbage' = garbage /\ stored' = stored
      BY <1>2 DEF files
    <3>2. \A d \in Admin \ {c} : call[d].pc = "register" =>
            call[d].group \in stored' /\ call'[c].group # call[d].group
      BY <1>1, <2>3, <3>1, Waiting
    <3>3. \A d \in (Admin \cup Reader) \ {c} : Owns(d)' /\ Fit(d)'
      BY <1>1, <2>3, <2>6, <2>10, <3>1, <3>2, CallsKept
    <3>4. Owns(c)'
      <4>1. /\ call[c].group <= groups
            /\ \A q \in Present : package[q].group = call[c].group => q = p
        BY <1>2, <1>3 DEF Owns
      <4>2. \A q \in Present' : package'[q].group # call[c].group
        BY <2>5, <2>6, <4>1
      <4> QED BY <2>2, <2>3, <3>1, <4>1, <4>2 DEF Owns
    <3>5. Fit(c)'
      BY <2>2, <2>3 DEF Fit
    <3> QED BY <3>3, <3>4, <3>5 DEF CallsInv
  <2>11. \A d \in Admin : call[d].pc \in Cleaning => call'[d].pc \in Cleaning
    BY <2>2, <2>3
  <2> QED BY <1>2, <2>3, <2>4, <2>6, <2>9, <2>10, <2>11, Repackaged
<1>5. CASE ~(p \in Present /\ (\A r \in Live : ~Uses(r, p)))
  <2>1. package' = package /\ IF At(c, "delete") THEN Done(c) ELSE Goto(c, "cleanup")
    BY <1>5 DEF PermanentlyDelete
  <2>2. CASE call[c].pc = "delete"
    <3>1. Done(c) /\ call[c].pc \notin Cleaning
      BY <2>1, <2>2 DEF At, Cleaning
    <3> QED BY <1>2, <2>1, <3>1, NothingToRewrite
  <2>3. CASE call[c].pc = "cleanup delete"
    <3>1. Goto(c, "cleanup") /\ "cleanup" \in PC /\ "cleanup" \in Plain
      BY <2>1, <2>3 DEF At, PC, Plain
    <3>2. /\ call' \in [Admin \cup Reader -> CallRow]
          /\ call'[c].pc = "cleanup" /\ call'[c].group = call[c].group
          /\ \A d \in (Admin \cup Reader) \ {c} : call'[d] = call[d]
      BY <1>1, <3>1, Moved
    <3>3. UNCHANGED <<tables, files>> /\ UNCHANGED tables /\ cache' = cache /\ groups' = groups
      BY <1>2, <2>1 DEF tables, files
    <3>4. Owns(c)' /\ Fit(c)'
      <4>1. call[c].group <= groups
        BY <1>3 DEF Owns
      <4> QED BY <3>1, <3>2, <3>3, <4>1, PlainOwns DEF Fit
    <3>5. \A d \in Admin : call[d].pc \in Cleaning => call'[d].pc \in Cleaning
      BY <3>2 DEF Cleaning
    <3>6. CacheFresh' /\ cache' \in [group: -1..MaxGroup, excused: BOOLEAN]
      BY <3>3, <3>5, CacheStays
    <3>7. \A d \in Admin \ {c} : call[d].pc = "register" => call'[c].group # call[d].group
      BY <1>1, <3>2, Waiting
    <3>8. IInv' /\ Seen
      BY <3>2, <3>3, <3>4, <3>6, <3>7, CallOnly
    <3> QED BY <3>8 DEF Stands
  <2> QED BY <1>2, <2>2, <2>3
<1> QED BY <1>4, <1>5

-----------------------------------------------------------------------------
(* An upload is registered.                                                *)

(* Of the packages that are not there one has the least id.                *)
LEMMA Free ==
  ASSUME Present # Package
  PROVE  (CHOOSE p \in Package : p \notin Present /\ \A q \in Package \ Present : p <= q)
         \in Package \ Present
<1>1. Package \ Present \subseteq Nat /\ Package \ Present # {}
  BY Bounds DEF Package, Present
<1>2. OpToRel(<, Nat) = {ss \in Nat \X Nat : ss[1] < ss[2]}
  BY Zenon DEF OpToRel
<1> DEFINE less == {ss \in Nat \X Nat : ss[1] < ss[2]}
<1>3. IsWellFoundedOn(less, Nat)
  BY <1>2, NatLessThanWellFounded, Zenon
<1> HIDE DEF less
<1>4. PICK p \in Package \ Present : \A q \in Package \ Present : ~ <<q, p>> \in less
  BY <1>1, <1>3, WFMin
<1>5. ASSUME NEW q \in Package \ Present PROVE p <= q
  <2>1. ~(q < p)
    <3> SUFFICES ASSUME q < p PROVE <<q, p>> \in less
      BY <1>4
    <3> QED BY <1>1 DEF less
  <2> QED BY <1>1, <2>1
<1>6. \E n \in Package : n \notin Present /\ \A q \in Package \ Present : n <= q
  BY <1>5
<1> QED BY <1>6

(* What a registration leaves in the package it writes, and in the others. *)
Registered(new, g, late) ==
  /\ package' \in [Package -> PackageRow]
  /\ Present' = Present \cup {new} /\ package'[new].group = g
  /\ \A p \in Package \ {new} : package'[p].group = package[p].group
  /\ late = IF new \in Present THEN {package[new].group} ELSE {}
  /\ binding' \in [Revision -> 0..MaxPackage] /\ active' \in [Revision -> SUBSET Package]
  /\ TablesInv' /\ Seen

LEMMA Registers ==
  ASSUME TypeOK, TablesInv, NEW g \in Group, NEW offer \in Offers, NEW late,
         Register(g, offer, late)
  PROVE  \E new \in Package : Registered(new, g, late)
<1> DEFINE stays == {p \in Current : Referenced(p)}
           new   == IF Current \ stays # {} THEN CHOOSE p \in Current \ stays : TRUE
                    ELSE CHOOSE p \in Package : p \notin Present /\ \A q \in Package \ Present : p <= q
           row   == [group |-> g, page |-> offer.page, feature |-> offer.feature, pending |-> FALSE]
<1>1. Numbered /\ Single /\ UsedThere
  BY DEF TablesInv
<1>2. /\ Current \ stays # {} \/ Present # Package
      /\ package' = [p \in Package |-> IF p = new THEN row
           ELSE IF p \in stays THEN [package[p] EXCEPT !.pending = TRUE] ELSE package[p]]
      /\ Rebind(new, offer)
      /\ late = {package[p].group : p \in Current \ stays}
      /\ revision' = revision
  BY DEF Register
<1>3. Current \subseteq Present /\ Present \subseteq Package
  BY DEF Current, Present
<1>4. \/ new \in Current /\ Current = {new} /\ stays = {} /\ Current \ stays = {new}
      \/ new \in Package \ Present /\ stays = Current /\ Current \ stays = {}
  <2>1. CASE Current \ stays # {}
    <3>1. new \in Current \ stays
      BY <2>1
    <3> HIDE DEF new
    <3> QED BY <1>1, <3>1 DEF Single
  <2>2. CASE Current \ stays = {}
    <3>1. new \in Package \ Present
      BY <1>2, <2>2, Free
    <3> HIDE DEF new
    <3> QED BY <2>2, <3>1
  <2> QED BY <2>1, <2>2
<1>5. new \in Package /\ ~Referenced(new)
  <2>1. CASE new \in Current /\ stays = {}
    BY <1>3, <2>1
  <2>2. CASE new \in Package \ Present
    <3>1. \A r \in Published : ~Uses(r, new)
      BY <1>1, <2>2, Ranges DEF UsedThere, Uses, Live, Published
    <3> QED BY <2>2, <3>1 DEF Referenced
  <2> QED BY <1>4, <2>1, <2>2
<1>6. late = IF new \in Present THEN {package[new].group} ELSE {}
  BY <1>2, <1>3, <1>4
<1>7. row \in PackageRow /\ row.group = g /\ row.pending = FALSE
  <2>1. offer.page \in BOOLEAN /\ offer.feature \in BOOLEAN
    BY ConstantAssumption
  <2> QED BY <2>1, Ranges DEF PackageRow
<1>8. \A p \in Package :
        /\ package[p] \in PackageRow /\ [package[p] EXCEPT !.pending = TRUE] \in PackageRow
        /\ [package[p] EXCEPT !.pending = TRUE].group = package[p].group
        /\ [package[p] EXCEPT !.pending = TRUE].pending = TRUE
  BY Typed DEF PackageRow
<1> HIDE DEF new, row
<1>9. package' \in [Package -> PackageRow]
  BY <1>2, <1>7, <1>8
<1>10. /\ package'[new] = row
       /\ \A p \in Package \ {new} : package'[p].group = package[p].group
  BY <1>2, <1>5, <1>8
<1>11. Present' = Present \cup {new}
  <2>1. g # 0
    BY Ranges
  <2> QED BY <1>5, <1>7, <1>10, <2>1 DEF Present
<1>12. Current' \subseteq {new}
  <2> SUFFICES ASSUME NEW p \in Package, p # new, p \in Current' PROVE FALSE
    BY DEF Current, Present
  <2>1. p \in Present /\ ~package'[p].pending
    BY <1>11 DEF Current
  <2>2. p \notin stays
    BY <1>2, <1>8, <2>1
  <2>3. package'[p] = package[p]
    BY <1>2, <2>2
  <2>4. p \in Current
    BY <2>1, <2>3 DEF Current
  <2> QED BY <1>4, <2>2, <2>4
<1>13. /\ Published' = Published /\ Draft' = Draft /\ Live' = Live
  BY <1>2 DEF Published, Draft, Live
<1>14. /\ binding' = [r \in Revision |-> IF revision[r] = "draft" /\ binding[r] # 0
                      THEN (IF offer.page THEN new ELSE 0) ELSE binding[r]]
       /\ active' = [r \in Revision |-> IF revision[r] = "draft" /\ active[r] # {}
                      THEN (IF offer.feature THEN {new} ELSE {}) ELSE active[r]]
  BY <1>2 DEF Rebind
<1>15. /\ binding' \in [Revision -> 0..MaxPackage] /\ active' \in [Revision -> SUBSET Package]
  <2>1. \A r \in Revision : binding[r] \in 0..MaxPackage /\ active[r] \subseteq Package
    BY Typed
  <2> QED BY <1>5, <1>14, <2>1, Ranges, Zero
<1>16. Single' /\ Numbered'
  <2>1. Single'
    BY <1>1, <1>12, <1>13 DEF Single
  <2>2. Numbered'
    BY <1>1, <1>2 DEF Numbered
  <2> QED BY <2>1, <2>2
<1>17. UsedThere'
  <2>1. \A r \in Live' : binding'[r] \in Present' \cup {0} /\ active'[r] \subseteq Present'
    BY <1>1, <1>11, <1>13, <1>14 DEF UsedThere, Live
  <2>2. \A r \in Revision : revision'[r] = "none" => binding'[r] = 0 /\ active'[r] = {}
    BY <1>1, <1>2, <1>14 DEF UsedThere
  <2> QED BY <2>1, <2>2 DEF UsedThere
<1>18. Seen
  <2>1. \A r \in Published : binding'[r] = binding[r] /\ active'[r] = active[r]
    BY <1>14 DEF Published
  <2>2. \A r \in Published, p \in Package : Uses(r, p) => p # new
    BY <1>5 DEF Referenced
  <2> QED BY <1>10, <1>13, <2>1, <2>2 DEF Seen
<1> QED BY <1>5, <1>6, <1>7, <1>9, <1>10, <1>11, <1>15, <1>16, <1>17, <1>18
        DEF Registered, TablesInv

(* Packages keep files of their own, when the new one has files that were  *)
(* nobody's.                                                               *)
LEMMA RegisteredFiles ==
  ASSUME TypeOK, FilesInv, NEW g \in Group, NEW late, NEW new \in Package,
         Registered(new, g, late),
         \A p \in Present : package[p].group # g,
         g \in stored', g \notin garbage', stored \subseteq stored',
         garbage' \subseteq garbage \cup late, \A f \in stored' \cup garbage' : f <= groups',
         \A p \in Present : package[p].group <= groups', g <= groups'
  PROVE  FilesInv' /\ \A p \in Present : package[p].group \in Group
<1>1. /\ Present' = Present \cup {new} /\ package'[new].group = g
      /\ \A p \in Package \ {new} : package'[p].group = package[p].group
      /\ late = IF new \in Present THEN {package[new].group} ELSE {}
  BY DEF Registered
<1>2. /\ \A p, q \in Present : package[p].group = package[q].group => p = q
      /\ \A p \in Present : package[p].group \notin garbage /\ package[p].group \in stored
  BY DEF FilesInv, Apart, FilesThere
<1>3. Present \subseteq Package /\ stored \subseteq Group
  BY Typed DEF Present
<1>4. \A p, q \in Present' : package'[p].group = package'[q].group => p = q
  BY <1>1, <1>2, <1>3
<1>5. \A p \in Present' : package'[p].group \notin garbage' /\ package'[p].group <= groups'
  <2> SUFFICES ASSUME NEW p \in Present', p # new
               PROVE  package'[p].group \notin garbage' /\ package'[p].group <= groups'
    BY <1>1
  <2>1. p \in Present /\ package'[p].group = package[p].group
    BY <1>1, <1>3
  <2>2. package[p].group \notin late
    BY <1>1, <1>2, <2>1
  <2> QED BY <1>2, <2>1, <2>2
<1>6. \A p \in Present' : package'[p].group \in stored'
  BY <1>1, <1>2, <1>3
<1> QED BY <1>2, <1>3, <1>4, <1>5, <1>6 DEF FilesInv, Apart, FilesThere

(* A call that does not move, whose files are not those registered.        *)
LEMMA Bystander ==
  ASSUME TypeOK, TypeOK', CallsInv, NEW g \in Group, NEW late, NEW new \in Package,
         Registered(new, g, late), NEW d \in Admin \cup Reader, call'[d] = call[d],
         groups <= groups', d \in Admin => call[d].group # g,
         stored \subseteq stored', garbage' \subseteq garbage \cup late,
         call[d].pc = "register" => \A e \in Admin \ {d} : call'[e].group # call[d].group
  PROVE  Owns(d)' /\ Fit(d)'
<1>1. /\ Present' = Present \cup {new} /\ package'[new].group = g
      /\ \A p \in Package \ {new} : package'[p].group = package[p].group
      /\ late = IF new \in Present THEN {package[new].group} ELSE {}
  BY DEF Registered
<1>2. Owns(d) /\ Fit(d) /\ Present \subseteq Package
  BY DEF CallsInv, Present
<1>3. \A p \in Present' : \/ p \in Present /\ package'[p].group = package[p].group
                          \/ package'[p].group # call[d].group
                          \/ d \notin Admin
  BY <1>1, <1>2
<1>4. ASSUME call[d].pc = "register"
      PROVE  /\ call[d].group \in stored' \ garbage'
             /\ \A p \in Present' : package'[p].group # call[d].group
             /\ \A e \in Admin \ {d} : call'[e].group # call[d].group
  <2>1. /\ d \in Admin /\ call[d].group \in stored \ garbage
        /\ \A p \in Present : package[p].group # call[d].group
    BY <1>4, Waiting
  <2>2. call[d].group \notin late
    BY <1>1, <2>1
  <2>3. \A p \in Present' : package'[p].group # call[d].group
    BY <1>1, <1>2, <2>1
  <2> QED BY <1>4, <2>1, <2>2, <2>3
<1> QED BY <1>2, <1>3, <1>4, OwnsKept

LEMMA StepRegisterUpload ==
  ASSUME IInv, NEW c \in Admin, RegisterUpload(c)
  PROVE  IInv' /\ Stands
<1> DEFINE g == call[c].group
<1>1. TypeOK /\ TablesInv /\ FilesInv /\ CallsInv /\ CacheFresh
  BY Whole
<1>2. call[c].pc = "register" /\ UNCHANGED files /\ cache' = cache
  BY DEF RegisterUpload, At
<1>3. PICK offer \in Offers, late \in SUBSET Group :
        /\ Register(g, offer, late)
        /\ IF late = {} THEN Done(c)
           ELSE call' = [call EXCEPT ![c].pc = "replaced", ![c].group = CHOOSE f \in late : TRUE]
  BY DEF RegisterUpload
<1>4. /\ g \in Group /\ g \in stored \ garbage /\ g # 0
      /\ \A p \in Present : package[p].group # g
      /\ \A d \in Admin \ {c} : call[d].group # g
  BY <1>1, <1>2, Waiting
<1> HIDE DEF g
<1>5. PICK new \in Package : Registered(new, g, late)
  BY <1>1, <1>3, <1>4, Registers
<1>6. /\ package' \in [Package -> PackageRow]
      /\ Present' = Present \cup {new} /\ package'[new].group = g
      /\ \A p \in Package \ {new} : package'[p].group = package[p].group
      /\ late = IF new \in Present THEN {package[new].group} ELSE {}
      /\ binding' \in [Revision -> 0..MaxPackage] /\ active' \in [Revision -> SUBSET Package]
      /\ TablesInv' /\ Seen
  BY <1>5 DEF Registered
<1>7. stored' = stored /\ groups' = groups /\ garbage' = garbage /\ journal' = journal
      /\ groups <= groups' /\ revision' = revision
  <2>1. groups <= groups
    BY <1>1, Typed
  <2>2. revision' = revision
    BY <1>3 DEF Register
  <2> QED BY <1>2, <2>1, <2>2 DEF files
<1>8. /\ \A f \in stored \cup garbage : f <= groups
      /\ \A p \in Present : package[p].group <= groups
  BY <1>1 DEF FilesInv, Apart
<1>9. FilesInv' /\ \A p \in Present : package[p].group \in Group
  BY <1>1, <1>4, <1>5, <1>7, <1>8, RegisteredFiles
<1>10. /\ call' \in [Admin \cup Reader -> CallRow]
       /\ \A d \in (Admin \cup Reader) \ {c} : call'[d] = call[d]
       /\ \/ call'[c].pc = "idle" /\ call'[c].group = 0
          \/ /\ call'[c].pc = "replaced" /\ new \in Present
             /\ call'[c].group = package[new].group
  <2>1. CASE late = {}
    <3>1. Done(c)
      BY <1>3, <2>1
    <3>2. NoCall.pc = "idle" /\ NoCall.group = 0
      BY DEF NoCall
    <3> QED BY <1>1, <3>1, <3>2, Gone
  <2>2. CASE late # {}
    <3> DEFINE row == [call[c] EXCEPT !.pc = "replaced", !.group = package[new].group]
    <3>1. new \in Present /\ (CHOOSE f \in late : TRUE) = package[new].group
      BY <1>6, <2>2
    <3>2. call[c] \in CallRow /\ call \in [Admin \cup Reader -> CallRow]
      BY <1>1, Typed
    <3>3. call' = [call EXCEPT ![c] = row]
      BY <1>3, <2>2, <3>1, <3>2
    <3>4. package[new].group \in 0..MaxGroup /\ "replaced" \in PC
      BY <1>9, <3>1, Ranges DEF PC
    <3>5. row \in CallRow /\ row.pc = "replaced" /\ row.group = package[new].group
      BY <3>2, <3>4 DEF CallRow
    <3> HIDE DEF row
    <3> QED BY <1>1, <3>1, <3>3, <3>5, Updated
  <2> QED BY <2>1, <2>2
<1>11. TypeOK'
  BY <1>1, <1>2, <1>6, <1>7, <1>10 DEF TypeOK, PackageRow, CallRow
<1>12. ASSUME NEW d \in (Admin \cup Reader) \ {c} PROVE Owns(d)' /\ Fit(d)'
  <2>1. call'[d] = call[d] /\ (d \in Admin => call[d].group # g)
    BY <1>4, <1>10, <1>12
  <2>2. ASSUME call[d].pc = "register", NEW e \in Admin \ {d}
        PROVE  call'[e].group # call[d].group
    <3>1. /\ call[d].group # 0 /\ \A p \in Present : package[p].group # call[d].group
          /\ \A f \in Admin \ {d} : call[f].group # call[d].group
      BY <1>1, <2>2, Waiting
    <3>2. CASE e = c
      BY <1>10, <3>1, <3>2
    <3>3. CASE e # c
      BY <1>10, <3>1, <3>3
    <3> QED BY <3>2, <3>3
  <2> QED BY <1>1, <1>4, <1>5, <1>7, <1>11, <2>1, <2>2, Bystander
<1>13. Owns(c)'
  <2>1. CASE call'[c].pc = "idle" /\ call'[c].group = 0
    <3>1. 0 <= groups'
      BY <1>1, <1>7, Typed, Zero
    <3>2. "idle" \in Plain
      BY DEF Plain, PC
    <3> QED BY <2>1, <3>1, <3>2, PlainOwns
  <2>2. CASE call'[c].pc = "replaced" /\ new \in Present /\ call'[c].group = package[new].group
    <3>1. \A p \in Present : package[p].group = package[new].group => p = new
      BY <1>1, <2>2 DEF FilesInv, Apart
    <3>2. \A p \in Present' : package'[p].group # package[new].group
      BY <1>4, <1>6, <2>2, <3>1 DEF Present
    <3> QED BY <1>7, <1>8, <2>2, <3>2 DEF Owns
  <2> QED BY <1>10, <2>1, <2>2
<1>14. Fit(c)'
  BY <1>10 DEF Fit
<1>15. CallsInv'
  BY <1>12, <1>13, <1>14 DEF CallsInv
<1>16. CacheFresh'
  <2>1. \A d \in Admin : call[d].pc \in Cleaning => call'[d].pc \in Cleaning
    BY <1>2, <1>10 DEF Cleaning
  <2> QED BY <1>2, <1>6, <2>1, SeenFresh DEF TablesInv
<1> QED BY <1>6, <1>9, <1>11, <1>15, <1>16
        DEF IInv, TablesInv, FilesInv, CallsInv, Stands

LEMMA StepRegisterDirect ==
  ASSUME IInv, RegisterDirect
  PROVE  IInv' /\ Stands
<1> DEFINE g == groups + 1
<1>1. TypeOK /\ TablesInv /\ FilesInv /\ CallsInv /\ CacheFresh
  BY Whole
<1>2. /\ groups < MaxGroup /\ groups' = g /\ stored' = stored \cup {g} /\ journal' = TRUE
      /\ cache' = cache /\ call' = call
  BY DEF RegisterDirect
<1>3. PICK offer \in Offers, late \in SUBSET Group :
        Register(g, offer, late) /\ garbage' = garbage \cup late
  BY DEF RegisterDirect
<1>4. groups \in Nat /\ g \in Group /\ groups' \in 0..MaxGroup /\ groups <= groups' /\ g <= groups'
  <2>1. groups \in 0..MaxGroup /\ MaxGroup \in Nat
    BY <1>1, Typed, Bounds
  <2> QED BY <1>2, <2>1 DEF Group
<1>5. /\ \A p \in Present : package[p].group \in Nat /\ package[p].group <= groups
      /\ \A f \in stored \cup garbage : f \in Nat /\ f <= groups
      /\ \A d \in Admin \cup Reader : call[d].group \in Nat /\ call[d].group <= groups
  <2>1. \A p \in Present : package[p].group \in Nat /\ package[p].group <= groups
    BY <1>1, Typed, Bounds DEF FilesInv, Apart, Present, PackageRow
  <2>2. \A f \in stored \cup garbage : f \in Nat /\ f <= groups
    BY <1>1, Typed, Bounds DEF FilesInv, Apart, Group
  <2>3. ASSUME NEW d \in Admin \cup Reader
        PROVE  call[d].group \in Nat /\ call[d].group <= groups
    <3>1. call[d].group \in 0..MaxGroup /\ Owns(d)
      BY <1>1, Calls DEF CallsInv
    <3>2. call[d].group \in Nat
      BY <3>1, Bounds
    <3>3. call[d].group <= groups
      BY <3>1 DEF Owns
    <3> QED BY <3>2, <3>3
  <2> QED BY <2>1, <2>2, <2>3
<1>6. \A n \in Nat : n <= groups => n <= groups' /\ n # g
  BY <1>2, <1>4
<1>7. PICK new \in Package : Registered(new, g, late)
  BY <1>1, <1>3, <1>4, Registers
<1> HIDE DEF g
<1>8. /\ package' \in [Package -> PackageRow]
      /\ late = IF new \in Present THEN {package[new].group} ELSE {}
      /\ binding' \in [Revision -> 0..MaxPackage] /\ active' \in [Revision -> SUBSET Package]
      /\ TablesInv' /\ Seen
  BY <1>7 DEF Registered
<1>9. \A f \in late : f \in Nat /\ f <= groups
  BY <1>5, <1>8
<1>10. /\ g \in stored' /\ g \notin garbage' /\ stored \subseteq stored'
       /\ garbage' \subseteq garbage \cup late
       /\ \A p \in Present : package[p].group # g /\ package[p].group <= groups'
  BY <1>2, <1>3, <1>5, <1>6, <1>9
<1>11. \A f \in stored' \cup garbage' : f <= groups'
  BY <1>2, <1>3, <1>4, <1>5, <1>6, <1>9
<1>12. FilesInv'
  BY <1>1, <1>4, <1>7, <1>10, <1>11, RegisteredFiles
<1>13. TypeOK'
  <2>1. revision' = revision /\ stored' \subseteq Group /\ garbage' \subseteq Group
    BY <1>1, <1>2, <1>3, <1>4, Typed DEF Register
  <2> QED BY <1>1, <1>2, <1>4, <1>8, <2>1 DEF TypeOK, PackageRow
<1>14. ASSUME NEW d \in Admin \cup Reader PROVE Owns(d)' /\ Fit(d)'
  <2>1. call'[d] = call[d] /\ call[d].group # g
    BY <1>2, <1>5, <1>6
  <2>2. call[d].pc = "register" => \A e \in Admin \ {d} : call'[e].group # call[d].group
    BY <1>1, <1>2, Waiting
  <2> QED BY <1>1, <1>4, <1>7, <1>10, <1>13, <2>1, <2>2, Bystander
<1>15. CallsInv'
  BY <1>14 DEF CallsInv
<1>16. CacheFresh'
  BY <1>2, <1>8, SeenFresh DEF TablesInv
<1> QED BY <1>8, <1>12, <1>13, <1>15, <1>16
        DEF IInv, TablesInv, FilesInv, CallsInv, Stands

-----------------------------------------------------------------------------
(* The specification.                                                      *)

LEMMA Initially ==
  ASSUME Init
  PROVE  IInv
<1>1. TypeOK
  <2>1. package \in [Package -> PackageRow] /\ call \in [Admin \cup Reader -> CallRow]
    BY Bounds DEF Init
  <2>2. /\ binding \in [Revision -> 0..MaxPackage] /\ active \in [Revision -> SUBSET Package]
        /\ revision \in [Revision -> {"none", "draft", "published", "deleted"}]
    BY Zero DEF Init
  <2>3. cache \in [group: -1..MaxGroup, excused: BOOLEAN] /\ groups \in 0..MaxGroup
    BY Bounds DEF Init, NoEntry
  <2>4. stored \subseteq Group /\ garbage \subseteq Group /\ journal \in BOOLEAN
    BY DEF Init
  <2> QED BY <2>1, <2>2, <2>3, <2>4 DEF TypeOK, PackageRow, CallRow
<1>2. Present = {} /\ Current = {}
  <2>1. NoPackage.group = 0
    BY DEF NoPackage
  <2>2. Present = {}
    BY <2>1 DEF Init, Present
  <2> QED BY <2>2 DEF Current
<1>3. Published = {} /\ Draft = {} /\ Live = {}
  BY DEF Init, Published, Draft, Live
<1>4. Numbered
  <2>1. \A r \in Revision : ~(r <= 0)
    BY Bounds DEF Revision
  <2>2. \A r \in Revision : revision[r] = "none"
    BY DEF Init
  <2> QED BY <2>1, <2>2, Zero DEF Numbered
<1>5. Single /\ UsedThere
  BY <1>2, <1>3 DEF Single, UsedThere, Init
<1>6. Apart /\ FilesThere
  BY <1>2 DEF Apart, FilesThere, Init
<1>7. CacheFresh
  BY DEF CacheFresh, Init, NoEntry
<1>8. ASSUME NEW c \in Admin \cup Reader PROVE Owns(c) /\ Fit(c)
  <2>1. call[c] = NoCall /\ groups = 0
    BY DEF Init
  <2>2. NoCall.pc = "idle" /\ NoCall.group = 0
    BY DEF NoCall
  <2>3. Owns(c)
    BY <2>1, <2>2 DEF Owns
  <2>4. Fit(c)
    BY <2>1, <2>2 DEF Fit
  <2> QED BY <2>3, <2>4
<1> QED BY <1>1, <1>4, <1>5, <1>6, <1>7, <1>8 DEF IInv

LEMMA Stutter ==
  ASSUME IInv, UNCHANGED vars
  PROVE  IInv' /\ Stands
<1>1. /\ package' = package /\ revision' = revision /\ binding' = binding /\ active' = active
      /\ stored' = stored /\ groups' = groups /\ garbage' = garbage /\ journal' = journal
      /\ cache' = cache /\ call' = call /\ UNCHANGED tables
  BY DEF vars, tables, files
<1>2. TypeOK'
  BY <1>1 DEF IInv, TypeOK
<1>3. CacheFresh'
  BY <1>1, CacheStays
<1>4. IInv' /\ Seen
  BY <1>1, <1>2, <1>3, Standing
<1> QED BY <1>4 DEF Stands

LEMMA Steps ==
  ASSUME IInv, [Next]_vars
  PROVE  IInv' /\ Stands
<1>1. ASSUME NEW c \in Admin, Step(c) PROVE IInv' /\ Stands
  <2>1. CASE Bind(c)
    BY <2>1, StepBind
  <2>2. CASE Feature(c)
    BY <2>2, StepFeature
  <2>3. CASE Config(c)
    BY <2>3, StepConfig
  <2>4. CASE CleanNext(c)
    BY <2>4, StepCleanNext DEF Stands
  <2>5. CASE RegisterUpload(c)
    BY <2>5, StepRegisterUpload
  <2>6. CASE DropReplaced(c)
    BY <2>6, StepDropReplaced DEF Stands
  <2>7. CASE Mark(c)
    BY <2>7, StepMark
  <2>8. CASE Unuse(c)
    BY <2>8, StepUnuse
  <2>9. CASE PermanentlyDelete(c)
    BY <2>9, StepPermanentlyDelete
  <2>10. CASE DeleteFiles(c)
    BY <2>10, StepDeleteFiles DEF Stands
  <2>11. CASE Invalidate(c)
    BY <2>11, StepInvalidate DEF Stands
  <2> QED BY <1>1, <2>1, <2>2, <2>3, <2>4, <2>5, <2>6, <2>7, <2>8, <2>9, <2>10, <2>11 DEF Step
<1>2. ASSUME NEW c \in Admin,
             \/ Stop(c) \/ Upload(c)
             \/ \E r \in Revision : \/ Publish(c, r)
                                    \/ \E p \in 0..MaxPackage : AskBind(c, r, p)
                                    \/ \E p \in Package : AskFeature(c, r, p) \/ AskConfig(c, r, p)
             \/ \E p \in Package : AskDelete(c, p)
      PROVE  IInv' /\ Stands
  <2>1. CASE Stop(c)
    BY <2>1, StepStop DEF Stands
  <2>2. CASE Upload(c)
    BY <2>2, StepUpload DEF Stands
  <2>3. ASSUME NEW r \in Revision, Publish(c, r) PROVE IInv' /\ Stands
    BY <2>3, StepPublish
  <2>4. ASSUME NEW r \in Revision, NEW p \in 0..MaxPackage, AskBind(c, r, p)
        PROVE  IInv' /\ Stands
    BY <2>4, StepAskBind DEF Stands
  <2>5. ASSUME NEW r \in Revision, NEW p \in Package, AskFeature(c, r, p)
        PROVE  IInv' /\ Stands
    BY <2>5, StepAskFeature DEF Stands
  <2>6. ASSUME NEW r \in Revision, NEW p \in Package, AskConfig(c, r, p)
        PROVE  IInv' /\ Stands
    BY <2>6, StepAskConfig DEF Stands
  <2>7. ASSUME NEW p \in Package, AskDelete(c, p) PROVE IInv' /\ Stands
    BY <2>7, StepAskDelete DEF Stands
  <2> QED BY <1>2, <2>1, <2>2, <2>3, <2>4, <2>5, <2>6, <2>7
<1>3. ASSUME NEW c \in Reader, Miss(c) \/ StoreAnswer(c) PROVE IInv' /\ Stands
  BY <1>3, StepMiss, StepStoreAnswer DEF Stands
<1>4. CASE EnsureDraft
  BY <1>4, StepEnsureDraft
<1>5. CASE RegisterDirect
  BY <1>5, StepRegisterDirect
<1>6. CASE Journaled
  BY <1>6, StepJournaled DEF Stands
<1>7. CASE Expire
  BY <1>7, StepExpire DEF Stands
<1>8. ASSUME NEW g \in Group, DropGarbage(g) PROVE IInv' /\ Stands
  BY <1>8, StepDropGarbage DEF Stands
<1>9. ASSUME NEW p \in Package, Restore(p) PROVE IInv' /\ Stands
  BY <1>9, StepRestore
<1>10. CASE UNCHANGED vars
  BY <1>10, Stutter
<1> QED BY <1>1, <1>2, <1>3, <1>4, <1>5, <1>6, <1>7, <1>8, <1>9, <1>10 DEF Next

(* The inductive invariant holds of every reachable state.                 *)
THEOREM Invariance == Spec => []IInv
<1>1. Init => IInv
  BY Initially
<1>2. IInv /\ [Next]_vars => IInv'
  BY Steps
<1> QED BY <1>1, <1>2, PTL DEF Spec

(* A package that is there has its files, whether it is replaced, deleted, *)
(* marked or restored, by a handler or by the worker, and whoever stops    *)
(* between two steps (register_uploaded_theme, delete_package,             *)
(* cleanup_pending_packages, restore_package).                             *)
THEOREM PackagesAlwaysSound == Spec => []PackagesSound
<1>1. IInv => PackagesSound
  BY DEF IInv, PackagesSound
<1> QED BY <1>1, Invariance, PTL

(* What resolve_cached finds is what is published, but between a           *)
(* publication and the invalidation that ends it, and after the excused    *)
(* races.                                                                  *)
THEOREM CacheAlwaysFresh == Spec => []CacheFresh
<1>1. IInv => CacheFresh
  BY DEF IInv
<1> QED BY <1>1, Invariance, PTL

(* The published pages change by a publication, or by a request that comes *)
(* late, and by nothing else done to packages and drafts.                  *)
THEOREM PublishedAlwaysStands == Spec => PublishedStands
<1>1. ASSUME IInv, [Next]_vars
      PROVE  [Shown' # Shown => Published' # Published \/ \E c \in Admin : Late(c) /\ call'[c] # call[c]]_vars
  <2>1. TypeOK /\ Stands
    BY <1>1, Steps DEF IInv
  <2>2. CASE Seen
    <3>1. Shown' = Shown
      BY <2>1, <2>2, SeenShown
    <3> QED BY <3>1
  <2> QED BY <2>1, <2>2 DEF Stands
<1> QED BY <1>1, Invariance, PTL DEF Spec, PublishedStands

-----------------------------------------------------------------------------
(* The files of an asset group: AssetGroup, for any files, folders, names  *)
(* and requests.                                                           *)

FgPath  == Folder \X Name
FgPaths == FgPath \cup {Nothing}
FgRows  == [Item -> FgPaths]

FgRenaming == {"rename", "drop_old", "drop_copy", "undo"}
FgRemoving == {"remove", "remove_objects"}
FgDropping == {"remove_file", "delete_row"}
FgStoring  == {"store", "unstore"}
FgWorking  == FgRenaming \cup FgRemoving \cup FgDropping \cup FgStoring
FgPhase    == FgWorking \cup {"idle", "list", "sum_up"}

FgCall == [pc: FgPhase, was: FgRows, to: FgRows, left: SUBSET Item, done: SUBSET Item,
           at: Item \cup {Nothing}]

FgTypes ==
  /\ state \in {"none", "there", "gone"} /\ met \in 0..2
  /\ path \in FgRows /\ summary \in FgRows
  /\ bucket \in [FgPath -> Item \cup {Nothing}]
  /\ failed \in [{"store", "database", "answer"} -> 0..1]
  /\ job \in [Editor -> FgCall]

\* The failures and meetings of which the properties speak, and none at all.
FgSane  == met < 2 /\ failed["store"] <= 1 /\ failed["database"] = 0 /\ failed["answer"] = 0
FgClean == failed["store"] = 0 /\ failed["database"] = 0 /\ failed["answer"] = 0

FgHas(l) == {f \in Item : l[f] # Nothing}

\* The paths whose objects a call may change.
FgOwns(k, p) ==
  \/ k.pc \in FgRemoving
  \/ k.pc \in FgWorking /\ \E f \in Item : p = k.was[f] \/ p = k.to[f]

FgOneToOne(l) == \A f, g \in FgHas(l) : f # g => l[f] # l[g]

\* What a call is about.
FgShape(k) ==
  /\ k.pc \in FgRenaming =>
       /\ FgHas(k.was) = FgHas(k.to) /\ FgHas(k.was) # {} /\ FgOneToOne(k.to)
       /\ k.left \cup k.done \subseteq FgHas(k.was) /\ k.left \cap k.done = {}
       /\ k.pc # "undo" => k.left \cup k.done = FgHas(k.was)
  /\ k.pc \in FgDropping =>
       FgHas(k.to) = {} /\ FgHas(k.was) # {} /\ FgHas(k.was) = k.left
       /\ \A f, g \in k.left : f = g
  /\ k.pc \in FgStoring =>
       /\ FgHas(k.was) = {} /\ FgHas(k.to) # {} /\ FgOneToOne(k.to)
       /\ k.left \cup k.done = FgHas(k.to) /\ k.left \cap k.done = {}

\* Its files are where it found them, and nothing is where it wants them.
FgFound(k) ==
  /\ k.pc \in FgRenaming \cup FgDropping => \A f \in FgHas(k.was) : path[f] = k.was[f]
  /\ k.pc \in FgRenaming => \A f \in FgHas(k.to), g \in Item : path[g] # k.to[f]
  /\ k.pc \in FgStoring => state = "none"
  /\ k.pc = "remove" => k.was = path /\ k.left = FgHas(path)
  /\ k.pc = "remove_objects" => state = "gone"

\* The bytes of each of them are at its old path, or when it is done at the new one.
FgBytes(k) ==
  /\ k.pc \in FgRenaming =>
       \A f \in FgHas(k.was) : IF f \in k.done THEN bucket[k.to[f]] = f ELSE bucket[k.was[f]] = f
  /\ k.pc = "drop_old" => bucket[k.to[k.at]] = k.at
  /\ k.pc = "remove_file" => \A f \in k.left : bucket[k.was[f]] = f
  /\ k.pc \in FgStoring => \A f \in k.done : bucket[k.to[f]] = f
  /\ k.pc \in {"undo", "drop_copy", "unstore"} => failed["store"] = 1
  /\ k.pc = "unstore" => \A p \in FgPath : bucket[p] \in k.done => k.to[bucket[p]] = p

\* When nothing has failed they are nowhere else.
FgNeat(k) ==
  /\ k.pc \in {"rename", "drop_old"} =>
       /\ \A f \in k.done : bucket[k.was[f]] = Nothing
       /\ \A f \in k.left : (k.pc = "drop_old" /\ f = k.at) \/ bucket[k.to[f]] = Nothing
  /\ k.pc = "delete_row" => \A f \in k.left : bucket[k.was[f]] = Nothing
  /\ k.pc = "store" => \A p \in FgPath :
       bucket[p] # Nothing => bucket[p] \in k.done /\ k.to[bucket[p]] = p
  /\ k.pc = "remove" => \A p \in FgPath : bucket[p] # Nothing => path[bucket[p]] = p
  /\ k.pc = "remove_objects" => \A p \in FgPath :
       bucket[p] # Nothing => bucket[p] \in k.left /\ k.was[bucket[p]] = p

\* A call that has a file in hand.
FgHands(k, f) == k.pc \in FgRenaming \cup FgDropping /\ f \in FgHas(k.was)

FgApart ==
  \A c, d \in Editor : c # d /\ job[c].pc \in FgWorking /\ job[d].pc \in FgWorking
    => \A p \in FgPath : ~(FgOwns(job[c], p) /\ FgOwns(job[d], p))

FgAlone ==
  \A c, d \in Editor : c # d /\ job[c].pc \in FgStoring => job[d].pc = "idle"

FgRowed ==
  /\ state # "there" => FgHas(path) = {}
  /\ FgOneToOne(path)

FgWhole == \A f \in FgHas(path) : bucket[path[f]] = f \/ \E c \in Editor : FgHands(job[c], f)

FgTidy == \A p \in FgPath :
  bucket[p] # Nothing => path[bucket[p]] = p \/ \E c \in Editor : FgOwns(job[c], p)

\* One request after the other.
FgSummed ==
  /\ \A c, d \in Editor : c # d => job[c].pc = "idle" \/ job[d].pc = "idle"
  /\ \A c \in Editor : job[c].pc = "sum_up" => job[c].was = path
  /\ FgClean /\ state = "there"
       => summary = path \/ \E c \in Editor : job[c].pc \in {"list", "sum_up"}

FgCore ==
  /\ \A c \in Editor : FgShape(job[c]) /\ FgFound(job[c]) /\ FgBytes(job[c])
  /\ FgApart /\ FgAlone /\ FgRowed /\ FgWhole
  /\ FgClean => FgTidy /\ \A c \in Editor : FgNeat(job[c])

\* The files in hand are those that are moved.
FgBounds(k) ==
  /\ k.pc \in FgRenaming => k.left \cup k.done \subseteq FgHas(k.was) \cap FgHas(k.to)
  /\ k.pc \in {"drop_old", "drop_copy"} => k.at \in k.left

FgInv ==
  /\ FgTypes /\ \A c \in Editor : FgBounds(job[c])
  /\ (FgSane => FgCore) /\ (met = 0 => FgSummed)

-----------------------------------------------------------------------------
LEMMA FgConstants == Nothing \notin Item /\ Nothing \notin FgPath /\ FgPath # {}
<1>1. Files!ConstantAssumption
  BY PartsAssumption
<1>2. Files!Path = FgPath
  BY DEF Files!Path, FgPath
<1> QED BY <1>1, <1>2, Zenon DEF Files!ConstantAssumption

LEMMA FgOwnsPaths ==
  ASSUME NEW k \in FgCall, NEW f \in Item, k.pc \in FgWorking
  PROVE  /\ k.was[f] \in FgPaths /\ k.to[f] \in FgPaths
         /\ FgOwns(k, k.was[f]) /\ FgOwns(k, k.to[f])
<1>1. k.was \in FgRows /\ k.to \in FgRows
  BY DEF FgCall
<1>2. k.was[f] \in FgPaths /\ k.to[f] \in FgPaths
  BY <1>1 DEF FgRows
<1> QED BY <1>2 DEF FgOwns

\* Who works has a path.
LEMMA FgOwnsSome ==
  ASSUME NEW k \in FgCall, FgShape(k), k.pc \in FgWorking
  PROVE  \E p \in FgPath : FgOwns(k, p)
<1>1. CASE k.pc \in FgRemoving
  BY <1>1, FgConstants DEF FgOwns
<1>2. CASE k.pc \notin FgRemoving
  <2>1. FgHas(k.was) # {} \/ FgHas(k.to) # {}
    BY <1>2 DEF FgShape, FgWorking
  <2>2. PICK f \in Item : k.was[f] # Nothing \/ k.to[f] # Nothing
    BY <2>1 DEF FgHas
  <2>3. /\ k.was[f] \in FgPaths /\ k.to[f] \in FgPaths
        /\ FgOwns(k, k.was[f]) /\ FgOwns(k, k.to[f])
    BY FgOwnsPaths
  <2> QED BY <2>2, <2>3 DEF FgPaths
<1> QED BY <1>1, <1>2

-----------------------------------------------------------------------------
(* What a step of a call must show. *)

\* It answers or goes on to n, and counts its failures.
FgActs(c, n) ==
  /\ job[c].pc # "idle" /\ job' = [job EXCEPT ![c] = n] /\ met' = met
  /\ \A x \in {"store", "database", "answer"} : failed[x] <= failed'[x]

\* It changes what it owns only.
FgLocal(k, n) ==
  /\ \A p \in FgPath : ~FgOwns(k, p) => bucket'[p] = bucket[p]
  /\ \A f \in Item : path'[f] # path[f] =>
       /\ path[f] = Nothing \/ FgOwns(k, path[f])
       /\ path'[f] = Nothing \/ FgOwns(k, path'[f])
  /\ state' # state => k.pc \in FgStoring \cup FgRemoving
  /\ n.pc \in FgWorking =>
       k.pc \in FgWorking /\ \A p \in FgPath : FgOwns(n, p) => FgOwns(k, p)
  /\ n.pc \in FgStoring => k.pc \in FgStoring

\* It knows where its files are, and leaves those that it lets go at their place.
FgOwn(k, n) ==
  /\ FgShape(n) /\ FgFound(n)' /\ FgBytes(n)' /\ FgRowed'
  /\ \A f \in Item : path'[f] # Nothing /\ FgOwns(k, path'[f])
       => bucket'[path'[f]] = f \/ FgHands(n, f)
  /\ FgClean' =>
       /\ FgNeat(n)'
       /\ \A p \in FgPath : FgOwns(k, p) /\ bucket'[p] # Nothing
            => path'[bucket'[p]] = p \/ FgOwns(n, p)

\* What a call d knows is not affected by another that changes what it owns only.
LEMMA FgOthers ==
  ASSUME FgTypes, FgTypes', NEW k \in FgCall, NEW n, NEW m \in FgCall, FgLocal(k, n),
         FgShape(k), FgShape(m), FgBounds(m), FgFound(m), FgBytes(m), m.pc \notin FgStoring,
         failed["store"] <= failed'["store"],
         k.pc \in FgWorking /\ m.pc \in FgWorking
           => \A p \in FgPath : ~(FgOwns(k, p) /\ FgOwns(m, p))
  PROVE  /\ FgFound(m)' /\ FgBytes(m)'
         /\ FgNeat(m) => FgNeat(m)'
<1>1. /\ \A p \in FgPath : bucket[p] \in Item \cup {Nothing}
      /\ \A f \in Item : path[f] \in FgPaths /\ path'[f] \in FgPaths
      /\ failed["store"] \in 0..1 /\ failed'["store"] \in 0..1
  BY DEF FgTypes, FgRows
<1>2. Nothing \notin Item /\ Nothing \notin FgPath
  BY FgConstants
<1>3. CASE m.pc \notin FgWorking
  BY <1>3 DEF FgFound, FgBytes, FgNeat, FgWorking, FgRenaming, FgRemoving, FgDropping, FgStoring
<1>4. CASE m.pc \in FgWorking /\ k.pc \in FgWorking
  <2>1. m.pc \notin FgRemoving
    <3>1. \E p \in FgPath : FgOwns(k, p)
      BY <1>4, FgOwnsSome
    <3> QED BY <1>4, <3>1 DEF FgOwns
  <2>2. \A f \in Item : /\ m.was[f] \in FgPaths /\ m.to[f] \in FgPaths
                        /\ FgOwns(m, m.was[f]) /\ FgOwns(m, m.to[f])
    BY <1>4, FgOwnsPaths
  <2>3. \A p \in FgPath : FgOwns(m, p) => ~FgOwns(k, p) /\ bucket'[p] = bucket[p]
    BY <1>4 DEF FgLocal
  <2>4. \A f \in Item : /\ m.was[f] # Nothing => bucket'[m.was[f]] = bucket[m.was[f]]
                        /\ m.to[f] # Nothing => bucket'[m.to[f]] = bucket[m.to[f]]
    BY <2>2, <2>3 DEF FgPaths
  <2>5. m.pc \in FgRenaming \cup FgDropping
    BY <1>4, <2>1 DEF FgWorking
  <2>6. \A f \in FgHas(m.was) : path[f] = m.was[f] /\ path'[f] = m.was[f]
    <3> SUFFICES ASSUME NEW f \in FgHas(m.was)
                 PROVE  path[f] = m.was[f] /\ path'[f] = m.was[f]
      OBVIOUS
    <3>1. f \in Item /\ m.was[f] \in FgPath /\ FgOwns(m, m.was[f])
      BY <2>2 DEF FgHas, FgPaths
    <3>2. path[f] = m.was[f]
      BY <2>5 DEF FgFound
    <3> QED BY <1>2, <2>3, <3>1, <3>2 DEF FgLocal
  <2>7. m.pc \in FgRenaming => \A f \in FgHas(m.to), g \in Item : path'[g] # m.to[f]
    <3> SUFFICES ASSUME m.pc \in FgRenaming, NEW f \in FgHas(m.to), NEW g \in Item,
                        path'[g] = m.to[f]
                 PROVE  FALSE
      OBVIOUS
    <3>1. f \in Item /\ m.to[f] \in FgPath /\ FgOwns(m, m.to[f])
      BY <2>2 DEF FgHas, FgPaths
    <3>2. path[g] # m.to[f]
      BY DEF FgFound
    <3> QED BY <1>2, <2>3, <3>1, <3>2 DEF FgLocal
  <2>8. FgFound(m)'
    BY <2>1, <2>6, <2>7 DEF FgFound, FgRemoving
  <2>9. FgHas(m.was) \subseteq Item /\ FgHas(m.to) \subseteq Item
    BY DEF FgHas
  <2>10. m.pc \in FgRenaming => FgHas(m.was) = FgHas(m.to) /\ m.left \cup m.done \subseteq FgHas(m.was)
    BY DEF FgShape
  <2>11. m.pc \in {"drop_old", "drop_copy"} => m.at \in m.left
    BY DEF FgBounds
  <2>12. m.pc \in FgDropping => m.left = FgHas(m.was)
    BY DEF FgShape
  <2>13. \A f \in FgHas(m.was) : bucket'[m.was[f]] = bucket[m.was[f]]
    BY <2>4 DEF FgHas
  <2>14. \A f \in FgHas(m.to) : bucket'[m.to[f]] = bucket[m.to[f]]
    BY <2>4 DEF FgHas
  <2>15. FgBytes(m)'
    <3>1. m.pc \in FgRenaming =>
            \A f \in FgHas(m.was) : IF f \in m.done THEN bucket'[m.to[f]] = f ELSE bucket'[m.was[f]] = f
      BY <2>10, <2>13, <2>14 DEF FgBytes
    <3>2. m.pc = "drop_old" => bucket'[m.to[m.at]] = m.at
      BY <2>10, <2>11, <2>14 DEF FgBytes, FgRenaming
    <3>3. m.pc = "remove_file" => \A f \in m.left : bucket'[m.was[f]] = f
      BY <2>12, <2>13 DEF FgBytes, FgDropping
    <3>4. m.pc \in {"undo", "drop_copy", "unstore"} => failed'["store"] = 1
      BY <1>1 DEF FgBytes
    <3> QED BY <3>1, <3>2, <3>3, <3>4 DEF FgBytes, FgStoring
  <2>16. FgNeat(m) => FgNeat(m)'
    <3> SUFFICES ASSUME FgNeat(m) PROVE FgNeat(m)'
      OBVIOUS
    <3>1. m.pc \in {"rename", "drop_old"} =>
       /\ \A f \in m.done : bucket'[m.was[f]] = Nothing
       /\ \A f \in m.left : (m.pc = "drop_old" /\ f = m.at) \/ bucket'[m.to[f]] = Nothing
      BY <2>10, <2>13, <2>14 DEF FgNeat, FgRenaming
    <3>2. m.pc = "delete_row" => \A f \in m.left : bucket'[m.was[f]] = Nothing
      BY <2>12, <2>13 DEF FgNeat, FgDropping
    <3> QED BY <2>1, <3>1, <3>2 DEF FgNeat, FgRemoving, FgStoring
  <2> QED BY <2>8, <2>15, <2>16
<1>5. CASE m.pc \in FgWorking /\ k.pc \notin FgWorking
  <2>1. \A p : ~FgOwns(k, p)
    BY <1>5 DEF FgOwns, FgWorking
  <2>2. bucket' = bucket
    <3>1. \A p \in FgPath : bucket'[p] = bucket[p]
      BY <2>1 DEF FgLocal
    <3>2. bucket \in [FgPath -> Item \cup {Nothing}] /\ bucket' \in [FgPath -> Item \cup {Nothing}]
      BY DEF FgTypes
    <3> QED BY <3>1, <3>2
  <2>3. path' = path
    <3>1. \A f \in Item : path'[f] = path[f]
      BY <2>1 DEF FgLocal
    <3>2. path \in FgRows /\ path' \in FgRows
      BY DEF FgTypes
    <3> QED BY <3>1, <3>2 DEF FgRows
  <2>4. state' = state
    BY <1>5 DEF FgLocal, FgWorking
  <2>5. FgFound(m)'
    BY <2>3, <2>4, Zenon DEF FgFound, FgHas
  <2>6. failed["store"] = 1 => failed'["store"] = 1
    BY <1>1
  <2>7. FgBytes(m)'
    BY <2>2, <2>6, Zenon DEF FgBytes
  <2>8. FgNeat(m) => FgNeat(m)'
    BY <2>2, <2>3, Zenon DEF FgNeat
  <2> QED BY <2>5, <2>7, <2>8
<1> QED BY <1>3, <1>4, <1>5

-----------------------------------------------------------------------------
(* A step of a call keeps the invariant. *)

LEMMA FgMonotone ==
  ASSUME FgTypes, FgTypes',
         \A x \in {"store", "database", "answer"} : failed[x] <= failed'[x], met <= met'
  PROVE  (FgSane' => FgSane) /\ (FgClean' => FgClean /\ failed' = failed)
<1>1. \A x \in {"store", "database", "answer"} : failed[x] \in 0..1 /\ failed'[x] \in 0..1
  BY DEF FgTypes
<1>2. met \in 0..2 /\ met' \in 0..2
  BY DEF FgTypes
<1>3. FgSane' => FgSane
  BY <1>1, <1>2 DEF FgSane
<1>4. FgClean' => FgClean
  BY <1>1 DEF FgClean
<1>5. FgClean' => failed' = failed
  <2>1. FgClean' => \A x \in {"store", "database", "answer"} : failed[x] = 0 /\ failed'[x] = 0
    BY <1>1 DEF FgClean
  <2> QED BY <2>1 DEF FgTypes
<1> QED BY <1>3, <1>4, <1>5

LEMMA FgKeeps ==
  ASSUME FgTypes, FgTypes', FgCore, \A d \in Editor : FgBounds(job[d]), NEW c \in Editor, NEW n \in FgCall,
         FgActs(c, n), FgLocal(job[c], n), FgOwn(job[c], n)
  PROVE  FgCore'
<1> DEFINE k == job[c]
<1>1. /\ k \in FgCall /\ k.pc # "idle" /\ met' = met
      /\ \A d \in Editor : job[d] \in FgCall
      /\ job'[c] = n /\ \A d \in Editor \ {c} : job'[d] = job[d]
  BY DEF FgTypes, FgActs
<1> HIDE DEF k
<1>2. FgLocal(k, n) /\ FgOwn(k, n)
  BY DEF k
<1>3. \A x \in {"store", "database", "answer"} : failed[x] <= failed'[x]
  BY DEF FgActs
<1>4. FgClean' => FgClean
  BY <1>1, <1>3, FgMonotone DEF FgTypes
<1>5. FgShape(k) /\ FgFound(k) /\ FgBytes(k)
  BY DEF FgCore, k
<1>6. /\ Nothing \notin Item /\ Nothing \notin FgPath
      /\ \A p \in FgPath : bucket[p] \in Item \cup {Nothing} /\ bucket'[p] \in Item \cup {Nothing}
      /\ \A f \in Item : path[f] \in FgPaths /\ path'[f] \in FgPaths
  BY FgConstants DEF FgTypes, FgRows
<1>7. \A d \in Editor \ {c} : job[d].pc \notin FgStoring
  BY <1>1 DEF FgCore, FgAlone, k
<1>8. \A d \in Editor \ {c} : k.pc \in FgWorking /\ job[d].pc \in FgWorking
        => \A p \in FgPath : ~(FgOwns(k, p) /\ FgOwns(job[d], p))
  BY DEF FgCore, FgApart, k
<1>9. ASSUME NEW d \in Editor \ {c}, NEW m, m = job[d]
      PROVE  /\ FgShape(m) /\ FgFound(m)' /\ FgBytes(m)'
             /\ FgNeat(m) => FgNeat(m)'
  <2>1. m \in FgCall /\ m.pc \notin FgStoring /\ FgBounds(m)
    BY <1>1, <1>7, <1>9
  <2>2. FgShape(m) /\ FgFound(m) /\ FgBytes(m)
    BY <1>9 DEF FgCore
  <2>3. k.pc \in FgWorking /\ m.pc \in FgWorking
        => \A p \in FgPath : ~(FgOwns(k, p) /\ FgOwns(m, p))
    BY <1>8, <1>9
  <2> QED BY <1>1, <1>2, <1>3, <1>5, <2>1, <2>2, <2>3, FgOthers
<1>10. ASSUME NEW d \in Editor
       PROVE  FgShape(job'[d]) /\ FgFound(job[d])' /\ FgBytes(job[d])'
  <2>1. CASE d = c
    <3>1. FgShape(n) /\ FgFound(n)' /\ FgBytes(n)'
      BY <1>2 DEF FgOwn
    <3>2. job'[d] = n
      BY <1>1, <2>1
    <3> QED BY <3>1, <3>2, Zenon DEF FgFound, FgBytes
  <2>2. CASE d # c
    <3>1. PICK m : m = job[d] /\ m = job'[d]
      BY <1>1, <2>2
    <3>2. FgShape(m) /\ FgFound(m)' /\ FgBytes(m)'
      BY <1>9, <2>2, <3>1
    <3>3. job'[d] = m
      BY <3>1
    <3> QED BY <3>2, <3>3, Zenon DEF FgFound, FgBytes
  <2> QED BY <2>1, <2>2
<1>11. \A p \in FgPath : FgOwns(n, p) => FgOwns(k, p)
  BY <1>2 DEF FgLocal, FgOwns, FgWorking
<1>12. FgApart'
  <2> SUFFICES ASSUME NEW d \in Editor, NEW e \in Editor, d # e, job'[d].pc \in FgWorking,
                      job'[e].pc \in FgWorking, NEW p \in FgPath
               PROVE  ~(FgOwns(job'[d], p) /\ FgOwns(job'[e], p))
    BY DEF FgApart
  <2>1. n.pc \in FgWorking => k.pc \in FgWorking
    BY <1>2 DEF FgLocal
  <2>2. CASE d = c
    BY <1>1, <1>8, <1>11, <2>1, <2>2
  <2>3. CASE e = c
    BY <1>1, <1>8, <1>11, <2>1, <2>3
  <2>4. CASE d # c /\ e # c
    BY <1>1, <2>4 DEF FgCore, FgApart
  <2> QED BY <2>2, <2>3, <2>4
<1>13. FgAlone'
  <2> SUFFICES ASSUME NEW d \in Editor, NEW e \in Editor, d # e, job'[d].pc \in FgStoring
               PROVE  job'[e].pc = "idle"
    BY DEF FgAlone
  <2>1. d = c
    BY <1>1, <1>7
  <2>2. k.pc \in FgStoring
    BY <1>1, <1>2, <2>1 DEF FgLocal
  <2> QED BY <1>1, <2>1, <2>2 DEF FgCore, FgAlone, k
<1>14. FgRowed'
  BY <1>2 DEF FgOwn
<1>15. \A f \in Item : FgHands(k, f) => FgOwns(k, path[f])
  <2> SUFFICES ASSUME NEW f \in Item, FgHands(k, f) PROVE FgOwns(k, path[f])
    OBVIOUS
  <2>1. k.pc \in FgWorking /\ path[f] = k.was[f]
    BY <1>5 DEF FgHands, FgFound, FgWorking
  <2> QED BY <1>1, <2>1, FgOwnsPaths
<1>16. FgWhole'
  <2> SUFFICES ASSUME NEW f \in Item, path'[f] # Nothing
               PROVE  bucket'[path'[f]] = f \/ \E d \in Editor : FgHands(job'[d], f)
    BY DEF FgWhole, FgHas
  <2>1. CASE FgOwns(k, path'[f])
    BY <1>1, <1>2, <2>1 DEF FgOwn
  <2>2. CASE ~FgOwns(k, path'[f])
    <3>1. path'[f] = path[f] /\ path[f] \in FgPath
      BY <1>2, <1>6, <2>2 DEF FgLocal, FgPaths
    <3>2. bucket'[path'[f]] = bucket[path[f]]
      BY <1>2, <2>2, <3>1 DEF FgLocal
    <3>3. CASE bucket[path[f]] = f
      BY <3>2, <3>3
    <3>4. CASE \E d \in Editor : FgHands(job[d], f)
      <4>1. PICK d \in Editor : FgHands(job[d], f)
        BY <3>4
      <4>2. d # c
        BY <1>15, <2>2, <3>1, <4>1 DEF k
      <4> QED BY <1>1, <4>1, <4>2
    <3>5. f \in FgHas(path)
      BY <1>6, <3>1 DEF FgHas
    <3> QED BY <3>3, <3>4, <3>5 DEF FgCore, FgWhole
  <2> QED BY <2>1, <2>2
<1>17. ASSUME FgClean' PROVE FgTidy'
  <2> SUFFICES ASSUME NEW p \in FgPath, bucket'[p] # Nothing
               PROVE  path'[bucket'[p]] = p \/ \E d \in Editor : FgOwns(job'[d], p)
    BY DEF FgTidy
  <2>1. CASE FgOwns(k, p)
    BY <1>1, <1>2, <1>17, <2>1 DEF FgOwn
  <2>2. CASE ~FgOwns(k, p)
    <3>1. bucket'[p] = bucket[p]
      BY <1>2, <2>2 DEF FgLocal
    <3>2. PICK g \in Item : g = bucket[p]
      BY <1>6, <3>1
    <3>3. CASE path[g] = p
      <4>1. path[g] # Nothing
        BY <1>6, <3>3
      <4> QED BY <1>2, <2>2, <3>1, <3>2, <3>3, <4>1 DEF FgLocal
    <3>4. CASE \E d \in Editor : FgOwns(job[d], p)
      <4>1. PICK d \in Editor : FgOwns(job[d], p)
        BY <3>4
      <4>2. d # c
        BY <2>2, <4>1 DEF k
      <4> QED BY <1>1, <4>1, <4>2
    <3> QED BY <1>4, <1>17, <3>1, <3>2, <3>3, <3>4 DEF FgCore, FgTidy
  <2> QED BY <2>1, <2>2
<1>18. ASSUME FgClean', NEW d \in Editor PROVE FgNeat(job[d])'
  <2>1. CASE d = c
    <3>1. FgNeat(n)'
      BY <1>2, <1>18 DEF FgOwn
    <3>2. job'[d] = n
      BY <1>1, <2>1
    <3> QED BY <3>1, <3>2, Zenon DEF FgNeat
  <2>2. CASE d # c
    <3>1. PICK m : m = job[d] /\ m = job'[d]
      BY <1>1, <2>2
    <3>2. FgNeat(m)
      BY <1>4, <1>18, <3>1 DEF FgCore
    <3>3. FgNeat(m)'
      BY <1>9, <2>2, <3>1, <3>2
    <3> QED BY <3>1, <3>3, Zenon DEF FgNeat
  <2> QED BY <2>1, <2>2
<1> QED BY <1>10, <1>12, <1>13, <1>14, <1>16, <1>17, <1>18 DEF FgCore

-----------------------------------------------------------------------------
(* A request begins. *)

FgFirst == {"store", "rename", "remove", "remove_file"}

LEMMA FgMeets ==
  ASSUME FgTypes, NEW c \in Editor, NEW l \in FgCall, l.pc \in FgFirst, Files!Begin(c, l)
  PROVE  /\ job[c].pc = "idle" /\ job' = [job EXCEPT ![c] = l]
         /\ UNCHANGED <<state, path, bucket, summary, failed>>
         /\ met' \in 0..2 /\ met <= met'
         /\ met' < 2 => \A d \in Editor : job[d].pc \in FgWorking
              => \A p \in FgPath : ~(FgOwns(l, p) /\ FgOwns(job[d], p))
         /\ met' = 0 => \A d \in Editor : job[d].pc = "idle"
<1> DEFINE others == {d \in Editor : job[d].pc # "idle"}
           mine == IF l.pc = "remove" THEN Files!Path ELSE Files!Paths(l)
           theirs(d) == IF job[d].pc \in {"remove", "remove_objects"} THEN Files!Path
                        ELSE Files!Paths(job[d])
<1>1. /\ job[c].pc = "idle" /\ job' = [job EXCEPT ![c] = l]
      /\ UNCHANGED <<state, path, bucket, summary, failed>>
      /\ met' = IF \E d \in others : mine \cap theirs(d) # {} THEN 2
                ELSE IF others # {} /\ met < 1 THEN 1 ELSE met
  BY Zenon DEF Files!Begin, Files!state
<1>2. met \in 0..2
  BY DEF FgTypes
<1>3. Files!Path = FgPath
  BY DEF Files!Path, FgPath
<1>4. ASSUME NEW k, NEW p \in FgPath, k.pc \notin FgRemoving, FgOwns(k, p)
      PROVE  p \in Files!Paths(k)
  <2>1. PICK f \in Item : p = k.was[f] \/ p = k.to[f]
    BY <1>4 DEF FgOwns
  <2>2. p # Nothing
    BY FgConstants
  <2> QED BY <2>1, <2>2 DEF Files!Paths
<1>5. ASSUME met' < 2, NEW d \in Editor, job[d].pc \in FgWorking, NEW p \in FgPath,
             FgOwns(l, p), FgOwns(job[d], p)
      PROVE  FALSE
  <2>1. d \in others
    BY <1>5 DEF FgWorking, FgRenaming, FgRemoving, FgDropping, FgStoring
  <2>2. p \in mine
    BY <1>3, <1>4, <1>5 DEF FgFirst, FgRemoving
  <2>3. p \in theirs(d)
    BY <1>3, <1>4, <1>5 DEF FgRemoving
  <2>4. met' = 2
    BY <1>1, <2>1, <2>2, <2>3
  <2> QED BY <1>5, <2>4
<1>6. met' = 0 => others = {}
  <2> HIDE DEF others, mine, theirs
  <2> QED BY <1>1, <1>2
<1>7. met' \in 0..2 /\ met <= met'
  <2> HIDE DEF others, mine, theirs
  <2> QED BY <1>1, <1>2
<1> QED BY <1>1, <1>5, <1>6, <1>7

\* What it finds: its files are whole, and nothing is in its way.
LEMMA FgFresh ==
  ASSUME FgTypes, FgCore, NEW l \in FgCall, l.pc \in FgFirst, l.done = {}, FgShape(l), FgFound(l),
         \A d \in Editor : job[d].pc \in FgWorking
           => \A p \in FgPath : ~(FgOwns(l, p) /\ FgOwns(job[d], p)),
         l.pc \in FgRemoving \cup FgStoring => \A d \in Editor : job[d].pc \notin FgWorking
  PROVE  FgBytes(l) /\ (FgClean => FgNeat(l))
<1>1. /\ \A p \in FgPath : bucket[p] \in Item \cup {Nothing}
      /\ \A f \in Item : path[f] \in FgPaths
      /\ \A d \in Editor : job[d] \in FgCall
  BY DEF FgTypes, FgRows
<1>2. Nothing \notin Item /\ Nothing \notin FgPath
  BY FgConstants
<1>3. \A f \in Item : /\ l.was[f] \in FgPaths /\ l.to[f] \in FgPaths
                      /\ FgOwns(l, l.was[f]) /\ FgOwns(l, l.to[f])
  BY FgOwnsPaths DEF FgFirst, FgWorking, FgRenaming, FgRemoving, FgDropping, FgStoring
<1>4. ASSUME NEW p \in FgPath, FgOwns(l, p), NEW d \in Editor PROVE ~FgOwns(job[d], p)
  <2>1. FgOwns(job[d], p) => job[d].pc \in FgWorking
    BY DEF FgOwns, FgWorking
  <2> QED BY <1>4, <2>1
<1>5. ASSUME NEW f \in FgHas(l.was), l.pc \in {"rename", "remove_file"}
      PROVE  bucket[l.was[f]] = f
  <2>1. f \in Item /\ path[f] = l.was[f] /\ l.was[f] \in FgPath /\ FgOwns(l, l.was[f])
    BY <1>3, <1>5 DEF FgHas, FgPaths, FgFound, FgRenaming, FgDropping
  <2>2. bucket[path[f]] = f \/ \E d \in Editor : FgHands(job[d], f)
    BY <1>2, <2>1 DEF FgCore, FgWhole, FgHas
  <2>3. ASSUME NEW d \in Editor, FgHands(job[d], f) PROVE FALSE
    <3>1. job[d].pc \in FgWorking /\ path[f] = job[d].was[f]
      BY <2>3 DEF FgCore, FgHands, FgFound, FgWorking
    <3>2. FgOwns(job[d], path[f])
      BY <1>1, <2>1, <3>1, FgOwnsPaths
    <3> QED BY <1>4, <2>1, <3>2
  <2> QED BY <2>1, <2>2, <2>3
<1>6. ASSUME FgClean, NEW p \in FgPath, FgOwns(l, p), bucket[p] # Nothing
      PROVE  path[bucket[p]] = p
  BY <1>4, <1>6 DEF FgCore, FgTidy
<1>7. FgBytes(l)
  <2>1. l.pc \in FgRenaming =>
       \A f \in FgHas(l.was) : IF f \in l.done THEN bucket[l.to[f]] = f ELSE bucket[l.was[f]] = f
    BY <1>5 DEF FgFirst, FgRenaming
  <2>2. l.pc = "remove_file" => \A f \in l.left : bucket[l.was[f]] = f
    BY <1>5 DEF FgShape, FgDropping
  <2> QED BY <2>1, <2>2 DEF FgBytes, FgFirst
<1>8. ASSUME FgClean PROVE FgNeat(l)
  <2>1. l.pc = "rename" => \A f \in l.left : bucket[l.to[f]] = Nothing
    <3> SUFFICES ASSUME l.pc = "rename", NEW f \in l.left, bucket[l.to[f]] # Nothing
                 PROVE  FALSE
      OBVIOUS
    <3>1. f \in FgHas(l.to)
      BY DEF FgShape, FgRenaming
    <3>2. f \in Item /\ l.to[f] \in FgPath /\ FgOwns(l, l.to[f])
      BY <1>3, <3>1 DEF FgHas, FgPaths
    <3>3. path[bucket[l.to[f]]] = l.to[f] /\ bucket[l.to[f]] \in Item
      BY <1>1, <1>6, <1>8, <3>2
    <3> QED BY <3>1, <3>3 DEF FgFound, FgRenaming
  <2>2. ASSUME l.pc = "remove", NEW p \in FgPath, bucket[p] # Nothing PROVE path[bucket[p]] = p
    <3>1. FgOwns(l, p)
      BY <2>2 DEF FgOwns, FgRemoving
    <3> QED BY <1>6, <1>8, <2>2, <3>1
  <2>3. ASSUME l.pc = "store", NEW p \in FgPath PROVE bucket[p] = Nothing
    <3> SUFFICES ASSUME bucket[p] # Nothing PROVE FALSE
      OBVIOUS
    <3>1. FgHas(path) = {}
      BY <2>3 DEF FgFound, FgStoring, FgCore, FgRowed
    <3>2. path[bucket[p]] # p
      BY <1>1, <1>2, <3>1 DEF FgHas
    <3>3. PICK d \in Editor : FgOwns(job[d], p)
      BY <1>8, <3>2 DEF FgCore, FgTidy
    <3>4. job[d].pc \in FgWorking
      BY <3>3 DEF FgOwns, FgWorking
    <3> QED BY <2>3, <3>4 DEF FgStoring
  <2> QED BY <2>1, <2>2, <2>3 DEF FgNeat, FgFirst
<1> QED BY <1>7, <1>8

LEMMA FgStarts ==
  ASSUME FgTypes, FgCore, NEW c \in Editor, NEW l \in FgCall, l.pc \in FgFirst, l.done = {},
         FgShape(l), FgFound(l), Files!Begin(c, l), met' < 2,
         l.pc = "store" => \A d \in Editor : job[d].pc = "idle",
         l.pc # "store" => state = "there"
  PROVE  FgCore'
<1>1. /\ job[c].pc = "idle" /\ job' = [job EXCEPT ![c] = l]
      /\ UNCHANGED <<state, path, bucket, summary, failed>>
  BY FgMeets, Zenon
<1>2. \A d \in Editor : job[d].pc \in FgWorking
        => \A p \in FgPath : ~(FgOwns(l, p) /\ FgOwns(job[d], p))
  BY FgMeets
<1>3. job'[c] = l /\ \A d \in Editor \ {c} : job'[d] = job[d]
  BY <1>1 DEF FgTypes
<1>4. \A d \in Editor : job[d] \in FgCall
  BY DEF FgTypes
<1>5. l.pc \in FgRemoving \cup FgStoring => \A d \in Editor : job[d].pc \notin FgWorking
  <2> SUFFICES ASSUME l.pc \in FgRemoving \cup FgStoring, NEW d \in Editor, job[d].pc \in FgWorking
               PROVE  FALSE
    OBVIOUS
  <2>1. l.pc = "remove"
    BY DEF FgFirst, FgRemoving, FgStoring, FgWorking, FgRenaming, FgDropping
  <2>2. PICK p \in FgPath : FgOwns(job[d], p)
    BY <1>4, FgOwnsSome DEF FgCore
  <2>3. FgOwns(l, p)
    BY <2>1 DEF FgOwns, FgRemoving
  <2> QED BY <1>2, <2>2, <2>3
<1>6. FgBytes(l) /\ (FgClean => FgNeat(l))
  BY <1>2, <1>5, FgFresh
<1>7. ASSUME NEW m
      PROVE  /\ FgFound(m) => FgFound(m)'
             /\ FgBytes(m) => FgBytes(m)'
             /\ FgNeat(m) => FgNeat(m)'
  <2>1. UNCHANGED <<state, path, bucket, failed>>
    BY <1>1
  <2> QED BY <2>1, Zenon DEF FgFound, FgBytes, FgNeat
<1>8. FgClean' => FgClean
  BY <1>1, Zenon DEF FgClean
<1>9. ASSUME NEW d \in Editor
      PROVE  /\ FgShape(job'[d]) /\ FgFound(job[d])' /\ FgBytes(job[d])'
             /\ FgClean' => FgNeat(job[d])'
  <2>1. PICK m : m = job'[d] /\ (m = l \/ m = job[d])
    BY <1>3
  <2>2. FgShape(m) /\ FgFound(m) /\ FgBytes(m) /\ (FgClean => FgNeat(m))
    BY <1>6, <2>1 DEF FgCore
  <2>3. FgShape(m) /\ FgFound(m)' /\ FgBytes(m)' /\ (FgClean' => FgNeat(m)')
    BY <1>7, <1>8, <2>2
  <2>4. job'[d] = m
    BY <2>1
  <2>5. FgFound(m)' => FgFound(job[d])'
    BY <2>4, Zenon DEF FgFound
  <2>6. FgBytes(m)' => FgBytes(job[d])'
    BY <2>4, Zenon DEF FgBytes
  <2>7. FgNeat(m)' => FgNeat(job[d])'
    BY <2>4, Zenon DEF FgNeat
  <2> QED BY <2>3, <2>4, <2>5, <2>6, <2>7
<1>10. FgApart'
  <2> SUFFICES ASSUME NEW d \in Editor, NEW e \in Editor, d # e, job'[d].pc \in FgWorking,
                      job'[e].pc \in FgWorking, NEW p \in FgPath
               PROVE  ~(FgOwns(job'[d], p) /\ FgOwns(job'[e], p))
    BY DEF FgApart
  <2>1. CASE d = c
    BY <1>2, <1>3, <2>1
  <2>2. CASE e = c
    BY <1>2, <1>3, <2>2
  <2>3. CASE d # c /\ e # c
    BY <1>3, <2>3 DEF FgCore, FgApart
  <2> QED BY <2>1, <2>2, <2>3
<1>11. FgAlone'
  <2> SUFFICES ASSUME NEW d \in Editor, NEW e \in Editor, d # e, job'[d].pc \in FgStoring
               PROVE  job'[e].pc = "idle"
    BY DEF FgAlone
  <2>1. CASE d = c
    BY <1>3, <2>1 DEF FgFirst, FgStoring
  <2>2. CASE d # c
    <3>1. job[d].pc \in FgStoring
      BY <1>3, <2>2
    <3>2. state = "none"
      BY <3>1 DEF FgCore, FgFound
    <3>3. l.pc = "store"
      BY <3>2
    <3> QED BY <3>1, <3>3 DEF FgStoring
  <2> QED BY <2>1, <2>2
<1>12. FgRowed'
  <2>1. UNCHANGED <<state, path>>
    BY <1>1
  <2>2. FgRowed
    BY DEF FgCore
  <2> QED BY <2>1, <2>2, Zenon DEF FgRowed, FgHas, FgOneToOne
<1>13. FgWhole'
  <2> SUFFICES ASSUME NEW f \in Item, path[f] # Nothing, bucket[path[f]] # f
               PROVE  \E d \in Editor : FgHands(job'[d], f)
    BY <1>1 DEF FgWhole, FgHas
  <2>1. PICK d \in Editor : FgHands(job[d], f)
    BY DEF FgCore, FgWhole, FgHas
  <2>2. d # c
    BY <1>1, <2>1 DEF FgHands, FgRenaming, FgDropping
  <2> QED BY <1>3, <2>1, <2>2
<1>14. FgClean' => FgTidy'
  <2> SUFFICES ASSUME FgClean, NEW p \in FgPath, bucket[p] # Nothing, path[bucket[p]] # p
               PROVE  \E d \in Editor : FgOwns(job'[d], p)
    BY <1>1, <1>8 DEF FgTidy
  <2>1. PICK d \in Editor : FgOwns(job[d], p)
    BY DEF FgCore, FgTidy
  <2>2. d # c
    BY <1>1, <2>1 DEF FgOwns, FgWorking, FgRenaming, FgRemoving, FgDropping, FgStoring
  <2> QED BY <1>3, <2>1, <2>2
<1> QED BY <1>9, <1>10, <1>11, <1>12, <1>13, <1>14 DEF FgCore

-----------------------------------------------------------------------------
(* The requests. *)

\* The invariant holds when a request has begun, if what it is about is as its shape says.
LEMMA FgBegun ==
  ASSUME FgInv, NEW c \in Editor, NEW l \in FgCall, l.pc \in FgFirst, l.done = {},
         Files!Begin(c, l), FgBounds(l),
         FgSane => FgShape(l) /\ FgFound(l),
         l.pc = "store" => \A d \in Editor : job[d].pc = "idle",
         l.pc # "store" /\ FgSane => state = "there"
  PROVE  FgInv'
<1>1. /\ job[c].pc = "idle" /\ job' = [job EXCEPT ![c] = l]
      /\ UNCHANGED <<state, path, bucket, summary, failed>>
      /\ met' \in 0..2 /\ met <= met' /\ met \in 0..2
      /\ met' = 0 => \A d \in Editor : job[d].pc = "idle"
  BY FgMeets DEF FgInv, FgTypes
<1>2. FgTypes'
  <2>1. job \in [Editor -> FgCall]
    BY DEF FgInv, FgTypes
  <2>2. job' \in [Editor -> FgCall]
    BY <1>1, <2>1
  <2>3. FgTypes
    BY DEF FgInv
  <2> QED BY <1>1, <2>2, <2>3 DEF FgTypes
<1>3. FgSane' => FgSane /\ met' < 2
  BY <1>1 DEF FgSane
<1>4. FgSane' => FgCore'
  BY <1>3, FgStarts DEF FgInv
<1>5. ASSUME met' = 0 PROVE FgSummed'
  <2>1. met = 0 /\ FgSummed
    BY <1>1, <1>5 DEF FgInv
  <2>2. job'[c] = l /\ \A d \in Editor \ {c} : job'[d] = job[d]
    BY <1>1 DEF FgInv, FgTypes
  <2>3. \A d \in Editor : job[d].pc = "idle"
    BY <1>1, <1>5
  <2>4. \A d \in Editor : job'[d].pc # "sum_up"
    BY <2>2, <2>3 DEF FgFirst
  <2>5. FgClean' /\ state' = "there" => summary' = path'
    <3>1. FgClean' => FgClean
      BY <1>1, Zenon DEF FgClean
    <3> QED BY <1>1, <2>1, <2>3, <3>1 DEF FgSummed
  <2> QED BY <2>2, <2>3, <2>4, <2>5 DEF FgSummed
<1>6. \A d \in Editor : FgBounds(job'[d])
  <2>1. job'[c] = l /\ \A d \in Editor \ {c} : job'[d] = job[d]
    BY <1>1 DEF FgInv, FgTypes
  <2>2. \A d \in Editor : FgBounds(job[d])
    BY DEF FgInv
  <2> QED BY <2>1, <2>2
<1>7. (\A d \in Editor : FgBounds(job[d]))'
  BY <1>6 DEF FgBounds
<1> QED BY <1>2, <1>4, <1>5, <1>7 DEF FgInv

LEMMA FgNames ==
  /\ Files!There = FgHas(path) /\ Files!Path = FgPath
  /\ Files!Nowhere \in FgRows /\ \A f \in Item : Files!Nowhere[f] = Nothing
  /\ Files!Idle = [pc |-> "idle", was |-> Files!Nowhere, to |-> Files!Nowhere,
                   left |-> {}, done |-> {}, at |-> Nothing]
  /\ Files!Idle \in FgCall
<1>1. Files!There = FgHas(path) /\ Files!Path = FgPath
  BY DEF Files!There, FgHas, Files!Path, FgPath
<1>2. Files!Nowhere \in FgRows /\ \A f \in Item : Files!Nowhere[f] = Nothing
  BY DEF Files!Nowhere, FgRows, FgPaths
<1>3. Files!Idle = [pc |-> "idle", was |-> Files!Nowhere, to |-> Files!Nowhere,
                    left |-> {}, done |-> {}, at |-> Nothing]
  BY DEF Files!Idle
<1>4. Files!Idle \in FgCall
  BY <1>2, <1>3 DEF FgCall, FgPhase
<1> QED BY <1>1, <1>2, <1>3, <1>4

\* In a sane state a group with a file is there.
LEMMA FgThere ==
  ASSUME FgInv, FgSane, NEW f \in FgHas(path)
  PROVE  state = "there"
BY DEF FgInv, FgCore, FgRowed

LEMMA FgAppend ==
  ASSUME FgInv, NEW c \in Editor, NEW to \in Files!Uploads, Files!Append(c, to)
  PROVE  FgInv'
<1>a. PICK left : left = FgHas(to)
  OBVIOUS
<1>0. PICK l : l = [Files!Idle EXCEPT !.pc = "store", !.to = to, !.left = left]
  OBVIOUS
<1>1. /\ to \in [Item -> FgPaths] /\ to # Files!Nowhere
      /\ \A f, g \in Item : f # g /\ to[f] # Nothing => to[f] # to[g]
  BY FgNames, Zenon DEF Files!Uploads, FgPaths
<1>2. state = "none" /\ Files!Begin(c, l) /\ \A d \in Editor : job[d].pc = "idle"
  BY <1>a, <1>0, Zenon DEF Files!Append, FgHas
<1>3. l = [pc |-> "store", was |-> Files!Nowhere, to |-> to, left |-> FgHas(to), done |-> {},
           at |-> Nothing]
  BY <1>a, <1>0 DEF Files!Idle, FgHas
<1>4. FgHas(Files!Nowhere) = {} /\ FgHas(to) # {}
  <2>1. FgHas(Files!Nowhere) = {}
    BY FgNames DEF FgHas
  <2>2. ASSUME FgHas(to) = {} PROVE FALSE
    <3>1. \A f \in Item : to[f] = Files!Nowhere[f]
      BY <2>2, FgNames DEF FgHas
    <3> QED BY <1>1, <3>1, FgNames DEF FgRows
  <2> QED BY <2>1, <2>2
<1>5. l \in FgCall
  BY <1>1, <1>3, FgNames DEF FgCall, FgPhase, FgWorking, FgStoring, FgRows, FgHas
<1>6. FgShape(l) /\ FgFound(l)
  <2>1. FgOneToOne(to)
    BY <1>1 DEF FgOneToOne, FgHas
  <2> QED BY <1>2, <1>3, <1>4, <2>1
          DEF FgShape, FgFound, FgRenaming, FgRemoving, FgDropping, FgStoring
<1>7. l.pc \in FgFirst /\ l.done = {} /\ l.pc = "store" /\ FgBounds(l)
  BY <1>3 DEF FgFirst, FgBounds, FgRenaming
<1> QED BY <1>2, <1>5, <1>6, <1>7, FgBegun

LEMMA FgRename ==
  ASSUME FgInv, NEW c \in Editor, NEW to \in FgRows, Files!Rename(c, to),
         FgHas(to) \subseteq FgHas(path),
         FgSane => /\ FgHas(to) # {} /\ FgOneToOne(to)
                   /\ \A f \in FgHas(to), g \in Item : path[g] # to[f]
  PROVE  FgInv'
<1>a. PICK was : was = [f \in Item |-> IF f \in FgHas(to) THEN path[f] ELSE Nothing]
  OBVIOUS
<1>b. PICK left : left = FgHas(to)
  OBVIOUS
<1>0. PICK l : l = [Files!Idle EXCEPT !.pc = "rename", !.to = to, !.left = left, !.was = was]
  OBVIOUS
<1>1. Files!Begin(c, l)
  BY <1>a, <1>b, <1>0, Zenon DEF Files!Rename, FgHas
<1>2. l = [pc |-> "rename", was |-> was, to |-> to, left |-> FgHas(to), done |-> {}, at |-> Nothing]
  BY <1>b, <1>0 DEF Files!Idle
<1>3. path \in FgRows
  BY DEF FgInv, FgTypes
<1>4. was \in FgRows
  BY <1>a, <1>3 DEF FgRows, FgPaths
<1>5. \A f \in Item : was[f] = IF f \in FgHas(to) THEN path[f] ELSE Nothing
  BY <1>a
<1>6. l \in FgCall
  BY <1>2, <1>4 DEF FgCall, FgPhase, FgWorking, FgRenaming, FgHas
<1>7. ASSUME FgSane PROVE FgShape(l) /\ FgFound(l) /\ state = "there"
  <2>1. /\ FgHas(to) # {} /\ FgHas(to) \subseteq FgHas(path) /\ FgOneToOne(to)
        /\ \A f \in FgHas(to), g \in Item : path[g] # to[f]
    BY <1>7
  <2>2. FgHas(was) = FgHas(to) /\ \A f \in FgHas(was) : path[f] = was[f]
    BY <1>5, <2>1 DEF FgHas
  <2>3. FgShape(l)
    BY <1>2, <2>1, <2>2 DEF FgShape, FgDropping, FgStoring
  <2>4. FgFound(l)
    BY <1>2, <2>1, <2>2 DEF FgFound, FgStoring
  <2> QED BY <1>7, <2>1, <2>3, <2>4, FgThere
<1>8. l.pc \in FgFirst /\ l.done = {} /\ l.pc # "store" /\ FgBounds(l)
  <2>1. FgHas(was) = FgHas(to)
    BY <1>5 DEF FgHas
  <2> QED BY <1>2, <2>1 DEF FgFirst, FgBounds
<1> QED BY <1>1, <1>6, <1>7, <1>8, FgBegun

LEMMA FgPatchFile ==
  ASSUME FgInv, NEW c \in Editor, NEW f \in Item, NEW n \in Name, Files!PatchFile(c, f, n)
  PROVE  FgInv'
<1> DEFINE p == <<path[f][1], n>>
           to == [Files!Nowhere EXCEPT ![f] = p]
<1>1. /\ f \in FgHas(path) /\ \A g \in FgHas(path) : path[g] # p
      /\ Files!Rename(c, to)
  BY FgNames DEF Files!PatchFile
<1>2. path[f] \in FgPath
  BY <1>1 DEF FgInv, FgTypes, FgRows, FgPaths, FgHas
<1>3. p \in FgPath
  BY <1>2 DEF FgPath
<1> HIDE DEF p
<1>4. to \in FgRows /\ \A g \in Item : to[g] = IF g = f THEN p ELSE Nothing
  BY <1>3, FgNames DEF FgRows, FgPaths
<1> HIDE DEF to
<1>5. FgHas(to) = {f}
  BY <1>3, <1>4, FgConstants DEF FgHas
<1>6. FgOneToOne(to)
  BY <1>5 DEF FgOneToOne
<1>7. \A h \in FgHas(to), g \in Item : path[g] # to[h]
  BY <1>1, <1>3, <1>4, <1>5, FgConstants DEF FgHas
<1> QED BY <1>1, <1>4, <1>5, <1>6, <1>7, FgRename

LEMMA FgPatchFolder ==
  ASSUME FgInv, NEW c \in Editor, NEW a \in Folder, NEW b \in Folder, Files!PatchFolder(c, a, b)
  PROVE  FgInv'
<1> DEFINE affected == {f \in FgHas(path) : path[f][1] = a}
           to == [f \in Item |-> IF f \in affected THEN <<b, path[f][2]>> ELSE Nothing]
<1>1. /\ affected # {} /\ \A f \in FgHas(path) : path[f][1] # b
      /\ Files!Rename(c, to)
  BY FgNames DEF Files!PatchFolder
<1>2. \A f \in FgHas(path) : path[f] \in FgPath
  BY DEF FgInv, FgTypes, FgRows, FgPaths, FgHas
<1>3. affected \subseteq FgHas(path) /\ affected \subseteq Item
  BY DEF FgHas
<1>4. \A f \in affected : <<b, path[f][2]>> \in FgPath
  BY <1>2, <1>3 DEF FgPath
<1>5. to \in FgRows
  BY <1>4 DEF FgRows, FgPaths
<1>6. \A f \in Item : to[f] = IF f \in affected THEN <<b, path[f][2]>> ELSE Nothing
  OBVIOUS
<1>7. FgHas(to) = affected
  <2> HIDE DEF affected, to
  <2> QED BY <1>3, <1>4, <1>6, FgConstants DEF FgHas
<1>8. ASSUME FgSane PROVE FgOneToOne(to)
  <2> SUFFICES ASSUME NEW f \in affected, NEW g \in affected, f # g PROVE to[f] # to[g]
    BY <1>7 DEF FgOneToOne
  <2>1. path[f] # path[g]
    BY <1>3, <1>8 DEF FgInv, FgCore, FgRowed, FgOneToOne
  <2>2. path[f] = <<a, path[f][2]>> /\ path[g] = <<a, path[g][2]>>
    BY <1>2, <1>3 DEF FgPath
  <2>3. path[f][2] # path[g][2]
    BY <2>1, <2>2
  <2> QED BY <1>3, <1>6, <2>3
<1>9. \A f \in FgHas(to), g \in Item : path[g] # to[f]
  <2> SUFFICES ASSUME NEW f \in affected, NEW g \in Item, path[g] = to[f] PROVE FALSE
    BY <1>7
  <2>1. to[f] = <<b, path[f][2]>> /\ to[f] \in FgPath
    BY <1>3, <1>4, <1>6
  <2>2. g \in FgHas(path) /\ path[g][1] = b
    BY <2>1, FgConstants DEF FgHas
  <2> QED BY <1>1, <2>2
<1> HIDE DEF affected, to
<1> QED BY <1>1, <1>3, <1>5, <1>7, <1>8, <1>9, FgRename

LEMMA FgRemoveGroup ==
  ASSUME FgInv, NEW c \in Editor, Files!RemoveGroup(c)
  PROVE  FgInv'
<1>0. PICK l : l = [Files!Idle EXCEPT !.pc = "remove", !.was = path, !.left = FgHas(path)]
  OBVIOUS
<1>1. state = "there" /\ Files!Begin(c, l)
  BY <1>0, FgNames, Zenon DEF Files!RemoveGroup
<1>2. l = [pc |-> "remove", was |-> path, to |-> Files!Nowhere, left |-> FgHas(path), done |-> {},
           at |-> Nothing]
  BY <1>0 DEF Files!Idle
<1>3. l \in FgCall
  BY <1>2, FgNames DEF FgCall, FgPhase, FgWorking, FgRemoving, FgHas, FgInv, FgTypes
<1>4. FgShape(l) /\ FgFound(l)
  BY <1>2 DEF FgShape, FgFound, FgRenaming, FgDropping, FgStoring
<1>5. l.pc \in FgFirst /\ l.done = {} /\ l.pc # "store" /\ FgBounds(l)
  BY <1>2 DEF FgFirst, FgBounds, FgRenaming
<1> QED BY <1>1, <1>3, <1>4, <1>5, FgBegun

LEMMA FgRemoveFile ==
  ASSUME FgInv, NEW c \in Editor, NEW f \in Item, Files!RemoveFile(c, f)
  PROVE  FgInv'
<1> DEFINE was == [Files!Nowhere EXCEPT ![f] = path[f]]
<1>0. PICK l : l = [Files!Idle EXCEPT !.pc = "remove_file", !.was = was, !.left = {f}]
  OBVIOUS
<1>1. f \in FgHas(path) /\ (Files!RemoveGroup(c) \/ Files!Begin(c, l))
  BY <1>0, FgNames, Zenon DEF Files!RemoveFile
<1>2. l = [pc |-> "remove_file", was |-> was, to |-> Files!Nowhere, left |-> {f}, done |-> {},
           at |-> Nothing]
  BY <1>0 DEF Files!Idle
<1>3. path \in FgRows
  BY DEF FgInv, FgTypes
<1>4. was \in FgRows /\ \A g \in Item : was[g] = IF g = f THEN path[f] ELSE Nothing
  BY <1>3, FgNames DEF FgRows
<1> HIDE DEF was
<1>5. l \in FgCall
  BY <1>2, <1>4, FgNames DEF FgCall, FgPhase, FgWorking, FgDropping, FgHas
<1>6. FgHas(was) = {f} /\ path[f] = was[f] /\ FgHas(Files!Nowhere) = {}
  BY <1>1, <1>4, FgNames DEF FgHas
<1>7. FgShape(l) /\ FgFound(l)
  BY <1>2, <1>6 DEF FgShape, FgFound, FgRenaming, FgDropping, FgStoring
<1>8. l.pc \in FgFirst /\ l.done = {} /\ l.pc # "store" /\ FgBounds(l)
  BY <1>2 DEF FgFirst, FgBounds, FgRenaming
<1>9. FgSane => state = "there"
  BY <1>1, FgThere
<1> QED BY <1>1, <1>5, <1>7, <1>8, <1>9, FgBegun, FgRemoveGroup

LEMMA FgAsks ==
  ASSUME FgInv, NEW c \in Editor, Files!Ask(c)
  PROVE  FgInv'
BY FgAppend, FgPatchFile, FgPatchFolder, FgRemoveGroup, FgRemoveFile DEF Files!Ask

-----------------------------------------------------------------------------
(* The steps of a call. *)

FgData ==
  /\ state \in {"none", "there", "gone"} /\ path \in FgRows /\ summary \in FgRows
  /\ bucket \in [FgPath -> Item \cup {Nothing}]
  /\ failed \in [{"store", "database", "answer"} -> 0..1]

FgRises == \A x \in {"store", "database", "answer"} : failed[x] <= failed'[x]

LEMMA FgFails ==
  ASSUME FgTypes, NEW x \in {"store", "database", "answer"}, Files!Fail(x)
  PROVE  /\ failed' \in [{"store", "database", "answer"} -> 0..1] /\ FgRises
         /\ FgClean /\ failed["store"] = 0 /\ failed'[x] = 1 /\ ~FgClean' /\ (FgSane' => x = "store")
<1>1. failed["store"] \in 0..1 /\ failed["database"] \in 0..1 /\ failed["answer"] \in 0..1
  BY DEF FgTypes
<1>2. /\ failed["store"] + failed["database"] + failed["answer"] < 1
      /\ failed' = [failed EXCEPT ![x] = failed[x] + 1]
  BY Zenon DEF Files!Fail, Files!Faults
<1>3. failed["store"] = 0 /\ failed["database"] = 0 /\ failed["answer"] = 0
  BY <1>1, <1>2
<1>4. \A y \in {"store", "database", "answer"} : failed'[y] = IF y = x THEN 1 ELSE 0
  BY <1>2, <1>3 DEF FgTypes
<1>5. failed' \in [{"store", "database", "answer"} -> 0..1]
  BY <1>2, <1>3 DEF FgTypes
<1> QED BY <1>3, <1>4, <1>5 DEF FgRises, FgClean, FgSane

LEMMA FgSame ==
  ASSUME FgTypes, failed' = failed
  PROVE  failed' \in [{"store", "database", "answer"} -> 0..1] /\ FgRises
<1>1. \A x \in {"store", "database", "answer"} : failed[x] \in 0..1
  BY DEF FgTypes
<1> QED BY <1>1 DEF FgRises, FgTypes

LEMMA FgStep ==
  ASSUME FgInv, NEW c \in Editor, NEW n \in FgCall, job[c].pc # "idle",
         job' = [job EXCEPT ![c] = n], met' = met, FgData', FgRises, FgBounds(n),
         FgSane' /\ FgCore => FgLocal(job[c], n) /\ FgOwn(job[c], n),
         FgSummed /\ met = 0 /\ (FgSane => FgCore) /\ n.pc = "sum_up" => n.was = path',
         FgSummed /\ met = 0 /\ (FgSane => FgCore) /\ FgClean' /\ state' = "there"
           => summary' = path' \/ n.pc \in {"list", "sum_up"}
  PROVE  FgInv'
<1>1. FgTypes /\ met \in 0..2 /\ job \in [Editor -> FgCall]
  BY DEF FgInv, FgTypes
<1>2. FgTypes'
  <2>1. job' \in [Editor -> FgCall]
    BY <1>1
  <2> QED BY <1>1, <2>1 DEF FgData, FgTypes
<1>3. FgSane' => FgSane
  BY <1>1, <1>2, FgMonotone DEF FgRises
<1>4. ASSUME FgSane' PROVE FgCore'
  <2>1. FgCore
    BY <1>3, <1>4 DEF FgInv
  <2>2. FgActs(c, n) /\ \A d \in Editor : FgBounds(job[d])
    BY DEF FgActs, FgRises, FgInv
  <2> QED BY <1>1, <1>2, <1>4, <2>1, <2>2, FgKeeps
<1>5. ASSUME met' = 0 PROVE FgSummed'
  <2>1. FgSummed /\ met = 0 /\ (FgSane => FgCore)
    BY <1>5 DEF FgInv
  <2>2. job'[c] = n /\ \A d \in Editor \ {c} : job'[d] = job[d] /\ job[d].pc = "idle"
    BY <1>1, <2>1 DEF FgSummed
  <2> QED BY <2>1, <2>2 DEF FgSummed
<1>6. \A d \in Editor : FgBounds(job'[d])
  <2>1. job'[c] = n /\ \A d \in Editor \ {c} : job'[d] = job[d]
    BY <1>1
  <2>2. \A d \in Editor : FgBounds(job[d])
    BY DEF FgInv
  <2> QED BY <2>1, <2>2
<1>7. (\A d \in Editor : FgBounds(job[d]))'
  BY <1>6 DEF FgBounds
<1> QED BY <1>2, <1>4, <1>5, <1>7 DEF FgInv

\* After a failure of which the properties do not speak.
LEMMA FgInsane ==
  ASSUME FgInv, NEW c \in Editor, NEW n \in FgCall, job[c].pc # "idle", n.pc # "sum_up",
         job' = [job EXCEPT ![c] = n], met' = met, FgData', FgRises,
         FgBounds(n), ~FgSane', ~FgClean'
  PROVE  FgInv'
BY FgStep

\* The paths of files that a call has are those of its own files.
LEMMA FgOwnFile ==
  ASSUME NEW k \in FgCall, k.pc \in FgRenaming \cup FgDropping, FgShape(k), FgFound(k), FgRowed,
         NEW f \in Item, path[f] # Nothing, FgOwns(k, path[f])
  PROVE  f \in FgHas(k.was)
<1>1. PICK g \in Item : path[f] = k.was[g] \/ path[f] = k.to[g]
  BY DEF FgOwns, FgRenaming, FgRemoving, FgDropping
<1>2. CASE path[f] = k.was[g]
  <2>1. g \in FgHas(k.was) /\ path[g] = path[f]
    BY <1>2 DEF FgHas, FgFound
  <2>2. f \in FgHas(path) /\ g \in FgHas(path)
    BY <2>1 DEF FgHas
  <2>3. f = g
    BY <2>1, <2>2 DEF FgRowed, FgOneToOne
  <2> QED BY <2>1, <2>3
<1>3. CASE path[f] = k.to[g]
  <2>1. g \in FgHas(k.to)
    BY <1>3 DEF FgHas
  <2> QED BY <1>3, <2>1 DEF FgShape, FgFound
<1> QED BY <1>1, <1>2, <1>3

FgAlike(k, n) ==
  /\ \/ k.pc \in FgRenaming /\ n.pc \in FgRenaming
     \/ k.pc \in FgDropping /\ n.pc \in FgDropping
     \/ k.pc \in FgStoring /\ n.pc \in FgStoring
     \/ k.pc = "remove_objects" /\ n.pc = "remove_objects"
  /\ n.was = k.was /\ n.to = k.to /\ n.left \cup n.done \subseteq k.left \cup k.done
  /\ n.pc \in {"drop_old", "drop_copy"} => n.at \in n.left

\* A call goes on with its objects.
LEMMA FgGoesOn ==
  ASSUME FgInv, NEW c \in Editor, NEW k, NEW n \in FgCall, k = job[c], FgAlike(k, n),
         job' = [job EXCEPT ![c] = n], met' = met, UNCHANGED <<state, path, summary>>,
         bucket' \in [FgPath -> Item \cup {Nothing}],
         failed' \in [{"store", "database", "answer"} -> 0..1], FgRises,
         FgSane' /\ FgShape(k) /\ FgFound(k) /\ FgBytes(k) /\ FgRowed /\ (FgClean => FgNeat(k))
           => /\ \A p \in FgPath : ~FgOwns(k, p) => bucket'[p] = bucket[p]
              /\ FgShape(n) /\ FgBytes(n)' /\ (FgClean' /\ FgNeat(k) => FgNeat(n)')
  PROVE  FgInv'
<1>1. /\ k \in FgCall /\ k.pc \in FgWorking /\ n.pc \in FgWorking
      /\ k.pc # "idle" /\ n.pc # "sum_up" /\ k.pc # "list" /\ k.pc # "sum_up"
  BY DEF FgInv, FgTypes, FgAlike, FgWorking, FgRenaming, FgRemoving, FgDropping, FgStoring
<1>2. FgData'
  BY DEF FgInv, FgTypes, FgData
<1>3. \A p : FgOwns(n, p) <=> FgOwns(k, p)
  BY <1>1 DEF FgAlike, FgOwns, FgRenaming, FgRemoving, FgDropping, FgStoring
<1>4. ASSUME FgSane', FgCore PROVE FgLocal(k, n) /\ FgOwn(k, n)
  <2>1. FgShape(k) /\ FgFound(k) /\ FgBytes(k) /\ FgRowed /\ (FgClean => FgNeat(k))
    BY <1>4 DEF FgCore
  <2>2. /\ \A p \in FgPath : ~FgOwns(k, p) => bucket'[p] = bucket[p]
        /\ FgShape(n) /\ FgBytes(n)' /\ (FgClean' /\ FgNeat(k) => FgNeat(n)')
    BY <1>4, <2>1
  <2>3. FgLocal(k, n)
    <3>1. n.pc \in FgStoring => k.pc \in FgStoring
      BY DEF FgAlike, FgRenaming, FgRemoving, FgDropping, FgStoring
    <3> QED BY <1>1, <1>3, <2>2, <3>1 DEF FgLocal
  <2>4. FgFound(n)'
    <3>1. FgFound(n)
      BY <2>1 DEF FgFound, FgAlike, FgRenaming, FgRemoving, FgDropping, FgStoring
    <3>2. UNCHANGED <<state, path>>
      OBVIOUS
    <3> QED BY <3>1, <3>2, Zenon DEF FgFound, FgHas
  <2>5. FgRowed'
    <3>1. UNCHANGED <<state, path>>
      OBVIOUS
    <3> QED BY <2>1, <3>1, Zenon DEF FgRowed, FgHas, FgOneToOne
  <2>6. ASSUME NEW f \in Item, path[f] # Nothing, FgOwns(k, path[f]) PROVE FgHands(n, f)
    <3>1. CASE k.pc \in FgRenaming \cup FgDropping
      <4>1. f \in FgHas(k.was)
        BY <1>1, <2>1, <2>6, <3>1, FgOwnFile
      <4> QED BY <3>1, <4>1 DEF FgHands, FgAlike, FgRenaming, FgDropping, FgStoring
    <3>2. CASE k.pc \in FgStoring \cup {"remove_objects"}
      <4>1. state # "there"
        BY <2>1, <3>2 DEF FgFound
      <4> QED BY <2>1, <2>6, <4>1 DEF FgRowed, FgHas
    <3> QED BY <3>1, <3>2 DEF FgAlike
  <2>7. FgClean' => FgNeat(k)
    <3>1. FgClean' => FgClean
      BY <1>2 DEF FgInv, FgTypes, FgData, FgClean, FgRises
    <3> QED BY <1>4, <3>1 DEF FgCore
  <2>8. UNCHANGED path
    OBVIOUS
  <2> QED BY <1>3, <2>2, <2>3, <2>4, <2>5, <2>6, <2>7, <2>8 DEF FgOwn
<1>5. FgSummed /\ FgClean' /\ state' = "there" => summary' = path'
  <2>1. FgClean' => FgClean
    BY <1>2 DEF FgInv, FgTypes, FgData, FgClean, FgRises
  <2> QED BY <1>1, <2>1 DEF FgSummed
<1>6. FgBounds(n)
  BY DEF FgInv, FgBounds, FgAlike, FgRenaming, FgDropping, FgStoring
<1> QED BY <1>1, <1>2, <1>4, <1>5, <1>6, FgStep

\* A call answers.
LEMMA FgStops ==
  ASSUME FgInv, NEW c \in Editor, NEW k, k = job[c], k.pc \in FgWorking,
         job' = [job EXCEPT ![c] = Files!Idle], met' = met, UNCHANGED <<state, path, summary>>,
         bucket' \in [FgPath -> Item \cup {Nothing}],
         failed' \in [{"store", "database", "answer"} -> 0..1], FgRises,
         FgSane' /\ FgShape(k) /\ FgFound(k) /\ FgBytes(k) /\ FgRowed
           => /\ \A p \in FgPath : ~FgOwns(k, p) => bucket'[p] = bucket[p]
              /\ \A f \in FgHas(path) : FgOwns(k, path[f]) => bucket'[path[f]] = f
              /\ FgClean' /\ FgNeat(k) => \A p \in FgPath :
                   FgOwns(k, p) /\ bucket'[p] # Nothing => path[bucket'[p]] = p
  PROVE  FgInv'
<1> DEFINE n == Files!Idle
<1>1. /\ k \in FgCall /\ n \in FgCall /\ n.pc = "idle" /\ k.pc # "idle"
      /\ k.pc # "list" /\ k.pc # "sum_up"
  BY FgNames DEF FgInv, FgTypes, FgWorking, FgRenaming, FgRemoving, FgDropping, FgStoring
<1> HIDE DEF n
<1>2. FgData'
  BY DEF FgInv, FgTypes, FgData
<1>3. FgClean' => FgClean
  BY <1>2 DEF FgInv, FgTypes, FgData, FgClean, FgRises
<1>4. ASSUME FgSane', FgCore PROVE FgLocal(k, n) /\ FgOwn(k, n)
  <2>1. FgShape(k) /\ FgFound(k) /\ FgBytes(k) /\ FgRowed /\ (FgClean' => FgNeat(k))
    BY <1>3, <1>4 DEF FgCore
  <2>2. /\ \A p \in FgPath : ~FgOwns(k, p) => bucket'[p] = bucket[p]
        /\ \A f \in FgHas(path) : FgOwns(k, path[f]) => bucket'[path[f]] = f
        /\ FgClean' /\ FgNeat(k) => \A p \in FgPath :
             FgOwns(k, p) /\ bucket'[p] # Nothing => path[bucket'[p]] = p
    BY <1>4, <2>1
  <2>3. FgShape(n) /\ FgFound(n)' /\ FgBytes(n)' /\ FgNeat(n)'
    BY <1>1 DEF FgShape, FgFound, FgBytes, FgNeat, FgRenaming, FgRemoving, FgDropping, FgStoring
  <2>4. FgLocal(k, n)
    BY <1>1, <2>2 DEF FgLocal, FgWorking, FgRenaming, FgRemoving, FgDropping, FgStoring
  <2>5. FgRowed'
    <3>1. UNCHANGED <<state, path>>
      OBVIOUS
    <3> QED BY <2>1, <3>1, Zenon DEF FgRowed, FgHas, FgOneToOne
  <2>6. UNCHANGED path
    OBVIOUS
  <2> QED BY <2>1, <2>2, <2>3, <2>4, <2>5, <2>6 DEF FgOwn, FgHas
<1>5. FgSummed /\ FgClean' /\ state' = "there" => summary' = path'
  BY <1>1, <1>3 DEF FgSummed
<1>6. job' = [job EXCEPT ![c] = n]
  BY DEF n
<1>7. FgBounds(n)
  BY <1>1 DEF FgBounds, FgRenaming
<1> QED BY <1>1, <1>2, <1>4, <1>5, <1>6, <1>7, FgStep

LEMMA FgPut ==
  ASSUME FgTypes, NEW p, NEW f \in Item \cup {Nothing}, Files!Put(p, f)
  PROVE  /\ bucket' \in [FgPath -> Item \cup {Nothing}]
         /\ \A q \in FgPath : bucket'[q] = IF q = p THEN f ELSE bucket[q]
<1>1. bucket' = [bucket EXCEPT ![p] = f]
  BY Zenon DEF Files!Put
<1> QED BY <1>1 DEF FgTypes

\* What there is to know of a call in all its steps.
LEMMA FgKnows ==
  ASSUME FgInv, NEW c \in Editor
  PROVE  /\ FgTypes /\ FgBounds(job[c]) /\ job \in [Editor -> FgCall] /\ job[c] \in FgCall
         /\ bucket \in [FgPath -> Item \cup {Nothing}]
         /\ \A f \in Item : /\ job[c].was[f] \in FgPaths /\ job[c].to[f] \in FgPaths /\ path[f] \in FgPaths
                            /\ job[c].pc \in FgWorking =>
                                 FgOwns(job[c], job[c].was[f]) /\ FgOwns(job[c], job[c].to[f])
<1>1. /\ FgTypes /\ FgBounds(job[c]) /\ job \in [Editor -> FgCall] /\ job[c] \in FgCall
      /\ bucket \in [FgPath -> Item \cup {Nothing}] /\ path \in FgRows
  BY DEF FgInv, FgTypes
<1>2. job[c].was \in FgRows /\ job[c].to \in FgRows
  BY <1>1 DEF FgCall
<1> QED BY <1>1, <1>2 DEF FgRows, FgOwns

LEMMA FgStoreFile ==
  ASSUME FgInv, NEW c \in Editor, Files!StoreFile(c)
  PROVE  FgInv'
<1>1. PICK f \in job[c].left :
        /\ job[c].pc = "store" /\ met' = met /\ UNCHANGED <<state, path, summary>>
        /\ \/ Files!Put(job[c].to[f], f) /\ UNCHANGED failed
              /\ job' = [job EXCEPT ![c].left = @ \ {f}, ![c].done = @ \cup {f}]
           \/ Files!Fail("store") /\ Files!Goto(c, "unstore") /\ UNCHANGED bucket
  BY Zenon DEF Files!StoreFile
<1>2. PICK k : k = job[c]
  OBVIOUS
<1>3. /\ FgTypes /\ job \in [Editor -> FgCall] /\ k \in FgCall
      /\ bucket \in [FgPath -> Item \cup {Nothing}]
      /\ \A g \in Item : k.to[g] \in FgPaths /\ FgOwns(k, k.to[g])
  BY <1>1, <1>2, FgKnows DEF FgWorking, FgStoring
<1>4. f \in Item /\ k.left \subseteq Item /\ k.done \subseteq Item
  BY <1>1, <1>2, <1>3 DEF FgCall
<1>5. Nothing \notin Item /\ Nothing \notin FgPath
  BY FgConstants
<1>6. CASE Files!Put(k.to[f], f) /\ UNCHANGED failed
           /\ job' = [job EXCEPT ![c].left = @ \ {f}, ![c].done = @ \cup {f}]
  <2>1. PICK n : n = [k EXCEPT !.left = k.left \ {f}, !.done = k.done \cup {f}]
    OBVIOUS
  <2>2. job' = [job EXCEPT ![c] = n]
    BY <1>2, <1>3, <1>6, <2>1
  <2>3. n \in FgCall /\ n.pc = "store" /\ n.was = k.was /\ n.to = k.to
        /\ n.left = k.left \ {f} /\ n.done = k.done \cup {f}
    BY <1>1, <1>2, <1>3, <1>4, <2>1 DEF FgCall
  <2>4. bucket' \in [FgPath -> Item \cup {Nothing}]
        /\ \A q \in FgPath : bucket'[q] = IF q = k.to[f] THEN f ELSE bucket[q]
    BY <1>3, <1>4, <1>6, FgPut
  <2>5. FgAlike(k, n)
    BY <1>1, <1>2, <2>3 DEF FgAlike, FgStoring
  <2>6. failed' \in [{"store", "database", "answer"} -> 0..1] /\ FgRises
    BY <1>3, <1>6, FgSame
  <2>7. ASSUME FgShape(k), FgFound(k), FgBytes(k)
        PROVE  /\ \A p \in FgPath : ~FgOwns(k, p) => bucket'[p] = bucket[p]
               /\ FgShape(n) /\ FgBytes(n)' /\ (FgNeat(k) => FgNeat(n)')
    <3>1. /\ k.left \cup k.done = FgHas(k.to) /\ k.left \cap k.done = {} /\ FgOneToOne(k.to)
          /\ FgHas(k.was) = {} /\ FgHas(k.to) # {} /\ \A g \in k.done : bucket[k.to[g]] = g
      BY <1>1, <1>2, <2>7 DEF FgShape, FgBytes, FgStoring
    <3>2. \A g \in FgHas(k.to) : k.to[g] \in FgPath
      BY <1>3 DEF FgHas, FgPaths
    <3>3. \A g \in k.done : k.to[g] # k.to[f]
      BY <1>1, <1>2, <3>1 DEF FgOneToOne
    <3>4. FgShape(n)
      BY <1>1, <1>2, <2>3, <3>1 DEF FgShape, FgStoring, FgRenaming, FgDropping
    <3>5. \A g \in n.done : bucket'[n.to[g]] = g
      BY <1>1, <1>2, <2>3, <2>4, <3>1, <3>2, <3>3
    <3>6. FgBytes(n)'
      BY <2>3, <3>5 DEF FgBytes, FgStoring, FgRenaming
    <3>7. ASSUME FgNeat(k) PROVE FgNeat(n)'
      <4>1. \A p \in FgPath : bucket[p] # Nothing => bucket[p] \in k.done /\ k.to[bucket[p]] = p
        BY <1>1, <1>2, <3>7 DEF FgNeat
      <4>2. \A p \in FgPath : bucket'[p] # Nothing => bucket'[p] \in n.done /\ n.to[bucket'[p]] = p
        BY <2>3, <2>4, <4>1
      <4> QED BY <2>3, <4>2 DEF FgNeat
    <3>8. \A p \in FgPath : ~FgOwns(k, p) => bucket'[p] = bucket[p]
      BY <1>3, <1>4, <2>4
    <3> QED BY <3>4, <3>6, <3>7, <3>8
  <2> QED BY <1>1, <1>2, <2>2, <2>3, <2>4, <2>5, <2>6, <2>7, FgGoesOn
<1>7. CASE Files!Fail("store") /\ Files!Goto(c, "unstore") /\ UNCHANGED bucket
  <2>1. PICK n : n = [k EXCEPT !.pc = "unstore"]
    OBVIOUS
  <2>2. job' = [job EXCEPT ![c] = n]
    BY <1>2, <1>7, <2>1, Zenon DEF Files!Goto
  <2>3. n \in FgCall /\ n.pc = "unstore" /\ n.was = k.was /\ n.to = k.to
        /\ n.left = k.left /\ n.done = k.done
    BY <1>3, <2>1 DEF FgCall, FgPhase, FgWorking, FgStoring
  <2>4. FgAlike(k, n)
    BY <1>1, <1>2, <2>3 DEF FgAlike, FgStoring
  <2>5. /\ failed' \in [{"store", "database", "answer"} -> 0..1] /\ FgRises
        /\ failed'["store"] = 1 /\ FgClean /\ ~FgClean'
    BY <1>3, <1>7, FgFails
  <2>6. ASSUME FgSane', FgShape(k), FgFound(k), FgBytes(k), FgClean => FgNeat(k)
        PROVE  FgShape(n) /\ FgBytes(n)'
    <3>1. FgShape(n)
      BY <1>1, <1>2, <2>3, <2>6 DEF FgShape, FgStoring, FgRenaming, FgDropping
    <3>2. \A g \in n.done : bucket'[n.to[g]] = g
      BY <1>1, <1>2, <1>7, <2>3, <2>6 DEF FgBytes, FgStoring
    <3>3. \A p \in FgPath : bucket'[p] \in n.done => n.to[bucket'[p]] = p
      BY <1>1, <1>2, <1>3, <1>4, <1>5, <1>7, <2>3, <2>5, <2>6 DEF FgNeat
    <3>4. FgBytes(n)'
      BY <2>3, <2>5, <3>2, <3>3 DEF FgBytes, FgStoring, FgRenaming
    <3> QED BY <3>1, <3>4
  <2>7. bucket' \in [FgPath -> Item \cup {Nothing}] /\ \A p \in FgPath : bucket'[p] = bucket[p]
    BY <1>3, <1>7
  <2> QED BY <1>1, <1>2, <2>2, <2>3, <2>4, <2>5, <2>6, <2>7, FgGoesOn
<1> QED BY <1>1, <1>2, <1>6, <1>7

LEMMA FgGoto ==
  ASSUME FgTypes, NEW c \in Editor, NEW w \in FgPhase, Files!Goto(c, w)
  PROVE  \E n \in FgCall :
           /\ job' = [job EXCEPT ![c] = n] /\ n.pc = w
           /\ n.was = job[c].was /\ n.to = job[c].to /\ n.left = job[c].left
           /\ n.done = job[c].done /\ n.at = job[c].at
<1>1. PICK n : n = [job[c] EXCEPT !.pc = w]
  OBVIOUS
<1>2. job' = [job EXCEPT ![c] = n]
  BY <1>1, Zenon DEF Files!Goto
<1>3. job[c] \in FgCall
  BY DEF FgTypes
<1>4. /\ n \in FgCall /\ n.pc = w
      /\ n.was = job[c].was /\ n.to = job[c].to /\ n.left = job[c].left
      /\ n.done = job[c].done /\ n.at = job[c].at
  BY <1>1, <1>3 DEF FgCall
<1> QED BY <1>2, <1>4

LEMMA FgUnstore ==
  ASSUME FgInv, NEW c \in Editor, Files!Unstore(c)
  PROVE  FgInv'
<1>1. /\ job[c].pc = "unstore" /\ job' = [job EXCEPT ![c] = Files!Idle]
      /\ met' = met /\ UNCHANGED <<state, path, summary>>
      /\ \/ /\ UNCHANGED failed
            /\ bucket' = [p \in Files!Path |-> IF bucket[p] \in job[c].done THEN Nothing ELSE bucket[p]]
         \/ Files!Fail("store") /\ UNCHANGED bucket
  BY Zenon DEF Files!Unstore, Files!Answer
<1>2. PICK k : k = job[c]
  OBVIOUS
<1>3. /\ FgTypes /\ k \in FgCall /\ bucket \in [FgPath -> Item \cup {Nothing}]
  BY <1>1, <1>2, FgKnows
<1>4. /\ bucket' \in [FgPath -> Item \cup {Nothing}]
      /\ \A p \in FgPath : bucket'[p] = bucket[p] \/ (bucket[p] \in k.done /\ bucket'[p] = Nothing)
  BY <1>1, <1>2, <1>3, FgNames
<1>5. failed' \in [{"store", "database", "answer"} -> 0..1] /\ FgRises
  BY <1>1, <1>3, FgSame, FgFails
<1>6. ASSUME FgSane', FgShape(k), FgFound(k), FgBytes(k), FgRowed
      PROVE  /\ ~FgClean' /\ FgHas(path) = {}
             /\ \A p \in FgPath : ~FgOwns(k, p) => bucket'[p] = bucket[p]
  <2>1. failed["store"] = 1
    BY <1>1, <1>2, <1>6 DEF FgBytes
  <2>2. ~FgClean'
    <3>1. failed["store"] <= failed'["store"] /\ failed'["store"] \in 0..1
      BY <1>5 DEF FgRises
    <3> QED BY <2>1, <3>1 DEF FgClean
  <2>3. FgHas(path) = {}
    BY <1>1, <1>2, <1>6 DEF FgFound, FgRowed, FgStoring
  <2>4. \A p \in FgPath : bucket[p] \in k.done => FgOwns(k, p)
    <3>1. \A p \in FgPath : bucket[p] \in k.done => bucket[p] \in Item /\ k.to[bucket[p]] = p
      BY <1>1, <1>2, <1>3, <1>6 DEF FgBytes, FgCall
    <3> QED BY <1>1, <1>2, <3>1 DEF FgOwns, FgWorking, FgStoring
  <2> QED BY <1>4, <2>2, <2>3, <2>4
<1> QED BY <1>1, <1>2, <1>4, <1>5, <1>6, FgStops DEF FgWorking, FgStoring

\* Where the files of a renaming are.
LEMMA FgMoves ==
  ASSUME NEW k \in FgCall, k.pc \in FgRenaming, FgShape(k), FgFound(k), FgBytes(k), FgRowed
  PROVE  /\ k.left \cup k.done \subseteq FgHas(k.was) /\ k.left \cap k.done = {}
         /\ \A g \in FgHas(k.was) :
              /\ g \in Item /\ k.was[g] \in FgPath /\ k.to[g] \in FgPath
              /\ FgOwns(k, k.was[g]) /\ FgOwns(k, k.to[g])
              /\ IF g \in k.done THEN bucket[k.to[g]] = g ELSE bucket[k.was[g]] = g
         /\ \A g, h \in FgHas(k.was) :
              /\ k.to[g] # k.was[h]
              /\ g # h => k.was[g] # k.was[h] /\ k.to[g] # k.to[h]
<1>1. /\ k.left \cup k.done \subseteq FgHas(k.was) /\ k.left \cap k.done = {}
      /\ FgHas(k.to) = FgHas(k.was) /\ FgOneToOne(k.to)
  BY DEF FgShape
<1>2. k.pc \in FgWorking
  BY DEF FgWorking
<1>3. ASSUME NEW g \in FgHas(k.was)
      PROVE  /\ g \in Item /\ k.was[g] \in FgPath /\ k.to[g] \in FgPath
             /\ FgOwns(k, k.was[g]) /\ FgOwns(k, k.to[g])
             /\ path[g] = k.was[g] /\ g \in FgHas(path)
  <2>1. g \in Item /\ k.was[g] # Nothing /\ k.to[g] # Nothing
    BY <1>1 DEF FgHas
  <2>2. k.was[g] \in FgPath /\ k.to[g] \in FgPath /\ FgOwns(k, k.was[g]) /\ FgOwns(k, k.to[g])
    BY <1>2, <2>1, FgOwnsPaths DEF FgPaths
  <2>3. path[g] = k.was[g]
    BY DEF FgFound
  <2> QED BY <2>1, <2>2, <2>3 DEF FgHas
<1>4. ASSUME NEW g \in FgHas(k.was), NEW h \in FgHas(k.was)
      PROVE  /\ k.to[g] # k.was[h]
             /\ g # h => k.was[g] # k.was[h] /\ k.to[g] # k.to[h]
  <2>1. path[h] # k.to[g]
    BY <1>1, <1>3 DEF FgFound
  <2>2. g # h => path[g] # path[h]
    BY <1>3 DEF FgRowed, FgOneToOne
  <2>3. g # h => k.to[g] # k.to[h]
    BY <1>1 DEF FgOneToOne
  <2> QED BY <1>3, <2>1, <2>2, <2>3
<1>5. \A g \in FgHas(k.was) : IF g \in k.done THEN bucket[k.to[g]] = g ELSE bucket[k.was[g]] = g
  BY DEF FgBytes
<1> QED BY <1>1, <1>3, <1>4, <1>5

\* The shape of a renaming that goes on.
LEMMA FgMoved ==
  ASSUME NEW k, NEW n, k.pc \in FgRenaming, n.pc \in FgRenaming, FgShape(k),
         n.was = k.was, n.to = k.to, n.left \cup n.done \subseteq k.left \cup k.done,
         n.left \cap n.done = {}, n.pc # "undo" => n.left \cup n.done = k.left \cup k.done /\ k.pc # "undo"
  PROVE  FgShape(n)
<1>1. n.pc \notin FgDropping /\ n.pc \notin FgStoring
  BY DEF FgRenaming, FgDropping, FgStoring
<1>2. /\ FgHas(k.was) = FgHas(k.to) /\ FgHas(k.was) # {} /\ FgOneToOne(k.to)
      /\ k.left \cup k.done \subseteq FgHas(k.was)
      /\ k.pc # "undo" => k.left \cup k.done = FgHas(k.was)
  BY DEF FgShape
<1> QED BY <1>1, <1>2 DEF FgShape

LEMMA FgCopy ==
  ASSUME FgInv, NEW c \in Editor, Files!Copy(c)
  PROVE  FgInv'
<1>1. PICK f \in job[c].left :
        /\ job[c].pc = "rename" /\ met' = met /\ UNCHANGED <<state, path, summary>>
        /\ \/ bucket[job[c].was[f]] # Nothing
              /\ Files!Put(job[c].to[f], bucket[job[c].was[f]]) /\ UNCHANGED failed
              /\ job' = [job EXCEPT ![c].pc = "drop_old", ![c].at = f]
           \/ bucket[job[c].was[f]] = Nothing /\ Files!Goto(c, "undo") /\ UNCHANGED <<bucket, failed>>
           \/ Files!Fail("store") /\ Files!Goto(c, "undo") /\ UNCHANGED bucket
  BY Zenon DEF Files!Copy
<1>2. PICK k : k = job[c]
  OBVIOUS
<1>3. /\ FgTypes /\ FgBounds(k) /\ job \in [Editor -> FgCall] /\ k \in FgCall /\ k.pc = "rename"
      /\ bucket \in [FgPath -> Item \cup {Nothing}]
      /\ k.was[f] \in FgPaths /\ k.to[f] \in FgPaths /\ f \in Item /\ f \in k.left
  BY <1>1, <1>2, FgKnows DEF FgCall
<1>4. Nothing \notin Item /\ Nothing \notin FgPath
  BY FgConstants
<1>5. CASE /\ bucket[k.was[f]] # Nothing /\ Files!Put(k.to[f], bucket[k.was[f]]) /\ UNCHANGED failed
           /\ job' = [job EXCEPT ![c].pc = "drop_old", ![c].at = f]
  <2>1. PICK n : n = [k EXCEPT !.pc = "drop_old", !.at = f]
    OBVIOUS
  <2>2. job' = [job EXCEPT ![c] = n]
    BY <1>2, <1>3, <1>5, <2>1
  <2>3. n \in FgCall /\ n.pc = "drop_old" /\ n.was = k.was /\ n.to = k.to
        /\ n.left = k.left /\ n.done = k.done /\ n.at = f
    BY <1>3, <2>1 DEF FgCall, FgPhase, FgWorking, FgRenaming
  <2>4. bucket' \in [FgPath -> Item \cup {Nothing}]
        /\ \A q \in FgPath : bucket'[q] = IF q = k.to[f] THEN bucket[k.was[f]] ELSE bucket[q]
    <3>1. bucket[k.was[f]] \in Item \cup {Nothing}
      BY <1>3 DEF FgPaths, FgBounds, FgHas, FgRenaming
    <3> QED BY <1>3, <1>5, <3>1, FgPut
  <2>5. FgAlike(k, n)
    BY <1>3, <2>3 DEF FgAlike, FgRenaming
  <2>6. failed' \in [{"store", "database", "answer"} -> 0..1] /\ FgRises
    BY <1>3, <1>5, FgSame
  <2>7. ASSUME FgShape(k), FgFound(k), FgBytes(k), FgRowed
        PROVE  /\ \A p \in FgPath : ~FgOwns(k, p) => bucket'[p] = bucket[p]
               /\ FgShape(n) /\ FgBytes(n)' /\ (FgNeat(k) => FgNeat(n)')
    <3>1. /\ k.left \cup k.done \subseteq FgHas(k.was) /\ k.left \cap k.done = {}
          /\ \A g \in FgHas(k.was) :
               /\ g \in Item /\ k.was[g] \in FgPath /\ k.to[g] \in FgPath
               /\ FgOwns(k, k.was[g]) /\ FgOwns(k, k.to[g])
               /\ IF g \in k.done THEN bucket[k.to[g]] = g ELSE bucket[k.was[g]] = g
          /\ \A g, h \in FgHas(k.was) :
               /\ k.to[g] # k.was[h]
               /\ g # h => k.was[g] # k.was[h] /\ k.to[g] # k.to[h]
      BY <1>3, <2>7, FgMoves DEF FgRenaming
    <3>2. f \in FgHas(k.was) /\ f \notin k.done /\ bucket[k.was[f]] = f
      BY <1>3, <3>1
    <3>3. \A p \in FgPath : bucket'[p] = IF p = k.to[f] THEN f ELSE bucket[p]
      BY <2>4, <3>2
    <3>4. FgShape(n)
      BY <1>3, <2>3, <2>7, <3>1, FgMoved DEF FgRenaming
    <3>5. \A g \in FgHas(k.was) : IF g \in k.done THEN bucket'[k.to[g]] = g ELSE bucket'[k.was[g]] = g
      BY <3>1, <3>2, <3>3
    <3>6. FgBytes(n)'
      BY <2>3, <3>1, <3>2, <3>3, <3>5 DEF FgBytes, FgStoring, FgRenaming
    <3>7. ASSUME FgNeat(k) PROVE FgNeat(n)'
      <4>1. /\ \A g \in k.done : bucket[k.was[g]] = Nothing
            /\ \A g \in k.left : bucket[k.to[g]] = Nothing
        BY <1>3, <3>7 DEF FgNeat
      <4>2. \A g \in k.done : bucket'[k.was[g]] = Nothing
        BY <3>1, <3>2, <3>3, <4>1
      <4>3. \A g \in k.left : g = f \/ bucket'[k.to[g]] = Nothing
        BY <3>1, <3>2, <3>3, <4>1
      <4> QED BY <2>3, <4>2, <4>3 DEF FgNeat
    <3>8. \A p \in FgPath : ~FgOwns(k, p) => bucket'[p] = bucket[p]
      BY <3>1, <3>2, <3>3
    <3> QED BY <3>4, <3>6, <3>7, <3>8
  <2> QED BY <1>1, <1>2, <2>2, <2>3, <2>4, <2>5, <2>6, <2>7, FgGoesOn
<1>6. CASE /\ Files!Goto(c, "undo") /\ UNCHANGED bucket
           /\ \/ bucket[k.was[f]] = Nothing /\ UNCHANGED failed
              \/ Files!Fail("store")
  <2>1. PICK n \in FgCall :
          /\ job' = [job EXCEPT ![c] = n] /\ n.pc = "undo" /\ n.was = k.was /\ n.to = k.to
          /\ n.left = k.left /\ n.done = k.done
    BY <1>2, <1>3, <1>6, FgGoto DEF FgPhase, FgWorking, FgRenaming
  <2>2. FgAlike(k, n)
    BY <1>3, <2>1 DEF FgAlike, FgRenaming
  <2>3. failed' \in [{"store", "database", "answer"} -> 0..1] /\ FgRises
    BY <1>3, <1>6, FgFails, FgSame
  <2>4. bucket' \in [FgPath -> Item \cup {Nothing}] /\ \A p \in FgPath : bucket'[p] = bucket[p]
    BY <1>3, <1>6
  <2>5. ASSUME FgShape(k), FgFound(k), FgBytes(k), FgRowed
        PROVE  FgShape(n) /\ FgBytes(n)' /\ ~FgClean'
    <3>1. /\ k.left \cup k.done \subseteq FgHas(k.was) /\ k.left \cap k.done = {}
          /\ \A g \in FgHas(k.was) :
               IF g \in k.done THEN bucket[k.to[g]] = g ELSE bucket[k.was[g]] = g
      BY <1>3, <2>5, FgMoves DEF FgRenaming
    <3>2. bucket[k.was[f]] = f
      BY <1>3, <3>1
    <3>3. failed'["store"] = 1 /\ ~FgClean'
      BY <1>3, <1>4, <1>6, <3>2, FgFails
    <3>4. FgShape(n)
      BY <1>3, <2>1, <2>5, <3>1, FgMoved DEF FgRenaming
    <3>5. FgBytes(n)'
      BY <1>6, <2>1, <3>1, <3>3 DEF FgBytes, FgStoring, FgRenaming
    <3> QED BY <3>3, <3>4, <3>5
  <2> QED BY <1>1, <1>2, <2>1, <2>2, <2>3, <2>4, <2>5, FgGoesOn
<1> QED BY <1>1, <1>2, <1>5, <1>6

LEMMA FgDropOld ==
  ASSUME FgInv, NEW c \in Editor, Files!DropOld(c)
  PROVE  FgInv'
<1>1. /\ job[c].pc = "drop_old" /\ met' = met /\ UNCHANGED <<state, path, summary>>
      /\ \/ Files!Put(job[c].was[job[c].at], Nothing) /\ UNCHANGED failed
            /\ job' = [job EXCEPT ![c].pc = "rename", ![c].at = Nothing,
                                  ![c].left = @ \ {job[c].at}, ![c].done = @ \cup {job[c].at}]
         \/ Files!Fail("store") /\ Files!Goto(c, "drop_copy") /\ UNCHANGED bucket
         \/ Files!Fail("answer") /\ Files!Goto(c, "drop_copy") /\ Files!Put(job[c].was[job[c].at], Nothing)
  BY Zenon DEF Files!DropOld
<1>2. PICK k : k = job[c]
  OBVIOUS
<1>3. /\ FgTypes /\ FgBounds(k) /\ job \in [Editor -> FgCall] /\ k \in FgCall /\ k.pc = "drop_old"
      /\ bucket \in [FgPath -> Item \cup {Nothing}]
  BY <1>1, <1>2, FgKnows
<1>4. PICK f \in k.left : f = k.at
  BY <1>3 DEF FgBounds
<1>5. f \in Item /\ k.left \subseteq Item /\ k.done \subseteq Item
  BY <1>3, <1>4 DEF FgCall
<1>6. Nothing \notin Item /\ Nothing \notin FgPath
  BY FgConstants
<1>7. CASE /\ Files!Put(k.was[f], Nothing) /\ UNCHANGED failed
           /\ job' = [job EXCEPT ![c].pc = "rename", ![c].at = Nothing,
                                 ![c].left = @ \ {f}, ![c].done = @ \cup {f}]
  <2>1. PICK n : n = [k EXCEPT !.pc = "rename", !.at = Nothing, !.left = k.left \ {f},
                               !.done = k.done \cup {f}]
    OBVIOUS
  <2>2. job' = [job EXCEPT ![c] = n]
    BY <1>2, <1>3, <1>7, <2>1
  <2>3. n \in FgCall /\ n.pc = "rename" /\ n.was = k.was /\ n.to = k.to
        /\ n.left = k.left \ {f} /\ n.done = k.done \cup {f}
    BY <1>3, <1>5, <2>1 DEF FgCall, FgPhase, FgWorking, FgRenaming
  <2>4. bucket' \in [FgPath -> Item \cup {Nothing}]
        /\ \A q \in FgPath : bucket'[q] = IF q = k.was[f] THEN Nothing ELSE bucket[q]
    BY <1>3, <1>7, FgPut
  <2>5. FgAlike(k, n)
    BY <1>3, <1>4, <2>3 DEF FgAlike, FgRenaming
  <2>6. failed' \in [{"store", "database", "answer"} -> 0..1] /\ FgRises
    BY <1>3, <1>7, FgSame
  <2>7. ASSUME FgShape(k), FgFound(k), FgBytes(k), FgRowed
        PROVE  /\ \A p \in FgPath : ~FgOwns(k, p) => bucket'[p] = bucket[p]
               /\ FgShape(n) /\ FgBytes(n)' /\ (FgNeat(k) => FgNeat(n)')
    <3>1. /\ k.left \cup k.done \subseteq FgHas(k.was) /\ k.left \cap k.done = {}
          /\ \A g \in FgHas(k.was) :
               /\ g \in Item /\ k.was[g] \in FgPath /\ k.to[g] \in FgPath
               /\ FgOwns(k, k.was[g]) /\ FgOwns(k, k.to[g])
               /\ IF g \in k.done THEN bucket[k.to[g]] = g ELSE bucket[k.was[g]] = g
          /\ \A g, h \in FgHas(k.was) :
               /\ k.to[g] # k.was[h]
               /\ g # h => k.was[g] # k.was[h] /\ k.to[g] # k.to[h]
      BY <1>3, <2>7, FgMoves DEF FgRenaming
    <3>2. f \in FgHas(k.was) /\ f \notin k.done /\ bucket[k.to[f]] = f
      BY <1>3, <1>4, <2>7, <3>1 DEF FgBytes
    <3>4. FgShape(n)
      BY <1>3, <1>4, <2>3, <2>7, <3>1, FgMoved DEF FgRenaming
    <3>5. \A g \in FgHas(k.was) : IF g \in n.done THEN bucket'[k.to[g]] = g ELSE bucket'[k.was[g]] = g
      BY <2>3, <2>4, <3>1, <3>2
    <3>6. FgBytes(n)'
      BY <2>3, <3>5 DEF FgBytes, FgStoring, FgRenaming
    <3>7. ASSUME FgNeat(k) PROVE FgNeat(n)'
      <4>1. /\ \A g \in k.done : bucket[k.was[g]] = Nothing
            /\ \A g \in k.left : g = f \/ bucket[k.to[g]] = Nothing
        BY <1>3, <1>4, <3>7 DEF FgNeat
      <4>2. \A g \in n.done : bucket'[k.was[g]] = Nothing
        BY <2>3, <2>4, <3>1, <3>2, <4>1
      <4>3. \A g \in n.left : bucket'[k.to[g]] = Nothing
        BY <2>3, <2>4, <3>1, <3>2, <4>1
      <4> QED BY <2>3, <4>2, <4>3 DEF FgNeat
    <3>8. \A p \in FgPath : ~FgOwns(k, p) => bucket'[p] = bucket[p]
      BY <2>4, <3>1, <3>2
    <3> QED BY <3>4, <3>6, <3>7, <3>8
  <2> QED BY <1>1, <1>2, <2>2, <2>3, <2>4, <2>5, <2>6, <2>7, FgGoesOn
<1>8. CASE /\ Files!Goto(c, "drop_copy")
           /\ \/ Files!Fail("store") /\ UNCHANGED bucket
              \/ Files!Fail("answer") /\ Files!Put(k.was[f], Nothing)
  <2>1. PICK n \in FgCall :
          /\ job' = [job EXCEPT ![c] = n] /\ n.pc = "drop_copy" /\ n.was = k.was /\ n.to = k.to
          /\ n.left = k.left /\ n.done = k.done /\ n.at = k.at
    BY <1>2, <1>3, <1>8, FgGoto DEF FgPhase, FgWorking, FgRenaming
  <2>2. FgAlike(k, n)
    BY <1>3, <1>4, <2>1 DEF FgAlike, FgRenaming
  <2>3. failed' \in [{"store", "database", "answer"} -> 0..1] /\ FgRises
    BY <1>3, <1>8, FgFails
  <2>4. bucket' \in [FgPath -> Item \cup {Nothing}]
    BY <1>3, <1>8, FgPut
  <2>5. ASSUME FgSane', FgShape(k), FgFound(k), FgBytes(k), FgRowed
        PROVE  /\ \A p \in FgPath : ~FgOwns(k, p) => bucket'[p] = bucket[p]
               /\ FgShape(n) /\ FgBytes(n)' /\ ~FgClean'
    <3>1. failed'["store"] = 1 /\ ~FgClean' /\ bucket' = bucket
      BY <1>3, <1>8, <2>5, FgFails
    <3>2. k.left \cap k.done = {}
      BY <1>3, <2>5, FgMoves DEF FgRenaming
    <3>3. FgShape(n)
      BY <1>3, <2>1, <2>5, <3>2, FgMoved DEF FgRenaming
    <3>4. FgBytes(n)'
      BY <1>3, <2>1, <2>5, <3>1 DEF FgBytes, FgStoring, FgRenaming
    <3> QED BY <3>1, <3>3, <3>4
  <2> QED BY <1>1, <1>2, <2>1, <2>2, <2>3, <2>4, <2>5, FgGoesOn
<1> QED BY <1>1, <1>2, <1>4, <1>7, <1>8

LEMMA FgDropCopy ==
  ASSUME FgInv, NEW c \in Editor, Files!DropCopy(c)
  PROVE  FgInv'
<1>1. /\ job[c].pc = "drop_copy" /\ met' = met /\ UNCHANGED <<state, path, summary>>
      /\ job' = [job EXCEPT ![c].pc = "undo", ![c].at = Nothing]
      /\ \/ Files!Put(job[c].to[job[c].at], Nothing) /\ UNCHANGED failed
         \/ Files!Fail("store") /\ UNCHANGED bucket
  BY Zenon DEF Files!DropCopy
<1>2. PICK k : k = job[c]
  OBVIOUS
<1>3. /\ FgTypes /\ FgBounds(k) /\ job \in [Editor -> FgCall] /\ k \in FgCall /\ k.pc = "drop_copy"
      /\ bucket \in [FgPath -> Item \cup {Nothing}]
  BY <1>1, <1>2, FgKnows
<1>4. PICK f \in k.left : f = k.at
  BY <1>3 DEF FgBounds
<1>5. PICK n : n = [k EXCEPT !.pc = "undo", !.at = Nothing]
  OBVIOUS
<1>6. job' = [job EXCEPT ![c] = n]
  BY <1>1, <1>2, <1>3, <1>5
<1>7. n \in FgCall /\ n.pc = "undo" /\ n.was = k.was /\ n.to = k.to
      /\ n.left = k.left /\ n.done = k.done
  BY <1>3, <1>5 DEF FgCall, FgPhase, FgWorking, FgRenaming
<1>8. FgAlike(k, n)
  BY <1>3, <1>7 DEF FgAlike, FgRenaming
<1>9. failed' \in [{"store", "database", "answer"} -> 0..1] /\ FgRises
  BY <1>1, <1>3, FgFails, FgSame
<1>10. bucket' \in [FgPath -> Item \cup {Nothing}]
  BY <1>1, <1>3, FgPut
<1>11. ASSUME FgSane', FgShape(k), FgFound(k), FgBytes(k), FgRowed
       PROVE  /\ \A p \in FgPath : ~FgOwns(k, p) => bucket'[p] = bucket[p]
              /\ FgShape(n) /\ FgBytes(n)' /\ ~FgClean'
  <2>1. failed["store"] = 1
    BY <1>3, <1>11 DEF FgBytes
  <2>2. Files!Put(k.to[f], Nothing) /\ UNCHANGED failed
    BY <1>1, <1>2, <1>3, <1>4, <2>1, FgFails
  <2>3. \A q \in FgPath : bucket'[q] = IF q = k.to[f] THEN Nothing ELSE bucket[q]
    BY <1>3, <2>2, FgPut
  <2>4. failed'["store"] = 1 /\ ~FgClean'
    BY <2>1, <2>2 DEF FgClean
  <2>5. /\ k.left \cup k.done \subseteq FgHas(k.was) /\ k.left \cap k.done = {}
        /\ \A g \in FgHas(k.was) :
             /\ g \in Item /\ k.was[g] \in FgPath /\ k.to[g] \in FgPath
             /\ FgOwns(k, k.was[g]) /\ FgOwns(k, k.to[g])
             /\ IF g \in k.done THEN bucket[k.to[g]] = g ELSE bucket[k.was[g]] = g
        /\ \A g, h \in FgHas(k.was) :
             /\ k.to[g] # k.was[h]
             /\ g # h => k.was[g] # k.was[h] /\ k.to[g] # k.to[h]
    BY <1>3, <1>11, FgMoves DEF FgRenaming
  <2>6. FgShape(n)
    BY <1>3, <1>7, <1>11, <2>5, FgMoved DEF FgRenaming
  <2>7. \A g \in FgHas(k.was) : IF g \in k.done THEN bucket'[k.to[g]] = g ELSE bucket'[k.was[g]] = g
    BY <1>4, <2>3, <2>5
  <2>8. FgBytes(n)'
    BY <1>7, <2>4, <2>7 DEF FgBytes, FgStoring, FgRenaming
  <2>9. \A p \in FgPath : ~FgOwns(k, p) => bucket'[p] = bucket[p]
    BY <1>4, <2>3, <2>5
  <2> QED BY <2>4, <2>6, <2>8, <2>9
<1> QED BY <1>1, <1>2, <1>6, <1>7, <1>8, <1>9, <1>10, <1>11, FgGoesOn

LEMMA FgUndo ==
  ASSUME FgInv, NEW c \in Editor, Files!Undo(c)
  PROVE  FgInv'
<1>1. PICK k : k = job[c]
  OBVIOUS
<1>2. /\ k.pc = "undo" /\ met' = met /\ UNCHANGED <<state, path, summary>>
      /\ \/ /\ k.done = {} /\ UNCHANGED <<bucket, failed>>
            /\ job' = [job EXCEPT ![c] = Files!Idle]
         \/ \E f \in k.done :
              /\ job' = [job EXCEPT ![c].done = @ \ {f}]
              /\ \/ /\ bucket[k.to[f]] # Nothing /\ UNCHANGED failed
                    /\ bucket' = [bucket EXCEPT ![k.was[f]] = bucket[k.to[f]], ![k.to[f]] = Nothing]
                 \/ bucket[k.to[f]] = Nothing /\ UNCHANGED <<bucket, failed>>
                 \/ Files!Fail("store") /\ UNCHANGED bucket
  BY <1>1, Zenon DEF Files!Undo, Files!Answer
<1>3. /\ FgTypes /\ FgBounds(k) /\ job \in [Editor -> FgCall] /\ k \in FgCall
      /\ bucket \in [FgPath -> Item \cup {Nothing}]
      /\ \A f \in Item : k.was[f] \in FgPaths /\ k.to[f] \in FgPaths
  BY <1>1, FgKnows
<1>4. Nothing \notin Item /\ Nothing \notin FgPath
  BY FgConstants
<1>5. ASSUME FgShape(k), FgFound(k), FgBytes(k), FgRowed
      PROVE  /\ k.left \cup k.done \subseteq FgHas(k.was) /\ k.left \cap k.done = {}
             /\ \A g \in FgHas(k.was) :
                  /\ g \in Item /\ k.was[g] \in FgPath /\ k.to[g] \in FgPath
                  /\ FgOwns(k, k.was[g]) /\ FgOwns(k, k.to[g])
                  /\ IF g \in k.done THEN bucket[k.to[g]] = g ELSE bucket[k.was[g]] = g
             /\ \A g, h \in FgHas(k.was) :
                  /\ k.to[g] # k.was[h]
                  /\ g # h => k.was[g] # k.was[h] /\ k.to[g] # k.to[h]
             /\ failed["store"] = 1
  BY <1>2, <1>3, <1>5, FgMoves DEF FgRenaming, FgBytes
<1>6. CASE k.done = {} /\ UNCHANGED <<bucket, failed>> /\ job' = [job EXCEPT ![c] = Files!Idle]
  <2>1. failed' \in [{"store", "database", "answer"} -> 0..1] /\ FgRises
    BY <1>3, <1>6, FgSame
  <2>2. bucket' \in [FgPath -> Item \cup {Nothing}] /\ \A p \in FgPath : bucket'[p] = bucket[p]
    BY <1>3, <1>6
  <2>3. ASSUME FgShape(k), FgFound(k), FgBytes(k), FgRowed
        PROVE  /\ \A f \in FgHas(path) : FgOwns(k, path[f]) => bucket'[path[f]] = f
               /\ ~FgClean'
    <3>1. ASSUME NEW f \in FgHas(path), FgOwns(k, path[f]) PROVE bucket'[path[f]] = f
      <4>1. f \in Item /\ path[f] # Nothing
        BY DEF FgHas
      <4>2. f \in FgHas(k.was)
        BY <1>2, <1>3, <2>3, <3>1, <4>1, FgOwnFile DEF FgRenaming
      <4>3. path[f] = k.was[f]
        BY <1>2, <2>3, <4>2 DEF FgFound, FgRenaming
      <4> QED BY <1>5, <1>6, <2>2, <2>3, <4>2, <4>3
    <3>2. ~FgClean'
      BY <1>5, <1>6, <2>3 DEF FgClean
    <3> QED BY <3>1, <3>2
  <2> QED BY <1>1, <1>2, <1>6, <2>1, <2>2, <2>3, FgStops DEF FgWorking, FgRenaming
<1>7. ASSUME NEW f \in k.done, job' = [job EXCEPT ![c].done = @ \ {f}],
             \/ /\ bucket[k.to[f]] # Nothing /\ UNCHANGED failed
                /\ bucket' = [bucket EXCEPT ![k.was[f]] = bucket[k.to[f]], ![k.to[f]] = Nothing]
             \/ bucket[k.to[f]] = Nothing /\ UNCHANGED <<bucket, failed>>
             \/ Files!Fail("store") /\ UNCHANGED bucket
      PROVE  FgInv'
  <2>1. PICK n : n = [k EXCEPT !.done = k.done \ {f}]
    OBVIOUS
  <2>2. job' = [job EXCEPT ![c] = n]
    BY <1>1, <1>3, <1>7, <2>1
  <2>3. n \in FgCall /\ n.pc = "undo" /\ n.was = k.was /\ n.to = k.to
        /\ n.left = k.left /\ n.done = k.done \ {f}
    BY <1>2, <1>3, <2>1 DEF FgCall
  <2>4. FgAlike(k, n)
    BY <1>2, <2>3 DEF FgAlike, FgRenaming
  <2>5. failed' \in [{"store", "database", "answer"} -> 0..1] /\ FgRises
    BY <1>3, <1>7, FgFails, FgSame
  <2>6. f \in Item /\ k.was[f] \in FgPath /\ k.to[f] \in FgPath
    BY <1>2, <1>3 DEF FgBounds, FgHas, FgRenaming, FgPaths
  <2>7. bucket[k.to[f]] \in Item \cup {Nothing}
    BY <1>3, <2>6
  <2>8. bucket' \in [FgPath -> Item \cup {Nothing}]
    BY <1>3, <1>7, <2>6, <2>7
  <2>9. ASSUME FgShape(k), FgFound(k), FgBytes(k), FgRowed
        PROVE  /\ \A p \in FgPath : ~FgOwns(k, p) => bucket'[p] = bucket[p]
               /\ FgShape(n) /\ FgBytes(n)' /\ ~FgClean'
    <3>1. bucket[k.to[f]] = f
      BY <1>5, <2>9
    <3>2. UNCHANGED failed /\ bucket' = [bucket EXCEPT ![k.was[f]] = f, ![k.to[f]] = Nothing]
      BY <1>3, <1>4, <1>5, <1>7, <2>6, <2>9, <3>1, FgFails
    <3>3. failed'["store"] = 1 /\ ~FgClean'
      BY <1>5, <2>9, <3>2 DEF FgClean
    <3>4. \A q \in FgPath : bucket'[q] = IF q = k.to[f] THEN Nothing
                                         ELSE IF q = k.was[f] THEN f ELSE bucket[q]
      BY <1>3, <2>6, <3>2
    <3>5. FgShape(n)
      BY <1>2, <1>5, <2>3, <2>9, FgMoved DEF FgRenaming
    <3>6. \A g \in FgHas(k.was) : IF g \in n.done THEN bucket'[k.to[g]] = g ELSE bucket'[k.was[g]] = g
      BY <1>5, <2>3, <2>9, <3>4
    <3>7. FgBytes(n)'
      BY <2>3, <3>3, <3>6 DEF FgBytes, FgStoring, FgRenaming
    <3>8. \A p \in FgPath : ~FgOwns(k, p) => bucket'[p] = bucket[p]
      BY <1>5, <2>9, <3>4
    <3> QED BY <3>3, <3>5, <3>7, <3>8
  <2> QED BY <1>1, <1>2, <2>2, <2>3, <2>4, <2>5, <2>8, <2>9, FgGoesOn
<1> QED BY <1>2, <1>6, <1>7

LEMMA FgDeleteObjects ==
  ASSUME FgInv, NEW c \in Editor, Files!DeleteObjects(c)
  PROVE  FgInv'
<1>1. PICK k : k = job[c]
  OBVIOUS
<1>2. /\ k.pc = "remove_objects" /\ met' = met /\ UNCHANGED <<state, path, summary>>
      /\ \/ /\ job' = [job EXCEPT ![c] = Files!Idle] /\ UNCHANGED bucket
            /\ \/ k.left = {} /\ UNCHANGED failed
               \/ Files!Fail("store")
         \/ \E f \in k.left :
              /\ Files!Put(k.was[f], Nothing) /\ job' = [job EXCEPT ![c].left = @ \ {f}]
              /\ UNCHANGED failed
  BY <1>1, Zenon DEF Files!DeleteObjects, Files!Answer
<1>3. /\ FgTypes /\ job \in [Editor -> FgCall] /\ k \in FgCall
      /\ bucket \in [FgPath -> Item \cup {Nothing}]
  BY <1>1, FgKnows
<1>4. Nothing \notin Item /\ Nothing \notin FgPath
  BY FgConstants
<1>5. \A p \in FgPath : FgOwns(k, p)
  BY <1>2 DEF FgOwns, FgRemoving
<1>6. CASE /\ job' = [job EXCEPT ![c] = Files!Idle] /\ UNCHANGED bucket
           /\ \/ k.left = {} /\ UNCHANGED failed
              \/ Files!Fail("store")
  <2>1. /\ failed' \in [{"store", "database", "answer"} -> 0..1] /\ FgRises
        /\ FgClean' => k.left = {}
    BY <1>3, <1>6, FgFails, FgSame
  <2>2. ASSUME FgShape(k), FgFound(k), FgBytes(k), FgRowed
        PROVE  /\ \A f \in FgHas(path) : FgOwns(k, path[f]) => bucket'[path[f]] = f
               /\ FgClean' /\ FgNeat(k) => \A p \in FgPath :
                    FgOwns(k, p) /\ bucket'[p] # Nothing => path[bucket'[p]] = p
    <3>1. FgHas(path) = {}
      BY <1>2, <2>2 DEF FgFound, FgRowed
    <3>2. FgClean' /\ FgNeat(k) => \A p \in FgPath : bucket'[p] = Nothing
      BY <1>2, <1>6, <2>1 DEF FgNeat
    <3> QED BY <3>1, <3>2
  <2> QED BY <1>1, <1>2, <1>3, <1>6, <2>1, <2>2, FgStops DEF FgWorking, FgRemoving
<1>7. ASSUME NEW f \in k.left, Files!Put(k.was[f], Nothing), job' = [job EXCEPT ![c].left = @ \ {f}],
             UNCHANGED failed
      PROVE  FgInv'
  <2>1. PICK n : n = [k EXCEPT !.left = k.left \ {f}]
    OBVIOUS
  <2>2. job' = [job EXCEPT ![c] = n]
    BY <1>1, <1>3, <1>7, <2>1
  <2>3. n \in FgCall /\ n.pc = "remove_objects" /\ n.was = k.was /\ n.to = k.to
        /\ n.left = k.left \ {f} /\ n.done = k.done
    BY <1>2, <1>3, <2>1 DEF FgCall
  <2>4. FgAlike(k, n)
    BY <1>2, <2>3 DEF FgAlike
  <2>5. failed' \in [{"store", "database", "answer"} -> 0..1] /\ FgRises
    BY <1>3, <1>7, FgSame
  <2>6. bucket' \in [FgPath -> Item \cup {Nothing}]
        /\ \A q \in FgPath : bucket'[q] = IF q = k.was[f] THEN Nothing ELSE bucket[q]
    BY <1>3, <1>7, FgPut
  <2>7. FgShape(n) /\ FgBytes(n)'
    BY <2>3 DEF FgShape, FgBytes, FgRenaming, FgDropping, FgStoring
  <2>8. ASSUME FgNeat(k) PROVE FgNeat(n)'
    <3>1. \A p \in FgPath : bucket[p] # Nothing => bucket[p] \in k.left /\ k.was[bucket[p]] = p
      BY <1>2, <2>8 DEF FgNeat
    <3>2. \A p \in FgPath : bucket'[p] # Nothing => bucket'[p] \in n.left /\ n.was[bucket'[p]] = p
      BY <2>3, <2>6, <3>1
    <3> QED BY <2>3, <3>2 DEF FgNeat
  <2> QED BY <1>1, <1>2, <1>5, <2>2, <2>3, <2>4, <2>5, <2>6, <2>7, <2>8, FgGoesOn
<1> QED BY <1>2, <1>6, <1>7

\* The file of a deletion.
LEMMA FgOne ==
  ASSUME NEW k \in FgCall, k.pc \in FgDropping, FgShape(k), FgFound(k), NEW f \in k.left
  PROVE  /\ f \in Item /\ k.was[f] \in FgPath /\ FgOwns(k, k.was[f]) /\ path[f] = k.was[f]
         /\ k.left = {f} /\ \A p \in FgPath : FgOwns(k, p) => p = k.was[f]
<1>1. FgHas(k.to) = {} /\ FgHas(k.was) = k.left /\ \A g, h \in k.left : g = h
  BY DEF FgShape
<1>2. f \in Item /\ k.was[f] # Nothing /\ k.pc \in FgWorking
  BY <1>1 DEF FgHas, FgWorking
<1>3. k.was[f] \in FgPath /\ FgOwns(k, k.was[f])
  BY <1>2, FgOwnsPaths DEF FgPaths
<1>4. path[f] = k.was[f]
  BY <1>1 DEF FgFound
<1>5. ASSUME NEW p \in FgPath, FgOwns(k, p) PROVE p = k.was[f]
  <2>1. PICK g \in Item : p = k.was[g] \/ p = k.to[g]
    BY <1>5 DEF FgOwns, FgRemoving, FgDropping
  <2>2. p # Nothing
    BY FgConstants
  <2>3. g \in k.left
    BY <1>1, <2>1, <2>2 DEF FgHas
  <2>4. k.to[g] = Nothing
    BY <1>1 DEF FgHas
  <2> QED BY <1>1, <2>1, <2>2, <2>3, <2>4
<1> QED BY <1>1, <1>2, <1>3, <1>4, <1>5

LEMMA FgDeleteObject ==
  ASSUME FgInv, NEW c \in Editor, Files!DeleteObject(c)
  PROVE  FgInv'
<1>1. PICK k : k = job[c]
  OBVIOUS
<1>2. PICK f \in k.left :
        /\ k.pc = "remove_file" /\ met' = met /\ UNCHANGED <<state, path, summary>>
        /\ \/ Files!Put(k.was[f], Nothing) /\ Files!Goto(c, "delete_row") /\ UNCHANGED failed
           \/ Files!Fail("store") /\ job' = [job EXCEPT ![c] = Files!Idle] /\ UNCHANGED bucket
  BY <1>1, Zenon DEF Files!DeleteObject, Files!Answer
<1>3. /\ FgTypes /\ job \in [Editor -> FgCall] /\ k \in FgCall
      /\ bucket \in [FgPath -> Item \cup {Nothing}]
  BY <1>1, FgKnows
<1>4. ASSUME FgShape(k), FgFound(k)
      PROVE  /\ f \in Item /\ k.was[f] \in FgPath /\ FgOwns(k, k.was[f]) /\ path[f] = k.was[f]
             /\ k.left = {f} /\ \A p \in FgPath : FgOwns(k, p) => p = k.was[f]
  BY <1>2, <1>3, <1>4, FgOne DEF FgDropping
<1>5. CASE Files!Put(k.was[f], Nothing) /\ Files!Goto(c, "delete_row") /\ UNCHANGED failed
  <2>1. PICK n \in FgCall :
          /\ job' = [job EXCEPT ![c] = n] /\ n.pc = "delete_row" /\ n.was = k.was /\ n.to = k.to
          /\ n.left = k.left /\ n.done = k.done
    BY <1>1, <1>3, <1>5, FgGoto DEF FgPhase, FgWorking, FgDropping
  <2>2. FgAlike(k, n)
    BY <1>2, <2>1 DEF FgAlike, FgDropping
  <2>3. failed' \in [{"store", "database", "answer"} -> 0..1] /\ FgRises
    BY <1>3, <1>5, FgSame
  <2>4. bucket' \in [FgPath -> Item \cup {Nothing}]
        /\ \A q \in FgPath : bucket'[q] = IF q = k.was[f] THEN Nothing ELSE bucket[q]
    BY <1>3, <1>5, FgPut
  <2>5. ASSUME FgShape(k), FgFound(k)
        PROVE  /\ \A p \in FgPath : ~FgOwns(k, p) => bucket'[p] = bucket[p]
               /\ FgShape(n) /\ FgBytes(n)' /\ FgNeat(n)'
    <3>1. FgShape(n)
      BY <1>2, <2>1, <2>5 DEF FgShape, FgRenaming, FgDropping, FgStoring
    <3>2. FgBytes(n)'
      BY <2>1 DEF FgBytes, FgRenaming, FgStoring
    <3>3. FgNeat(n)'
      BY <1>4, <2>1, <2>4, <2>5 DEF FgNeat
    <3> QED BY <1>4, <2>4, <2>5, <3>1, <3>2, <3>3
  <2> QED BY <1>1, <1>2, <2>1, <2>2, <2>3, <2>4, <2>5, FgGoesOn
<1>6. CASE Files!Fail("store") /\ job' = [job EXCEPT ![c] = Files!Idle] /\ UNCHANGED bucket
  <2>1. /\ failed' \in [{"store", "database", "answer"} -> 0..1] /\ FgRises /\ ~FgClean'
    BY <1>3, <1>6, FgFails
  <2>2. ASSUME FgShape(k), FgFound(k), FgBytes(k), FgRowed, NEW g \in FgHas(path), FgOwns(k, path[g])
        PROVE  bucket'[path[g]] = g
    <3>1. g \in Item /\ path[g] # Nothing
      BY DEF FgHas
    <3>2. g \in FgHas(k.was) /\ FgHas(k.was) = k.left
      BY <1>2, <1>3, <2>2, <3>1, FgOwnFile DEF FgDropping, FgShape
    <3>3. bucket[k.was[g]] = g /\ path[g] = k.was[g]
      BY <1>2, <2>2, <3>2 DEF FgBytes, FgFound, FgDropping
    <3> QED BY <1>6, <3>3
  <2> QED BY <1>1, <1>2, <1>3, <1>6, <2>1, <2>2, FgStops DEF FgWorking, FgDropping
<1> QED BY <1>2, <1>5, <1>6

LEMMA FgInsertGroup ==
  ASSUME FgInv, NEW c \in Editor, Files!InsertGroup(c)
  PROVE  FgInv'
<1>1. PICK k : k = job[c]
  OBVIOUS
<1>2. /\ k.pc = "store" /\ k.left = {} /\ met' = met /\ bucket' = bucket
      /\ \/ /\ state' = "there" /\ path' = k.to /\ summary' = path'
            /\ job' = [job EXCEPT ![c] = Files!Idle] /\ UNCHANGED failed
         \/ /\ Files!Fail("database") /\ UNCHANGED <<state, path, summary>>
            /\ \/ job' = [job EXCEPT ![c] = Files!Idle]
               \/ Files!Goto(c, "unstore")
  BY <1>1, Zenon DEF Files!InsertGroup, Files!Answer
<1>3. /\ FgTypes /\ job \in [Editor -> FgCall] /\ k \in FgCall
      /\ bucket \in [FgPath -> Item \cup {Nothing}]
      /\ \A f \in Item : k.to[f] \in FgPaths /\ path[f] \in FgPaths
      /\ \A f \in Item : FgOwns(k, k.to[f])
  BY <1>1, <1>2, FgKnows DEF FgWorking, FgStoring
<1>4. CASE /\ state' = "there" /\ path' = k.to /\ summary' = path'
           /\ job' = [job EXCEPT ![c] = Files!Idle] /\ UNCHANGED failed
  <2>1. PICK n \in FgCall : n = Files!Idle /\ n.pc = "idle"
    BY FgNames
  <2>2. failed' \in [{"store", "database", "answer"} -> 0..1] /\ FgRises
    BY <1>3, <1>4, FgSame
  <2>3. FgData'
    BY <1>2, <1>3, <1>4, <2>2 DEF FgData, FgCall
  <2>4. ASSUME FgCore PROVE FgLocal(k, n) /\ FgOwn(k, n)
    <3>1. /\ FgHas(path) = {} /\ FgOneToOne(k.to) /\ k.done = FgHas(k.to)
          /\ \A f \in k.done : bucket[k.to[f]] = f
          /\ FgClean => FgNeat(k)
      <4>1. FgShape(k) /\ FgFound(k) /\ FgBytes(k) /\ FgRowed /\ (FgClean => FgNeat(k))
        BY <1>1, <2>4 DEF FgCore
      <4>2. FgHas(path) = {} /\ FgOneToOne(k.to) /\ k.done = FgHas(k.to)
        BY <1>2, <4>1 DEF FgRowed, FgShape, FgFound, FgStoring
      <4>3. \A f \in k.done : bucket[k.to[f]] = f
        BY <1>2, <4>1 DEF FgBytes, FgStoring
      <4> QED BY <4>1, <4>2, <4>3
    <3>2. FgLocal(k, n)
      BY <1>2, <1>3, <1>4, <2>1, <3>1 DEF FgLocal, FgHas, FgWorking, FgRenaming, FgRemoving, FgDropping, FgStoring
    <3>3. FgShape(n) /\ FgFound(n)' /\ FgBytes(n)' /\ FgNeat(n)'
      BY <2>1 DEF FgShape, FgFound, FgBytes, FgNeat, FgRenaming, FgRemoving, FgDropping, FgStoring
    <3>4. FgRowed'
      BY <1>4, <3>1 DEF FgRowed, FgOneToOne, FgHas
    <3>5. \A f \in Item : path'[f] # Nothing => bucket'[path'[f]] = f
      BY <1>2, <1>4, <3>1 DEF FgHas
    <3>6. FgClean' => \A p \in FgPath : bucket'[p] # Nothing => path'[bucket'[p]] = p
      <4>1. FgClean' => FgNeat(k)
        BY <1>4, <3>1 DEF FgClean
      <4> QED BY <1>2, <1>4, <4>1 DEF FgNeat
    <3> QED BY <3>2, <3>3, <3>4, <3>5, <3>6 DEF FgOwn
  <2>5. FgBounds(n)
    BY <2>1 DEF FgBounds, FgRenaming
  <2> QED BY <1>1, <1>2, <1>4, <2>1, <2>2, <2>3, <2>4, <2>5, FgStep
<1>5. CASE /\ Files!Fail("database") /\ UNCHANGED <<state, path, summary>>
           /\ \/ job' = [job EXCEPT ![c] = Files!Idle]
              \/ Files!Goto(c, "unstore")
  <2>1. PICK n \in FgCall : job' = [job EXCEPT ![c] = n] /\ n.pc \in {"idle", "unstore"}
    <3>1. CASE job' = [job EXCEPT ![c] = Files!Idle]
      BY <3>1, FgNames
    <3>2. CASE Files!Goto(c, "unstore")
      <4>1. "unstore" \in FgPhase
        BY DEF FgPhase, FgWorking, FgStoring
      <4>2. PICK n \in FgCall : job' = [job EXCEPT ![c] = n] /\ n.pc = "unstore"
        BY <1>3, <3>2, <4>1, FgGoto
      <4> QED BY <4>2
    <3> QED BY <1>5, <3>1, <3>2
  <2>2. /\ failed' \in [{"store", "database", "answer"} -> 0..1] /\ FgRises
        /\ ~FgClean' /\ ~FgSane'
    BY <1>3, <1>5, FgFails
  <2>3. FgData'
    BY <1>2, <1>3, <1>5, <2>2 DEF FgData, FgTypes
  <2>4. FgBounds(n)
    BY <2>1 DEF FgBounds, FgRenaming
  <2> QED BY <1>1, <1>2, <2>1, <2>2, <2>3, <2>4, FgInsane
<1> QED BY <1>2, <1>4, <1>5

LEMMA FgUpdatePaths ==
  ASSUME FgInv, NEW c \in Editor, Files!UpdatePaths(c)
  PROVE  FgInv'
<1>1. PICK k : k = job[c]
  OBVIOUS
<1> DEFINE new == [f \in Item |-> IF f \in k.done THEN k.to[f] ELSE path[f]]
           free == \A f \in k.done, g \in Files!There : f # g => new[f] # new[g]
           error == \/ Files!Goto(c, "undo")
                    \/ job' = [job EXCEPT ![c] = Files!Idle]
<1>a. /\ k.pc = "rename" /\ k.left = {} /\ met' = met /\ UNCHANGED <<state, bucket, summary>>
      /\ \/ /\ k.done \subseteq FgHas(path) /\ free /\ path' = new
            /\ Files!Goto(c, "list") /\ UNCHANGED failed
         \/ ~(k.done \subseteq FgHas(path)) /\ Files!Goto(c, "undo") /\ UNCHANGED <<path, failed>>
         \/ /\ k.done \subseteq FgHas(path) /\ ~free /\ UNCHANGED <<path, failed>>
            /\ error
         \/ Files!Fail("database") /\ error /\ UNCHANGED path
         \/ k.done \subseteq FgHas(path) /\ free /\ path' = new /\ Files!Fail("answer") /\ Files!Goto(c, "undo")
  <2> DEFINE new0 == [f \in Item |-> IF f \in job[c].done THEN job[c].to[f] ELSE path[f]]
             free0 == \A f \in job[c].done, g \in Files!There : f # g => new0[f] # new0[g]
             error0 == \/ Files!Goto(c, "undo")
                       \/ Files!Answer(c) /\ \E f \in job[c].done : job[c].was[f][1] # job[c].to[f][1]
             there0 == job[c].done \subseteq Files!There
  <2>1. /\ job[c].pc = "rename" /\ job[c].left = {}
        /\ \/ /\ there0 /\ free0 /\ path' = new0
              /\ Files!Goto(c, "list") /\ UNCHANGED failed
           \/ ~there0 /\ Files!Goto(c, "undo") /\ UNCHANGED <<path, failed>>
           \/ there0 /\ ~free0 /\ error0 /\ UNCHANGED <<path, failed>>
           \/ Files!Fail("database") /\ error0 /\ UNCHANGED path
           \/ there0 /\ free0 /\ path' = new0 /\ Files!Fail("answer") /\ Files!Goto(c, "undo")
        /\ UNCHANGED <<state, bucket, summary, met>>
    BY Zenon DEF Files!UpdatePaths
  <2>2. new0 = new /\ (free0 <=> free)
    <3>1. new0 = new
      BY <1>1
    <3> HIDE DEF new0, new
    <3> QED BY <1>1, <3>1
  <2>3. error0 => error
    BY Zenon DEF Files!Answer
  <2>4. there0 <=> k.done \subseteq FgHas(path)
    BY <1>1, FgNames
  <2> HIDE DEF new0, free0, error0, there0, new, free, error
  <2> QED BY <1>1, <2>1, <2>2, <2>3, <2>4, Zenon
<1> HIDE DEF new, free, error
<1>2. /\ k.pc = "rename" /\ k.left = {} /\ met' = met /\ UNCHANGED <<state, bucket, summary>>
      /\ \/ /\ k.done \subseteq FgHas(path) /\ free /\ path' = new
            /\ \/ Files!Goto(c, "list") /\ UNCHANGED failed
               \/ Files!Fail("answer") /\ Files!Goto(c, "undo")
         \/ /\ error /\ UNCHANGED <<path, failed>>
            /\ ~(k.done \subseteq FgHas(path)) \/ ~free
         \/ error /\ UNCHANGED path /\ Files!Fail("database")
  <2>1. Files!Goto(c, "undo") => error
    BY DEF error
  <2> QED BY <1>a, <2>1
<1> USE DEF new, free, error
<1>3. /\ FgTypes /\ FgBounds(k) /\ job \in [Editor -> FgCall] /\ k \in FgCall
      /\ bucket \in [FgPath -> Item \cup {Nothing}]
      /\ \A f \in Item : k.to[f] \in FgPaths /\ path[f] \in FgPaths
  BY <1>1, FgKnows
<1>4. /\ new \in FgRows
      /\ \A f \in Item : new[f] = IF f \in k.done THEN k.to[f] ELSE path[f]
  BY <1>3 DEF FgRows
<1> HIDE DEF new
<1>5. ASSUME FgCore
      PROVE  /\ k.done = FgHas(k.was) /\ FgHas(k.was) = FgHas(k.to) /\ FgHas(k.was) # {}
             /\ FgOneToOne(k.to)
             /\ \A f \in k.done : /\ f \in Item /\ f \in FgHas(path) /\ path[f] = k.was[f]
                                  /\ k.to[f] # Nothing /\ bucket[k.to[f]] = f
                                  /\ FgOwns(k, k.was[f]) /\ FgOwns(k, k.to[f])
             /\ \A f \in k.done, g \in Item : path[g] # k.to[f]
             /\ FgShape(k) /\ FgFound(k) /\ FgRowed
             /\ FgClean => \A f \in k.done : bucket[k.was[f]] = Nothing
  <2>1. FgShape(k) /\ FgFound(k) /\ FgBytes(k) /\ FgRowed /\ (FgClean => FgNeat(k))
    BY <1>1, <1>5 DEF FgCore
  <2>2. k.done = FgHas(k.was) /\ FgHas(k.was) = FgHas(k.to) /\ FgHas(k.was) # {} /\ FgOneToOne(k.to)
    BY <1>2, <2>1 DEF FgShape, FgRenaming
  <2>3. ASSUME NEW f \in k.done
        PROVE  /\ f \in Item /\ f \in FgHas(path) /\ path[f] = k.was[f]
               /\ k.to[f] # Nothing /\ bucket[k.to[f]] = f
               /\ FgOwns(k, k.was[f]) /\ FgOwns(k, k.to[f])
    <3>1. f \in Item /\ k.was[f] # Nothing /\ k.to[f] # Nothing
      BY <2>2 DEF FgHas
    <3>2. path[f] = k.was[f] /\ bucket[k.to[f]] = f
      BY <1>2, <2>1, <2>2 DEF FgFound, FgBytes, FgRenaming
    <3>3. FgOwns(k, k.was[f]) /\ FgOwns(k, k.to[f])
      BY <1>2, <3>1 DEF FgOwns, FgWorking, FgRenaming
    <3> QED BY <3>1, <3>2, <3>3 DEF FgHas
  <2>4. \A f \in k.done, g \in Item : path[g] # k.to[f]
    BY <1>2, <2>1, <2>2 DEF FgFound, FgRenaming
  <2>5. FgClean => \A f \in k.done : bucket[k.was[f]] = Nothing
    BY <1>2, <2>1 DEF FgNeat
  <2> QED BY <2>1, <2>2, <2>3, <2>4, <2>5
<1>6. CASE /\ k.done \subseteq FgHas(path) /\ free /\ path' = new
           /\ Files!Goto(c, "list") /\ UNCHANGED failed
  <2>1. PICK n \in FgCall : job' = [job EXCEPT ![c] = n] /\ n.pc = "list"
    BY <1>3, <1>6, FgGoto DEF FgPhase
  <2>2. failed' \in [{"store", "database", "answer"} -> 0..1] /\ FgRises
    BY <1>3, <1>6, FgSame
  <2>3. FgData'
    BY <1>2, <1>3, <1>4, <1>6, <2>2 DEF FgData, FgTypes
  <2>4. ASSUME FgCore PROVE FgLocal(k, n) /\ FgOwn(k, n)
    <3>1. FgLocal(k, n)
      BY <1>2, <1>4, <1>5, <1>6, <2>1, <2>4 DEF FgLocal, FgWorking, FgRenaming, FgRemoving, FgDropping, FgStoring
    <3>2. FgShape(n) /\ FgFound(n)' /\ FgBytes(n)' /\ FgNeat(n)'
      BY <2>1 DEF FgShape, FgFound, FgBytes, FgNeat, FgRenaming, FgRemoving, FgDropping, FgStoring
    <3>3. FgOneToOne(path')
      <4> SUFFICES ASSUME NEW f \in Item, NEW g \in Item, path'[f] # Nothing, f # g
                   PROVE  path'[f] # path'[g]
        BY DEF FgOneToOne, FgHas
      <4>1. CASE f \in k.done \/ g \in k.done
        <5>1. f \in k.done /\ g \in k.done => k.to[f] # k.to[g]
          BY <1>5, <2>4 DEF FgOneToOne
        <5> QED BY <1>4, <1>5, <1>6, <2>4, <4>1, <5>1, FgNames
      <4>2. CASE f \notin k.done /\ g \notin k.done
        BY <1>4, <1>5, <1>6, <2>4, <4>2 DEF FgRowed, FgOneToOne, FgHas
      <4> QED BY <4>1, <4>2
    <3>4. FgRowed'
      <4>1. state' = "there"
        BY <1>2, <1>5, <2>4 DEF FgRowed
      <4> QED BY <3>3, <4>1 DEF FgRowed, FgOneToOne, FgHas
    <3>5. ASSUME NEW f \in Item, path'[f] # Nothing, FgOwns(k, path'[f]) PROVE bucket'[path'[f]] = f
      <4>1. CASE f \in k.done
        BY <1>2, <1>4, <1>5, <1>6, <2>4, <4>1
      <4>2. CASE f \notin k.done
        <5>1. path'[f] = path[f]
          BY <1>4, <1>6, <4>2
        <5>2. f \in FgHas(k.was)
          BY <1>2, <1>3, <1>5, <2>4, <3>5, <5>1, FgOwnFile DEF FgRenaming
        <5> QED BY <1>5, <2>4, <4>2, <5>2
      <4> QED BY <4>1, <4>2
    <3>6. ASSUME FgClean', NEW p \in FgPath, FgOwns(k, p), bucket'[p] # Nothing
          PROVE  path'[bucket'[p]] = p
      <4>1. PICK g \in Item : p = k.was[g] \/ p = k.to[g]
        BY <1>2, <3>6 DEF FgOwns, FgRemoving
      <4>2. g \in k.done
        BY <1>5, <2>4, <4>1, FgConstants DEF FgHas
      <4>3. FgClean
        BY <1>6, <3>6 DEF FgClean
      <4>4. p = k.to[g]
        BY <1>2, <1>5, <2>4, <3>6, <4>1, <4>2, <4>3
      <4> QED BY <1>2, <1>4, <1>5, <1>6, <2>4, <4>2, <4>4
    <3> QED BY <3>1, <3>2, <3>4, <3>5, <3>6 DEF FgOwn
  <2>5. FgBounds(n)
    BY <2>1 DEF FgBounds, FgRenaming
  <2> QED BY <1>1, <1>2, <2>1, <2>2, <2>3, <2>4, <2>5, FgStep
<1>7. ASSUME error
      PROVE  \E n \in FgCall : /\ job' = [job EXCEPT ![c] = n] /\ n.pc \in {"idle", "undo"}
                               /\ FgBounds(n)
  <2>1. CASE Files!Goto(c, "undo")
    <3>1. PICK n \in FgCall :
            /\ job' = [job EXCEPT ![c] = n] /\ n.pc = "undo" /\ n.was = k.was /\ n.to = k.to
            /\ n.left = k.left /\ n.done = k.done
      BY <1>1, <1>3, <2>1, FgGoto DEF FgPhase, FgWorking, FgRenaming
    <3>2. FgBounds(n)
      BY <1>2, <1>3, <3>1 DEF FgBounds, FgRenaming
    <3> QED BY <3>1, <3>2
  <2>2. CASE job' = [job EXCEPT ![c] = Files!Idle]
    <3>1. PICK n \in FgCall : n = Files!Idle /\ n.pc = "idle"
      BY FgNames
    <3>2. FgBounds(n)
      BY <3>1 DEF FgBounds, FgRenaming
    <3> QED BY <2>2, <3>1, <3>2
  <2> QED BY <1>7, <2>1, <2>2
<1>8. CASE /\ error /\ UNCHANGED <<path, failed>>
           /\ ~(k.done \subseteq FgHas(path)) \/ ~free
  <2>1. PICK n \in FgCall : /\ job' = [job EXCEPT ![c] = n] /\ n.pc \in {"idle", "undo"} /\ FgBounds(n)
    BY <1>7, <1>8
  <2>2. failed' \in [{"store", "database", "answer"} -> 0..1] /\ FgRises
    BY <1>3, <1>8, FgSame
  <2>3. FgData'
    BY <1>2, <1>3, <1>8, <2>2 DEF FgData, FgTypes
  <2>4. ASSUME FgCore PROVE FALSE
    <3>1. k.done \subseteq FgHas(path)
      BY <1>5, <2>4
    <3>2. PICK f \in k.done, g \in FgHas(path) : f # g /\ new[f] = new[g]
      BY <1>8, <3>1, FgNames
    <3>3. f \in Item /\ g \in Item
      BY <1>5, <2>4 DEF FgHas
    <3>4. CASE g \in k.done
      BY <1>4, <1>5, <2>4, <3>2, <3>3, <3>4 DEF FgOneToOne
    <3>5. CASE g \notin k.done
      BY <1>4, <1>5, <2>4, <3>2, <3>3, <3>5
    <3> QED BY <3>4, <3>5
  <2>5. FgSummed /\ FgClean' /\ state' = "there" => summary' = path'
    <3>1. FgClean' => FgClean
      BY <1>8, Zenon DEF FgClean
    <3> QED BY <1>1, <1>2, <1>8, <3>1 DEF FgSummed
  <2> QED BY <1>1, <1>2, <2>1, <2>2, <2>3, <2>4, <2>5, FgStep
<1>9. CASE \/ error /\ UNCHANGED path /\ Files!Fail("database")
           \/ path' = new /\ Files!Fail("answer") /\ Files!Goto(c, "undo")
  <2>1. PICK n \in FgCall : /\ job' = [job EXCEPT ![c] = n] /\ n.pc \in {"idle", "undo"} /\ FgBounds(n)
    BY <1>7, <1>9
  <2>2. /\ failed' \in [{"store", "database", "answer"} -> 0..1] /\ FgRises
        /\ ~FgClean' /\ ~FgSane'
    BY <1>3, <1>9, FgFails
  <2>3. FgData'
    BY <1>2, <1>3, <1>4, <1>9, <2>2 DEF FgData, FgTypes
  <2> QED BY <1>1, <1>2, <2>1, <2>2, <2>3, FgInsane
<1> QED BY <1>2, <1>6, <1>8, <1>9

LEMMA FgDeleteGroup ==
  ASSUME FgInv, NEW c \in Editor, Files!DeleteGroup(c)
  PROVE  FgInv'
<1>1. PICK k : k = job[c]
  OBVIOUS
<1>2. /\ k.pc = "remove" /\ met' = met /\ UNCHANGED <<bucket, summary>>
      /\ \/ /\ state' = "gone" /\ path' = Files!Nowhere /\ Files!Goto(c, "remove_objects")
            /\ UNCHANGED failed
         \/ /\ state = "gone" /\ job' = [job EXCEPT ![c] = Files!Idle]
            /\ UNCHANGED <<state, path, failed>>
         \/ /\ Files!Fail("database") /\ job' = [job EXCEPT ![c] = Files!Idle]
            /\ UNCHANGED <<state, path>>
  BY <1>1, Zenon DEF Files!DeleteGroup, Files!Answer
<1>3. /\ FgTypes /\ job \in [Editor -> FgCall] /\ k \in FgCall
      /\ bucket \in [FgPath -> Item \cup {Nothing}]
      /\ \A f \in Item : path[f] \in FgPaths
  BY <1>1, FgKnows
<1>4. Nothing \notin Item /\ Nothing \notin FgPath
  BY FgConstants
<1>5. \A p : FgOwns(k, p)
  BY <1>2 DEF FgOwns, FgRemoving
<1>6. CASE /\ state' = "gone" /\ path' = Files!Nowhere /\ Files!Goto(c, "remove_objects")
           /\ UNCHANGED failed
  <2>1. "remove_objects" \in FgPhase
    BY DEF FgPhase, FgWorking, FgRemoving
  <2>2. PICK n \in FgCall :
          /\ job' = [job EXCEPT ![c] = n] /\ n.pc = "remove_objects" /\ n.was = k.was
          /\ n.left = k.left
    BY <1>1, <1>3, <1>6, <2>1, FgGoto
  <2>3. failed' \in [{"store", "database", "answer"} -> 0..1] /\ FgRises
    BY <1>3, <1>6, FgSame
  <2>4. FgData'
    BY <1>2, <1>3, <1>6, <2>3, FgNames DEF FgData, FgTypes
  <2>5. \A f \in Item : path'[f] = Nothing
    BY <1>6, FgNames
  <2>6. ASSUME FgCore PROVE FgLocal(k, n) /\ FgOwn(k, n)
    <3>1. FgLocal(k, n)
      BY <1>2, <1>5, <2>2, <2>5 DEF FgLocal, FgWorking, FgRemoving, FgStoring
    <3>2. FgShape(n) /\ FgFound(n)' /\ FgBytes(n)'
      BY <1>6, <2>2 DEF FgShape, FgFound, FgBytes, FgRenaming, FgRemoving, FgDropping, FgStoring
    <3>3. FgRowed'
      BY <2>5 DEF FgRowed, FgOneToOne, FgHas
    <3>4. \A p : FgOwns(n, p)
      BY <2>2 DEF FgOwns, FgRemoving
    <3>5. ASSUME FgClean' PROVE FgNeat(n)'
      <4>1. FgClean
        BY <1>6, <3>5 DEF FgClean
      <4>2. k.was = path /\ k.left = FgHas(path)
        BY <1>1, <1>2, <2>6 DEF FgCore, FgFound
      <4>3. \A p \in FgPath : bucket[p] # Nothing => path[bucket[p]] = p
        BY <1>1, <1>2, <2>6, <4>1 DEF FgCore, FgNeat
      <4>4. \A p \in FgPath : bucket[p] \in Item \cup {Nothing}
        BY <1>3
      <4>5. \A p \in FgPath : bucket[p] # Nothing => bucket[p] \in n.left /\ n.was[bucket[p]] = p
        BY <1>4, <2>2, <4>2, <4>3, <4>4 DEF FgHas
      <4> QED BY <1>2, <2>2, <4>5 DEF FgNeat
    <3> QED BY <2>5, <3>1, <3>2, <3>3, <3>4, <3>5 DEF FgOwn
  <2>7. FgBounds(n)
    BY <2>2 DEF FgBounds, FgRenaming
  <2> QED BY <1>1, <1>2, <1>6, <2>2, <2>3, <2>4, <2>6, <2>7, FgStep
<1>7. CASE /\ state = "gone" /\ job' = [job EXCEPT ![c] = Files!Idle] /\ UNCHANGED <<state, path, failed>>
  <2>1. failed' \in [{"store", "database", "answer"} -> 0..1] /\ FgRises
    BY <1>3, <1>7, FgSame
  <2>2. FgRowed => FgHas(path) = {}
    BY <1>7 DEF FgRowed
  <2>3. FgNeat(k) => \A p \in FgPath : bucket'[p] # Nothing => path[bucket'[p]] = p
    BY <1>2 DEF FgNeat
  <2> QED BY <1>1, <1>2, <1>3, <1>5, <1>7, <2>1, <2>2, <2>3, FgStops DEF FgWorking, FgRemoving
<1>8. CASE /\ Files!Fail("database") /\ job' = [job EXCEPT ![c] = Files!Idle] /\ UNCHANGED <<state, path>>
  <2>1. /\ failed' \in [{"store", "database", "answer"} -> 0..1] /\ FgRises /\ ~FgSane'
    BY <1>3, <1>8, FgFails
  <2> QED BY <1>1, <1>2, <1>3, <1>8, <2>1, FgStops DEF FgWorking, FgRemoving
<1> QED BY <1>2, <1>6, <1>7, <1>8

LEMMA FgDeleteRow ==
  ASSUME FgInv, NEW c \in Editor, Files!DeleteRow(c)
  PROVE  FgInv'
<1>1. PICK k : k = job[c]
  OBVIOUS
<1>2. PICK f \in k.left :
        /\ k.pc = "delete_row" /\ met' = met /\ UNCHANGED <<state, bucket, summary>>
        /\ \/ path' = [path EXCEPT ![f] = Nothing] /\ Files!Goto(c, "list") /\ UNCHANGED failed
           \/ /\ f \notin Files!There /\ job' = [job EXCEPT ![c] = Files!Idle]
              /\ UNCHANGED <<path, failed>>
           \/ Files!Fail("database") /\ job' = [job EXCEPT ![c] = Files!Idle] /\ UNCHANGED path
  BY <1>1, Zenon DEF Files!DeleteRow, Files!Answer
<1>3. /\ FgTypes /\ job \in [Editor -> FgCall] /\ k \in FgCall
      /\ bucket \in [FgPath -> Item \cup {Nothing}] /\ path \in FgRows
      /\ \A g \in Item : path[g] \in FgPaths
  BY <1>1, FgKnows DEF FgTypes
<1>4. Nothing \notin Item /\ Nothing \notin FgPath
  BY FgConstants
<1>5. ASSUME FgShape(k), FgFound(k)
      PROVE  /\ f \in Item /\ k.was[f] \in FgPath /\ FgOwns(k, k.was[f]) /\ path[f] = k.was[f]
             /\ k.left = {f} /\ \A p \in FgPath : FgOwns(k, p) => p = k.was[f]
  BY <1>2, <1>3, <1>5, FgOne DEF FgDropping
<1>6. CASE path' = [path EXCEPT ![f] = Nothing] /\ Files!Goto(c, "list") /\ UNCHANGED failed
  <2>1. "list" \in FgPhase
    BY DEF FgPhase
  <2>2. PICK n \in FgCall : job' = [job EXCEPT ![c] = n] /\ n.pc = "list"
    BY <1>3, <1>6, <2>1, FgGoto
  <2>3. failed' \in [{"store", "database", "answer"} -> 0..1] /\ FgRises
    BY <1>3, <1>6, FgSame
  <2>4. path' \in FgRows /\ \A g \in Item : path'[g] = IF g = f THEN Nothing ELSE path[g]
    BY <1>3, <1>6 DEF FgRows, FgPaths
  <2>5. FgData'
    BY <1>2, <1>3, <2>3, <2>4 DEF FgData, FgTypes
  <2>6. ASSUME FgCore PROVE FgLocal(k, n) /\ FgOwn(k, n)
    <3>1. FgShape(k) /\ FgFound(k) /\ FgRowed /\ (FgClean => FgNeat(k))
      BY <1>1, <2>6 DEF FgCore
    <3>2. FgLocal(k, n)
      BY <1>2, <1>5, <2>2, <2>4, <3>1 DEF FgLocal, FgWorking, FgRenaming, FgRemoving, FgDropping, FgStoring
    <3>3. FgShape(n) /\ FgFound(n)' /\ FgBytes(n)' /\ FgNeat(n)'
      BY <2>2 DEF FgShape, FgFound, FgBytes, FgNeat, FgRenaming, FgRemoving, FgDropping, FgStoring
    <3>4. FgRowed'
      BY <1>2, <2>4, <3>1 DEF FgRowed, FgOneToOne, FgHas
    <3>5. ASSUME NEW g \in Item, path'[g] # Nothing, FgOwns(k, path'[g]) PROVE FALSE
      <4>1. g # f /\ path[g] = path'[g] /\ path[g] \in FgPath
        BY <1>3, <2>4, <3>5 DEF FgPaths
      <4>2. path[g] = path[f]
        BY <1>5, <3>1, <3>5, <4>1
      <4> QED BY <1>5, <3>1, <4>1, <4>2, <1>4 DEF FgRowed, FgOneToOne, FgHas
    <3>6. ASSUME FgClean', NEW p \in FgPath, FgOwns(k, p) PROVE bucket'[p] = Nothing
      <4>1. FgNeat(k)
        BY <1>6, <3>1, <3>6 DEF FgClean
      <4> QED BY <1>2, <1>5, <3>1, <3>6, <4>1 DEF FgNeat
    <3> QED BY <3>2, <3>3, <3>4, <3>5, <3>6 DEF FgOwn
  <2>7. FgBounds(n)
    BY <2>2 DEF FgBounds, FgRenaming
  <2> QED BY <1>1, <1>2, <2>2, <2>3, <2>5, <2>6, <2>7, FgStep
<1>7. CASE /\ f \notin Files!There /\ job' = [job EXCEPT ![c] = Files!Idle] /\ UNCHANGED <<path, failed>>
  <2>1. failed' \in [{"store", "database", "answer"} -> 0..1] /\ FgRises
    BY <1>3, <1>7, FgSame
  <2>2. ASSUME FgShape(k), FgFound(k) PROVE FALSE
    BY <1>4, <1>5, <1>7, <2>2, FgNames DEF FgHas
  <2> QED BY <1>1, <1>2, <1>3, <1>7, <2>1, <2>2, FgStops DEF FgWorking, FgDropping
<1>8. CASE Files!Fail("database") /\ job' = [job EXCEPT ![c] = Files!Idle] /\ UNCHANGED path
  <2>1. /\ failed' \in [{"store", "database", "answer"} -> 0..1] /\ FgRises /\ ~FgSane'
    BY <1>3, <1>8, FgFails
  <2> QED BY <1>1, <1>2, <1>3, <1>8, <2>1, FgStops DEF FgWorking, FgDropping
<1> QED BY <1>2, <1>6, <1>7, <1>8

\* A step of who does not work on the files.
LEMMA FgLooks ==
  ASSUME FgInv, NEW k, NEW n \in FgCall, k.pc \in {"list", "sum_up"}, n.pc \in {"idle", "sum_up"},
         UNCHANGED <<state, path, bucket>>, FgCore
  PROVE  FgLocal(k, n) /\ FgOwn(k, n)
<1>1. \A p : ~FgOwns(k, p)
  BY DEF FgOwns, FgWorking, FgRenaming, FgRemoving, FgDropping, FgStoring
<1>2. FgShape(n) /\ FgFound(n)' /\ FgBytes(n)' /\ FgNeat(n)'
  BY DEF FgShape, FgFound, FgBytes, FgNeat, FgRenaming, FgRemoving, FgDropping, FgStoring
<1>3. FgLocal(k, n)
  BY <1>1 DEF FgLocal, FgWorking, FgRenaming, FgRemoving, FgDropping, FgStoring
<1>4. FgRowed'
  <2>1. FgRowed
    BY DEF FgCore
  <2> QED BY <2>1, Zenon DEF FgRowed, FgOneToOne, FgHas
<1> QED BY <1>1, <1>2, <1>3, <1>4 DEF FgOwn

LEMMA FgList ==
  ASSUME FgInv, NEW c \in Editor, Files!List(c)
  PROVE  FgInv'
<1>1. PICK k : k = job[c]
  OBVIOUS
<1>2. /\ k.pc = "list" /\ met' = met /\ UNCHANGED <<state, path, bucket, summary, failed>>
      /\ job' = [job EXCEPT ![c].pc = "sum_up", ![c].was = path]
  BY <1>1, Zenon DEF Files!List, Files!state
<1>3. /\ FgTypes /\ job \in [Editor -> FgCall] /\ k \in FgCall /\ path \in FgRows
  BY <1>1, FgKnows DEF FgTypes
<1>4. PICK n : n = [k EXCEPT !.pc = "sum_up", !.was = path]
  OBVIOUS
<1>5. job' = [job EXCEPT ![c] = n]
  BY <1>1, <1>2, <1>3, <1>4
<1>6. n \in FgCall /\ n.pc = "sum_up" /\ n.was = path
  BY <1>3, <1>4 DEF FgCall, FgPhase
<1>7. failed' \in [{"store", "database", "answer"} -> 0..1] /\ FgRises
  BY <1>2, <1>3, FgSame
<1>8. FgData'
  BY <1>2, <1>3, <1>7 DEF FgData, FgTypes
<1>9. FgCore => FgLocal(k, n) /\ FgOwn(k, n)
  BY <1>2, <1>6, FgLooks
<1>10. FgBounds(n)
  BY <1>6 DEF FgBounds, FgRenaming
<1> QED BY <1>1, <1>2, <1>5, <1>6, <1>7, <1>8, <1>9, <1>10, FgStep

LEMMA FgSummarize ==
  ASSUME FgInv, NEW c \in Editor, Files!Summarize(c)
  PROVE  FgInv'
<1>1. PICK k : k = job[c]
  OBVIOUS
<1>2. /\ k.pc = "sum_up" /\ met' = met /\ UNCHANGED <<state, path, bucket>>
      /\ job' = [job EXCEPT ![c] = Files!Idle]
      /\ \/ summary' = k.was /\ UNCHANGED failed
         \/ /\ UNCHANGED <<summary, failed>>
            /\ ~(state = "there" /\ \A f \in Item : k.was[f] # Nothing => bucket[k.was[f]] # Nothing)
         \/ (Files!Fail("store") \/ Files!Fail("database")) /\ UNCHANGED summary
  BY <1>1, Zenon DEF Files!Summarize, Files!Answer
<1>3. /\ FgTypes /\ job \in [Editor -> FgCall] /\ k \in FgCall /\ k.was \in FgRows
  BY <1>1, FgKnows DEF FgCall
<1>4. PICK n \in FgCall : n = Files!Idle /\ n.pc = "idle"
  BY FgNames
<1>5. failed' \in [{"store", "database", "answer"} -> 0..1] /\ FgRises
  BY <1>2, <1>3, FgSame, FgFails
<1>6. FgData'
  BY <1>2, <1>3, <1>5 DEF FgData, FgTypes
<1>7. FgCore => FgLocal(k, n) /\ FgOwn(k, n)
  BY <1>2, <1>4, FgLooks
<1>8. FgBounds(n)
  BY <1>4 DEF FgBounds, FgRenaming
<1>9. ASSUME FgSummed, met = 0, FgSane => FgCore, FgClean', state' = "there"
      PROVE  summary' = path'
  <2>1. k.was = path
    BY <1>1, <1>2, <1>9 DEF FgSummed
  <2>2. failed' = failed
    BY <1>2, <1>3, <1>9, FgFails
  <2>3. FgClean /\ FgSane
    BY <1>9, <2>2 DEF FgClean, FgSane
  <2>4. \A d \in Editor : ~(job[d].pc \in FgRenaming \cup FgDropping)
    BY <1>1, <1>2, <1>9 DEF FgSummed, FgRenaming, FgDropping
  <2>5. \A f \in FgHas(path) : bucket[path[f]] = f
    BY <1>9, <2>3, <2>4 DEF FgCore, FgWhole, FgHands
  <2>6. \A f \in Item : path[f] # Nothing => bucket[path[f]] # Nothing
    BY <2>5, FgConstants DEF FgHas
  <2>7. summary' = k.was
    BY <1>2, <1>3, <1>9, <2>1, <2>6, FgFails
  <2> QED BY <1>2, <2>1, <2>7
<1> QED BY <1>1, <1>2, <1>4, <1>5, <1>6, <1>7, <1>8, <1>9, FgStep

-----------------------------------------------------------------------------
LEMMA FgInits == Files!Init => FgInv
<1> SUFFICES ASSUME Files!Init PROVE FgInv
  OBVIOUS
<1>1. /\ state = "none" /\ path = Files!Nowhere /\ summary = Files!Nowhere /\ met = 0
      /\ bucket = [p \in Files!Path |-> Nothing] /\ job = [c \in Editor |-> Files!Idle]
      /\ failed = [x \in Files!Kind |-> 0]
  BY Zenon DEF Files!Init
<1>2. \A c \in Editor : job[c] \in FgCall /\ job[c].pc = "idle"
  BY <1>1, FgNames
<1>3. FgHas(path) = {} /\ \A p \in FgPath : bucket[p] = Nothing
  BY <1>1, FgNames DEF FgHas
<1>4. FgTypes
  <2>1. job \in [Editor -> FgCall]
    BY <1>1, FgNames
  <2>2. bucket \in [FgPath -> Item \cup {Nothing}]
    BY <1>1, FgNames
  <2>3. failed \in [{"store", "database", "answer"} -> 0..1]
    BY <1>1 DEF Files!Kind
  <2> QED BY <1>1, <2>1, <2>2, <2>3, FgNames DEF FgTypes
<1>5. \A c \in Editor : /\ FgShape(job[c]) /\ FgFound(job[c]) /\ FgBytes(job[c]) /\ FgNeat(job[c])
                        /\ FgBounds(job[c])
  BY <1>2 DEF FgShape, FgFound, FgBytes, FgNeat, FgBounds, FgRenaming, FgRemoving, FgDropping, FgStoring
<1>6. FgApart /\ FgAlone
  BY <1>2 DEF FgApart, FgAlone, FgWorking, FgRenaming, FgRemoving, FgDropping, FgStoring
<1>7. FgRowed /\ FgWhole /\ FgTidy
  BY <1>3 DEF FgRowed, FgWhole, FgTidy, FgOneToOne
<1>8. FgSummed
  BY <1>1, <1>2 DEF FgSummed
<1> QED BY <1>4, <1>5, <1>6, <1>7, <1>8 DEF FgInv, FgCore

LEMMA FgNext == FgInv /\ [Files!Next]_(Files!vars) => FgInv'
<1> SUFFICES ASSUME FgInv, [Files!Next]_(Files!vars) PROVE FgInv'
  OBVIOUS
<1>1. CASE UNCHANGED Files!vars
  <2>1. UNCHANGED <<state, path, bucket, summary, job, met, failed>>
    BY <1>1 DEF Files!vars, Files!state
  <2>2. FgTypes => FgTypes'
    BY <2>1, Zenon DEF FgTypes
  <2>3. \A c \in Editor : FgBounds(job[c]) => FgBounds(job[c])'
    BY <2>1, Zenon DEF FgBounds, FgHas
  <2>4. (FgSane' => FgSane) /\ (FgClean' => FgClean)
    BY <2>1, Zenon DEF FgSane, FgClean
  <2>5. \A c \in Editor : /\ FgShape(job[c]) => FgShape(job[c])'
                          /\ FgFound(job[c]) => FgFound(job[c])'
    BY <2>1, Zenon DEF FgShape, FgFound, FgHas, FgOneToOne
  <2>6. \A c \in Editor : FgBytes(job[c]) => FgBytes(job[c])'
    BY <2>1, Zenon DEF FgBytes, FgHas
  <2>7. \A c \in Editor : FgNeat(job[c]) => FgNeat(job[c])'
    BY <2>1, Zenon DEF FgNeat
  <2>8. (FgApart => FgApart') /\ (FgAlone => FgAlone')
    <3>1. FgApart => FgApart'
      BY <2>1 DEF FgApart
    <3>2. FgAlone => FgAlone'
      BY <2>1 DEF FgAlone
    <3> QED BY <3>1, <3>2
  <2>9. (FgRowed => FgRowed') /\ (FgTidy => FgTidy') /\ (FgWhole => FgWhole')
    BY <2>1, Zenon DEF FgRowed, FgOneToOne, FgTidy, FgWhole, FgHas, FgOwns, FgHands
  <2>10. FgCore /\ FgSane' => FgCore'
    BY <2>4, <2>5, <2>6, <2>7, <2>8, <2>9 DEF FgCore
  <2>11. FgSummed => FgSummed'
    BY <2>1, <2>4, Zenon DEF FgSummed
  <2> QED BY <2>1, <2>2, <2>3, <2>4, <2>10, <2>11 DEF FgInv
<1>2. ASSUME NEW c \in Editor, Files!Ask(c) PROVE FgInv'
  BY <1>2, FgAsks
<1>3. ASSUME NEW c \in Editor, Files!Step(c) PROVE FgInv'
  <2>1. \/ Files!StoreFile(c) \/ Files!InsertGroup(c) \/ Files!Unstore(c)
        \/ Files!Copy(c) \/ Files!DropOld(c) \/ Files!DropCopy(c) \/ Files!UpdatePaths(c)
        \/ Files!Undo(c)
        \/ Files!DeleteGroup(c) \/ Files!DeleteObjects(c) \/ Files!DeleteObject(c)
        \/ Files!DeleteRow(c) \/ Files!List(c) \/ Files!Summarize(c)
    BY <1>3, Zenon DEF Files!Step
  <2> QED BY <2>1, FgStoreFile, FgInsertGroup, FgUnstore, FgCopy, FgDropOld, FgDropCopy,
             FgUpdatePaths, FgUndo, FgDeleteGroup, FgDeleteObjects, FgDeleteObject, FgDeleteRow,
             FgList, FgSummarize
<1> QED BY <1>1, <1>2, <1>3 DEF Files!Next

LEMMA FgImplies == FgInv => FilesSound
<1> SUFFICES ASSUME FgInv PROVE FilesSound
  OBVIOUS
<1>1. FgTypes /\ \A c \in Editor : job[c] \in FgCall
  BY DEF FgInv, FgTypes
<1>2. failed["store"] \in 0..1 /\ failed["database"] \in 0..1 /\ failed["answer"] \in 0..1
  BY <1>1 DEF FgTypes
<1>3. Files!TypeOK
  BY <1>1, FgNames DEF FgTypes, Files!TypeOK, Files!Kind, FgRows, FgPaths
<1>4. ASSUME Files!Quiet
      PROVE  \A c \in Editor : \A f, p : ~FgHands(job[c], f) /\ ~FgOwns(job[c], p)
  BY <1>4 DEF Files!Quiet, FgHands, FgOwns, FgWorking, FgRenaming, FgRemoving, FgDropping, FgStoring
<1>5. Files!Intact
  <2> SUFFICES ASSUME Files!Quiet, met < 2, Files!Faults = failed["store"], Files!Faults <= 1,
                      NEW f \in Files!There
               PROVE  bucket[path[f]] = f
    BY DEF Files!Intact
  <2>1. FgSane
    BY <1>2 DEF FgSane, Files!Faults
  <2>2. FgWhole /\ f \in FgHas(path)
    BY <2>1, FgNames DEF FgInv, FgCore
  <2> QED BY <1>4, <2>2 DEF FgWhole
<1>6. Files!Tidy
  <2>1. ASSUME Files!Quiet, met < 2, Files!Faults = 0, NEW p \in Files!Path, bucket[p] # Nothing
        PROVE  path[bucket[p]] = p
    <3>1. FgSane /\ FgClean
      BY <1>2, <2>1 DEF FgSane, FgClean, Files!Faults
    <3>2. FgTidy /\ p \in FgPath
      BY <3>1, FgNames DEF FgInv, FgCore
    <3> QED BY <1>4, <2>1, <3>2 DEF FgTidy
  <2>2. ASSUME Files!Quiet, met = 0, Files!Faults = 0, state = "there"
        PROVE  summary = path
    <3>1. FgSummed /\ FgClean
      BY <1>2, <2>2 DEF FgInv, FgClean, Files!Faults
    <3> QED BY <2>2, <3>1 DEF FgSummed, Files!Quiet
  <2> QED BY <2>1, <2>2 DEF Files!Tidy
<1> QED BY <1>3, <1>5, <1>6 DEF FilesSound

\* Between requests every file of an asset group has its own bytes at its path, when
\* requests were about different paths and one call to the bucket was not executed; when
\* none failed the bucket has nothing else, and when requests came one by one size and
\* sha256 of the group are those of its files (rename_file, patch_folder, remove_file,
\* remove_group, recompute_group_metadata).
THEOREM FilesAreSound == Files!Spec => []FilesSound
BY FgInits, FgNext, FgImplies, PTL DEF Files!Spec
=============================================================================
