--------------------------- MODULE TicketsProofs ---------------------------
(***************************************************************************)
(* Proofs about Tickets: the limits hold, what costs is paid and the staff *)
(* speaks with one voice, for any number of requests, of the staff, of     *)
(* tickets and of messages.                                                *)
(***************************************************************************)
EXTENDS Tickets, FiniteSetTheorems, TLAPS

TicketRow == [open: BOOLEAN, puzzle: Puzzle \cup {None}, assignee: Mod \cup {None}]
CallRow   == [pc: {"idle", "lock", "pending", "ready", "count", "pay", "write"},
              op: {"none", "open", "dm", "send", "close", "buy", "solve"},
              by: Who \cup {None}, puzzle: Puzzle \cup {None}, id: Nat,
              demand: Demand, force: BOOLEAN, said: BOOLEAN]

(* What a request is about is there, and one that is not served is none. *)
Shaped(c) ==
  /\ call[c].pc = "idle" => call[c].op = "none"
  /\ call[c].op \in {"send", "close"} => call[c].id \in DOMAIN ticket
  /\ call[c].op = "buy" => call[c].id \in DOMAIN message
  /\ call[c].op = "close" => Host(c)
  /\ call[c].op \in {"open", "solve"} => call[c].puzzle # None
  /\ call[c].pc = "count" => ~Host(c)

(* The locks behind the phases. *)
Held(c) ==
  /\ call[c].op = "open" /\ call[c].pc \in {"pending", "ready", "write"} => teamLock = c
  /\ call[c].op = "send" /\ call[c].pc \in {"count", "write"} => ticketLock[call[c].id] = c
  /\ At(c, "close", "write") => ticketLock[call[c].id] = c

(* What a request has found is still so: no ticket about a puzzle is open, *)
(* a place is left for the message, and nobody else has the ticket.        *)
OpenPuzzle(k) == ticket[k].open /\ ticket[k].puzzle # None
NoneOpen == \A k \in DOMAIN ticket : ~OpenPuzzle(k)
Found(c) ==
  /\ call[c].op = "open" /\ call[c].pc \in {"ready", "write"} => NoneOpen
  /\ At(c, "send", "write") /\ ~Host(c) =>
       Cardinality(Pending(call[c].id)) < Limit(call[c].id)
  /\ At(c, "send", "write") => ~Taken(c, call[c].id)

Fit(c) == Shaped(c) /\ Held(c) /\ Found(c)

Sized ==
  /\ Len(ticket) <= MaxTickets /\ Len(message) <= MaxMessages
  /\ \A m \in DOMAIN message : message[m].ticket \in DOMAIN ticket

OneOpen == \A j, k \in DOMAIN ticket : OpenPuzzle(j) /\ OpenPuzzle(k) => j = k

(* A message that is locked has not been paid. *)
Paid ==
  \A m \in DOMAIN message :
    /\ message[m].charged <= 1
    /\ Locked(m) => message[m].charged = 0
    /\ ~Locked(m) /\ message[m].cost => message[m].charged = 1 \/ message[m].freed

Rows == Sized /\ OneOpen /\ PendingLimit /\ Paid

IInv == TypeOK /\ Rows /\ \A c \in Call : Fit(c)

-----------------------------------------------------------------------------
(* Facts about the operators.                                              *)

(* A table of which a row is written has the rows of its type.             *)
LEMMA RowChanged ==
  ASSUME NEW R, NEW s \in Seq(R), NEW k \in DOMAIN s, NEW e \in R
  PROVE  /\ [s EXCEPT ![k] = e] \in Seq(R)
         /\ DOMAIN [s EXCEPT ![k] = e] = DOMAIN s
<1> DEFINE t == [s EXCEPT ![k] = e]
<1>1. DOMAIN s = 1..Len(s) /\ Len(s) \in Nat /\ \A j \in DOMAIN s : s[j] \in R
  OBVIOUS
<1>2. DOMAIN t = 1..Len(s) /\ \A j \in 1..Len(s) : t[j] \in R
  BY <1>1
<1>3. t \in [1..Len(s) -> R]
  BY <1>2
<1> QED BY <1>1, <1>2, <1>3

(* What a call writes and is.                                              *)
LEMMA Demanded ==
  \A d \in Demand : d.cost \in BOOLEAN /\ d.wait \in {"no", "running"} /\ (d = Free => ~d.cost)
<1>1. ASSUME NEW d \in Asked PROVE d \in [cost: BOOLEAN, wait: {"no", "running"}]
  BY ConstantAssumption
<1>2. ASSUME NEW d \in Asked PROVE d.cost \in BOOLEAN /\ d.wait \in {"no", "running"}
                                   /\ (d = Free => ~d.cost)
  BY <1>1 DEF Free
<1>3. Free.cost = FALSE /\ Free.wait = "no"
  BY DEF Free
<1> QED BY <1>2, <1>3 DEF Demand

LEMMA NoCallTyped == NoCall \in CallRow
BY DEF NoCall, CallRow, Demand, Free

LEMMA CallTyped == ASSUME TypeOK, NEW c \in Call PROVE call[c] \in CallRow
BY DEF TypeOK, CallRow

LEMMA TicketTyped ==
  ASSUME TypeOK
  PROVE  /\ ticket \in Seq(TicketRow) /\ DOMAIN ticket = 1..Len(ticket) /\ Len(ticket) \in Nat
         /\ \A k \in DOMAIN ticket : ticket[k] \in TicketRow
         /\ message \in Seq(Message) /\ DOMAIN message = 1..Len(message) /\ Len(message) \in Nat
         /\ \A m \in DOMAIN message : message[m] \in Message
<1>1. ticket \in Seq(TicketRow) /\ message \in Seq(Message)
  BY DEF TypeOK, TicketRow
<1> QED BY <1>1

(* A message that a call writes is a row, the last one.                    *)
LEMMA WrittenTyped ==
  ASSUME TypeOK, NEW c \in Call, NEW k \in 1..MaxTickets
  PROVE  /\ Written(c, k) \in Seq(Message)
         /\ Len(Written(c, k)) = Len(message) + 1
         /\ \A m \in DOMAIN message : Written(c, k)[m] = message[m]
         /\ LET new == Written(c, k)[Len(message) + 1]
            IN  /\ new.ticket = k /\ new.host = Host(c) /\ new.charged = 0
                /\ new.cost => ~new.unlocked
<1> DEFINE free == call[c].demand = Free
           host == Host(c)
           new == [ticket |-> k, host |-> host, cost |-> call[c].demand.cost,
                   wait |-> call[c].demand.wait, unlocked |-> free,
                   charged |-> 0, freed |-> FALSE]
<1>1. call[c].demand \in Demand
  BY CallTyped DEF CallRow
<1>2. new \in Message /\ (new.cost => ~new.unlocked)
  <2>1. call[c].demand.cost \in BOOLEAN /\ call[c].demand.wait \in {"no", "running"}
    BY <1>1, Demanded
  <2>2. free => ~call[c].demand.cost
    BY <1>1, Demanded
  <2>3. host \in BOOLEAN /\ free \in BOOLEAN
    BY DEF Host
  <2> HIDE DEF free, host
  <2> QED BY <2>1, <2>2, <2>3, SMT DEF Message
<1>3. Written(c, k) = Append(message, new) /\ message \in Seq(Message)
  BY DEF Written, TypeOK
<1>4. new.ticket = k /\ new.host = Host(c) /\ new.charged = 0
  OBVIOUS
<1> HIDE DEF new
<1> QED BY <1>2, <1>3, <1>4

(* The messages that wait for an answer are finitely many.                 *)
LEMMA PendingFinite ==
  ASSUME TypeOK, NEW k
  PROVE  /\ Pending(k) \subseteq DOMAIN message
         /\ IsFiniteSet(Pending(k)) /\ Cardinality(Pending(k)) \in Nat
<1>1. Pending(k) \subseteq 1..Len(message) /\ DOMAIN message = 1..Len(message)
  BY TicketTyped DEF Pending
<1>2. IsFiniteSet(1..Len(message))
  BY TicketTyped, FS_Interval
<1>3. IsFiniteSet(Pending(k))
  BY <1>1, <1>2, FS_Subset
<1> QED BY <1>1, <1>3, FS_CardinalityType

LEMMA PendingSame ==
  ASSUME NEW k, DOMAIN message' = DOMAIN message,
         \A m \in DOMAIN message :
           message'[m].ticket = message[m].ticket /\ message'[m].host = message[m].host
  PROVE  Pending(k)' = Pending(k)
BY DEF Pending

(* A message of the team waits for an answer, one of the staff answers all *)
(* those before it.                                                        *)
LEMMA PendingWritten ==
  ASSUME TypeOK, NEW c \in Call, NEW k \in 1..MaxTickets, message' = Written(c, k)
  PROVE  /\ \A j : j # k => Pending(j)' = Pending(j)
         /\ Host(c) => Pending(k)' = {}
         /\ ~Host(c) => Pending(k)' = Pending(k) \cup {Len(message) + 1}
<1> DEFINE n == Len(message) + 1
<1>1. /\ DOMAIN message = 1..Len(message) /\ Len(message) \in Nat
      /\ DOMAIN message' = 1..n
      /\ \A m \in DOMAIN message : message'[m] = message[m]
      /\ message'[n].ticket = k /\ message'[n].host = Host(c)
  BY WrittenTyped, TicketTyped
<1>2. DOMAIN message' = DOMAIN message \cup {n} /\ n \notin DOMAIN message
      /\ \A m \in DOMAIN message : n >= m /\ ~(m >= n)
  BY <1>1
<1>3. ASSUME NEW j, j # k PROVE Pending(j)' = Pending(j)
  BY <1>1, <1>2, <1>3 DEF Pending
<1>4. ASSUME Host(c) PROVE Pending(k)' = {}
  <2>1. n \in DOMAIN message' /\ message'[n].ticket = k /\ message'[n].host
    BY <1>1, <1>2, <1>4
  <2>2. ASSUME NEW m \in DOMAIN message' PROVE n >= m
    BY <1>1
  <2> QED BY <2>1, <2>2 DEF Pending
<1>5. ASSUME ~Host(c) PROVE Pending(k)' = Pending(k) \cup {n}
  <2>1. ~message'[n].host /\ n \in Pending(k)'
    BY <1>1, <1>2, <1>5 DEF Pending
  <2>2. ASSUME NEW m \in DOMAIN message PROVE m \in Pending(k)' <=> m \in Pending(k)
    BY <1>1, <1>2, <2>1 DEF Pending
  <2> QED BY <1>2, <2>1, <2>2 DEF Pending
<1> QED BY <1>3, <1>4, <1>5

-----------------------------------------------------------------------------
(* What a step leaves to a request that does not take it.                  *)

LocksKept(d) ==
  /\ call'[d] = call[d]
  /\ teamLock = d => teamLock' = d
  /\ \A k \in 1..MaxTickets : ticketLock[k] = d => ticketLock'[k] = d

Keeps(d) ==
  /\ LocksKept(d)
  /\ DOMAIN ticket \subseteq DOMAIN ticket' /\ DOMAIN message \subseteq DOMAIN message'
  /\ teamLock = d /\ NoneOpen => NoneOpen'
  /\ \A k \in DOMAIN ticket :
       /\ ticket'[k].puzzle = ticket[k].puzzle
       /\ ticketLock[k] = d =>
            /\ ticket'[k].assignee = ticket[k].assignee
            /\ Pending(k)' \subseteq Pending(k)

LEMMA Fewer ==
  ASSUME TypeOK, NEW k, Pending(k)' \subseteq Pending(k)
  PROVE  Cardinality(Pending(k)') <= Cardinality(Pending(k))
         /\ Cardinality(Pending(k)') \in Nat /\ Cardinality(Pending(k)) \in Nat
<1>1. IsFiniteSet(Pending(k)) /\ Cardinality(Pending(k)) \in Nat
  BY PendingFinite
<1>2. IsFiniteSet(Pending(k)')
  BY <1>1, FS_Subset
<1> QED BY <1>1, <1>2, FS_Subset, FS_CardinalityType

LEMMA LimitTyped == \A k : Limit(k) \in Nat
BY ConstantAssumption DEF Limit

LEMMA KeepsFit ==
  ASSUME TypeOK, Sized, NEW d \in Call, Fit(d), Keeps(d)
  PROVE  Fit(d)'
<1>1. call'[d] = call[d] /\ Host(d)' = Host(d)
  BY DEF Keeps, LocksKept, Host
<1>2. Shaped(d)'
  BY <1>1 DEF Fit, Shaped, Keeps
<1>3. Held(d)'
  <2>1. call[d].op \in {"send", "close"} => call[d].id \in 1..MaxTickets
    BY TicketTyped, ConstantAssumption DEF Fit, Shaped, Sized
  <2> QED BY <1>1, <2>1 DEF Fit, Held, Keeps, LocksKept, At
<1>4. Found(d)'
  <2>1. ASSUME call[d].op = "open", call[d].pc \in {"ready", "write"} PROVE NoneOpen'
    BY <2>1 DEF Fit, Held, Found, Keeps
  <2>2. ASSUME At(d, "send", "write")
        PROVE  /\ ~Host(d) => (Cardinality(Pending(call[d].id)) < Limit(call[d].id))'
               /\ ~Taken(d, call[d].id)'
    <3>0. PICK k : k = call[d].id
      OBVIOUS
    <3>1. k \in DOMAIN ticket /\ ticketLock[k] = d
      BY <2>2, <3>0 DEF Fit, Shaped, Held, At
    <3>2. ticket'[k].puzzle = ticket[k].puzzle /\ ticket'[k].assignee = ticket[k].assignee
          /\ Pending(k)' \subseteq Pending(k)
      BY <3>1 DEF Keeps
    <3>3. Limit(k)' = Limit(k) /\ Taken(d, k)' = Taken(d, k)
      BY <1>1, <3>2 DEF Limit, Taken
    <3>4. Cardinality(Pending(k)') <= Cardinality(Pending(k))
          /\ Cardinality(Pending(k)') \in Nat /\ Cardinality(Pending(k)) \in Nat
      BY <3>2, Fewer
    <3>5. (~Host(d) => Cardinality(Pending(k)) < Limit(k)) /\ ~Taken(d, k)
      BY <2>2, <3>0 DEF Fit, Found
    <3>6. call'[d].id = k
      BY <1>1, <3>0
    <3>7. ~Host(d) => Cardinality(Pending(k)') < Limit(k)
      BY <3>4, <3>5, LimitTyped
    <3> QED BY <1>1, <3>0, <3>3, <3>5, <3>6, <3>7
  <2>3. At(d, "send", "write")' <=> At(d, "send", "write")
    BY <1>1 DEF At
  <2> QED BY <1>1, <2>1, <2>2, <2>3 DEF Found
<1> QED BY <1>2, <1>3, <1>4 DEF Fit

LEMMA Inductive ==
  ASSUME IInv, TypeOK', Rows', NEW c \in Call, Fit(c)', \A d \in Call \ {c} : Keeps(d)
  PROVE  IInv'
<1>1. ASSUME NEW d \in Call PROVE Fit(d)'
  BY KeepsFit DEF IInv, Rows
<1> QED BY <1>1 DEF IInv

(* A step that leaves the rows alone.                                      *)
LEMMA RowsSame ==
  ASSUME TypeOK, UNCHANGED rows
  PROVE  /\ Rows => Rows'
         /\ \A d \in Call : LocksKept(d) => Keeps(d)
<1>1. ticket' = ticket /\ message' = message /\ solved' = solved
  BY DEF rows
<1>2. \A k : Pending(k)' = Pending(k)
  BY <1>1 DEF Pending
<1>3. PendingLimit => PendingLimit'
  BY <1>1, <1>2 DEF PendingLimit, Limit
<1>4. (Sized => Sized') /\ (OneOpen => OneOpen') /\ (Paid => Paid') /\ (NoneOpen => NoneOpen')
  BY <1>1 DEF Sized, OneOpen, OpenPuzzle, Paid, Locked, NoneOpen
<1> QED BY <1>1, <1>2, <1>3, <1>4 DEF Rows, Keeps

LEMMA Local ==
  ASSUME IInv, UNCHANGED rows, TypeOK', NEW c \in Call, Fit(c)',
         \A d \in Call \ {c} : LocksKept(d)
  PROVE  IInv'
BY RowsSame, Inductive DEF IInv

(* A transaction ends.                                                     *)
LEMMA Ended ==
  ASSUME TypeOK, NEW c \in Call, End(c)
  PROVE  /\ call' \in [Call -> CallRow] /\ teamLock' \in Call \cup {None}
         /\ ticketLock' \in [1..MaxTickets -> Call \cup {None}]
         /\ messageLock' \in [1..MaxMessages -> Call \cup {None}]
         /\ currencyLock' \in Call \cup {None}
         /\ call'[c] = NoCall /\ \A d \in Call \ {c} : LocksKept(d)
         /\ Fit(c)'
<1>1. /\ call \in [Call -> CallRow] /\ teamLock \in Call \cup {None}
      /\ ticketLock \in [1..MaxTickets -> Call \cup {None}]
      /\ messageLock \in [1..MaxMessages -> Call \cup {None}]
      /\ currencyLock \in Call \cup {None}
  BY DEF TypeOK, CallRow
<1>2. /\ call' \in [Call -> CallRow] /\ call'[c] = NoCall
      /\ \A d \in Call \ {c} : call'[d] = call[d]
  BY <1>1, NoCallTyped DEF End
<1>3. teamLock' \in Call \cup {None} /\ \A d \in Call \ {c} : teamLock = d => teamLock' = d
  BY <1>1 DEF End
<1>4. ticketLock' \in [1..MaxTickets -> Call \cup {None}]
      /\ \A d \in Call \ {c}, k \in 1..MaxTickets : ticketLock[k] = d => ticketLock'[k] = d
  BY <1>1 DEF End
<1>5. messageLock' \in [1..MaxMessages -> Call \cup {None}] /\ currencyLock' \in Call \cup {None}
  BY <1>1 DEF End
<1>6. Fit(c)'
  BY <1>2 DEF Fit, Shaped, Held, Found, At, NoCall
<1> QED BY <1>2, <1>3, <1>4, <1>5, <1>6 DEF LocksKept

LEMMA Refused == ASSUME IInv, NEW c \in Call, Refuse(c) PROVE IInv'
<1>1. End(c) /\ UNCHANGED rows /\ TypeOK
  BY DEF Refuse, IInv
<1>2. TypeOK'
  BY <1>1, Ended DEF TypeOK, rows, CallRow
<1> QED BY <1>1, <1>2, Ended, Local

-----------------------------------------------------------------------------
(* Steps that leave the rows alone: a request arrives, takes a lock, reads. *)

Phase == {"lock", "pending", "ready", "count", "pay", "write"}

LocksTyped ==
  /\ teamLock \in Call \cup {None}
  /\ ticketLock \in [1..MaxTickets -> Call \cup {None}]
  /\ messageLock \in [1..MaxMessages -> Call \cup {None}]
  /\ currencyLock \in Call \cup {None}

LEMMA Arrived ==
  ASSUME IInv, NEW c \in Call, NEW request \in CallRow, Ask(c, request),
         request.op \in {"send", "close"} => request.id \in DOMAIN ticket,
         request.op = "buy" => request.id \in DOMAIN message,
         request.op = "close" => request.by \in Mod,
         request.op \in {"open", "solve"} => request.puzzle # None
  PROVE  IInv'
<1> DEFINE new == [request EXCEPT !.pc = "lock"]
<1>1. new \in CallRow /\ new.pc = "lock" /\ new.op = request.op /\ new.id = request.id
      /\ new.by = request.by /\ new.puzzle = request.puzzle
  BY DEF CallRow
<1>2. call \in [Call -> CallRow] /\ TypeOK
  BY DEF IInv, TypeOK, CallRow
<1>3. call' = [call EXCEPT ![c] = new] /\ UNCHANGED <<rows, locks>>
  BY DEF Ask
<1> HIDE DEF new
<1>4. call' \in [Call -> CallRow] /\ call'[c] = new /\ \A d \in Call \ {c} : call'[d] = call[d]
  BY <1>1, <1>2, <1>3
<1>5. TypeOK'
  BY <1>2, <1>3, <1>4 DEF TypeOK, CallRow, rows, locks
<1>6. Fit(c)'
  BY <1>1, <1>3, <1>4 DEF Fit, Shaped, Held, Found, At, Host, rows
<1>7. \A d \in Call \ {c} : LocksKept(d)
  BY <1>3, <1>4 DEF LocksKept, locks
<1> QED BY <1>3, <1>5, <1>6, <1>7, Local

LEMMA Moved ==
  ASSUME IInv, NEW c \in Call, NEW s \in Phase, Goto(c, s), UNCHANGED rows,
         call[c].pc # "idle", s = "count" => ~Host(c), LocksTyped',
         \A d \in Call \ {c} :
           /\ teamLock = d => teamLock' = d
           /\ \A k \in 1..MaxTickets : ticketLock[k] = d => ticketLock'[k] = d,
         Held(c)', Found(c)'
  PROVE  IInv'
<1>1. call \in [Call -> CallRow] /\ TypeOK /\ Fit(c)
  BY DEF IInv, TypeOK, CallRow
<1>2. call' \in [Call -> CallRow] /\ call'[c] = [call[c] EXCEPT !.pc = s]
      /\ \A d \in Call \ {c} : call'[d] = call[d]
  BY <1>1 DEF Goto, CallRow, Phase
<1>3. TypeOK'
  BY <1>1, <1>2 DEF TypeOK, CallRow, rows, LocksTyped
<1>4. /\ call'[c].pc = s /\ call'[c].op = call[c].op /\ call'[c].id = call[c].id
      /\ call'[c].by = call[c].by /\ call'[c].puzzle = call[c].puzzle
  BY <1>1, <1>2 DEF CallRow
<1>5. Shaped(c)'
  BY <1>1, <1>4 DEF Fit, Shaped, Host, rows, Phase
<1>6. \A d \in Call \ {c} : LocksKept(d)
  BY <1>2 DEF LocksKept
<1> QED BY <1>3, <1>5, <1>6, Local DEF Fit

LEMMA MovedCall ==
  ASSUME TypeOK, NEW c \in Call, NEW s \in Phase, Goto(c, s)
  PROVE  /\ call'[c].pc = s /\ call'[c].op = call[c].op /\ call'[c].id = call[c].id
         /\ call'[c].by = call[c].by /\ call'[c].force = call[c].force
         /\ Host(c)' = Host(c)
<1>1. call \in [Call -> CallRow]
  BY DEF TypeOK, CallRow
<1>2. call'[c] = [call[c] EXCEPT !.pc = s]
  BY <1>1 DEF Goto, CallRow, Phase
<1> QED BY <1>1, <1>2 DEF CallRow, Host

LEMMA LocksOk == ASSUME TypeOK PROVE LocksTyped
BY DEF TypeOK, LocksTyped

LEMMA DemandsSmall == \A by : Demands(by) \subseteq Demand
BY DEF Demands, Demand

LEMMA BeginKeeps == ASSUME IInv, NEW c \in Call, Begin(c) PROVE IInv'
<1>1. CASE AskOpen(c)
  <2>1. PICK by \in Who, p \in Puzzle, d \in Demand :
          Ask(c, [NoCall EXCEPT !.op = "open", !.by = by, !.puzzle = p, !.demand = d])
    BY <1>1, DemandsSmall DEF AskOpen
  <2> DEFINE r == [NoCall EXCEPT !.op = "open", !.by = by, !.puzzle = p, !.demand = d]
  <2>2. r \in CallRow /\ r.op = "open" /\ r.puzzle = p /\ p # None
    BY ConstantAssumption DEF NoCall, CallRow
  <2> HIDE DEF r
  <2>3. Ask(c, r)
    BY <2>1 DEF r
  <2> QED BY <2>2, <2>3, Arrived
<1>2. CASE AskSend(c)
  <2>1. PICK by \in Who, k \in DOMAIN ticket, d \in Demand, force \in BOOLEAN :
          Ask(c, [NoCall EXCEPT !.op = "send", !.by = by, !.id = k, !.demand = d, !.force = force])
    BY <1>2, DemandsSmall DEF AskSend
  <2> DEFINE r == [NoCall EXCEPT !.op = "send", !.by = by, !.id = k, !.demand = d, !.force = force]
  <2>2. k \in Nat
    BY TicketTyped DEF IInv
  <2>3. r \in CallRow /\ r.op = "send" /\ r.id = k
    BY <2>2 DEF NoCall, CallRow
  <2> HIDE DEF r
  <2>4. Ask(c, r)
    BY <2>1 DEF r
  <2> QED BY <2>3, <2>4, Arrived
<1>3. CASE AskDm(c)
  <2>1. PICK by \in Who, d \in Demand, force \in BOOLEAN :
          Ask(c, [NoCall EXCEPT !.op = "dm", !.by = by, !.demand = d, !.force = force])
    BY <1>3, DemandsSmall DEF AskDm
  <2> DEFINE r == [NoCall EXCEPT !.op = "dm", !.by = by, !.demand = d, !.force = force]
  <2>2. r \in CallRow /\ r.op = "dm"
    BY DEF NoCall, CallRow
  <2> HIDE DEF r
  <2>3. Ask(c, r)
    BY <2>1 DEF r
  <2> QED BY <2>2, <2>3, Arrived
<1>4. CASE AskClose(c)
  <2>1. PICK by \in Answering, k \in DOMAIN ticket, said \in BOOLEAN, force \in BOOLEAN :
          Ask(c, [NoCall EXCEPT !.op = "close", !.by = by, !.id = k, !.said = said, !.force = force])
    BY <1>4 DEF AskClose
  <2> DEFINE r == [NoCall EXCEPT !.op = "close", !.by = by, !.id = k, !.said = said, !.force = force]
  <2>2. k \in Nat /\ by \in Mod /\ by \in Who
    BY TicketTyped, ConstantAssumption DEF IInv, Who
  <2>3. r \in CallRow /\ r.op = "close" /\ r.id = k /\ r.by = by
    BY <2>2, NoCallTyped DEF NoCall, CallRow
  <2> HIDE DEF r
  <2>4. Ask(c, r)
    BY <2>1 DEF r
  <2> QED BY <2>2, <2>3, <2>4, Arrived
<1>5. CASE AskSolve(c)
  <2>1. PICK p \in Puzzle :
          Ask(c, [NoCall EXCEPT !.op = "solve", !.by = Player, !.puzzle = p])
    BY <1>5 DEF AskSolve
  <2> DEFINE r == [NoCall EXCEPT !.op = "solve", !.by = Player, !.puzzle = p]
  <2>2. r \in CallRow /\ r.op = "solve" /\ r.puzzle # None
    BY NoCallTyped, ConstantAssumption DEF NoCall, CallRow, Who
  <2> HIDE DEF r
  <2>3. Ask(c, r)
    BY <2>1 DEF r
  <2> QED BY <2>2, <2>3, Arrived
<1>6. CASE AskBuy(c)
  <2>1. PICK by \in Who, m \in DOMAIN message :
          Ask(c, [NoCall EXCEPT !.op = "buy", !.by = by, !.id = m])
    BY <1>6 DEF AskBuy
  <2> DEFINE r == [NoCall EXCEPT !.op = "buy", !.by = by, !.id = m]
  <2>2. m \in Nat
    BY TicketTyped DEF IInv
  <2>3. r \in CallRow /\ r.op = "buy" /\ r.id = m
    BY <2>2, NoCallTyped DEF NoCall, CallRow
  <2> HIDE DEF r
  <2>4. Ask(c, r)
    BY <2>1 DEF r
  <2> QED BY <2>3, <2>4, Arrived
<1> QED BY <1>1, <1>2, <1>3, <1>4, <1>5, <1>6 DEF Begin

LEMMA OpenKeeps ==
  ASSUME IInv, NEW c \in Call, OpenLock(c) \/ OpenPending(c) \/ OpenReady(c)
  PROVE  IInv'
<1>0. TypeOK /\ LocksTyped /\ Fit(c)
  BY LocksOk DEF IInv
<1>1. CASE OpenLock(c)
  <2>1. /\ At(c, "open", "lock") /\ teamLock = None /\ Goto(c, "pending") /\ UNCHANGED rows
        /\ teamLock' = c /\ UNCHANGED <<ticketLock, messageLock, currencyLock>>
    BY <1>1 DEF OpenLock
  <2>2. call'[c].pc = "pending" /\ call'[c].op = "open"
    BY <1>0, <2>1, MovedCall DEF Phase, At
  <2>3. LocksTyped' /\ Held(c)' /\ Found(c)'
    BY <1>0, <2>1, <2>2 DEF LocksTyped, Held, Found, At
  <2>4. \A d \in Call \ {c} : teamLock # d
    BY <2>1, ConstantAssumption
  <2> QED BY <2>1, <2>3, <2>4, Moved DEF Phase, At
<1>2. CASE OpenPending(c)
  <2>1. CASE Refuse(c)
    BY <2>1, Refused
  <2>2. CASE Goto(c, "ready") /\ UNCHANGED <<rows, locks>> /\ NoneOpen
    <3>1. call'[c].pc = "ready" /\ call'[c].op = "open" /\ At(c, "open", "pending")
      BY <1>0, <1>2, <2>2, MovedCall DEF Phase, At, OpenPending
    <3>2. LocksTyped' /\ Held(c)' /\ NoneOpen'
      BY <1>0, <2>2, <3>1 DEF LocksTyped, Fit, Held, NoneOpen, OpenPuzzle, At, locks, rows
    <3>3. Found(c)'
      BY <3>1, <3>2 DEF Found, At
    <3> QED BY <2>2, <3>1, <3>2, <3>3, Moved DEF Phase, At, locks
  <2> QED BY <1>2, <2>1, <2>2 DEF OpenPending, NoneOpen, OpenPuzzle
<1>3. CASE OpenReady(c)
  <2>1. CASE Refuse(c)
    BY <2>1, Refused
  <2>2. CASE Goto(c, "write") /\ UNCHANGED <<rows, locks>>
    <3>1. call'[c].pc = "write" /\ call'[c].op = "open" /\ At(c, "open", "ready")
      BY <1>0, <1>3, <2>2, MovedCall DEF Phase, At, OpenReady
    <3>2. LocksTyped' /\ Held(c)' /\ NoneOpen'
      BY <1>0, <2>2, <3>1 DEF LocksTyped, Fit, Held, Found, NoneOpen, OpenPuzzle, At, locks, rows
    <3>3. Found(c)'
      BY <3>1, <3>2 DEF Found, At
    <3> QED BY <2>2, <3>1, <3>2, <3>3, Moved DEF Phase, At, locks
  <2> QED BY <1>3, <2>1, <2>2 DEF OpenReady
<1> QED BY <1>1, <1>2, <1>3

LEMMA SendKeeps ==
  ASSUME IInv, NEW c \in Call, SendLock(c) \/ SendCount(c)
  PROVE  IInv'
<1>0. TypeOK /\ LocksTyped /\ Fit(c) /\ Sized
  BY LocksOk DEF IInv, Rows
<1>1. PICK k : k = call[c].id
  OBVIOUS
<1>2. call[c].op = "send" /\ k \in DOMAIN ticket /\ k \in 1..MaxTickets
  BY <1>0, <1>1, TicketTyped, ConstantAssumption DEF Fit, Shaped, Sized, SendLock, SendCount, At
<1>3. CASE SendLock(c)
  <2>1. CASE Refuse(c)
    BY <2>1, Refused
  <2>2. CASE ~Taken(c, k) /\ ticketLock' = [ticketLock EXCEPT ![k] = c]
             /\ Goto(c, IF Host(c) THEN "write" ELSE "count")
             /\ UNCHANGED <<rows, teamLock, messageLock, currencyLock>>
    <3>1. PICK s \in {"write", "count"} : Goto(c, s) /\ (s = "write" <=> Host(c))
      BY <2>2
    <3>2. /\ call'[c].pc = s /\ call'[c].op = "send" /\ call'[c].id = k
          /\ call'[c].by = call[c].by /\ call'[c].force = call[c].force /\ Host(c)' = Host(c)
      BY <1>0, <1>1, <1>2, <3>1, MovedCall DEF Phase
    <3>3. LocksTyped' /\ Held(c)'
      BY <1>0, <1>2, <2>2, <3>2 DEF LocksTyped, Held, At
    <3>4. Taken(c, k)' = Taken(c, k)
      BY <2>2, <3>2 DEF Taken, rows
    <3>5. Found(c)'
      BY <2>2, <3>1, <3>2, <3>4 DEF Found, At
    <3>6. \A d \in Call \ {c}, j \in 1..MaxTickets : ticketLock[j] = d => ticketLock'[j] = d
      BY <1>0, <1>1, <1>2, <1>3, <2>2, ConstantAssumption DEF SendLock, LocksTyped
    <3> QED BY <1>3, <2>2, <3>1, <3>3, <3>5, <3>6, Moved DEF Phase, At, SendLock
  <2> QED BY <1>1, <1>3, <2>1, <2>2 DEF SendLock
<1>4. CASE SendCount(c)
  <2>1. CASE Refuse(c)
    BY <2>1, Refused
  <2>2. CASE ~(Cardinality(Pending(k)) >= Limit(k)) /\ Goto(c, "write") /\ UNCHANGED <<rows, locks>>
    <3>1. /\ call'[c].pc = "write" /\ call'[c].op = "send" /\ call'[c].id = k
          /\ call'[c].by = call[c].by /\ call'[c].force = call[c].force /\ Host(c)' = Host(c)
      BY <1>0, <1>1, <1>2, <2>2, MovedCall DEF Phase
    <3>2. LocksTyped' /\ Held(c)'
      BY <1>0, <1>1, <1>2, <1>4, <2>2, <3>1 DEF LocksTyped, Fit, Held, At, SendCount, locks
    <3>3. Pending(k)' = Pending(k) /\ Limit(k)' = Limit(k)
      BY <2>2 DEF Pending, Limit, rows
    <3>4. Cardinality(Pending(k)') < Limit(k)'
      BY <2>2, <3>3, PendingFinite, LimitTyped, <1>0
    <3>5. ~Host(c)
      BY <1>0, <1>4 DEF SendCount, Fit, Shaped, At
    <3>6. Found(c)'
      BY <3>1, <3>4, <3>5 DEF Found, At, Taken
    <3> QED BY <1>4, <2>2, <3>2, <3>6, Moved DEF Phase, At, SendCount, locks
  <2> QED BY <1>1, <1>4, <2>1, <2>2 DEF SendCount
<1> QED BY <1>3, <1>4

LEMMA LockKeeps ==
  ASSUME IInv, NEW c \in Call, CloseLock(c) \/ SolveLock(c) \/ BuyLock(c)
  PROVE  IInv'
<1>0. TypeOK /\ LocksTyped /\ Fit(c) /\ Sized
  BY LocksOk DEF IInv, Rows
<1>1. CASE Refuse(c)
  BY <1>1, Refused
<1>2. CASE CloseLock(c) /\ ~Refuse(c)
  <2>0. PICK k : k = call[c].id
    OBVIOUS
  <2>1. At(c, "close", "lock") /\ k \in 1..MaxTickets
    BY <1>0, <1>2, <2>0, TicketTyped, ConstantAssumption DEF Fit, Shaped, Sized, CloseLock, At
  <2>2. /\ ticketLock[k] = None /\ ticketLock' = [ticketLock EXCEPT ![k] = c]
        /\ Goto(c, "write") /\ UNCHANGED <<rows, teamLock, messageLock, currencyLock>>
    BY <1>2, <2>0 DEF CloseLock
  <2>3. call'[c].pc = "write" /\ call'[c].op = "close" /\ call'[c].id = k
    BY <1>0, <2>0, <2>1, <2>2, MovedCall DEF Phase, At
  <2>4. LocksTyped' /\ Held(c)' /\ Found(c)'
    BY <1>0, <2>1, <2>2, <2>3 DEF LocksTyped, Held, Found, At
  <2>5. \A d \in Call \ {c}, j \in 1..MaxTickets : ticketLock[j] = d => ticketLock'[j] = d
    BY <1>0, <2>1, <2>2, ConstantAssumption DEF LocksTyped
  <2> QED BY <2>1, <2>2, <2>4, <2>5, Moved DEF Phase, At
<1>3. CASE SolveLock(c) /\ ~Refuse(c)
  <2>1. PICK s \in {"pay", "write"} :
          /\ At(c, "solve", "lock") /\ teamLock = None /\ teamLock' = c /\ Goto(c, s)
          /\ UNCHANGED <<rows, ticketLock, messageLock, currencyLock>>
    BY <1>3 DEF SolveLock
  <2>2. call'[c].pc = s /\ call'[c].op = "solve"
    BY <1>0, <2>1, MovedCall DEF Phase, At
  <2>3. LocksTyped' /\ Held(c)' /\ Found(c)'
    BY <1>0, <2>1, <2>2 DEF LocksTyped, Held, Found, At
  <2>4. \A d \in Call \ {c} : teamLock # d
    BY <2>1, ConstantAssumption
  <2> QED BY <2>1, <2>3, <2>4, Moved DEF Phase, At
<1>4. CASE BuyLock(c) /\ ~Refuse(c)
  <2>0. PICK m : m = call[c].id
    OBVIOUS
  <2>1. PICK s \in {"pay", "write"} :
          /\ At(c, "buy", "lock") /\ messageLock' = [messageLock EXCEPT ![m] = c]
          /\ Goto(c, s) /\ UNCHANGED <<rows, teamLock, ticketLock, currencyLock>>
    BY <1>4, <2>0 DEF BuyLock
  <2>2. call'[c].pc = s /\ call'[c].op = "buy"
    BY <1>0, <2>1, MovedCall DEF Phase, At
  <2>3. LocksTyped' /\ Held(c)' /\ Found(c)'
    BY <1>0, <2>1, <2>2 DEF LocksTyped, Held, Found, At
  <2> QED BY <2>1, <2>3, Moved DEF Phase, At
<1> QED BY <1>1, <1>2, <1>3, <1>4

(* The currency is locked in addition.                                     *)
LEMMA PayKeeps ==
  ASSUME IInv, NEW c \in Call, SolvePay(c) \/ BuyPay(c)
  PROVE  IInv'
<1>0. TypeOK /\ LocksTyped
  BY LocksOk DEF IInv
<1>1. CASE Refuse(c)
  BY <1>1, Refused
<1>2. CASE ~Refuse(c)
  <2>1. /\ call[c].op \in {"solve", "buy"} /\ call[c].pc = "pay" /\ currencyLock' = c
        /\ Goto(c, "write") /\ UNCHANGED <<rows, teamLock, ticketLock, messageLock>>
    BY <1>2 DEF SolvePay, BuyPay, At
  <2>2. call'[c].pc = "write" /\ call'[c].op \in {"solve", "buy"}
    BY <1>0, <2>1, MovedCall DEF Phase
  <2>3. LocksTyped' /\ Held(c)' /\ Found(c)'
    BY <1>0, <2>1, <2>2 DEF LocksTyped, Held, Found, At
  <2> QED BY <2>1, <2>3, Moved DEF Phase
<1> QED BY <1>1, <1>2

-----------------------------------------------------------------------------
(* Steps of the staff, and time, that no transaction overlaps.             *)

(* A ticket that changes in whether it is open or who answers it.          *)
LEMMA TicketsChanged ==
  ASSUME TypeOK, Rows, UNCHANGED message,
         DOMAIN ticket' = DOMAIN ticket, ticket' \in Seq(TicketRow),
         \A k \in DOMAIN ticket :
           ticket'[k].puzzle = ticket[k].puzzle /\ (ticket'[k].open => ticket[k].open)
  PROVE  Rows' /\ (NoneOpen => NoneOpen') /\ \A k : Pending(k)' = Pending(k)
<1>1. \A k : Pending(k)' = Pending(k)
  BY DEF Pending
<1>2. \A k \in DOMAIN ticket : Limit(k)' = Limit(k) /\ (OpenPuzzle(k)' => OpenPuzzle(k))
  BY DEF Limit, OpenPuzzle
<1>3. Len(ticket') = Len(ticket)
  BY TicketTyped
<1>4. Sized' /\ OneOpen' /\ Paid' /\ (NoneOpen => NoneOpen')
  BY <1>2, <1>3 DEF Rows, Sized, OneOpen, OpenPuzzle, Paid, Locked, NoneOpen
<1>5. PendingLimit'
  BY <1>1, <1>2 DEF Rows, PendingLimit
<1> QED BY <1>1, <1>4, <1>5 DEF Rows

LEMMA Everyone ==
  ASSUME IInv, TypeOK', Rows', \A d \in Call : Keeps(d)
  PROVE  IInv'
BY KeepsFit DEF IInv, Rows

LEMMA AssigneeKeeps ==
  ASSUME IInv, NEW k \in DOMAIN ticket, NEW who \in Mod \cup {None},
         ticketLock[k] = None, ticket' = [ticket EXCEPT ![k].assignee = who],
         UNCHANGED <<message, solved, locks, call>>
  PROVE  IInv'
<1>0. TypeOK /\ Rows /\ ticket \in Seq(TicketRow) /\ DOMAIN ticket = 1..Len(ticket)
      /\ Len(ticket) \in Nat
  BY TicketTyped DEF IInv
<1>1. ticket' \in Seq(TicketRow) /\ DOMAIN ticket' = DOMAIN ticket
  <2> DEFINE row == [ticket[k] EXCEPT !.assignee = who]
  <2>1. row \in TicketRow
    BY <1>0, TicketTyped DEF TicketRow
  <2>2. ticket' = [ticket EXCEPT ![k] = row]
    OBVIOUS
  <2> HIDE DEF row
  <2> QED BY <1>0, <2>1, <2>2, RowChanged
<1>2. \A j \in DOMAIN ticket :
        /\ ticket'[j].puzzle = ticket[j].puzzle /\ ticket'[j].open = ticket[j].open
        /\ j # k => ticket'[j].assignee = ticket[j].assignee
  BY <1>0 DEF TicketRow
<1>3. TypeOK'
  BY <1>0, <1>1 DEF TypeOK, TicketRow, locks
<1>4. Rows' /\ (NoneOpen => NoneOpen') /\ \A j : Pending(j)' = Pending(j)
  BY <1>0, <1>1, <1>2, TicketsChanged
<1>5. ASSUME NEW d \in Call PROVE Keeps(d)
  <2>1. d # None
    BY ConstantAssumption
  <2> QED BY <1>1, <1>2, <1>4, <2>1 DEF Keeps, LocksKept, locks
<1> QED BY <1>3, <1>4, <1>5, Everyone

(* Messages that keep their ticket and their author.                       *)
LEMMA MessagesChanged ==
  ASSUME TypeOK, Rows, UNCHANGED ticket, message' \in Seq(Message),
         DOMAIN message' = DOMAIN message,
         \A m \in DOMAIN message :
           message'[m].ticket = message[m].ticket /\ message'[m].host = message[m].host,
         Paid'
  PROVE  Rows' /\ (NoneOpen => NoneOpen') /\ \A k : Pending(k)' = Pending(k)
<1>1. \A k : Pending(k)' = Pending(k)
  BY PendingSame
<1>2. PendingLimit'
  BY <1>1 DEF Rows, PendingLimit, Limit
<1>3. Len(message') = Len(message)
  BY TicketTyped
<1>4. Sized' /\ OneOpen' /\ (NoneOpen => NoneOpen')
  BY <1>3 DEF Rows, Sized, OneOpen, OpenPuzzle, NoneOpen
<1> QED BY <1>1, <1>2, <1>4 DEF Rows

LEMMA DeskKeeps == ASSUME IInv, Desk PROVE IInv'
<1>1. ASSUME NEW by \in Mod, NEW k \in 1..MaxTickets, NEW force \in BOOLEAN, Assign(by, k, force)
      PROVE  IInv'
  BY <1>1, AssigneeKeeps DEF Assign
<1>2. ASSUME NEW by \in Mod, NEW k \in 1..MaxTickets, Unassign(by, k)
      PROVE  IInv'
  BY <1>2, AssigneeKeeps DEF Unassign
<1>3. ASSUME NEW m \in 1..MaxMessages, Elapse(m)
      PROVE  IInv'
  <2>0. TypeOK /\ Rows /\ message \in Seq(Message) /\ m \in DOMAIN message
        /\ \A n \in DOMAIN message : message[n] \in Message
    BY <1>3, TicketTyped DEF IInv, Elapse
  <2>1. message' = [message EXCEPT ![m].wait = "past"]
        /\ UNCHANGED <<ticket, solved, locks, call>>
    BY <1>3 DEF Elapse
  <2>2. message' \in Seq(Message) /\ DOMAIN message' = DOMAIN message
    <3> DEFINE row == [message[m] EXCEPT !.wait = "past"]
    <3>1. row \in Message
      BY <2>0 DEF Message
    <3>2. message' = [message EXCEPT ![m] = row]
      BY <2>1
    <3> HIDE DEF row
    <3> QED BY <2>0, <3>1, <3>2, RowChanged
  <2>3. \A n \in DOMAIN message :
          /\ message'[n].ticket = message[n].ticket /\ message'[n].host = message[n].host
          /\ message'[n].charged = message[n].charged /\ message'[n].cost = message[n].cost
          /\ message'[n].unlocked = message[n].unlocked /\ message'[n].freed = message[n].freed
    BY <2>0, <2>1 DEF Message
  <2>4. TypeOK'
    BY <2>0, <2>1, <2>2 DEF TypeOK, locks
  <2>5. Paid'
    BY <2>0, <2>2, <2>3 DEF Rows, Paid, Locked
  <2>6. Rows' /\ (NoneOpen => NoneOpen') /\ \A k : Pending(k)' = Pending(k)
    BY <2>0, <2>1, <2>2, <2>3, <2>5, MessagesChanged
  <2>7. \A d \in Call : Keeps(d)
    BY <2>1, <2>2, <2>6 DEF Keeps, LocksKept, locks
  <2> QED BY <2>4, <2>6, <2>7, Everyone
<1> QED BY <1>1, <1>2, <1>3 DEF Desk

-----------------------------------------------------------------------------
(* Steps that write the rows.                                              *)

(* A message is written about a ticket that is there.                      *)
LEMMA MessageWritten ==
  ASSUME TypeOK, Sized, Paid, NEW c \in Call, NEW k \in 1..MaxTickets,
         message' = Written(c, k), Room, k \in DOMAIN ticket',
         DOMAIN ticket \subseteq DOMAIN ticket'
  PROVE  /\ message' \in Seq(Message) /\ Len(message') <= MaxMessages
         /\ DOMAIN message \subseteq DOMAIN message'
         /\ \A m \in DOMAIN message' : message'[m].ticket \in DOMAIN ticket'
         /\ Paid'
<1> DEFINE n == Len(message) + 1
<1>1. /\ message' \in Seq(Message) /\ Len(message') = n
      /\ \A m \in DOMAIN message : message'[m] = message[m]
      /\ message'[n].ticket = k /\ message'[n].charged = 0
      /\ message'[n].cost => ~message'[n].unlocked
  BY WrittenTyped
<1>2. /\ DOMAIN message = 1..Len(message) /\ DOMAIN message' = 1..n /\ Len(message) \in Nat
      /\ Len(message) < MaxMessages /\ MaxMessages \in Nat
  BY <1>1, TicketTyped, ConstantAssumption DEF Room
<1>3. \A m \in DOMAIN message' : m \in DOMAIN message \/ m = n
  BY <1>2
<1>4. \A m \in DOMAIN message' : message'[m].ticket \in DOMAIN ticket'
  BY <1>1, <1>3 DEF Sized
<1>5. Paid'
  BY <1>1, <1>3 DEF Paid, Locked
<1> QED BY <1>1, <1>2, <1>4, <1>5

(* A message to a ticket whose lock the writer has, and the ticket with it. *)
LEMMA Answered ==
  ASSUME IInv, NEW c \in Call, NEW k \in DOMAIN ticket, ticketLock[k] = c,
         ticket' \in Seq(TicketRow), DOMAIN ticket' = DOMAIN ticket,
         \A j \in DOMAIN ticket :
           /\ ticket'[j].puzzle = ticket[j].puzzle /\ (ticket'[j].open => ticket[j].open)
           /\ j # k => ticket'[j].assignee = ticket[j].assignee,
         message' = Written(c, k), Room, End(c), UNCHANGED solved,
         ~Host(c) => Cardinality(Pending(k)) < Limit(k)
  PROVE  IInv'
<1>0. TypeOK /\ Rows /\ Sized /\ Paid /\ OneOpen /\ PendingLimit /\ k \in 1..MaxTickets
      /\ Len(ticket') = Len(ticket) /\ Len(ticket) <= MaxTickets
  BY TicketTyped, ConstantAssumption DEF IInv, Rows, Sized
<1>1. /\ message' \in Seq(Message) /\ Len(message') <= MaxMessages
      /\ DOMAIN message \subseteq DOMAIN message'
      /\ \A m \in DOMAIN message' : message'[m].ticket \in DOMAIN ticket'
      /\ Paid'
  BY <1>0, MessageWritten
<1>2. TypeOK'
  BY <1>0, <1>1, Ended DEF TypeOK, CallRow, TicketRow
<1>3. /\ \A j : j # k => Pending(j)' = Pending(j)
      /\ Host(c) => Pending(k)' = {}
      /\ ~Host(c) => Pending(k)' = Pending(k) \cup {Len(message) + 1}
  BY <1>0, PendingWritten
<1>4. \A j \in DOMAIN ticket : Limit(j)' = Limit(j) /\ (OpenPuzzle(j)' => OpenPuzzle(j))
  BY DEF Limit, OpenPuzzle
<1>5. Cardinality(Pending(k)') <= Limit(k)
  <2>1. CASE Host(c)
    <3>1. Pending(k)' = {}
      BY <1>3, <2>1
    <3>2. Cardinality({}) = 0
      BY FS_EmptySet
    <3>3. Cardinality(Pending(k)') = 0
      BY <3>1, <3>2, Zenon
    <3> QED BY <3>3, LimitTyped
  <2>2. CASE ~Host(c)
    <3>1. /\ Pending(k) \subseteq 1..Len(message) /\ IsFiniteSet(Pending(k))
          /\ Cardinality(Pending(k)) \in Nat /\ Len(message) \in Nat
      BY <1>0, PendingFinite, TicketTyped
    <3>2. Len(message) + 1 \notin Pending(k)
      BY <3>1
    <3>3. Cardinality(Pending(k)') = Cardinality(Pending(k)) + 1
      BY <1>3, <2>2, <3>1, <3>2, FS_AddElement
    <3> QED BY <2>2, <3>1, <3>3, LimitTyped
  <2> QED BY <2>1, <2>2
<1>6. PendingLimit'
  <2>1. ASSUME NEW j \in DOMAIN ticket PROVE Cardinality(Pending(j)') <= Limit(j)
    BY <1>0, <1>3, <1>5 DEF PendingLimit
  <2> QED BY <1>4, <2>1 DEF PendingLimit
<1>7. OneOpen' /\ (NoneOpen => NoneOpen')
  BY <1>0, <1>4 DEF OneOpen, NoneOpen
<1>8. Rows'
  BY <1>0, <1>1, <1>6, <1>7 DEF Rows, Sized
<1>9. ASSUME NEW d \in Call \ {c} PROVE Keeps(d)
  BY <1>0, <1>1, <1>3, <1>7, Ended DEF Keeps
<1> QED BY <1>0, <1>2, <1>8, <1>9, Ended, Inductive

LEMMA OpenCommitKeeps == ASSUME IInv, NEW c \in Call, OpenCommit(c) PROVE IInv'
<1> DEFINE n == Len(ticket) + 1
<1>0. TypeOK /\ Sized /\ Paid /\ PendingLimit /\ Fit(c)
  BY DEF IInv, Rows
<1>1. /\ At(c, "open", "write") /\ Room /\ Len(ticket) < MaxTickets
      /\ ticket' = Append(ticket, [open |-> TRUE, puzzle |-> call[c].puzzle, assignee |-> None])
      /\ message' = Written(c, n) /\ End(c) /\ UNCHANGED solved
  BY DEF OpenCommit
<1>2. call[c].puzzle \in Puzzle /\ call[c].puzzle # None
  BY <1>0, <1>1, CallTyped DEF Fit, Shaped, At, CallRow
<1>3. teamLock = c /\ NoneOpen
  BY <1>0, <1>1 DEF Fit, Held, Found, At
<1>4. /\ ticket' \in Seq(TicketRow) /\ Len(ticket') = n /\ DOMAIN ticket' = DOMAIN ticket \cup {n}
      /\ \A j \in DOMAIN ticket : ticket'[j] = ticket[j]
      /\ ticket'[n].puzzle # None /\ n \notin DOMAIN ticket
  <2> DEFINE row == [open |-> TRUE, puzzle |-> call[c].puzzle, assignee |-> None]
  <2>1. row \in TicketRow /\ row.puzzle # None
    BY <1>2 DEF TicketRow
  <2>2. ticket' = Append(ticket, row) /\ ticket \in Seq(TicketRow)
    BY <1>0, <1>1, TicketTyped
  <2> HIDE DEF row
  <2> QED BY <2>1, <2>2
<1>5. PICK k \in 1..MaxTickets : k = n
  BY <1>0, <1>1, TicketTyped, ConstantAssumption
<1>6. /\ message' \in Seq(Message) /\ Len(message') <= MaxMessages
      /\ DOMAIN message \subseteq DOMAIN message'
      /\ \A m \in DOMAIN message' : message'[m].ticket \in DOMAIN ticket'
      /\ Paid'
  BY <1>0, <1>1, <1>4, <1>5, MessageWritten
<1>7. TypeOK'
  BY <1>0, <1>1, <1>4, <1>6, Ended DEF TypeOK, CallRow, TicketRow
<1>8. /\ \A j \in DOMAIN ticket : Pending(j)' = Pending(j) /\ Limit(j)' = Limit(j)
      /\ Pending(k)' \subseteq {Len(message) + 1} /\ Limit(k)' = PuzzleLimit
  <2>1. Pending(k) = {}
    BY <1>0, <1>4, <1>5 DEF Pending, Sized
  <2>2. \A j \in DOMAIN ticket : j # k
    BY <1>4, <1>5
  <2> QED BY <1>0, <1>1, <1>4, <1>5, <2>1, <2>2, PendingWritten DEF Limit
<1>9. Cardinality(Pending(k)') <= Limit(k)'
  <2>1. /\ IsFiniteSet({Len(message) + 1}) /\ Cardinality({Len(message) + 1}) = 1
    BY FS_Singleton
  <2>2. Cardinality(Pending(k)') <= 1 /\ Cardinality(Pending(k)') \in Nat
    BY <1>8, <2>1, FS_Subset, FS_CardinalityType
  <2> QED BY <1>8, <2>2, ConstantAssumption
<1>10. PendingLimit'
  BY <1>0, <1>4, <1>5, <1>8, <1>9 DEF PendingLimit
<1>11. OneOpen'
  BY <1>3, <1>4 DEF OneOpen, NoneOpen, OpenPuzzle
<1>12. Rows'
  BY <1>0, <1>1, <1>4, <1>6, <1>10, <1>11, TicketTyped, ConstantAssumption DEF Rows, Sized
<1>13. ASSUME NEW d \in Call \ {c} PROVE Keeps(d)
  BY <1>0, <1>1, <1>3, <1>4, <1>6, <1>8, Ended DEF Keeps
<1> QED BY <1>0, <1>1, <1>7, <1>12, <1>13, Ended, Inductive

LEMMA DmCreateKeeps == ASSUME IInv, NEW c \in Call, DmCreate(c) PROVE IInv'
<1> DEFINE n == Len(ticket) + 1
<1>0. TypeOK /\ Rows /\ Sized /\ OneOpen /\ PendingLimit /\ call \in [Call -> CallRow]
  BY DEF IInv, Rows, TypeOK, CallRow
<1>1. At(c, "dm", "lock") /\ UNCHANGED <<message, solved, locks>>
  BY DEF DmCreate
<1>2. ASSUME NEW k \in Nat, k \in DOMAIN ticket',
             call' = [call EXCEPT ![c].op = "send", ![c].id = k]
      PROVE  /\ call' \in [Call -> CallRow] /\ Fit(c)'
             /\ \A d \in Call \ {c} : LocksKept(d)
  <2>1. /\ call' \in [Call -> CallRow] /\ \A d \in Call \ {c} : call'[d] = call[d]
        /\ call'[c] = [call[c] EXCEPT !.op = "send", !.id = k]
    <3> DEFINE new == [call[c] EXCEPT !.op = "send", !.id = k]
    <3>1. new \in CallRow
      <4>1. call[c] \in CallRow
        BY <1>0
      <4> QED BY <4>1 DEF CallRow
    <3>2. call' = [call EXCEPT ![c] = new]
      BY <1>0, <1>2
    <3> QED BY <1>0, <3>1, <3>2
  <2>2. call'[c].op = "send" /\ call'[c].id = k /\ call'[c].pc = "lock"
    BY <1>0, <1>1, <2>1 DEF CallRow, At
  <2>3. Fit(c)'
    BY <1>2, <2>2 DEF Fit, Shaped, Held, Found, At
  <2> QED BY <1>1, <2>1, <2>3 DEF LocksKept, locks
<1>3. CASE DmTicket # {}
  <2>1. PICK k \in DmTicket : call' = [call EXCEPT ![c].op = "send", ![c].id = k]
    BY <1>3 DEF DmCreate
  <2>2. UNCHANGED rows
    BY <1>1, <1>3 DEF DmCreate, rows
  <2>3. k \in Nat /\ k \in DOMAIN ticket'
    BY <1>0, <2>2, TicketTyped DEF DmTicket, rows
  <2>4. TypeOK'
    BY <1>0, <1>1, <1>2, <2>1, <2>2, <2>3 DEF TypeOK, CallRow, locks, rows
  <2> QED BY <1>2, <2>1, <2>2, <2>3, <2>4, Local
<1>4. CASE DmTicket = {}
  <2>1. /\ Len(ticket) < MaxTickets
        /\ ticket' = Append(ticket, [open |-> TRUE, puzzle |-> None, assignee |-> None])
        /\ call' = [call EXCEPT ![c].op = "send", ![c].id = n]
    BY <1>4 DEF DmCreate
  <2>2. /\ ticket' \in Seq(TicketRow) /\ Len(ticket') = n /\ DOMAIN ticket' = DOMAIN ticket \cup {n}
        /\ \A j \in DOMAIN ticket : ticket'[j] = ticket[j]
        /\ ticket'[n].puzzle = None /\ n \notin DOMAIN ticket
    <3> DEFINE row == [open |-> TRUE, puzzle |-> None, assignee |-> None]
    <3>1. row \in TicketRow /\ row.puzzle = None
      BY DEF TicketRow
    <3>2. ticket' = Append(ticket, row) /\ ticket \in Seq(TicketRow)
      BY <1>0, <2>1, TicketTyped
    <3> HIDE DEF row
    <3> QED BY <3>1, <3>2
  <2>3. PICK k \in 1..MaxTickets : k = n
    BY <1>0, <2>1, TicketTyped, ConstantAssumption
  <2>4. call' \in [Call -> CallRow] /\ Fit(c)' /\ \A d \in Call \ {c} : LocksKept(d)
    <3>1. k \in Nat /\ k \in DOMAIN ticket'
      BY <2>2, <2>3
    <3>2. call' = [call EXCEPT ![c].op = "send", ![c].id = k]
      BY <2>1, <2>3
    <3> QED BY <1>2, <3>1, <3>2
  <2>5. TypeOK'
    BY <1>0, <1>1, <2>2, <2>4 DEF TypeOK, CallRow, TicketRow, locks
  <2>6. \A j : Pending(j)' = Pending(j)
    BY <1>1 DEF Pending
  <2>7. PendingLimit'
    <3>1. ASSUME NEW j \in DOMAIN ticket PROVE Cardinality(Pending(j)') <= Limit(j)'
      BY <1>0, <2>2, <2>6 DEF PendingLimit, Limit
    <3>2. Pending(k)' = {}
      BY <1>0, <2>2, <2>3, <2>6 DEF Pending, Sized
    <3>3. Cardinality({}) = 0 /\ Limit(k)' = DmLimit
      BY <2>2, <2>3, FS_EmptySet DEF Limit
    <3>4. Cardinality(Pending(k)') = 0
      BY <3>2, <3>3, Zenon
    <3>5. Cardinality(Pending(k)') <= Limit(k)'
      BY <3>3, <3>4, ConstantAssumption
    <3> QED BY <2>2, <2>3, <3>1, <3>5 DEF PendingLimit
  <2>8. Rows' /\ (NoneOpen => NoneOpen')
    <3>1. Sized'
      BY <1>0, <1>1, <2>1, <2>2, TicketTyped, ConstantAssumption DEF Sized
    <3>2. OneOpen' /\ (NoneOpen => NoneOpen')
      BY <1>0, <2>2 DEF OneOpen, NoneOpen, OpenPuzzle
    <3>3. Paid'
      BY <1>0, <1>1 DEF Rows, Paid, Locked
    <3> QED BY <2>7, <3>1, <3>2, <3>3 DEF Rows
  <2>9. \A d \in Call \ {c} : Keeps(d)
    BY <1>1, <2>2, <2>4, <2>6, <2>8 DEF Keeps
  <2> QED BY <2>4, <2>5, <2>8, <2>9, Inductive
<1> QED BY <1>3, <1>4

LEMMA AssignedTyped ==
  ASSUME TypeOK, NEW c \in Call, NEW k \in DOMAIN ticket
  PROVE  Assigned(c, k) \in Mod \cup {None}
<1>1. ticket[k].assignee \in Mod \cup {None}
  BY TicketTyped DEF TicketRow
<1> QED BY <1>1 DEF Assigned, Host

LEMMA SendCommitKeeps == ASSUME IInv, NEW c \in Call, SendCommit(c) PROVE IInv'
<1>0. TypeOK /\ Fit(c) /\ call[c].op = "send" /\ call[c].pc = "write"
      /\ ticket \in Seq(TicketRow)
  BY TicketTyped DEF IInv, SendCommit, At
<1>1. PICK k \in DOMAIN ticket : k = call[c].id
  BY <1>0 DEF Fit, Shaped
<1>2. ticketLock[k] = c /\ (~Host(c) => Cardinality(Pending(k)) < Limit(k))
  BY <1>0, <1>1 DEF Fit, Held, Found, At
<1>3. /\ Room /\ message' = Written(c, k) /\ End(c) /\ UNCHANGED solved
      /\ ticket' = [ticket EXCEPT ![k].assignee = Assigned(c, k)]
  BY <1>1 DEF SendCommit
<1> DEFINE who == Assigned(c, k)
           row == [ticket[k] EXCEPT !.assignee = who]
<1>4. row \in TicketRow /\ row.puzzle = ticket[k].puzzle /\ row.open = ticket[k].open
  <2>1. who \in Mod \cup {None} /\ ticket[k] \in TicketRow
    BY <1>0, AssignedTyped, TicketTyped
  <2> HIDE DEF who
  <2> QED BY <2>1 DEF TicketRow
<1>5. ticket' = [ticket EXCEPT ![k] = row]
  BY <1>3
<1> HIDE DEF row
<1>6. ticket' \in Seq(TicketRow) /\ DOMAIN ticket' = DOMAIN ticket
  BY <1>0, <1>4, <1>5, RowChanged
<1>7. \A j \in DOMAIN ticket : ticket'[j] = IF j = k THEN row ELSE ticket[j]
  BY <1>5
<1> QED BY <1>2, <1>3, <1>4, <1>6, <1>7, Answered

LEMMA CloseCommitKeeps == ASSUME IInv, NEW c \in Call, CloseCommit(c) PROVE IInv'
<1>0. TypeOK /\ Rows /\ Fit(c) /\ call[c].op = "close" /\ call[c].pc = "write"
      /\ ticket \in Seq(TicketRow)
  BY TicketTyped DEF IInv, CloseCommit, At
<1>1. PICK k \in DOMAIN ticket : k = call[c].id
  BY <1>0 DEF Fit, Shaped
<1>2. ticketLock[k] = c /\ Host(c)
  BY <1>0, <1>1 DEF Fit, Shaped, Held, At
<1>3. PICK who \in Mod \cup {None} :
        ticket' = [ticket EXCEPT ![k].open = FALSE, ![k].assignee = who]
  <2>1. ticket[k].assignee \in Mod \cup {None} /\ Assigned(c, k) \in Mod \cup {None}
    BY <1>0, AssignedTyped, TicketTyped DEF TicketRow
  <2>2. ticket' = [ticket EXCEPT ![k].open = FALSE,
                                 ![k].assignee = IF call[c].said THEN Assigned(c, k) ELSE @]
    BY <1>1 DEF CloseCommit
  <2>3. CASE call[c].said
    BY <2>1, <2>2, <2>3
  <2>4. CASE ~call[c].said
    BY <1>0, <2>1, <2>2, <2>4
  <2> QED BY <2>3, <2>4
<1> DEFINE row == [ticket[k] EXCEPT !.open = FALSE, !.assignee = who]
<1>4. row \in TicketRow /\ row.puzzle = ticket[k].puzzle /\ row.open = FALSE
  <2>1. ticket[k] \in TicketRow
    BY <1>0, TicketTyped
  <2> QED BY <2>1 DEF TicketRow
<1>5. ticket' = [ticket EXCEPT ![k] = row]
  BY <1>0, <1>3
<1> HIDE DEF row
<1>6. ticket' \in Seq(TicketRow) /\ DOMAIN ticket' = DOMAIN ticket
  BY <1>0, <1>4, <1>5, RowChanged
<1>7. \A j \in DOMAIN ticket : ticket'[j] = IF j = k THEN row ELSE ticket[j]
  BY <1>5
<1>8. /\ Room /\ End(c) /\ UNCHANGED solved
      /\ message' = IF call[c].said THEN Written(c, k) ELSE message
  BY <1>1 DEF CloseCommit
<1>9. \A j \in DOMAIN ticket :
        /\ ticket'[j].puzzle = ticket[j].puzzle /\ (ticket'[j].open => ticket[j].open)
        /\ j # k => ticket'[j].assignee = ticket[j].assignee
  BY <1>4, <1>7
<1>10. CASE call[c].said
  BY <1>2, <1>6, <1>8, <1>9, <1>10, Answered
<1>11. CASE ~call[c].said
  <2>1. Rows' /\ (NoneOpen => NoneOpen') /\ \A j : Pending(j)' = Pending(j)
    BY <1>0, <1>6, <1>8, <1>9, <1>11, TicketsChanged
  <2>2. TypeOK'
    BY <1>0, <1>6, <1>8, <1>11, Ended DEF TypeOK, CallRow, TicketRow
  <2>3. k \in 1..MaxTickets
    BY <1>0, TicketTyped, ConstantAssumption DEF Rows, Sized
  <2>4. \A d \in Call \ {c} : Keeps(d)
    BY <1>0, <1>2, <1>6, <1>8, <1>9, <1>11, <2>1, <2>3, Ended DEF Keeps
  <2> QED BY <1>0, <1>8, <2>1, <2>2, <2>4, Ended, Inductive
<1> QED BY <1>10, <1>11

LEMMA SolveCommitKeeps == ASSUME IInv, NEW c \in Call, SolveCommit(c) PROVE IInv'
<1>0. TypeOK /\ Rows /\ Fit(c) /\ At(c, "solve", "write")
      /\ ticket \in Seq(TicketRow) /\ DOMAIN ticket = 1..Len(ticket) /\ Len(ticket) \in Nat
  BY TicketTyped DEF IInv, SolveCommit
<1> DEFINE about == {k \in DOMAIN ticket : ticket[k].open /\ ticket[k].puzzle = call[c].puzzle}
           row(k) == [ticket[k] EXCEPT !.open = ticket[k].open /\ k \notin about]
<1>1. /\ ticket' = [k \in DOMAIN ticket |-> row(k)]
      /\ solved' = solved \cup {call[c].puzzle} /\ End(c) /\ UNCHANGED message
  BY DEF SolveCommit
<1>2. call[c].puzzle \in Puzzle
  BY <1>0, CallTyped DEF Fit, Shaped, At, CallRow
<1>3. ASSUME NEW k \in DOMAIN ticket
      PROVE  /\ row(k) \in TicketRow /\ row(k).puzzle = ticket[k].puzzle
             /\ row(k).assignee = ticket[k].assignee /\ (row(k).open => ticket[k].open)
  <2>1. ticket[k] \in TicketRow
    BY <1>0, TicketTyped
  <2>2. CASE k \in about
    <3>1. (ticket[k].open /\ k \notin about) = FALSE
      BY <2>2
    <3>2. row(k) = [ticket[k] EXCEPT !.open = FALSE]
      BY <3>1
    <3> HIDE DEF about, row
    <3> QED BY <2>1, <3>2 DEF TicketRow
  <2>3. CASE k \notin about
    <3>0. ticket[k].open \in BOOLEAN
      BY <2>1 DEF TicketRow
    <3>1. (ticket[k].open /\ k \notin about) = ticket[k].open
      BY <2>3, <3>0
    <3>2. row(k) = [ticket[k] EXCEPT !.open = ticket[k].open]
      BY <3>1
    <3> HIDE DEF about, row
    <3> QED BY <2>1, <3>2 DEF TicketRow
  <2> QED BY <2>2, <2>3
<1> HIDE DEF about, row
<1>4. ticket' \in Seq(TicketRow) /\ DOMAIN ticket' = DOMAIN ticket
  <2>1. ticket' \in [1..Len(ticket) -> TicketRow]
    BY <1>0, <1>1, <1>3
  <2> QED BY <1>0, <2>1
<1>5. \A k \in DOMAIN ticket :
        /\ ticket'[k].puzzle = ticket[k].puzzle /\ ticket'[k].assignee = ticket[k].assignee
        /\ ticket'[k].open => ticket[k].open
  BY <1>1, <1>3
<1>6. Rows' /\ (NoneOpen => NoneOpen') /\ \A j : Pending(j)' = Pending(j)
  BY <1>0, <1>1, <1>4, <1>5, TicketsChanged
<1>7. TypeOK'
  BY <1>0, <1>1, <1>2, <1>4, Ended DEF TypeOK, CallRow, TicketRow
<1>8. \A d \in Call \ {c} : Keeps(d)
  BY <1>0, <1>1, <1>4, <1>5, <1>6, Ended DEF Keeps
<1> QED BY <1>0, <1>1, <1>6, <1>7, <1>8, Ended, Inductive

(* What is bought was locked, so nobody has paid for it before.            *)
LEMMA BuyCommitKeeps == ASSUME IInv, NEW c \in Call, BuyCommit(c) PROVE IInv'
<1>0. TypeOK /\ Rows /\ Fit(c) /\ At(c, "buy", "write") /\ Paid
      /\ message \in Seq(Message) /\ \A n \in DOMAIN message : message[n] \in Message
  BY TicketTyped DEF IInv, BuyCommit, Rows
<1>1. PICK m \in DOMAIN message : m = call[c].id
  BY <1>0 DEF Fit, Shaped, At
<1>2. CASE Refuse(c)
  BY <1>2, Refused
<1>3. CASE ~Refuse(c)
  <2> DEFINE host == Host(c)
             pays == Pays(c, m)
  <2>1. /\ Locked(m) /\ End(c) /\ UNCHANGED <<ticket, solved>>
        /\ message' = [message EXCEPT ![m].unlocked = TRUE,
                                      ![m].charged = IF pays THEN @ + 1 ELSE @,
                                      ![m].freed = @ \/ host]
    BY <1>1, <1>3 DEF BuyCommit
  <2>2. host \in BOOLEAN
    BY DEF Host
  <2>3. ~message[m].unlocked /\ message[m].charged = 0 /\ message[m] \in Message
    BY <1>0, <2>1 DEF Paid, Locked
  <2> DEFINE freed == message[m].freed \/ host
  <2>4. freed \in BOOLEAN /\ (host => freed) /\ (message[m].cost => pays \/ host)
    BY <2>2, <2>3 DEF Message, Pays
  <2>5. PICK n \in {0, 1} :
          /\ pays => n = 1
          /\ message' = [message EXCEPT ![m].unlocked = TRUE, ![m].charged = n,
                                        ![m].freed = freed]
    <3>1. CASE pays
      BY <1>0, <2>1, <2>3, <3>1
    <3>2. CASE ~pays
      BY <1>0, <2>1, <2>3, <3>2
    <3> QED BY <3>1, <3>2
  <2> HIDE DEF host, freed
  <2> DEFINE row == [message[m] EXCEPT !.unlocked = TRUE, !.charged = n, !.freed = freed]
  <2>6. message' = [message EXCEPT ![m] = row]
    BY <1>0, <2>5
  <2>7. /\ row \in Message /\ row.ticket = message[m].ticket /\ row.host = message[m].host
         /\ row.unlocked /\ row.charged = n /\ row.freed = freed /\ row.cost = message[m].cost
    <3>1. n \in 0..2
      BY <2>5
    <3> QED BY <2>3, <2>4, <3>1 DEF Message
  <2>8. row.charged <= 1 /\ (row.cost => row.charged = 1 \/ row.freed)
    BY <2>4, <2>5, <2>7
  <2> HIDE DEF row
  <2>9. message' \in Seq(Message) /\ DOMAIN message' = DOMAIN message
    BY <1>0, <2>6, <2>7, RowChanged
  <2>10. \A j \in DOMAIN message : message'[j] = IF j = m THEN row ELSE message[j]
    BY <2>6
  <2>11. Paid'
    BY <1>0, <2>9, <2>10, <2>7, <2>8 DEF Paid, Locked
  <2>12. Rows' /\ (NoneOpen => NoneOpen') /\ \A k : Pending(k)' = Pending(k)
    BY <1>0, <2>1, <2>9, <2>10, <2>11, <2>7, MessagesChanged
  <2>13. TypeOK'
    BY <1>0, <2>1, <2>9, Ended DEF TypeOK, CallRow
  <2>14. \A d \in Call \ {c} : Keeps(d)
    BY <1>0, <2>1, <2>9, <2>12, Ended DEF Keeps
  <2> QED BY <1>0, <2>1, <2>12, <2>13, <2>14, Ended, Inductive
<1> QED BY <1>2, <1>3

-----------------------------------------------------------------------------
(* The theorems.                                                           *)

LEMMA StepKeeps == ASSUME IInv, NEW c \in Call, Step(c) PROVE IInv'
<1>1. CASE OpenLock(c) \/ OpenPending(c) \/ OpenReady(c)
  BY <1>1, OpenKeeps
<1>2. CASE SendLock(c) \/ SendCount(c)
  BY <1>2, SendKeeps
<1>3. CASE CloseLock(c) \/ SolveLock(c) \/ BuyLock(c)
  BY <1>3, LockKeeps
<1>4. CASE OpenCommit(c)
  BY <1>4, OpenCommitKeeps
<1>5. CASE DmCreate(c)
  BY <1>5, DmCreateKeeps
<1>6. CASE SendCommit(c)
  BY <1>6, SendCommitKeeps
<1>7. CASE CloseCommit(c)
  BY <1>7, CloseCommitKeeps
<1>8. CASE SolveCommit(c)
  BY <1>8, SolveCommitKeeps
<1>9. CASE BuyCommit(c)
  BY <1>9, BuyCommitKeeps
<1>10. CASE Deadlock(c) \/ Full(c)
  BY <1>10, Refused DEF Deadlock, Full
<1>11. CASE SolvePay(c) \/ BuyPay(c)
  BY <1>11, PayKeeps
<1> QED BY <1>1, <1>2, <1>3, <1>4, <1>5, <1>6, <1>7, <1>8, <1>9, <1>10, <1>11 DEF Step

LEMMA InitIInv == Init => IInv
<1> SUFFICES ASSUME Init PROVE IInv
  OBVIOUS
<1>1. call \in [Call -> CallRow]
  BY NoCallTyped DEF Init
<1>2. ticket = <<>> /\ message = <<>> /\ DOMAIN ticket = {} /\ DOMAIN message = {}
  BY DEF Init
<1>3. TypeOK
  BY <1>1, <1>2 DEF Init, TypeOK, CallRow
<1>4. Rows
  BY <1>2, ConstantAssumption DEF Rows, Sized, OneOpen, PendingLimit, Paid
<1>5. \A c \in Call : Fit(c)
  BY DEF Init, NoCall, Fit, Shaped, Held, Found, At
<1> QED BY <1>3, <1>4, <1>5 DEF IInv

LEMMA StutterKeeps == IInv /\ UNCHANGED vars => IInv'
<1> SUFFICES ASSUME IInv, UNCHANGED vars PROVE IInv'
  OBVIOUS
<1>1. UNCHANGED rows /\ UNCHANGED locks /\ call' = call
  BY DEF vars
<1>2. TypeOK'
  BY <1>1 DEF IInv, TypeOK, rows, locks
<1>3. \A d \in Call : LocksKept(d)
  BY <1>1 DEF LocksKept, locks
<1> QED BY <1>1, <1>2, <1>3, RowsSame, Everyone DEF IInv

LEMMA NextKeeps == IInv /\ [Next]_vars => IInv'
BY DeskKeeps, BeginKeeps, StepKeeps, StutterKeeps DEF Next

(* The types, and that the lock a request holds keeps what it has found    *)
(* under it true until it writes (open_puzzle_ticket, send_ticket_message, *)
(* close_ticket, purchase_ticket_message).                                 *)
THEOREM Invariance == Spec => []IInv
BY InitIInv, NextKeeps, PTL DEF Spec

(* The tickets that are open are one at most.                              *)
LEMMA OneOpenCounted == TypeOK /\ OneOpen => OneOpenTicket
<1> SUFFICES ASSUME TypeOK, OneOpen PROVE OneOpenTicket
  OBVIOUS
<1> DEFINE open == {k \in DOMAIN ticket : ticket[k].open /\ ticket[k].puzzle # None}
<1>1. \A j, k \in open : j = k
  BY DEF OneOpen, OpenPuzzle
<1>2. CASE open = {}
  <2>1. Cardinality({}) = 0
    BY FS_EmptySet
  <2>2. Cardinality(open) = 0
    BY <1>2, <2>1, Zenon
  <2> QED BY <2>2 DEF OneOpenTicket
<1>3. CASE open # {}
  <2>1. PICK k : open = {k}
    BY <1>1, <1>3
  <2>2. Cardinality({k}) = 1
    BY FS_Singleton
  <2>3. Cardinality(open) = 1
    BY <2>1, <2>2, Zenon
  <2> QED BY <2>3 DEF OneOpenTicket
<1> QED BY <1>2, <1>3

(* One open ticket about a puzzle and the limit of unanswered messages,    *)
(* for any number of members and of staff who send and answer at once      *)
(* (open_puzzle_ticket, send_ticket_message).                              *)
THEOREM LimitsAlways == Spec => []LimitsHold
<1>1. IInv => LimitsHold
  BY OneOpenCounted DEF IInv, Rows, LimitsHold
<1> QED BY <1>1, Invariance, PTL

(* What costs is charged once and read by those who paid                   *)
(* (purchase_ticket_message, get_ticket_message).                          *)
THEOREM ReadersPaid == Spec => []PaidToRead
<1>1. IInv => PaidToRead
  BY DEF IInv, Rows, Paid, PaidToRead, Visible
<1> QED BY <1>1, Invariance, PTL

(* Of the staff the one who has the ticket speaks (send_ticket_message,    *)
(* auto_assign_ticket_on_staff_message_conn).                              *)
THEOREM StaffSpeaksAsOne == Spec => OneVoice
<1> DEFINE Sent(c) == call[c].op = "send" /\ Host(c) /\ ~call[c].force
                        /\ Len(message') > Len(message) /\ call'[c].pc = "idle"
<1>1. ASSUME IInv, [Next]_vars, NEW c \in Call, Sent(c)
      PROVE  ticket'[call[c].id].assignee = call[c].by
  <2>0. TypeOK /\ Len(message) \in Nat /\ Fit(c) /\ call[c].pc # "idle"
    BY <1>1, TicketTyped DEF IInv, Fit, Shaped
  <2>1. message' # message
    BY <1>1, <2>0
  <2>2. PICK d \in Call : Begin(d) \/ Step(d)
    <3>1. ASSUME NEW m \in 1..MaxMessages, Elapse(m) PROVE FALSE
      <4>1. DOMAIN message' = DOMAIN message /\ message' \in Seq(Message)
        BY <1>1, <3>1, NextKeeps DEF Elapse, IInv, TypeOK
      <4>2. Len(message') = Len(message)
        BY <2>0, <4>1, TicketTyped
      <4> QED BY <1>1, <2>0, <4>2
    <3> QED BY <1>1, <2>1, <3>1 DEF Next, vars, rows, Desk, Assign, Unassign
  <2>3. c = d
    <3>1. ASSUME c # d PROVE call'[c] = call[c]
      BY <2>0, <2>2, <3>1 DEF TypeOK, Begin, AskOpen, AskSend, AskDm, AskClose, AskSolve, AskBuy, Ask,
           Step, OpenLock, OpenPending, OpenReady, OpenCommit, DmCreate, SendLock, SendCount,
           SendCommit, CloseLock, CloseCommit, SolveLock, SolvePay, SolveCommit, BuyLock, BuyPay,
           BuyCommit,
           Deadlock, Full, Refuse, End, Goto
    <3> QED BY <1>1, <2>0, <3>1
  <2>4. SendCommit(c)
    BY <1>1, <2>0, <2>1, <2>2, <2>3 DEF Begin, AskOpen, AskSend, AskDm, AskClose, AskSolve, AskBuy,
         Ask, Step, OpenLock, OpenPending, OpenReady, OpenCommit, DmCreate, SendLock, SendCount,
         CloseLock, CloseCommit, SolveLock, SolvePay, SolveCommit, BuyLock, BuyPay, BuyCommit,
         Deadlock, Full,
         Refuse, At, rows
  <2>5. PICK k \in DOMAIN ticket : k = call[c].id
    BY <1>1, <2>0 DEF Fit, Shaped
  <2>6. ticket'[k].assignee = Assigned(c, k)
    BY <2>4, <2>5, <2>0, TicketTyped DEF SendCommit, TicketRow
  <2>7. ~Taken(c, k)
    BY <1>1, <2>0, <2>4, <2>5 DEF SendCommit, At, Fit, Found
  <2> QED BY <1>1, <2>5, <2>6, <2>7 DEF Assigned, Taken
<1>2. IInv /\ [Next]_vars => [\A c \in Call : Sent(c) => ticket'[call[c].id].assignee = call[c].by]_vars
  BY <1>1
<1> QED BY <1>2, Invariance, PTL DEF Spec, OneVoice
=============================================================================
