------------------------------ MODULE Tickets ------------------------------
(***************************************************************************)
(* The tickets of one team: its questions about puzzles, its direct        *)
(* messages, and the answers of the staff (src/src/db/ticket.rs,           *)
(* src/src/api/ticket.rs).                                                 *)
(*                                                                         *)
(* A transaction that writes a row that references rb_team or rb_ticket    *)
(* waits for the lock of that row.  A submission and the opening of a      *)
(* ticket hold the team's, an answer the ticket's; a submission waits in   *)
(* turn for a ticket that it closes, and for the team's currency, which    *)
(* whoever buys a message holds.                                           *)
(* What release, cooldown and feature say of a request is an input: a      *)
(* request they refuse before its transaction begins is no step at all.    *)
(*                                                                         *)
(* An element of Call is a connection that serves one request after the    *)
(* other.  Members of the team are alike; those of the model are not on    *)
(* the staff.  rb_ticket_operation, the event log and notifications are    *)
(* written and never read here, and left out.                              *)
(***************************************************************************)
EXTENDS Integers, Sequences, FiniteSets

CONSTANTS
  Call, Mod, Puzzle, None,
  Player,       \* a member of the team
  PuzzleLimit,  \* unanswered messages in a ticket about a puzzle: 1 in the code
  DmLimit,      \* unanswered direct messages: 3 in the code
  MaxTickets, MaxMessages,  \* bounds of the model
  Answering,    \* bound: those of the staff who write and close; the others take tickets
  Asked,        \* bound: what the staff asks for a message
  Menus         \* bound: the requests that run at the same time, as sets of operations

ASSUME ConstantAssumption ==
  /\ {DmLimit, MaxTickets, MaxMessages} \subseteq Nat /\ PuzzleLimit \in Nat \ {0}
  /\ Asked \subseteq [cost: BOOLEAN, wait: {"no", "running"}]
  /\ Answering \subseteq Mod
  /\ Player \notin Mod /\ None \notin Mod \cup Call \cup Puzzle \cup {Player}

VARIABLES
  ticket,    \* rb_ticket, by id: no puzzle is a direct message
  message,   \* rb_message, by id
  solved,    \* puzzles the team has solved
  teamLock, ticketLock, messageLock, currencyLock,  \* of one currency
  call       \* the requests and their locals

rows  == <<ticket, message, solved>>
locks == <<teamLock, ticketLock, messageLock, currencyLock>>
vars  == <<rows, locks, call>>

Who     == Answering \cup {Player}
Message == [ticket: 1..MaxTickets, host: BOOLEAN, cost: BOOLEAN, wait: {"no", "running", "past"},
            unlocked: BOOLEAN, charged: 0..2, freed: BOOLEAN]
Free    == [cost |-> FALSE, wait |-> "no"]
Demand  == Asked \cup {Free}
NoCall  == [pc |-> "idle", op |-> "none", by |-> None, puzzle |-> None, id |-> 0,
            demand |-> Free, force |-> FALSE, said |-> TRUE]

TypeOK ==
  /\ ticket \in Seq([open: BOOLEAN, puzzle: Puzzle \cup {None}, assignee: Mod \cup {None}])
  /\ message \in Seq(Message)
  /\ solved \subseteq Puzzle
  /\ teamLock \in Call \cup {None} /\ currencyLock \in Call \cup {None}
  /\ ticketLock \in [1..MaxTickets -> Call \cup {None}]
  /\ messageLock \in [1..MaxMessages -> Call \cup {None}]
  /\ call \in [Call -> [pc: {"idle", "lock", "pending", "ready", "count", "pay", "write"},
                        op: {"none", "open", "dm", "send", "close", "buy", "solve"},
                        by: Who \cup {None}, puzzle: Puzzle \cup {None}, id: Nat,
                        demand: Demand, force: BOOLEAN, said: BOOLEAN]]

Init ==
  /\ ticket = <<>> /\ message = <<>> /\ solved = {}
  /\ teamLock = None /\ currencyLock = None
  /\ ticketLock = [k \in 1..MaxTickets |-> None]
  /\ messageLock = [m \in 1..MaxMessages |-> None]
  /\ call = [c \in Call |-> NoCall]

-----------------------------------------------------------------------------
Host(c)   == call[c].by \in Mod
At(c, op, s) == call[c].op = op /\ call[c].pc = s
Goto(c, s)   == call' = [call EXCEPT ![c].pc = s]

\* A request is what NoCall is not.
Ask(c, request) ==
  /\ call[c].pc = "idle"
  /\ \E menu \in Menus : {request.op} \cup {call[d].op : d \in Call} \subseteq menu \cup {"none"}
  /\ call' = [call EXCEPT ![c] = [request EXCEPT !.pc = "lock"]]
  /\ UNCHANGED <<rows, locks>>

\* A transaction that ends gives back what it holds.
End(c) ==
  /\ call' = [call EXCEPT ![c] = NoCall]
  /\ teamLock' = IF teamLock = c THEN None ELSE teamLock
  /\ ticketLock' = [k \in DOMAIN ticketLock |->
                      IF ticketLock[k] = c THEN None ELSE ticketLock[k]]
  /\ messageLock' = [m \in DOMAIN messageLock |->
                       IF messageLock[m] = c THEN None ELSE messageLock[m]]
  /\ currencyLock' = IF currencyLock = c THEN None ELSE currencyLock


\* The error paths: the transaction is dropped and rolled back.
Refuse(c) == End(c) /\ UNCHANGED rows

\* normalize_unlock_values: only the staff asks for money or for time.
\* Bound: of one message.
Demands(by) ==
  IF by \in Mod /\ (\A m \in DOMAIN message : ~message[m].cost /\ message[m].wait = "no")
              /\ \A c \in Call : call[c].demand = Free
  THEN Demand ELSE {Free}

\* The id of the next message of a call, and the row.
Written(c, k) ==
  Append(message, [ticket |-> k, host |-> Host(c), cost |-> call[c].demand.cost,
                   wait |-> call[c].demand.wait, unlocked |-> call[c].demand = Free,
                   charged |-> 0, freed |-> FALSE])

\* An insert of a row that references rb_team, or rb_ticket.
TeamFree(c)      == teamLock \in {None, c}
TicketFree(c, k) == ticketLock[k] \in {None, c}

Room == Len(message) < MaxMessages

Pending(k) ==
  LET in == {m \in DOMAIN message : message[m].ticket = k}
  IN  {m \in in : \A r \in in : r >= m => ~message[r].host}

\* Another one answers the ticket, and the request does not insist.
Taken(c, k) ==
  Host(c) /\ ticket[k].assignee \notin {None, call[c].by} /\ ~call[c].force

\* auto_assign_ticket_on_staff_message_conn
Assigned(c, k) ==
  IF Host(c) /\ ticket[k].assignee = None THEN call[c].by ELSE ticket[k].assignee

DmTicket == {k \in DOMAIN ticket : ticket[k].puzzle = None}

\* Bound: one insists who can see that another one answers the ticket.
Insists(by, k) == by \in Mod /\ ticket[k].assignee \notin {None, by}

-----------------------------------------------------------------------------
(* Opening a ticket about a puzzle, by the team or by the staff.           *)
AskOpen(c) ==
  \E by \in Who, p \in Puzzle : \E d \in Demands(by) :
    Ask(c, [NoCall EXCEPT !.op = "open", !.by = by, !.puzzle = p, !.demand = d])

OpenUnlocked(c) ==
  /\ At(c, "open", "lock")
  /\ Goto(c, "pending") /\ UNCHANGED <<rows, locks>>

OpenLock(c) ==
  /\ At(c, "open", "lock") /\ teamLock = None
  /\ teamLock' = c /\ Goto(c, "pending")
  /\ UNCHANGED <<rows, ticketLock, messageLock, currencyLock>>

OpenPending(c) ==
  /\ At(c, "open", "pending")
  /\ IF \E k \in DOMAIN ticket : ticket[k].open /\ ticket[k].puzzle # None
     THEN Refuse(c)
     ELSE Goto(c, "ready") /\ UNCHANGED <<rows, locks>>

\* Release, feature, ticket_enabled and cooldown, read inside the transaction.
OpenReady(c) ==
  /\ At(c, "open", "ready")
  /\ \/ Refuse(c)
     \/ Goto(c, "write") /\ UNCHANGED <<rows, locks>>

OpenCommit(c) ==
  /\ At(c, "open", "write") /\ TeamFree(c) /\ Room /\ Len(ticket) < MaxTickets
  /\ ticket' = Append(ticket, [open |-> TRUE, puzzle |-> call[c].puzzle, assignee |-> None])
  /\ message' = Written(c, Len(ticket) + 1)
  /\ End(c) /\ UNCHANGED solved

-----------------------------------------------------------------------------
(* Sending.  A member's request has read the state of the ticket in the    *)
(* middleware; the transaction does not read it again.                     *)
AskSend(c) ==
  \E by \in Who, k \in DOMAIN ticket : \E d \in Demands(by), force \in BOOLEAN :
    /\ by = Player => ticket[k].open /\ ticket[k].puzzle # None
    /\ force => Insists(by, k)
    /\ Ask(c, [NoCall EXCEPT !.op = "send", !.by = by, !.id = k, !.demand = d, !.force = force])

\* A direct message: the ticket is made when there is none.
AskDm(c) ==
  \E by \in Who : \E d \in Demands(by), force \in BOOLEAN :
    /\ force => \E k \in DmTicket : Insists(by, k)
    /\ Ask(c, [NoCall EXCEPT !.op = "dm", !.by = by, !.demand = d, !.force = force])

DmCreate(c) ==
  /\ At(c, "dm", "lock")
  /\ IF DmTicket # {}
     THEN \E k \in DmTicket :
            /\ ticketLock[k] = None
            /\ call' = [call EXCEPT ![c].op = "send", ![c].id = k]
            /\ UNCHANGED ticket
     ELSE /\ TeamFree(c) /\ Len(ticket) < MaxTickets
          /\ ticket' = Append(ticket, [open |-> TRUE, puzzle |-> None, assignee |-> None])
          /\ call' = [call EXCEPT ![c].op = "send", ![c].id = Len(ticket) + 1]
  /\ UNCHANGED <<message, solved, locks>>

SendUnlocked(c) ==
  LET k == call[c].id
  IN  /\ At(c, "send", "lock")
      /\ IF Taken(c, k)
         THEN Refuse(c)
         ELSE Goto(c, IF Host(c) THEN "write" ELSE "count") /\ UNCHANGED <<rows, locks>>

SendLock(c) ==
  LET k == call[c].id
  IN  /\ At(c, "send", "lock") /\ ticketLock[k] = None
      /\ IF Taken(c, k)
         THEN Refuse(c)
         ELSE /\ ticketLock' = [ticketLock EXCEPT ![k] = c]
              /\ Goto(c, IF Host(c) THEN "write" ELSE "count")
              /\ UNCHANGED <<rows, teamLock, messageLock, currencyLock>>

Limit(k) == IF ticket[k].puzzle = None THEN DmLimit ELSE PuzzleLimit

SendCount(c) ==
  LET k == call[c].id
  IN  /\ At(c, "send", "count")
      /\ IF Cardinality(Pending(k)) >= Limit(k)
         THEN Refuse(c)
         ELSE Goto(c, "write") /\ UNCHANGED <<rows, locks>>

\* A message of the staff inserts a notification of the team.
SendCommit(c) ==
  LET k == call[c].id
  IN  /\ At(c, "send", "write") /\ Room /\ (Host(c) => TeamFree(c))
      /\ ticket' = [ticket EXCEPT ![k].assignee = Assigned(c, k)]
      /\ message' = Written(c, k)
      /\ End(c) /\ UNCHANGED solved

-----------------------------------------------------------------------------
(* The staff takes a ticket, gives it back, and closes it.                 *)
Assign(by, k, force) ==
  /\ k \in DOMAIN ticket /\ ticketLock[k] = None
  /\ ticket[k].assignee \in {None, by} \/ force
  /\ ticket' = [ticket EXCEPT ![k].assignee = by]
  /\ UNCHANGED <<message, solved, locks, call>>

Unassign(by, k) ==
  /\ k \in DOMAIN ticket /\ ticketLock[k] = None /\ ticket[k].assignee = by
  /\ ticket' = [ticket EXCEPT ![k].assignee = None]
  /\ UNCHANGED <<message, solved, locks, call>>

AskClose(c) ==
  \E by \in Answering, k \in DOMAIN ticket \ DmTicket, said, force \in BOOLEAN :
    /\ force => said /\ Insists(by, k)
    /\ Ask(c, [NoCall EXCEPT !.op = "close", !.by = by, !.id = k, !.said = said, !.force = force])

CloseLock(c) ==
  LET k == call[c].id
  IN  /\ At(c, "close", "lock") /\ ticketLock[k] = None
      /\ IF ~ticket[k].open \/ (call[c].said /\ Taken(c, k))
         THEN Refuse(c)
         ELSE /\ ticketLock' = [ticketLock EXCEPT ![k] = c]
              /\ Goto(c, "write")
              /\ UNCHANGED <<rows, teamLock, messageLock, currencyLock>>

CloseCommit(c) ==
  LET k == call[c].id
  IN  /\ At(c, "close", "write") /\ TeamFree(c) /\ Room
      /\ ticket' = [ticket EXCEPT ![k].open = FALSE,
                                  ![k].assignee = IF call[c].said THEN Assigned(c, k) ELSE @]
      /\ message' = IF call[c].said THEN Written(c, k) ELSE message
      /\ End(c) /\ UNCHANGED solved

-----------------------------------------------------------------------------
(* A submission that solves the puzzle closes the tickets about it.        *)
AskSolve(c) ==
  \E p \in Puzzle \ solved : Ask(c, [NoCall EXCEPT !.op = "solve", !.by = Player, !.puzzle = p])

SolveLock(c) ==
  /\ At(c, "solve", "lock") /\ teamLock = None
  /\ IF call[c].puzzle \in solved
     THEN Refuse(c)
     ELSE /\ teamLock' = c /\ \E next \in {"pay", "write"} : Goto(c, next)
          /\ UNCHANGED <<rows, ticketLock, messageLock, currencyLock>>

\* What the puzzle requires of the team's currency is there or not; a wrong
\* answer that costs is written, and nothing else.
SolvePay(c) ==
  /\ At(c, "solve", "pay") /\ currencyLock = None
  /\ \/ Refuse(c)
     \/ /\ currencyLock' = c /\ Goto(c, "write")
        /\ UNCHANGED <<rows, teamLock, ticketLock, messageLock>>

SolveCommit(c) ==
  LET p == call[c].puzzle
      about == {k \in DOMAIN ticket : ticket[k].open /\ ticket[k].puzzle = p}
  IN  /\ At(c, "solve", "write")
      /\ \A k \in about : ticketLock[k] = None
      /\ ticket' = [k \in DOMAIN ticket |->
                      [ticket[k] EXCEPT !.open = @ /\ k \notin about]]
      /\ solved' = solved \cup {p}
      /\ End(c) /\ UNCHANGED message

-----------------------------------------------------------------------------
(* Buying a message that costs, or that the staff unlocks for the team.    *)
Locked(m) == ~message[m].unlocked

VisibleInTime(m) == ~Locked(m) \/ message[m].wait = "past"

\* What the team can read of a message.
Visible(m) ==
  ~Locked(m) \/ (~message[m].cost /\ message[m].wait = "past")

Elapse(m) ==
  /\ m \in DOMAIN message /\ message[m].wait = "running"
  /\ message' = [message EXCEPT ![m].wait = "past"]
  /\ UNCHANGED <<ticket, solved, locks, call>>

AskBuy(c) ==
  \E by \in Who, m \in DOMAIN message :
    /\ message[m].ticket \notin DmTicket
    /\ Ask(c, [NoCall EXCEPT !.op = "buy", !.by = by, !.id = m])

\* The staff unlocks a message for nothing.
Pays(c, m) == message[m].cost /\ ~Host(c)

BuyLock(c) ==
  LET m == call[c].id
  IN  /\ At(c, "buy", "lock") /\ messageLock[m] = None
      /\ IF ~Locked(m) \/ message[m].wait = "running" \/ (~Host(c) /\ ~message[m].cost)
         THEN Refuse(c)
         ELSE /\ messageLock' = [messageLock EXCEPT ![m] = c]
              /\ Goto(c, IF Pays(c, m) THEN "pay" ELSE "write")
              /\ UNCHANGED <<rows, teamLock, ticketLock, currencyLock>>

\* Whether the team has what the message costs is an input: the row is that of Currency.
BuyPay(c) ==
  /\ At(c, "buy", "pay") /\ currencyLock = None
  /\ \/ Refuse(c)
     \/ /\ currencyLock' = c /\ Goto(c, "write")
        /\ UNCHANGED <<rows, teamLock, ticketLock, messageLock>>

\* The event that is logged names the team and the ticket.
BuyCommit(c) ==
  LET m == call[c].id
  IN  /\ At(c, "buy", "write")
      /\ IF Locked(m)
         THEN /\ TeamFree(c) /\ TicketFree(c, message[m].ticket)
              /\ message' = [message EXCEPT ![m].unlocked = TRUE,
                                            ![m].charged = IF Pays(c, m) THEN @ + 1 ELSE @,
                                            ![m].freed = @ \/ Host(c)]
              /\ End(c) /\ UNCHANGED <<ticket, solved>>
         ELSE Refuse(c)

-----------------------------------------------------------------------------
(* PostgreSQL ends a transaction of a cycle of waiting ones.               *)

\* A submission holds the team and waits for a ticket about its puzzle, whose
\* holder waits for the team.
MeetAtTicket(solver, holder) ==
  /\ At(solver, "solve", "write") /\ teamLock = solver
  /\ call[holder].pc = "write" /\ Host(holder)
  /\ \E k \in DOMAIN ticket :
       /\ ticketLock[k] = holder /\ ticket[k].open
       /\ ticket[k].puzzle = call[solver].puzzle

\* A submission holds the team and waits for the currency, whose holder buys a
\* message and waits for the team.
MeetAtCurrency(solver, buyer) ==
  /\ At(solver, "solve", "pay") /\ teamLock = solver
  /\ At(buyer, "buy", "write") /\ currencyLock = buyer

Deadlock(c) ==
  /\ \E d \in Call : \/ MeetAtTicket(c, d) \/ MeetAtTicket(d, c)
                     \/ MeetAtCurrency(c, d) \/ MeetAtCurrency(d, c)
  /\ Refuse(c)

\* A bound of the model: a request that would write beyond it is refused.
Full(c) ==
  /\ (\E op \in {"open", "send", "close"} : At(c, op, "write")) \/ At(c, "dm", "lock")
  /\ ~Room \/ Len(ticket) = MaxTickets
  /\ Refuse(c)

Begin(c) ==
  \/ AskOpen(c) \/ AskSend(c) \/ AskDm(c) \/ AskClose(c) \/ AskSolve(c) \/ AskBuy(c)

Step(c) ==
  \/ OpenLock(c) \/ OpenPending(c) \/ OpenReady(c) \/ OpenCommit(c)
  \/ DmCreate(c) \/ SendLock(c) \/ SendCount(c) \/ SendCommit(c)
  \/ CloseLock(c) \/ CloseCommit(c) \/ SolveLock(c) \/ SolvePay(c) \/ SolveCommit(c)
  \/ BuyLock(c) \/ BuyPay(c) \/ BuyCommit(c) \/ Deadlock(c) \/ Full(c)

Desk ==
  \/ \E by \in Mod, k \in 1..MaxTickets :
       Unassign(by, k) \/ \E force \in BOOLEAN : Assign(by, k, force)
  \/ \E m \in 1..MaxMessages : Elapse(m)

Next == Desk \/ \E c \in Call : Begin(c) \/ Step(c)

Spec == Init /\ [][Next]_vars

-----------------------------------------------------------------------------
(* A team has one open ticket about a puzzle at most, whoever opens them   *)
(* and however their requests overlap (open_puzzle_ticket locks the team). *)
OneOpenTicket ==
  Cardinality({k \in DOMAIN ticket : ticket[k].open /\ ticket[k].puzzle # None}) <= 1

(* The team waits for an answer: it has no more messages after the last    *)
(* one of the staff than the kind of ticket allows, also when its members  *)
(* send at once (send_ticket_message counts under the ticket's lock).      *)
PendingLimit == \A k \in DOMAIN ticket : Cardinality(Pending(k)) <= Limit(k)

(* Both limits are counted under a lock and hold whatever overlaps.        *)
LimitsHold == TypeOK /\ OneOpenTicket /\ PendingLimit

(* What a message costs is taken once at most, and the team reads nothing  *)
(* that costs unless it paid or the staff unlocked it, also when time has  *)
(* to pass as well (purchase_ticket_message, get_ticket_message).          *)
PaidToRead ==
  \A m \in DOMAIN message :
    /\ message[m].charged <= 1
    /\ message[m].cost /\ Visible(m) => message[m].charged = 1 \/ message[m].freed

(* The staff does not talk over each other: a message of the staff comes   *)
(* from the one who has the ticket once it is written, or from one who     *)
(* insisted (force_assignee), even if the ticket changes hands meanwhile.  *)
OneVoice ==
  [][\A c \in Call :
       call[c].op = "send" /\ Host(c) /\ ~call[c].force /\ Len(message') > Len(message)
         /\ call'[c].pc = "idle"
       => ticket'[call[c].id].assignee = call[c].by]_vars

(* Two requests wait for each other in two ways only, and PostgreSQL ends  *)
(* one of them: a submission that holds the team meets an answer to a      *)
(* ticket about its puzzle, or the purchase of a message, which hold the   *)
(* ticket or the currency and then log an event of the team.  In any other *)
(* case one of the requests being served can go on: no early return of     *)
(* src/src/db/ticket.rs keeps a lock.                                      *)
SomeoneMoves ==
  (\E c \in Call : call[c].pc # "idle") => ENABLED \E c \in Call : Step(c)
=============================================================================
