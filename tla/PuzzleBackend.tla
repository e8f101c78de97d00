---------------------------- MODULE PuzzleBackend ----------------------------
(***************************************************************************)
(* The functions of a puzzle's backend and the key-value entries they      *)
(* share (src/src/module/puzzle_backend_js, src/src/db/puzzle_backend.rs). *)
(*                                                                         *)
(* A function called through the API runs every host call as a statement   *)
(* of its own, on a connection taken for that call.  A judge function runs *)
(* inside the transaction of one submission: its writes keep their rows    *)
(* locked until the submission commits or rolls back, and a wait for a row *)
(* ends after 500 ms.  Events are collected and sent when all is over.     *)
(*                                                                         *)
(* A statement that waits has read the clock before it waited.  What a     *)
(* function does is any sequence of at most MaxCalls calls of its Menu;      *)
(* documents of a collection are kept as the set of who inserted some.     *)
(***************************************************************************)
EXTENDS Integers, FiniteSets

CONSTANTS
  Execution,  \* calls of a backend function, each run once
  Judge,      \* those made by the judge of a submission
  Key, None, Text,
  Menu,       \* the host calls of each function
  Pool,       \* connections of the process
  Ttl, MaxNow, MaxCalls   \* bounds of the model

Expiries == {"permanent", "ttl", "preserve", "none"}
Calls    == [op: {"set", "increment", "setIfAbsent", "compareAndSet", "delete", "get", "insert", "emit"},
             key: Key, expiry: Expiries]

\* Assumed of the constants
ConstantAssumption ==
  /\ Judge \subseteq Execution /\ None \notin Execution /\ None \notin Execution \X Nat
  /\ Menu \in [Execution -> SUBSET Calls]
  /\ None \notin {"set", "increment", "setIfAbsent", "compareAndSet", "delete"}
  /\ Pool \in Nat /\ Ttl \in Nat /\ MaxNow \in Nat \ {0} /\ MaxCalls \in Nat

VARIABLES
  now,
  rows,       \* the newest version of each entry, written by whom it may be
  committed,  \* the version everybody else reads
  lock,       \* the judge whose transaction holds the row
  docs,       \* rb_puzzle_store_doc
  pc, work,
  told        \* whose events were sent to the team

entries == <<rows, committed, lock>>
vars    == <<now, entries, docs, pc, work, told>>

Never == 0
NoRow == [by |-> None, born |-> None, version |-> 0, value |-> 0, expires |-> Never]
NoCall == [op |-> None]
Mutation == {"set", "increment", "setIfAbsent", "compareAndSet", "delete"}
Local == [call  |-> NoCall, at |-> 0, target |-> None, key |-> None, seen |-> NoRow,
          calls |-> 0, event |-> FALSE, ok |-> TRUE, aborted |-> FALSE]

\* A version is known by the call that wrote it.
Mark(e)       == <<e, IF pc[e] = "run" THEN work[e].calls + 1 ELSE work[e].calls>>
Expired(r, t) == r.expires # Never /\ r.expires <= t
Visible(r, t) == r # NoRow /\ ~Expired(r, t)

\* A connection is held for as long as a transaction, or a statement that
\* waits or is followed by another, needs it.
Holding == {e \in Execution : \/ e \in Judge /\ pc[e] \notin {"idle", "tell", "done", "failed"}
                              \/ e \notin Judge /\ pc[e] \in {"waiting", "reread"}}
Free    == Pool > Cardinality(Holding)

Goto(e, where) == pc' = [pc EXCEPT ![e] = where]

Init ==
  /\ now = 1
  /\ rows = [k \in Key |-> NoRow] /\ committed = rows
  /\ lock = [k \in Key |-> None] /\ docs = {}
  /\ pc = [e \in Execution |-> "idle"] /\ work = [e \in Execution |-> Local]
  /\ told = {}
-----------------------------------------------------------------------------
(* The statements on one entry. *)

\* The row an execution reads: its own, or the one committed.
Row(e, k) == IF lock[k] = e THEN rows[k] ELSE committed[k]

Expiry(c, t) == IF c.expiry = "ttl" THEN t + Ttl ELSE Never
Kept(c, r, t) == IF c.expiry = "preserve" THEN r.expires ELSE Expiry(c, t)

Inserted(e, v, c, t) == [by |-> Mark(e), born |-> Mark(e), version |-> 1,
                         value |-> v, expires |-> Expiry(c, t)]

\* The update does not count the version.
UpdatedInPlace(e, r, v, x) ==
  [by |-> Mark(e), born |-> r.born, version |-> r.version, value |-> v, expires |-> x]

Updated(e, r, v, x) ==
  [by |-> Mark(e), born |-> r.born, version |-> r.version + 1, value |-> v, expires |-> x]

SetKv(e, r, c, t) ==
  IF r = NoRow THEN Inserted(e, Text, c, t) ELSE Updated(e, r, Text, Kept(c, r, t))

IncrementKv(e, r, c, t) ==
  IF r = NoRow THEN Inserted(e, 1, c, t)
  ELSE IF Expired(r, t) THEN Updated(e, r, 1, Expiry(c, t))
  ELSE Updated(e, r, r.value + 1, Kept(c, r, t))

SetKvIfAbsent(e, r, c, t) ==
  IF r = NoRow THEN Inserted(e, Text, c, t) ELSE Updated(e, r, Text, Expiry(c, t))

CompareAndSetKv(e, r, c, t) == Updated(e, r, Text, Kept(c, r, t))

Result(e, r, c, t) ==
  CASE c.op = "set"           -> SetKv(e, r, c, t)
    [] c.op = "increment"     -> IncrementKv(e, r, c, t)
    [] c.op = "setIfAbsent"   -> SetKvIfAbsent(e, r, c, t)
    [] c.op = "compareAndSet" -> CompareAndSetKv(e, r, c, t)
    [] c.op = "delete"        -> NoRow

\* The row the statement would change is there, as its WHERE clause asks.
Applies(e, r, c, t) ==
  CASE c.op = "compareAndSet" -> Visible(r, t) /\ r.version = work[e].seen.version
    [] c.op = "setIfAbsent"   -> ~Visible(r, t)
    [] c.op = "delete"        -> r # NoRow
    [] OTHER                  -> TRUE

\* A text is no number to add to, unless the entry has expired.
Fails(r, c, t) == c.op = "increment" /\ Visible(r, t) /\ r.value = Text

\* An insertion meets the row whatever its reader sees; an update or a
\* deletion only one it found in its snapshot.
Waits(e, c) ==
  /\ lock[c.key] \notin {None, e}
  /\ \/ c.op \in {"set", "increment", "setIfAbsent"}
     \/ c.op \in {"compareAndSet", "delete"} /\ Applies(e, committed[c.key], c, now)

\* The host call runs on a connection of the pool, whoever makes it.
WriteAutocommit(e, k, r) ==
  /\ rows' = [rows EXCEPT ![k] = r] /\ committed' = [committed EXCEPT ![k] = r]
  /\ UNCHANGED lock

Write(e, k, r) ==
  /\ rows' = [rows EXCEPT ![k] = r]
  /\ IF e \in Judge THEN lock' = [lock EXCEPT ![k] = e] /\ UNCHANGED committed
                    ELSE committed' = [committed EXCEPT ![k] = r] /\ UNCHANGED lock

\* A statement that found the row and did not change it has still locked it.
Touch(e, c, r, waited) ==
  /\ lock' = IF e \in Judge /\ r # NoRow /\ (waited \/ c.op = "setIfAbsent")
             THEN [lock EXCEPT ![c.key] = e] ELSE lock
  /\ UNCHANGED <<rows, committed>>
-----------------------------------------------------------------------------
(* The clock and the administrator. *)

Tick == now < MaxNow /\ now' = now + 1
        /\ UNCHANGED <<entries, docs, pc, work, told>>

\* The progress of the puzzle is cleared: one DELETE for all its teams.
ClearKv ==
  /\ \A k \in Key : lock[k] = None \/ committed[k] = NoRow
  /\ \E k \in Key : committed[k] # NoRow
  /\ rows' = [k \in Key |-> IF lock[k] = None THEN NoRow ELSE rows[k]]
  /\ committed' = [k \in Key |-> NoRow]
  /\ UNCHANGED <<now, lock, docs, pc, work, told>>
-----------------------------------------------------------------------------
(* One execution. *)

\* rb_puzzle_backend as it is found: an administrator saves, switches off and
\* deletes it at any time, and what has been loaded runs on.
GetBackend == {"none", "disabled", "enabled"}

\* The submission's transaction begins, or the API looks up the function.
Start(e) ==
  /\ pc[e] = "idle" /\ Free
  /\ IF e \in Judge THEN Goto(e, "lookup")
     ELSE \E b \in GetBackend : Goto(e, IF b = "enabled" THEN "run" ELSE "failed")
  /\ UNCHANGED <<now, entries, docs, work, told>>

\* The judge loads the backend on a second connection.
Lookup(e) ==
  /\ pc[e] = "lookup" /\ Free
  /\ \E b \in GetBackend : Goto(e, IF b = "none" THEN "rollback" ELSE "run")
  /\ UNCHANGED <<now, entries, docs, work, told>>

Done(w) == [w EXCEPT !.call = NoCall, !.at = 0, !.target = None]

\* A failed call throws into the function, which may catch it; in a judge the
\* transaction answers nothing more.
Error(e, w) ==
  /\ work' = [work EXCEPT ![e] = [Done(w) EXCEPT !.aborted = e \in Judge]]
  /\ Goto(e, "run") /\ UNCHANGED entries

Answer(e, w, k, r) ==
  work' = [work EXCEPT ![e] = [Done(w) EXCEPT !.key = k, !.seen = r]]

Perform(e, w, r, waited) ==
  LET c == w.call IN
  \/ Fails(r, c, w.at) /\ Error(e, w)
  \/ /\ ~Fails(r, c, w.at) /\ Applies(e, r, c, w.at)
     /\ Write(e, c.key, Result(e, r, c, w.at))
     /\ Answer(e, w, c.key, Result(e, r, c, w.at)) /\ Goto(e, "run")
  \/ /\ ~Applies(e, r, c, w.at) /\ Touch(e, c, r, waited)
     /\ IF c.op = "delete" THEN Answer(e, w, None, NoRow) /\ Goto(e, "run")
                            ELSE work' = [work EXCEPT ![e] = w] /\ Goto(e, "reread")

\* A host call that writes an entry: at once, or it waits for the transaction
\* that holds the row.
Issue(e, c) ==
  LET w == [work[e] EXCEPT !.calls = @ + 1, !.call = c, !.at = now,
                           !.target = committed[c.key].born]
  IN /\ c.op \in Mutation /\ pc[e] = "run" /\ work[e].calls < MaxCalls
     /\ c.op = "compareAndSet" => work[e].key = c.key /\ work[e].seen # NoRow
     /\ \/ (work[e].aborted \/ (e \notin Judge /\ ~Free)) /\ Error(e, w)
        \/ /\ ~work[e].aborted /\ (e \in Judge \/ Free)
           /\ \/ Waits(e, c) /\ work' = [work EXCEPT ![e] = w] /\ Goto(e, "waiting")
                 /\ UNCHANGED entries
              \/ ~Waits(e, c) /\ Perform(e, w, Row(e, c.key), FALSE)
     /\ UNCHANGED <<now, docs, told>>

\* The row is free again.  An update or a deletion follows the row it found,
\* never one inserted since.
Wake(e) ==
  LET w == work[e]  c == w.call  r == rows[c.key] IN
  /\ pc[e] = "waiting" /\ lock[c.key] = None
  /\ Perform(e, w, IF c.op \in {"compareAndSet", "delete"} /\ r.born # w.target THEN NoRow ELSE r,
             TRUE)
  /\ UNCHANGED <<now, docs, told>>

\* It is set for the API's statements, and not in the judge's transaction.
LockTimeoutOfRequest(e) ==
  /\ pc[e] = "waiting" /\ e \notin Judge /\ lock[work[e].call.key] # None
  /\ Error(e, work[e]) /\ UNCHANGED <<now, docs, told>>

LockTimeout(e) ==
  /\ pc[e] = "waiting" /\ e \in Judge /\ lock[work[e].call.key] # None
  /\ Error(e, work[e]) /\ UNCHANGED <<now, docs, told>>

\* A write that was not applied answers with the entry as it is then.
Reread(e) ==
  LET k == work[e].call.key  r == Row(e, k) IN
  /\ pc[e] = "reread"
  /\ Answer(e, work[e], k, IF Visible(r, now) THEN r ELSE NoRow) /\ Goto(e, "run")
  /\ UNCHANGED <<now, entries, docs, told>>

GetKvEntry(e, c) ==
  LET k == c.key  r == Row(e, k) IN
  /\ c.op = "get" /\ pc[e] = "run" /\ work[e].calls < MaxCalls /\ ~work[e].aborted /\ (e \in Judge \/ Free)
  /\ Answer(e, [work[e] EXCEPT !.calls = @ + 1], k, IF Visible(r, now) THEN r ELSE NoRow)
  /\ UNCHANGED <<now, entries, docs, pc, told>>

InsertStoreDoc(e) ==
  /\ "insert" \in {c.op : c \in Menu[e]} /\ pc[e] = "run" /\ work[e].calls < MaxCalls /\ ~work[e].aborted /\ (e \in Judge \/ Free)
  /\ work' = [work EXCEPT ![e].calls = @ + 1]
  /\ docs' = docs \cup {e}
  /\ UNCHANGED <<now, entries, pc, told>>

EmitEvent(e) ==
  /\ "emit" \in {c.op : c \in Menu[e]} /\ pc[e] = "run" /\ work[e].calls < MaxCalls
  /\ work' = [work EXCEPT ![e].calls = @ + 1, ![e].event = TRUE]
  /\ UNCHANGED <<now, entries, docs, pc, told>>

\* The function returns, throws, or is stopped at its deadline.
Return(e) == \E ok \in BOOLEAN :
  /\ pc[e] = "run"
  /\ work' = [work EXCEPT ![e] = [Local EXCEPT !.ok = ok, !.event = ok /\ work[e].event,
                                              !.aborted = work[e].aborted]]
  /\ Goto(e, "log")
  /\ UNCHANGED <<now, entries, docs, told>>

AfterLog(e) == IF e \in Judge THEN IF work[e].ok /\ ~work[e].aborted THEN "commit" ELSE "rollback"
               ELSE IF work[e].ok THEN "tell" ELSE "failed"

\* The call is logged on one more connection; the execution goes on without.
FinishExecution(e) ==
  /\ pc[e] = "log" /\ Free /\ Goto(e, AfterLog(e))
  /\ UNCHANGED <<now, entries, docs, work, told>>

\* Only who has not begun gives up.
PoolTimeoutAtStart(e) == /\ ~Free /\ pc[e] = "idle" /\ Goto(e, "failed")
                         /\ UNCHANGED <<now, entries, docs, work, told>>

\* No connection within the acquire timeout of the pool.
PoolTimeout(e) ==
  /\ ~Free
  /\ \/ pc[e] = "idle" /\ Goto(e, "failed")
     \/ pc[e] = "lookup" /\ Goto(e, "rollback")
     \/ pc[e] = "log" /\ Goto(e, AfterLog(e))
  /\ UNCHANGED <<now, entries, docs, work, told>>

\* The rest of the submission succeeds.
Commit(e) ==
  /\ pc[e] = "commit"
  /\ committed' = [k \in Key |-> IF lock[k] = e THEN rows[k] ELSE committed[k]]
  /\ lock' = [k \in Key |-> IF lock[k] = e THEN None ELSE lock[k]]
  /\ Goto(e, "tell")
  /\ UNCHANGED <<now, rows, docs, work, told>>

\* An error of the judge, or of the submission after it.
Rollback(e) ==
  /\ pc[e] \in {"rollback", "commit"}
  /\ rows' = [k \in Key |-> IF lock[k] = e THEN committed[k] ELSE rows[k]]
  /\ lock' = [k \in Key |-> IF lock[k] = e THEN None ELSE lock[k]]
  /\ docs' = docs \ {e}
  /\ Goto(e, "failed")
  /\ UNCHANGED <<now, committed, work, told>>

\* The answer is sent; a task of its own tells the team of the events.
Tell(e) ==
  /\ pc[e] = "tell"
  /\ told' = IF work[e].event THEN told \cup {e} ELSE told
  /\ Goto(e, "done")
  /\ UNCHANGED <<now, entries, docs, work>>

Step(e) ==
  \/ Start(e) \/ Lookup(e) \/ PoolTimeout(e)
  \/ \E c \in Menu[e] : Issue(e, c)
  \/ Wake(e) \/ LockTimeout(e) \/ Reread(e)
  \/ \E c \in Menu[e] : GetKvEntry(e, c)
  \/ InsertStoreDoc(e) \/ EmitEvent(e)
  \/ Return(e) \/ FinishExecution(e) \/ Commit(e) \/ Rollback(e) \/ Tell(e)

Next == Tick \/ ClearKv \/ \E e \in Execution : Step(e)

Spec == Init /\ [][Next]_vars
-----------------------------------------------------------------------------
(* Properties *)

TypeOK ==
  /\ now \in 1..MaxNow
  /\ pc \in [Execution -> {"idle", "lookup", "run", "waiting", "reread", "log", "commit",
                           "rollback", "tell", "done", "failed"}]
  /\ lock \in [Key -> Judge \cup {None}]
  /\ told \subseteq Execution
  /\ \A k \in Key : lock[k] = None => rows[k] = committed[k]

Ended(e) == pc[e] \in {"done", "failed"}
Stands(e) == pc[e] \in {"tell", "done"}

\* A compare-and-set that is applied replaces the entry its caller had seen,
\* and no write of anybody else, unless the key was deleted in between: then
\* the versions have started again (compare_and_set_kv_conn, delete_kv_conn).
CasStep(e, c) == c.op = "compareAndSet"
                 /\ (Issue(e, c) \/ (work[e].call = c /\ Wake(e)))
CasCurrent == [][\A e \in Execution : \A c \in Menu[e] :
  CasStep(e, c) /\ rows'[c.key] # rows[c.key] /\ rows[c.key].born = work[e].seen.born
    => rows[c.key].by = work[e].seen.by]_vars

\* What a judge function wrote, and the events it collected, are others' to
\* see if and only if its submission was committed (execute_judge_conn).
JudgeAtomic ==
  /\ told \subseteq {e \in Execution : pc[e] = "done"}
  /\ \A k \in Key, e \in Judge :
       /\ committed[k].by # None /\ committed[k].by[1] = e => Stands(e)
       /\ rows[k].by # None /\ rows[k].by[1] = e => Stands(e) \/ lock[k] = e
       /\ lock[k] = e => ~Ended(e) /\ ~Stands(e)
  /\ \A e \in docs \cap Judge : pc[e] # "failed"

\* Nobody is stuck: two judges that want each other's row, and judges that
\* hold all the connections and want one more, give up in time (SET LOCAL
\* lock_timeout, the pool).  The calls being finite, every execution ends.
SomeoneMoves == (\A e \in Execution : Ended(e)) \/ \E e \in Execution : ENABLED Step(e)
=============================================================================
