---------------------------- MODULE AssetUpload ----------------------------
(***************************************************************************)
(* One direct upload: the browser puts parts into the object store with    *)
(* signed URLs, the process keeps a session in rb_asset_upload, and a      *)
(* worker on every process registers what is complete and cleans up what   *)
(* is not (src/src/api/admin/asset_upload.rs).                             *)
(*                                                                         *)
(* A request holds an advisory lock that belongs to a connection of its    *)
(* own, reads the row once and writes it back from that copy.  The         *)
(* transaction that registers runs on another connection: it does not end  *)
(* when the lock is lost, and its answer may be lost while PostgreSQL      *)
(* still works on it.  A write to the row waits for it (rowLock).          *)
(*                                                                         *)
(* A file is one part; its MD5 and its SHA-256 are its content.  What a    *)
(* request has sent to the object store has taken effect, or never will,   *)
(* when its lock is released.                                              *)
(***************************************************************************)
EXTENDS Integers, Sequences, FiniteSets

CONSTANTS
  Request,   \* connections that serve the browser of the owner
  Worker,    \* processes that run the upload worker
  File, Content, None,
  Life,      \* a session ends this many days after it was created: 7 in the code
  MaxDay, MaxMultipart, MaxFaults   \* bounds of the model

\* Assumed of the constants
ConstantAssumption ==
  /\ {Life, MaxDay, MaxMultipart, MaxFaults} \subseteq Nat
  /\ Request \cap Worker = {} /\ None \notin Request \cup Worker \cup Content
  /\ "in flight" \notin Request \cup Worker \cup {None}

VARIABLES
  row,       \* rb_asset_upload: state, document and expires_at
  group,     \* rb_asset_group: "none", "registered" or "deleted"
  lock,      \* who holds pg_try_advisory_lock(id)
  rowLock,   \* who runs, or ran, the transaction that registers
  call,      \* requests and workers
  multi,     \* the store's multipart uploads of each file, by id (external)
  object,    \* the store's objects (external)
  day, faults,
  overtaken, \* history: a registration took effect that somebody no longer expected
  lost       \* history: a lock was lost under a request that went on

rows  == <<row, group>>
store == <<multi, object>>
ghost == <<overtaken, lost>>
vars  == <<rows, lock, rowLock, call, store, day, faults, ghost>>

Caller   == Request \cup Worker
State    == {"none", "Uploading", "Confirming", "Failed", "Complete", "Cancelled", "Cleaned"}
FileState == [upload: 0..MaxMultipart, part: Content \cup {None}, sha: Content \cup {None},
              completing: BOOLEAN, complete: BOOLEAN]
NoFile   == [upload |-> 0, part |-> None, sha |-> None, completing |-> FALSE, complete |-> FALSE]
Row      == [state: State, files: [File -> FileState], expires: 0..MaxDay + 1]
NoRow    == [state |-> "none", files |-> [f \in File |-> NoFile], expires |-> 0]
NoCall   == [pc |-> "idle", row |-> NoRow, file |-> None]

\* What a caller holds the lock for, and has yet to do
Editing  == {"initiate", "part", "list", "completing", "finish", "head"}
Judging  == {"verify", "register", "commit", "reread", "failed"}
Cleaning == {"abort", "delete"}
Phase    == {"idle", "confirm", "cancel"} \cup Editing \cup Judging \cup Cleaning

TypeOK ==
  /\ row \in Row /\ group \in {"none", "registered", "deleted"}
  /\ lock \in Caller \cup {None} /\ rowLock \in Worker \cup {None, "in flight"}
  /\ call \in [Caller -> [pc: Phase, row: Row, file: File \cup {None}]]
  /\ multi \in [File -> Seq([open: BOOLEAN, part: Content \cup {None}])]
  /\ object \in [File -> Content \cup {None}]
  /\ day \in 0..MaxDay /\ faults \in 0..MaxFaults
  /\ overtaken \in BOOLEAN /\ lost \in BOOLEAN

Init ==
  /\ row = NoRow /\ group = "none" /\ lock = None /\ rowLock = None
  /\ call = [c \in Caller |-> NoCall]
  /\ multi = [f \in File |-> <<>>] /\ object = [f \in File |-> None]
  /\ day = 0 /\ faults = 0 /\ overtaken = FALSE /\ lost = FALSE

-----------------------------------------------------------------------------
Writable(r) == r.state = "Uploading" /\ r.expires > day
\* LEAST(created_at + 7 days, now() + 24 hours); the session is created on day 0
Touched(r)  == [r EXCEPT !.expires = IF day + 1 < Life THEN day + 1 ELSE Life]
WithFile(r, f, x) == [r EXCEPT !.files[f] = x]
Open(f)     == {i \in DOMAIN multi[f] : multi[f][i].open}

\* pg_try_advisory_lock and the read of the row: a request that finds it busy is refused
Lock(c, pc, r, f) ==
  /\ lock = None /\ row.state # "none" /\ call[c].pc = "idle"
  /\ lock' = c
  /\ call' = [call EXCEPT ![c] = [pc |-> pc, row |-> r, file |-> f]]
  /\ UNCHANGED <<rows, rowLock, store, day, faults, ghost>>

At(c, pc)       == call[c].pc = pc
Goto(c, pc, r)  == call' = [call EXCEPT ![c].pc = pc, ![c].row = r]
Unlock(c)       == /\ call' = [call EXCEPT ![c] = NoCall]
                   /\ lock' = IF lock = c THEN None ELSE lock

\* Upload::save runs on the connection of the lock, and waits for the lock of the row.
\* It writes state and document; touch, before it, has written expires_at
Save(c, r) ==
  /\ lock = c /\ rowLock = None
  /\ row' = r
  /\ UNCHANGED <<group, rowLock, store, day, faults, ghost>>

\* The upload is created with INSERT ... ON CONFLICT (owner_id, request_id)
Create ==
  /\ row.state = "none"
  /\ row' = [NoRow EXCEPT !.state = "Uploading", !.expires = 1]
  /\ UNCHANGED <<group, lock, rowLock, call, store, day, faults, ghost>>

-----------------------------------------------------------------------------
(* The owner's requests.                                                   *)

\* parts: permission to upload the part whose MD5 is x
AskPart(c, f, x) ==
  LET s == row.files[f] IN
  /\ Writable(row) /\ ~s.complete /\ ~s.completing /\ s.part \in {None, x}
  /\ Lock(c, IF s.upload = 0 THEN "initiate" ELSE "part",
          WithFile(row, f, [s EXCEPT !.part = x]), f)

\* ... looks for a multipart upload that an earlier request began and did not save
Initiate(c) ==
  LET f == call[c].file IN
  /\ At(c, "initiate")
  /\ \/ \E i \in Open(f) :
          /\ \A j \in Open(f) : i <= j
          /\ Goto(c, "part", WithFile(call[c].row, f, [call[c].row.files[f] EXCEPT !.upload = i]))
          /\ multi' = [multi EXCEPT ![f] = [j \in DOMAIN @ |-> [@[j] EXCEPT !.open = j = i]]]
     \/ /\ Open(f) = {} /\ Len(multi[f]) < MaxMultipart
        /\ Goto(c, "part", WithFile(call[c].row, f,
                 [call[c].row.files[f] EXCEPT !.upload = Len(multi[f]) + 1]))
        /\ multi' = [multi EXCEPT ![f] = Append(@, [open |-> TRUE, part |-> None])]
  /\ UNCHANGED <<rows, lock, rowLock, object, day, faults, ghost>>

Authorize(c) == At(c, "part") /\ Save(c, Touched(call[c].row)) /\ Unlock(c)

\* list_parts prolongs the session
ListParts(c) == Writable(row) /\ Lock(c, "list", row, None)
Prolong(c)   == At(c, "list") /\ Save(c, Touched(call[c].row)) /\ Unlock(c)

\* The browser uses a signed URL: it names the multipart upload and the content
PutPart(f) ==
  LET s == row.files[f] IN
  /\ s.upload \in Open(f) /\ s.part # None
  /\ multi' = [multi EXCEPT ![f][s.upload].part = s.part]
  /\ UNCHANGED <<rows, lock, rowLock, call, object, day, faults, ghost>>

\* complete_file: the parts are those announced, or the object is there already
AskFinish(c, f, x) ==
  LET s == row.files[f] IN
  /\ s.sha \in {None, x} /\ ~s.complete /\ Writable(row)
  /\ IF s.completing /\ object[f] # None
       THEN Lock(c, "head", row, f)
       ELSE /\ s.upload \in Open(f)
            /\ s.part # None /\ multi[f][s.upload].part = s.part
            /\ Lock(c, "completing",
                    WithFile(row, f, [s EXCEPT !.sha = x, !.completing = TRUE]), f)

MarkCompleting(c) ==
  /\ At(c, "completing") /\ Save(c, call[c].row)
  /\ Goto(c, "finish", call[c].row) /\ UNCHANGED lock

\* The store joins the parts: the multipart upload is gone and the object is there
Finish(c) ==
  LET f == call[c].file  i == call[c].row.files[f].upload IN
  /\ At(c, "finish") /\ i \in Open(f)
  /\ multi' = [multi EXCEPT ![f][i].open = FALSE]
  /\ object' = [object EXCEPT ![f] = multi[f][i].part]
  /\ Goto(c, "head", call[c].row)
  /\ UNCHANGED <<rows, lock, rowLock, day, faults, ghost>>

FinishFile(c) ==
  LET f == call[c].file IN
  /\ At(c, "head") /\ object[f] # None
  /\ Save(c, Touched(WithFile(call[c].row, f, [call[c].row.files[f] EXCEPT !.complete = TRUE])))
  /\ Unlock(c)

\* complete: every file is there, the worker may register them
AskComplete(c) ==
  LET r == IF row.state = "Failed" THEN [row EXCEPT !.state = "Uploading"] ELSE row IN
  /\ Writable(r) /\ \A f \in File : r.files[f].complete
  /\ Lock(c, "confirm", [r EXCEPT !.state = "Confirming"], None)
Confirm(c) == At(c, "confirm") /\ Save(c, Touched(call[c].row)) /\ Unlock(c)

\* cancel: what is registered is deleted through asset management instead
AskCancel(c) ==
  /\ row.state \notin {"Complete", "Cleaned"}
  /\ Lock(c, "cancel", [row EXCEPT !.state = "Cancelled"], None)
Cancel(c) == At(c, "cancel") /\ Save(c, call[c].row) /\ Unlock(c)

-----------------------------------------------------------------------------
(* The worker.                                                             *)

TakeConfirming(w) == row.state = "Confirming" /\ Lock(w, "verify", row, None)

\* register: the content of every object is hashed again
Verified(r) == \A f \in File : r.files[f].complete /\ object[f] = r.files[f].sha
Verify(w) ==
  /\ At(w, "verify")
  /\ Goto(w, IF Verified(call[w].row) THEN "register" ELSE "reread", call[w].row)
  /\ UNCHANGED <<rows, lock, rowLock, store, day, faults, ghost>>

\* ... its transaction inserts the group, whose object_key is unique, and updates the row
Register(w) ==
  /\ At(w, "register") /\ rowLock = None
  /\ IF group = "registered"
       THEN Goto(w, "reread", call[w].row) /\ UNCHANGED rowLock
       ELSE Goto(w, "commit", call[w].row) /\ rowLock' = w
  /\ UNCHANGED <<rows, lock, store, day, faults, ghost>>

\* Somebody who holds the lock is about to write over what this registration says
Overtakes ==
  \/ row.state # "Confirming"
  \/ \E c \in Caller : lock = c /\ call[c].pc \in {"cancel", "failed"}
Registered ==
  /\ row' = [row EXCEPT !.state = "Complete"] /\ group' = "registered"
  /\ overtaken' = (overtaken \/ Overtakes)

Commit(w) ==
  /\ At(w, "commit") /\ Registered /\ rowLock' = None /\ Unlock(w)
  /\ UNCHANGED <<store, day, faults, lost>>

\* The commit is refused, or its answer never arrives
CommitFails(w) ==
  /\ At(w, "commit") /\ faults < MaxFaults
  /\ rowLock' \in {None, "in flight"}
  /\ Goto(w, "reread", call[w].row) /\ faults' = faults + 1
  /\ UNCHANGED <<rows, lock, store, day, ghost>>
InFlight ==
  /\ rowLock = "in flight" /\ rowLock' = None
  /\ Registered \/ UNCHANGED <<rows, overtaken>>
  /\ UNCHANGED <<lock, call, store, day, faults, lost>>

\* Mutant of Reread: any error of the commit counts as a refusal
RereadNothing(w) ==
  /\ At(w, "reread") /\ lock = w
  /\ Goto(w, "failed", [call[w].row EXCEPT !.state = "Failed"])
  /\ UNCHANGED <<rows, lock, rowLock, store, day, faults, ghost>>

\* "Re-read after an ambiguous commit before changing state."
Reread(w) ==
  /\ At(w, "reread") /\ lock = w
  /\ IF row.state = "Complete"
       THEN Unlock(w)
       ELSE Goto(w, "failed", [call[w].row EXCEPT !.state = "Failed"]) /\ UNCHANGED lock
  /\ UNCHANGED <<rows, rowLock, store, day, faults, ghost>>

SaveFailed(w) == At(w, "failed") /\ Save(w, call[w].row) /\ Unlock(w)

\* Mutant of TakeCleaning: selects what has expired only
TakeExpired(w) ==
  /\ row.state \in {"Uploading", "Failed"} /\ row.expires <= day
  /\ Lock(w, "abort", row, None)

TakeCleaning(w) ==
  /\ \/ row.state = "Cancelled"
     \/ row.state \in {"Uploading", "Failed"} /\ row.expires <= day
  /\ Lock(w, "abort", row, None)

\* cleanup: pending multipart uploads, then the objects, one request each
AbortParts(w) ==
  /\ At(w, "abort")
  /\ multi' = [f \in File |-> [i \in DOMAIN multi[f] |-> [multi[f][i] EXCEPT !.open = FALSE]]]
  /\ Goto(w, "delete", call[w].row)
  /\ UNCHANGED <<rows, lock, rowLock, object, day, faults, ghost>>

DeleteFile(w, f) ==
  /\ At(w, "delete") /\ object[f] # None
  /\ object' = [object EXCEPT ![f] = None]
  /\ UNCHANGED <<rows, lock, rowLock, call, multi, day, faults, ghost>>

Clean(w) ==
  /\ At(w, "delete") /\ \A f \in File : object[f] = None
  /\ Save(w, [call[w].row EXCEPT !.state = "Cleaned"]) /\ Unlock(w)

-----------------------------------------------------------------------------
\* delete (asset.rs): the rows first, then the objects, and the store may not answer
DeleteGroup ==
  /\ group = "registered" /\ group' = "deleted"
  /\ object' \in {object, [f \in File |-> None]}
  /\ UNCHANGED <<row, lock, rowLock, call, multi, day, faults, ghost>>

\* A request ends early: the browser has gone, the store refuses, the process stops
Drop(c) ==
  /\ call[c].pc # "idle" /\ faults < MaxFaults
  /\ Unlock(c) /\ faults' = faults + 1
  /\ rowLock' \in IF rowLock = c THEN {None, "in flight"} ELSE {rowLock}
  /\ UNCHANGED <<rows, store, day, ghost>>

\* What cannot go on: the connection of the lock is gone, or the store has no such upload
Broken(c) ==
  \/ lock # c /\ call[c].pc \in {"part", "list", "completing", "head", "confirm", "cancel",
                                 "reread", "failed", "delete"}
  \/ At(c, "finish") /\ call[c].row.files[call[c].file].upload \notin Open(call[c].file)
GiveUp(c) ==
  /\ Broken(c) /\ Unlock(c)
  /\ UNCHANGED <<rows, rowLock, store, day, faults, ghost>>

\* PostgreSQL ends the connection that holds the lock while the request waits for something else
LoseLock(c) ==
  /\ lock = c /\ faults < MaxFaults
  /\ lock' = None /\ lost' = TRUE /\ faults' = faults + 1
  /\ UNCHANGED <<rows, rowLock, call, store, day, overtaken>>

NextDay ==
  /\ day < MaxDay /\ day' = day + 1
  /\ UNCHANGED <<rows, lock, rowLock, call, store, faults, ghost>>

RequestStep(c) ==
  \/ Initiate(c) \/ Authorize(c) \/ Prolong(c) \/ MarkCompleting(c) \/ Finish(c)
  \/ FinishFile(c) \/ Confirm(c) \/ Cancel(c) \/ GiveUp(c)
WorkerStep(w) ==
  \/ Verify(w) \/ Register(w) \/ Commit(w) \/ Reread(w) \/ SaveFailed(w)
  \/ AbortParts(w) \/ Clean(w) \/ (\E f \in File : DeleteFile(w, f)) \/ GiveUp(w)

Next ==
  \/ Create \/ InFlight \/ DeleteGroup \/ NextDay
  \/ \E f \in File : PutPart(f)
  \/ \E c \in Request :
       \/ ListParts(c) \/ AskComplete(c) \/ AskCancel(c) \/ RequestStep(c)
       \/ \E f \in File, x \in Content : AskPart(c, f, x) \/ AskFinish(c, f, x)
  \/ \E w \in Worker : TakeConfirming(w) \/ TakeCleaning(w) \/ WorkerStep(w) \/ CommitFails(w)
  \/ \E c \in Caller : Drop(c) \/ LoseLock(c)

Spec == Init /\ [][Next]_vars

\* A worker comes back every two seconds and finds the lock free again and again; what has
\* begun goes on, and PostgreSQL ends a transaction whose client has gone
Fairness ==
  /\ WF_vars(InFlight)
  /\ \A c \in Request : WF_vars(RequestStep(c))
  /\ \A w \in Worker : WF_vars(WorkerStep(w)) /\ SF_vars(TakeConfirming(w)) /\ SF_vars(TakeCleaning(w))
FairSpec == Spec /\ Fairness

-----------------------------------------------------------------------------
(* What must hold.                                                         *)

\* What is registered stays in the store with the content whose digest was claimed, and
\* its session never leaves Complete: neither a cancellation nor the cleaning of what
\* expired takes the files of a registered group
RegisteredKept ==
  group = "registered" /\ ~overtaken =>
    row.state = "Complete" /\ \A f \in File : object[f] # None /\ object[f] = row.files[f].sha

\* A session that was cleaned has left nothing in the store, neither an object nor a
\* multipart upload that is paid for and that no row names
NothingLeft ==
  row.state = "Cleaned" /\ ~lost => \A f \in File : object[f] = None /\ Open(f) = {}

\* What was confirmed is registered or refused, and what was cancelled is cleaned
Settled ==
  /\ row.state = "Confirming" ~> row.state # "Confirming"
  /\ row.state = "Cancelled" ~> row.state # "Cancelled"
=============================================================================
