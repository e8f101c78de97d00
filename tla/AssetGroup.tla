----------------------------- MODULE AssetGroup -----------------------------
(***************************************************************************)
(* The files of one asset group: their rows, and their objects in the      *)
(* bucket (src/src/api/admin/asset.rs, src/src/db/asset.rs,                *)
(* src/src/module/storage.rs).                                             *)
(*                                                                         *)
(* Rows and objects change one after the other.  An object is renamed by a *)
(* copy and a deletion; what was renamed is renamed back when a later step *)
(* fails.  Nothing keeps two administrators apart.  An object is known by  *)
(* the file whose bytes it has.                                            *)
(***************************************************************************)
EXTENDS Integers

CONSTANTS
  File, Folder, Name, Request, None,
  MaxFaults   \* bound of the model

Path == Folder \X Name

VARIABLES
  group,     \* the row of the group: "none" before it is made, "there", "gone"
  row,       \* rb_asset_file: the relative_path of each file
  object,    \* the bucket, under the key of the group
  summary,   \* what size and sha256 of the group were made from
  call,
  met,       \* history: 1, requests overlapped; 2, on a path of both
  failed     \* history: the calls that failed, in order of kind

\* Assumed of the constants.
ConstantAssumption == None \notin File \cup Path /\ Path # {}

state == <<group, row, object, summary>>
vars  == <<state, call, met, failed>>

Nowhere == [f \in File |-> None]
Idle == [pc |-> "idle", was |-> Nowhere, to |-> Nowhere, left |-> {}, done |-> {}, at |-> None]

\* A call to the bucket or the database is not executed ("store", "database"),
\* or is executed and its answer is lost ("answer").  Where requests met on a
\* path, of which no property speaks, no call fails.
Kind   == {"store", "database", "answer"}
Faults == failed["store"] + failed["database"] + failed["answer"]
Fail(k) == Faults < MaxFaults /\ met < 2 /\ failed' = [failed EXCEPT ![k] = @ + 1]

Answer(c) == call' = [call EXCEPT ![c] = Idle]
Goto(c, where) == call' = [call EXCEPT ![c].pc = where]

There    == {f \in File : row[f] # None}
Put(p, f) == object' = [object EXCEPT ![p] = f]
Paths(l) == (UNION {{l.was[f], l.to[f]} : f \in File}) \ {None}

\* A request begins, and meets those under way.
Begin(c, l) ==
  LET others == {d \in Request : call[d].pc # "idle"}
      mine   == IF l.pc = "remove" THEN Path ELSE Paths(l)
      theirs(d) == IF call[d].pc \in {"remove", "remove_objects"} THEN Path ELSE Paths(call[d])
  IN
  /\ call[c].pc = "idle" /\ call' = [call EXCEPT ![c] = l]
  /\ met' = IF \E d \in others : mine \cap theirs(d) # {} THEN 2
            ELSE IF others # {} /\ met < 1 THEN 1 ELSE met
  /\ UNCHANGED <<state, failed>>

Init ==
  /\ group = "none" /\ row = Nowhere /\ object = [p \in Path |-> None]
  /\ summary = Nowhere /\ call = [c \in Request |-> Idle]
  /\ met = 0 /\ failed = [k \in Kind |-> 0]
-----------------------------------------------------------------------------
(* An upload through the process makes a group under a key of its own. *)

Append(c, to) ==
  /\ group = "none" /\ \A d \in Request : call[d].pc = "idle"
  /\ Begin(c, [Idle EXCEPT !.pc = "store", !.to = to, !.left = {f \in File : to[f] # None}])

StoreFile(c) == \E f \in call[c].left :
  /\ call[c].pc = "store"
  /\ \/ Put(call[c].to[f], f) /\ UNCHANGED failed
        /\ call' = [call EXCEPT ![c].left = @ \ {f}, ![c].done = @ \cup {f}]
     \/ Fail("store") /\ Goto(c, "unstore") /\ UNCHANGED object
  /\ UNCHANGED <<group, row, summary, met>>

\* A statement fails, and the objects are deleted; the commit fails, and they stay.
InsertGroup(c) ==
  /\ call[c].pc = "store" /\ call[c].left = {}
  /\ \/ group' = "there" /\ row' = call[c].to /\ summary' = row' /\ Answer(c) /\ UNCHANGED failed
     \/ Fail("database") /\ (Answer(c) \/ Goto(c, "unstore")) /\ UNCHANGED <<group, row, summary>>
  /\ UNCHANGED <<object, met>>

Unstore(c) ==
  /\ call[c].pc = "unstore" /\ Answer(c)
  /\ \/ UNCHANGED failed
        /\ object' = [p \in Path |-> IF object[p] \in call[c].done THEN None ELSE object[p]]
     \/ Fail("store") /\ UNCHANGED object
  /\ UNCHANGED <<group, row, summary, met>>
-----------------------------------------------------------------------------
(* Renaming a file within its folder, or a folder. *)

Rename(c, to) ==
  LET moved == {f \in File : to[f] # None} IN
  Begin(c, [Idle EXCEPT !.pc = "rename", !.to = to, !.left = moved,
                        !.was = [f \in File |-> IF f \in moved THEN row[f] ELSE None]])

PatchFile(c, f, n) ==
  /\ f \in There /\ row[f][2] # n
  /\ \A g \in There : row[g] # <<row[f][1], n>>
  /\ Rename(c, [Nowhere EXCEPT ![f] = <<row[f][1], n>>])

PatchFolder(c, a, b) ==
  LET affected == {f \in There : row[f][1] = a} IN
  /\ a # b /\ affected # {} /\ \A f \in There : row[f][1] # b
  /\ Rename(c, [f \in File |-> IF f \in affected THEN <<b, row[f][2]>> ELSE None])

\* What is not there cannot be copied.
Copy(c) == \E f \in call[c].left :
  LET old == call[c].was[f] IN
  /\ call[c].pc = "rename"
  /\ \/ object[old] # None /\ Put(call[c].to[f], object[old]) /\ UNCHANGED failed
        /\ call' = [call EXCEPT ![c].pc = "drop_old", ![c].at = f]
     \/ object[old] = None /\ Goto(c, "undo") /\ UNCHANGED <<object, failed>>
     \/ Fail("store") /\ Goto(c, "undo") /\ UNCHANGED object
  /\ UNCHANGED <<group, row, summary, met>>

DropOld(c) ==
  LET f == call[c].at IN
  /\ call[c].pc = "drop_old"
  /\ \/ Put(call[c].was[f], None) /\ UNCHANGED failed
        /\ call' = [call EXCEPT ![c].pc = "rename", ![c].at = None,
                                ![c].left = @ \ {f}, ![c].done = @ \cup {f}]
     \/ Fail("store") /\ Goto(c, "drop_copy") /\ UNCHANGED object
     \/ Fail("answer") /\ Goto(c, "drop_copy") /\ Put(call[c].was[f], None)
  /\ UNCHANGED <<group, row, summary, met>>

DropCopy(c) ==
  /\ call[c].pc = "drop_copy" /\ call' = [call EXCEPT ![c].pc = "undo", ![c].at = None]
  /\ \/ Put(call[c].to[call[c].at], None) /\ UNCHANGED failed
     \/ Fail("store") /\ UNCHANGED object
  /\ UNCHANGED <<group, row, summary, met>>

\* A file that is gone undoes the renaming.  Any other error does so for one
\* file; for a folder it does so at the commit, and not at a statement.
UpdatePaths(c) ==
  LET moved == call[c].done
      new   == [f \in File |-> IF f \in moved THEN call[c].to[f] ELSE row[f]]
      free  == \A f \in moved, g \in There : f # g => new[f] # new[g]
      error == \/ Goto(c, "undo")
               \/ Answer(c) /\ \E f \in moved : call[c].was[f][1] # call[c].to[f][1]
  IN
  /\ call[c].pc = "rename" /\ call[c].left = {}
  /\ \/ moved \subseteq There /\ free /\ row' = new /\ Goto(c, "list") /\ UNCHANGED failed
     \/ ~(moved \subseteq There) /\ Goto(c, "undo") /\ UNCHANGED <<row, failed>>
     \/ moved \subseteq There /\ ~free /\ error /\ UNCHANGED <<row, failed>>
     \/ Fail("database") /\ error /\ UNCHANGED row
     \/ moved \subseteq There /\ free /\ row' = new /\ Fail("answer") /\ Goto(c, "undo")
  /\ UNCHANGED <<group, object, summary, met>>

\* The file that failed is put right, not those before it.
UndoNever(c) == call[c].pc = "undo" /\ Answer(c) /\ UNCHANGED <<state, failed, met>>

\* The objects are renamed back, and whatever fails in that is passed over.
Undo(c) ==
  /\ call[c].pc = "undo"
  /\ IF call[c].done = {} THEN Answer(c) /\ UNCHANGED <<object, failed>>
     ELSE \E f \in call[c].done :
       LET old == call[c].was[f]
           new == call[c].to[f]
       IN /\ call' = [call EXCEPT ![c].done = @ \ {f}]
          /\ \/ object[new] # None /\ object' = [object EXCEPT ![old] = object[new], ![new] = None]
                /\ UNCHANGED failed
             \/ object[new] = None /\ UNCHANGED <<object, failed>>
             \/ Fail("store") /\ UNCHANGED object
  /\ UNCHANGED <<group, row, summary, met>>
-----------------------------------------------------------------------------
(* Deletion of a file; the last one takes the group with it. *)

RemoveGroup(c) ==
  /\ group = "there"
  /\ Begin(c, [Idle EXCEPT !.pc = "remove", !.was = row, !.left = There])

RemoveFile(c, f) ==
  /\ f \in There
  /\ IF There = {f} THEN RemoveGroup(c)
     ELSE Begin(c, [Idle EXCEPT !.pc = "remove_file", !.was = [Nowhere EXCEPT ![f] = row[f]], !.left = {f}])

\* The row goes first, and with it those of its files; then the objects.
DeleteGroup(c) ==
  /\ call[c].pc = "remove"
  /\ \/ group = "there" /\ group' = "gone" /\ row' = Nowhere /\ Goto(c, "remove_objects")
        /\ UNCHANGED failed
     \/ group = "gone" /\ Answer(c) /\ UNCHANGED <<group, row, failed>>
     \/ Fail("database") /\ Answer(c) /\ UNCHANGED <<group, row>>
  /\ UNCHANGED <<object, summary, met>>

DeleteObjects(c) ==
  /\ call[c].pc = "remove_objects"
  /\ IF call[c].left = {} THEN Answer(c) /\ UNCHANGED <<object, failed>>
     ELSE \E f \in call[c].left :
       \/ Put(call[c].was[f], None) /\ call' = [call EXCEPT ![c].left = @ \ {f}] /\ UNCHANGED failed
       \/ Fail("store") /\ Answer(c) /\ UNCHANGED object
  /\ UNCHANGED <<group, row, summary, met>>

\* Of one file the object goes first.
DeleteObject(c) == \E f \in call[c].left :
  /\ call[c].pc = "remove_file"
  /\ \/ Put(call[c].was[f], None) /\ Goto(c, "delete_row") /\ UNCHANGED failed
     \/ Fail("store") /\ Answer(c) /\ UNCHANGED object
  /\ UNCHANGED <<group, row, summary, met>>

DeleteRow(c) == \E f \in call[c].left :
  /\ call[c].pc = "delete_row"
  /\ \/ f \in There /\ row' = [row EXCEPT ![f] = None] /\ Goto(c, "list") /\ UNCHANGED failed
     \/ f \notin There /\ Answer(c) /\ UNCHANGED <<row, failed>>
     \/ Fail("database") /\ Answer(c) /\ UNCHANGED row
  /\ UNCHANGED <<group, object, summary, met>>
-----------------------------------------------------------------------------
(* The files are listed, read, and summed up in the row of the group. *)

List(c) ==
  /\ call[c].pc = "list" /\ call' = [call EXCEPT ![c].pc = "sum_up", ![c].was = row]
  /\ UNCHANGED <<state, met, failed>>

Summarize(c) ==
  LET seen == call[c].was IN
  /\ call[c].pc = "sum_up" /\ Answer(c)
  /\ \/ /\ group = "there" /\ \A f \in File : seen[f] # None => object[seen[f]] # None
        /\ summary' = seen /\ UNCHANGED failed
     \/ UNCHANGED <<summary, failed>>
        /\ ~(group = "there" /\ \A f \in File : seen[f] # None => object[seen[f]] # None)
     \/ (Fail("store") \/ Fail("database")) /\ UNCHANGED summary
  /\ UNCHANGED <<group, row, object, met>>

Step(c) ==
  \/ StoreFile(c) \/ InsertGroup(c) \/ Unstore(c)
  \/ Copy(c) \/ DropOld(c) \/ DropCopy(c) \/ UpdatePaths(c) \/ Undo(c)
  \/ DeleteGroup(c) \/ DeleteObjects(c) \/ DeleteObject(c) \/ DeleteRow(c)
  \/ List(c) \/ Summarize(c)

Uploads == {to \in [File -> Path \cup {None}] :
  /\ to # Nowhere
  /\ \A f, g \in File : f # g /\ to[f] # None => to[f] # to[g]}

Ask(c) ==
  \/ \E to \in Uploads : Append(c, to)
  \/ \E f \in File : RemoveFile(c, f) \/ \E n \in Name : PatchFile(c, f, n)
  \/ \E a, b \in Folder : PatchFolder(c, a, b)
  \/ RemoveGroup(c)

Next == \E c \in Request : Ask(c) \/ Step(c)

Spec == Init /\ [][Next]_vars
-----------------------------------------------------------------------------
(* Properties *)

TypeOK ==
  /\ group \in {"none", "there", "gone"} /\ met \in 0..2
  /\ row \in [File -> Path \cup {None}] /\ summary \in [File -> Path \cup {None}]
  /\ object \in [Path -> File \cup {None}]
  /\ failed \in [Kind -> 0..MaxFaults]

Quiet == \A c \in Request : call[c].pc = "idle"

\* Between requests every file of the group has its own bytes at its path, when
\* requests overlapped on different paths and when a call to the bucket was not
\* executed, in the middle of a folder or between copy and deletion: what was
\* done is undone.  A second failure, in the undoing, a failure of the
\* database and a lost answer are not survived (rename_file, patch_folder).
Intact ==
  Quiet /\ met < 2 /\ Faults = failed["store"] /\ Faults <= 1
    => \A f \in There : object[row[f]] = f

\* When nothing failed the bucket holds no other objects, and size and sha256
\* are those of the files, unless requests overlapped (recompute_group_metadata).
Tidy ==
  /\ Quiet /\ met < 2 /\ Faults = 0
       => \A p \in Path : object[p] # None => row[object[p]] = p
  /\ Quiet /\ met = 0 /\ Faults = 0 /\ group = "there" => summary = row
=============================================================================
