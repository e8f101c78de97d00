------------------------------ MODULE MCParts ------------------------------
(* Three parts of the server that have no state in common, each in an      *)
(* instance of its own, and what is to hold of them.  MCAllParts runs them. *)
(*   Backend   calls of the functions of puzzle backends                   *)
(*   People    browsers that act as Root, as administrators and as users   *)
(*   Files     requests that move the files of a group between folders     *)
EXTENDS Integers

CONSTANTS
  Nothing,
  Execution, Judge, Key, Text, Menu, Pool, Ttl, MaxNow, MaxCalls,
  Person, Root, Browser, SessionLimits, MaxSession,
  Item, Folder, Name, Editor

VARIABLES
  now, rows, committed, held, docs, stage, work, heard,
  person, list, cookie, request, breaks, cap,
  state, path, bucket, summary, job, met, failed

inBackend  == <<now, rows, committed, held, docs, stage, work, heard>>
inAccounts == <<person, list, cookie, request, breaks, cap>>
inGroup    == <<state, path, bucket, summary, job, met, failed>>

Backend == INSTANCE PuzzleBackend WITH
  None <- Nothing, lock <- held, pc <- stage, told <- heard

People == INSTANCE Accounts WITH
  User <- Person, None <- Nothing, MaxFaults <- 1,
  account <- person, call <- request, faults <- breaks

Files == INSTANCE AssetGroup WITH
  File <- Item, Request <- Editor, None <- Nothing, MaxFaults <- 1,
  group <- state, row <- path, object <- bucket, call <- job

ASSUME PartsAssumption ==
  Backend!ConstantAssumption /\ People!ConstantAssumption /\ Files!ConstantAssumption

-----------------------------------------------------------------------------
\* What the functions of puzzle backends wrote is seen when, and only when, their
\* submission is committed.
BackendSound == Backend!TypeOK /\ Backend!JudgeAtomic

\* A compare-and-set succeeds only on the version that it read.
CasCurrent == Backend!CasCurrent

\* Root is who has id 0, the setting that a login has read bounds the sessions that it
\* leaves, and only Root makes administrators, unmakes them or resets their passwords.
AccountsSound == [](People!TypeOK /\ People!OneRoot /\ People!SessionsBounded) /\ People!RolesGuarded

\* Rows and objects of an asset group agree when one call to the bucket fails, and the
\* bucket has nothing else when none does.
FilesSound == Files!TypeOK /\ Files!Intact /\ Files!Tidy
=============================================================================
