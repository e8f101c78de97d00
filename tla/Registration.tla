---------------------------- MODULE Registration ----------------------------
(***************************************************************************)
(* How an account comes to be (src/src/api/auth.rs, src/src/db/user.rs).   *)
(*                                                                         *)
(* A registration waits for its mail to be answered in two keys of Redis:  *)
(* the account to make, under a token, and the address, which keeps others *)
(* from asking.  They are written, and deleted, one after the other, and   *)
(* each expires a quarter of an hour after it was written.                 *)
(***************************************************************************)
EXTENDS Integers

CONSTANTS
  Email, Request, None,
  Token,      \* the tokens: a name is used again when nothing is left of it
  TTL,        \* 15 minutes, in ticks
  MaxFaults   \* bound of the model

\* Assumed of the constants
RegistrationAssumption == TTL \in Nat \ {0} /\ None \notin Email /\ MaxFaults \in Nat

VARIABLES
  account,       \* the addresses in rb_user
  pendingUser,   \* auth:pending:v1:user:{token}: the address, and the time it has left
  pendingEmail,  \* auth:pending:v1:email:{email}: the time it has left
  mail,          \* the tokens that were sent and can be redeemed
  freed,         \* history: the addresses an administrator has taken from an account
  call, faults

keys == <<pendingUser, pendingEmail, mail>>
vars == <<account, keys, freed, call, faults>>

NoCall == [pc |-> "idle", email |-> None, token |-> None]
NoKey  == [email |-> None, left |-> 0]
Phase  == {"idle", "asked", "putUser", "putEmail", "send", "insert", "deleteEmail"}

Answer(c)      == call' = [call EXCEPT ![c] = NoCall]
Goto(c, where) == call' = [call EXCEPT ![c].pc = where]
Begin(c, where, e) ==
  call[c].pc = "idle" /\ call' = [call EXCEPT ![c] = [pc |-> where, email |-> e, token |-> None]]

Init ==
  /\ account = {} /\ mail = {} /\ freed = {}
  /\ pendingUser = [t \in Token |-> NoKey] /\ pendingEmail = [e \in Email |-> 0]
  /\ call = [c \in Request |-> NoCall] /\ faults = 0
-----------------------------------------------------------------------------
(* Registration. *)

\* The request asks whether the address has an account, and then whether it
\* is taken; without verification the account is made at once.
Register(c, e) ==
  /\ e \notin account /\ Begin(c, "asked", e)
  /\ UNCHANGED <<account, keys, freed, faults>>

\* A second account of one address breaks a constraint of the table.
RegisterAtOnce(c) ==
  /\ call[c].pc = "asked" /\ Answer(c)
  /\ account' = account \cup {call[c].email}
  /\ UNCHANGED <<keys, freed, faults>>

PendingExists(c) ==
  /\ call[c].pc = "asked"
  /\ IF pendingEmail[call[c].email] > 0 THEN Answer(c) ELSE Goto(c, "putUser")
  /\ UNCHANGED <<account, keys, freed, faults>>

\* A token that nobody has had: no key is left of it, and no request has it in hand.
PutUser(c, t) ==
  /\ call[c].pc = "putUser"
  /\ pendingUser[t] = NoKey /\ \A d \in Request : call[d].token # t
  /\ call' = [call EXCEPT ![c].pc = "putEmail", ![c].token = t]
  /\ pendingUser' = [pendingUser EXCEPT ![t] = [email |-> call[c].email, left |-> TTL]]
  /\ UNCHANGED <<account, pendingEmail, mail, freed, faults>>

PutEmail(c) ==
  /\ call[c].pc = "putEmail" /\ Goto(c, "send")
  /\ pendingEmail' = [pendingEmail EXCEPT ![call[c].email] = TTL]
  /\ UNCHANGED <<account, pendingUser, mail, freed, faults>>

\* The mail server takes the link or fails; the keys stay either way.  A link
\* that comes too late is of no use.
Send(c) ==
  /\ call[c].pc = "send" /\ Answer(c)
  /\ \/ /\ mail' = mail \cup {t \in {call[c].token} : pendingUser[t].left > 0}
        /\ UNCHANGED faults
     \/ faults < MaxFaults /\ faults' = faults + 1 /\ UNCHANGED mail
  /\ UNCHANGED <<account, pendingUser, pendingEmail, freed>>

\* Mutant: the address is given up together with the token, before there is an account.
VerifyFreesFirst(c, t) ==
  /\ t \in mail /\ mail' = mail \ {t}
  /\ pendingUser' = [pendingUser EXCEPT ![t] = NoKey]
  /\ pendingEmail' = [pendingEmail EXCEPT ![pendingUser[t].email] = 0]
  /\ Begin(c, "insert", pendingUser[t].email)
  /\ UNCHANGED <<account, freed, faults>>

\* Whoever has the link redeems its token, once.
Verify(c, t) ==
  /\ t \in mail /\ mail' = mail \ {t}
  /\ pendingUser' = [pendingUser EXCEPT ![t] = NoKey]
  /\ Begin(c, "insert", pendingUser[t].email)
  /\ UNCHANGED <<account, pendingEmail, freed, faults>>

\* ON CONFLICT DO NOTHING returns no row, and that is an error.
Insert(c) ==
  LET e == call[c].email IN
  /\ call[c].pc = "insert"
  /\ IF e \in account THEN Answer(c) /\ UNCHANGED account
     ELSE account' = account \cup {e} /\ Goto(c, "deleteEmail")
  /\ UNCHANGED <<keys, freed, faults>>

DeleteEmail(c) ==
  /\ call[c].pc = "deleteEmail" /\ Answer(c)
  /\ pendingEmail' = [pendingEmail EXCEPT ![call[c].email] = 0]
  /\ UNCHANGED <<account, pendingUser, mail, freed, faults>>

\* An administrator makes an account of an address that has none, or gives an
\* account another address.
AdminCreate(e) ==
  /\ account' = account \cup {e}
  /\ UNCHANGED <<keys, freed, call, faults>>

AdminRename(e) ==
  /\ e \in account /\ freed' = freed \cup {e}
  /\ \/ account' = account \ {e}                            \* one that nobody registers
     \/ \E f \in Email \ account : account' = (account \ {e}) \cup {f}
  /\ UNCHANGED <<keys, call, faults>>

\* Time passes, and Redis drops the keys that have expired.
Tick ==
  /\ pendingUser' = [t \in Token |-> IF pendingUser[t].left > 1
                                       THEN [pendingUser[t] EXCEPT !.left = @ - 1]
                                       ELSE NoKey]
  /\ pendingEmail' = [e \in Email |-> IF pendingEmail[e] > 1 THEN pendingEmail[e] - 1 ELSE 0]
  /\ mail' = {t \in mail : pendingUser[t].left > 1}
  /\ UNCHANGED <<account, freed, call, faults>>

\* The process stops, or Redis cannot be reached, between two steps.
Drop(c) ==
  /\ call[c].pc # "idle" /\ faults < MaxFaults /\ faults' = faults + 1
  /\ Answer(c) /\ UNCHANGED <<account, keys, freed>>

Step(c) == \/ RegisterAtOnce(c) \/ PendingExists(c) \/ \E t \in Token : PutUser(c, t)
           \/ PutEmail(c) \/ Send(c) \/ Insert(c) \/ DeleteEmail(c)

Next ==
  \/ \E c \in Request : \/ \E e \in Email : Register(c, e)
                         \/ \E t \in Token : Verify(c, t)
                         \/ Step(c) \/ Drop(c)
  \/ \E e \in Email : AdminCreate(e) \/ AdminRename(e)
  \/ Tick

Spec == Init /\ [][Next]_vars
-----------------------------------------------------------------------------
(* Properties *)

TypeOK ==
  /\ account \subseteq Email /\ freed \subseteq Email
  /\ pendingUser \in [Token -> [email: Email, left: 1..TTL] \cup {NoKey}]
  /\ pendingEmail \in [Email -> 0..TTL]
  /\ mail \subseteq {t \in Token : pendingUser[t] # NoKey}
  /\ call \in [Request -> [pc: Phase, email: Email \cup {None}, token: Token \cup {None}]]
  /\ faults \in 0..MaxFaults

\* As long as a link that was sent can be redeemed, nobody is sent another one
\* for its address: the address is reserved, or has its account, unless an
\* administrator has taken it from its account.  That rests on the order of the
\* two keys (the address is written last and outlives the token), on the mail
\* that goes out after both, and on the account that is made before the address
\* is given up, also when two requests for one address have passed the check
\* together and each has sent its link (put_pending, verify_pending).
LinksReserved ==
  \A t \in mail : LET e == pendingUser[t].email
                  IN  pendingEmail[e] > 0 \/ e \in account \cup freed
=============================================================================
