----------------------------- MODULE MCServices -----------------------------
(* Three services that keep what they have begun, each in a small instance *)
(* of its own: a behaviour is one of the part that its first state names,  *)
(* and the others stay as they are.                                        *)
(*   upload        one browser and the workers of two processes, one file  *)
(*   settings      two processes and two updates                           *)
(*   registration  two requests for one address                            *)
EXTENDS Naturals

CONSTANTS
  Request, Worker, File, Content, Nil, Life, MaxDay, MaxMultipart, MaxFaults,
  Process, MaxUpdates,
  Email, Visitor, Token, TTL

VARIABLES
  part,
  row, group, lock, rowLock, call, multi, object, day, faults, overtaken, lost,
  saved, clock, up, cache, update, subscribed, inbox, hand, outdated, stops,
  account, pendingUser, pendingEmail, mail, freed, visit, failures

inUpload       == <<row, group, lock, rowLock, call, multi, object, day, faults, overtaken, lost>>
inSettings     == <<saved, clock, up, cache, update, subscribed, inbox, hand, outdated, stops>>
inRegistration == <<account, pendingUser, pendingEmail, mail, freed, visit, failures>>
all            == <<part, inUpload, inSettings, inRegistration>>

Upload == INSTANCE AssetUpload WITH None <- Nil

Settings == INSTANCE SystemSettings WITH
  row <- saved, overtaken <- outdated, faults <- stops

Account == INSTANCE Registration WITH
  Request <- Visitor, None <- Nil, call <- visit, faults <- failures, MaxFaults <- 1

ASSUME ServicesAssumption ==
  Upload!ConstantAssumption /\ MaxUpdates \in Nat /\ Account!RegistrationAssumption

ServicesInit ==
  /\ part \in {"upload", "settings", "registration"}
  /\ Upload!Init /\ Settings!Init /\ Account!Init

ServicesNext ==
  \/ part = "upload" /\ Upload!Next /\ UNCHANGED <<part, inSettings, inRegistration>>
  \/ part = "settings" /\ Settings!Next /\ UNCHANGED <<part, inUpload, inRegistration>>
  \/ part = "registration" /\ Account!Next /\ UNCHANGED <<part, inUpload, inSettings>>

\* The first step of every part decides whether its fairness asks for anything:
\* uploads ask for nothing before somebody begins one.
SettingsFairness == \A p \in Process :
  /\ WF_inSettings(part = "settings" /\ Settings!Boot(p))
  /\ WF_inSettings(part = "settings" /\ Settings!Answering(p))
  /\ WF_inSettings(part = "settings" /\ Settings!Listen(p))
  /\ WF_inSettings(part = "settings" /\ Settings!Reconcile(p))

ServicesSpec ==
  ServicesInit /\ [][ServicesNext]_all /\ Upload!Fairness /\ SettingsFairness

-----------------------------------------------------------------------------
\* A registered upload keeps its files and its state, and a cleaned one has left nothing.
ServicesSound ==
  /\ Upload!TypeOK /\ Settings!TypeOK /\ Account!TypeOK
  /\ Upload!RegisteredKept /\ Upload!NothingLeft

\* What was confirmed is registered or refused, and what was cancelled is cleaned.
Settled == Upload!Settled

\* Every process comes to work by the settings in the row.
SettingsConverge == part = "settings" => Settings!SettingsConverge

\* While a link can be redeemed, its address is reserved or has an account.
LinksReserved == Account!LinksReserved
=============================================================================
