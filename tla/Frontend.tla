------------------------------ MODULE Frontend ------------------------------
(***************************************************************************)
(* The theme packages of one game: what the pages of the published and of  *)
(* the draft revision are rendered with, the files behind it, and the      *)
(* cache of resolved renderers in Redis (src/src/db/frontend.rs,           *)
(* src/src/api/admin/frontend.rs).  Cached previews of drafts are left     *)
(* out, with what invalidates them.                                        *)
(*                                                                         *)
(* One name, one page and one feature stand for all of them: packages of   *)
(* different names never meet, and a page is resolved by itself.  A        *)
(* package of a name is replaced by the next upload, unless the published  *)
(* revision uses it: it is then left as it is, pending deletion.           *)
(*                                                                         *)
(* A transaction is one step where the locks it takes make it one: the     *)
(* registration locks the package FOR UPDATE, and a publication that       *)
(* copies a use of it waits for that lock through the foreign key.  The    *)
(* deletion of a package takes no such lock, and is two steps.             *)
(***************************************************************************)
EXTENDS Integers, FiniteSets

CONSTANTS
  Admin, Reader,
  Offers,    \* bound: what packages offer, of the page and of the feature
  MaxPackage, MaxGroup, MaxRevision  \* bounds of the model

ASSUME ConstantAssumption ==
  /\ {MaxPackage, MaxGroup, MaxRevision} \subseteq Nat
  /\ Offers \subseteq [page: BOOLEAN, feature: BOOLEAN]

VARIABLES
  package,   \* rb_frontend_package of the name, by id
  revision,  \* status of rb_frontend_revision, by id
  binding,   \* rb_frontend_binding of the page: a package or 0
  active,    \* rb_frontend_feature_activation of the feature: packages
  stored,    \* asset groups with their files
  groups,    \* asset groups made so far
  garbage, journal,  \* left by a registration to the worker of direct uploads
  cache,     \* the renderer of the published page in Redis
  call       \* requests of admins and of readers

tables == <<package, revision, binding, active>>
files  == <<stored, groups, garbage, journal>>
vars   == <<tables, files, cache, call>>

Package  == 1..MaxPackage
Revision == 1..MaxRevision
Group    == 1..MaxGroup
NoPackage == [group |-> 0, page |-> FALSE, feature |-> FALSE, pending |-> FALSE]
\* A cached answer is the group of the renderer, or 0; "excused" marks, for the
\* properties, what was stored or left there late
NoEntry  == [group |-> -1, excused |-> FALSE]
NoCall   == [pc |-> "idle", revision |-> 0, package |-> 0, group |-> 0]

\* The next statement of a request
PC == {"idle", "bind", "feature on", "feature off", "config", "cleanup", "cleanup delete",
       "cleanup files", "drop published", "register", "replaced", "invalidate", "mark",
       "unuse", "delete", "delete files", "store"}

TypeOK ==
  /\ package \in [Package -> [group: 0..MaxGroup, page: BOOLEAN, feature: BOOLEAN, pending: BOOLEAN]]
  /\ revision \in [Revision -> {"none", "draft", "published", "deleted"}]
  /\ binding \in [Revision -> 0..MaxPackage]
  /\ active \in [Revision -> SUBSET Package]
  /\ stored \subseteq Group /\ groups \in 0..MaxGroup
  /\ garbage \subseteq Group /\ journal \in BOOLEAN
  /\ cache \in [group: -1..MaxGroup, excused: BOOLEAN]
  /\ call \in [Admin \cup Reader ->
                [pc: PC, revision: 0..MaxRevision, package: 0..MaxPackage, group: 0..MaxGroup]]

Init ==
  /\ package = [p \in Package |-> NoPackage]
  /\ revision = [r \in Revision |-> "none"]
  /\ binding = [r \in Revision |-> 0] /\ active = [r \in Revision |-> {}]
  /\ stored = {} /\ groups = 0 /\ garbage = {} /\ journal = FALSE
  /\ cache = NoEntry
  /\ call = [c \in Admin \cup Reader |-> NoCall]

-----------------------------------------------------------------------------
Present   == {p \in Package : package[p].group # 0}
Current   == {p \in Present : ~package[p].pending}
Live      == {r \in Revision : revision[r] \in {"draft", "published"}}
Draft     == {r \in Revision : revision[r] = "draft"}
Published == {r \in Revision : revision[r] = "published"}
Newest    == Cardinality({r \in Revision : revision[r] # "none"})
Uses(r, p)    == binding[r] = p \/ p \in active[r]

ReferencedByBinding(p) == \E r \in Published : binding[r] = p

Referenced(p) == \E r \in Published : Uses(r, p)

Named(p)      == IF Current = {} THEN p ELSE CHOOSE q \in Current : TRUE

\* resolve, for the published revision
Answer == IF \E r \in Published : binding[r] # 0
          THEN package[binding[CHOOSE r \in Published : TRUE]].group ELSE 0

Idle(c)        == call[c].pc = "idle"
At(c, pc)      == call[c].pc = pc
Goto(c, pc)    == call' = [call EXCEPT ![c].pc = pc]
Begin(c, pc, r, p) == /\ Idle(c)
                      /\ call' = [call EXCEPT ![c] = [NoCall EXCEPT !.pc = pc, !.revision = r, !.package = p]]
Done(c)        == call' = [call EXCEPT ![c] = NoCall]

\* A change of the published revision that nobody invalidates its cache for
Excuse == cache' = [cache EXCEPT !.excused = @ \/ cache.group # -1]

-----------------------------------------------------------------------------
\* ensure_draft
EnsureDraft ==
  /\ Draft = {} /\ Newest < MaxRevision
  /\ LET d == Newest + 1 IN
       /\ revision' = [revision EXCEPT ![d] = "draft"]
       /\ \/ Published = {} /\ UNCHANGED <<binding, active>>
          \/ \E r \in Published : /\ binding' = [binding EXCEPT ![d] = binding[r]]
                                  /\ active' = [active EXCEPT ![d] = active[r]]
  /\ UNCHANGED <<package, files, cache, call>>

\* save_binding, remove_binding: the draft and the package are read first
AskBind(c, r, p) ==
  /\ r \in Draft /\ p \in Current \cup {0} /\ (p # 0 => package[p].page)
  /\ Begin(c, "bind", r, p)
  /\ UNCHANGED <<tables, files, cache>>
Bind(c) ==
  LET r == call[c].revision  p == call[c].package IN
  /\ At(c, "bind") /\ Done(c)
  /\ IF r \in Live /\ (p = 0 \/ p \in Present)
       THEN /\ binding' = [binding EXCEPT ![r] = p]
            /\ IF r \in Published THEN Excuse ELSE UNCHANGED cache
       ELSE UNCHANGED <<binding, cache>>
  /\ UNCHANGED <<package, revision, active, files>>

\* save_feature_activation: those of pending packages of the name go, then it is set
AskFeature(c, r, p) ==
  /\ r \in Draft /\ p \in Current /\ package[p].feature
  /\ \E on \in {"feature on", "feature off"} : Begin(c, on, r, p)
  /\ UNCHANGED <<tables, files, cache>>
Feature(c) ==
  LET r == call[c].revision  p == call[c].package
      kept == {q \in active[r] : p \in Present => ~package[q].pending} IN
  /\ call[c].pc \in {"feature on", "feature off"} /\ Done(c)
  /\ active' = [active EXCEPT ![r] =
       IF At(c, "feature on") /\ r \in Live /\ p \in Present THEN kept \cup {p} ELSE kept \ {p}]
  /\ UNCHANGED <<package, revision, binding, files, cache>>

\* put_config: the names are resolved first; one transaction replaces the whole draft
AskConfig(c, r, p) ==
  /\ r \in Draft /\ p \in Current /\ package[p].page /\ package[p].feature
  /\ Begin(c, "config", r, p)
  /\ UNCHANGED <<tables, files, cache>>
Config(c) ==
  LET r == call[c].revision  p == call[c].package IN
  /\ At(c, "config") /\ Done(c)
  /\ IF r \in Live /\ p \in Present
       THEN /\ binding' = [binding EXCEPT ![r] = p]
            /\ active' = [active EXCEPT ![r] = {p}]
            /\ IF r \in Published THEN Excuse ELSE UNCHANGED cache
       ELSE UNCHANGED <<binding, active, cache>>
  /\ UNCHANGED <<package, revision, files>>

\* publish: uses of pending packages move to the current one or go; the draft replaces what
\* was published, and the next draft is a copy of it
Publish(c, r) ==
  LET here(p)  == p # 0 /\ (~package[p].pending \/ Current # {})
      moved(p) == IF package[p].pending THEN Named(p) ELSE p
      b == IF here(binding[r]) THEN moved(binding[r]) ELSE 0
      a == {moved(p) : p \in {q \in active[r] : here(q)}} IN
  /\ r \in Draft /\ Newest < MaxRevision /\ Begin(c, "cleanup", 0, 0)
  /\ revision' = [q \in Revision |->
       IF q = r THEN "published" ELSE IF q \in Published THEN "deleted"
       ELSE IF q = Newest + 1 THEN "draft" ELSE revision[q]]
  /\ binding' = [q \in Revision |->
       IF q \in {r, Newest + 1} THEN b ELSE IF q \in Published THEN 0 ELSE binding[q]]
  /\ active' = [q \in Revision |->
       IF q \in {r, Newest + 1} THEN a ELSE IF q \in Published THEN {} ELSE active[q]]
  /\ UNCHANGED <<package, files, cache>>

CleanNextSilent(c) ==
  LET next == {p \in Present \ Current : p > call[c].package} IN
  /\ At(c, "cleanup")
  /\ \/ \E p \in next : /\ \A q \in next : p <= q
                        /\ call' = [call EXCEPT ![c].pc = "cleanup delete", ![c].package = p,
                                                ![c].group = package[p].group]
     \/ next = {} /\ IF call[c].package = 0 THEN Done(c)
                     ELSE call' = [call EXCEPT ![c] = [NoCall EXCEPT !.pc = "drop published"]]
  /\ UNCHANGED <<tables, files, cache>>

\* cleanup_pending_packages: one after the other, in an order that does not
\* matter; with none left, the cache is cleared
CleanNext(c) ==
  LET next == {p \in Present \ Current : p > call[c].package} IN
  /\ At(c, "cleanup")
  /\ \/ \E p \in next : /\ \A q \in next : p <= q
                        /\ call' = [call EXCEPT ![c].pc = "cleanup delete", ![c].package = p,
                                                ![c].group = package[p].group]
     \/ next = {} /\ call' = [call EXCEPT ![c] = [NoCall EXCEPT !.pc = "drop published"]]
  /\ UNCHANGED <<tables, files, cache>>

-----------------------------------------------------------------------------
\* register_uploaded_theme, in one transaction: the package is replaced in place, unless the
\* published revision uses it; the draft follows where the new manifest offers the same
\* The drafts that use a package of the name now use the new one, as far as it offers it.
Rebind(new, offer) ==
  LET draft(r) == revision[r] = "draft" IN
  /\ binding' = [r \in Revision |->
       IF draft(r) /\ binding[r] # 0 THEN (IF offer.page THEN new ELSE 0) ELSE binding[r]]
  /\ active' = [r \in Revision |->
       IF draft(r) /\ active[r] # {} THEN (IF offer.feature THEN {new} ELSE {}) ELSE active[r]]

Register(g, offer, late) ==
  LET old   == Current
      stays == {p \in old : Referenced(p)}
      new   == IF old \ stays # {} THEN CHOOSE p \in old \ stays : TRUE
               ELSE CHOOSE p \in Package : p \notin Present /\ \A q \in Package \ Present : p <= q
  IN
  /\ old \ stays # {} \/ Present # Package
  /\ package' = [p \in Package |->
       IF p = new THEN [group |-> g, page |-> offer.page, feature |-> offer.feature, pending |-> FALSE]
       ELSE IF p \in stays THEN [package[p] EXCEPT !.pending = TRUE] ELSE package[p]]
  /\ Rebind(new, offer)
  /\ late = {package[p].group : p \in old \ stays}
  /\ UNCHANGED revision

\* upload_package: the files are stored before the transaction
Upload(c) ==
  /\ groups < MaxGroup /\ Idle(c)
  /\ groups' = groups + 1 /\ stored' = stored \cup {groups + 1}
  /\ call' = [call EXCEPT ![c] = [NoCall EXCEPT !.pc = "register", !.group = groups + 1]]
  /\ UNCHANGED <<tables, garbage, journal, cache>>
RegisterUpload(c) ==
  /\ At(c, "register")
  /\ \E offer \in Offers, late \in SUBSET Group :
       /\ Register(call[c].group, offer, late)
       /\ IF late = {} THEN Done(c)
          ELSE call' = [call EXCEPT ![c].pc = "replaced", ![c].group = CHOOSE g \in late : TRUE]
  /\ UNCHANGED <<files, cache>>
\* ... and those of the package that was replaced go after it; a failure is logged
DropReplaced(c) ==
  /\ At(c, "replaced") /\ Goto(c, "invalidate")
  /\ stored' \in {stored, stored \ {call[c].group}}
  /\ UNCHANGED <<tables, groups, garbage, journal, cache>>

\* A direct upload is registered by a worker, which keeps what remains to be done in the database
RegisterDirect ==
  /\ groups < MaxGroup
  /\ groups' = groups + 1 /\ stored' = stored \cup {groups + 1}
  /\ \E offer \in Offers, late \in SUBSET Group :
       /\ Register(groups + 1, offer, late)
       /\ garbage' = garbage \cup late
  /\ journal' = TRUE
  /\ UNCHANGED <<cache, call>>
DropGarbage(g) ==
  /\ g \in garbage
  /\ garbage' = garbage \ {g} /\ stored' = stored \ {g}
  /\ UNCHANGED <<tables, groups, journal, cache, call>>
Journaled ==
  /\ journal /\ journal' = FALSE /\ cache' = NoEntry
  /\ UNCHANGED <<tables, stored, groups, garbage, call>>

-----------------------------------------------------------------------------
\* delete_package: first what the published revision uses is asked for
AskDelete(c, p) ==
  /\ p \in Present
  /\ Idle(c)
  /\ call' = [call EXCEPT ![c] = [pc |-> IF Referenced(p) THEN "mark" ELSE "unuse",
                                 revision |-> 0, package |-> p, group |-> package[p].group]]
  /\ UNCHANGED <<tables, files, cache>>
Mark(c) ==
  LET p == call[c].package IN
  /\ At(c, "mark") /\ Done(c)
  /\ package' = IF p \in Present THEN [package EXCEPT ![p].pending = TRUE] ELSE package
  /\ UNCHANGED <<revision, binding, active, files, cache>>
\* ... then every use of it goes
Unuse(c) ==
  LET p == call[c].package IN
  /\ At(c, "unuse")
  /\ Goto(c, "delete")
  /\ binding' = [r \in Revision |-> IF binding[r] = p THEN 0 ELSE binding[r]]
  /\ active' = [r \in Revision |-> active[r] \ {p}]
  /\ IF Referenced(p) THEN Excuse ELSE UNCHANGED cache
  /\ UNCHANGED <<package, revision, files>>

PermanentlyDeleteAnyway(c) ==
  LET p == call[c].package IN
  /\ call[c].pc \in {"delete", "cleanup delete"}
  /\ package' = IF p \in Present /\ (\A r \in Live : ~Uses(r, p))
                THEN [package EXCEPT ![p] = NoPackage] ELSE package
  /\ Goto(c, IF At(c, "delete") THEN "delete files" ELSE "cleanup files")
  /\ UNCHANGED <<revision, binding, active, files, cache>>

\* permanently_delete_package: a package somebody uses again stays
PermanentlyDelete(c) ==
  LET p == call[c].package IN
  /\ call[c].pc \in {"delete", "cleanup delete"}
  /\ IF p \in Present /\ (\A r \in Live : ~Uses(r, p))
       THEN /\ package' = [package EXCEPT ![p] = NoPackage]
            /\ Goto(c, IF At(c, "delete") THEN "delete files" ELSE "cleanup files")
       ELSE /\ UNCHANGED package
            /\ IF At(c, "delete") THEN Done(c) ELSE Goto(c, "cleanup")
  /\ UNCHANGED <<revision, binding, active, files, cache>>

DeleteFiles(c) ==
  /\ call[c].pc \in {"delete files", "cleanup files"}
  /\ stored' = stored \ {call[c].group}
  /\ IF At(c, "delete files") THEN Done(c) ELSE Goto(c, "cleanup")
  /\ UNCHANGED <<tables, groups, garbage, journal, cache>>

\* restore_package
Restore(p) ==
  /\ p \in Present /\ package[p].pending /\ Current = {}
  /\ package' = [package EXCEPT ![p].pending = FALSE]
  /\ UNCHANGED <<revision, binding, active, files, cache, call>>

\* What publish and upload_package do last
Invalidate(c) ==
  /\ call[c].pc \in {"invalidate", "drop published"} /\ Done(c) /\ cache' = NoEntry
  /\ UNCHANGED <<tables, files>>

\* A handler ends after it has written something: the store does not answer, the admin has
\* gone, the process stops
Cleaning == {"cleanup", "cleanup delete", "cleanup files", "drop published"}
Stop(c) ==
  /\ call[c].pc \in Cleaning \cup {"register", "replaced", "invalidate", "delete", "delete files"}
  /\ Done(c)
  /\ IF call[c].pc \in Cleaning THEN Excuse ELSE UNCHANGED cache
  /\ UNCHANGED <<tables, files>>

-----------------------------------------------------------------------------
\* resolve_cached: a reader that finds no answer asks the database, and stores what it said
Miss(c) ==
  /\ Idle(c) /\ cache.group = -1
  /\ call' = [call EXCEPT ![c] = [NoCall EXCEPT !.pc = "store", !.group = Answer]]
  /\ UNCHANGED <<tables, files, cache>>
StoreAnswer(c) ==
  /\ At(c, "store") /\ Done(c)
  /\ cache' = [group |-> call[c].group, excused |-> call[c].group # Answer]
  /\ UNCHANGED <<tables, files>>
\* after 24 hours
Expire ==
  /\ cache.group # -1 /\ cache' = NoEntry
  /\ UNCHANGED <<tables, files, call>>

Step(c) ==
  \/ Bind(c) \/ Feature(c) \/ Config(c) \/ CleanNext(c) \/ RegisterUpload(c) \/ DropReplaced(c)
  \/ Mark(c) \/ Unuse(c) \/ PermanentlyDelete(c) \/ DeleteFiles(c) \/ Invalidate(c)
Next ==
  \/ EnsureDraft \/ RegisterDirect \/ Journaled \/ Expire
  \/ \E g \in Group : DropGarbage(g)
  \/ \E c \in Admin :
       \/ Step(c) \/ Stop(c) \/ Upload(c)
       \/ \E r \in Revision : \/ Publish(c, r)
                              \/ \E p \in 0..MaxPackage : AskBind(c, r, p)
                              \/ \E p \in Package : AskFeature(c, r, p) \/ AskConfig(c, r, p)
       \/ \E p \in Package : AskDelete(c, p)
  \/ \E p \in Package : Restore(p)
  \/ \E c \in Reader : Miss(c) \/ StoreAnswer(c)

Spec == Init /\ [][Next]_vars

-----------------------------------------------------------------------------
(* What must hold.                                                         *)

\* What a page is resolved to has its files: a package is never left without them, whether
\* it is replaced, deleted or restored, and whoever stops in between
FilesThere == \A p \in Present : package[p].group \in stored
PackagesSound == TypeOK /\ FilesThere

\* The pages that are published change by a publication, and by nothing else that an admin
\* does to packages and drafts: an upload leaves a package they use as it is.  Two races are
\* left out: a request that read a draft that has been published before it writes, and a
\* deletion that asked before a publication and deletes after it
Shown  == {<<r, IF binding[r] = 0 THEN 0 ELSE package[binding[r]].group,
             {package[p].group : p \in active[r]}>> : r \in Published}
Late(c) == \/ call[c].pc \in {"bind", "feature on", "feature off", "config"} /\ call[c].revision \notin Draft
           \/ At(c, "unuse") /\ Referenced(call[c].package)
PublishedStands ==
  [][Shown' # Shown => Published' # Published \/ \E c \in Admin : Late(c) /\ call'[c] # call[c]]_vars

\* The cached renderer of the published pages is the one that is published, but between a
\* publication and its invalidation.  Left out are an answer stored late by a reader,
\* a publication that stops before the invalidation, and the races above
CacheFresh ==
  cache.group \in {-1, Answer} \/ cache.excused
    \/ \E c \in Admin : call[c].pc \in Cleaning

=============================================================================
