------------------------------ MODULE Release ------------------------------
(***************************************************************************)
(* The release orchestrator (scripts/release-2.0): one operator takes a    *)
(* release directory from PRECHECK to FINALIZED.  Every phase is a         *)
(* synchronous function that reads the state the caller holds in memory,   *)
(* talks to npm, and saves release-state.json; it is cut here at every     *)
(* save and at every remote effect, because a crash, a failed save, a      *)
(* developer, a late registry and other maintainers can come between.      *)
(*                                                                         *)
(* A tarball is abstracted to what it was packed from: the revision,       *)
(* whether the tree was clean, and the release directory of the pack (no   *)
(* step relies on packs being reproducible).  Packages are numbered in     *)
(* publish order; every version number of the release is "ours".           *)
(*                                                                         *)
(* External, modelled from how the scripts use them: git, npm and the      *)
(* registry, and the operator who calls one phase at a time.               *)
(***************************************************************************)
EXTENDS Naturals, FiniteSets

CONSTANTS
  N,           \* packages of the release policy, in publish order
  F2,          \* the explicit selection of the remediation profile
  DependsOn,   \* dependencies between the packages   [Pkgs -> SUBSET Pkgs]
  MaxRev,      \* bound on commits
  MaxDirs,     \* bound on release directories
  MaxFaults,   \* bound on crashes, failed saves, lost effects, failed observations
  MaxDrift     \* bound on what developers and other maintainers change meanwhile

Pkgs == 1..N

ASSUME ReleaseConfig ==
  /\ N \in Nat \ {0} /\ F2 \subseteq Pkgs
  /\ DependsOn \in [Pkgs -> SUBSET Pkgs]
  /\ {MaxRev, MaxDirs} \subseteq Nat \ {0}
  /\ {MaxFaults, MaxDrift} \subseteq Nat

VARIABLES
  checkout,   \* the working tree: [rev, clean]
  defects,    \* what is wrong with the packages of each revision, if anything
  dir,        \* the release directory in use
  disk,       \* what each release directory holds
  mem,        \* the state object the operator's process holds; None without one
  pc,         \* the phase function in progress and where it is cut
  plans,      \* directories a publication plan was derived for
  npm,        \* the registry
  restored,   \* directories during whose pack an edited tree was put back
  faults,     \* faults left
  drift       \* outside changes left

\* Named apart from those of AuditTrail: DurabilityProofs extends both modules.
releaseVars == <<checkout, defects, dir, disk, mem, pc, plans, npm, restored, faults, drift>>

None == [none |-> TRUE]
Idle == [op |-> "idle", p |-> 0, ok |-> FALSE]
At(op, p, ok) == [op |-> op, p |-> p, ok |-> ok]

TRANSITIONS ==
  { <<"PACKED", "VERIFIED_LOCAL">>, <<"VERIFIED_LOCAL", "PUBLISHING_NEXT">>,
    <<"PUBLISHING_NEXT", "PUBLISHED_NEXT">>, <<"PUBLISHING_NEXT", "PARTIAL_NEXT">>,
    <<"PARTIAL_NEXT", "PUBLISHING_NEXT">>, <<"PUBLISHED_NEXT", "REGISTRY_VERIFIED">>,
    <<"REGISTRY_VERIFIED", "EXTERNAL_INSTALL_VERIFIED">>,
    <<"EXTERNAL_INSTALL_VERIFIED", "READY_TO_PROMOTE">>,
    <<"READY_TO_PROMOTE", "PROMOTING_LATEST">>, <<"PROMOTING_LATEST", "PROMOTED">>,
    <<"PROMOTED", "REMOVING_NEXT">>, <<"REMOVING_NEXT", "FINALIZED">> }

Bytes(rev, clean) == [rev |-> rev, clean |-> clean, dir |-> dir]
Damaged == [rev |-> 0, clean |-> FALSE, dir |-> 0]

Pending == [ status |-> "pending", integrity |-> None, registryVerified |-> FALSE,
             externalInstallVerified |-> FALSE, latestVerified |-> FALSE, nextRemoved |-> FALSE ]
Published(bytes) == [Pending EXCEPT !.status = "published", !.integrity = bytes]

NoEvidence ==
  [ receipt |-> None, tarballDir |-> FALSE, tarballs |-> [p \in Pkgs |-> None],
    manifest |-> None, state |-> None ]

Here == disk[dir]
manifest == Here.manifest

ReleaseInit ==
  /\ checkout = [rev |-> 1, clean |-> TRUE]
  /\ defects = [r \in 1..MaxRev |-> "none"]
  /\ dir = 1
  /\ disk = [d \in 1..MaxDirs |-> NoEvidence]
  /\ mem = None /\ pc = Idle /\ plans = {}
  /\ npm = [ version |-> [p \in Pkgs |-> None], accepted |-> [p \in Pkgs |-> None],
             latest |-> [p \in Pkgs |-> "old"], next |-> [p \in Pkgs |-> "none"],
             late |-> {}, rights |-> Pkgs ]
  /\ restored = {}
  /\ faults = MaxFaults /\ drift = MaxDrift

----------------------------------------------------------------------------
(* The state file. *)

publicationPackages(m) == IF m.selected THEN F2 ELSE Pkgs

assertValidTransition(s, to) == <<s.phase, to>> \in TRANSITIONS

transition(s, to) == [s EXCEPT !.phase = to]

SetEntry(s, p, entry) == [s EXCEPT !.packages[p] = entry]

Flag(s, ps, flag) ==
  [s EXCEPT !.packages = [p \in Pkgs |-> IF p \in ps THEN [@[p] EXCEPT ![flag] = TRUE] ELSE @[p]]]

assertFinalizationState(m, s) ==
  LET sel == publicationPackages(m)
      all(flag) == \A p \in sel : s.packages[p][flag]
      promoting == {"PROMOTING_LATEST", "PROMOTED", "REMOVING_NEXT", "FINALIZED"}
      removing == {"REMOVING_NEXT", "FINALIZED"}
  IN /\ \A p \in Pkgs :
          LET e == s.packages[p]
          IN e.latestVerified \/ e.nextRemoved =>
               /\ p \in sel
               /\ e.status = "published" /\ e.registryVerified /\ e.externalInstallVerified
               /\ e.latestVerified => s.phase \in promoting
               /\ e.nextRemoved => s.phase \in removing /\ e.latestVerified
     /\ s.phase = "PROMOTED" => all("latestVerified") \/ \A p \in sel : ~s.packages[p].latestVerified
     /\ s.phase \in removing => all("latestVerified")
     /\ s.phase = "FINALIZED" => all("nextRemoved")
     /\ \A b \in {s.attempt, s.finalizationBlocker} \ {0} :
          s.phase \in {"PROMOTING_LATEST", "REMOVING_NEXT"} /\ b \in sel

validateState(m, s) ==
  /\ \A p \in Pkgs \ publicationPackages(m) : m.selected => s.packages[p] = Pending
  /\ assertFinalizationState(m, s)

\* A file is replaced by one rename.  A failure before the rename leaves the
\* old file, a failure after it (the directory fsync) the new one.
writeJsonAtomic(new, ok) ==
  IF ok THEN disk' = new /\ UNCHANGED faults
  ELSE faults > 0 /\ faults' = faults - 1 /\ disk' \in {disk, new}

\* The state in memory is abandoned when it could not be saved.
saveState(s, next) ==
  \E ok \in BOOLEAN :
    /\ writeJsonAtomic([disk EXCEPT ![dir].state = s], ok)
    /\ mem' = IF ok THEN s ELSE None
    /\ pc' = IF ok THEN next ELSE Idle

Env == <<checkout, defects, dir, plans, npm, restored, drift>>

Ready(phases) ==
  pc = Idle /\ mem # None /\ validateState(manifest, mem) /\ mem.phase \in phases

loadValidatedState ==
  /\ pc = Idle /\ mem = None
  /\ manifest # None /\ Here.state # None /\ validateState(manifest, Here.state)
  /\ mem' = Here.state
  /\ UNCHANGED <<disk, pc, faults>> /\ UNCHANGED Env
----------------------------------------------------------------------------
(* What npm says of the operator's rights. *)

\* The ways an npm process can end, and the observation made of each.
NpmResults == {"json", "malformed", "network", "login", "refused", "absent"}

observe(result) ==
  IF result = "json" THEN "known"
  ELSE IF result = "network" THEN "REGISTRY_UNAVAILABLE"
  ELSE IF result = "login" THEN "AUTH_UNAUTHENTICATED"
  ELSE "REGISTRY_STATE_UNDETERMINED"

NpmAnswers == [whoami : NpmResults, access : NpmResults, status : NpmResults]

\* Each observation is made only when the one before it is usable.
observeRegistryPrecheck(a) ==
  IF observe(a.whoami) # "known" THEN {observe(a.whoami)}
  ELSE IF observe(a.access) # "known" THEN {observe(a.access)}
  ELSE {c \in {observe(a.status)} : c # "known"}
         \cup {"REGISTRY_ACCESS_INSUFFICIENT" : p \in Pkgs \ npm.rights}

----------------------------------------------------------------------------
(* PRECHECK, PACK and VERIFY_LOCAL. *)

observePackSource(rev) == checkout = [rev |-> rev, clean |-> TRUE]

\* A dependency publishes strictly before its dependents.
validatePublishOrder == \A p \in Pkgs : \A q \in DependsOn[p] : q < p

\* A selection holds the dependencies of its packages.
assertSelectionDependencies(selected) == selected => \A p \in F2 : DependsOn[p] \subseteq F2

assertReceiptMatchesPack(r) ==
  r # None /\ observePackSource(r.rev) /\ assertSelectionDependencies(r.selected)

\* The registry is only consulted when an auth transport is injected.
precheck(selected, auth) ==
  /\ pc = Idle /\ mem = None
  /\ Here = NoEvidence
  /\ assertSelectionDependencies(selected) /\ validatePublishOrder
  /\ checkout.clean
  /\ auth => \E a \in NpmAnswers : observeRegistryPrecheck(a) = {}
  /\ disk' = [disk EXCEPT ![dir].receipt = [rev |-> checkout.rev, selected |-> selected]]
  /\ UNCHANGED <<mem, pc, faults>> /\ UNCHANGED Env

packBegin ==
  /\ pc = Idle /\ mem = None
  /\ manifest = None /\ Here.state = None /\ ~Here.tarballDir
  /\ assertReceiptMatchesPack(Here.receipt)
  /\ disk' = [disk EXCEPT ![dir].tarballDir = TRUE]
  /\ mem' = [bytes |-> [p \in Pkgs |-> None]]
  /\ pc' = At("pack", 1, FALSE)
  /\ UNCHANGED faults /\ UNCHANGED Env

\* The integrity is computed from the file just written.
packWithoutOverwrite ==
  /\ pc.op = "pack" /\ pc.p <= N
  /\ LET packed == Bytes(checkout.rev, checkout.clean)
     IN /\ disk' = [disk EXCEPT ![dir].tarballs[pc.p] = packed]
        /\ mem' = [mem EXCEPT !.bytes[pc.p] = packed]
  /\ pc' = At("pack", pc.p + 1, FALSE)
  /\ UNCHANGED faults /\ UNCHANGED Env

\* The source is observed again; the manifest is written before the state.
packEnd ==
  /\ pc.op = "pack" /\ pc.p = N + 1
  /\ LET m == [ rev |-> Here.receipt.rev, selected |-> Here.receipt.selected,
                bytes |-> mem.bytes ]
         written == [disk EXCEPT ![dir].manifest = m]
     IN IF assertReceiptMatchesPack(Here.receipt)
        THEN \E ok \in BOOLEAN :
               /\ writeJsonAtomic(written, ok)
               /\ pc' = IF ok THEN At("packState", 0, FALSE) ELSE Idle
        ELSE pc' = Idle /\ UNCHANGED <<disk, faults>>
  /\ mem' = None /\ UNCHANGED Env

packState ==
  /\ pc.op = "packState"
  /\ saveState([ phase |-> "PACKED", packages |-> [p \in Pkgs |-> Pending], blocker |-> 0,
                 attempt |-> 0, finalizationBlocker |-> 0 ], Idle)
  /\ UNCHANGED Env

requireOriginalTarballs(ps) == \A p \in ps : Here.tarballs[p] = manifest.bytes[p]

\* The packed artifact gate: what a clean consumer, installed with npm and then
\* with pnpm from these tarballs, could find wrong with them.
Defects == {"protocol", "surface", "runtime-path", "install", "symbols", "types", "bin", "count"}

scanPackedManifest(rev) == defects[rev] \notin {"protocol", "surface"}
scanShippedRuntimePaths(rev) == defects[rev] # "runtime-path"
installConsumer(rev) == defects[rev] # "install"
runSmokeTestsForConsumer(rev) == defects[rev] \notin {"symbols", "types", "bin", "count"}

verifyPackedTarballs(rev) ==
  /\ scanPackedManifest(rev) /\ scanShippedRuntimePaths(rev)
  /\ installConsumer(rev) /\ runSmokeTestsForConsumer(rev)

verifyLocal ==
  /\ Ready({"PACKED"})
  /\ Here.receipt = [rev |-> manifest.rev, selected |-> manifest.selected]
  /\ requireOriginalTarballs(Pkgs)
  /\ verifyPackedTarballs(manifest.rev)
  /\ assertValidTransition(mem, "VERIFIED_LOCAL")
  /\ saveState(transition(mem, "VERIFIED_LOCAL"), Idle)
  /\ UNCHANGED Env

evaluateReleaseReadiness(a) ==
  /\ observeRegistryPrecheck(a) = {}
  /\ validateState(manifest, mem)
  /\ mem.phase = "VERIFIED_LOCAL" /\ mem.blocker = 0
  /\ \A p \in Pkgs : mem.packages[p].status = "pending"

derivePublicationPlan ==
  /\ pc = Idle /\ mem # None /\ dir \notin plans
  /\ \E a \in NpmAnswers : evaluateReleaseReadiness(a)
  /\ plans' = plans \cup {dir}
  /\ UNCHANGED <<checkout, defects, dir, disk, mem, pc, npm, restored, faults, drift>>

----------------------------------------------------------------------------
(* Publication, one planned operation at a time. *)

\* getRegistryVersion: the observation itself may always fail.
getRegistryVersion(p) ==
  { "undetermined",
    IF npm.version[p] = None THEN "missing"
    ELSE IF npm.version[p] = manifest.bytes[p] THEN "same"
    ELSE "conflict" }

persistPublicationBlocker(p) ==
  saveState([mem EXCEPT !.blocker = p, !.phase = "PARTIAL_NEXT"], Idle)

RecordPublished(p) ==
  LET s == [SetEntry(mem, p, Published(manifest.bytes[p])) EXCEPT !.blocker = 0]
      done == \A q \in publicationPackages(manifest) : s.packages[q].status = "published"
  IN saveState(transition(s, IF done THEN "PUBLISHED_NEXT" ELSE "PARTIAL_NEXT"), Idle)

PublicationState(p) ==
  /\ \A q \in publicationPackages(manifest) :
       LET e == mem.packages[q]
       IN /\ ~e.registryVerified /\ ~e.externalInstallVerified
          /\ e.status = "published" => e.integrity = manifest.bytes[q] /\ mem.phase = "PARTIAL_NEXT"
          /\ e.status = "pending" => e.integrity = None
  /\ mem.blocker \in {0, p} /\ (mem.blocker = p => mem.phase = "PARTIAL_NEXT")

\* A consent receipt binds one operation of one release; a promotion also
\* names the value of latest it may replace.
Consents ==
  [ kind : {"publication", "promotion", "next-removal"}, dir : 1..MaxDirs, p : Pkgs,
    replaces : {"old", "none", "foreign"} ]

exact(c, kind, p) == c.kind = kind /\ c.dir = dir /\ c.p = p

validatePublicationAuthorization(c, p) == dir \in plans /\ exact(c, "publication", p)
validatePromotionAuthorization(c, p) == exact(c, "promotion", p)
validateNextRemovalAuthorization(c, p) == exact(c, "next-removal", p)

\* Mutant: the order of the plan is not enforced.
Predecessors_None(p) == {q \in publicationPackages(manifest) : q < p /\ FALSE}

Predecessors(p) == {q \in publicationPackages(manifest) : q < p}

publishPlannedOperation(p) ==
  /\ Ready({"VERIFIED_LOCAL", "PARTIAL_NEXT"}) /\ dir \in plans
  /\ p \in publicationPackages(manifest)
  /\ \A q \in Predecessors(p) : mem.packages[q].integrity = manifest.bytes[q]
  /\ PublicationState(p)
  /\ manifest.selected => \E c \in Consents : validatePublicationAuthorization(c, p)
  /\ requireOriginalTarballs({p})
  /\ assertValidTransition(mem, "PUBLISHING_NEXT")
  /\ saveState(transition(mem, "PUBLISHING_NEXT"), At("observe", p, FALSE))
  /\ UNCHANGED Env
publishObserve ==
  /\ pc.op = "observe"
  /\ \E seen \in getRegistryVersion(pc.p) :
       \/ seen = "same" /\ RecordPublished(pc.p)
       \/ seen \in {"undetermined", "conflict"} /\ persistPublicationBlocker(pc.p)
       \/ /\ seen = "missing"
          /\ mem' = SetEntry(mem, pc.p, Pending)
          /\ pc' = At("publish", pc.p, FALSE)
          /\ UNCHANGED <<disk, faults>>
  /\ UNCHANGED Env

\* npm publish uploads the file as it is now.  The registry takes the version
\* at once, takes it and shows it later, or does not take it; an answer that
\* is not an error only comes with a version taken.
publishCall ==
  /\ pc.op = "publish"
  /\ LET p == pc.p
         file == Here.tarballs[p]
         takes == p \in npm.rights /\ npm.version[p] = None /\ npm.accepted[p] = None /\ file # None
     IN \/ /\ takes
           /\ npm' = [npm EXCEPT !.version[p] = file, !.next[p] = "ours"]
           /\ \E ok \in BOOLEAN : pc' = At("published", p, ok)
        \/ /\ takes
           /\ npm' = [npm EXCEPT !.accepted[p] = file]
           /\ \E ok \in BOOLEAN : pc' = At("published", p, ok)
        \/ UNCHANGED npm /\ pc' = At("published", p, FALSE)
  /\ UNCHANGED <<checkout, defects, dir, disk, mem, plans, restored, faults, drift>>

\* The selected profile trusts only what it observes; the legacy path also
\* trusts a transport that says ok.
publishSettle ==
  /\ pc.op = "published"
  /\ \/ ~manifest.selected /\ pc.ok /\ RecordPublished(pc.p)
     \/ /\ manifest.selected \/ ~pc.ok
        /\ \E seen \in getRegistryVersion(pc.p) :
             IF seen = "same" THEN RecordPublished(pc.p) ELSE persistPublicationBlocker(pc.p)
  /\ UNCHANGED Env

\* The selected packages before k are reconciled; k = N + 1 when all are.
Reconciled(s, k) ==
  [s EXCEPT !.packages = [p \in Pkgs |->
     IF p \notin publicationPackages(manifest) \/ p >= k THEN @[p]
     ELSE IF npm.version[p] = manifest.bytes[p] THEN Published(manifest.bytes[p]) ELSE Pending]]

resume ==
  /\ pc = Idle
  /\ manifest # None /\ Here.state # None /\ validateState(manifest, Here.state)
  /\ Here.state.phase = "PARTIAL_NEXT"
  /\ requireOriginalTarballs(Pkgs)
  /\ LET sel == publicationPackages(manifest)
         conflicts == {p \in sel : npm.version[p] \notin {None, manifest.bytes[p]}}
     IN \/ /\ conflicts = {}
           /\ saveState([Reconciled(Here.state, N + 1) EXCEPT !.blocker = 0], Idle)
        \/ \E k \in sel :
             /\ \A p \in conflicts : p >= k
             /\ saveState([Reconciled(Here.state, k) EXCEPT !.blocker = k], Idle)
  /\ UNCHANGED Env

----------------------------------------------------------------------------
(* Verification of what was published. *)

\* Mutant: identity is name and version, without the integrity.
InRegistry_ByVersion(p) == npm.version[p] # None

InRegistry(p) == npm.version[p] = manifest.bytes[p]

\* Flags are set in memory package by package; only a complete pass is saved.
VerifyAll(from, to, flag) ==
  /\ Ready({from})
  /\ LET sel == publicationPackages(manifest)
         bad == {p \in sel : ~InRegistry(p)}
     IN \/ /\ bad = {}
           /\ assertValidTransition(mem, to)
           /\ saveState(transition(Flag(mem, sel, flag), to), Idle)
        \/ \E k \in sel :
             /\ \A p \in bad : p >= k
             /\ mem' = Flag(mem, {p \in sel : p < k}, flag)
             /\ UNCHANGED <<disk, pc, faults>>
  /\ UNCHANGED Env

verifyRegistry == VerifyAll("PUBLISHED_NEXT", "REGISTRY_VERIFIED", "registryVerified")

verifyExternalInstall ==
  VerifyAll("REGISTRY_VERIFIED", "EXTERNAL_INSTALL_VERIFIED", "externalInstallVerified")

allPackagesReady(m, s) ==
  \A p \in publicationPackages(m) :
     LET e == s.packages[p]
     IN e.status = "published" /\ e.registryVerified /\ e.externalInstallVerified

transitionToReadyToPromote ==
  /\ Ready({"EXTERNAL_INSTALL_VERIFIED"})
  /\ allPackagesReady(manifest, mem)
  /\ assertValidTransition(mem, "READY_TO_PROMOTE")
  /\ saveState(transition(mem, "READY_TO_PROMOTE"), Idle)
  /\ UNCHANGED Env

----------------------------------------------------------------------------
(* Finalization: the latest and next tags, one package at a time. *)

\* An unresolved attempt or blocker may only be retried by the same package.
prepare(phases, p) ==
  /\ Ready(phases)
  /\ allPackagesReady(manifest, mem)
  /\ p \in publicationPackages(manifest) \cup {0}
  /\ {mem.attempt, mem.finalizationBlocker} \subseteq {0, p}

RecordTag(s, p, flag) ==
  saveState([Flag(s, {p}, flag) EXCEPT !.attempt = 0, !.finalizationBlocker = 0], Idle)

\* Mutant: the attempt is only recorded in memory.
BeginAttempt_Unsaved(s, p) ==
  mem' = [s EXCEPT !.attempt = p] /\ pc' = At("tag", p, FALSE) /\ UNCHANGED <<disk, faults>>

\* Saved before the effect: a crash leaves a visible record of it.
BeginAttempt(s, p) == saveState([s EXCEPT !.attempt = p], At("tag", p, FALSE))

promoteLatest(p) ==
  /\ prepare({"READY_TO_PROMOTE", "PROMOTING_LATEST"}, p) /\ p # 0
  /\ \E c \in Consents :
       validatePromotionAuthorization(c, p) /\ npm.latest[p] \in {"ours", c.replaces}
  /\ LET s == IF mem.phase = "READY_TO_PROMOTE" THEN transition(mem, "PROMOTING_LATEST") ELSE mem
     IN IF npm.latest[p] = "ours"
        THEN RecordTag(s, p, "latestVerified")
        ELSE BeginAttempt(s, p)
  /\ UNCHANGED Env

\* observeSelected: every selected latest, by version.
Promoted == \A q \in publicationPackages(manifest) : npm.latest[q] = "ours"

removeNext(p) ==
  /\ prepare({"PROMOTED", "REMOVING_NEXT"}, p) /\ p # 0
  /\ \E c \in Consents : validateNextRemovalAuthorization(c, p)
  /\ Promoted
  /\ npm.next[p] \in {"none", "ours"}
  /\ LET s == IF mem.phase = "PROMOTED"
              THEN transition(Flag(mem, publicationPackages(manifest), "latestVerified"), "REMOVING_NEXT")
              ELSE mem
     IN IF npm.next[p] = "none"
        THEN RecordTag(s, p, "nextRemoved")
        ELSE BeginAttempt(s, p)
  /\ UNCHANGED Env
\* What the attempt in progress does to the registry, by phase.
Tag == IF mem.phase = "PROMOTING_LATEST" THEN "latest" ELSE "next"
TagValue(tag) == IF tag = "latest" THEN "ours" ELSE "none"
TagFlag(tag) == IF tag = "latest" THEN "latestVerified" ELSE "nextRemoved"

SetTag(tag, p) == [npm EXCEPT ![tag][p] = TagValue(tag)]

\* The effect is applied, applied later, or lost; its return value is ignored.
applyTag ==
  /\ pc.op = "tag"
  /\ npm' \in {SetTag(Tag, pc.p), [npm EXCEPT !.late = @ \cup {<<Tag, pc.p>>}], npm}
  /\ pc' = At("reobserve", pc.p, FALSE)
  /\ UNCHANGED <<checkout, defects, dir, disk, mem, plans, restored, faults, drift>>

\* An undetermined outcome keeps the attempt; a known one that is not the
\* expected value clears it and leaves a blocker.
observeTag ==
  /\ pc.op = "reobserve"
  /\ \/ saveState([mem EXCEPT !.finalizationBlocker = pc.p], Idle)
     \/ IF npm[Tag][pc.p] = TagValue(Tag)
        THEN RecordTag(mem, pc.p, TagFlag(Tag))
        ELSE saveState([mem EXCEPT !.attempt = 0, !.finalizationBlocker = pc.p], Idle)
  /\ UNCHANGED Env

AllFlagged(flag) == \A p \in publicationPackages(manifest) : mem.packages[p][flag]

verifyLatestPromotion ==
  /\ prepare({"PROMOTING_LATEST"}, 0)
  /\ AllFlagged("latestVerified") /\ Promoted
  /\ assertValidTransition(mem, "PROMOTED")
  /\ saveState(transition(mem, "PROMOTED"), Idle)
  /\ UNCHANGED Env

verifyFinalization ==
  /\ prepare({"REMOVING_NEXT"}, 0)
  /\ AllFlagged("nextRemoved") /\ Promoted
  /\ \A p \in publicationPackages(manifest) : npm.next[p] = "none"
  /\ assertValidTransition(mem, "FINALIZED")
  /\ saveState(transition(mem, "FINALIZED"), Idle)
  /\ UNCHANGED Env

----------------------------------------------------------------------------
(* The world around the operator. *)

OperatorDies ==
  /\ faults > 0 /\ faults' = faults - 1
  /\ mem # None \/ pc # Idle
  /\ mem' = None /\ pc' = Idle
  /\ UNCHANGED disk /\ UNCHANGED Env

\* The operator gives a directory up when its pack failed, or when its
\* publication is blocked or was interrupted.
FreshDirectory ==
  /\ pc = Idle /\ mem = None /\ dir < MaxDirs /\ Here.tarballDir
  /\ Here.state # None => Here.state.blocker # 0 \/ Here.state.phase = "PUBLISHING_NEXT"
  /\ dir' = dir + 1
  /\ UNCHANGED <<checkout, defects, disk, mem, pc, plans, npm, restored, faults, drift>>

\* Nothing reads the tree once the directory has its manifest, so changes
\* after that are left to the next directory.
Developer ==
  /\ manifest = None
  /\ drift > 0 /\ drift' = drift - 1
  /\ \/ checkout' = [checkout EXCEPT !.clean = FALSE] /\ checkout.clean /\ UNCHANGED defects
     \/ /\ checkout.rev < MaxRev
        /\ checkout' = [rev |-> checkout.rev + 1, clean |-> TRUE]
        /\ \E d \in Defects \cup {"none"} : defects' = [defects EXCEPT ![checkout.rev + 1] = d]
  /\ UNCHANGED <<dir, disk, mem, pc, plans, npm, restored, faults>>

\* An edit is put back: no later observation of the tree can tell.
Restore ==
  /\ manifest = None /\ ~checkout.clean
  /\ checkout' = [checkout EXCEPT !.clean = TRUE]
  /\ restored' = IF pc.op = "pack" THEN restored \cup {dir} ELSE restored
  /\ UNCHANGED <<defects, dir, disk, mem, pc, plans, npm, faults, drift>>

OtherMaintainer ==
  /\ drift > 0 /\ drift' = drift - 1
  /\ \E p \in Pkgs :
       \/ npm' = [npm EXCEPT !.latest[p] = "foreign"] /\ UNCHANGED disk
       \/ npm' = [npm EXCEPT !.next[p] = "foreign"] /\ UNCHANGED disk
       \/ npm' = [npm EXCEPT !.rights = @ \ {p}] /\ UNCHANGED disk
       \/ /\ Here.tarballs[p] # None
          /\ disk' = [disk EXCEPT ![dir].tarballs[p] = Damaged] /\ UNCHANGED npm
  /\ UNCHANGED <<checkout, defects, dir, mem, pc, plans, restored, faults>>

RegistryCatchesUp ==
  /\ \/ \E p \in Pkgs :
          /\ npm.accepted[p] # None
          /\ npm' = [npm EXCEPT !.version[p] = npm.accepted[p], !.accepted[p] = None, !.next[p] = "ours"]
     \/ \E l \in npm.late : npm' = [SetTag(l[1], l[2]) EXCEPT !.late = @ \ {l}]
  /\ UNCHANGED <<checkout, defects, dir, disk, mem, pc, plans, restored, faults, drift>>

Operator ==
  \/ \E selected, auth \in BOOLEAN : precheck(selected, auth)
  \/ packBegin \/ packWithoutOverwrite \/ packEnd \/ packState
  \/ loadValidatedState \/ verifyLocal \/ derivePublicationPlan
  \/ \E p \in Pkgs : publishPlannedOperation(p)
  \/ publishObserve \/ publishCall \/ publishSettle \/ resume
  \/ verifyRegistry \/ verifyExternalInstall \/ transitionToReadyToPromote
  \/ \E p \in Pkgs : promoteLatest(p) \/ removeNext(p)
  \/ applyTag \/ observeTag \/ verifyLatestPromotion \/ verifyFinalization

ReleaseNext == Operator \/ OperatorDies \/ FreshDirectory \/ Developer \/ Restore \/ OtherMaintainer \/ RegistryCatchesUp

ReleaseSpec == ReleaseInit /\ [][ReleaseNext]_releaseVars

----------------------------------------------------------------------------
(* Properties. *)

Manifests == {d \in 1..MaxDirs : disk[d].manifest # None}

\* A package of a release is never in the registry before the packages it
\* depends on: on the selected profile they are there with the manifest's own
\* bytes, on the legacy path the registry has at least taken a version.
DependenciesPublishFirst ==
  \A d \in Manifests : \A p \in publicationPackages(disk[d].manifest) :
    npm.version[p] = disk[d].manifest.bytes[p] =>
      \A q \in DependsOn[p] :
        IF disk[d].manifest.selected
        THEN npm.version[q] = disk[d].manifest.bytes[q]
        ELSE npm.version[q] # None \/ npm.accepted[q] # None

\* latest is only moved to a set of packages that are all in the registry with
\* the bytes of one manifest, whatever crashed, was retried or damaged before,
\* and whose revision the packed artifact gate found nothing wrong with; the
\* bytes were packed in its directory from that revision and a clean tree,
\* unless a tree edited between two packs was put back before the second one.
PromotedSetIsOneBuild ==
  \A p \in Pkgs : npm.latest[p] = "ours" =>
    \E d \in Manifests :
      /\ p \in publicationPackages(disk[d].manifest)
      /\ defects[disk[d].manifest.rev] = "none"
      /\ \A q \in publicationPackages(disk[d].manifest) :
           LET b == disk[d].manifest.bytes[q]
           IN /\ npm.version[q] = b
              /\ d \notin restored => b = [rev |-> disk[d].manifest.rev, clean |-> TRUE, dir |-> d]

\* An effect on a tag is never unknown to the directory: a moved latest is
\* recorded on disk as verified, as an attempt or as a blocker, so a restart
\* reconciles it (release-finalization.mjs applyAndObserve); and whatever was
\* interrupted, the state on disk is one that loadValidatedState accepts, so
\* the recovery path after a persistence error is always open.
EffectsAreOnRecord ==
  /\ \A p \in Pkgs : npm.latest[p] = "ours" \/ <<"latest", p>> \in npm.late =>
       \E d \in Manifests :
         /\ disk[d].state # None
         /\ \/ disk[d].state.packages[p].latestVerified
            \/ p \in {disk[d].state.attempt, disk[d].state.finalizationBlocker}
  /\ \A d \in Manifests : disk[d].state # None => validateState(disk[d].manifest, disk[d].state)

============================================================================
