# OxDeAI in TLA+

OxDeAI decides, before an agent's action runs, whether it may run. A policy
engine evaluates an *intent* against a *state* and, on ALLOW, signs an
*authorization*; an enforcement point verifies the authorization, consumes it,
commits the next state and only then lets the action happen. Keys can be
revoked by signed lists, authority can be delegated, decisions made by a third
party (Sift) can be imported, and what happened can be exported and verified as
evidence.

This directory models the parts of the repository that keep state, run
concurrently or judge evidence, checks them with TLC on small instances, and
proves with TLAPS, for every configuration, every safety property the runs check:
of the engine, the guard and the secure guard, the gateway, the command line
tool, revocation, the key store, artifacts, the Sift pipeline, the audit trail and
the release. Liveness is model-checked.
`PROJECT.json` maps every definition to the lines it models.

## 1. Inventory

| Component | State it keeps | Operations | What makes it correct |
|---|---|---|---|
| Policy modules and decision phase (`packages/core/src/policy/modules`, `decision`) | none: functions of intent, state and trusted time | eight module checks, freshness gate, state deltas | limits hold over any sequence of calls; pruning never forgets too early |
| Policy engine (`core/src/policy/PolicyEngine.ts`) | the caller's `State`; an audit log and a write-behind state copy | `evaluate`, `evaluatePure`, `emitAudit`, `commitState`, `flush*` | an intent is admitted once; counters agree with what they count |
| Guard (`guard/src/guard.ts`, `boundaryEvent.ts`) | per request: lifecycle flags; per process: the set of reported errors | a guard call on the standard or the delegation path | at most one execution per authorization, delegation and intent; no lost update; complete, truthful audit streams |
| Secure guard, provenance, trusted context (`guard/src/secureGuard.ts`, `secureConfig.ts`, `provenance.ts`, ...) | what it captured at construction; the deployer keeps the configuration object | construction, `runSecure`, reconciliation of claims | a call is judged by what its guard was built from, and reported as what it was |
| Replay stores (`guard/src/replayStore*.ts`) | consumed ids, with a TTL in Redis | `consumeAuthId`, `consumeDelegationId` | an id is consumed by one caller for as long as it can be presented |
| PEP gateway and protected upstream (`guard/src/gateway.ts`) | requests in flight; executor token; captured authorities | HTTP handler, `executeThroughPep`, `withTimeout`, token check | what runs is what was verified; the caller is told the truth, and told something |
| Guard key revocation (`guard/src/revocation.ts`, `core/src/verification/verifySignedKrl.ts`) | watermark (version, digest) by publisher | `evaluateRevocation`, `accept` | nothing passes on stale or equivocating evidence |
| Cross-language harnesses (`go-harness`, `python-harness`) | none | the same verification, written again | they confirm what the core accepts |
| Sift key store (`sift/src/siftKeyStore.ts`, watermark and LKG stores) | key cache, revoked kids, watermarks in memory and on disk, last-known-good list | `refresh`, lookups, `verifyReceiptWithKeyStore` | no downgrade, across restarts too; nothing unverified counts as signed |
| Sift receipts and the deployments built on them (`sift/src/*`, `examples/reference-sift-oxdeai`, `examples/sift-boundary-demo`) | replay store of the enforcement point, counter of the upstream | receipt verification, `receiptToAuthorization`, the pipeline to the upstream | every effect goes back to a fresh ALLOW receipt, once |
| Artifact verification (`core/src/verification`) | none of its own; the boundary's consumed ids | `verifyAuthorization`, `verifyDelegation`, signing | what is accepted is what a trusted key signed, once, and never wider than its parent |
| Canonical state, evidence, envelopes (`core/src/policy/modules/_codec.ts`, `snapshot`, `verification`) | none | export, import, hash, verify | importing what was exported gives the same state; verdicts are true |
| Audit log, sinks and adapters (`core/src/audit`, `core/src/adapters`) | hash chain, write queues, files | `append`, `flush`, `load`, `verifyAuditEvents` | order and completeness of what reaches the sink |
| Command line tool (`packages/cli`) | policy, state and audit files, unlocked | every command a process of its own | its answers agree with its files |
| Release orchestrator (`scripts/release-2.0`) | `release-state.json`, manifest, the npm registry | the phases from PRECHECK to FINALIZED | what is promoted is one build; every remote effect is on record |
| Replay engine (`core/src/replay`) | none | re-evaluation of a trace, `verifyReplayEvents` | same trace, same decisions |
| Canonicalization and cryptography (`core/src/crypto`, ...) | none | hashing, signing, encoding | injectivity, determinism |
| Framework adapters, SDK, conformance suite | none of their own | mapping onto guard calls, wrappers, vectors | front ends of the trusted core |

How they interact. The guard awaits, in this order, the caller's `getState`, the
engine, the authorization verifier, (on the delegation path: the delegation
verifier, the delegation revocation provider, `evaluateRevocation`), the replay
store, the caller's `setState`, `beforeExecute` and `execute`. The secure guard
wraps that body in construction-time capture and two nested catches. The gateway
awaits the replay store and the upstream, the latter under a timer. `refresh()`
of the key store awaits two endpoints, the watermark store and the cache. The
commands of the CLI and the phases of a release are processes that share files.
None of these calls is serialized with another call of the same kind: **every
`await`, and every write of a process that can be killed, is a point where other
requests, the operator, the clock or a crash come between.**

What is hard, and where: concurrent requests on one version of the state;
failures between consume, commit and execute; content-derived ids; objects that
their owner changes while a call waits; eviction racing a presentation; a timer
racing a late answer; restarts between recording and accepting; overlapping
refreshes; two spellings of one identifier; nonces, leases and windows at their
exact limits. `PROJECT.json` lists each as a hazard at its line.

## 2. Modules

| Module | Models |
|---|---|
| `PolicyModules` | the eight modules, the freshness gate, both decision modes, the state deltas, as operators on records |
| `PolicyEngine` | `evaluate` by one sequential caller, and the operator's kill switches. Also the abstract specification of the guard |
| `Guard` | guard calls on both paths, cut at every await, in several crashing instances; refines `PolicyEngine` |
| `SecureGuard` | construction and calls of secure guards over a configuration that changes |
| `Gateway` | gateway requests, store, upstream, timer, answers |
| `SignedKrl` | signed revocation lists and their three verifiers (TypeScript, Go, Python), as operators |
| `Revocation` | `evaluateRevocation` and the watermark store, on `SignedKrl` |
| `KeyStore` | `refresh`, LKG fallback, watermark stores, receipt verification |
| `Artifacts` | authorizations and delegations from the signer through a transport to a verifying boundary |
| `Sift` | receipts, adapter, enforcement point and upstream of three deployments |
| `Evidence` | codecs, snapshots, audit chains, envelopes and their verifiers, as operators |
| `Cli` | the commands as processes on shared files, on `Evidence` |
| `AuditTrail` | audit emission and write-behind persistence of the engine: promise chains, sinks, flushes, restarts |
| `Release` | the release orchestrator, its finalization and the artifact gate, against git and npm |
| `MC*` | instances for TLC |
| `PolicyEngineProofs`, `GuardProofs`, `KeyStoreProofs`, `SiftProofs`, `ArtifactsProofs` | the inductive invariants and TLAPS proofs of the module each is named after |
| `SecureGuardProofs` | those of `SecureGuard` and of `Revocation`, which the guard consults |
| `EntryPointProofs` | those of `Gateway` and of `Cli`, the two programs an operator starts |
| `DurabilityProofs` | those of `AuditTrail` and of `Release`, the two components that write files and restart |

Conventions. A local variable that lives across an await is a field of `req`,
`job`, `mem`, `proc` or `evidence`; `pc` says at which await a call is. What lies
between two awaits is one action. Time is in seconds, as in the code. History
variables (`admitted`, `committed`, `floor`, `lastEval`, `history`, `log`,
`restored`, ...) are written and never decide what an action does. Two modules
that one module of proofs extends share no name, hence `RevocationInit`,
`ReleaseNext`, `CliSpec` and the like. Definitions
whose names end in `_Something` right before a definition are faulty variants of
it, used to see that a property can fail. Cryptography is represented by what it
identifies: a hash is what it was taken of, a signature says who made it, over
which payload and domain, and in which text encoding.

**PolicyModules / PolicyEngine.** `State` keeps the fields the modules read:
spent budget, velocity counters, replay nonces with their timestamps, leases and
their counter, tool calls, kill switches and the policy version. `DenyReasons`
is `evaluatePure` up to its verdict (validation, freshness and version gates,
then the modules of the intent's type, fail-fast or collecting all);
`NextState` merges the deltas, and for EXECUTE adds the lease of the
authorization minted. Amounts are integers; the code's are `bigint`, so there is
no width to model. An authorization is identified by nonce and issue time
within the engine, and by intent, input state and issue time in `Guard`, which
are what `auth_id` hashes. The trusted clock does not run backwards between
evaluations of one state (`now` is the time of the last admission).

**Guard.** `LoadState` takes the snapshot and version that all later steps of
the request use. `EvaluateAllow`/`EvaluateDeny` use the snapshot, not the store.
`ConsumeAuthorization` and `ConsumeDelegation` are the atomic test-and-set of
the replay store, each with a failing variant in which the id may or may not
have been recorded. `CommitState` is a compare-and-set on the version; the
failing variant includes a write that happened and was reported as failed.
`EnterCallback` is the point of no return. `emitBoundaryEvent` follows the
deduplication by error identity, `DenyError` included. The delegation path
reads the clock once, at its start, as the code does, and denies for a missing list
of authorities and for a required but missing revocation provider. The caller's store, Redis,
the revocation provider and the operator are external.

**SecureGuard.** `Construct` is the validation of the options in the code's
order, including unreadable and malformed ones, and what is captured. `runSecure`
reads the trusted context, reconciles the action's claims with it and starts the
enforcement body, whose awaits follow. Meanwhile the deployer may assign an
option, replace a method, rotate or revoke keys, the caller may change its
delegation, and code in the process may pollute a prototype. `ConfirmKeys` is the
await of the signed revocation lists, after which trust is not read again; before
it, once the provider has answered, it is. A callback may throw a new error
object, one that another call throws too, an `OxDeAIDenyError` or a value that is no
object (`Thrown`), and `emitted` is the set `EMITTED` of the process, which outlives
the calls.

**Gateway.** The store applies a consume at some time after it is asked
(`answered`), and evicts after `max(1, expiry - now)`. The upstream goes on
after the timer has fired; its late answer is dropped. The request object and
the options object may change while a request waits; the code's captured copies
are modelled as copies. `SendJson` and `SendJsonFails` are the handler's last
step. `CallDirectly` reaches the upstream without a token.

**SignedKrl / Revocation.** A list is a record of its JSON fields, with absent
and ill-typed values, numbers as they are written, and the encoding of the
signature text. The three verifiers are three pipelines over the same record, in
each program's own order of checks. In `Revocation` the provider may answer any
subset of the lists in circulation: stale, incomplete, altered, forged, of a
stranger. Watermarks are offered one publisher at a time, with an await between
two.

**KeyStore.** The fresh path is fetch, list watermarks, verify, record, swap,
cache; every failure leads to the LKG path, if one is configured. The three
modes, with and without a `verifyKrl` callback, start from an empty cache or one
that an earlier process filled. The file-backed store is read, opened
(truncated), written and renamed, with a crash possible after each. It is
documented for a single writer and the model gives it one; the atomic store
admits overlapping refreshes.

**Artifacts.** Holders of keys sign authorizations (both layouts, both
algorithms) and delegations; a transport changes a field, re-encodes a
signature, respells an identifier, delays or repeats; key sets change. The two
verifiers are the checks of `verifyAuthorization.ts` and `verifyDelegation.ts` in
their order; the boundary then consumes the identifiers it verified.

**Sift.** A receipt is verified (`verifyReceipt`, with the answers `KeyStore`
can give), normalized and turned into an authorization, which is presented to
the enforcement point of one of three deployments, as often as the adapter is
asked. The enforcement point, its replay store with pruning, restart and late
promises, and the upstream are modelled to the answer the caller gets.

**Evidence / Cli.** `Evidence` holds what the core exports and verifies: the
codecs of the eight modules with what each accepts and defaults, the state hash,
`verifySnapshot`, `verifyAuditEvents`, `verifyReplayEvents`, `verifyEnvelope`.
`Cli` runs every command as a process cut at its awaits. `writeFile` truncates
and then fills; an append that is killed leaves part of a line. An editor of the
log extends, drops and swaps lines (`Edits`), empties a policyId or adds a
checkpoint, whose hash may be text that is no hash (`Rewordings`).

**AuditTrail.** A decision is one of invalid, INTERNAL_ERROR (which
leaves only its first event), DENY, ALLOW; the state is the
number of admissions in it. `auditQueue` and `stateQueue` are the two promise
chains; their first element is being delivered. A flush waits for as many
settlements as were queued when it began (`waits`). `FileAuditSink` keeps a
rejected queue for ever (`broken`). A write that fails or is cut off may leave
part of a line, and the next line is glued to it.

**Release.** Every phase reads the state the operator's process holds in memory,
talks to npm and saves `release-state.json` (temporary file, rename); it is cut
at each save and each remote effect. A tarball is the revision, cleanliness and
directory it was packed from. A crash or a failed save, a registry that shows a
version late, a developer who edits the tree, and another maintainer who moves
tags come between.

## 3. Runs

| Run | Asks | Instance |
|---|---|---|
| `PolicyEngine` | replay, leases, budget and both rate limits over any sequence of calls | 1 configured and 1 unknown agent, 3 nonces, 1 limited tool, times 0..4, lifetime 3 s, tool limit 1 in 2 s, velocity 2 in 4 s |
| `GuardFaults` | refinement of the engine, at most once, audit streams and settlement with everything failing | 1 intent twice, in 2 instances that share no replay store, a crash, 8 kinds of fault, a kill switch |
| `GuardDelegation` | at most once and revocation with both paths at once | 2 presentations of one delegation id under 2 parents, 1 standard request that mints one of the parents, a crash, failing stores, a revocation, times 0..2 |
| `SecureGuard` | enforcement as constructed, replay domains, true reports | 2 guards, 2 requests (symmetric), 14 configurations, 4 kinds of thrown values, 1 change |
| `Gateway` | fidelity, honesty and liveness of answers | 2 requests that present at most 2 authorizations, 1 direct call, expiry at 2 of 0..3, evicting store, 1 crash, 1 change of an object |
| `Revocation` | evidence, watermarks, agreement of three verifiers | 2 publishers with overlapping scopes, 8 lists, 2 evaluations (symmetric), failing store, restart; for the agreement, lists altered in up to two places |
| `KeyStore` | downgrade protection, receipts, what the status says | a refresh and a receipt, 5 lists, 3 modes, 3 stores, every failure, 1 crash |
| `Artifacts` | authenticity, single use, narrowing | 2 holders, 2 policies, 4 scopes, 7 boundary configurations, 1 change, times 0..2 |
| `Sift` | provenance of effects, single use, answers | 3 deployments, 2 requests, 1 receipt, 2 authorizations, times 0..3, 1 disturbance |
| `Cli` | what envelopes and verdicts are worth | 2 processes, 3 runs, 3 policy files, 1 fault |
| `AuditTrail` | order and completeness of what the adapters hold | 2 evaluations, 2 flushes, 3 sinks or the state store, a checkpoint after 4 events, failing and torn writes, a restart |
| `Release` | order, unity and bookkeeping of a release | 2 packages, 2 directories, 2 revisions, 1 fault, 1 change from outside |

All hold. What each property says is stated above its definition. Section 5 says
which of them are theorems, too.

- *Engine.* `NoIntentAdmittedTwice`, `LeaseAccounting`, `BudgetRespected`;
  `LiveAuthorizationsAreLeased`: an authorization that can still be used
  holds its lease; `VelocityBurstBound` and `ToolWindowBound`: what the limits
  come to over every interval of the history, not only over the code's windows.
- *Guard.* `EngineSpec`: concurrent requests on the compare-and-set store
  implement the sequential engine, so every engine property carries over.
  `NoIntentExecutedTwice` holds although the two instances share no replay
  store. `OutcomesReportedTruthfully`, `EveryRequestSettles`,
  `UsedOrRevokedNeverRuns`.
- *Secure guard.* `EnforcedAsConstructed`: a later change of the configuration
  object decides nothing. `OneUsePerReplayDomain`. `ReportsAreTrue`: provenance, and
  what is on which audit stream when errors are shared between calls (section 4).
- *Gateway.* `ExecutedAsVerified`, `OutcomeIsHonest`,
  `TimelyPresentationsDispatchOnce`, `EveryCallerIsAnswered`.
- *Revocation and key store.* `PassesOnlyOnCurrentEvidence`,
  `RevokedStaysRevoked`, `HarnessesConfirmCore` (of portably written lists; section 4
  says where the verifiers differ); `InForceAsReported`, `RecordedBeforeAccepted`,
  `FetchedKeysAreCheckedAgain`.
- *Artifacts and Sift.* `AcceptedOncePerArtifact`, `AcceptedAsSigned`,
  `DelegationNeverWidens`; `EffectsTraceToFreshAllow`,
  `SecondUseOnlyAfterEviction`, `AnswersMatchEffects`.
- *Evidence.* `AllowPrintedOncePerNonce`; `VerdictsHold`, whose first part says
  where the two log verifiers agree and where they differ (section 4);
  `EnvelopeCoversSnapshot`, `RestoresWhatItExported`; `WrittenInOrder`,
  `NoSilentLoss`, `EveryFlushSettles`.
- *Release.* `DependenciesPublishFirst`, `PromotedSetIsOneBuild`,
  `EffectsAreOnRecord`.

Why the bounds are enough. Each property relates at most two requests (two
executions of one id, two lists of one version, two processes on one file) or one
request and the store, so two of a kind and a third party that interferes cover
the cases. Clocks run past every lifetime in the configuration by at least one
step, so that expiry, pruning, eviction and the instants just before and after
are reached; one restart is enough to lose what is not durable, and a second
would find the same store. One change from outside is enough where a property
speaks of one object that was changed. The constraint of `Artifacts` lets the
clock and the transport start once there is something to present, and keeps the
parents of delegations to Ed25519, signed by their issuer. `Cli` leaves the last
exit code out of the compared state, because it decides nothing. Deadlock is not
checked: every call is made once and the clock is bounded, so every instance
stops.

Fairness. *Guard*: weak fairness of each begun request. The guard sets no
timeout of its own, so `EveryRequestSettles` says that a request whose external
callbacks settle, in whichever way, settles too; it would not hold of a callback
that never returns. *Gateway*: weak fairness of the store's answer, of the
gateway's own continuations and of the timer that `withTimeout` sets; none of
the upstream or the network, which may be silent for ever. *AuditTrail*: the sink
and the store settle what they were given, either way, and a flush's
continuation runs. The other specifications assert safety only.

## 4. What the code does that its documents do not say

The properties are stated so that they hold of the code as it is. Where that is
less than a comment or a document promises, the difference is here.

Guard and gateway:

- The delegation path verifies expiry at one clock reading and then awaits the
  revocation provider and the key lists. With Redis the consumed id is gone once
  its TTL has passed; a presentation verified in time that reaches the store
  after that executes again, although `guard.ts:855-857` says two concurrent
  presentations cannot both execute. `GuardDelegation` with `Evicts = TRUE` shows
  it. The gateway has the same window: `TimelyPresentationsDispatchOnce` states
  what is left.
- An `OxDeAIDenyError` is taken for a decision already reported, also when a
  `beforeExecute` hook throws it after the state was committed: it appears on
  neither stream, against `boundaryEvent.ts:20-21`. `GuardFaults` with
  `Thrown = {DenyError}` shows it. An error object thrown twice in one process is
  reported once (`boundaryEvent.ts:348-351`): `EMITTED` is as old as the process, not
  as the call. The secure guard wraps the same body and inherits both;
  `ReportsAreTrue` says which rejections are therefore without an event.
- A retry on the same state in the same second mints the `auth_id` that a
  conflict burned (`guard.ts:1151-1153` expects a fresh one).
- A value that cannot be serialized turns a verdict into UNKNOWN
  (`gateway.ts:620-622` against `:24-26`).
- Provenance is "matched" also when the premise that the claim equals is what a
  custom normalizer made of it; `provenance.ts:42-43` says the premise is not a
  declared one.

Revocation, Sift:

- The swap of `refresh()` assigns the version unconditionally after an await
  (`siftKeyStore.ts:735-740`), so of two overlapping refreshes the older list can
  be put in force last and lower the watermark in memory;
  `packages/sift/README.md:349` says the highest accepted version is tracked.
- `packages/sift/README.md:448` says every load of the LKG list is verified with the
  current persisted watermark. `refresh()` merges the record into memory
  (`siftKeyStore.ts:811`) and then awaits the cache; another refresh whose swap
  comes in between writes its own, older version over the merged one (`:737`),
  and the cached list is compared with that. It takes three overlapping
  refreshes: the proof of `InForceAsReported` failed for them where TLC's two had
  shown nothing. The cached list is therefore held to the record only for the
  file store, which has a single writer; what holds of all is
  `KeyStoreFallbackNeverDowngrades`.
- A refused LKG list clears `lkgCacheActive` and `unsignedFallbackActive`
  although the list in force still came from there (`siftKeyStore.ts:843-856`).
- `docs/adapters/sift.md:390` rules out a second effect of one `auth_id`; a replay
  store that prunes allows it to a request that passed the expiry check before
  (`SecondUseOnlyAfterEviction`).
- The Go and Python verifiers differ from the core on a nonce that is not text,
  loosely encoded base64, a second key set of one issuer, `1.0`, numbers beyond
  2^53, and keys of small order (which only the core refuses, and which the model
  does not have), although `signed_krl_verify.go:149-150` calls itself matching the core's
  `verifySignedKrl` (see also `signed-krl-v1.md` section 3.1).

Evidence, command line, release:

- The two verifiers of audit logs differ on logs that both the schema and a reader
  would call well formed. `replay/verify.ts:54,64` wants a checkpoint's `stateHash`
  to be 64 lowercase hexadecimal digits, `validate.ts:225` and
  `verifyAuditEvents.ts:110` take any text that is not empty; an empty `policyId`
  counts at `replay/verify.ts:71-73` and is passed over at
  `verifyAuditEvents.ts:106`. `VerdictsHold` says that they differ nowhere else, and
  that it is the replay verifier that objects.
- `replay/verify.ts:56` starts chains from "GENESIS", `auditGenesis.ts:12-13`
  says another constant. `HashChainedLog.drain` leaves a log whose `verify()` is
  false. `createVerifier` in strict mode does not require an envelope signature
  (`createVerifier.ts:11`).
- `oxdeai init` accepts `tool_limits.window_seconds = 0`, and negative amounts:
  `normalizeBudget` exports those, but `assertDecimalBigIntString` (`_codec.ts:59-64`)
  refuses them on import, so such a state does not come back from its snapshot.
  The tool's logs hold no checkpoints, so strict verification of them is always
  inconclusive.
- `orchestrator.mjs:1149-1150` names resuming from the state on disk as the way
  out of every persistence error, but a crash in `PUBLISHING_NEXT` leaves a phase
  that `resume` (`:1228`) and publication (`:1529`) both refuse.
- The SDK's `createGuard` executes before it saves, without compare-and-set.

Known hazards that no property covers: equal `auth_id`s of content-equal
evaluations (`PolicyEngine.ts:633`); the empty list of a cold key store
(`verifyReceipt.ts:428`); two writers of the file watermark store
(`krlWatermarkStore.file.ts:150`); a line glued to a torn one (`File.ts:62`, which
`AuditTrail` models and `WrittenInOrder` allows for); checkpoints that are never
reached because they count as events (`PolicyEngine.ts:268`); overlapping
launches of the command line tool, which lose an update of the state file.

## 5. What is proved

Eight modules of proofs hold for every value of the constants: any number of
agents, requests, processes, commands, policies, lists, publishers, calls, flushes, receipts,
packages and revisions, any bound on restarts and clocks, any set of failing
calls. In each, `Inv` (`RevocationInv`, `ReleaseInv`, `CliInv` where two modules share a
module of proofs) is the inductive invariant, `InitInv` and `NextInv` (`NextStep`)
show that it is one, with a lemma for each action, and the theorems follow from
`InvariantHolds` (`TrailHolds`, `SiftHolds`, ...). Every invariant was checked by
TLC on the module's instance before it was proved.

| Theorem | Property | Of |
|---|---|---|
| `EngineTyped` | `TypeOK` | `PolicyEngine` |
| `EngineAdmitsOnce` | `NoIntentAdmittedTwice` | |
| `EngineCountsLeases` | `LeaseAccounting` | |
| `EngineKeepsBudget` | `BudgetRespected` | |
| `EngineLeasesLiveAuthorizations` | `LiveAuthorizationsAreLeased` | |
| `EngineBoundsBursts`, `EngineBoundsToolCalls` | `VelocityBurstBound`, `ToolWindowBound` | |
| `GuardImplementsEngine` | `EngineSpec` (refinement of `PolicyEngine`) | `Guard` |
| `GuardKeepsLimits` | the engine's budgets and leases, of the shared store | |
| `GuardExecutesOnce` | `NoIntentExecutedTwice` | |
| `GuardNeverRunsUsed` | `UsedOrRevokedNeverRuns`, if the replay store evicts nothing | |
| `GuardNeverRunsRevoked` | its part on revocation, with eviction too | |
| `GuardReportsTruthfully` | `OutcomesReportedTruthfully`, if what is thrown is not shared | |
| `GuardEventsAreTrue` | its part on the truth of events, whatever is thrown | |
| `GatewayAnswersHonestly`, `GatewayExecutesAsVerified`, `GatewayDispatchesOnce` | `OutcomeIsHonest`, `ExecutedAsVerified`, `TimelyPresentationsDispatchOnce` | `Gateway` |
| `CliPrintsAllowOnce`, `CliEnvelopesCover`, `CliVerdictsHold` | `AllowPrintedOncePerNonce`, `EnvelopeCoversSnapshot`, `VerdictsHold` | `Cli` |
| `CliRestoresWhatItExported` | `RestoresWhatItExported`, if no amount is negative | |
| `RevocationPassesOnCurrentEvidence`, `RevocationIsPermanent` | `PassesOnlyOnCurrentEvidence`, `RevokedStaysRevoked` | `Revocation` |
| `RevocationHarnessesConfirm` | `HarnessesConfirmCore` | |
| `KeyStoreReportsWhatIsInForce`, `KeyStoreRecordsFirst`, `KeyStoreChecksAgain` | `InForceAsReported`, `RecordedBeforeAccepted`, `FetchedKeysAreCheckedAgain` | `KeyStore` |
| `KeyStoreFallbackNeverDowngrades` | an action property of the list in force | |
| `TrailIsInOrder`, `TrailLosesNothingSilently` | `WrittenInOrder`, `NoSilentLoss` | `AuditTrail` |
| `SecureGuardsEnforceWhatTheyWereBuiltFrom`, `SecureReplayDomainsAdmitOnce`, `SecureReportsAreTrue` | `EnforcedAsConstructed`, `OneUsePerReplayDomain`, `ReportsAreTrue` | `SecureGuard` |
| `ArtifactsAreAcceptedOnce`, `ArtifactsAreAcceptedAsSigned`, `DelegationsNarrow` | `AcceptedOncePerArtifact`, `AcceptedAsSigned`, `DelegationNeverWidens` | `Artifacts` |
| `ReleaseStateIsTyped` | the shape of the release state, in memory and on disk | `Release` |
| `DependenciesArePublishedFirst`, `LatestIsOneBuild`, `EffectsStayOnRecord` | `DependenciesPublishFirst`, `PromotedSetIsOneBuild`, `EffectsAreOnRecord` | |
| `SiftEffectsTrace`, `SiftSecondUse`, `SiftAnswersMatch` | `EffectsTraceToFreshAllow`, `SecondUseOnlyAfterEviction`, `AnswersMatchEffects` | `Sift` |

Assumptions. Constants are held to the named assumptions of their modules, which
TLC evaluates in every run: shapes and ranges of limits, windows and lifetimes
(`PolicyConfig`, `EngineConfig`), of lists and scopes (`RevocationConfig`: versions
and the times of keys are integers, key sets come in a list; `KeyStoreConfig`), of guard configurations (`SecureGuardConfig`), of
issuers, scopes and policies (`ArtifactsConfig`), of setups (`AuditConfig`), of
clocks and ttl (`SiftConfig`), of a release with at least one package, revision and
directory (`ReleaseConfig`), of policy files and launches (`CliConfig`: a policy has the
shape `isRuntimeState` asks for, whatever its numbers), and, in the gateway,
that a caller without the executor token does not present it (`TokenIsSecret`).
Three theorems have hypotheses of their own. `AmountsAreWritten`: a policy with a
negative amount is exported and then refused (section 4). `~Evicts`: with Redis an id that
expires between the check of its expiry and its consumption is forgotten, and
the property is then false of the code (section 4). `Thrown \subseteq {Fresh}`: an
error object that two requests throw is reported once, and a thrown `DenyError`
is not reported (section 4). Each property is false of the code otherwise, and of
the last two the part that remains true is a theorem without hypothesis.

Why the invariants are what they are:

- *Engine, at most once* needs `AdmissionsRemembered`: an admitted intent's nonce
  is still retained, or its timestamp is older than the freshness gate accepts at
  any later time. The step that matters is that `Retention`, the larger of the
  replay window and the freshness horizon (skew plus age), makes the second hold
  by the time the first ceases to. With the replay window alone the property
  fails, which the mutant of the run shows.
- *Engine, leases* need `LeasesFinite`, so that adding and removing a lease moves
  the cardinality by one, and `LeasesBackedByNonces`, so that the lease of a new
  authorization is never already in the map: its id would need a nonce and issue
  time that an earlier admission used, which the replay check excludes.
- *Engine, history* (`HistoryInv`) relates the counters to the log of admissions.
  `LeasesTraced`: each lease is that of one admission that nobody released, and the
  other way round while it lives; `IdsUnique` makes the release of one id the
  release of one admission. `WindowCounted`: the velocity counter is the number of
  admissions since `window_start`, and earlier ones are counted by the window
  before, so that an interval meets two windows at most and holds at most
  `2 * MaxActions - 1`. `CallsLogged`: the pruned log of tool calls holds every call
  that an interval ending now or later can contain.
- *Guard* needs `SnapshotInv`: a snapshot whose version is the store's is the
  store's state, and nothing was evaluated after it. So a compare-and-set that
  succeeds is a step of the engine in the state the request read, and everything
  else is a stutter (`StepRefines`). The engine's own `Inv` is a conjunct, taken
  over by instantiating `PolicyEngineProofs`. `EffectInv` says which effects have
  happened at each await, `ReplayInv` and `UsedOnce` that what was consumed is on
  record, `AuditInv` what was said of it.
- *Gateway* needs `KeysOutlive`: a consumed id is kept until the authorization it
  names has expired, whatever it took the store to answer.
- *Command line tool*: `Stage` says what each process holds at each of its awaits,
  and `FileInv` that a file is missing, torn, or holds what some process wrote, so
  that a state that can be read was accepted by init (`Sound`). `OverlapInv` tells
  which processes run together. `PrintedInv`: without overlaps every printed nonce
  is in the state file as far as that can be read, and in the state a launch is
  about to write, which is why the engine denies it from then on. `CoverInv`: every
  nonce of a state in the file, in a process or in an envelope is an operator's or
  has its event in the log that goes with it (`Owed`); launches may overlap here,
  because each appends to the log before it writes its state, and make-envelope
  reads the state before the log. `Genuine`: a signature is over an envelope that
  its holder signed. Export and import rest on a lemma about finite orders
  (`Ranking`): in each, every position is taken, by one element.
- *Revocation*: watermarks, ordered by `Acceptable`, never go down (`FloorInv`), an
  accepted list lies between what the store held when the evaluation began and
  what it holds (`AcceptedInv`), any two accepted lists of a publisher are ordered
  (`OrderedInv`), and an evaluation begins above all those that had settled
  (`BeganAfterInv`).
- *Verifiers of revocation lists*: `HarnessesConfirmCore` needs no invariant, but a
  meaning that three programs share. `Accepts` is the conjunction of what the
  core demands, `Blames` says which codes it owes to a list that fails, with its
  own early returns: the key and the times are judged only if the form is in order.
  The core's verdict is `Ok` exactly where `Accepts` holds and otherwise names
  every blamed code (`CoreSays`, over the sorted and repeated codes of
  `sortViolations`); the first broken rule of a harness is never blamed in vain, in
  either order of rules (`GoSays`, `PythonSays`).
- *Key store*: `RecordInv`, the record bounds everything a call has seen of it;
  `SingleWriter` and `WriterInv`, between reading the file and renaming over it
  nobody else moves it; `ActiveInv`, the list in force is recorded and its version
  in memory is not behind it.
- *Audit trail*: `QueueInv`, the queue is the end of the log; `FileInv`, every line
  precedes everything queued; `NoHoles`, until a write fails all that left the
  queue is in the file; `FlushInv`, a flush waits for exactly as many settlements
  as its part of the queue has left; `ErrorInv`, a loss that no flush has thrown
  leaves the error set. With these, what a returning flush missed is empty.
- *Secure guard*: `BuiltInv`, a guard's template is what its options held when it
  was built, whatever the configuration object holds now; `Enforced`, at each stage
  of a call, what the checks passed so far owe to the template and to nothing the
  deployer can still assign; `EmittedInv`, `EMITTED` holds an error object exactly if a
  call that threw it accounted for it, so a second call is silent only for such an
  object; `SpentInv`, what a call has consumed is in the store of
  its own replay domain and the call is the only one that consumed it; `Agrees`,
  the report says of provenance what the reconciliation found.
- *Artifacts*: `IssuedInv`, what a holder issued is signed by that holder over
  its own payload; `TransitInv`, the transport can change every field but cannot
  make a signature, so a signature that verifies over a payload is on an artifact
  that was issued with it; `ConsumedInv`, an accepted identifier is in the
  boundary's store in the spelling in which it was accepted, which is why respelling
  one does not admit it again.
- *Release*: `OriginInv`, bytes name the revision and directory they were packed
  from, and match manifest and receipt unless they were damaged and reported so;
  `StageInv`, how memory, file and registry differ at each cut between a save and a
  remote effect; `RegistryInv`, a version that npm has taken never changes; `OperationInv`, an
  effect comes after the attempt was saved, and a publication after those of the
  packages it depends on; `LatestInv`, a moved tag is of the one build and on
  record; `ValidInv`, every saved state is accepted by `validateState`, so a
  resumed process is where the one before it was.
- *Sift* follows one authorization: `Genuine` and `Issued`, a receipt and an
  authorization are signed over all they say, so whatever passes is what was
  signed (`SignedMeansUnchanged`, `SentAsIssued`; only a parameter's spelling with
  the same canonical form gets through); `Verified`, what the enforcement point
  holds past step 8 traces to a fresh receipt. `Held` says what the replay store
  remembers of a use: an entry that lasts as long as the authorization used,
  unless that time is over or the process is another one (`StoreRemembers`), so
  what it finds fresh is apart from every use (`FreshIsApart`, `ApartInv`).

Proving changed the models where they were wrong or could not be reasoned about:

- `InForceAsReported` was too strong (section 4). `DelegationNeverWidens` became
  stronger: it relates what was accepted to what the parent's holder had signed.
- `TokenIsSecret`, integer versions, natural limits, the shapes of guard
  configurations and a release that is not empty were assumed tacitly and are now
  named assumptions.
- Conditions of overlapping `CASE` arms, of which TLC takes the first, became `IF`
  chains (`KeyStore`, `SecureGuard`, `Release`).
- `Evidence` sorts lists and picks from them by counting positions (`Chronological`,
  `AsList`, `Subsequence`), and states the shapes of a policy (`Parts`,
  `WellShaped`).
- "The first that matches" is stated by positions (`First` in `SignedKrl` and
  `Artifacts`, `FirstBroken` for the rules of the harnesses), `sortViolations` puts
  each code where the number of codes before it says, and `Sift` extends records by
  an operator of its own, `With`: the provers expand neither `SelectSeq` nor
  `SortSeq` nor `@@`.

Only model-checked:

- Liveness, which rests on fairness and is beyond this prover:
  `EveryRequestSettles`, `EveryCallerIsAnswered`, `EveryFlushSettles`.

## 6. Not modelled

- Cryptography and canonical forms: that distinct contents have distinct hashes
  is assumed. The Profile C and canonicalization vectors of the cross-language
  harnesses compare bytes, which this abstraction has removed.
- The conformance suite and its vector tools run the verifiers modelled here on
  fixed inputs; the framework adapters map a call onto a guard call without state;
  the SDK wraps the engine; the other examples, the security gate and repro
  scripts, benchmarks and the website are demonstrations or tests.
- Some checks of the artifact verifiers: the second spelling `ed25519` of an
  algorithm (`verifyAuthorization.ts:446`), a delegation in the place of a parent
  (`verifyDelegation.ts:349`), a missing audience (`:150`), the hash of a parent in
  the nested layout. But for the spelling, the model accepts more than the code.
- Public keys of small order, under which any message verifies. The core refuses them
  (`signatures.ts:122-123`); the key sets of the model hold none, and the agreement
  of the three list verifiers is stated of such key sets.
- Formatting, logging, flag parsing, HTTP details beyond status and body kind.
- Rollback of the caller's state store and clocks that differ between machines.

## 7. Plan

1. Done: all the modules of section 2, and the proofs of section 5.
2. Larger instances where proofs have made a run's properties general: two
   writers of the file watermark store, overlapping launches of the tool.
