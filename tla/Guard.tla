------------------------------- MODULE Guard -------------------------------
(***************************************************************************)
(* The policy enforcement point, OxDeAIGuard (packages/guard/src/guard.ts):*)
(* concurrent requests, in several guard instances, around a versioned     *)
(* state store, a replay store and a delegation revocation provider.       *)
(*                                                                         *)
(* A request is cut at every await: what other requests, the operator, the *)
(* clock or a crash can change between two of its steps is changed here    *)
(* too.  The code between two awaits is one action (evaluation and         *)
(* verification are two, because each reads the clock).                    *)
(*                                                                         *)
(* External to the repository and modelled from how the guard uses them:   *)
(* the caller's getState/setState store (a compare-and-set on a version),  *)
(* the Redis server, the revocation provider, and the operator.            *)
(*                                                                         *)
(* A thrown value is Fresh (an object of its own), DenyError (an           *)
(* OxDeAIDenyError) or a member of SharedErrors: one object that a         *)
(* callback throws again and again (a cached rejection, a constant).       *)
(***************************************************************************)
EXTENDS PolicyModules

CONSTANTS
  Instances,           \* guard processes
  Requests,            \* guard calls, each made once
  InstanceOf,          \* [Requests -> Instances]
  IntentOf,            \* the normalized intent      [Requests -> Intent]
  DelegationOf,        \* opts.delegation            [Requests -> Delegation + none]
  NoDelegation,
  DelegationIds,
  SharedStore,         \* one replay store for all instances, surviving crashes
  Evicts,              \* the store drops an id once its TTL has passed (Redis)
  StoresDelegations,   \* replayStore.consumeDelegationId is implemented
  AuthoritiesConfigured, \* config.trustedDelegationAuthorities is configured
  RevocationProvider,  \* a delegation revocation provider is configured
  RequireRevocation,   \* requireDelegationRevocation
  KrlConfigured,       \* config.revocation (SignedKRLV1) is configured
  Faults,              \* the external calls that may fail
  Fresh, DenyError, SharedErrors,
  Thrown,              \* the values failing callbacks throw
  MaxTime, MaxVersion, MaxCrashes   \* bounds on the clock, operator writes, crashes

(***************************************************************************)
(* Identifiers.  auth_id is a hash of the intent, the input state and the  *)
(* issue time (and of fixed engine settings); it is represented by those.  *)
(***************************************************************************)
AuthId == [intent : Intent, state : State, issued_at : Time]

(***************************************************************************)
(* A presented delegation.  `defects` are the checks its content fails     *)
(* whatever the time: "amount", "input", "scope" (the parent's), "authority",  *)
(* "parent", "chain".                                                      *)
(***************************************************************************)
Delegation ==
  [ id : DelegationIds, expiry : Time, parent : AuthId, parent_expiry : Time,
    defects : SUBSET {"amount", "input", "scope", "authority", "parent", "chain"} ]

ASSUME GuardConfig ==
  /\ InstanceOf \in [Requests -> Instances]
  /\ IntentOf \in [Requests -> Intent]
  /\ DelegationOf \in [Requests -> Delegation \cup {NoDelegation}]
  /\ NoDelegation \notin Delegation
  /\ Fresh \notin SharedErrors /\ DenyError \notin SharedErrors /\ Fresh # DenyError
  /\ Thrown \subseteq {Fresh, DenyError} \cup SharedErrors
  /\ {SharedStore, Evicts, StoresDelegations, AuthoritiesConfigured, RevocationProvider,
      RequireRevocation, KrlConfigured} \subseteq BOOLEAN
  /\ MaxTime \in Nat /\ MaxVersion \in Nat /\ MaxCrashes \in Nat

VARIABLES
  now,           \* Date.now() in seconds
  store,         \* the caller's state store: [state, version]
  authIds,       \* replay store: consumed auth_ids
  delegationIds, \* replay store: consumed delegation_ids
  revoked,       \* delegation ids the provider reports REVOKED
  epoch,         \* how often each instance has restarted
  pc,            \* where each request is
  req,           \* each request's local variables
  life,          \* each request's GuardLifecycle flags
  started,       \* requests whose execute() was entered
  decisions,     \* records given to onDecision, by request
  events,        \* records given to onBoundaryEvent, by request
  emitted,       \* the EMITTED weak set, for the shared error objects
  lastEval,      \* history: evaluation time of the last committed request
  admitted,      \* history: what was committed, in order
  committed      \* history: which requests committed

storeVars == <<store, lastEval, admitted, committed>>
replayVars == <<authIds, delegationIds>>
envVars == <<now, revoked, epoch>>
auditVars == <<decisions, events, emitted>>
vars == <<envVars, storeVars, replayVars, auditVars, pc, req, life, started>>

----------------------------------------------------------------------------
Delegated(r) == DelegationOf[r] # NoDelegation

Lifecycle == [ policyEvaluated : BOOLEAN, authorizationIssued : BOOLEAN,
               authorizationConsumed : BOOLEAN, delegationConsumed : BOOLEAN,
               stateCommitted : BOOLEAN ]

createLifecycle ==
  [ policyEvaluated |-> FALSE, authorizationIssued |-> FALSE,
    authorizationConsumed |-> FALSE, delegationConsumed |-> FALSE, stateCommitted |-> FALSE ]

\* The process a request runs in; a restarted instance is a new process.
Process(r) == <<InstanceOf[r], epoch[InstanceOf[r]]>>

\* The replay domain its replay store belongs to.
Domain(r) == IF SharedStore THEN <<"shared", 0>> ELSE Process(r)
Domains == {<<"shared", 0>>} \cup (Instances \X Nat)

InFlight == {"loaded", "verify", "revocation", "krl", "consume_delegation", "consume_auth",
             "commit", "gate", "executing"}
Settled == {"denied", "rejected", "returned", "failed", "crashed"}

Locals == [version : Nat, state : State, at : Time, domain : Domains,
           revoked_at_start : SUBSET DelegationIds]

(***************************************************************************)
(* The auth_id a request consumes: of the authorization just minted from   *)
(* its snapshot, or of the parent authorization it presents.               *)
(***************************************************************************)
AuthIdOf(r) ==
  IF Delegated(r)
  THEN DelegationOf[r].parent
  ELSE [intent |-> IntentOf[r], state |-> req[r].state, issued_at |-> req[r].at]

AuthExpiry(r) == IF Delegated(r) THEN DelegationOf[r].parent_expiry ELSE req[r].at + Ttl

Init ==
  /\ now = 0
  /\ store = [state |-> EmptyState, version |-> 0]
  /\ authIds = {} /\ delegationIds = {} /\ revoked = {}
  /\ epoch = [n \in Instances |-> 0]
  /\ pc = [r \in Requests |-> "idle"]
  /\ req = [r \in Requests |->
              [version |-> 0, state |-> EmptyState, at |-> 0, domain |-> <<"shared", 0>>,
               revoked_at_start |-> {}]]
  /\ life = [r \in Requests |-> createLifecycle]
  /\ started = {}
  /\ decisions = [r \in Requests |-> <<>>]
  /\ events = [r \in Requests |-> <<>>]
  /\ emitted = {}
  /\ lastEval = 0 /\ admitted = <<>> /\ committed = {}

----------------------------------------------------------------------------
(***************************************************************************)
(* Audit.  emitBoundaryEvent reports a rejection unless it is a DenyError  *)
(* or an error object already accounted for in this process; a callback    *)
(* failure is only remembered as handled.                                  *)
(***************************************************************************)
fireDecision(r, decision) == decisions' = [decisions EXCEPT ![r] = Append(@, decision)]

buildEvent(stage, failure, lifecycle) ==
  [stage |-> stage, failure |-> failure, progress |-> lifecycle]

Remember(r, thrown) ==
  emitted' = emitted \cup ({thrown} \cap SharedErrors) \X {Process(r)}

emitBoundaryEvent(r, stage, failure, thrown, lifecycle) ==
  /\ events' = IF thrown = DenyError \/ <<thrown, Process(r)>> \in emitted
               THEN events
               ELSE [events EXCEPT ![r] = Append(@, buildEvent(stage, failure, lifecycle))]
  /\ Remember(r, thrown)

(***************************************************************************)
(* A rejection: the original error leaves through the one catch of `guard`.*)
(* Nothing the request did before is undone.                               *)
(***************************************************************************)
Goto(r, label) == pc' = [pc EXCEPT ![r] = label]

RejectAfter(r, stage, failure, thrown, lifecycle) ==
  /\ emitBoundaryEvent(r, stage, failure, thrown, lifecycle)
  /\ life' = [life EXCEPT ![r] = lifecycle]
  /\ Goto(r, "rejected")
  /\ UNCHANGED <<now, revoked, epoch, decisions, req, started>>

RejectWith(r, stage, failure, thrown) == RejectAfter(r, stage, failure, thrown, life[r])

reject(r, stage, failure) == RejectWith(r, stage, failure, Fresh)

Mark(r, flags) == life' = [life EXCEPT ![r] = [f \in DOMAIN @ |-> f \in flags \/ @[f]]]

----------------------------------------------------------------------------
(***************************************************************************)
(* 1. Load state and version.                                              *)
(***************************************************************************)
LoadState(r) ==
  /\ pc[r] = "idle"
  /\ req' = [req EXCEPT ![r] = [version |-> store.version, state |-> store.state, at |-> now,
                                domain |-> Domain(r), revoked_at_start |-> revoked]]
  /\ Goto(r, "loaded")
  /\ UNCHANGED <<envVars, storeVars, replayVars, auditVars, life, started>>

LoadStateFails(r) ==
  /\ pc[r] = "idle" /\ "getState" \in Faults
  /\ \/ \E thrown \in Thrown : RejectWith(r, "STATE_LOAD", "UNCLASSIFIED", thrown)
     \/ reject(r, "STATE_LOAD", "STATE_VERSION_MISSING")
  /\ UNCHANGED <<storeVars, replayVars>>

(***************************************************************************)
(* 2. Normalize.                                                           *)
(***************************************************************************)
NormalizeFails(r) ==
  /\ pc[r] = "loaded" /\ "normalize" \in Faults
  /\ \E thrown \in Thrown \ {DenyError} :
       \/ RejectWith(r, "NORMALIZATION", "NORMALIZATION_FAILURE", thrown)
       \/ RejectWith(r, "PROVENANCE", "PROVENANCE_CONFLICT", thrown)
  /\ UNCHANGED <<storeVars, replayVars>>

(***************************************************************************)
(* 3. Standard path: evaluate the intent against the snapshot, now.        *)
(***************************************************************************)
EvaluateAllow(r) ==
  /\ pc[r] = "loaded" /\ ~Delegated(r)
  /\ DenyReasons(IntentOf[r], req[r].state, now, "fail-fast") = {}
  /\ req' = [req EXCEPT ![r].at = now]
  /\ Mark(r, {"policyEvaluated", "authorizationIssued"})
  /\ Goto(r, "verify")
  /\ UNCHANGED <<envVars, storeVars, replayVars, auditVars, started>>

EvaluateDeny(r) ==
  /\ pc[r] = "loaded" /\ ~Delegated(r)
  /\ DenyReasons(IntentOf[r], req[r].state, now, "fail-fast") # {}
  /\ Mark(r, {"policyEvaluated"})
  /\ fireDecision(r, "DENY")
  /\ Goto(r, "denied")
  /\ UNCHANGED <<envVars, storeVars, replayVars, events, emitted, req, started>>

\* Mutant: a request whose evaluation failed starts over.
EngineFails_Retries(r) ==
  /\ pc[r] = "loaded" /\ ~Delegated(r) /\ "engine" \in Faults
  /\ Goto(r, "idle")
  /\ UNCHANGED <<envVars, storeVars, replayVars, auditVars, req, life, started>>

\* The engine throws, or returns something that is not a decision.
EngineFails(r) ==
  /\ pc[r] = "loaded" /\ ~Delegated(r) /\ "engine" \in Faults
  /\ \/ reject(r, "POLICY_EVALUATION", "ENGINE_FAILURE")
     \/ \E failure \in {"ENGINE_FAILURE", "AUTHORIZATION_MISSING"} :
          RejectAfter(r, "POLICY_EVALUATION", failure, Fresh,
                      [life[r] EXCEPT !.policyEvaluated = TRUE])
  /\ UNCHANGED <<storeVars, replayVars>>

(***************************************************************************)
(* 4. Verify the minted authorization and its intent and state bindings.   *)
(***************************************************************************)
VerifyAuthorization(r) ==
  /\ pc[r] = "verify" /\ now < AuthExpiry(r)
  /\ Goto(r, "consume_auth")
  /\ UNCHANGED <<envVars, storeVars, replayVars, auditVars, req, life, started>>

VerifyAuthorizationFails(r) ==
  /\ pc[r] = "verify"
  /\ \/ /\ now >= AuthExpiry(r) \/ "verify" \in Faults
        /\ reject(r, "AUTHORIZATION_VERIFICATION", "AUTHORIZATION_VERIFICATION_FAILED")
     \/ /\ now < AuthExpiry(r) /\ "verify" \in Faults
        /\ \E failure \in {"INTENT_HASH_MISMATCH", "STATE_HASH_MISMATCH"} :
             reject(r, "AUTHORIZATION_VERIFICATION", failure)
  /\ UNCHANGED <<storeVars, replayVars>>

----------------------------------------------------------------------------
(***************************************************************************)
(* 3'. Delegation path: the input, parent and chain checks, in order, all  *)
(* at one reading of the clock.  A parent that merely lacks authority is   *)
(* told apart from one that also fails verification.                       *)
(***************************************************************************)
DelegationDenial(d, t) ==
  LET parentDefects == (d.defects \cap {"parent", "authority"})
                          \cup DenyIf(t >= d.parent_expiry, "parent")
  IN FirstDenial(
       << DenyIf("amount" \in d.defects, <<"NORMALIZATION", "NORMALIZATION_FAILURE">>),
          DenyIf("input" \in d.defects, <<"DELEGATION", "DELEGATION_INPUT_INVALID">>),
          DenyIf(~AuthoritiesConfigured, <<"DELEGATION", "AUTHORIZATION_AUTHORITY_DENIED">>),
          DenyIf("scope" \in d.defects, <<"DELEGATION", "DELEGATION_INPUT_INVALID">>),
          DenyIf(parentDefects = {"authority"},
                 <<"AUTHORIZATION_VERIFICATION", "AUTHORIZATION_AUTHORITY_DENIED">>),
          DenyIf(parentDefects # {},
                 <<"AUTHORIZATION_VERIFICATION", "AUTHORIZATION_VERIFICATION_FAILED">>),
          DenyIf("chain" \in d.defects \/ d.expiry > d.parent_expiry \/ t >= d.expiry,
                 <<"DELEGATION", "DELEGATION_VERIFICATION_FAILED">>) >>)

VerifyDelegation(r) ==
  /\ pc[r] = "loaded" /\ Delegated(r)
  /\ DelegationDenial(DelegationOf[r], now) = {}
  /\ req' = [req EXCEPT ![r].at = now]
  /\ Goto(r, "revocation")
  /\ UNCHANGED <<envVars, storeVars, replayVars, auditVars, life, started>>

VerifyDelegationFails(r) ==
  /\ pc[r] = "loaded" /\ Delegated(r)
  /\ \E denial \in DelegationDenial(DelegationOf[r], now) : reject(r, denial[1], denial[2])
  /\ UNCHANGED <<storeVars, replayVars>>

CheckRevocation(r) ==
  /\ pc[r] = "revocation"
  /\ IF RevocationProvider THEN DelegationOf[r].id \notin revoked ELSE ~RequireRevocation
  /\ Goto(r, IF KrlConfigured THEN "krl" ELSE "consume_delegation")
  /\ UNCHANGED <<envVars, storeVars, replayVars, auditVars, req, life, started>>

CheckRevocationFails(r) ==
  /\ pc[r] = "revocation"
  /\ \/ /\ RevocationProvider /\ DelegationOf[r].id \in revoked
        /\ reject(r, "DELEGATION", "DELEGATION_REVOKED")
     \/ /\ IF RevocationProvider THEN "revocation" \in Faults ELSE RequireRevocation
        /\ reject(r, "DELEGATION", "DELEGATION_REVOCATION_UNAVAILABLE")
  /\ UNCHANGED <<storeVars, replayVars>>

\* evaluateRevocation against the signed revocation lists, by its outcomes.
KrlAccepts(r) ==
  /\ pc[r] = "krl"
  /\ Goto(r, "consume_delegation")
  /\ UNCHANGED <<envVars, storeVars, replayVars, auditVars, req, life, started>>

KrlRejects(r) ==
  /\ pc[r] = "krl"
  /\ \E failure \in {"AUTHORIZATION_VERIFICATION_FAILED", "DELEGATION_VERIFICATION_FAILED",
                     "REVOCATION_STATE_UNAVAILABLE", "REVOCATION_STATE_INVALID"} :
       reject(r, "DELEGATION", failure)
  /\ UNCHANGED <<storeVars, replayVars>>

----------------------------------------------------------------------------
(***************************************************************************)
(* 5. Replay consumption.  A consume is one atomic check-and-set; with     *)
(* Redis the key lives for max(1, expiry - now) seconds.                   *)
(***************************************************************************)
RetainedUntil(expiry) == IF expiry - now > 1 THEN expiry ELSE now + 1

Entry(r, id, expiry) == [domain |-> req[r].domain, id |-> id, until |-> RetainedUntil(expiry)]

Held(r, ids, id) ==
  \E e \in ids : e.domain = req[r].domain /\ e.id = id /\ (Evicts => now < e.until)

\* Mutant: any answer of the store counts as consumed.
ConsumeDelegation_Truthy(r) ==
  /\ pc[r] = "consume_delegation"
  /\ Goto(r, "consume_auth")
  /\ UNCHANGED <<envVars, storeVars, replayVars, auditVars, req, life, started>>

ConsumeDelegation(r) ==
  /\ pc[r] = "consume_delegation"
  /\ Goto(r, "consume_auth")
  /\ IF StoresDelegations
     THEN /\ ~Held(r, delegationIds, DelegationOf[r].id)
          /\ delegationIds' =
               delegationIds \cup {Entry(r, DelegationOf[r].id, DelegationOf[r].expiry)}
          /\ Mark(r, {"delegationConsumed"})
     ELSE UNCHANGED <<delegationIds, life>>
  /\ UNCHANGED <<envVars, storeVars, authIds, auditVars, req, started>>

ConsumeDelegationFails(r) ==
  /\ pc[r] = "consume_delegation" /\ StoresDelegations
  /\ \/ /\ Held(r, delegationIds, DelegationOf[r].id)
        /\ reject(r, "REPLAY", "DELEGATION_REPLAY")
        /\ UNCHANGED delegationIds
     \/ /\ "replayStore" \in Faults
        /\ reject(r, "REPLAY", "REPLAY_STORE_UNAVAILABLE")
        /\ \/ UNCHANGED delegationIds
           \/ delegationIds' =
                delegationIds \cup {Entry(r, DelegationOf[r].id, DelegationOf[r].expiry)}
  /\ UNCHANGED <<storeVars, authIds>>

ConsumeAuthorization(r) ==
  /\ pc[r] = "consume_auth"
  /\ ~Held(r, authIds, AuthIdOf(r))
  /\ authIds' = authIds \cup {Entry(r, AuthIdOf(r), AuthExpiry(r))}
  /\ Mark(r, {"authorizationConsumed"})
  /\ Goto(r, IF Delegated(r) THEN "gate" ELSE "commit")
  /\ UNCHANGED <<envVars, storeVars, delegationIds, auditVars, req, started>>

\* A store that fails, or answers with something that is not a boolean, may
\* have recorded the id all the same.
ConsumeAuthorizationFails(r) ==
  /\ pc[r] = "consume_auth"
  /\ \/ /\ Held(r, authIds, AuthIdOf(r))
        /\ reject(r, "REPLAY", "AUTHORIZATION_REPLAY")
        /\ UNCHANGED authIds
     \/ /\ "replayStore" \in Faults
        /\ reject(r, "REPLAY", "REPLAY_STORE_UNAVAILABLE")
        /\ \/ UNCHANGED authIds
           \/ authIds' = authIds \cup {Entry(r, AuthIdOf(r), AuthExpiry(r))}
  /\ UNCHANGED <<storeVars, delegationIds>>

----------------------------------------------------------------------------
(***************************************************************************)
(* 6. Standard path: commit the next state against the version read.       *)
(***************************************************************************)
\* Mutant: setState ignores the expected version (the last writer wins).
SetState_LastWriterWins(r) ==
  /\ store' = [state |-> NextState(IntentOf[r], req[r].state, req[r].at),
               version |-> store.version + 1]
  /\ lastEval' = req[r].at
  /\ admitted' = Append(admitted, [intent |-> IntentOf[r], at |-> req[r].at])
  /\ committed' = committed \cup {r}

SetState(r) ==
  /\ store.version = req[r].version
  /\ store' = [state |-> NextState(IntentOf[r], req[r].state, req[r].at),
               version |-> store.version + 1]
  /\ lastEval' = req[r].at
  /\ admitted' = Append(admitted, [intent |-> IntentOf[r], at |-> req[r].at])
  /\ committed' = committed \cup {r}

CommitState(r) ==
  /\ pc[r] = "commit"
  /\ SetState(r)
  /\ Mark(r, {"stateCommitted"})
  /\ Goto(r, "gate")
  /\ UNCHANGED <<envVars, replayVars, auditVars, req, started>>

\* Mutant: stateCommitted is set before setState is awaited.
CommitStateFails_MarkedEarly(r) ==
  /\ pc[r] = "commit"
  /\ store.version # req[r].version
  /\ RejectAfter(r, "STATE_COMMIT", "CAS_CONFLICT", Fresh, [life[r] EXCEPT !.stateCommitted = TRUE])
  /\ UNCHANGED <<storeVars, replayVars>>

\* The store refuses the version, or throws with the write done or not.
CommitStateFails(r) ==
  /\ pc[r] = "commit"
  /\ \/ /\ store.version # req[r].version
        /\ reject(r, "STATE_COMMIT", "CAS_CONFLICT")
        /\ UNCHANGED storeVars
     \/ /\ "setState" \in Faults
        /\ \E thrown \in Thrown : RejectWith(r, "STATE_COMMIT", "UNCLASSIFIED", thrown)
        /\ SetState(r) \/ UNCHANGED storeVars
  /\ UNCHANGED replayVars

----------------------------------------------------------------------------
(***************************************************************************)
(* 7. The beforeExecute hook, the protected callback, the decision record. *)
(***************************************************************************)
EnterCallback(r) ==
  /\ pc[r] = "gate"
  /\ started' = started \cup {r}
  /\ Goto(r, "executing")
  /\ UNCHANGED <<envVars, storeVars, replayVars, auditVars, req, life>>

BeforeExecuteFails(r) ==
  /\ pc[r] = "gate" /\ "beforeExecute" \in Faults
  /\ \E thrown \in Thrown : RejectWith(r, "EXECUTION_GATE", "UNCLASSIFIED", thrown)
  /\ UNCHANGED <<storeVars, replayVars>>

CallbackReturns(r) ==
  /\ pc[r] = "executing"
  /\ fireDecision(r, "ALLOW")
  /\ Goto(r, "returned")
  /\ UNCHANGED <<envVars, storeVars, replayVars, events, emitted, req, life, started>>

CallbackThrows(r) ==
  /\ pc[r] = "executing" /\ "execute" \in Faults
  /\ \E thrown \in Thrown : Remember(r, thrown)
  /\ Goto(r, "failed")
  /\ UNCHANGED <<envVars, storeVars, replayVars, decisions, events, req, life, started>>

----------------------------------------------------------------------------
(***************************************************************************)
(* The environment.                                                        *)
(***************************************************************************)
Tick ==
  /\ now < MaxTime
  /\ now' = now + 1
  /\ UNCHANGED <<revoked, epoch, storeVars, replayVars, auditVars, pc, req, life, started>>

\* The operator writes the kill switch through the same store.
SetKillSwitch(global) ==
  /\ store.version < MaxVersion
  /\ store' = [state |-> [store.state EXCEPT !.kill_global = global],
               version |-> store.version + 1]
  /\ UNCHANGED <<envVars, lastEval, admitted, committed, replayVars, auditVars, pc, req, life,
                 started>>

Revoke(id) ==
  /\ RevocationProvider
  /\ revoked' = revoked \cup {id}
  /\ UNCHANGED <<now, epoch, storeVars, replayVars, auditVars, pc, req, life, started>>

\* An instance dies: its requests go no further, its process-local replay
\* store and EMITTED set are gone with the process.
Crash(n) ==
  /\ epoch[n] < MaxCrashes
  /\ epoch' = [epoch EXCEPT ![n] = @ + 1]
  /\ pc' = [r \in Requests |-> IF InstanceOf[r] = n /\ pc[r] \in InFlight THEN "crashed" ELSE pc[r]]
  /\ UNCHANGED <<now, revoked, storeVars, replayVars, auditVars, req, life, started>>

Begin(r) == LoadState(r) \/ LoadStateFails(r)

Proceed(r) ==
  \/ NormalizeFails(r) \/ EvaluateAllow(r) \/ EvaluateDeny(r) \/ EngineFails(r)
  \/ VerifyAuthorization(r) \/ VerifyAuthorizationFails(r)
  \/ VerifyDelegation(r) \/ VerifyDelegationFails(r)
  \/ CheckRevocation(r) \/ CheckRevocationFails(r) \/ KrlAccepts(r) \/ KrlRejects(r)
  \/ ConsumeDelegation(r) \/ ConsumeDelegationFails(r)
  \/ ConsumeAuthorization(r) \/ ConsumeAuthorizationFails(r)
  \/ CommitState(r) \/ CommitStateFails(r)
  \/ EnterCallback(r) \/ BeforeExecuteFails(r) \/ CallbackReturns(r) \/ CallbackThrows(r)

Environment ==
  \/ Tick
  \/ \E g \in BOOLEAN : SetKillSwitch(g)
  \/ \E id \in DelegationIds : Revoke(id)
  \/ \E n \in Instances : Crash(n)

Next == (\E r \in Requests : Begin(r) \/ Proceed(r)) \/ Environment

(***************************************************************************)
(* A request that has begun goes on: the event loop runs its continuations *)
(* and the callbacks it awaits settle.  The guard sets no timeout of its   *)
(* own on them.                                                            *)
(***************************************************************************)
Spec == Init /\ [][Next]_vars /\ \A r \in Requests : WF_vars(Proceed(r))

----------------------------------------------------------------------------
Stages == {"STATE_LOAD", "NORMALIZATION", "PROVENANCE", "DELEGATION", "POLICY_EVALUATION",
           "AUTHORIZATION_VERIFICATION", "REPLAY", "STATE_COMMIT", "EXECUTION_GATE"}

ReplayEntry(Id) == [domain : Domains, id : Id, until : Time]

TypeOK ==
  /\ now \in Time
  /\ store \in [state : State, version : Nat]
  /\ authIds \subseteq ReplayEntry(AuthId)
  /\ delegationIds \subseteq ReplayEntry(DelegationIds)
  /\ revoked \subseteq DelegationIds
  /\ epoch \in [Instances -> Nat]
  /\ pc \in [Requests -> {"idle"} \cup InFlight \cup Settled]
  /\ req \in [Requests -> Locals]
  /\ life \in [Requests -> Lifecycle]
  /\ started \subseteq Requests
  /\ decisions \in [Requests -> Seq({"ALLOW", "DENY"})]
  /\ DOMAIN events = Requests
  /\ \A r \in Requests : \A k \in DOMAIN events[r] :
        events[r][k].stage \in Stages /\ events[r][k].progress \in Lifecycle
  /\ emitted \subseteq SharedErrors \X (Instances \X Nat)
  /\ lastEval \in Time
  /\ admitted \in Seq([intent : Intent, at : Time])
  /\ committed \subseteq Requests

(***************************************************************************)
(* What was used or revoked does not run.  Within one replay domain an     *)
(* authorization, and with a store that consumes their ids a delegation,   *)
(* backs at most one execution: whichever path presents it, under          *)
(* whichever parent, and however requests, crashes and replay store        *)
(* failures interleave; and a delegation that was revoked before a request *)
(* began does not execute in it (guard.ts, replay consumption on both      *)
(* paths, and the revocation provider).                                    *)
(***************************************************************************)
UsedOrRevokedNeverRuns ==
  /\ \A r, s \in started : (r # s /\ req[r].domain = req[s].domain) =>
       /\ AuthIdOf(r) # AuthIdOf(s)
       /\ (StoresDelegations /\ Delegated(r) /\ Delegated(s)) => DelegationOf[r].id # DelegationOf[s].id
  /\ \A r \in started :
       (Delegated(r) /\ RevocationProvider) => DelegationOf[r].id \notin req[r].revoked_at_start

(***************************************************************************)
(* On the standard path an intent is executed at most once even across     *)
(* instances that share no replay store and across crashes: the CAS commit *)
(* and the nonces kept in the state are enough.                            *)
(***************************************************************************)
NoIntentExecutedTwice ==
  \A r, s \in started :
    (~Delegated(r) /\ ~Delegated(s) /\ IntentOf[r] = IntentOf[s]) => r = s

(***************************************************************************)
(* The two audit streams are disjoint, complete and true: a DENY is one    *)
(* decision record, a completed execution one ALLOW record, a rejection    *)
(* exactly one boundary event, a failed callback neither; and what an      *)
(* event says of the request's progress is what happened to the stores.    *)
(* Only two kinds of event leave it open: a replay store that failed, and  *)
(* a setState that threw (boundaryEvent.ts, stream semantics).             *)
(***************************************************************************)
OutcomesReportedTruthfully ==
  \A r \in Requests :
    /\ pc[r] = "denied" => decisions[r] = <<"DENY">> /\ events[r] = <<>>
    /\ pc[r] = "returned" => decisions[r] = <<"ALLOW">> /\ events[r] = <<>>
    /\ pc[r] = "rejected" => decisions[r] = <<>> /\ Len(events[r]) = 1
    /\ pc[r] = "failed" => decisions[r] = <<>> /\ events[r] = <<>>
    /\ \A k \in DOMAIN events[r] :
         LET event == events[r][k]
             recorded == \E e \in authIds : e.domain = req[r].domain /\ e.id = AuthIdOf(r)
         IN /\ event.progress.authorizationConsumed => recorded
            /\ event.progress.stateCommitted => r \in committed
            /\ (r \in committed /\ ~event.progress.stateCommitted)
                  => (event.stage = "STATE_COMMIT" /\ event.failure = "UNCLASSIFIED")
            /\ r \notin started

(***************************************************************************)
(* Concurrent requests against the compare-and-set store implement the     *)
(* sequential policy engine: every committed state is the engine's next    *)
(* state of the one it replaced, at a time no earlier than the previous    *)
(* evaluation, so every limit the engine keeps holds under concurrency.    *)
(***************************************************************************)
Engine == INSTANCE PolicyEngine WITH
  Intents <- {IntentOf[r] : r \in Requests},
  now <- lastEval, state <- store.state, admitted <- admitted

EngineSpec == Engine!Spec

(***************************************************************************)
(* A request that began settles: it is denied, rejected, returns, fails in *)
(* the callback, or dies with its process.                                 *)
(***************************************************************************)
EveryRequestSettles ==
  \A r \in Requests : pc[r] = "loaded" ~> pc[r] \in Settled

=============================================================================
