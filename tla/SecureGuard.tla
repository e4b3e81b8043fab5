---------------------------- MODULE SecureGuard ----------------------------
(***************************************************************************)
(* The secure guard (packages/guard/src/secureGuard.ts): a guard built     *)
(* once from the deployer's configuration object, which stays in the       *)
(* deployer's hands, and called with a trusted execution context, which    *)
(* the proposer's claims are reconciled with.                              *)
(*                                                                         *)
(* The enforcement body is OxDeAIGuard's (module Guard); what it reads of  *)
(* the configuration and where it awaits is modelled here, its policy      *)
(* decision and its state store are an engine that allows or denies.       *)
(* While a call awaits, the deployer may change its configuration object,  *)
(* replace the methods of the objects it holds or rotate trusted keys; the *)
(* caller may change the delegation it passed; code in the process may put *)
(* properties on a built-in prototype.                                     *)
(*                                                                         *)
(* An optional value is {} or {value}.  principal_id, adapter_id and       *)
(* route_classification are reconciled as tenant_id is and left out.       *)
(*                                                                         *)
(* A thrown value is Fresh (an object no other call throws), Primitive (no *)
(* object), DenyError (an OxDeAIDenyError) or one of SharedErrors: an      *)
(* object that callbacks of several calls may throw.                       *)
(***************************************************************************)
EXTENDS Integers, FiniteSets, Sequences

CONSTANTS
  Guards,          \* secure guard instances
  Requests,        \* calls of a secure guard
  Stores,          \* replay store objects of the deployer
  KindOf,          \* [Stores -> {"external", "no_delegations", "builtin", "broken"}]
  Configs,         \* contents the deployer's configuration object may have
  Assignable,      \* the options the deployer assigns later
  Delegations,     \* delegation inputs; NoDelegation for none
  NoDelegation,
  Calls,           \* [context, action, delegation, auth]: what callers pass, and
                   \* the auth_id the engine would derive
  Keys,            \* public keys
  KeySets,         \* contents trustedKeySets may have
  FirstKeys,       \* its first contents
  Injected,        \* option values a polluted Object.prototype supplies
  Fresh, Primitive, DenyError, SharedErrors,
  Thrown,          \* the values failing callbacks throw
  MaxChanges       \* bound on changes, faults and pollutions

Optional(S) == {{}} \cup {{x} : x \in S}

\* An option holds one store, posture or provider, or none.
ConfigShape(c) ==
  /\ {"provider", "replayStore", "replayProtection"} \subseteq DOMAIN c
  /\ c.provider \in Optional({"provider"}) /\ c.replayStore \in Optional(Stores)
  /\ \A p \in c.replayProtection : p.store \in Optional(Stores)
  /\ \A p1, p2 \in c.replayProtection : p1 = p2

ASSUME SecureGuardConfig ==
  /\ KindOf \in [Stores -> {"external", "no_delegations", "builtin", "broken"}]
  /\ \A c \in Configs : ConfigShape(c)
  /\ KeySets \subseteq SUBSET Keys /\ FirstKeys \in KeySets
  /\ NoDelegation \in Delegations
  /\ Fresh # Primitive /\ Fresh # DenyError /\ Primitive # DenyError
  /\ {Fresh, Primitive, DenyError} \cap SharedErrors = {}
  /\ Thrown \subseteq {Fresh, Primitive, DenyError} \cup SharedErrors
  /\ MaxChanges \in Nat

VARIABLES
  config,      \* the deployer's configuration object
  methods,     \* "genuine" or "replaced", by object: each store, "provider"
  trustedKeys, \* contents of the trustedKeySets array
  revoked,     \* delegations the provider knows to be revoked
  prototype,   \* which names a built-in prototype carries: "option", "then"
  template,    \* the frozen template of each guard: {} or {record}
  built,       \* history: what each guard was built from
  consumed,    \* identifiers in each replay store
  pc, req,     \* each request: where it is, its locals
  passed,      \* the delegation object the caller passed, which it still holds
  events, decisions, \* records given to the two audit hooks, by request
  emitted,     \* the process's EMITTED set, for the shared error objects
  thrown,      \* history: what each call rejected with, {} or {value}
  changes      \* changes, faults and pollutions so far

world == <<config, methods, trustedKeys, revoked, prototype, changes>>
boundary == <<events, emitted, thrown>>
audit == <<boundary, decisions>>
vars == <<world, template, built, consumed, pc, req, passed, audit>>

Undefined == "undefined"

----------------------------------------------------------------------------
(* trustedContext.ts *)

Fields == {"agent_id", "tool", "depth", "tenant_id"}

\* Identity fields are non-empty when present; agentId and depth are required.
\* depth "-1" stands for anything but a non-negative safe integer.
ValidContext(input) ==
  /\ \A f \in Fields : input[f] # ""
  /\ input.agent_id # Undefined
  /\ input.depth \notin {Undefined, "-1"}

createTrustedExecutionContext(input) == IF ValidContext(input) THEN {input} ELSE {}

isTrustedExecutionContext(ctx) == ctx.branded

----------------------------------------------------------------------------
(* secureConfig.ts: one read of every option at construction *)

\* One [[Get]]: own, inherited and accessor values alike; an option the
\* object lacks is taken from a polluted prototype.
read(c, option) ==
  IF c[option] = {} /\ "option" \in prototype THEN Injected[option] ELSE c[option]

assertIntrinsicsUnpolluted(names) == "option" \notin names

\* The options read; principal hooks that no check here reads are "callable".
CONFIG_FIELDS ==
  {"engine", "getState", "setState", "callable", "expectedAudience", "trustedKeySets",
   "authorities", "signers", "provider", "required", "revocation", "replayStore",
   "replayProtection", "strict"}

\* Methods are read once and bound to their object.
captureReplayStore(s) == [store |-> s, method |-> methods[s]]

isCapturedEphemeralReplayStore(captured) == KindOf[captured.store] = "builtin"

captureReplayProtection(value) ==
  {[mode |-> v.mode, store |-> {captureReplayStore(s) : s \in v.store}] : v \in value}

\* Reading may run a getter that throws, or one that pollutes a prototype.
captureSucceeds(c) ==
  /\ assertIntrinsicsUnpolluted(prototype)
  /\ c.unreadable \cap CONFIG_FIELDS = {}
  /\ assertIntrinsicsUnpolluted(prototype \cup c.pollutes)

captureSecureGuardConfig(c) ==
  [ tenancy |-> c.tenancy, mapActionToIntent |-> c.mapActionToIntent,
    onBoundaryEvent |-> c.onBoundaryEvent,
    replayProtection |-> captureReplayProtection(read(c, "replayProtection")),
    replayStore |-> {captureReplayStore(s) : s \in read(c, "replayStore")},
    strict |-> c.strict, malformed |-> c.malformed,
    signers |-> read(c, "signers"),
    authorities |-> read(c, "authorities"),
    check |-> {methods[p] : p \in read(c, "provider")},
    required |-> c.required,
    revocation |-> read(c, "revocation") ]

----------------------------------------------------------------------------
(* replayProtection.ts and the resolvers of guard.ts *)

ProcessLocal(g) == [store |-> g, method |-> "genuine"]

(* An empty result is an OxDeAIGuardConfigurationError.  An option of the  *)
(* wrong type is in raw.malformed and is never taken for an absent one.    *)

validateConfig(raw) ==
  raw.malformed \cap {"engine", "getState", "setState", "expectedAudience"} = {}

strictFromConfig(raw) == IF "strict" \in raw.malformed THEN {} ELSE {raw.strict}

resolveDelegationSigners(raw) == IF "signers" \in raw.malformed THEN {} ELSE {raw.signers}

resolveDelegationRevocation(raw) ==
  IF raw.malformed \cap {"provider", "required"} # {} THEN {}
  ELSE {[check |-> raw.check, required |-> raw.required]}

resolvePosture(p, g) ==
  IF p.mode = "process-local" THEN IF p.store = {} THEN {ProcessLocal(g)} ELSE {}
  ELSE IF p.mode = "shared"
  THEN {s \in p.store : KindOf[s.store] # "broken" /\ ~isCapturedEphemeralReplayStore(s)}
  ELSE {}

resolveReplayProtection(raw, strict, g) ==
  IF raw.replayProtection # {} /\ raw.replayStore # {} THEN {}
  ELSE IF raw.replayProtection # {} THEN UNION {resolvePosture(p, g) : p \in raw.replayProtection}
  ELSE IF raw.replayStore # {} THEN raw.replayStore
  ELSE IF strict THEN {} ELSE {ProcessLocal(g)}

\* "alias": a key registered under two identities, or an identity with two keys.
validatedTrustSnapshot(keys, krlKeys) == keys \cap krlKeys = {} /\ "alias" \notin keys

validatedTrust(revocation) == \A krlKeys \in revocation : validatedTrustSnapshot(trustedKeys, krlKeys)

resolveRevocationConfig(revocation) ==
  /\ \A krlKeys \in revocation : krlKeys # {}
  /\ validatedTrust(revocation)

\* What OxDeAIGuard checks of the options that stay live when it is built.
OxDeAIGuardAccepts(revocation) == trustedKeys # {} /\ resolveRevocationConfig(revocation)

Constructs(c, raw) ==
  /\ c.tenancy \in {"single-tenant", "multi-tenant"}
  /\ captureSucceeds(c)
  /\ validateConfig(raw)
  /\ OxDeAIGuardAccepts(raw.revocation)

createSecureGuard(c, g) ==
  LET raw == captureSecureGuardConfig(c)
      stores == UNION {resolveReplayProtection(raw, strict, g) : strict \in strictFromConfig(raw)}
  IN IF ~Constructs(c, raw) THEN {}
     ELSE {[ tenancy |-> raw.tenancy, mapActionToIntent |-> raw.mapActionToIntent,
             onBoundaryEvent |-> raw.onBoundaryEvent, replayStore |-> store,
             signers |-> signers, authorities |-> raw.authorities,
             check |-> r.check, required |-> r.required, revocation |-> raw.revocation ] :
            store \in stores, signers \in resolveDelegationSigners(raw),
            r \in resolveDelegationRevocation(raw)}

----------------------------------------------------------------------------
(* normalizeAction.ts and provenance.ts *)

\* The agent_id given to the normalizer when the proposer claims none.
Synthesized(action) == {f \in {"agent_id"} : action.claims[f] = Undefined}

ForNormalization(action, ctx) ==
  IF Synthesized(action) = {} THEN action.claims.agent_id ELSE ctx.agent_id

defaultNormalizeAction(action, agent) ==
  IF action.wellFormed /\ agent # ""
  THEN {[agent_id |-> agent, tool |-> Undefined, depth |-> Undefined]}
  ELSE {}

\* Custom normalizers: one sets the tool of its route, one puts in an agent of
\* its own, one leaves the agent out, one throws.
mapActionToIntent(kind, action, agent) ==
  IF kind = "default" THEN defaultNormalizeAction(action, agent)
  ELSE IF kind = "routes" THEN {[agent_id |-> agent, tool |-> "pay", depth |-> Undefined]}
  ELSE IF kind = "substitutes" THEN {[agent_id |-> "alice", tool |-> Undefined, depth |-> Undefined]}
  ELSE IF kind = "omits" THEN {[agent_id |-> Undefined, tool |-> Undefined, depth |-> Undefined]}
  ELSE {}

ClaimsOf(f, intent, action) ==
  ({action.claims[f]} \cup {intent[g] : g \in DOMAIN intent \cap {f}}) \ {Undefined}

Provenance(f, intent, ctx, action) ==
  LET claims == ClaimsOf(f, intent, action)
  IN IF claims = {} THEN "absent"
     ELSE IF ctx[f] = Undefined THEN "unverified"
     ELSE IF claims # {ctx[f]} THEN "conflict"
     ELSE IF f \in Synthesized(action) THEN "absent" ELSE "matched"

\* Premises applied; the caller throws when the record has a conflict.
reconcileWithTrustedContext(intent, ctx, action) ==
  [ intent |-> [f \in DOMAIN intent |-> IF ctx[f] # Undefined THEN ctx[f] ELSE intent[f]],
    provenance |-> [f \in Fields |-> Provenance(f, intent, ctx, action)] ]

Conflicts(provenance) == {f \in Fields : provenance[f] = "conflict"}

----------------------------------------------------------------------------
(* boundaryEvent.ts: what the two nested catches report of one thrown value *)

\* EMITTED is a weak set: a value that is no object cannot be in it.
MarkEmitted(log, err) == [log EXCEPT !.emitted = @ \cup ({err} \ {Primitive})]

emitBoundaryEvent(hook, err, executionStarted, sharedBodyEntered, event, log) ==
  IF ~hook \/ err = DenyError THEN log
  ELSE IF executionStarted THEN MarkEmitted(log, err)
  ELSE IF sharedBodyEntered \/ err \in log.emitted THEN log
  ELSE MarkEmitted([log EXCEPT !.events = Append(@, event)], err)

EnteredBody(layer) == layer = "body"

(***************************************************************************)
(* A thrown value leaves through the body's catch, if the body was         *)
(* entered, and then through the secure guard's.  EMITTED outlives the     *)
(* call; a Fresh object is no other call's, and is dropped from it.        *)
(***************************************************************************)
ThrowAs(r, g, layer, err, event, outcome) ==
  LET hook == \E t \in template[g] : t.onBoundaryEvent
      before == [events |-> events[r], emitted |-> emitted]
      inner == IF layer = "body"
               THEN emitBoundaryEvent(hook, err, outcome = "failed", FALSE, event, before)
               ELSE before
      outer == emitBoundaryEvent(hook, err, FALSE, EnteredBody(layer), event, inner)
  IN /\ events' = [events EXCEPT ![r] = outer.events]
     /\ emitted' = outer.emitted \ {Fresh}
     /\ thrown' = [thrown EXCEPT ![r] = {err}]
     /\ pc' = [pc EXCEPT ![r] = outcome]

reject(r, g, stage, failure) ==
  ThrowAs(r, g, "body", Fresh, <<stage, failure>>, "rejected") /\ UNCHANGED decisions

fireDecision(r, decision) ==
  decisions' = [decisions EXCEPT ![r] = Append(@, <<decision, req[r].provenance>>)]

----------------------------------------------------------------------------
Idle ==
  [ guard |-> "none", auth |-> "none", delegated |-> FALSE, snapshot |-> NoDelegation,
    ctx |-> [f \in Fields \cup {"branded"} |-> IF f = "branded" THEN FALSE ELSE Undefined],
    action |-> [wellFormed |-> FALSE, claims |-> [f \in Fields |-> Undefined]],
    evaluated |-> FALSE, provenance |-> [f \in Fields |-> Undefined],
    intent |-> [agent_id |-> Undefined, tool |-> Undefined, depth |-> Undefined],
    genuine |-> TRUE, active |-> TRUE ]

Init ==
  /\ config \in Configs
  /\ methods = [o \in Stores \cup {"provider"} |-> "genuine"]
  /\ trustedKeys = FirstKeys
  /\ revoked = {} /\ prototype = {} /\ changes = 0
  /\ template = [g \in Guards |-> {}]
  /\ built = [g \in Guards |-> {}]
  /\ consumed = [s \in Stores \cup Guards |-> {}]
  /\ pc = [r \in Requests |-> "idle"]
  /\ req = [r \in Requests |-> Idle]
  /\ passed = [r \in Requests |-> NoDelegation]
  /\ events = [r \in Requests |-> <<>>]
  /\ decisions = [r \in Requests |-> <<>>]
  /\ emitted = {}
  /\ thrown = [r \in Requests |-> {}]

----------------------------------------------------------------------------
(* The deployer, the caller and the process around the guard *)

Change == changes < MaxChanges /\ changes' = changes + 1
InsideOnly == UNCHANGED <<template, built, consumed, pc, req, audit>>

\* The deployer assigns one option of its configuration object.
ChangeOption ==
  /\ Change
  /\ \E c \in Configs, option \in Assignable :
       /\ c[option] # config[option]
       /\ config' = [config EXCEPT ![option] = c[option]]
  /\ InsideOnly /\ UNCHANGED <<methods, trustedKeys, revoked, prototype, passed>>

ReplaceMethod ==
  /\ Change
  /\ \E o \in DOMAIN methods :
       /\ methods[o] = "genuine"
       /\ methods' = [methods EXCEPT ![o] = "replaced"]
  /\ InsideOnly /\ UNCHANGED <<config, trustedKeys, revoked, prototype, passed>>

RotateKeys ==
  /\ Change
  /\ trustedKeys' \in KeySets \ {trustedKeys}
  /\ InsideOnly /\ UNCHANGED <<config, methods, revoked, prototype, passed>>

Revoke ==
  /\ Change
  /\ \E d \in Delegations \ {NoDelegation} :
       d.id \notin revoked /\ revoked' = revoked \cup {d.id}
  /\ InsideOnly /\ UNCHANGED <<config, methods, trustedKeys, prototype, passed>>

Pollute ==
  /\ Change
  /\ \E name \in {"option", "then"} :
       name \notin prototype /\ prototype' = prototype \cup {name}
  /\ InsideOnly /\ UNCHANGED <<config, methods, trustedKeys, revoked, passed>>

\* The caller changes the delegation object it passed.
ChangeDelegation(r) ==
  /\ Change
  /\ pc[r] \in {"loading", "checking", "consume_delegation", "consume_auth"}
  /\ passed[r] # NoDelegation
  /\ \E d \in Delegations \ {NoDelegation, passed[r]} : passed' = [passed EXCEPT ![r] = d]
  /\ InsideOnly /\ UNCHANGED <<config, methods, trustedKeys, revoked, prototype>>

----------------------------------------------------------------------------
Construct(g) ==
  /\ built[g] = {}
  /\ template' = [template EXCEPT ![g] = createSecureGuard(config, g)]
  /\ built' = [built EXCEPT ![g] = {[config |-> config, methods |-> methods]}]
  /\ prototype' = prototype \cup config.pollutes
  /\ UNCHANGED <<config, methods, trustedKeys, revoked, changes, consumed, pc, req, passed, audit>>

T(r) == CHOOSE t \in template[req[r].guard] : TRUE

\* The answer of a callback counts only if no prototype carried a `then`
\* before the call, after it, and once it has settled.
settleCallback == "then" \notin prototype

SecurePreludeFailure(t, ctx) ==
  IF ~isTrustedExecutionContext(ctx) THEN {"UNTRUSTED_CONTEXT"}
  ELSE IF t.tenancy = "multi-tenant" /\ ctx.tenant_id = Undefined THEN {"MISSING_TENANT_ID"}
  ELSE IF ~OxDeAIGuardAccepts(t.revocation) THEN {"UNCLASSIFIED"}
  ELSE {}

\* What a route hands over: a context it built, or a plain object.
HandedOver(input) == IF input.branded THEN createTrustedExecutionContext(input) ELSE {input}

\* runSecure up to the first await of the shared body.
runSecure(r) ==
  /\ pc[r] = "idle"
  /\ \E g \in Guards, call \in Calls :
     \E t \in template[g], ctx \in HandedOver(call.context) :
       /\ req' = [req EXCEPT ![r] = [Idle EXCEPT !.guard = g, !.ctx = ctx, !.action = call.action,
                                                 !.auth = call.auth,
                                                 !.delegated = call.delegation # NoDelegation]]
       /\ passed' = [passed EXCEPT ![r] = call.delegation]
       /\ UNCHANGED decisions
       /\ LET failure == SecurePreludeFailure(t, ctx)
          IN \/ \E f \in failure :
                  ThrowAs(r, g, "prelude", Fresh, <<"TRUSTED_CONTEXT", f>>, "rejected")
             \/ /\ failure = {} /\ ~settleCallback
                /\ ThrowAs(r, g, "body", Fresh, <<"STATE_LOAD", "UNCLASSIFIED">>, "rejected")
             \/ /\ failure = {} /\ settleCallback
                /\ pc' = [pc EXCEPT ![r] = "loading"] /\ UNCHANGED boundary
  /\ UNCHANGED <<world, template, built, consumed>>

\* getState rejects, with any value, or its answer cannot be trusted.
LoadFails(r) ==
  /\ pc[r] = "loading"
  /\ \/ Change /\ \E err \in Thrown : ThrowAs(r, req[r].guard, "body", err, <<"STATE_LOAD", "UNCLASSIFIED">>, "rejected")
     \/ /\ ~settleCallback /\ UNCHANGED changes
        /\ ThrowAs(r, req[r].guard, "body", Fresh, <<"STATE_LOAD", "UNCLASSIFIED">>, "rejected")
  /\ UNCHANGED <<config, methods, trustedKeys, revoked, prototype, template, built, consumed,
                 req, passed, decisions>>

Normalized(r) ==
  mapActionToIntent(T(r).mapActionToIntent, req[r].action, ForNormalization(req[r].action, req[r].ctx))

\* Mutant: one provenance variable for all calls of a guard.
Recorded_PerGuard(r, result) ==
  [q \in Requests |->
     IF q = r
     THEN [req[r] EXCEPT !.evaluated = TRUE, !.intent = result.intent, !.provenance = result.provenance]
     ELSE IF pc[q] # "idle" /\ req[q].guard = req[r].guard
     THEN [req[q] EXCEPT !.provenance = result.provenance]
     ELSE req[q]]

Recorded(r, result) ==
  [req EXCEPT ![r].evaluated = TRUE, ![r].intent = result.intent, ![r].provenance = result.provenance]

\* A custom normalizer's OxDeAINormalizationError is rethrown, anything else
\* it throws is put in a new one.
NormalizationErrors(r) ==
  {Fresh} \cup IF T(r).mapActionToIntent = "throws" THEN Thrown \cap SharedErrors ELSE {}

NormalizeFails(r) ==
  /\ pc[r] = "loading" /\ settleCallback
  /\ \/ /\ Normalized(r) = {} /\ UNCHANGED decisions
        /\ \E err \in NormalizationErrors(r) :
             ThrowAs(r, req[r].guard, "body", err, <<"NORMALIZATION", "NORMALIZATION_FAILURE">>, "rejected")
     \/ \E intent \in Normalized(r) :
          LET result == reconcileWithTrustedContext(intent, req[r].ctx, req[r].action)
          IN /\ Conflicts(result.provenance) # {}
             /\ ThrowAs(r, req[r].guard, "body", Fresh,
                        <<"PROVENANCE", "PROVENANCE_CONFLICT", result.provenance>>, "rejected")
             /\ UNCHANGED decisions
  /\ UNCHANGED <<world, template, built, consumed, req, passed>>

\* The request's intent and its record, when reconciliation found no conflict.
Reconciled(r) ==
  {result \in {reconcileWithTrustedContext(intent, req[r].ctx, req[r].action) : intent \in Normalized(r)} :
     Conflicts(result.provenance) = {}}

----------------------------------------------------------------------------
(* The standard path: evaluate, then verify the authorization minted *)

EvaluateDeny(r) ==
  /\ pc[r] = "loading" /\ settleCallback /\ ~req[r].delegated
  /\ \E result \in Reconciled(r) :
       /\ req' = Recorded(r, result)
       /\ decisions' = [decisions EXCEPT ![r] = Append(@, <<"DENY", result.provenance>>)]
       /\ ThrowAs(r, req[r].guard, "body", DenyError, <<>>, "denied")
  /\ UNCHANGED <<world, template, built, consumed, passed>>

EngineKey == NoDelegation.key

EvaluateAllow(r) ==
  /\ pc[r] = "loading" /\ settleCallback /\ ~req[r].delegated
  /\ \E result \in Reconciled(r) :
       req' = [Recorded(r, result) EXCEPT ![r].genuine = @ /\ "then" \notin prototype]
  /\ UNCHANGED decisions
  /\ IF validatedTrust(T(r).revocation) /\ EngineKey \in trustedKeys
     THEN pc' = [pc EXCEPT ![r] = "consume_auth"] /\ UNCHANGED boundary
     ELSE reject(r, req[r].guard, "AUTHORIZATION_VERIFICATION", "AUTHORIZATION_VERIFICATION_FAILED")
  /\ UNCHANGED <<world, template, built, consumed, passed>>

----------------------------------------------------------------------------
(* The delegation path: one snapshot of the caller's object, then checks *)

\* Proxies, accessors, cycles and other exotic objects are not plain data.
snapshotPlainData(d) == IF d.shape \in {"plain", "bad_scope"} THEN {d} ELSE {}
isValidDelegationScope(d) == d.shape # "bad_scope"

\* Mutant: a signer list is re-read from the deployer's object.
TrustedSigners_Live(r) == config.signers

TrustedSigners(r) == T(r).signers

\* The normalizer that leaves the agent out leaves the amount out as well.
HasAmount(r) == T(r).mapActionToIntent # "omits"

DelegationFailure(r, intent) ==
  LET d == passed[r]
  IN IF ~HasAmount(r) THEN {<<"NORMALIZATION", "NORMALIZATION_FAILURE">>}
     ELSE IF snapshotPlainData(d) = {} THEN {<<"DELEGATION", "DELEGATION_INPUT_INVALID">>}
     ELSE IF T(r).authorities = {} THEN {<<"DELEGATION", "AUTHORIZATION_AUTHORITY_DENIED">>}
     ELSE IF ~isValidDelegationScope(d) THEN {<<"DELEGATION", "DELEGATION_INPUT_INVALID">>}
     ELSE IF ~validatedTrust(T(r).revocation) \/ d.key \notin trustedKeys
     THEN {<<"AUTHORIZATION_VERIFICATION", "AUTHORIZATION_VERIFICATION_FAILED">>}
     ELSE IF \E allowed \in T(r).authorities : d.issuer \notin allowed
     THEN {<<"AUTHORIZATION_VERIFICATION", "AUTHORIZATION_AUTHORITY_DENIED">>}
     ELSE IF \/ d.delegatee # intent.agent_id
             \/ \E allowed \in TrustedSigners(r) : d.signer \notin allowed
     THEN {<<"DELEGATION", "DELEGATION_VERIFICATION_FAILED">>}
     ELSE IF T(r).check = {} /\ T(r).required
     THEN {<<"DELEGATION", "DELEGATION_REVOCATION_UNAVAILABLE">>}
     ELSE {}

\* With signed revocation lists configured, the keys used are looked up in them.
AfterProvider(r) == IF T(r).revocation = {} THEN "consume_delegation" ELSE "confirming"

VerifyDelegation(r) ==
  /\ pc[r] = "loading" /\ settleCallback /\ req[r].delegated
  /\ \E result \in Reconciled(r) :
       LET failure == DelegationFailure(r, result.intent)
       IN /\ req' = [Recorded(r, result) EXCEPT
                       ![r].snapshot = passed[r], ![r].auth = passed[r].auth,
                       ![r].genuine = @ /\ "then" \notin prototype]
          /\ UNCHANGED decisions
          /\ \/ \E f \in failure : reject(r, req[r].guard, f[1], f[2])
             \/ /\ failure = {}
                /\ pc' = [pc EXCEPT ![r] = IF T(r).check = {} THEN AfterProvider(r) ELSE "checking"]
                /\ UNCHANGED boundary
  /\ UNCHANGED <<world, template, built, consumed, passed>>

\* Trust is read again once the provider has answered.
ParentKeyConfirmed(r) ==
  T(r).revocation # {} => validatedTrust(T(r).revocation) /\ req[r].snapshot.key \in trustedKeys

SaysActive(r) == T(r).check = {"genuine"} => req[r].snapshot.id \notin revoked

\* The provider's answer: only an explicit ACTIVE lets the request on.
CheckRevocation(r) ==
  LET revokedNow == req[r].snapshot.id \in revoked
  IN /\ pc[r] = "checking" /\ settleCallback
     /\ SaysActive(r) /\ ParentKeyConfirmed(r)
     /\ req' = [req EXCEPT ![r].active = ~revokedNow, ![r].genuine = @ /\ "then" \notin prototype]
     /\ pc' = [pc EXCEPT ![r] = AfterProvider(r)]
     /\ UNCHANGED <<world, template, built, consumed, passed, audit>>

CheckRevocationFails(r) ==
  /\ pc[r] = "checking"
  /\ \/ /\ ~settleCallback /\ UNCHANGED changes
        /\ reject(r, req[r].guard, "DELEGATION", "DELEGATION_REVOCATION_UNAVAILABLE")
     \/ /\ settleCallback /\ Change
        /\ reject(r, req[r].guard, "DELEGATION", "DELEGATION_REVOCATION_UNAVAILABLE")
     \/ /\ settleCallback /\ UNCHANGED changes
        /\ ~SaysActive(r)
        /\ reject(r, req[r].guard, "DELEGATION", "DELEGATION_REVOKED")
     \/ /\ settleCallback /\ UNCHANGED changes
        /\ SaysActive(r) /\ ~ParentKeyConfirmed(r)
        /\ reject(r, req[r].guard, "DELEGATION", "AUTHORIZATION_VERIFICATION_FAILED")
  /\ UNCHANGED <<config, methods, trustedKeys, revoked, prototype, template, built, consumed, req, passed>>

\* The lists revoke neither key, or they do, or they cannot be had or trusted;
\* how they are judged is module Revocation.
ConfirmKeys(r) ==
  /\ pc[r] = "confirming"
  /\ \/ /\ settleCallback
        /\ pc' = [pc EXCEPT ![r] = "consume_delegation"] /\ UNCHANGED <<audit, changes>>
     \/ /\ settleCallback /\ Change
        /\ \E failure \in {"AUTHORIZATION_VERIFICATION_FAILED", "DELEGATION_VERIFICATION_FAILED",
                           "REVOCATION_STATE_UNAVAILABLE", "REVOCATION_STATE_INVALID"} :
             reject(r, req[r].guard, "DELEGATION", failure)
     \/ /\ ~settleCallback /\ UNCHANGED changes
        /\ reject(r, req[r].guard, "DELEGATION", "REVOCATION_STATE_UNAVAILABLE")
  /\ UNCHANGED <<config, methods, trustedKeys, revoked, prototype, template, built, consumed, req, passed>>

----------------------------------------------------------------------------
(* Replay consumption and execution *)

HasDelegationIds(s) == s \in Guards \/ KindOf[s] \in {"external", "builtin"}

Callable == Guards \cup {s \in Stores : KindOf[s] # "broken"}

\* Mutant: a store is resolved for every call.
ReplayStoreOf_PerCall(r) == [store |-> T(r).replayStore.store, method |-> "replaced"]

ReplayStoreOf(r) == T(r).replayStore

\* A check-and-set in the store; a replaced method says yes and keeps nothing.
Spend(r, kind, id, next) ==
  LET c == ReplayStoreOf(r)
  IN /\ c.store \in Callable
     /\ c.method = "genuine" => <<kind, id>> \notin consumed[c.store]
     /\ consumed' = IF c.method = "genuine"
                    THEN [consumed EXCEPT ![c.store] = @ \cup {<<kind, id>>}]
                    ELSE consumed
     /\ pc' = [pc EXCEPT ![r] = next]
     /\ UNCHANGED <<world, template, built, req, passed, audit>>

\* Already there; or no answer, or one that is not a boolean, the identifier
\* recorded or not.
SpendFails(r, kind, id) ==
  LET c == ReplayStoreOf(r)
      usable == c.store \in Callable
  IN /\ \/ /\ usable /\ c.method = "genuine" /\ <<kind, id>> \in consumed[c.store]
           /\ reject(r, req[r].guard, "REPLAY",
                     IF kind = "auth" THEN "AUTHORIZATION_REPLAY" ELSE "DELEGATION_REPLAY")
           /\ UNCHANGED <<consumed, changes>>
        \/ /\ usable /\ c.store \in Stores /\ Change
           /\ reject(r, req[r].guard, "REPLAY", "REPLAY_STORE_UNAVAILABLE")
           /\ consumed' \in {consumed, [consumed EXCEPT ![c.store] = @ \cup {<<kind, id>>}]}
     /\ UNCHANGED <<config, methods, trustedKeys, revoked, prototype, template, built, req, passed>>

SpentDelegation(r) == req[r].snapshot.id

ConsumeDelegationId(r) ==
  /\ pc[r] = "consume_delegation"
  /\ IF HasDelegationIds(T(r).replayStore.store)
     THEN \/ Spend(r, "delegation", SpentDelegation(r), "consume_auth")
          \/ SpendFails(r, "delegation", SpentDelegation(r))
     ELSE /\ pc' = [pc EXCEPT ![r] = "consume_auth"]
          /\ UNCHANGED <<world, template, built, consumed, req, passed, audit>>

ConsumeAuthId(r) ==
  /\ pc[r] = "consume_auth"
  /\ \/ Spend(r, "auth", req[r].auth, IF req[r].delegated THEN "gate" ELSE "commit")
     \/ SpendFails(r, "auth", req[r].auth)
     \/ /\ ReplayStoreOf(r).store \notin Callable
        /\ reject(r, req[r].guard, "REPLAY", "REPLAY_STORE_UNAVAILABLE")
        /\ UNCHANGED <<world, template, built, consumed, req, passed>>

\* The compare-and-set on the state: it succeeds, another writer was first, or
\* setState throws.
Commit(r) ==
  /\ pc[r] = "commit"
  /\ \/ pc' = [pc EXCEPT ![r] = "gate"] /\ UNCHANGED <<audit, changes>>
     \/ Change /\ reject(r, req[r].guard, "STATE_COMMIT", "CAS_CONFLICT")
     \/ /\ Change /\ UNCHANGED decisions
        /\ \E err \in Thrown :
             ThrowAs(r, req[r].guard, "body", err, <<"STATE_COMMIT", "UNCLASSIFIED">>, "rejected")
  /\ UNCHANGED <<config, methods, trustedKeys, revoked, prototype, template, built, consumed, req, passed>>

\* The beforeExecute hook returns, or throws; then execute() is entered.
Gate(r) ==
  /\ pc[r] = "gate"
  /\ \/ pc' = [pc EXCEPT ![r] = "executing"] /\ UNCHANGED <<audit, changes>>
     \/ /\ Change /\ UNCHANGED decisions
        /\ \E err \in Thrown :
             ThrowAs(r, req[r].guard, "body", err, <<"EXECUTION_GATE", "UNCLASSIFIED">>, "rejected")
  /\ UNCHANGED <<config, methods, trustedKeys, revoked, prototype, template, built, consumed, req, passed>>

ExecuteReturns(r) ==
  /\ pc[r] = "executing"
  /\ pc' = [pc EXCEPT ![r] = "returned"]
  /\ fireDecision(r, "ALLOW")
  /\ UNCHANGED <<world, template, built, consumed, req, passed, boundary>>

ExecuteFails(r) ==
  /\ pc[r] = "executing"
  /\ \E err \in Thrown : ThrowAs(r, req[r].guard, "body", err, <<>>, "failed")
  /\ UNCHANGED <<world, template, built, consumed, req, passed, decisions>>

Next ==
  \/ ChangeOption \/ ReplaceMethod \/ RotateKeys \/ Revoke \/ Pollute
  \/ \E g \in Guards : Construct(g)
  \/ \E r \in Requests :
       \/ ChangeDelegation(r)
       \/ runSecure(r) \/ LoadFails(r) \/ NormalizeFails(r) \/ EvaluateDeny(r) \/ EvaluateAllow(r)
       \/ VerifyDelegation(r) \/ CheckRevocation(r) \/ CheckRevocationFails(r) \/ ConfirmKeys(r)
       \/ ConsumeDelegationId(r) \/ ConsumeAuthId(r) \/ Commit(r) \/ Gate(r)
       \/ ExecuteReturns(r) \/ ExecuteFails(r)

Spec == Init /\ [][Next]_vars

----------------------------------------------------------------------------
Executed == {r \in Requests : pc[r] \in {"executing", "returned", "failed"}}
Evaluated == {r \in Requests : req[r].evaluated}
BuiltFrom(r) == CHOOSE b \in built[req[r].guard] : TRUE

(***************************************************************************)
(* No action is executed that the configuration its guard was built from   *)
(* would have stopped, whatever the deployer's object, the methods of its  *)
(* objects, a prototype or the caller's delegation became afterwards, while*)
(* what is live by design (revocations, trusted keys) is honoured: signer  *)
(* and parent authority, the revocation provider (when its check was       *)
(* genuine at construction), the separation of revocation-list keys, the   *)
(* tenancy posture, and no answer a polluted `then` may have replaced.     *)
(***************************************************************************)
EnforcedAsConstructed ==
  \A r \in Executed :
    LET b == BuiltFrom(r) c == b.config
    IN /\ req[r].genuine
       /\ c.tenancy = "multi-tenant" => req[r].ctx.tenant_id # Undefined
       /\ req[r].delegated =>
            /\ \E allowed \in c.authorities : req[r].snapshot.issuer \in allowed
            /\ \A allowed \in c.signers : req[r].snapshot.signer \in allowed
            /\ c.provider # {} /\ b.methods["provider"] = "genuine" => req[r].active
            /\ c.required => c.provider # {}
       /\ \A krlKeys \in c.revocation :
            (IF req[r].delegated THEN req[r].snapshot.key ELSE EngineKey) \notin krlKeys

\* The replay domain a deployer asked for: its store object, or the guard's own.
Domain(r) ==
  LET c == BuiltFrom(r).config
      declared == c.replayStore \cup UNION {p.store : p \in c.replayProtection}
  IN IF declared = {} THEN {req[r].guard} ELSE declared

GenuineStore(r) == \A s \in Domain(r) : s \in Stores => BuiltFrom(r).methods[s] = "genuine"

(***************************************************************************)
(* Within one replay domain (a deployer's store object, or a guard's own   *)
(* store for all of its calls) an auth_id is executed at most once, and so *)
(* is a delegation when the store keeps delegations; a store declared      *)
(* shared is never the built-in process-local one.                         *)
(***************************************************************************)
OneUsePerReplayDomain ==
  /\ \A r1, r2 \in Executed :
       r1 # r2 /\ Domain(r1) = Domain(r2) /\ GenuineStore(r1) /\ GenuineStore(r2) =>
         /\ req[r1].auth # req[r2].auth
         /\ req[r1].delegated /\ req[r2].delegated /\ (\A s \in Domain(r1) : HasDelegationIds(s)) =>
              req[r1].snapshot.id # req[r2].snapshot.id
  /\ \A r \in Executed : \A p \in BuiltFrom(r).config.replayProtection :
       p.mode = "shared" => \A s \in p.store : KindOf[s] # "builtin"

Hooked(r) == pc[r] # "idle" /\ \E t \in template[req[r].guard] : t.onBoundaryEvent

\* A rejection the boundary stream is for: a thrown denial is not.
Reportable(r) == pc[r] = "rejected" /\ Hooked(r) /\ thrown[r] # {DenyError}

\* Call q has put this object in EMITTED: by an event, or past the gate.
Accounted(q, err) == Hooked(q) /\ thrown[q] = {err} /\ (events[q] # <<>> \/ pc[q] = "failed")

(***************************************************************************)
(* What is evaluated carries the trusted identity in every field that has  *)
(* a premise; nobody, proposer or normalizer, claimed otherwise; a claim   *)
(* is recorded as matched for the agent only if the proposer made it; and  *)
(* a decision is reported with the provenance of its own call.             *)
(*                                                                         *)
(* Through two nested catches a policy decision is one decision record and *)
(* nothing else; only a call rejected with a hook, and not with an         *)
(* OxDeAIDenyError a callback threw (boundaryEvent.ts:335), is a boundary  *)
(* event, and then one.  It goes without an event only when it threw an    *)
(* object that another call threw and accounted for, since EMITTED lives   *)
(* as long as the process (boundaryEvent.ts:255, 348); of all calls that   *)
(* threw one object, at most one is an event.                              *)
(***************************************************************************)
ReportsAreTrue ==
  /\ \A r \in Evaluated :
       LET ctx == req[r].ctx claims == req[r].action.claims IN
       /\ isTrustedExecutionContext(ctx)
       /\ \A f \in Fields : ctx[f] # Undefined =>
            /\ claims[f] \in {Undefined, ctx[f]}
            /\ f \in DOMAIN req[r].intent => req[r].intent[f] = ctx[f]
       /\ \A i \in DOMAIN decisions[r] :
            LET record == decisions[r][i][2] IN
            /\ (record.agent_id = "matched") = (claims.agent_id = ctx.agent_id)
            /\ \A f \in Fields : claims[f] # Undefined =>
                 record[f] = IF ctx[f] = Undefined THEN "unverified" ELSE "matched"
  /\ \A r \in Requests :
       /\ Len(decisions[r]) = IF pc[r] \in {"returned", "denied"} THEN 1 ELSE 0
       /\ events[r] # <<>> => Reportable(r) /\ Len(events[r]) = 1
       /\ Reportable(r) /\ events[r] = <<>> =>
            \E err \in SharedErrors :
              thrown[r] = {err} /\ \E q \in Requests \ {r} : Accounted(q, err)
  /\ \A err \in SharedErrors, r, q \in Requests :
       r # q /\ thrown[r] = {err} /\ thrown[q] = {err} => events[r] = <<>> \/ events[q] = <<>>

============================================================================
