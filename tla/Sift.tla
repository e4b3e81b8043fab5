------------------------------- MODULE Sift -------------------------------
(***************************************************************************)
(* From a Sift governance receipt to an effect: Sift signs receipts, an    *)
(* adapter built from packages/sift turns an ALLOW receipt into a signed   *)
(* AuthorizationV1, and an enforcement point verifies it and forwards to   *)
(* the protected upstream.  Three deployments of that pipeline:            *)
(*   "memory", "map"  examples/reference-sift-oxdeai over HTTP, with its   *)
(*                    pruning or its map-backed replay store;              *)
(*   "demo"           examples/sift-boundary-demo, in one process.         *)
(*                                                                         *)
(* Hashing is injective on canonical values.  A signature is               *)
(* [by, over, enc]: the key, what it covers, and its text encoding.  The   *)
(* receipt fields tenant_id, agent_id, action and risk_tier are treated as *)
(* policy_matched is and left out.  What the key store answers is any      *)
(* outcome of module KeyStore.  A parameter value is named by its kind.    *)
(***************************************************************************)
EXTENDS Integers, FiniteSets, Sequences, FiniteSetsExt

CONSTANTS
  Requests,      \* requests to the enforcement point
  Tools,         \* tool names
  Policies,      \* policies Sift matches
  KnownPolicies, \* policies the enforcement point accepts
  Deployments,   \* subset of {"memory", "map", "demo"}
  AdapterConfigs,\* [issuer, audience, ttlSeconds] of the adapter
  KeyAnswers,    \* what the key store may answer for a kid
  Values,        \* kinds of parameter values
  MaxAge,        \* DEFAULT_MAX_AGE_MS
  MaxSkew,       \* MAX_FUTURE_SKEW_MS
  Offsets,       \* how far Sift's clock may be ahead of the adapter's
  MaxSafe,       \* the largest value the upstream's counter can hold
  MaxReceipts, MaxAuths, MaxNow, MaxEvents

ASSUME SiftConfig ==
  /\ KnownPolicies \subseteq Policies
  /\ Deployments \subseteq {"memory", "map", "demo"}
  /\ {MaxAge, MaxSkew, MaxSafe, MaxReceipts, MaxAuths, MaxNow, MaxEvents} \subseteq Nat
  /\ Offsets \subseteq Int /\ \A c \in AdapterConfigs : c.ttlSeconds \in Int

VARIABLES
  now,        \* the clock of the adapter and the enforcement point
  deployment, \* fixed
  config,     \* the adapter's configuration, fixed
  receipts,   \* receipts Sift issued
  auths,      \* what the adapter returned: [auth, intent]
  req,        \* requests at the enforcement point
  consumed,   \* the replay store: auth_id to expires_at
  counter,    \* the upstream's execution state
  effects,    \* history: what the upstream executed, in order
  epoch,      \* history: restarts of the enforcement point
  events      \* faults, restarts and state changes left

vars == <<now, deployment, config, receipts, auths, req, consumed, counter, effects, epoch, events>>

Empty == ""
MissingState == -1
ListState == -2

\* f with value v for x.
With(f, x, v) == [y \in DOMAIN f \cup {x} |-> IF y = x THEN v ELSE f[y]]

----------------------------------------------------------------------------
(* siftCanonical.ts: values, digests, keys *)

\* Kinds that siftCanonicalize throws on; undefined becomes null.
Uncanonical == {"nan", "date"}
siftCanonicalize(v) == IF v = "undefined" THEN "null" ELSE v

siftCanonicalJsonHash(intent) == [sha256 |-> [intent EXCEPT !.param = siftCanonicalize(@)]]
StateHash(state) == [sha256 |-> state]

\* A signature decodes when it is 86 characters of either base64 alphabet.
WellEncoded(sig) == sig.enc \in {"base64url", "base64"}
Signed(key, payload) == [by |-> key, over |-> payload, enc |-> "base64url"]
Verifies(key, payload, sig) == sig.by = key /\ sig.over = payload

\* A raw key imports when it has 32 bytes; a small-order one is refused.
publicKeyFromRaw(key) == key # "short"
isSmallOrderEd25519Key(key) == key = "small"

\* The code of the first check that fails, "OK" when none does.
FirstFailure(checks) ==
  LET failed == {i \in DOMAIN checks : ~checks[i][1]}
  IN IF failed = {} THEN "OK" ELSE checks[Min(failed)][2]

----------------------------------------------------------------------------
(* Sift: mock-sift/server.ts, and MockSift of the demo *)

Unsigned(r) == [f \in DOMAIN r \ {"signature"} |-> r[f]]

\* The hash leaves out the signature and itself.
computeReceiptHash(r) == [f \in DOMAIN r \ {"signature", "receipt_hash"} |-> r[f]]

\* "sha256:" and upper case are only another spelling of the digest.
normalizeHashHex(h) == h.digest

Seal(body) ==
  LET hashed == With(body, "receipt_hash", [digest |-> body, prefixed |-> FALSE])
  IN With(hashed, "signature", Signed("sift", hashed))

buildReceipt(tool, decision, policy, time, nonce) ==
  Seal([receipt_version |-> "1.0", tool |-> tool, decision |-> decision, policy_matched |-> policy,
        timestamp |-> time, nonce |-> nonce])

IssueReceipt ==
  \E tool \in Tools, decision \in {"ALLOW", "DENY"}, policy \in Policies, ahead \in Offsets :
    /\ Cardinality(receipts) < MaxReceipts
    /\ receipts' = receipts \cup {buildReceipt(tool, decision, policy, now + ahead, Cardinality(receipts) + 1)}
    /\ UNCHANGED <<now, deployment, config, auths, req, consumed, counter, effects, epoch, events>>

\* What a receipt may have become when it reaches the adapter: one part of it
\* changed, with or without its hash recomputed, or only spelled differently.
Rehashed(r) == [r EXCEPT !.receipt_hash.digest = computeReceiptHash(r)]
Arrived(r) ==
  LET changed == {[r EXCEPT !.tool = t] : t \in Tools} \cup
                 {[r EXCEPT !.decision = "ALLOW"], [r EXCEPT !.timestamp = now], [r EXCEPT !.receipt_version = "9.9"],
                  [r EXCEPT !.policy_matched = Empty], [r EXCEPT !.decision = "allow"]}
  IN changed \cup {Rehashed(c) : c \in changed} \cup
     {[r EXCEPT !.receipt_hash.prefixed = TRUE], [r EXCEPT !.signature.enc = "base64"], [r EXCEPT !.signature.enc = "longer"]}

----------------------------------------------------------------------------
(* verifyReceipt.ts *)

\* Mutant: freshness only looks at the future.
verifyReceipt_NeverStale(r, key, requireAllow) ==
  FirstFailure(<< <<normalizeHashHex(r.receipt_hash) = computeReceiptHash(r), "INVALID_RECEIPT_HASH">>,
                  <<Verifies(key, Unsigned(r), r.signature), "INVALID_SIGNATURE">>,
                  <<requireAllow => r.decision = "ALLOW", "DENY_DECISION">>,
                  <<now - r.timestamp >= -MaxSkew, "INVALID_TIMESTAMP">> >>)

parseReceipt(r) ==
  FirstFailure(<< <<r.policy_matched # Empty, "MALFORMED_RECEIPT">>,
                  <<r.decision \in {"ALLOW", "DENY"}, "INVALID_DECISION">> >>)

\* Integrity, then authenticity, then what the receipt says.
verifyReceipt(r, key, requireAllow) ==
  FirstFailure(<<
    <<parseReceipt(r) = "OK", parseReceipt(r)>>,
    <<r.receipt_version = "1.0", "UNSUPPORTED_RECEIPT_VERSION">>,
    <<normalizeHashHex(r.receipt_hash) = computeReceiptHash(r), "INVALID_RECEIPT_HASH">>,
    <<publicKeyFromRaw(key) /\ ~isSmallOrderEd25519Key(key), "UNSUPPORTED_PUBLIC_KEY">>,
    <<WellEncoded(r.signature) /\ Verifies(key, Unsigned(r), r.signature), "INVALID_SIGNATURE">>,
    <<requireAllow => r.decision = "ALLOW", "DENY_DECISION">>,
    <<now - r.timestamp >= -MaxSkew, "INVALID_TIMESTAMP">>,
    <<now - r.timestamp <= MaxAge, "STALE_RECEIPT">> >>)

\* Codes of the key store end the verification; otherwise it answered a key.
KeyStoreCodes == {"REVOKED_KID", "UNKNOWN_KID", "KRL_FETCH_FAILED", "JWKS_FETCH_FAILED", "MISSING_KID"}

verifyReceiptWithKeyStore(r, answer) ==
  IF answer \in KeyStoreCodes THEN answer ELSE verifyReceipt(r, answer, TRUE)

----------------------------------------------------------------------------
(* normalizeIntent.ts, state.ts, receiptToAuthorization.ts *)

\* Of the kinds here: null, boolean, string and safe integer are supported.
normalizeValue(kind) == kind \in {"int", "null"}

normalizeIntent(r, param) ==
  FirstFailure(<<
    <<r.tool # Empty, "AMBIGUOUS_INTENT">>,
    <<param # "none", "AMBIGUOUS_INTENT">>,
    <<param # "list", "INVALID_PARAMS">>,
    <<normalizeValue(param), "UNSUPPORTED_PARAM_TYPE">> >>)

NormalizedIntent(r, param) == [tool |-> r.tool, param |-> param]

normalizeState(state) ==
  FirstFailure(<< <<state # MissingState, "MISSING_STATE">>, <<state # ListState, "INVALID_STATE">> >>)

receiptToAuthorization(r, intent) ==
  FirstFailure(<<
    <<r.decision = "ALLOW", "INVALID_RECEIPT_DECISION">>,
    <<config.issuer # Empty, "INVALID_ISSUER">>,
    <<config.audience # Empty, "INVALID_AUDIENCE">>,
    <<r.policy_matched # Empty, "INVALID_POLICY_ID">>,
    <<config.ttlSeconds > 0, "INVALID_TTL">>,
    <<intent.param \notin Uncanonical, "INTENT_HASH_FAILED">> >>)

SigningPayload(r, intent, state) ==
  [auth_id |-> r.nonce, issuer |-> config.issuer, audience |-> config.audience, decision |-> "ALLOW",
   intent_hash |-> siftCanonicalJsonHash(intent), state_hash |-> StateHash(state),
   policy_id |-> r.policy_matched, issued_at |-> now, expires_at |-> now + config.ttlSeconds]

----------------------------------------------------------------------------
(* The adapter *)

\* Every await of adapt() comes before its first look at the clock.  It keeps
\* nothing: a receipt may be adapted again as long as it is fresh.
Adapt ==
  /\ Cardinality(auths) < MaxAuths
  /\ \E r \in receipts : \E arrived \in Arrived(r) \cup {r}, answer \in KeyAnswers :
       /\ verifyReceiptWithKeyStore(arrived, answer) = "OK"
       /\ \E param \in Values, state \in {MissingState, ListState} \cup 0..counter :
            LET intent == NormalizedIntent(arrived, param)
                payload == SigningPayload(arrived, intent, state)
            IN /\ normalizeIntent(arrived, param) = "OK"
               /\ normalizeState(state) = "OK"
               /\ receiptToAuthorization(arrived, intent) = "OK"
               /\ auths' = auths \cup {[auth |-> With(payload, "sig", Signed("adapter", payload)), intent |-> intent]}
  /\ UNCHANGED <<now, deployment, config, receipts, req, consumed, counter, effects, epoch, events>>

----------------------------------------------------------------------------
(* The replay stores *)

\* Mutant: an entry is dropped in the second in which it expires.
pruneExpired_AtExpiry(store) ==
  IF deployment # "memory" THEN store
  ELSE [id \in {i \in DOMAIN store : store[i] > now} |-> store[id]]

\* MemoryReplayStore prunes before it looks; the others keep every entry.
pruneExpired(store) ==
  IF deployment # "memory" THEN store
  ELSE [id \in {i \in DOMAIN store : store[i] >= now} |-> store[id]]

Fresh(id) == id \notin DOMAIN pruneExpired(consumed)

consumeAuthId(auth) ==
  IF Fresh(auth.auth_id) THEN With(pruneExpired(consumed), auth.auth_id, auth.expires_at)
  ELSE pruneExpired(consumed)

----------------------------------------------------------------------------
(* The upstream *)

\* Only the internal token opens it; then the counter must have room.
UpstreamAnswer(token) ==
  FirstFailure(<< <<token = "internal", "FORBIDDEN">>, <<counter < MaxSafe, "UPSTREAM_ERROR">> >>)

Perform(r, q) ==
  /\ counter' = counter + 1
  /\ effects' = Append(effects, [by |-> r, auth |-> q.auth, intent |-> q.intent, checkedAt |-> q.checkedAt,
                                 consumedAt |-> q.consumedAt, epoch |-> q.epoch])

DirectCall(r) ==
  /\ req[r].at = "idle" /\ UpstreamAnswer("none") # "OK"
  /\ req' = [req EXCEPT ![r] = [at |-> "answered", answer |-> UpstreamAnswer("none")]]
  /\ UNCHANGED <<now, deployment, config, receipts, auths, consumed, counter, effects, epoch, events>>

----------------------------------------------------------------------------
(* The enforcement point: apps/pep-gateway/server.ts *)

buildSigningPayload(auth) == [f \in DOMAIN auth \ {"sig"} |-> auth[f]]

parseAuthorization(auth) == auth.decision = "ALLOW" /\ auth.issuer # Empty
isKnownIssuer(issuer) == issuer = "adapter-issuer"

\* Steps 1 to 8, in one synchronous stretch after the body is read.
BeforeState(auth, intent) ==
  FirstFailure(<<
    <<parseAuthorization(auth), "PARSE_ERROR">>,
    <<Verifies("adapter", buildSigningPayload(auth), auth.sig), "INVALID_SIGNATURE">>,
    <<isKnownIssuer(auth.issuer), "UNKNOWN_ISSUER">>,
    <<auth.audience = "pep", "AUDIENCE_MISMATCH">>,
    <<auth.expires_at > now, "EXPIRED">>,
    <<auth.policy_id \in KnownPolicies, "UNKNOWN_POLICY">>,
    <<intent.param \notin Uncanonical /\ siftCanonicalJsonHash(intent) = auth.intent_hash, "INTENT_HASH_MISMATCH">> >>)

\* What the agent may send with what the adapter returned to it: that, a later
\* expiry, another parameter, another tool.
Sendable(a) ==
  {a, [a EXCEPT !.auth.expires_at = @ + 1], [a EXCEPT !.intent.param = IF @ = "int" THEN "null" ELSE "int"]}
    \cup {[a EXCEPT !.intent.tool = t] : t \in Tools}

Answer(r, code) == req' = [req EXCEPT ![r] = [at |-> "answered", answer |-> code]]

Receive(r) ==
  /\ deployment # "demo" /\ req[r].at = "idle"
  /\ \E sent \in UNION {Sendable(a) : a \in auths} :
       LET code == BeforeState(sent.auth, sent.intent)
       IN IF code # "OK" THEN Answer(r, code)
          ELSE req' = [req EXCEPT ![r] = [at |-> "state", auth |-> sent.auth, intent |-> sent.intent, checkedAt |-> now]]
  /\ UNCHANGED <<now, deployment, config, receipts, auths, consumed, counter, effects, epoch, events>>

\* getExecutionState() looks at the upstream; its promise settles later.
ReadState(r) ==
  /\ req[r].at = "state"
  /\ req' = [req EXCEPT ![r] = [at |-> "read", auth |-> @.auth, intent |-> @.intent, checkedAt |-> @.checkedAt,
                                state |-> counter]]
  /\ UNCHANGED <<now, deployment, config, receipts, auths, consumed, counter, effects, epoch, events>>

\* The accessor throws or answers what normalizeState refuses.
StateFails(r) ==
  /\ req[r].at \in {"state", "read"} /\ events > 0
  /\ Answer(r, "STATE_HASH_MISMATCH") /\ events' = events - 1
  /\ UNCHANGED <<now, deployment, config, receipts, auths, consumed, counter, effects, epoch>>

\* Step 9, and step 10 in the same stretch; only the boolean true goes on.
Consume(r) ==
  LET q == req[r] IN
  /\ q.at = "read"
  /\ \/ /\ StateHash(q.state) # q.auth.state_hash
        /\ Answer(r, "STATE_HASH_MISMATCH") /\ UNCHANGED <<consumed, events>>
     \/ /\ StateHash(q.state) = q.auth.state_hash
        /\ consumed' = consumeAuthId(q.auth)
        /\ IF Fresh(q.auth.auth_id)
           THEN req' = [req EXCEPT ![r] = [at |-> "forward", auth |-> q.auth, intent |-> q.intent, epoch |-> epoch,
                                           checkedAt |-> q.checkedAt, consumedAt |-> now]]
           ELSE Answer(r, "REPLAY_DETECTED")
        /\ UNCHANGED events
     \/ /\ StateHash(q.state) = q.auth.state_hash /\ events > 0
        /\ consumed' \in {consumed, consumeAuthId(q.auth)}
        /\ Answer(r, "REPLAY_STORE_ERROR") /\ events' = events - 1
  /\ UNCHANGED <<now, deployment, config, receipts, auths, counter, effects, epoch>>

\* The forwarded request reaches the upstream, also when nobody waits for it.
UpstreamExecutes(r) ==
  LET q == req[r] code == UpstreamAnswer("internal") IN
  /\ q.at \in {"forward", "orphan"}
  /\ IF code = "OK" THEN Perform(r, q) ELSE UNCHANGED <<counter, effects>>
  /\ req' = [req EXCEPT ![r] = IF q.at = "orphan" THEN [at |-> "lost"]
                               ELSE [at |-> "reply", answer |-> IF code = "OK" THEN "EXECUTED" ELSE code]]
  /\ UNCHANGED <<now, deployment, config, receipts, auths, consumed, epoch, events>>

Reply(r) ==
  /\ req[r].at = "reply" /\ Answer(r, req[r].answer)
  /\ UNCHANGED <<now, deployment, config, receipts, auths, consumed, counter, effects, epoch, events>>

\* Mutant: a failed fetch is answered like any other denial.
UpstreamUnreachable_AsDenial(r) ==
  /\ req[r].at \in {"forward", "reply"} /\ events > 0
  /\ Answer(r, "REPLAY_DETECTED") /\ events' = events - 1
  /\ UNCHANGED <<now, deployment, config, receipts, auths, consumed, counter, effects, epoch>>

\* fetch() throws before or after the upstream acted; nothing is rolled back.
UpstreamUnreachable(r) ==
  /\ req[r].at \in {"forward", "reply"} /\ events > 0
  /\ Answer(r, "UPSTREAM_UNREACHABLE") /\ events' = events - 1
  /\ UNCHANGED <<now, deployment, config, receipts, auths, consumed, counter, effects, epoch>>

----------------------------------------------------------------------------
(* The demo's pepVerify, and the upstream call after it: no await between *)

PepVerify(auth, intent, state) ==
  FirstFailure(<<
    <<BeforeState(auth, intent) = "OK", BeforeState(auth, intent)>>,
    <<StateHash(state) = auth.state_hash, "STATE_HASH_MISMATCH">>,
    <<Fresh(auth.auth_id), "REPLAY_DETECTED">> >>)

DemoExecute(r) ==
  /\ deployment = "demo" /\ req[r].at = "idle"
  /\ \E sent \in UNION {Sendable(a) : a \in auths}, state \in 0..MaxSafe :
       LET code == PepVerify(sent.auth, sent.intent, state)
           q == [auth |-> sent.auth, intent |-> sent.intent, checkedAt |-> now, consumedAt |-> now, epoch |-> epoch]
       IN IF code = "OK"
          THEN /\ counter < MaxSafe
               /\ Perform(r, q) /\ Answer(r, "EXECUTED") /\ consumed' = consumeAuthId(sent.auth)
          ELSE Answer(r, code) /\ UNCHANGED <<counter, effects, consumed>>
  /\ UNCHANGED <<now, deployment, config, receipts, auths, epoch, events>>

----------------------------------------------------------------------------
(* Time, restarts and other changes of the upstream's state *)

Tick ==
  /\ now < MaxNow /\ now' = now + 1
  /\ UNCHANGED <<deployment, config, receipts, auths, req, consumed, counter, effects, epoch, events>>

\* The process of the enforcement point dies; a map-backed store outlives it.
Restart ==
  /\ deployment # "demo" /\ events > 0
  /\ events' = events - 1 /\ epoch' = epoch + 1
  /\ consumed' = IF deployment = "memory" THEN << >> ELSE consumed
  /\ req' = [r \in Requests |-> CASE req[r].at \in {"state", "read", "reply"} -> [at |-> "lost"]
                                  [] req[r].at = "forward" -> [req[r] EXCEPT !.at = "orphan"]
                                  [] OTHER -> req[r]]
  /\ UNCHANGED <<now, deployment, config, receipts, auths, counter, effects>>

setCounterForTest ==
  /\ events > 0 /\ events' = events - 1 /\ counter' \in 0..MaxSafe \ {counter}
  /\ UNCHANGED <<now, deployment, config, receipts, auths, req, consumed, effects, epoch>>

Init ==
  /\ now = 0 /\ deployment \in Deployments /\ config \in AdapterConfigs
  /\ receipts = {} /\ auths = {} /\ req = [r \in Requests |-> [at |-> "idle"]]
  /\ consumed = << >> /\ counter = 0 /\ effects = << >> /\ epoch = 0 /\ events = MaxEvents

Handle(r) ==
  \/ DirectCall(r) \/ Receive(r) \/ ReadState(r) \/ StateFails(r) \/ Consume(r)
  \/ UpstreamExecutes(r) \/ Reply(r) \/ UpstreamUnreachable(r) \/ DemoExecute(r)

Next == IssueReceipt \/ Adapt \/ Tick \/ Restart \/ setCounterForTest \/ \E r \in Requests : Handle(r)

Spec == Init /\ [][Next]_vars

----------------------------------------------------------------------------
(* Properties *)

\* Every effect goes back to one receipt that Sift itself signed as ALLOW for
\* that tool and a policy the enforcement point knows, and at the expiry check
\* (pep-gateway/server.ts step 6) the receipt was younger than verifyReceipt's
\* maximum age plus the adapter's ttl: what happens to receipts, intents and
\* authorizations on the way, and adapting one receipt repeatedly, cannot
\* stretch it.  Parameters are not part of this: no receipt covers them.
EffectsTraceToFreshAllow ==
  \A i \in DOMAIN effects : LET e == effects[i] IN
    \E r \in receipts :
      /\ r.nonce = e.auth.auth_id /\ r.decision = "ALLOW" /\ r.tool = e.intent.tool
      /\ r.policy_matched = e.auth.policy_id /\ r.policy_matched \in KnownPolicies
      /\ e.checkedAt - r.timestamp < MaxAge + config.ttlSeconds

\* auth_id is the receipt's nonce, so however many authorizations the adapter
\* issues from one receipt, they have one effect between them: for good with a
\* store that keeps its entries, also over restarts.  With MemoryReplayStore it
\* holds within a process until the entry, which lives as long as the FIRST
\* authorization consumed, has been pruned.
SecondUseOnlyAfterEviction ==
  \A i, j \in DOMAIN effects :
    LET Pruned(e, by) == by.consumedAt >= e.consumedAt /\ by.consumedAt > e.auth.expires_at IN
    (i # j /\ effects[i].auth.auth_id = effects[j].auth.auth_id) =>
      /\ deployment = "memory"
      /\ \/ effects[i].epoch # effects[j].epoch
         \/ Pruned(effects[i], effects[j]) \/ Pruned(effects[j], effects[i])

\* The caller can rely on its answer: success means one effect of its request,
\* every refusal means none; only UPSTREAM_UNREACHABLE leaves it open.
AnswersMatchEffects ==
  \A r \in Requests : req[r].at = "answered" =>
    LET own == Cardinality({i \in DOMAIN effects : effects[i].by = r}) IN
    IF req[r].answer = "UPSTREAM_UNREACHABLE" THEN own <= 1
    ELSE own = IF req[r].answer = "EXECUTED" THEN 1 ELSE 0

=============================================================================
