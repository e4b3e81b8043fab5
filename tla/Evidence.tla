------------------------------ MODULE Evidence ------------------------------
(***************************************************************************)
(* What the core keeps and checks as evidence: the canonical snapshot of a *)
(* policy state and its codecs, the hash chained audit log, and the        *)
(* verification envelope that bundles the two                              *)
(* (packages/core/src/policy/modules/_codec.ts, snapshot/, audit/,         *)
(* schemas/validate.ts, verification/, replay/).                           *)
(*                                                                         *)
(* Hashing is injective: a hash is what it was taken of.  The head of a    *)
(* chain is the genesis and the sequence of canonical events after it.     *)
(* Per-agent maps are shown for one agent: NoInt where its entry is        *)
(* absent, Bad where a value is not the integer it must be.                *)
(***************************************************************************)
EXTENDS Integers, Sequences, FiniteSets, TLC

NoInt == -1
Bad == -2
Absent == "absent"
NoPolicy == [version |-> Absent, ttl |-> NoInt]
NullPolicy == [version |-> "null", ttl |-> NoInt]
EmptyPolicy == [version |-> "", ttl |-> NoInt]

ModuleIds == {"AllowlistModule", "BudgetModule", "ConcurrencyModule", "KillSwitchModule",
              "RecursionDepthModule", "ReplayModule", "ToolAmplificationModule", "VelocityModule"}

\* Object.keys(MODULE_CODECS).sort()
SortedIds == << "AllowlistModule", "BudgetModule", "ConcurrencyModule", "KillSwitchModule",
                "RecursionDepthModule", "ReplayModule", "ToolAmplificationModule", "VelocityModule" >>

----------------------------------------------------------------------------
(* policy/modules/_codec.ts: what each module keeps of the state *)

assertInt(n) == n # Bad
assertPosInt(n) == n > 0
assertNonNegInt(n) == n >= 0
optional(n) == n = NoInt \/ n >= 0

\* What the types of a state and isRuntimeState leave open.
Parts ==
  [ AllowlistModule |-> [listed : Seq(Int)],
    BudgetModule |-> [limit : Int, spent : Int, cap : Int],
    VelocityModule |-> [window : Int, max : Int, count : Int],
    ReplayModule |-> [window : Int, max : Int, nonces : Seq([id : Int, ts : Int])],
    ConcurrencyModule |-> [max : Int, active : Int, auths : SUBSET Int],
    RecursionDepthModule |-> [depth : Int],
    ToolAmplificationModule |-> [window : Int, max : Int, calls : Seq([id : Int, ts : Int])],
    KillSwitchModule |-> [global : BOOLEAN] ]

WellShaped(s) ==
  /\ s = [version |-> s.version, mods |-> [id \in ModuleIds |-> s.mods[id]]]
  /\ \A id \in ModuleIds : s.mods[id] \in Parts[id]

Elements(s) == {s[k] : k \in DOMAIN s}
Distinct(s) == Cardinality(Elements(s)) = Len(s)

\* The elements of s at these positions, in their order.
Subsequence(s, at) == [k \in 1..Cardinality(at) |-> s[CHOOSE i \in at : Cardinality({j \in at : j < i}) = k - 1]]

\* Entries are ordered by time, then by their text.
Precedes(a, b) == a.ts < b.ts \/ (a.ts = b.ts /\ a.id < b.id)
Earlier(s, j, i) == Precedes(s[j], s[i]) \/ (~Precedes(s[i], s[j]) /\ j < i)

Chronological(s) ==
  [k \in DOMAIN s |-> s[CHOOSE i \in DOMAIN s : Cardinality({j \in DOMAIN s : Earlier(s, j, i)}) = k - 1]]

normalizeAllowlists(part) == [listed |-> Elements(part.listed)]

normalizeBudget(part) == part

normalizeVelocity(part) == part

normalizeReplay(part) == [part EXCEPT !.nonces = Chronological(part.nonces)]

\* An agent named in any of the three maps gets an entry in all of them.
normalizeConcurrency(part) ==
  IF part = [max |-> NoInt, active |-> NoInt, auths |-> {}] THEN part
  ELSE [part EXCEPT !.max = IF @ = NoInt THEN 0 ELSE @, !.active = IF @ = NoInt THEN 0 ELSE @]

normalizeToolLimits(part) == [part EXCEPT !.calls = Chronological(part.calls)]

Normal(id, part) ==
  CASE id = "AllowlistModule" -> normalizeAllowlists(part)
    [] id = "BudgetModule" -> normalizeBudget(part)
    [] id = "VelocityModule" -> normalizeVelocity(part)
    [] id = "ReplayModule" -> normalizeReplay(part)
    [] id = "ConcurrencyModule" -> normalizeConcurrency(part)
    [] id = "ToolAmplificationModule" -> normalizeToolLimits(part)
    [] OTHER -> part

\* What serializing asserts: an amount is a bigint and is written whatever it is.
Serializable(id, part) ==
  CASE id = "VelocityModule" -> assertPosInt(part.window) /\ assertNonNegInt(part.max) /\ optional(part.count)
    [] id = "ReplayModule" ->
         /\ assertPosInt(part.window) /\ assertNonNegInt(part.max)
         /\ \A k \in DOMAIN part.nonces : assertInt(part.nonces[k].ts)
         /\ Distinct(part.nonces)
    [] id = "ConcurrencyModule" ->
         LET n == normalizeConcurrency(part)
         IN optional(n.max) /\ optional(n.active) /\ n.active <= n.max
    [] id = "RecursionDepthModule" -> optional(part.depth)
    [] id = "ToolAmplificationModule" ->
         /\ assertPosInt(part.window) /\ optional(part.max)
         /\ \A k \in DOMAIN part.calls : assertInt(part.calls[k].ts)
    [] OTHER -> TRUE

\* Deserializing makes the same demands, and that amounts are written as
\* decimal numbers without a sign and that the kill switch is a boolean.
Deserializable(id, payload) ==
  /\ payload.form = "object"
  /\ Serializable(id, payload.part)
  /\ id = "BudgetModule" => optional(payload.part.limit) /\ optional(payload.part.spent) /\ optional(payload.part.cap)
  /\ id = "KillSwitchModule" => payload.part.global \in BOOLEAN

\* What a module's state becomes when the snapshot has no payload for it.
Default(id) ==
  CASE id = "AllowlistModule" -> [listed |-> <<>>]
    [] id = "BudgetModule" -> [limit |-> NoInt, spent |-> NoInt, cap |-> NoInt]
    [] id = "VelocityModule" -> [window |-> 1, max |-> 0, count |-> NoInt]
    [] id = "ReplayModule" -> [window |-> 1, max |-> 0, nonces |-> <<>>]
    [] id = "ConcurrencyModule" -> [max |-> NoInt, active |-> NoInt, auths |-> {}]
    [] id = "RecursionDepthModule" -> [depth |-> NoInt]
    [] id = "ToolAmplificationModule" -> [window |-> 1, max |-> NoInt, calls |-> <<>>]
    [] id = "KillSwitchModule" -> [global |-> FALSE]

AsList(set) == [k \in 1..Cardinality(set) |-> CHOOSE x \in set : Cardinality({y \in set : y < x}) = k - 1]

serializeState(id, mods) == [form |-> "object", part |-> Normal(id, mods[id])]

\* Mutant: what was spent is not read back.
deserializeState_ForgetsSpent(id, payload) ==
  IF id = "BudgetModule" THEN [payload.part EXCEPT !.spent = NoInt]
  ELSE IF id = "AllowlistModule" THEN [listed |-> AsList(payload.part.listed)]
  ELSE Normal(id, payload.part)

deserializeState(id, payload) ==
  IF id = "AllowlistModule" THEN [listed |-> AsList(payload.part.listed)]
  ELSE Normal(id, payload.part)

----------------------------------------------------------------------------
(* snapshot/ and PolicyEngine.exportState, importState, computeStateHash *)

Snapshot(formatVersion, policyId, modules) ==
  [parses |-> TRUE, formatVersion |-> formatVersion, policyId |-> policyId, modules |-> modules]

\* The policy id covers the configuration of the engine, not the state.
computePolicyId(version, ttl) == [version |-> version, ttl |-> ttl]

NoHash == [policyId |-> NoPolicy, modules |-> <<>>]

exportThrows(s) == \E id \in ModuleIds : ~Serializable(id, s.mods[id])

exportState(s, policyId) == Snapshot(1, policyId, [id \in ModuleIds |-> serializeState(id, s.mods)])

computeStateHash(s, policyId) ==
  [policyId |-> policyId, modules |-> [id \in ModuleIds |-> serializeState(id, s.mods)]]

\* The codecs write into the target one module after the other and the first
\* payload they refuse ends the import.
Refused(snap) == {k \in DOMAIN SortedIds :
                    SortedIds[k] \in DOMAIN snap.modules
                    /\ ~Deserializable(SortedIds[k], snap.modules[SortedIds[k]])}

Restored(target, snap, upto) ==
  [target EXCEPT !.mods =
    [id \in ModuleIds |->
      IF \A k \in upto : SortedIds[k] # id THEN target.mods[id]
      ELSE IF id \in DOMAIN snap.modules THEN deserializeState(id, snap.modules[id])
      ELSE Default(id)]]

\* importState(target, snapshot) on an engine whose current state is `current`.
importState(current, target, snap, policyId) ==
  LET rejected == snap.formatVersion # 1 \/ snap.policyId # policyId
      all == DOMAIN SortedIds
      before == {k \in all : \A r \in Refused(snap) : k < r}
  IN IF rejected THEN [ok |-> FALSE, current |-> current, target |-> target]
     ELSE LET t == Restored(target, snap, before)
          IN [ok |-> before = all, current |-> IF before = all THEN t ELSE current, target |-> t]

Garbage == [parses |-> FALSE]

\* encodeCanonicalState and decodeCanonicalState assert the same shape.
assertCanonicalState(snap) == snap.parses /\ snap.formatVersion = 1 /\ snap.policyId # NoPolicy

validateCanonicalStateJson(snap) == snap.formatVersion = 1 /\ snap.policyId # NoPolicy

Result(status, codes, policyId, hash) == [status |-> status, codes |-> codes, policyId |-> policyId, hash |-> hash]

\* The payloads of the modules are hashed as they are, not decoded.
verifySnapshot(snap, expected) ==
  IF ~assertCanonicalState(snap) \/ ~validateCanonicalStateJson(snap)
  THEN Result("invalid", {"SNAPSHOT_CORRUPT"}, NoPolicy, NoHash)
  ELSE IF expected # NoPolicy /\ expected # snap.policyId
  THEN Result("invalid", {"POLICY_ID_MISMATCH"}, snap.policyId, NoHash)
  ELSE Result("ok", {}, snap.policyId, [policyId |-> snap.policyId, modules |-> snap.modules])

----------------------------------------------------------------------------
(* audit/: the hash chained log *)

GenesisOf(protocol) == IF protocol THEN "OxDeAI::GENESIS::v1" ELSE "GENESIS"
AUDIT_GENESIS_HASH == GenesisOf(TRUE)

Event(type, ts, policyId, ref) == [type |-> type, ts |-> ts, policyId |-> policyId, ref |-> ref, extra |-> FALSE]

EventTypes == {"INTENT_RECEIVED", "DECISION", "AUTH_EMITTED", "EXECUTION_ATTESTED", "STATE_CHECKPOINT"}

\* The pattern of replay/verify.ts: 64 lowercase hexadecimal digits.  The ref of a
\* checkpoint is its stateHash, Bad for any other text.
stateHashRe(hash) == hash >= 0

\* Known type, a timestamp, its own fields and no others; ref stands for them.
\* A policyId and a stateHash may be any text, the latter not an empty one.
validateAuditEventJson(e) == e.type \in EventTypes /\ e.ts >= 0 /\ e.ref # NoInt /\ ~e.extra

validateAuditLogJson(events) == \A k \in DOMAIN events : validateAuditEventJson(events[k])

\* canonicalizeEntry writes an absent policyId as null.
canonicalizeEntry(e) == [e EXCEPT !.policyId = IF @ = NoPolicy THEN NullPolicy ELSE @]

ChainHead(genesis, events) == [genesis |-> genesis, chain |-> [k \in DOMAIN events |-> canonicalizeEntry(events[k])]]

----------------------------------------------------------------------------
(* verifyAuditEvents.ts and replay/verify.ts *)

\* typeof policyId === "string"
PolicyTexts(events) == {events[k].policyId : k \in DOMAIN events} \ {NoPolicy}

\* verifyAuditEvents takes an empty policyId for none.
PolicyIds(events) == PolicyTexts(events) \ {EmptyPolicy}

\* A malformed event is reported and skipped.
WellFormed(events) == Subsequence(events, {k \in DOMAIN events : validateAuditEventJson(events[k])})

Monotone(events) == \A k \in 2..Len(events) : events[k - 1].ts <= events[k].ts

Anchored(events) == \E k \in DOMAIN events : events[k].type = "STATE_CHECKPOINT"

If(condition, code) == IF condition THEN {code} ELSE {}

verifyAuditEvents(events, mode, expected) ==
  LET seen == WellFormed(events)
      ids == PolicyIds(seen)
      codes ==
        UNION {If(~validateAuditLogJson(events), "MALFORMED_EVENT"),
               If(~Monotone(seen), "NON_MONOTONIC_TIMESTAMP"),
               If(expected # NoPolicy /\ \E k \in DOMAIN seen : seen[k].policyId \in {NoPolicy, EmptyPolicy},
                  "POLICY_ID_MISSING"),
               If(expected # NoPolicy /\ ids \ {expected} # {}, "POLICY_ID_MISMATCH"),
               If(Cardinality(ids) > 1, "MIXED_POLICY_ID"),
               If(mode = "strict" /\ ~Anchored(seen), "NO_STATE_ANCHOR")}
  IN Result(IF codes \ {"NO_STATE_ANCHOR"} # {} THEN "invalid" ELSE IF codes # {} THEN "inconclusive" ELSE "ok",
            codes,
            IF Cardinality(ids) = 1 THEN CHOOSE id \in ids : TRUE ELSE NoPolicy,
            ChainHead(AUDIT_GENESIS_HASH, seen))

\* Mutant: only neighbours with the same type are compared.
verifyReplayEvents_ByType(events, mode, expected) ==
  LET codes == If(\E k \in 2..Len(events) : events[k - 1].type = events[k].type /\ events[k].ts < events[k - 1].ts,
                  "NON_MONOTONIC_TIMESTAMP")
               \cup If(Cardinality(PolicyTexts(events)) > 1, "MIXED_POLICY_ID")
  IN IF codes # {} THEN Result("violation", codes, NoPolicy, ChainHead(GenesisOf(FALSE), events))
     ELSE IF mode = "strict" /\ ~Anchored(events)
     THEN Result("inconclusive", {"NO_STATE_ANCHOR"}, NoPolicy, ChainHead(GenesisOf(FALSE), events))
     ELSE Result("ok", {}, NoPolicy, ChainHead(GenesisOf(FALSE), events))

\* The older verifier: no schema but a pattern for state hashes, its own genesis,
\* and a policyId counts even if it is empty; the first one is the log's.
verifyReplayEvents(events, mode, expected) ==
  LET observed == Subsequence(events, {k \in DOMAIN events : events[k].policyId # NoPolicy})
      policyId == IF observed = <<>> THEN NoPolicy ELSE observed[1].policyId
      codes ==
        UNION {If(~Monotone(events), "NON_MONOTONIC_TIMESTAMP"),
               If(\E k \in DOMAIN events : events[k].type = "STATE_CHECKPOINT" /\ ~stateHashRe(events[k].ref),
                  "INVALID_STATE_HASH"),
               If(Cardinality(PolicyTexts(events)) > 1, "MIXED_POLICY_ID"),
               If({expected, policyId} \cap {NoPolicy, EmptyPolicy} = {} /\ expected # policyId,
                  "POLICY_ID_MISMATCH")}
      head == ChainHead(GenesisOf(FALSE), events)
  IN IF codes # {} THEN Result("violation", codes, policyId, head)
     ELSE IF mode = "strict" /\ ~Anchored(events) THEN Result("inconclusive", {"NO_STATE_ANCHOR"}, policyId, head)
     ELSE Result("ok", {}, policyId, head)

----------------------------------------------------------------------------
(* envelope.ts and verifyEnvelope.ts *)

Unsigned == [by |-> Absent, over |-> Absent]

Envelope(snap, events) ==
  [parses |-> TRUE, formatVersion |-> 1, snapshot |-> snap, events |-> events,
   issuer |-> Absent, kid |-> Absent, signature |-> Unsigned]

hasSignature(env) == env.signature.by # Absent

envelopeSigningPayload(env) == [env EXCEPT !.signature = Unsigned]

signEnvelopeEd25519(env, issuer) ==
  LET unsigned == [env EXCEPT !.issuer = issuer, !.kid = issuer, !.signature = Unsigned]
  IN [unsigned EXCEPT !.signature = [by |-> issuer, over |-> envelopeSigningPayload(unsigned)]]

\* decodeEnvelope: the wire schema, the schema of every event included.
validateVerificationEnvelopeWireJson(env) ==
  /\ env.formatVersion = 1
  /\ validateAuditLogJson(env.events)
  /\ hasSignature(env) => env.issuer # Absent /\ env.kid # Absent

assertEnvelope(env) == env.parses /\ validateVerificationEnvelopeWireJson(env)

\* A key set names the holders whose keys it has; `active` are those not revoked.
SignatureCodes(env, o) ==
  IF ~hasSignature(env) THEN If(o.requireSig, "ENVELOPE_SIGNATURE_MISSING")
  ELSE IF o.trusted = {} THEN {"ENVELOPE_TRUST_MISSING"}
  ELSE IF env.issuer \notin o.trusted \/ env.kid # env.issuer THEN {"ENVELOPE_KID_UNKNOWN"}
  ELSE IF env.issuer \notin o.active THEN {"ENVELOPE_KEY_INACTIVE"}
  ELSE If(env.signature.by # env.issuer \/ env.signature.over # envelopeSigningPayload(env),
          "ENVELOPE_SIGNATURE_INVALID")

verifyEnvelope(env, o) ==
  IF ~assertEnvelope(env) THEN Result("invalid", {"ENVELOPE_MALFORMED"}, NoPolicy, NoHash)
  ELSE IF o.mode = "strict" /\ o.trusted = {} THEN Result("invalid", {"TRUSTED_KEYSETS_REQUIRED"}, NoPolicy, NoHash)
  ELSE
    LET snap == verifySnapshot(env.snapshot, o.expectedPolicyId)
        audit == verifyAuditEvents(env.events, o.mode, o.expectedPolicyId)
        codes ==
          UNION {If(o.expectedIssuer # Absent /\ env.issuer # o.expectedIssuer, "ENVELOPE_SIGNATURE_INVALID"),
                 SignatureCodes(env, o), snap.codes, audit.codes,
                 If(NoPolicy \in {snap.policyId, audit.policyId}, "POLICY_ID_MISSING"),
                 If(NoPolicy \notin {snap.policyId, audit.policyId} /\ snap.policyId # audit.policyId, "POLICY_ID_MISMATCH")}
    IN Result(IF codes \ {"NO_STATE_ANCHOR"} # {} THEN "invalid" ELSE IF codes # {} THEN "inconclusive" ELSE "ok",
              codes, IF snap.policyId # NoPolicy THEN snap.policyId ELSE audit.policyId,
              [state |-> snap.hash, audit |-> audit.hash])
=============================================================================
