----------------------------- MODULE SiftProofs -----------------------------
(***************************************************************************)
(* Proofs about the Sift flow: every effect traces to one fresh receipt    *)
(* that Sift signed as ALLOW, two effects of one receipt only when the     *)
(* replay store forgot the first, and answers that tell what happened.     *)
(***************************************************************************)
EXTENDS Sift, FiniteSetTheorems, SequenceTheorems, WellFoundedInduction, TLAPS

(***************************************************************************)
(* The invariant                                                           *)
(***************************************************************************)
TypeInv ==
  /\ now \in Nat /\ epoch \in Nat /\ config \in AdapterConfigs
  /\ req = [r \in Requests |-> req[r]]
  /\ effects \in Seq({effects[i] : i \in DOMAIN effects})
  /\ \A id \in DOMAIN consumed : consumed[id] \in Int

\* Sift signed all of the receipt.
ReceiptFields == {"receipt_version", "tool", "decision", "policy_matched", "timestamp", "nonce",
                  "receipt_hash", "signature"}
Genuine(r) ==
  /\ DOMAIN r = ReceiptFields /\ r = [f \in ReceiptFields |-> r[f]]
  /\ r.timestamp \in Int /\ r.signature = Signed("sift", Unsigned(r))

ReceiptsInv == \A r \in receipts : Genuine(r)

\* The authorization was issued for the intent while the receipt was fresh,
\* and lives for the adapter's ttl from then on.
Traced(auth, intent) ==
  /\ {auth.issued_at, auth.expires_at} \subseteq Int
  /\ auth.expires_at = auth.issued_at + config.ttlSeconds
  /\ \E r \in receipts :
       /\ r.nonce = auth.auth_id /\ r.decision = "ALLOW" /\ r.tool = intent.tool
       /\ r.policy_matched = auth.policy_id /\ auth.issued_at - r.timestamp <= MaxAge

\* The adapter signed all of the authorization.
AuthFields == {"auth_id", "issuer", "audience", "decision", "intent_hash", "state_hash", "policy_id",
               "issued_at", "expires_at", "sig"}
Issued(a) ==
  /\ a = [auth |-> a.auth, intent |-> a.intent]
  /\ a.auth = [f \in AuthFields |-> a.auth[f]]
  /\ a.intent = [tool |-> a.intent.tool, param |-> a.intent.param]
  /\ a.auth.sig = Signed("adapter", buildSigningPayload(a.auth))
  /\ a.auth.intent_hash = siftCanonicalJsonHash(a.intent)
  /\ Traced(a.auth, a.intent)

AuthsInv == \A a \in auths : Issued(a)

\* What passed steps 1 to 8, at the time it did.
Verified(q) ==
  /\ Traced(q.auth, q.intent) /\ q.auth.policy_id \in KnownPolicies
  /\ q.checkedAt \in Int /\ q.checkedAt < q.auth.expires_at

\* What the replay store knows of an authorization it let through: an entry
\* that lasts at least as long, unless that time is over or the process is
\* another one.
Held(u) ==
  LET id == u.auth.auth_id IN
  IF deployment # "memory" THEN id \in DOMAIN consumed
  ELSE u.epoch = epoch =>
         \/ id \in DOMAIN consumed /\ consumed[id] >= u.auth.expires_at
         \/ u.auth.expires_at < now

Used(u) ==
  /\ Verified(u) /\ Held(u)
  /\ u.consumedAt \in Int /\ u.consumedAt <= now /\ u.epoch \in Nat /\ u.epoch <= epoch

Pending(q) == q.at \in {"forward", "orphan"}
Forwarded(q) ==
  q = [at |-> "forward", auth |-> q.auth, intent |-> q.intent, epoch |-> q.epoch,
       checkedAt |-> q.checkedAt, consumedAt |-> q.consumedAt]

RequestsInv ==
  \A q \in {req[r] : r \in Requests} :
    /\ q.at \in {"state", "read"} => Verified(q)
    /\ Pending(q) => Used(q)
    /\ q.at = "forward" => Forwarded(q)

EffectsInv == \A u \in {effects[i] : i \in DOMAIN effects} : Used(u)

\* The replay store let both through, so it forgot one before the other.
Pruned(u, by) == by.consumedAt >= u.consumedAt /\ by.consumedAt > u.auth.expires_at
Apart(u, v) ==
  u.auth.auth_id = v.auth.auth_id =>
    deployment = "memory" /\ (u.epoch # v.epoch \/ Pruned(u, v) \/ Pruned(v, u))

ApartInv ==
  /\ \A i, j \in DOMAIN effects : i # j => Apart(effects[i], effects[j])
  /\ \A i \in DOMAIN effects, r \in Requests : Pending(req[r]) => Apart(effects[i], req[r])
  /\ \A r, s \in Requests : (r # s /\ Pending(req[r]) /\ Pending(req[s])) => Apart(req[r], req[s])

\* A request has one effect at most, none until the upstream acts, and what
\* it is told agrees.
Acted(r) == \E i \in DOMAIN effects : effects[i].by = r

AnswersInv ==
  /\ \A i, j \in DOMAIN effects : effects[i].by = effects[j].by => i = j
  /\ \A r \in Requests :
       /\ req[r].at \in {"idle", "state", "read", "forward", "orphan"} => ~Acted(r)
       /\ (req[r].at \in {"reply", "answered"} /\ req[r].answer # "UPSTREAM_UNREACHABLE") =>
            (req[r].answer = "EXECUTED" <=> Acted(r))

Inv ==
  /\ TypeInv /\ ReceiptsInv /\ AuthsInv /\ RequestsInv /\ EffectsInv /\ ApartInv /\ AnswersInv

----------------------------------------------------------------------------
(* Operators *)

(***************************************************************************)
(* Every non-empty set of naturals has a least element: here, the first    *)
(* check that fails.                                                       *)
(***************************************************************************)
LEMMA LeastNatural ==
  ASSUME NEW T \in SUBSET Nat, T # {}
  PROVE  \E k \in T : \A j \in T : k <= j
<1>1. PICK x \in T : \A y \in T : ~ (<<y, x>> \in OpToRel(<, Nat))
  BY NatLessThanWellFounded, WFMin
<1>2. \A y \in T : ~ (y < x)
  BY <1>1 DEF OpToRel
<1> QED
  BY <1>2

(***************************************************************************)
(* A list of checks answers "OK", or the code of a check that fails.       *)
(***************************************************************************)
LEMMA FirstFailureIs ==
  ASSUME NEW checks, DOMAIN checks \subseteq Nat
  PROVE  \/ FirstFailure(checks) = "OK" /\ \A i \in DOMAIN checks : checks[i][1]
         \/ \E i \in DOMAIN checks : ~checks[i][1] /\ FirstFailure(checks) = checks[i][2]
<1> DEFINE failed == {i \in DOMAIN checks : ~checks[i][1]}
<1>1. CASE failed = {}
  BY <1>1 DEF FirstFailure
<1>2. CASE failed # {}
  <2>1. \E k \in failed : \A j \in failed : k <= j
    BY <1>2, LeastNatural
  <2>2. Min(failed) \in failed
    BY <2>1 DEF Min
  <2>3. FirstFailure(checks) = checks[Min(failed)][2]
    BY <1>2 DEF FirstFailure
  <2> QED
    BY <2>2, <2>3
<1> QED
  BY <1>1, <1>2

(***************************************************************************)
(* A receipt that passes is signed as it stands by the key, says ALLOW,    *)
(* and is not older than the maximum age.                                  *)
(***************************************************************************)
LEMMA ReceiptPasses ==
  ASSUME NEW r, NEW key, verifyReceipt(r, key, TRUE) = "OK"
  PROVE  r.signature.over = Unsigned(r) /\ r.decision = "ALLOW" /\ now - r.timestamp <= MaxAge
<1> DEFINE checks == <<
    <<parseReceipt(r) = "OK", parseReceipt(r)>>,
    <<r.receipt_version = "1.0", "UNSUPPORTED_RECEIPT_VERSION">>,
    <<normalizeHashHex(r.receipt_hash) = computeReceiptHash(r), "INVALID_RECEIPT_HASH">>,
    <<publicKeyFromRaw(key) /\ ~isSmallOrderEd25519Key(key), "UNSUPPORTED_PUBLIC_KEY">>,
    <<WellEncoded(r.signature) /\ Verifies(key, Unsigned(r), r.signature), "INVALID_SIGNATURE">>,
    <<TRUE => r.decision = "ALLOW", "DENY_DECISION">>,
    <<now - r.timestamp >= -MaxSkew, "INVALID_TIMESTAMP">>,
    <<now - r.timestamp <= MaxAge, "STALE_RECEIPT">> >>
<1>1. FirstFailure(checks) = "OK"
  BY DEF verifyReceipt
<1>2. DOMAIN checks = 1..8
  OBVIOUS
<1>3. \A i \in DOMAIN checks : ~checks[i][1] => checks[i][2] # "OK"
  <2>1. ~checks[1][1] => checks[1][2] # "OK"
    OBVIOUS
  <2>2. /\ checks[2][2] # "OK" /\ checks[3][2] # "OK" /\ checks[4][2] # "OK" /\ checks[5][2] # "OK"
        /\ checks[6][2] # "OK" /\ checks[7][2] # "OK" /\ checks[8][2] # "OK"
    OBVIOUS
  <2> HIDE DEF checks
  <2> QED
    BY <1>2, <2>1, <2>2
<1>4. \A i \in 1..8 : checks[i][1]
  <2> HIDE DEF checks
  <2> QED
    BY <1>1, <1>2, <1>3, FirstFailureIs
<1>5. checks[5][1] /\ checks[6][1] /\ checks[8][1]
  BY <1>4
<1> QED
  BY <1>5 DEF Verifies

(***************************************************************************)
(* What steps 1 to 8 let pass is signed as it stands by the adapter, of a  *)
(* known policy, not expired, and for that intent.                         *)
(***************************************************************************)
LEMMA BeforeStatePasses ==
  ASSUME NEW auth, NEW intent
  PROVE  /\ BeforeState(auth, intent) # "EXECUTED"
         /\ BeforeState(auth, intent) = "OK" =>
              /\ auth.sig.over = buildSigningPayload(auth) /\ auth.expires_at > now
              /\ auth.policy_id \in KnownPolicies /\ siftCanonicalJsonHash(intent) = auth.intent_hash
<1> DEFINE checks == <<
    <<parseAuthorization(auth), "PARSE_ERROR">>,
    <<Verifies("adapter", buildSigningPayload(auth), auth.sig), "INVALID_SIGNATURE">>,
    <<isKnownIssuer(auth.issuer), "UNKNOWN_ISSUER">>,
    <<auth.audience = "pep", "AUDIENCE_MISMATCH">>,
    <<auth.expires_at > now, "EXPIRED">>,
    <<auth.policy_id \in KnownPolicies, "UNKNOWN_POLICY">>,
    <<intent.param \notin Uncanonical /\ siftCanonicalJsonHash(intent) = auth.intent_hash, "INTENT_HASH_MISMATCH">> >>
<1>1. BeforeState(auth, intent) = FirstFailure(checks)
  BY DEF BeforeState
<1>2. DOMAIN checks = 1..7
  OBVIOUS
<1>3. \A i \in 1..7 : checks[i][2] \notin {"OK", "EXECUTED"}
  <2>1. /\ checks[1][2] = "PARSE_ERROR" /\ checks[2][2] = "INVALID_SIGNATURE"
        /\ checks[3][2] = "UNKNOWN_ISSUER" /\ checks[4][2] = "AUDIENCE_MISMATCH"
        /\ checks[5][2] = "EXPIRED" /\ checks[6][2] = "UNKNOWN_POLICY"
        /\ checks[7][2] = "INTENT_HASH_MISMATCH"
    OBVIOUS
  <2> HIDE DEF checks
  <2> QED
    BY <2>1
<1>4. \/ FirstFailure(checks) = "OK" /\ \A i \in 1..7 : checks[i][1]
      \/ FirstFailure(checks) \notin {"OK", "EXECUTED"}
  <2> HIDE DEF checks
  <2> QED
    BY <1>2, <1>3, FirstFailureIs
<1>5. (\A i \in 1..7 : checks[i][1]) => checks[2][1] /\ checks[5][1] /\ checks[6][1] /\ checks[7][1]
  <2> HIDE DEF checks
  <2> QED
    OBVIOUS
<1> QED
  BY <1>1, <1>4, <1>5 DEF Verifies

(***************************************************************************)
(* What the demo's verification lets pass is fresh too.                    *)
(***************************************************************************)
LEMMA PepVerifyPasses ==
  ASSUME NEW auth, NEW intent, NEW state
  PROVE  /\ PepVerify(auth, intent, state) # "EXECUTED"
         /\ PepVerify(auth, intent, state) = "OK" =>
              BeforeState(auth, intent) = "OK" /\ Fresh(auth.auth_id)
<1> DEFINE before == BeforeState(auth, intent)
           checks == <<
    <<before = "OK", before>>,
    <<StateHash(state) = auth.state_hash, "STATE_HASH_MISMATCH">>,
    <<Fresh(auth.auth_id), "REPLAY_DETECTED">> >>
<1>1. PepVerify(auth, intent, state) = FirstFailure(checks)
  BY DEF PepVerify
<1>2. DOMAIN checks = 1..3
  OBVIOUS
<1>3. before # "EXECUTED"
  BY BeforeStatePasses
<1>4. \A i \in 1..3 : ~checks[i][1] => checks[i][2] \notin {"OK", "EXECUTED"}
  <2> HIDE DEF before
  <2>1. ~checks[1][1] => checks[1][2] \notin {"OK", "EXECUTED"}
    BY <1>3
  <2>2. checks[2][2] = "STATE_HASH_MISMATCH" /\ checks[3][2] = "REPLAY_DETECTED"
    OBVIOUS
  <2> HIDE DEF checks
  <2> QED
    BY <2>1, <2>2
<1>5. \/ FirstFailure(checks) = "OK" /\ checks[1][1] /\ checks[3][1]
      \/ FirstFailure(checks) \notin {"OK", "EXECUTED"}
  <2> HIDE DEF checks
  <2> QED
    BY <1>2, <1>4, FirstFailureIs
<1> QED
  BY <1>1, <1>5

(***************************************************************************)
(* The upstream answers what it did, or another code.                      *)
(***************************************************************************)
LEMMA UpstreamAnswers ==
  ASSUME NEW token
  PROVE  UpstreamAnswer(token) \in {"OK", "FORBIDDEN", "UPSTREAM_ERROR"}
<1> DEFINE checks == << <<token = "internal", "FORBIDDEN">>, <<counter < MaxSafe, "UPSTREAM_ERROR">> >>
<1>1. DOMAIN checks = 1..2
  OBVIOUS
<1>2. checks[1][2] = "FORBIDDEN" /\ checks[2][2] = "UPSTREAM_ERROR"
  OBVIOUS
<1>3. FirstFailure(checks) \in {"OK", "FORBIDDEN", "UPSTREAM_ERROR"}
  <2> HIDE DEF checks
  <2> QED
    BY <1>1, <1>2, FirstFailureIs
<1> QED
  BY <1>3 DEF UpstreamAnswer

(***************************************************************************)
(* Sift signs the whole receipt.                                           *)
(***************************************************************************)
LEMMA ReceiptsAreGenuine ==
  ASSUME NEW tool, NEW decision, NEW policy, NEW time \in Int, NEW nonce
  PROVE  Genuine(buildReceipt(tool, decision, policy, time, nonce))
<1> DEFINE body == [receipt_version |-> "1.0", tool |-> tool, decision |-> decision, policy_matched |-> policy,
                    timestamp |-> time, nonce |-> nonce]
           hash == [digest |-> body, prefixed |-> FALSE]
           hashed == With(body, "receipt_hash", hash)
           r == With(hashed, "signature", Signed("sift", hashed))
<1>1. r = buildReceipt(tool, decision, policy, time, nonce)
  BY DEF buildReceipt, Seal
<1>2. /\ DOMAIN body = ReceiptFields \ {"receipt_hash", "signature"}
      /\ body.timestamp = time
  BY DEF ReceiptFields
<1>3. /\ hashed = [f \in ReceiptFields \ {"signature"} |-> hashed[f]]
      /\ hashed.timestamp = time
  <2> HIDE DEF body, hash
  <2> QED
    BY <1>2 DEF With, ReceiptFields
<1>4. /\ r = [f \in ReceiptFields |-> r[f]] /\ r.timestamp = time
      /\ r.signature = Signed("sift", hashed)
      /\ \A f \in ReceiptFields \ {"signature"} : r[f] = hashed[f]
  <2> HIDE DEF hashed
  <2> QED
    BY <1>3 DEF With, ReceiptFields
<1>5. Unsigned(r) = hashed
  <2> HIDE DEF hashed, r
  <2> QED
    BY <1>3, <1>4 DEF Unsigned
<1> HIDE DEF hashed, r
<1> QED
  BY <1>1, <1>4, <1>5 DEF Genuine

(***************************************************************************)
(* A receipt that still carries a signature over what it says, says what   *)
(* Sift signed, whatever was changed on the way.                           *)
(***************************************************************************)
LEMMA SignedMeansUnchanged ==
  ASSUME NEW r, Genuine(r), NEW a \in Arrived(r) \cup {r}, a.signature.over = Unsigned(a)
  PROVE  /\ a.tool = r.tool /\ a.decision = r.decision /\ a.policy_matched = r.policy_matched
         /\ a.timestamp = r.timestamp /\ a.nonce = r.nonce
<1> DEFINE Kept(c) == DOMAIN c = ReceiptFields /\ c.signature.over = r.signature.over
<1>1. Kept(r)
  BY DEF Genuine
<1>2. /\ \A t : Kept([r EXCEPT !.tool = t]) /\ Kept([r EXCEPT !.decision = t])
      /\ \A t : Kept([r EXCEPT !.timestamp = t]) /\ Kept([r EXCEPT !.receipt_version = t])
      /\ \A t : Kept([r EXCEPT !.policy_matched = t])
  BY DEF Genuine, ReceiptFields
<1>3. \A c : Kept(c) => Kept(Rehashed(c))
  BY DEF Rehashed, ReceiptFields
<1>4. /\ Kept([r EXCEPT !.receipt_hash.prefixed = TRUE])
      /\ \A t : Kept([r EXCEPT !.signature.enc = t])
  BY DEF Genuine, ReceiptFields, Signed
<1>5. Kept(a)
  <2> DEFINE changed == {[r EXCEPT !.tool = t] : t \in Tools} \cup
        {[r EXCEPT !.decision = "ALLOW"], [r EXCEPT !.timestamp = now], [r EXCEPT !.receipt_version = "9.9"],
         [r EXCEPT !.policy_matched = Empty], [r EXCEPT !.decision = "allow"]}
  <2> HIDE DEF Kept
  <2>1. \A c \in changed : Kept(c)
    BY <1>2
  <2>2. \/ a = r \/ a \in changed \/ \E c \in changed : a = Rehashed(c)
        \/ a = [r EXCEPT !.receipt_hash.prefixed = TRUE]
        \/ a = [r EXCEPT !.signature.enc = "base64"] \/ a = [r EXCEPT !.signature.enc = "longer"]
    BY DEF Arrived
  <2> HIDE DEF changed
  <2> QED
    BY <1>1, <1>3, <1>4, <2>1, <2>2
<1>6. Unsigned(a) = Unsigned(r)
  BY <1>5 DEF Genuine, Signed
<1>7. \A f \in ReceiptFields \ {"signature"} : a[f] = r[f]
  <2> SUFFICES ASSUME NEW f \in ReceiptFields \ {"signature"} PROVE a[f] = r[f]
    OBVIOUS
  <2>1. Unsigned(a)[f] = a[f] /\ Unsigned(r)[f] = r[f]
    BY <1>5 DEF Unsigned, Genuine
  <2> QED
    BY <2>1, <1>6
<1> QED
  BY <1>7 DEF ReceiptFields

(***************************************************************************)
(* The adapter's authorization is its own, for the intent it returns with  *)
(* it, from a fresh ALLOW of Sift for that tool.                           *)
(***************************************************************************)
LEMMA AdapterIssues ==
  ASSUME TypeInv, ReceiptsInv, NEW r \in receipts, NEW arrived \in Arrived(r) \cup {r}, NEW answer,
         verifyReceiptWithKeyStore(arrived, answer) = "OK", NEW param, NEW state, NEW payload, NEW intent,
         intent = NormalizedIntent(arrived, param), payload = SigningPayload(arrived, intent, state)
  PROVE  Issued([auth |-> With(payload, "sig", Signed("adapter", payload)), intent |-> intent])
<1>1. verifyReceipt(arrived, answer, TRUE) = "OK"
  BY DEF verifyReceiptWithKeyStore, KeyStoreCodes
<1>2. /\ arrived.signature.over = Unsigned(arrived) /\ arrived.decision = "ALLOW"
      /\ now - arrived.timestamp <= MaxAge
  BY <1>1, ReceiptPasses
<1>3. /\ r.tool = arrived.tool /\ r.decision = "ALLOW" /\ r.policy_matched = arrived.policy_matched
      /\ r.timestamp = arrived.timestamp /\ r.nonce = arrived.nonce
  BY <1>2, SignedMeansUnchanged DEF ReceiptsInv
<1>4. now \in Int /\ config.ttlSeconds \in Int
  BY SiftConfig DEF TypeInv
<1>5. /\ payload = [f \in AuthFields \ {"sig"} |-> payload[f]]
      /\ payload.auth_id = arrived.nonce /\ payload.policy_id = arrived.policy_matched
      /\ payload.issued_at = now /\ payload.expires_at = now + config.ttlSeconds
      /\ payload.intent_hash = siftCanonicalJsonHash(intent)
  BY DEF SigningPayload, AuthFields
<1>6. intent.tool = arrived.tool /\ intent = [tool |-> intent.tool, param |-> intent.param]
  BY DEF NormalizedIntent
<1> DEFINE auth == With(payload, "sig", Signed("adapter", payload))
<1>7. /\ auth = [f \in AuthFields |-> auth[f]] /\ auth.sig = Signed("adapter", payload)
      /\ \A f \in AuthFields \ {"sig"} : auth[f] = payload[f]
  BY <1>5 DEF With, AuthFields
<1> HIDE DEF auth
<1>8. buildSigningPayload(auth) = payload
  BY <1>5, <1>7 DEF buildSigningPayload
<1>9. /\ auth.auth_id = arrived.nonce /\ auth.policy_id = arrived.policy_matched
      /\ auth.issued_at = now /\ auth.expires_at = now + config.ttlSeconds
      /\ auth.intent_hash = siftCanonicalJsonHash(intent)
  BY <1>5, <1>7 DEF AuthFields
<1>10. Traced(auth, intent)
  BY <1>2, <1>3, <1>4, <1>6, <1>9 DEF Traced
<1>11. Issued([auth |-> auth, intent |-> intent])
  <2> DEFINE a == [auth |-> auth, intent |-> intent]
  <2>1. a.auth = auth /\ a.intent = intent /\ a = [auth |-> a.auth, intent |-> a.intent]
    OBVIOUS
  <2> HIDE DEF a
  <2>2. Issued(a)
    BY <1>6, <1>7, <1>8, <1>9, <1>10, <2>1 DEF Issued
  <2> QED
    BY <2>2 DEF a
<1> QED
  BY <1>11 DEF auth

(***************************************************************************)
(* Of what the agent can send, only what the adapter returned gets past    *)
(* steps 1 to 8, but for a parameter with the same canonical form.         *)
(***************************************************************************)
LEMMA SentAsIssued ==
  ASSUME SiftConfig, NEW a, Issued(a), NEW s \in Sendable(a), BeforeState(s.auth, s.intent) = "OK"
  PROVE  /\ Traced(s.auth, s.intent) /\ s.auth.policy_id \in KnownPolicies
         /\ s.auth.expires_at > now
<1>1. /\ s.auth.sig.over = buildSigningPayload(s.auth) /\ s.auth.expires_at > now
      /\ s.auth.policy_id \in KnownPolicies
      /\ siftCanonicalJsonHash(s.intent) = s.auth.intent_hash
  BY BeforeStatePasses
<1>2. /\ s.auth.policy_id \in KnownPolicies /\ s.auth.expires_at > now
  BY <1>1
<1>3. CASE s = [a EXCEPT !.auth.expires_at = @ + 1]
  <2>1. s.auth = [a.auth EXCEPT !.expires_at = @ + 1]
    BY <1>3 DEF Issued
  <2>2. /\ s.auth.sig = a.auth.sig /\ s.auth.expires_at = a.auth.expires_at + 1
        /\ DOMAIN s.auth = AuthFields /\ DOMAIN a.auth = AuthFields
    BY <2>1 DEF Issued, AuthFields
  <2>3. /\ buildSigningPayload(s.auth)["expires_at"] = s.auth.expires_at
        /\ buildSigningPayload(a.auth)["expires_at"] = a.auth.expires_at
    BY <2>2 DEF buildSigningPayload, AuthFields
  <2>4. buildSigningPayload(s.auth) = buildSigningPayload(a.auth)
    BY <1>1, <2>2 DEF Issued, Signed
  <2>5. a.auth.expires_at \in Int
    BY DEF Issued, Traced
  <2> QED
    BY <2>2, <2>3, <2>4, <2>5
<1>4. CASE s.auth = a.auth /\ s.intent.tool = a.intent.tool
  BY <1>2, <1>4 DEF Issued, Traced
<1>5. CASE \E t : s = [a EXCEPT !.intent.tool = t]
  <2>1. PICK t : s = [a EXCEPT !.intent.tool = t]
    BY <1>5
  <2>2. s.auth = a.auth /\ s.intent = [a.intent EXCEPT !.tool = t]
    BY <2>1 DEF Issued
  <2>3. siftCanonicalJsonHash(s.intent) = siftCanonicalJsonHash(a.intent)
    BY <1>1, <2>2 DEF Issued
  <2>4. [s.intent EXCEPT !.param = siftCanonicalize(@)] = [a.intent EXCEPT !.param = siftCanonicalize(@)]
    BY <2>3 DEF siftCanonicalJsonHash
  <2>5. /\ s.intent = [tool |-> t, param |-> a.intent.param]
        /\ a.intent = [tool |-> a.intent.tool, param |-> a.intent.param]
    BY <2>2 DEF Issued
  <2>6. s.intent.tool = a.intent.tool
    BY <2>4, <2>5
  <2> QED
    BY <1>4, <2>2, <2>6
<1>6. CASE s = [a EXCEPT !.intent.param = IF @ = "int" THEN "null" ELSE "int"]
  <2>1. s.auth = a.auth /\ s.intent.tool = a.intent.tool
    BY <1>6 DEF Issued
  <2> QED
    BY <1>4, <2>1
<1> QED
  BY <1>3, <1>4, <1>5, <1>6 DEF Sendable

----------------------------------------------------------------------------
(* The replay store *)

(***************************************************************************)
(* Whatever the store is asked, it goes on knowing what it let through;    *)
(* and it knows what it lets through now.                                  *)
(***************************************************************************)
LEMMA StoreRemembers ==
  ASSUME TypeInv, NEW auth, auth.expires_at \in Int, consumed' = consumeAuthId(auth),
         UNCHANGED <<now, deployment, epoch>>
  PROVE  /\ \A id \in DOMAIN consumed' : consumed'[id] \in Int
         /\ \A u : Used(u) => Held(u)'
         /\ Fresh(auth.auth_id) => \A v : v.auth = auth => Held(v)'
<1> DEFINE id == auth.auth_id
           kept == pruneExpired(consumed)
<1>1. /\ DOMAIN kept \subseteq DOMAIN consumed
      /\ \A i \in DOMAIN kept : kept[i] = consumed[i]
      /\ \A i \in DOMAIN consumed : i \in DOMAIN kept \/ (deployment = "memory" /\ ~(consumed[i] >= now))
  BY DEF pruneExpired
<1> HIDE DEF kept
<1>2. CASE Fresh(id)
  <2>1. /\ DOMAIN consumed' = DOMAIN kept \cup {id} /\ consumed'[id] = auth.expires_at
        /\ \A i \in DOMAIN kept : consumed'[i] = kept[i]
    BY <1>2 DEF consumeAuthId, With, Fresh, kept
  <2>2. \A i \in DOMAIN consumed' : consumed'[i] \in Int
    BY <1>1, <2>1 DEF TypeInv
  <2>3. ASSUME NEW u, Used(u) PROVE Held(u)'
    <3>1. u.auth.expires_at \in Int /\ Held(u)
      BY <2>3 DEF Used, Verified, Traced
    <3>2. CASE deployment # "memory"
      BY <3>1, <3>2, <1>1, <2>1 DEF Held
    <3>3. CASE deployment = "memory" /\ u.epoch = epoch
      <4>1. CASE u.auth.expires_at < now
        BY <3>3, <4>1 DEF Held
      <4>2. CASE u.auth.auth_id \in DOMAIN consumed /\ consumed[u.auth.auth_id] >= u.auth.expires_at
        <5>1. consumed[u.auth.auth_id] \in Int /\ now \in Int
          BY <4>2 DEF TypeInv
        <5>2. CASE u.auth.auth_id \in DOMAIN kept
          BY <1>1, <2>1, <3>3, <4>2, <5>2 DEF Held
        <5>3. CASE u.auth.auth_id \notin DOMAIN kept
          <6>1. u.auth.expires_at < now
            BY <1>1, <3>1, <4>2, <5>1, <5>3
          <6> QED
            BY <3>3, <6>1 DEF Held
        <5> QED
          BY <5>2, <5>3
      <4> QED
        BY <3>1, <3>3, <4>1, <4>2 DEF Held
    <3>4. CASE deployment = "memory" /\ u.epoch # epoch
      BY <3>4 DEF Held
    <3> QED
      BY <3>2, <3>3, <3>4
  <2>4. ASSUME NEW v, v.auth = auth PROVE Held(v)'
    BY <2>1, <2>4 DEF Held
  <2> QED
    BY <2>2, <2>3, <2>4
<1>3. CASE ~Fresh(id)
  <2>1. consumed' = kept
    BY <1>3 DEF consumeAuthId, kept
  <2>2. \A i \in DOMAIN consumed' : consumed'[i] \in Int
    BY <1>1, <2>1 DEF TypeInv
  <2>3. ASSUME NEW u, Used(u) PROVE Held(u)'
    <3>1. u.auth.expires_at \in Int /\ Held(u)
      BY <2>3 DEF Used, Verified, Traced
    <3>2. CASE u.auth.auth_id \in DOMAIN kept
      BY <1>1, <2>1, <3>1, <3>2 DEF Held
    <3>3. CASE u.auth.auth_id \notin DOMAIN kept
      <4>1. \A i \in DOMAIN consumed : consumed[i] \in Int
        BY DEF TypeInv
      <4> QED
        BY <1>1, <2>1, <3>1, <3>3, <4>1 DEF Held, TypeInv
    <3> QED
      BY <3>2, <3>3
  <2> QED
    BY <1>3, <2>2, <2>3
<1> QED
  BY <1>2, <1>3

(***************************************************************************)
(* What it finds fresh it never let through, or has forgotten since.       *)
(***************************************************************************)
LEMMA FreshIsApart ==
  ASSUME TypeInv, NEW u, Used(u), NEW v, Fresh(v.auth.auth_id), v.consumedAt = now, v.epoch = epoch
  PROVE  Apart(u, v)
<1> SUFFICES ASSUME u.auth.auth_id = v.auth.auth_id
             PROVE  deployment = "memory" /\ (u.epoch # v.epoch \/ Pruned(u, v))
  BY DEF Apart
<1>1. u.auth.expires_at \in Int /\ u.consumedAt <= now /\ now \in Int /\ Held(u)
  BY DEF Used, Verified, Traced, TypeInv
<1>2. \A i \in DOMAIN consumed : consumed[i] \in Int
  BY DEF TypeInv
<1>3. deployment = "memory"
  BY <1>1 DEF Held, Fresh, pruneExpired
<1>4. u.auth.auth_id \in DOMAIN consumed => ~(consumed[u.auth.auth_id] >= now)
  BY <1>3 DEF Fresh, pruneExpired
<1>5. CASE u.epoch = epoch
  <2>1. u.auth.expires_at < now
    BY <1>1, <1>2, <1>3, <1>4, <1>5 DEF Held
  <2> QED
    BY <1>1, <1>3, <2>1 DEF Pruned
<1> QED
  BY <1>3, <1>5

----------------------------------------------------------------------------
(* Steps *)

(***************************************************************************)
(* What was issued, verified or used stays so while receipts are only      *)
(* added and the adapter keeps its configuration.                          *)
(***************************************************************************)
LEMMA TracesStay ==
  ASSUME receipts \subseteq receipts', config' = config
  PROVE  /\ \A a : Issued(a) => Issued(a)'
         /\ \A q : Verified(q) => Verified(q)'
<1>1. \A auth, intent : Traced(auth, intent) => Traced(auth, intent)'
  BY DEF Traced
<1>2. \A a : Issued(a) => Issued(a)'
  BY <1>1 DEF Issued
<1> QED
  BY <1>1, <1>2 DEF Verified

LEMMA UsesStay ==
  ASSUME TypeInv, TypeInv', receipts \subseteq receipts', config' = config, now <= now', epoch <= epoch',
         NEW u, Used(u), Held(u)'
  PROVE  Used(u)'
<1>1. Verified(u)'
  BY TracesStay DEF Used
<1>2. u.consumedAt \in Int /\ u.consumedAt <= now' /\ u.epoch \in Nat /\ u.epoch <= epoch'
  BY DEF Used, TypeInv
<1> QED
  BY <1>1, <1>2 DEF Used

(***************************************************************************)
(* A request moves on without an effect: what the later properties need of *)
(* its new state, for each kind of it.                                     *)
(***************************************************************************)
LEMMA MoveInv ==
  ASSUME Inv, NEW r \in Requests, NEW to, req' = [req EXCEPT ![r] = to],
         UNCHANGED <<now, deployment, config, receipts, auths, effects, epoch>>,
         \A id \in DOMAIN consumed' : consumed'[id] \in Int,
         \A u : Used(u) => Held(u)',
         to.at \in {"state", "read"} => Verified(to),
         Pending(to) => Used(to)' /\ \A u : Used(u) => Apart(u, to),
         to.at = "forward" => Forwarded(to),
         to.at \in {"idle", "state", "read", "forward", "orphan"} => ~Acted(r),
         (to.at \in {"reply", "answered"} /\ to.answer # "UPSTREAM_UNREACHABLE") =>
           (to.answer = "EXECUTED" <=> Acted(r))
  PROVE  Inv'
<1>1. req'[r] = to /\ \A s \in Requests \ {r} : req'[s] = req[s]
  BY DEF Inv, TypeInv
<1>2. TypeInv'
  BY DEF Inv, TypeInv
<1>3. /\ ReceiptsInv' /\ AuthsInv'
      /\ \A q : Verified(q) => Verified(q)'
  BY TracesStay DEF Inv, ReceiptsInv, AuthsInv
<1>4. \A u : Used(u) => Used(u)'
  BY <1>2, UsesStay DEF Inv, TypeInv
<1>5. RequestsInv'
  <2> SUFFICES ASSUME NEW s \in Requests, NEW q, q = req'[s]
               PROVE  /\ q.at \in {"state", "read"} => Verified(q)'
                      /\ Pending(q) => Used(q)'
                      /\ q.at = "forward" => Forwarded(q)
    BY DEF RequestsInv, Pending, Forwarded
  <2>1. CASE s = r
    BY <1>1, <1>3, <2>1
  <2>2. CASE s # r
    BY <1>1, <1>3, <1>4, <2>2 DEF Inv, RequestsInv
  <2> QED
    BY <2>1, <2>2
<1>6. EffectsInv'
  BY <1>4 DEF Inv, EffectsInv
<1>7. ApartInv'
  <2>1. \A i \in DOMAIN effects : Used(effects[i])
    BY DEF Inv, EffectsInv
  <2>2. \A s \in Requests : Pending(req[s]) => Used(req[s])
    BY DEF Inv, RequestsInv
  <2>3. \A u, v : Apart(u, v) => Apart(u, v)' /\ Apart(v, u)'
    BY DEF Apart
  <2>4. \A i, j \in DOMAIN effects : i # j => Apart(effects[i], effects[j])
    BY DEF Inv, ApartInv
  <2>5. ASSUME NEW i \in DOMAIN effects, NEW s \in Requests, Pending(req'[s]) PROVE Apart(effects[i], req'[s])
    <3>1. CASE s = r
      BY <1>1, <2>1, <2>5, <3>1
    <3>2. CASE s # r
      BY <1>1, <2>5, <3>2 DEF Inv, ApartInv
    <3> QED
      BY <3>1, <3>2
  <2>6. ASSUME NEW s \in Requests, NEW t \in Requests, s # t, Pending(req'[s]), Pending(req'[t])
        PROVE  Apart(req'[s], req'[t]) \/ Apart(req'[t], req'[s])
    <3>1. CASE s = r
      BY <1>1, <2>2, <2>6, <3>1
    <3>2. CASE t = r
      BY <1>1, <2>2, <2>6, <3>2
    <3>3. CASE s # r /\ t # r
      BY <1>1, <2>6, <3>3 DEF Inv, ApartInv
    <3> QED
      BY <3>1, <3>2, <3>3
  <2> QED
    BY <2>3, <2>4, <2>5, <2>6 DEF ApartInv, Apart, Pending, Pruned
<1>8. AnswersInv'
  <2>1. \A s \in Requests : Acted(s)' <=> Acted(s)
    BY DEF Acted
  <2> QED
    BY <1>1, <2>1 DEF Inv, AnswersInv, Pending
<1> QED
  BY <1>2, <1>3, <1>5, <1>6, <1>7, <1>8 DEF Inv

(***************************************************************************)
(* The upstream acts: the request's one effect joins the history.          *)
(***************************************************************************)
LEMMA PerformInv ==
  ASSUME Inv, NEW r \in Requests, NEW to, NEW e, req' = [req EXCEPT ![r] = to],
         effects' = Append(effects, e), e.by = r,
         UNCHANGED <<now, deployment, config, receipts, auths, epoch>>,
         \A id \in DOMAIN consumed' : consumed'[id] \in Int,
         \A u : Used(u) => Held(u)',
         Used(e)',
         \A i \in DOMAIN effects : Apart(effects[i], e),
         \A s \in Requests \ {r} : Pending(req[s]) => Apart(req[s], e),
         ~Acted(r), to.at \in {"reply", "answered", "lost"}, to.at # "lost" => to.answer = "EXECUTED"
  PROVE  Inv'
<1>1. req'[r] = to /\ \A s \in Requests \ {r} : req'[s] = req[s]
  BY DEF Inv, TypeInv
<1>2. PICK n \in Nat : n = Len(effects) /\ DOMAIN effects = 1..n
  BY DEF Inv, TypeInv
<1>3. /\ DOMAIN effects' = 1..n + 1 /\ effects'[n + 1] = e
      /\ \A i \in 1..n : effects'[i] = effects[i]
  BY <1>2 DEF Inv, TypeInv
<1>s. \A i \in 1..n + 1 : i \in 1..n \/ i = n + 1
  BY <1>2
<1>4. TypeInv'
  <2>1. effects' \in Seq({effects'[i] : i \in DOMAIN effects'})
    <3> DEFINE S == {effects'[i] : i \in DOMAIN effects'}
    <3>s. \A i \in 1..n + 1 : effects'[i] \in S
      BY <1>3
    <3>1. effects \in [1..n -> S] /\ e \in S
      <4>1. effects = [i \in 1..n |-> effects[i]]
        BY <1>2 DEF Inv, TypeInv
      <4>2. \A i \in 1..n : effects[i] \in S
        BY <1>2, <1>3, <3>s
      <4>3. e \in S
        BY <1>2, <1>3, <3>s
      <4> HIDE DEF S
      <4> QED
        BY <4>1, <4>2, <4>3
    <3>2. effects \in Seq(S)
      BY <3>1, SeqDef
    <3> HIDE DEF S
    <3>3. effects' \in Seq(S)
      BY <3>1, <3>2
    <3> QED
      BY <3>3 DEF S
  <2> QED
    BY <2>1 DEF Inv, TypeInv
<1>5. ReceiptsInv' /\ AuthsInv' /\ \A q : Verified(q) => Verified(q)'
  BY TracesStay DEF Inv, ReceiptsInv, AuthsInv
<1>6. \A u : Used(u) => Used(u)'
  <2>1. TypeInv /\ now <= now' /\ epoch <= epoch'
    BY DEF Inv, TypeInv
  <2> QED
    BY <1>4, <2>1, UsesStay
<1>7. RequestsInv'
  <2> SUFFICES ASSUME NEW s \in Requests, NEW q, q = req'[s]
               PROVE  /\ q.at \in {"state", "read"} => Verified(q)'
                      /\ Pending(q) => Used(q)'
                      /\ q.at = "forward" => Forwarded(q)
    BY DEF RequestsInv, Pending, Forwarded
  <2>1. CASE s = r
    BY <1>1, <2>1 DEF Pending
  <2>2. CASE s # r
    BY <1>1, <1>5, <1>6, <2>2 DEF Inv, RequestsInv
  <2> QED
    BY <2>1, <2>2
<1>8. EffectsInv'
  <2> SUFFICES ASSUME NEW i \in 1..n + 1, NEW u, u = effects'[i] PROVE Used(u)'
    BY <1>3 DEF EffectsInv
  <2>1. CASE i \in 1..n
    BY <1>2, <1>3, <1>6, <2>1 DEF Inv, EffectsInv
  <2>2. CASE i = n + 1
    <3>1. u = e
      BY <1>3, <2>2
    <3> QED
      BY <3>1
  <2> QED
    BY <1>s, <2>1, <2>2
<1>9. ApartInv'
  <2>1. \A u, v : Apart(u, v) => Apart(u, v)' /\ Apart(v, u)'
    BY DEF Apart
  <2>2. ASSUME NEW i \in 1..n + 1, NEW j \in 1..n + 1, i # j
        PROVE  Apart(effects'[i], effects'[j]) \/ Apart(effects'[j], effects'[i])
    <3>1. CASE i \in 1..n /\ j \in 1..n
      <4>1. effects'[i] = effects[i] /\ effects'[j] = effects[j]
        BY <1>3, <3>1
      <4>2. Apart(effects[i], effects[j])
        BY <1>2, <2>2, <3>1 DEF Inv, ApartInv
      <4> QED
        BY <4>1, <4>2
    <3>2. CASE i = n + 1 /\ j \in 1..n
      <4>1. effects'[i] = e /\ effects'[j] = effects[j]
        BY <1>3, <3>2
      <4> QED
        BY <1>2, <3>2, <4>1
    <3>3. CASE i \in 1..n /\ j = n + 1
      <4>1. effects'[i] = effects[i] /\ effects'[j] = e
        BY <1>3, <3>3
      <4> QED
        BY <1>2, <3>3, <4>1
    <3> QED
      BY <1>s, <2>2, <3>1, <3>2, <3>3
  <2>3. ~Pending(req'[r])
    BY <1>1 DEF Pending
  <2>4. ASSUME NEW i \in 1..n + 1, NEW s \in Requests, Pending(req'[s])
        PROVE  Apart(effects'[i], req'[s]) \/ Apart(req'[s], effects'[i])
    <3>1. s # r /\ req'[s] = req[s]
      BY <1>1, <2>3, <2>4
    <3>2. CASE i \in 1..n
      <4>1. effects'[i] = effects[i] /\ Pending(req[s])
        BY <1>3, <2>4, <3>1, <3>2
      <4>2. Apart(effects[i], req[s])
        BY <1>2, <3>2, <4>1 DEF Inv, ApartInv
      <4> QED
        BY <3>1, <4>1, <4>2
    <3>3. CASE i = n + 1
      <4>1. effects'[i] = e /\ Pending(req[s])
        BY <1>3, <2>4, <3>1, <3>3
      <4> QED
        BY <3>1, <4>1
    <3> QED
      BY <1>s, <3>2, <3>3
  <2>5. ASSUME NEW s \in Requests, NEW t \in Requests, s # t, Pending(req'[s]), Pending(req'[t])
        PROVE  Apart(req'[s], req'[t])
    BY <1>1, <2>3, <2>5 DEF Inv, ApartInv
  <2> QED
    BY <1>3, <2>1, <2>2, <2>4, <2>5 DEF ApartInv, Apart, Pending, Pruned
<1>10. AnswersInv'
  <2>1. \A s \in Requests : Acted(s)' <=> (Acted(s) \/ s = r)
    BY <1>2, <1>3 DEF Acted
  <2>2. \A i \in 1..n : effects[i].by # r
    BY <1>2 DEF Acted
  <2>3. \A i, j \in DOMAIN effects' : effects'[i].by = effects'[j].by => i = j
    BY <1>2, <1>3, <2>2 DEF Inv, AnswersInv
  <2>4. ASSUME NEW s \in Requests
        PROVE  /\ req'[s].at \in {"idle", "state", "read", "forward", "orphan"} => ~Acted(s)'
               /\ (req'[s].at \in {"reply", "answered"} /\ req'[s].answer # "UPSTREAM_UNREACHABLE") =>
                    (req'[s].answer = "EXECUTED" <=> Acted(s)')
    <3>1. CASE s = r
      BY <1>1, <2>1, <3>1
    <3>2. CASE s # r
      BY <1>1, <2>1, <3>2 DEF Inv, AnswersInv
    <3> QED
      BY <3>1, <3>2
  <2> QED
    BY <2>3, <2>4 DEF AnswersInv
<1> QED
  BY <1>4, <1>5, <1>7, <1>8, <1>9, <1>10 DEF Inv

(***************************************************************************)
(* Nobody moves: time passes, or something is issued.                      *)
(***************************************************************************)
LEMMA NobodyMovesInv ==
  ASSUME Inv, UNCHANGED <<deployment, config, req, effects, consumed, epoch>>,
         receipts \subseteq receipts', now' \in Nat, now <= now', ReceiptsInv', AuthsInv'
  PROVE  Inv'
<1>1. TypeInv'
  BY DEF Inv, TypeInv
<1>2. \A q : Verified(q) => Verified(q)'
  BY TracesStay
<1>3. ASSUME NEW u, Used(u) PROVE Used(u)'
  <2>1. u.auth.expires_at \in Int /\ Held(u)
    BY <1>3 DEF Used, Verified, Traced
  <2>2. now \in Int /\ now' \in Int
    BY DEF Inv, TypeInv
  <2>3. Held(u)'
    BY <2>1, <2>2 DEF Held
  <2>4. TypeInv /\ epoch <= epoch'
    BY DEF Inv, TypeInv
  <2> QED
    BY <1>1, <1>3, <2>3, <2>4, UsesStay
<1>4. RequestsInv'
  <2> SUFFICES ASSUME NEW q \in {req[r] : r \in Requests}
               PROVE  /\ q.at \in {"state", "read"} => Verified(q)'
                      /\ Pending(q) => Used(q)'
                      /\ q.at = "forward" => Forwarded(q)
    BY DEF RequestsInv, Pending, Forwarded
  <2> QED
    BY <1>2, <1>3 DEF Inv, RequestsInv
<1>5. EffectsInv'
  BY <1>3 DEF Inv, EffectsInv
<1>6. ApartInv'
  BY DEF Inv, ApartInv, Apart, Pending, Pruned
<1>7. AnswersInv'
  BY DEF Inv, AnswersInv, Acted
<1> QED
  BY <1>1, <1>4, <1>5, <1>6, <1>7 DEF Inv

(***************************************************************************)
(* The first state.                                                        *)
(***************************************************************************)
LEMMA InitInv ==
  ASSUME Init
  PROVE  Inv
<1>1. effects = << >> /\ DOMAIN effects = {} /\ DOMAIN consumed = {} /\ receipts = {} /\ auths = {}
  BY DEF Init
<1>2. req = [r \in Requests |-> [at |-> "idle"]] /\ \A r \in Requests : req[r].at = "idle"
  BY DEF Init
<1>3. TypeInv
  <2>1. effects \in Seq({effects[i] : i \in DOMAIN effects})
    BY <1>1
  <2> QED
    BY <1>1, <1>2, <2>1 DEF TypeInv, Init
<1> QED
  BY <1>1, <1>2, <1>3 DEF Inv, ReceiptsInv, AuthsInv, RequestsInv, EffectsInv, ApartInv, AnswersInv, Acted, Pending

(***************************************************************************)
(* Sift issues, the adapter adapts, time passes.                           *)
(***************************************************************************)
LEMMA IssueReceiptInv ==
  ASSUME Inv, IssueReceipt
  PROVE  Inv'
<1>1. PICK tool, decision, policy, nonce, ahead :
        /\ ahead \in Offsets
        /\ receipts' = receipts \cup {buildReceipt(tool, decision, policy, now + ahead, nonce)}
  BY DEF IssueReceipt
<1>2. now + ahead \in Int
  BY <1>1, SiftConfig DEF Inv, TypeInv
<1>3. \A r \in receipts' : Genuine(r)
  BY <1>1, <1>2, ReceiptsAreGenuine DEF Inv, ReceiptsInv
<1>4. UNCHANGED <<now, deployment, config, auths, req, consumed, effects, epoch>>
  BY DEF IssueReceipt
<1>5. ReceiptsInv'
  BY <1>3 DEF ReceiptsInv, Genuine, Unsigned
<1>6. AuthsInv'
  BY <1>1, <1>4, TracesStay DEF Inv, AuthsInv
<1> QED
  BY <1>1, <1>4, <1>5, <1>6, NobodyMovesInv DEF Inv, TypeInv

LEMMA AdaptInv ==
  ASSUME Inv, Adapt
  PROVE  Inv'
<1>1. UNCHANGED <<now, deployment, config, receipts, req, consumed, counter, effects, epoch, events>>
  BY DEF Adapt
<1>2. PICK a : auths' = auths \cup {a} /\ Issued(a)
  <2>1. PICK r \in receipts : \E arrived \in Arrived(r) \cup {r}, answer \in KeyAnswers :
               /\ verifyReceiptWithKeyStore(arrived, answer) = "OK"
               /\ \E param \in Values, state \in {MissingState, ListState} \cup 0..counter :
                    LET intent == NormalizedIntent(arrived, param)
                        payload == SigningPayload(arrived, intent, state)
                    IN auths' = auths \cup {[auth |-> With(payload, "sig", Signed("adapter", payload)),
                                             intent |-> intent]}
    BY DEF Adapt
  <2>2. PICK arrived \in Arrived(r) \cup {r}, answer \in KeyAnswers :
               /\ verifyReceiptWithKeyStore(arrived, answer) = "OK"
               /\ \E param \in Values, state \in {MissingState, ListState} \cup 0..counter :
                    LET intent == NormalizedIntent(arrived, param)
                        payload == SigningPayload(arrived, intent, state)
                    IN auths' = auths \cup {[auth |-> With(payload, "sig", Signed("adapter", payload)),
                                             intent |-> intent]}
    BY <2>1
  <2>3. PICK param, state, intent, payload :
               /\ intent = NormalizedIntent(arrived, param) /\ payload = SigningPayload(arrived, intent, state)
               /\ auths' = auths \cup {[auth |-> With(payload, "sig", Signed("adapter", payload)),
                                        intent |-> intent]}
    BY <2>2
  <2>4. Issued([auth |-> With(payload, "sig", Signed("adapter", payload)), intent |-> intent])
    BY <2>2, <2>3, AdapterIssues DEF Inv
  <2> QED
    BY <2>3, <2>4
<1>3. \A b \in auths' : Issued(b)
  BY <1>2 DEF Inv, AuthsInv
<1>4. AuthsInv'
  BY <1>1, <1>3, TracesStay DEF AuthsInv
<1>5. ReceiptsInv'
  BY <1>1 DEF Inv, ReceiptsInv
<1> QED
  BY <1>1, <1>4, <1>5, NobodyMovesInv DEF Inv, TypeInv

LEMMA TickInv ==
  ASSUME Inv, Tick
  PROVE  Inv'
<1>1. /\ UNCHANGED <<deployment, config, receipts, auths, req, consumed, effects, epoch>>
      /\ now' = now + 1 /\ now' \in Nat /\ now <= now'
  BY DEF Tick, Inv, TypeInv
<1>2. ReceiptsInv' /\ AuthsInv'
  BY <1>1, TracesStay DEF Inv, ReceiptsInv, AuthsInv
<1> QED
  BY <1>1, <1>2, NobodyMovesInv

\* The upstream's state may change, or nothing of this does.
LEMMA OtherInv ==
  ASSUME Inv, setCounterForTest \/ UNCHANGED vars
  PROVE  Inv'
<1>1. UNCHANGED <<now, deployment, config, receipts, auths, req, consumed, effects, epoch>>
  BY DEF setCounterForTest, vars
<1>2. ReceiptsInv' /\ AuthsInv'
  BY <1>1, TracesStay DEF Inv, ReceiptsInv, AuthsInv
<1> QED
  BY <1>1, <1>2, NobodyMovesInv DEF Inv, TypeInv

(***************************************************************************)
(* The enforcement point dies: what was forwarded may still be executed,   *)
(* and the pruning store forgets what the other process used.              *)
(***************************************************************************)
LEMMA RestartInv ==
  ASSUME Inv, Restart
  PROVE  Inv'
<1>1. /\ UNCHANGED <<now, deployment, config, receipts, auths, counter, effects>> /\ epoch' = epoch + 1
      /\ consumed' = IF deployment = "memory" THEN << >> ELSE consumed
  BY DEF Restart
<1>2. /\ req' = [r \in Requests |-> req'[r]]
      /\ \A r \in Requests :
           \/ req'[r].at = "lost"
           \/ req[r].at = "forward" /\ req'[r] = [req[r] EXCEPT !.at = "orphan"]
           \/ req[r].at \notin {"state", "read", "reply", "forward"} /\ req'[r] = req[r]
  BY DEF Restart
<1>3. /\ TypeInv' /\ now <= now' /\ epoch <= epoch'
  <2>1. \A id \in DOMAIN consumed' : consumed'[id] \in Int
    BY <1>1 DEF Inv, TypeInv
  <2> QED
    BY <1>1, <1>2, <2>1 DEF Inv, TypeInv
<1>4. /\ ReceiptsInv' /\ AuthsInv'
  BY <1>1, TracesStay DEF Inv, ReceiptsInv, AuthsInv
<1>5. ASSUME NEW u, Used(u) PROVE Used(u)'
  <2>1. Held(u)'
    BY <1>1, <1>5 DEF Used, Held, Inv, TypeInv
  <2> QED
    BY <1>1, <1>3, <1>5, <2>1, UsesStay DEF Inv
\* What is pending now was pending before, and is the same authorization.
<1>6. ASSUME NEW r \in Requests, Pending(req'[r])
      PROVE  /\ Pending(req[r]) /\ req'[r].at = "orphan"
             /\ req'[r].auth = req[r].auth /\ req'[r].intent = req[r].intent
             /\ req'[r].checkedAt = req[r].checkedAt /\ req'[r].consumedAt = req[r].consumedAt
             /\ req'[r].epoch = req[r].epoch
  <2>1. CASE req[r].at = "forward" /\ req'[r] = [req[r] EXCEPT !.at = "orphan"]
    <3>1. Forwarded(req[r])
      BY <2>1 DEF Inv, RequestsInv
    <3> QED
      BY <2>1, <3>1 DEF Forwarded, Pending
  <2>2. CASE req[r].at \notin {"state", "read", "reply", "forward"} /\ req'[r] = req[r]
    BY <1>6, <2>2 DEF Pending
  <2> QED
    BY <1>2, <1>6, <2>1, <2>2 DEF Pending
<1>7. RequestsInv'
  <2> SUFFICES ASSUME NEW r \in Requests, NEW q, q = req'[r]
               PROVE  /\ q.at \in {"state", "read"} => Verified(q)'
                      /\ Pending(q) => Used(q)'
                      /\ q.at = "forward" => Forwarded(q)
    BY DEF RequestsInv, Pending, Forwarded
  <2>1. q.at \notin {"state", "read", "forward"}
    <3>1. req[r].at = "forward" => Forwarded(req[r])
      BY DEF Inv, RequestsInv
    <3>2. req[r].at = "forward" => [req[r] EXCEPT !.at = "orphan"].at = "orphan"
      BY <3>1 DEF Forwarded
    <3> QED
      BY <1>2, <3>2
  <2>2. ASSUME Pending(q) PROVE Used(q)'
    <3>1. PICK u : u = req[r] /\ Used(u)
      BY <1>6, <2>2 DEF Inv, RequestsInv
    <3>2. Used(u)'
      BY <1>5, <3>1
    <3>3. /\ q.auth = u.auth /\ q.intent = u.intent /\ q.checkedAt = u.checkedAt
          /\ q.consumedAt = u.consumedAt /\ q.epoch = u.epoch
      BY <1>6, <2>2, <3>1
    <3> QED
      BY <3>2, <3>3 DEF Used, Verified, Held
  <2> QED
    BY <2>1, <2>2
<1>8. EffectsInv'
  BY <1>1, <1>5 DEF Inv, EffectsInv
<1>9. ApartInv'
  <2>1. \A i, j \in DOMAIN effects : i # j => Apart(effects[i], effects[j])
    BY DEF Inv, ApartInv
  <2>2. ASSUME NEW i \in DOMAIN effects, NEW r \in Requests, Pending(req'[r])
        PROVE  Apart(effects[i], req'[r])
    <3>1. Apart(effects[i], req[r])
      BY <1>6, <2>2 DEF Inv, ApartInv
    <3> QED
      BY <1>6, <2>2, <3>1 DEF Apart, Pruned
  <2>3. ASSUME NEW r \in Requests, NEW s \in Requests, r # s, Pending(req'[r]), Pending(req'[s])
        PROVE  Apart(req'[r], req'[s])
    <3>1. Apart(req[r], req[s])
      BY <1>6, <2>3 DEF Inv, ApartInv
    <3> QED
      BY <1>6, <2>3, <3>1 DEF Apart, Pruned
  <2> QED
    BY <1>1, <2>1, <2>2, <2>3 DEF ApartInv, Apart, Pending, Pruned
<1>10. AnswersInv'
  <2>1. \A r \in Requests : Acted(r)' <=> Acted(r)
    BY <1>1 DEF Acted
  <2>2. ASSUME NEW r \in Requests
        PROVE  /\ req'[r].at \in {"idle", "state", "read", "forward", "orphan"} => ~Acted(r)
               /\ (req'[r].at \in {"reply", "answered"} /\ req'[r].answer # "UPSTREAM_UNREACHABLE") =>
                    (req'[r].answer = "EXECUTED" <=> Acted(r))
    <3>1. CASE req'[r].at = "lost"
      BY <3>1
    <3>2. CASE Pending(req'[r])
      BY <1>6, <3>2 DEF Inv, AnswersInv, Pending
    <3>3. CASE req'[r] = req[r]
      BY <3>3 DEF Inv, AnswersInv
    <3>4. CASE req[r].at = "forward" /\ req'[r] = [req[r] EXCEPT !.at = "orphan"]
      <4>1. Forwarded(req[r])
        BY <3>4 DEF Inv, RequestsInv
      <4>2. Pending(req'[r])
        BY <3>4, <4>1 DEF Forwarded, Pending
      <4> QED
        BY <3>2, <4>2
    <3> QED
      BY <1>2, <3>1, <3>3, <3>4
  <2> QED
    BY <1>1, <2>1, <2>2 DEF Inv, AnswersInv
<1> QED
  BY <1>3, <1>4, <1>7, <1>8, <1>9, <1>10 DEF Inv

(***************************************************************************)
(* Steps of a request that only change what it is told or holds.           *)
(***************************************************************************)
LEMMA HeldStays ==
  ASSUME UNCHANGED <<now, deployment, consumed, epoch>>
  PROVE  \A u : Used(u) => Held(u)'
  BY DEF Used, Held

LEMMA DirectCallInv ==
  ASSUME Inv, NEW r \in Requests, DirectCall(r)
  PROVE  Inv'
<1>1. PICK to : /\ to = [at |-> "answered", answer |-> UpstreamAnswer("none")]
                /\ req' = [req EXCEPT ![r] = to]
  BY DEF DirectCall
<1>2. to.at = "answered" /\ to.answer # "EXECUTED" /\ ~Acted(r)
  BY <1>1, UpstreamAnswers DEF DirectCall, Inv, AnswersInv
<1>3. UNCHANGED <<now, deployment, config, receipts, auths, consumed, effects, epoch>>
  BY DEF DirectCall
<1> QED
  BY <1>1, <1>2, <1>3, HeldStays, MoveInv DEF Inv, TypeInv, Pending

LEMMA ReceiveInv ==
  ASSUME Inv, NEW r \in Requests, Receive(r)
  PROVE  Inv'
<1>1. UNCHANGED <<now, deployment, config, receipts, auths, consumed, effects, epoch>>
  BY DEF Receive
<1>2. ~Acted(r)
  BY DEF Receive, Inv, AnswersInv
<1>3. PICK sent \in UNION {Sendable(a) : a \in auths} :
        IF BeforeState(sent.auth, sent.intent) # "OK" THEN Answer(r, BeforeState(sent.auth, sent.intent))
        ELSE req' = [req EXCEPT ![r] = [at |-> "state", auth |-> sent.auth, intent |-> sent.intent,
                                        checkedAt |-> now]]
  BY DEF Receive
<1>4. CASE BeforeState(sent.auth, sent.intent) # "OK"
  <2>1. PICK to : /\ to = [at |-> "answered", answer |-> BeforeState(sent.auth, sent.intent)]
                  /\ req' = [req EXCEPT ![r] = to]
    BY <1>3, <1>4 DEF Answer
  <2>2. to.at = "answered" /\ to.answer # "EXECUTED"
    BY <2>1, BeforeStatePasses
  <2> QED
    BY <1>1, <1>2, <2>1, <2>2, HeldStays, MoveInv DEF Inv, TypeInv, Pending
<1>5. CASE BeforeState(sent.auth, sent.intent) = "OK"
  <2>1. PICK to : /\ to = [at |-> "state", auth |-> sent.auth, intent |-> sent.intent, checkedAt |-> now]
                  /\ req' = [req EXCEPT ![r] = to]
    BY <1>3, <1>5
  <2>2. /\ Traced(sent.auth, sent.intent) /\ sent.auth.policy_id \in KnownPolicies
        /\ sent.auth.expires_at > now
    <3>1. PICK a \in auths : sent \in Sendable(a)
      BY <1>3
    <3>2. Issued(a)
      BY DEF Inv, AuthsInv
    <3> QED
      BY <1>5, <3>1, <3>2, SentAsIssued, SiftConfig
  <2>3. to.at = "state" /\ to.auth = sent.auth /\ to.intent = sent.intent /\ to.checkedAt = now
    BY <2>1
  <2>4. Verified(to)
    BY <2>2, <2>3 DEF Verified, Traced, Inv, TypeInv
  <2> QED
    BY <1>1, <1>2, <2>1, <2>3, <2>4, HeldStays, MoveInv DEF Inv, TypeInv, Pending
<1> QED
  BY <1>4, <1>5

LEMMA ReadStateInv ==
  ASSUME Inv, NEW r \in Requests, ReadState(r)
  PROVE  Inv'
<1>1. UNCHANGED <<now, deployment, config, receipts, auths, consumed, effects, epoch>>
  BY DEF ReadState
<1>2. req[r].at = "state" /\ Verified(req[r]) /\ ~Acted(r)
  BY DEF ReadState, Inv, RequestsInv, AnswersInv
<1>3. PICK q : q = req[r]
  OBVIOUS
<1>4. PICK to : /\ to = [at |-> "read", auth |-> q.auth, intent |-> q.intent, checkedAt |-> q.checkedAt,
                         state |-> counter]
                /\ req' = [req EXCEPT ![r] = to]
  BY <1>3 DEF ReadState, Inv, TypeInv
<1>5. to.at = "read" /\ to.auth = q.auth /\ to.intent = q.intent /\ to.checkedAt = q.checkedAt
  BY <1>4
<1>6. Verified(to)
  BY <1>2, <1>3, <1>5 DEF Verified
<1> QED
  BY <1>1, <1>2, <1>4, <1>5, <1>6, HeldStays, MoveInv DEF Inv, TypeInv, Pending

LEMMA StateFailsInv ==
  ASSUME Inv, NEW r \in Requests, StateFails(r)
  PROVE  Inv'
<1>1. UNCHANGED <<now, deployment, config, receipts, auths, consumed, effects, epoch>>
  BY DEF StateFails
<1>2. ~Acted(r)
  BY DEF StateFails, Inv, AnswersInv
<1>3. PICK to : to = [at |-> "answered", answer |-> "STATE_HASH_MISMATCH"] /\ req' = [req EXCEPT ![r] = to]
  BY DEF StateFails, Answer
<1>4. to.at = "answered" /\ to.answer = "STATE_HASH_MISMATCH"
  BY <1>3
<1> QED
  BY <1>1, <1>2, <1>3, <1>4, HeldStays, MoveInv DEF Inv, TypeInv, Pending

LEMMA ReplyInv ==
  ASSUME Inv, NEW r \in Requests, Reply(r)
  PROVE  Inv'
<1>1. UNCHANGED <<now, deployment, config, receipts, auths, consumed, effects, epoch>>
  BY DEF Reply
<1>2. PICK to : to = [at |-> "answered", answer |-> req[r].answer] /\ req' = [req EXCEPT ![r] = to]
  BY DEF Reply, Answer
<1>3. to.at = "answered" /\ to.answer = req[r].answer /\ req[r].at = "reply"
  BY <1>2 DEF Reply
<1>4. to.answer # "UPSTREAM_UNREACHABLE" => (to.answer = "EXECUTED" <=> Acted(r))
  BY <1>3 DEF Inv, AnswersInv
<1> QED
  BY <1>1, <1>2, <1>3, <1>4, HeldStays, MoveInv DEF Inv, TypeInv, Pending

LEMMA UpstreamUnreachableInv ==
  ASSUME Inv, NEW r \in Requests, UpstreamUnreachable(r)
  PROVE  Inv'
<1>1. UNCHANGED <<now, deployment, config, receipts, auths, consumed, effects, epoch>>
  BY DEF UpstreamUnreachable
<1>2. PICK to : to = [at |-> "answered", answer |-> "UPSTREAM_UNREACHABLE"] /\ req' = [req EXCEPT ![r] = to]
  BY DEF UpstreamUnreachable, Answer
<1>3. to.at = "answered" /\ to.answer = "UPSTREAM_UNREACHABLE"
  BY <1>2
<1> QED
  BY <1>1, <1>2, <1>3, HeldStays, MoveInv DEF Inv, TypeInv, Pending

(***************************************************************************)
(* Steps 9 and 10: only what the replay store finds fresh goes on.         *)
(***************************************************************************)
LEMMA ConsumeInv ==
  ASSUME Inv, NEW r \in Requests, Consume(r)
  PROVE  Inv'
<1>1. UNCHANGED <<now, deployment, config, receipts, auths, effects, epoch>>
  BY DEF Consume
<1>2. PICK q : q = req[r]
  OBVIOUS
<1>3. q.at = "read" /\ Verified(q) /\ ~Acted(r)
  BY <1>2 DEF Consume, Inv, RequestsInv, AnswersInv
<1>4. q.auth.expires_at \in Int
  BY <1>3 DEF Verified, Traced
<1>5. /\ \A id \in DOMAIN consumed' : consumed'[id] \in Int
      /\ \A u : Used(u) => Held(u)'
  <2>1. CASE consumed' = consumed
    BY <1>1, <2>1, HeldStays DEF Inv, TypeInv
  <2>2. CASE consumed' = consumeAuthId(q.auth)
    BY <1>1, <1>4, <2>2, StoreRemembers DEF Inv
  <2> QED
    BY <1>2, <2>1, <2>2 DEF Consume
<1>6. CASE \E code : code # "EXECUTED" /\ Answer(r, code)
  <2>1. PICK to, code : /\ code # "EXECUTED" /\ to = [at |-> "answered", answer |-> code]
                        /\ req' = [req EXCEPT ![r] = to]
    BY <1>6 DEF Answer
  <2>2. to.at = "answered" /\ to.answer # "EXECUTED"
    BY <2>1
  <2> QED
    BY <1>1, <1>3, <1>5, <2>1, <2>2, MoveInv DEF Pending
<1>7. CASE /\ consumed' = consumeAuthId(q.auth) /\ Fresh(q.auth.auth_id)
           /\ req' = [req EXCEPT ![r] = [at |-> "forward", auth |-> q.auth, intent |-> q.intent, epoch |-> epoch,
                                         checkedAt |-> q.checkedAt, consumedAt |-> now]]
  <2>1. PICK to : /\ to = [at |-> "forward", auth |-> q.auth, intent |-> q.intent, epoch |-> epoch,
                           checkedAt |-> q.checkedAt, consumedAt |-> now]
                  /\ req' = [req EXCEPT ![r] = to]
    BY <1>7
  <2>2. /\ to.at = "forward" /\ to.auth = q.auth /\ to.intent = q.intent /\ to.checkedAt = q.checkedAt
        /\ to.epoch = epoch /\ to.consumedAt = now /\ Forwarded(to)
    BY <2>1 DEF Forwarded
  <2>3. Verified(to)
    BY <1>3, <2>2 DEF Verified
  <2>4. Verified(to)'
    BY <1>1, <2>3, TracesStay
  <2>5. Held(to)'
    BY <1>1, <1>4, <1>7, <2>2, StoreRemembers DEF Inv
  <2>6. Used(to)'
    BY <1>1, <2>2, <2>4, <2>5 DEF Used, Inv, TypeInv
  <2>7. \A u : Used(u) => Apart(u, to)
    BY <1>7, <2>2, FreshIsApart DEF Inv
  <2> QED
    BY <1>1, <1>3, <1>5, <2>1, <2>2, <2>6, <2>7, MoveInv DEF Pending
<1> QED
  BY <1>2, <1>6, <1>7 DEF Consume

(***************************************************************************)
(* The upstream acts on what was forwarded, or refuses it.                 *)
(***************************************************************************)
LEMMA UpstreamExecutesInv ==
  ASSUME Inv, NEW r \in Requests, UpstreamExecutes(r)
  PROVE  Inv'
<1>1. UNCHANGED <<now, deployment, config, receipts, auths, consumed, epoch>>
  BY DEF UpstreamExecutes
<1>2. PICK q : q = req[r]
  OBVIOUS
<1>3. PICK code : code = UpstreamAnswer("internal") /\ code # "EXECUTED"
  BY UpstreamAnswers
<1>4. Pending(q) /\ Used(q) /\ ~Acted(r)
  BY <1>2 DEF UpstreamExecutes, Inv, RequestsInv, AnswersInv, Pending
<1>5. PICK to : /\ to = IF q.at = "orphan" THEN [at |-> "lost"]
                        ELSE [at |-> "reply", answer |-> IF code = "OK" THEN "EXECUTED" ELSE code]
                /\ req' = [req EXCEPT ![r] = to]
  BY <1>2, <1>3 DEF UpstreamExecutes
<1>6. /\ to.at \in {"reply", "lost"}
      /\ to.at = "reply" => to.answer = IF code = "OK" THEN "EXECUTED" ELSE code
  BY <1>5
<1>7. /\ \A id \in DOMAIN consumed' : consumed'[id] \in Int
      /\ \A u : Used(u) => Held(u)'
  BY <1>1, HeldStays DEF Inv, TypeInv
<1>8. CASE code = "OK"
  <2>1. PICK e : /\ e = [by |-> r, auth |-> q.auth, intent |-> q.intent, checkedAt |-> q.checkedAt,
                         consumedAt |-> q.consumedAt, epoch |-> q.epoch]
                 /\ effects' = Append(effects, e)
    BY <1>2, <1>3, <1>8 DEF UpstreamExecutes, Perform
  <2>2. /\ e.by = r /\ e.auth = q.auth /\ e.intent = q.intent /\ e.checkedAt = q.checkedAt
        /\ e.consumedAt = q.consumedAt /\ e.epoch = q.epoch
    BY <2>1
  <2>3. Used(e)
    BY <1>4, <2>2 DEF Used, Verified, Held
  <2>4. Used(e)'
    <3>1. Verified(e)'
      BY <1>1, <2>3, TracesStay DEF Used
    <3>2. Held(e)'
      BY <1>7, <2>3
    <3> QED
      BY <1>1, <2>3, <3>1, <3>2 DEF Used
  <2>5. \A u : Apart(u, q) => Apart(u, e)
    BY <2>2 DEF Apart, Pruned
  <2>6. \A i \in DOMAIN effects : Apart(effects[i], e)
    BY <1>2, <1>4, <2>5 DEF Inv, ApartInv
  <2>7. \A s \in Requests \ {r} : Pending(req[s]) => Apart(req[s], e)
    BY <1>2, <1>4, <2>5 DEF Inv, ApartInv
  <2> QED
    BY <1>1, <1>4, <1>5, <1>6, <1>7, <1>8, <2>1, <2>2, <2>4, <2>6, <2>7, PerformInv
<1>9. CASE code # "OK"
  <2>1. effects' = effects
    BY <1>2, <1>3, <1>9 DEF UpstreamExecutes
  <2> QED
    BY <1>1, <1>3, <1>4, <1>5, <1>6, <1>7, <1>9, <2>1, MoveInv DEF Pending
<1> QED
  BY <1>8, <1>9

(***************************************************************************)
(* The demo verifies, consumes and executes at once.                       *)
(***************************************************************************)
LEMMA DemoExecuteInv ==
  ASSUME Inv, NEW r \in Requests, DemoExecute(r)
  PROVE  Inv'
<1>1. UNCHANGED <<now, deployment, config, receipts, auths, epoch>>
  BY DEF DemoExecute
<1>2. ~Acted(r)
  BY DEF DemoExecute, Inv, AnswersInv
<1>3. PICK sent, state, code, q :
        /\ sent \in UNION {Sendable(a) : a \in auths}
        /\ code = PepVerify(sent.auth, sent.intent, state)
        /\ q = [auth |-> sent.auth, intent |-> sent.intent, checkedAt |-> now, consumedAt |-> now, epoch |-> epoch]
        /\ IF code = "OK"
           THEN Perform(r, q) /\ Answer(r, "EXECUTED") /\ consumed' = consumeAuthId(sent.auth)
           ELSE Answer(r, code) /\ UNCHANGED <<counter, effects, consumed>>
  BY DEF DemoExecute
<1>4. CASE code # "OK"
  <2>1. PICK to : to = [at |-> "answered", answer |-> code] /\ req' = [req EXCEPT ![r] = to]
    BY <1>3, <1>4 DEF Answer
  <2>2. to.at = "answered" /\ to.answer # "EXECUTED"
    BY <1>3, <2>1, PepVerifyPasses
  <2>3. UNCHANGED <<effects, consumed>>
    BY <1>3, <1>4
  <2> QED
    BY <1>1, <1>2, <2>1, <2>2, <2>3, HeldStays, MoveInv DEF Inv, TypeInv, Pending
<1>5. CASE code = "OK"
  <2>1. BeforeState(sent.auth, sent.intent) = "OK" /\ Fresh(sent.auth.auth_id)
    BY <1>3, <1>5, PepVerifyPasses
  <2>2. /\ Traced(sent.auth, sent.intent) /\ sent.auth.policy_id \in KnownPolicies
        /\ sent.auth.expires_at > now
    <3>1. PICK a \in auths : sent \in Sendable(a)
      BY <1>3
    <3>2. Issued(a)
      BY DEF Inv, AuthsInv
    <3> QED
      BY <2>1, <3>1, <3>2, SentAsIssued, SiftConfig
  <2>3. PICK e : /\ e = [by |-> r, auth |-> q.auth, intent |-> q.intent, checkedAt |-> q.checkedAt,
                         consumedAt |-> q.consumedAt, epoch |-> q.epoch]
                 /\ effects' = Append(effects, e)
    BY <1>3, <1>5 DEF Perform
  <2>4. /\ e.by = r /\ e.auth = sent.auth /\ e.intent = sent.intent /\ e.checkedAt = now
        /\ e.consumedAt = now /\ e.epoch = epoch
    BY <1>3, <2>3
  <2>5. PICK to : to = [at |-> "answered", answer |-> "EXECUTED"] /\ req' = [req EXCEPT ![r] = to]
    BY <1>3, <1>5 DEF Answer
  <2>6. to.at = "answered" /\ to.answer = "EXECUTED"
    BY <2>5
  <2>7. sent.auth.expires_at \in Int /\ consumed' = consumeAuthId(sent.auth)
    BY <1>3, <1>5, <2>2 DEF Traced
  <2>8. /\ \A id \in DOMAIN consumed' : consumed'[id] \in Int
        /\ \A u : Used(u) => Held(u)'
        /\ Held(e)'
    BY <1>1, <2>1, <2>4, <2>7, StoreRemembers DEF Inv
  <2>9. Verified(e)
    BY <2>2, <2>4, <2>7 DEF Verified, Traced, Inv, TypeInv
  <2>10. Verified(e)'
    BY <1>1, <2>9, TracesStay
  <2>11. Used(e)'
    BY <1>1, <2>4, <2>8, <2>10 DEF Used, Inv, TypeInv
  <2>12. \A u : Used(u) => Apart(u, e)
    BY <2>1, <2>4, FreshIsApart DEF Inv
  <2>13. /\ \A i \in DOMAIN effects : Apart(effects[i], e)
         /\ \A s \in Requests \ {r} : Pending(req[s]) => Apart(req[s], e)
    BY <2>12 DEF Inv, EffectsInv, RequestsInv
  <2> QED
    BY <1>1, <1>2, <2>3, <2>4, <2>5, <2>6, <2>8, <2>11, <2>13, PerformInv
<1> QED
  BY <1>4, <1>5

----------------------------------------------------------------------------
(* The theorems *)

LEMMA NextInv ==
  ASSUME Inv, [Next]_vars
  PROVE  Inv'
<1>1. CASE \E r \in Requests : Handle(r)
  <2>1. PICK r \in Requests : Handle(r)
    BY <1>1
  <2> QED
    BY <2>1, DirectCallInv, ReceiveInv, ReadStateInv, StateFailsInv, ConsumeInv, UpstreamExecutesInv, ReplyInv,
       UpstreamUnreachableInv, DemoExecuteInv
    DEF Handle
<1> QED
  BY <1>1, IssueReceiptInv, AdaptInv, TickInv, RestartInv, OtherInv DEF Next

(***************************************************************************)
(* The invariant holds: receipts and authorizations are what their issuers *)
(* signed, what the enforcement point holds it verified, and the replay    *)
(* store remembers what it must (verifyReceipt.ts,                         *)
(* receiptToAuthorization.ts, pep-gateway/server.ts steps 1 to 10).        *)
(***************************************************************************)
THEOREM SiftHolds == Spec => []Inv
<1>1. Init => Inv
  BY InitInv
<1>2. Inv /\ [Next]_vars => Inv'
  BY NextInv
<1> QED
  BY <1>1, <1>2, PTL DEF Spec

(***************************************************************************)
(* Every effect goes back to a receipt that Sift signed as ALLOW for its   *)
(* tool and a known policy, and that was younger than the maximum age plus *)
(* the adapter's ttl when the enforcement point checked the expiry.        *)
(***************************************************************************)
THEOREM SiftEffectsTrace == Spec => []EffectsTraceToFreshAllow
<1>1. Inv => EffectsTraceToFreshAllow
  <2> SUFFICES ASSUME Inv, NEW i \in DOMAIN effects, NEW e, e = effects[i]
               PROVE  \E r \in receipts :
                        /\ r.nonce = e.auth.auth_id /\ r.decision = "ALLOW" /\ r.tool = e.intent.tool
                        /\ r.policy_matched = e.auth.policy_id /\ r.policy_matched \in KnownPolicies
                        /\ e.checkedAt - r.timestamp < MaxAge + config.ttlSeconds
    BY DEF EffectsTraceToFreshAllow
  <2>1. Verified(e)
    BY DEF Inv, EffectsInv, Used
  <2>2. PICK r \in receipts :
          /\ r.nonce = e.auth.auth_id /\ r.decision = "ALLOW" /\ r.tool = e.intent.tool
          /\ r.policy_matched = e.auth.policy_id /\ e.auth.issued_at - r.timestamp <= MaxAge
    BY <2>1 DEF Verified, Traced
  <2>3. /\ r.timestamp \in Int /\ config.ttlSeconds \in Int /\ MaxAge \in Int
        /\ {e.auth.issued_at, e.auth.expires_at, e.checkedAt} \subseteq Int
    BY <2>1, SiftConfig DEF Verified, Traced, Inv, TypeInv, ReceiptsInv, Genuine
  <2>4. e.checkedAt - r.timestamp < MaxAge + config.ttlSeconds
    BY <2>1, <2>2, <2>3 DEF Verified, Traced
  <2> QED
    BY <2>1, <2>2, <2>4 DEF Verified
<1> QED
  BY <1>1, SiftHolds, PTL

(***************************************************************************)
(* Two effects of one receipt only when the pruning store had dropped the  *)
(* first authorization, expired, or its process was another one            *)
(* (MemoryReplayStore and MapBackedReplayStore.consumeAuthId).             *)
(***************************************************************************)
THEOREM SiftSecondUse == Spec => []SecondUseOnlyAfterEviction
<1>1. Inv => SecondUseOnlyAfterEviction
  BY DEF Inv, ApartInv, Apart, Pruned, SecondUseOnlyAfterEviction
<1> QED
  BY <1>1, SiftHolds, PTL

(***************************************************************************)
(* A success means exactly one effect of the request, a refusal none, and  *)
(* UPSTREAM_UNREACHABLE at most one.                                       *)
(***************************************************************************)
THEOREM SiftAnswersMatch == Spec => []AnswersMatchEffects
<1>1. Inv => AnswersMatchEffects
  <2> SUFFICES ASSUME Inv, NEW r \in Requests, req[r].at = "answered",
                      NEW own, own = {i \in DOMAIN effects : effects[i].by = r}
               PROVE  IF req[r].answer = "UPSTREAM_UNREACHABLE" THEN Cardinality(own) <= 1
                      ELSE Cardinality(own) = IF req[r].answer = "EXECUTED" THEN 1 ELSE 0
    BY DEF AnswersMatchEffects
  <2>1. CASE Acted(r)
    <3>1. PICK i \in DOMAIN effects : effects[i].by = r
      BY <2>1 DEF Acted
    <3>2. own = {i}
      BY <3>1 DEF Inv, AnswersInv
    <3>3. Cardinality(own) = 1
      BY <3>2, FS_Singleton
    <3> QED
      BY <2>1, <3>3 DEF Inv, AnswersInv
  <2>2. CASE ~Acted(r)
    <3>1. own = {}
      BY <2>2 DEF Acted
    <3>2. Cardinality(own) = 0
      BY <3>1, FS_EmptySet
    <3> QED
      BY <2>2, <3>2 DEF Inv, AnswersInv
  <2> QED
    BY <2>1, <2>2
<1> QED
  BY <1>1, SiftHolds, PTL

=============================================================================
