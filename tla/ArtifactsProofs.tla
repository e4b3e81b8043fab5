-------------------------- MODULE ArtifactsProofs --------------------------
(***************************************************************************)
(* Proofs about signed artifacts, for every set of holders, key sets,      *)
(* options and scopes, and any number of changes on the way: an artifact   *)
(* is accepted once, as it was signed, and a delegation never widens.      *)
(***************************************************************************)
EXTENDS Artifacts, TLAPS

----------------------------------------------------------------------------
(* The shape of what travels; V holds the signature values, H the hashes.  *)

IdText == [id : {"a", "d"}, nfc : BOOLEAN]
Algs == {"Ed25519", "HMAC-SHA256", "none", Absent}
Kids == {"k", "w", Absent}

AuthorizationType(V) ==
  [ auth_id : IdText, issuer : Holders, audience : Agents, intent_hash : {"i"}, policy_id : Policies,
    decision : {"ALLOW", "DENY"}, issued_at : Int, expiry : Int, expires_at : Int,
    capability : {"read", Absent}, alg : Algs, kid : Kids,
    signature : [nested : BOOLEAN, alg : Algs, kid : Kids, value : V] ]

DelegationType(V, H) ==
  [ delegation_id : IdText, issuer : Holders, parent_auth_hash : H, delegator : Agents,
    delegatee : Agents, scope : Scopes, policy_id : Policies, issued_at : Int, expiry : Int,
    alg : {"Ed25519"}, kid : Kids, signature : V ]

Authorization(a) == a \in AuthorizationType({a.signature.value})
Delegation(d) == d \in DelegationType({d.signature}, {d.parent_auth_hash})

----------------------------------------------------------------------------
(***************************************************************************)
(* The inductive invariant.                                                *)
(*                                                                         *)
(* What a holder issued carries a signature over its own payload.          *)
(***************************************************************************)
Signer(s) == IF signatureParts(s.art).alg = "Ed25519" THEN s.by ELSE "secret"

IssuedInv ==
  \A s \in issued :
    /\ s.by \in Holders
    /\ s.kind = "authorization" =>
         /\ Authorization(s.art)
         /\ s.art.signature.value.by = Signer(s)
         /\ s.art.signature.value.over.payload = canonicalJson(authorizationSigningPayload(s.art))
    /\ s.kind = "delegation" =>
         /\ Delegation(s.art)
         /\ s.art.signature.by = s.by
         /\ s.art.signature.over.payload = canonicalJson(delegationSigningPayload(s.art))

\* Whatever changes on the way, a signature is one that a holder made.
SignatureOf(s) == IF s.kind = "authorization" THEN s.art.signature.value ELSE s.art.signature

Made(sig, kind) ==
  /\ sig = [by |-> sig.by, over |-> sig.over, enc |-> sig.enc]
  /\ \E s \in issued : s.kind = kind /\ sig.by = SignatureOf(s).by /\ sig.over = SignatureOf(s).over

TransitInv ==
  /\ auth # None =>
       Authorization(auth) /\ (auth.signature.value # None => Made(auth.signature.value, "authorization"))
  /\ deleg # None =>
       /\ deleg = [d |-> deleg.d, parentScope |-> deleg.parentScope]
       /\ Delegation(deleg.d) /\ deleg.parentScope \in Scopes
       /\ deleg.d.signature # None => Made(deleg.d.signature, "delegation")

TypeInv ==
  /\ now \in Nat /\ opts \in Options
  /\ log \in Seq({log[i] : i \in DOMAIN log})

\* What the boundary accepted it consumed, in the spelling it accepted.
ConsumedInv ==
  \A i \in DOMAIN log :
    /\ log[i].kind \in {"authorization", "delegation"}
    /\ IdOf(log[i]) \in IdText /\ IdOf(log[i]).nfc
    /\ IdOf(log[i]) \in consumed

Inv ==
  /\ TypeInv /\ IssuedInv /\ TransitInv /\ ConsumedInv
  /\ AcceptedOncePerArtifact /\ AcceptedAsSigned /\ DelegationNeverWidens

----------------------------------------------------------------------------
(* Payloads. *)

\* A payload names the fields it covers, and covers an expiry that is stated.
LEMMA PayloadCovers ==
  ASSUME NEW a, Authorization(a)
  PROVE  LET p == authorizationSigningPayload(a)
         IN /\ NormativeFields \subseteq DOMAIN p
            /\ \A f \in DOMAIN p \ {"signature"} : p[f] = a[f]
            /\ "capability" \in DOMAIN p <=> hasText(a.capability)
            /\ "expiry" \in DOMAIN p <=> ~a.signature.nested \/ isInteger(a.expiry)
            /\ "expires_at" \in DOMAIN p <=> a.signature.nested /\ isInteger(a.expires_at)
<1> DEFINE p == authorizationSigningPayload(a)
           flat == NormativeFields \cup {"expiry", "alg", "kid"} \cup Present(a, {"capability"})
           covered == NormativeFields \cup Present(a, {"expiry", "expires_at", "capability"})
<1>1. CASE ~a.signature.nested
  <2>1. p = [f \in flat |-> a[f]]
    BY <1>1 DEF authorizationSigningPayload, Restricted
  <2>2. "capability" \in flat <=> hasText(a.capability)
    BY DEF Present, NormativeFields
  <2>3. "expires_at" \notin flat /\ "expiry" \in flat
    BY DEF Present, NormativeFields
  <2> HIDE DEF flat
  <2> QED BY <2>1, <2>2, <2>3, <1>1 DEF flat
<1>2. CASE a.signature.nested
  <2>1. /\ "capability" \in covered <=> hasText(a.capability)
        /\ "expiry" \in covered <=> isInteger(a.expiry)
        /\ "expires_at" \in covered <=> isInteger(a.expires_at)
    BY DEF Present, NormativeFields
  <2>2. "signature" \notin covered /\ NormativeFields \subseteq covered
    BY DEF Present, NormativeFields
  <2> HIDE DEF covered
  <2>3. CASE hasText(a.alg) /\ hasText(a.kid)
    <3>1. p = [f \in covered \cup {"alg", "kid"} |-> a[f]]
      BY <1>2, <2>3 DEF authorizationSigningPayload, Restricted, covered
    <3> QED BY <3>1, <2>1, <2>2, <1>2
  <2>4. CASE ~(hasText(a.alg) /\ hasText(a.kid))
    <3>1. p = [ f \in covered \cup {"signature"} |->
                IF f = "signature" THEN [alg |-> a.signature.alg, kid |-> a.signature.kid] ELSE a[f] ]
      BY <1>2, <2>4 DEF authorizationSigningPayload, covered
    <3>2. DOMAIN p = covered \cup {"signature"} /\ \A f \in covered : p[f] = a[f]
      BY <3>1, <2>2
    <3> QED BY <3>2, <2>1, <2>2, <1>2
  <2> QED BY <2>3, <2>4
<1>3. a.signature.nested \in BOOLEAN
  BY DEF Authorization, AuthorizationType
<1> QED BY <1>1, <1>2, <1>3

\* Canonicalization keeps every field but the spelling of identifiers.
LEMMA CanonicalAgree ==
  ASSUME NEW p, NEW q, canonicalJson(p) = canonicalJson(q)
  PROVE  /\ DOMAIN p = DOMAIN q
         /\ \A f \in DOMAIN p : f \notin {"auth_id", "delegation_id"} => p[f] = q[f]
         /\ \A f \in DOMAIN p : f \in {"auth_id", "delegation_id"} => Nfc(p[f]) = Nfc(q[f])
<1>1. DOMAIN canonicalJson(p) = DOMAIN p /\ DOMAIN canonicalJson(q) = DOMAIN q
  BY DEF canonicalJson
<1>2. DOMAIN p = DOMAIN q
  BY <1>1
<1>3. ASSUME NEW f \in DOMAIN p PROVE canonicalJson(p)[f] = canonicalJson(q)[f]
  OBVIOUS
<1> QED BY <1>2, <1>3 DEF canonicalJson

(***************************************************************************)
(* Two authorizations whose payloads canonicalize alike agree in all that  *)
(* enforcement relies on, whichever encoding each of them uses.            *)
(***************************************************************************)
LEMMA SamePayloadSameReliance ==
  ASSUME NEW a, NEW b, Authorization(a), Authorization(b),
         canonicalJson(authorizationSigningPayload(a)) = canonicalJson(authorizationSigningPayload(b)),
         ~Fails(authorizationSigningPayload(a)), isInteger(effectiveExpiry(a))
  PROVE  Relied(a) = Relied(b)
<1> DEFINE p == authorizationSigningPayload(a)
           q == authorizationSigningPayload(b)
<1>1. /\ NormativeFields \subseteq DOMAIN p
      /\ \A f \in DOMAIN p \ {"signature"} : p[f] = a[f]
      /\ "capability" \in DOMAIN p <=> hasText(a.capability)
      /\ "expiry" \in DOMAIN p <=> ~a.signature.nested \/ isInteger(a.expiry)
      /\ "expires_at" \in DOMAIN p <=> a.signature.nested /\ isInteger(a.expires_at)
  BY PayloadCovers
<1>2. /\ \A f \in DOMAIN q \ {"signature"} : q[f] = b[f]
      /\ "capability" \in DOMAIN q <=> hasText(b.capability)
      /\ "expiry" \in DOMAIN q <=> ~b.signature.nested \/ isInteger(b.expiry)
      /\ "expires_at" \in DOMAIN q <=> b.signature.nested /\ isInteger(b.expires_at)
  BY PayloadCovers
<1>3. "expiry" \in DOMAIN p => p["expiry"] # NoInt
  BY DEF Fails
<1> HIDE DEF p, q
<1>4. /\ DOMAIN p = DOMAIN q
      /\ \A f \in DOMAIN p : f \notin {"auth_id", "delegation_id"} => p[f] = q[f]
      /\ \A f \in DOMAIN p : f \in {"auth_id", "delegation_id"} => Nfc(p[f]) = Nfc(q[f])
  BY CanonicalAgree DEF p, q
<1>5. \A f \in NormativeFields \ {"auth_id"} : a[f] = b[f]
  BY <1>1, <1>2, <1>4 DEF NormativeFields
<1>6. Nfc(a.auth_id) = Nfc(b.auth_id)
  BY <1>1, <1>2, <1>4 DEF NormativeFields
<1>7. a.capability = b.capability
  BY <1>1, <1>2, <1>4 DEF hasText
<1>8. effectiveExpiry(a) = effectiveExpiry(b)
  <2>1. CASE "expiry" \in DOMAIN p
    <3>1. a.expiry = b.expiry /\ isInteger(a.expiry)
      BY <2>1, <1>1, <1>2, <1>3, <1>4 DEF isInteger
    <3> QED BY <3>1 DEF effectiveExpiry
  <2>2. CASE "expiry" \notin DOMAIN p
    <3>1. ~isInteger(a.expiry) /\ ~isInteger(b.expiry) /\ a.signature.nested
      BY <2>2, <1>1, <1>2, <1>4
    <3>2. isInteger(a.expires_at)
      BY <3>1 DEF effectiveExpiry
    <3>3. a.expires_at = b.expires_at
      BY <3>1, <3>2, <1>1, <1>2, <1>4
    <3> QED BY <3>1, <3>3 DEF effectiveExpiry
  <2> QED BY <2>1, <2>2
<1> QED BY <1>5, <1>6, <1>7, <1>8 DEF Relied, NormativeFields

----------------------------------------------------------------------------
(* Verdicts. *)

LEMMA NoCodes ==
  ASSUME NEW table, Codes(table) = {}
  PROVE  \A row \in table : ~row[1]
BY DEF Codes

\* The key a check uses is the one that was found.
LEMMA FoundKey ==
  ASSUME NEW found, found # {}
  PROVE  (CHOOSE k \in found : TRUE) \in found
OBVIOUS

LEMMA FieldsHold ==
  ASSUME NEW a, FieldViolations(a) = {}
  PROVE  /\ CanonicalId(a.auth_id)
         /\ hasText(signatureParts(a).alg) /\ hasText(signatureParts(a).kid)
         /\ a.signature.value # None
         /\ isInteger(effectiveExpiry(a)) /\ ~(now >= effectiveExpiry(a))
<1> DEFINE table ==
        { <<a.decision # "ALLOW", "AUTH_DECISION_INVALID">>,
          <<\E f \in {"issuer", "audience", "intent_hash", "policy_id"} : ~hasText(a[f]), "AUTH_MISSING_FIELD">>,
          <<~CanonicalId(a.auth_id), "AUTH_ID_NONCANONICAL">>,
          <<~isInteger(a.issued_at), "AUTH_MISSING_FIELD">>,
          <<isInteger(a.issued_at) /\ a.issued_at > now + MaxSkew, "AUTH_ISSUED_AT_IMPLAUSIBLE">>,
          <<~hasText(signatureParts(a).alg) \/ ~hasText(signatureParts(a).kid), "AUTH_MISSING_FIELD">>,
          <<a.signature.value = None, "AUTH_MISSING_FIELD">>,
          <<~isInteger(effectiveExpiry(a)), "AUTH_MISSING_FIELD">>,
          <<isInteger(effectiveExpiry(a)) /\ now >= effectiveExpiry(a), "AUTH_EXPIRED">> }
<1>1. \A row \in table : ~row[1]
  <2>1. Codes(table) = {}
    BY DEF FieldViolations
  <2> HIDE DEF table
  <2> QED BY <2>1, NoCodes
<1>2. /\ ~ <<~CanonicalId(a.auth_id), "AUTH_ID_NONCANONICAL">>[1]
      /\ ~ <<~hasText(signatureParts(a).alg) \/ ~hasText(signatureParts(a).kid), "AUTH_MISSING_FIELD">>[1]
      /\ ~ <<a.signature.value = None, "AUTH_MISSING_FIELD">>[1]
      /\ ~ <<~isInteger(effectiveExpiry(a)), "AUTH_MISSING_FIELD">>[1]
      /\ ~ <<isInteger(effectiveExpiry(a)) /\ now >= effectiveExpiry(a), "AUTH_EXPIRED">>[1]
  BY <1>1, Zenon
<1> QED BY <1>2

LEMMA ExpectationsHold ==
  ASSUME NEW a, NEW o, ExpectationViolations(a, o) = {}
  PROVE  /\ o.authorities => <<a.issuer, a.policy_id>> \in AuthorityPairs
         /\ a.auth_id \notin consumed
<1> DEFINE table ==
        { <<hasText(o.expectedIssuer) /\ a.issuer # o.expectedIssuer, "AUTH_ISSUER_MISMATCH">>,
          <<hasText(o.expectedAudience) /\ a.audience # o.expectedAudience, "AUTH_AUDIENCE_MISMATCH">>,
          <<hasText(o.expectedPolicyId) /\ a.policy_id # o.expectedPolicyId, "AUTH_POLICY_ID_MISMATCH">>,
          <<o.authorities /\ ~isTrustedAuthorizationAuthority(a.issuer, a.policy_id), "AUTH_ISSUER_POLICY_NOT_AUTHORIZED">>,
          <<a.auth_id \in consumed, "AUTH_REPLAY">> }
<1>1. \A row \in table : ~row[1]
  <2>1. Codes(table) = {}
    BY DEF ExpectationViolations
  <2> HIDE DEF table
  <2> QED BY <2>1, NoCodes
<1>2. /\ ~ <<o.authorities /\ ~isTrustedAuthorizationAuthority(a.issuer, a.policy_id), "AUTH_ISSUER_POLICY_NOT_AUTHORIZED">>[1]
      /\ ~ <<a.auth_id \in consumed, "AUTH_REPLAY">>[1]
  BY <1>1, Zenon
<1> QED BY <1>2 DEF isTrustedAuthorizationAuthority

----------------------------------------------------------------------------
(***************************************************************************)
(* A signature that was checked and held was made over the artifact's own  *)
(* payload, by the key registered for its issuer or with the shared secret.*)
(***************************************************************************)
Keyed(ks, issuer, kid, by) ==
  \E k \in findKeyInKeySets(ks, issuer, kid) : k.pub = by /\ keyIsActiveAt(k, now)

Held(a) ==
  LET sig == a.signature.value
      payload == authorizationSigningPayload(a)
  IN /\ ~Fails(payload) /\ sig.over.payload = canonicalJson(payload)
     /\ sig.by = "secret" \/ Keyed(keySets, a.issuer, signatureParts(a).kid, sig.by)

LEMMA Ed25519Holds ==
  ASSUME NEW a, NEW o
  PROVE  LET s == Ed25519Check(a, o)
         IN /\ s.signatureVerified = TRUE => Held(a)
            /\ s.violations = {} /\ requireSig(o) => s.signatureVerified = TRUE
            /\ s.signatureVerified \in BOOLEAN
<1> DEFINE kid == signatureParts(a).kid
           sig == a.signature.value
           payload == authorizationSigningPayload(a)
           found == findKeyInKeySets(keySets, a.issuer, kid)
           key == CHOOSE k \in found : TRUE
           s == Ed25519Check(a, o)
           valid == verifyEd25519("AUTH_V1", payload, sig, key.pub) \/ verifyEd25519Raw(payload, sig, key.pub)
<1>1. CASE TrustedSets(o) = <<>>
  <2>1. s = Unchecked(IF requireSig(o) THEN {"AUTH_TRUST_MISSING"} ELSE {})
    BY <1>1 DEF Ed25519Check
  <2> QED BY <2>1 DEF Unchecked, Outcome
<1>2. CASE TrustedSets(o) # <<>> /\ found = {}
  <2>1. s = Unchecked({"AUTH_KID_UNKNOWN"})
    BY <1>2 DEF Ed25519Check
  <2> QED BY <2>1 DEF Unchecked, Outcome
<1>3. CASE TrustedSets(o) # <<>> /\ found # {} /\ ~keyIsActiveAt(key, now)
  <2>1. s = Unchecked({"AUTH_KEY_INACTIVE"})
    BY <1>3 DEF Ed25519Check
  <2> QED BY <2>1 DEF Unchecked, Outcome
<1>4. CASE TrustedSets(o) # <<>> /\ found # {} /\ keyIsActiveAt(key, now)
  <2>1. s = Checked(valid)
    BY <1>4 DEF Ed25519Check
  <2>2. valid \in BOOLEAN
    BY DEF verifyEd25519, verifyEd25519Raw
  <2>3. /\ s.signatureVerified = valid
        /\ s.violations = IF valid THEN {} ELSE {"AUTH_SIGNATURE_INVALID"}
    BY <2>1 DEF Checked, Outcome
  <2>4. ASSUME valid PROVE Held(a)
    <3>1. PICK domain : /\ ~Fails(payload) /\ key.pub \notin SmallOrder
                        /\ CryptoVerify(key.pub, signatureInput(domain, payload), sig)
      BY <2>4 DEF verifyEd25519, verifyEd25519Raw
    <3>2. sig.by = key.pub /\ sig.over = signatureInput(domain, payload)
      BY <3>1 DEF CryptoVerify
    <3>3. sig.over.payload = canonicalJson(payload)
      BY <3>2 DEF signatureInput
    <3>4. key \in found
      BY <1>4, FoundKey
    <3>5. Keyed(keySets, a.issuer, kid, sig.by)
      BY <3>2, <3>4, <1>4 DEF Keyed
    <3> QED BY <3>1, <3>3, <3>5 DEF Held
  <2> HIDE DEF s, valid
  <2> QED BY <2>2, <2>3, <2>4 DEF s
<1> QED BY <1>1, <1>2, <1>3, <1>4

LEMMA HmacHolds ==
  ASSUME NEW a, NEW o
  PROVE  LET s == HmacCheck(a, o)
         IN /\ s.signatureVerified = TRUE => Held(a) /\ a.signature.value.by = "secret"
            /\ s.violations = {} /\ requireSig(o) => s.signatureVerified = TRUE
            /\ s.signatureVerified \in BOOLEAN
<1> DEFINE sig == a.signature.value
           payload == authorizationSigningPayload(a)
           valid == verifyHmacDomain("AUTH_V1", payload, sig)
           s == HmacCheck(a, o)
<1>1. CASE o.legacyHmacSecret
  <2>1. s = Checked(valid)
    BY <1>1 DEF HmacCheck
  <2>2. /\ s.signatureVerified = valid
        /\ s.violations = IF valid THEN {} ELSE {"AUTH_SIGNATURE_INVALID"}
    BY <2>1 DEF Checked, Outcome
  <2>3. valid \in BOOLEAN
    BY DEF verifyHmacDomain
  <2>4. ASSUME valid PROVE Held(a) /\ sig.by = "secret"
    BY <2>4 DEF verifyHmacDomain, signatureInput, Held
  <2> HIDE DEF s, valid
  <2> QED BY <2>2, <2>3, <2>4 DEF s
<1>2. CASE ~o.legacyHmacSecret
  <2>1. s = Unchecked(IF requireSig(o) THEN {"AUTH_TRUST_MISSING"} ELSE {})
    BY <1>2 DEF HmacCheck
  <2> QED BY <2>1 DEF Unchecked, Outcome
<1> QED BY <1>1, <1>2

(***************************************************************************)
(* What an accepted authorization went through.                            *)
(***************************************************************************)
LEMMA AuthorizationVerified ==
  ASSUME NEW a, NEW o, verifyAuthorization(a, o).ok
  PROVE  /\ CanonicalId(a.auth_id) /\ a.auth_id \notin consumed
         /\ a.signature.value # None
         /\ isInteger(effectiveExpiry(a)) /\ ~(now >= effectiveExpiry(a))
         /\ o.authorities => <<a.issuer, a.policy_id>> \in AuthorityPairs
         /\ verifyAuthorization(a, o).signatureVerified \in BOOLEAN
         /\ o.mode = "strict" => verifyAuthorization(a, o).signatureVerified
         /\ verifyAuthorization(a, o).signatureVerified => Held(a)
<1> DEFINE s == SignatureCheck(a, o)
           r == verifyAuthorization(a, o)
           violations == FieldViolations(a) \cup ExpectationViolations(a, o) \cup s.violations
<1>1. ~(o.mode = "strict" /\ TrustedSets(o) = <<>>)
  BY DEF verifyAuthorization, Result, Unchecked, Outcome
<1>2. r = Result(Outcome(violations, s.signatureVerified, s.verificationCoverage))
  BY <1>1 DEF verifyAuthorization
<1>3. violations = {} /\ r.signatureVerified = s.signatureVerified
  <2>1. r.ok = (violations = {}) /\ r.signatureVerified = s.signatureVerified
    <3> HIDE DEF violations, s, r
    <3> QED BY <1>2 DEF Result, Outcome
  <2> QED BY <2>1
<1>4. /\ CanonicalId(a.auth_id) /\ a.signature.value # None
      /\ hasText(signatureParts(a).alg) /\ hasText(signatureParts(a).kid)
      /\ isInteger(effectiveExpiry(a)) /\ ~(now >= effectiveExpiry(a))
  BY <1>3, FieldsHold
<1>5. /\ o.authorities => <<a.issuer, a.policy_id>> \in AuthorityPairs
      /\ a.auth_id \notin consumed
  BY <1>3, ExpectationsHold
<1>6. s = Ed25519Check(a, o) \/ s = HmacCheck(a, o)
  <2>1. s # Unchecked({"AUTH_ALG_UNSUPPORTED"})
    BY <1>3 DEF Unchecked, Outcome
  <2> QED BY <2>1, <1>4 DEF SignatureCheck
<1>7. /\ s.signatureVerified = TRUE => Held(a)
      /\ s.violations = {} /\ requireSig(o) => s.signatureVerified = TRUE
      /\ s.signatureVerified \in BOOLEAN
  BY <1>6, Ed25519Holds, HmacHolds
<1>8. o.mode = "strict" => requireSig(o)
  BY DEF requireSig
<1> HIDE DEF s, r
<1> QED BY <1>3, <1>4, <1>5, <1>7, <1>8 DEF r

----------------------------------------------------------------------------
(* Delegations. *)

LEMMA DelegationFieldsHold ==
  ASSUME NEW d, NEW parentScope, NEW o, verifyDelegation(d, parentScope, o) = {}
  PROVE  /\ hasText(d.kid) /\ d.alg = "Ed25519" /\ d.signature # None
         /\ CanonicalId(d.delegation_id) /\ d.delegation_id \notin consumed
         /\ ScopeViolations(d.scope, parentScope) = {}
         /\ DelegationSignature(d, o) = {}
<1> DEFINE table ==
        { <<\E f \in {"issuer", "delegator", "delegatee", "policy_id", "alg", "kid"} : ~hasText(d[f]), "DELEGATION_MISSING_FIELD">>,
          <<d.signature = None, "DELEGATION_MISSING_FIELD">>,
          <<~isInteger(d.issued_at) \/ ~isInteger(d.expiry), "DELEGATION_MISSING_FIELD">>,
          <<hasText(d.alg) /\ d.alg # "Ed25519", "DELEGATION_ALG_UNSUPPORTED">>,
          <<isInteger(d.expiry) /\ now >= d.expiry, "DELEGATION_EXPIRED">>,
          <<isInteger(d.issued_at) /\ isInteger(d.expiry) /\ d.expiry <= d.issued_at, "DELEGATION_TEMPORAL_INVALID">>,
          <<isInteger(d.issued_at) /\ d.issued_at > now + MaxSkew, "DELEGATION_ISSUED_AT_IMPLAUSIBLE">>,
          <<hasText(o.expectedDelegatee) /\ d.delegatee # o.expectedDelegatee, "DELEGATION_AUDIENCE_MISMATCH">>,
          <<hasText(o.expectedPolicyId) /\ d.policy_id # o.expectedPolicyId, "DELEGATION_POLICY_MISMATCH">>,
          <<~CanonicalId(d.delegation_id), "DELEGATION_ID_NONCANONICAL">>,
          <<d.delegation_id \in consumed, "DELEGATION_REPLAY">>,
          <<o.signers /\ ~isTrustedDelegationAuthority(d.delegator, d.issuer), "DELEGATION_SIGNER_NOT_AUTHORIZED">> }
<1>1. /\ Codes(table) = {} /\ ScopeViolations(d.scope, parentScope) = {}
      /\ DelegationSignature(d, o) = {}
  BY DEF verifyDelegation
<1>2. \A row \in table : ~row[1]
  <2> HIDE DEF table
  <2> QED BY <1>1, NoCodes
<1>3. /\ ~ <<\E f \in {"issuer", "delegator", "delegatee", "policy_id", "alg", "kid"} : ~hasText(d[f]), "DELEGATION_MISSING_FIELD">>[1]
      /\ ~ <<d.signature = None, "DELEGATION_MISSING_FIELD">>[1]
      /\ ~ <<hasText(d.alg) /\ d.alg # "Ed25519", "DELEGATION_ALG_UNSUPPORTED">>[1]
      /\ ~ <<~CanonicalId(d.delegation_id), "DELEGATION_ID_NONCANONICAL">>[1]
      /\ ~ <<d.delegation_id \in consumed, "DELEGATION_REPLAY">>[1]
  BY <1>2, Zenon
<1> HIDE DEF table
<1>4. hasText(d.kid) /\ hasText(d.alg)
  BY <1>3
<1> QED BY <1>1, <1>3, <1>4

\* The holder of the key registered for the issuer signed this payload.
DelegationHeld(d) ==
  /\ d.signature.over.payload = canonicalJson(delegationSigningPayload(d))
  /\ Keyed(keySets, d.issuer, d.kid, d.signature.by)

LEMMA DelegationSignatureHolds ==
  ASSUME NEW d, NEW o, DelegationSignature(d, o) = {},
         hasText(d.kid), d.alg = "Ed25519", d.signature # None
  PROVE  DelegationHeld(d)
<1> DEFINE found == findKeyInKeySets(keySets, d.issuer, d.kid)
           key == CHOOSE k \in found : TRUE
           payload == delegationSigningPayload(d)
<1>1. found # {} /\ keyIsActiveAt(key, now)
      /\ verifyEd25519("DELEGATION_V1", payload, d.signature, key.pub)
  BY DEF DelegationSignature
<1>2. d.signature.by = key.pub /\ d.signature.over = signatureInput("DELEGATION_V1", payload)
  BY <1>1 DEF verifyEd25519, CryptoVerify
<1>3. key \in found
  BY <1>1, FoundKey
<1>4. Keyed(keySets, d.issuer, d.kid, d.signature.by)
  BY <1>1, <1>2, <1>3 DEF Keyed
<1> QED BY <1>2, <1>4 DEF DelegationHeld, signatureInput

\* Comparing the effective limits with the parent's is enough, because both
\* scopes were checked to hold numbers or nothing.
LEMMA ScopeNarrows ==
  ASSUME NEW child, NEW parent,
         child.limits \in [Limits -> Nat \cup {NoInt, Malformed}],
         parent.limits \in [Limits -> Nat \cup {NoInt, Malformed}],
         ScopeViolations(child, parent) = {}
  PROVE  LET eff == resolveEffectiveChildScope(child, parent)
         IN /\ \A l \in Limits : parent.limits[l] # NoInt =>
                 parent.limits[l] \in Nat /\ Allowed(eff, l) <= parent.limits[l]
            /\ parent.tools # NoTools => eff.tools # NoTools /\ eff.tools \subseteq parent.tools
<1> DEFINE eff == resolveEffectiveChildScope(child, parent)
<1>1. scopeTypeViolations(child) = {} /\ scopeTypeViolations(parent) = {}
  BY DEF ScopeViolations
<1>2. checkScopeNarrowing(child, parent) = {}
  BY <1>1 DEF ScopeViolations
<1>3. \A l \in Limits : child.limits[l] # Malformed /\ parent.limits[l] # Malformed
  BY <1>1 DEF scopeTypeViolations
<1>4. /\ \A l \in Limits : eff.limits[l] = IF child.limits[l] # NoInt THEN child.limits[l] ELSE parent.limits[l]
      /\ eff.tools = IF child.tools # NoTools THEN child.tools ELSE parent.tools
  BY DEF resolveEffectiveChildScope
<1>5. /\ ~(eff.tools # NoTools /\ parent.tools # NoTools /\ ~(eff.tools \subseteq parent.tools))
      /\ \A l \in Limits : ~Exceeds(eff.limits[l], parent.limits[l])
  BY <1>2 DEF checkScopeNarrowing
<1> HIDE DEF eff
<1>6. ASSUME NEW l \in Limits, parent.limits[l] # NoInt
      PROVE  parent.limits[l] \in Nat /\ Allowed(eff, l) <= parent.limits[l]
  <2>1. parent.limits[l] \in Nat /\ child.limits[l] \in Nat \cup {NoInt}
    BY <1>3, <1>6
  <2>2. eff.limits[l] \in Nat
    BY <2>1, <1>4, <1>6
  <2>3. ~(eff.limits[l] > parent.limits[l])
    BY <2>1, <2>2, <1>5 DEF Exceeds
  <2> QED BY <2>1, <2>2, <2>3 DEF Allowed
<1>7. parent.tools # NoTools => eff.tools # NoTools /\ eff.tools \subseteq parent.tools
  BY <1>4, <1>5
<1> QED BY <1>6, <1>7 DEF eff

----------------------------------------------------------------------------
(* What one entry of the log promises. *)

SignedEntry(e) ==
  /\ opts.mode = "strict" => e.verified
  /\ e.verified =>
       \E s \in issued :
         /\ s.kind = "authorization" /\ Relied(s.art) = Relied(e.art)
         /\ signatureParts(s.art).alg = "Ed25519" =>
               \E k \in KeyOf(e, signatureParts(e.art).kid) : k.pub = s.by /\ keyIsActiveAt(k, e.at)
         /\ e.at < effectiveExpiry(s.art)
         /\ opts.authorities => <<e.art.issuer, e.art.policy_id>> \in AuthorityPairs

NarrowEntry(e) ==
  LET eff == resolveEffectiveChildScope(e.art.scope, e.parentScope)
  IN /\ \A l \in Limits : e.parentScope.limits[l] # NoInt =>
          e.parentScope.limits[l] \in Nat /\ Allowed(eff, l) <= e.parentScope.limits[l]
     /\ e.parentScope.tools # NoTools => eff.tools # NoTools /\ eff.tools \subseteq e.parentScope.tools
     /\ e.at < effectiveExpiry(e.parent)
     /\ \E s \in issued : s.kind = "authorization" /\ Relied(s.art) = Relied(e.parent)
     /\ \E s \in issued :
          /\ s.kind = "delegation" /\ s.art.scope = e.art.scope
          /\ \E k \in KeyOf(e, e.art.kid) : k.pub = s.by

FreshEntry(e) ==
  /\ e.kind \in {"authorization", "delegation"}
  /\ IdOf(e) \in IdText /\ IdOf(e).nfc /\ IdOf(e) \notin consumed

LEMMA Entries ==
  /\ AcceptedAsSigned <=> \A i \in Accepted("authorization") : SignedEntry(log[i])
  /\ DelegationNeverWidens <=> \A i \in Accepted("delegation") : NarrowEntry(log[i])
BY DEF AcceptedAsSigned, DelegationNeverWidens, SignedEntry, NarrowEntry

LEMMA IdentifiersDiffer ==
  ASSUME NEW x \in IdText, NEW y \in IdText, x.nfc, y.nfc, x # y
  PROVE  Nfc(x) # Nfc(y)
BY DEF IdText, Nfc

(***************************************************************************)
(* One more entry, of an artifact that is fresh and keeps the promises.    *)
(***************************************************************************)
LEMMA LogGrows ==
  ASSUME Inv, NEW e, FreshEntry(e), log' = Append(log, e),
         e.kind = "authorization" => SignedEntry(e),
         e.kind = "delegation" => NarrowEntry(e),
         consumed \subseteq consumed', IdOf(e) \in consumed',
         UNCHANGED <<now, keySets, opts, issued, auth, deleg, changes>>
  PROVE  Inv'
<1>1. PICK n \in Nat : n = Len(log)
  BY DEF Inv, TypeInv
<1>2. /\ DOMAIN log = 1..n /\ DOMAIN log' = 1..n+1
      /\ log'[n+1] = e /\ \A i \in 1..n : log'[i] = log[i]
  BY <1>1 DEF Inv, TypeInv
<1>3. TypeInv'
  <2> DEFINE S == {log'[i] : i \in DOMAIN log'}
  <2>1. e \in S /\ \A i \in DOMAIN log : log[i] \in S
    <3>1. n + 1 \in DOMAIN log' /\ \A i \in DOMAIN log : i \in DOMAIN log'
      BY <1>2
    <3> QED BY <1>2, <3>1
  <2> HIDE DEF S
  <2>2. log \in Seq(S)
    BY <2>1, <1>1 DEF Inv, TypeInv
  <2>3. log' \in Seq(S)
    BY <2>1, <2>2
  <2> QED BY <2>3 DEF Inv, TypeInv, S
<1>4. IssuedInv' /\ TransitInv'
  BY DEF Inv, IssuedInv, TransitInv, Made
<1>5. ConsumedInv'
  BY <1>2 DEF Inv, ConsumedInv, FreshEntry
<1>6. \A i \in 1..n+1 : i \in 1..n \/ i = n+1
  BY <1>1
<1>7. AcceptedOncePerArtifact'
  <2> SUFFICES ASSUME NEW kind \in {"authorization", "delegation"},
                      NEW i \in Accepted(kind)', NEW j \in Accepted(kind)', i # j
               PROVE  Nfc(IdOf(log'[i])) # Nfc(IdOf(log'[j]))
    BY DEF AcceptedOncePerArtifact
  <2>1. i \in 1..n+1 /\ j \in 1..n+1 /\ log'[i].kind = kind /\ log'[j].kind = kind
    BY <1>2 DEF Accepted
  <2>2. ASSUME NEW k \in 1..n PROVE Nfc(IdOf(log[k])) # Nfc(IdOf(e)) 
    <3>1. IdOf(log[k]) \in IdText /\ IdOf(log[k]).nfc /\ IdOf(log[k]) \in consumed
      BY <1>2 DEF Inv, ConsumedInv
    <3> QED BY <3>1, IdentifiersDiffer DEF FreshEntry
  <2>3. CASE i \in 1..n /\ j \in 1..n
    BY <2>1, <2>3, <1>2 DEF Inv, AcceptedOncePerArtifact, Accepted
  <2> QED BY <2>1, <2>2, <2>3, <1>2, <1>6
<1>8. \A i \in Accepted("authorization") : SignedEntry(log[i])
  BY Entries DEF Inv
<1>9. \A i \in Accepted("delegation") : NarrowEntry(log[i])
  BY Entries DEF Inv
<1>10. AcceptedAsSigned'
  <2>1. ASSUME NEW i \in 1..n+1, log'[i].kind = "authorization" PROVE SignedEntry(log'[i])
    <3>1. CASE i \in 1..n
      <4>1. i \in Accepted("authorization")
        BY <1>2, <2>1, <3>1 DEF Accepted
      <4> QED BY <4>1, <3>1, <1>2, <1>8
    <3>2. CASE i = n+1
      BY <1>2, <2>1, <3>2
    <3> QED BY <1>6, <3>1, <3>2
  <2>2. \A i \in Accepted("authorization")' : i \in 1..n+1 /\ log'[i].kind = "authorization"
    BY <1>2 DEF Accepted
  <2> QED BY <2>1, <2>2 DEF AcceptedAsSigned, SignedEntry
<1>11. DelegationNeverWidens'
  <2>1. ASSUME NEW i \in 1..n+1, log'[i].kind = "delegation" PROVE NarrowEntry(log'[i])
    <3>1. CASE i \in 1..n
      <4>1. i \in Accepted("delegation")
        BY <1>2, <2>1, <3>1 DEF Accepted
      <4> QED BY <4>1, <3>1, <1>2, <1>9
    <3>2. CASE i = n+1
      BY <1>2, <2>1, <3>2
    <3> QED BY <1>6, <3>1, <3>2
  <2>2. \A i \in Accepted("delegation")' : i \in 1..n+1 /\ log'[i].kind = "delegation"
    BY <1>2 DEF Accepted
  <2> QED BY <2>1, <2>2 DEF DelegationNeverWidens, NarrowEntry
<1> QED BY <1>3, <1>4, <1>5, <1>7, <1>10, <1>11 DEF Inv

----------------------------------------------------------------------------
(* Steps that accept nothing. *)

LEMMA Quiet ==
  ASSUME Inv, UNCHANGED <<log, consumed, opts>>, issued \subseteq issued', now' \in Nat
  PROVE  /\ TypeInv' /\ ConsumedInv'
         /\ AcceptedOncePerArtifact' /\ AcceptedAsSigned' /\ DelegationNeverWidens'
<1>1. TypeInv' /\ ConsumedInv'
  BY DEF Inv, TypeInv, ConsumedInv
<1>2. AcceptedOncePerArtifact'
  BY DEF Inv, AcceptedOncePerArtifact, Accepted
<1>3. AcceptedAsSigned'
  BY DEF Inv, AcceptedAsSigned, Accepted
<1>4. DelegationNeverWidens'
  BY DEF Inv, DelegationNeverWidens, Accepted
<1> QED BY <1>1, <1>2, <1>3, <1>4

\* What was issued, and what travels unchanged, stays as it was.
LEMMA IssuedGrows ==
  ASSUME Inv, issued \subseteq issued'
  PROVE  /\ UNCHANGED issued => IssuedInv'
         /\ auth' = auth /\ auth # None =>
              Authorization(auth)' /\ (auth'.signature.value # None => Made(auth.signature.value, "authorization")')
         /\ deleg' = deleg /\ deleg # None =>
              /\ deleg' = [d |-> deleg'.d, parentScope |-> deleg'.parentScope]
              /\ Delegation(deleg.d)' /\ deleg'.parentScope \in Scopes
              /\ deleg'.d.signature # None => Made(deleg.d.signature, "delegation")'
<1>1. UNCHANGED issued => IssuedInv'
  BY DEF Inv, IssuedInv
<1>2. auth' = auth /\ auth # None =>
        Authorization(auth)' /\ (auth'.signature.value # None => Made(auth.signature.value, "authorization")')
  BY DEF Inv, TransitInv, Made
<1>3. deleg' = deleg /\ deleg # None =>
        /\ deleg' = [d |-> deleg'.d, parentScope |-> deleg'.parentScope]
        /\ Delegation(deleg.d)' /\ deleg'.parentScope \in Scopes
        /\ deleg'.d.signature # None => Made(deleg.d.signature, "delegation")'
  BY DEF Inv, TransitInv, Made
<1> QED BY <1>1, <1>2, <1>3

\* Putting the signature in changes neither the payload nor its header.
LEMMA Signed ==
  ASSUME NEW a \in AuthorizationType({None}), NEW v
  PROVE  LET b == [a EXCEPT !.signature.value = v]
         IN /\ Authorization(b) /\ b.signature.value = v
            /\ authorizationSigningPayload(b) = authorizationSigningPayload(a)
            /\ signatureParts(b) = signatureParts(a)
<1> DEFINE b == [a EXCEPT !.signature.value = v]
<1>1. b.signature.value = v /\ b \in AuthorizationType({v})
  BY DEF AuthorizationType
<1>2. \A f \in NormativeFields \cup {"expiry", "expires_at", "capability", "alg", "kid"} : b[f] = a[f]
  BY DEF AuthorizationType, NormativeFields
<1>3. /\ b.signature.nested = a.signature.nested /\ b.signature.alg = a.signature.alg
      /\ b.signature.kid = a.signature.kid /\ b.alg = a.alg /\ b.kid = a.kid
  BY DEF AuthorizationType
<1> HIDE DEF b
<1>4. ASSUME NEW F, F \subseteq {"expiry", "expires_at", "capability"} PROVE Present(b, F) = Present(a, F)
  <2>1. \A f \in F : b[f] = a[f]
    BY <1>2, <1>4
  <2>2. b.capability = a.capability
    BY <1>2
  <2>3. \A f \in F : f \in Present(b, F) <=> f \in Present(a, F)
    BY <2>1, <2>2 DEF Present
  <2> QED BY <2>3 DEF Present
<1>5. Present(b, {"capability"}) = Present(a, {"capability"})
      /\ Present(b, {"expiry", "expires_at", "capability"}) = Present(a, {"expiry", "expires_at", "capability"})
  BY <1>4
<1>6. \A f \in Present(a, {"expiry", "expires_at", "capability"}) \cup Present(a, {"capability"}) : b[f] = a[f]
  BY <1>2 DEF Present
<1>7. authorizationSigningPayload(b) = authorizationSigningPayload(a)
  BY <1>2, <1>3, <1>5, <1>6 DEF authorizationSigningPayload, Restricted
<1>8. signatureParts(b) = signatureParts(a)
  BY <1>3 DEF signatureParts
<1> QED BY <1>1, <1>7, <1>8 DEF Authorization, b

----------------------------------------------------------------------------
(* One lemma for each action. *)

LEMMA IssueAuthorizationInv ==
  ASSUME Inv, NEW h \in Holders, NEW i \in Holders, NEW p \in Policies, NEW shape \in Shapes,
         NEW alg \in {"Ed25519", "HMAC-SHA256"}, IssueAuthorization(h, i, p, shape, alg)
  PROVE  Inv'
<1> DEFINE nested == shape # "flat"
           flatHeader == shape \in {"flat", "nestedFlat"}
           a == [ auth_id |-> [id |-> "a", nfc |-> TRUE], issuer |-> i, audience |-> Owner,
                  intent_hash |-> "i", policy_id |-> p, decision |-> "ALLOW", issued_at |-> now,
                  expiry |-> IF shape = "expiresAt" THEN NoInt ELSE now + Lifetime,
                  expires_at |-> IF shape = "expiresAt" THEN now + Lifetime ELSE NoInt,
                  capability |-> "read", alg |-> IF flatHeader THEN alg ELSE Absent,
                  kid |-> IF flatHeader THEN "k" ELSE Absent,
                  signature |-> [nested |-> nested, alg |-> IF nested THEN alg ELSE Absent,
                                 kid |-> IF nested THEN "k" ELSE Absent, value |-> None] ]
           signed == IF alg = "Ed25519" THEN signAuthorizationEd25519(a, h)
                     ELSE [a EXCEPT !.signature.value = Sign("secret", "AUTH_V1", authorizationSigningPayload(a))]
           entry == [kind |-> "authorization", by |-> h, art |-> signed]
<1>1. /\ auth' = signed /\ issued' = issued \cup {entry}
      /\ UNCHANGED <<now, keySets, opts, deleg, consumed, log, changes>>
  BY DEF IssueAuthorization
<1>2. a \in AuthorizationType({None})
  BY ArtifactsConfig DEF AuthorizationType, IdText, Algs, Kids, Lifetime, NoInt, Inv, TypeInv
<1>3. signatureParts(a).alg = alg
  BY DEF signatureParts
<1> HIDE DEF a
<1>4. PICK v, domain : /\ signed = [a EXCEPT !.signature.value = v]
                       /\ v = Sign(IF alg = "Ed25519" THEN h ELSE "secret", domain, authorizationSigningPayload(a))
  BY DEF signAuthorizationEd25519
<1>5. /\ Authorization(signed) /\ signed.signature.value = v
      /\ authorizationSigningPayload(signed) = authorizationSigningPayload(a)
      /\ signatureParts(signed) = signatureParts(a)
  BY <1>2, <1>4, Signed
<1> HIDE DEF signed
<1>6. /\ v = [by |-> v.by, over |-> v.over, enc |-> v.enc]
      /\ v.by = IF alg = "Ed25519" THEN h ELSE "secret"
      /\ v.over.payload = canonicalJson(authorizationSigningPayload(a))
  BY <1>4 DEF Sign, signatureInput
<1>7. IssuedInv'
  <2> SUFFICES ASSUME NEW s \in issued' PROVE
        /\ s.by \in Holders
        /\ s.kind = "authorization" =>
             /\ Authorization(s.art)
             /\ s.art.signature.value.by = Signer(s)
             /\ s.art.signature.value.over.payload = canonicalJson(authorizationSigningPayload(s.art))
        /\ s.kind = "delegation" =>
             /\ Delegation(s.art)
             /\ s.art.signature.by = s.by
             /\ s.art.signature.over.payload = canonicalJson(delegationSigningPayload(s.art))
    BY DEF IssuedInv
  <2>1. CASE s \in issued
    BY <2>1 DEF Inv, IssuedInv
  <2>2. CASE s = entry
    BY <2>2, <1>3, <1>5, <1>6 DEF Signer
  <2> QED BY <1>1, <2>1, <2>2
<1>8. TransitInv'
  <2>1. Made(v, "authorization")'
    <3>1. entry \in issued' /\ entry.kind = "authorization" /\ SignatureOf(entry) = v
      BY <1>1, <1>5 DEF SignatureOf
    <3> HIDE DEF entry
    <3> QED BY <3>1, <1>6 DEF Made
  <2>2. Authorization(auth)' /\ auth'.signature.value = v
    BY <1>1, <1>5 DEF Authorization
  <2> QED BY <1>1, <2>1, <2>2, IssuedGrows DEF TransitInv, Made
<1>9. issued \subseteq issued' /\ now' \in Nat
  BY <1>1 DEF Inv, TypeInv
<1> QED BY <1>1, <1>7, <1>8, <1>9, Quiet DEF Inv

LEMMA IssueDelegationInv ==
  ASSUME Inv, NEW h \in Holders, NEW i \in Holders, NEW scope \in Scopes, NEW ps \in Scopes,
         IssueDelegation(h, i, scope, ps)
  PROVE  Inv'
<1>1. PICK expiry \in {now + 1, now + Lifetime + 1} :
        LET d == createDelegation(auth, i, Delegatee, scope, expiry, h)
        IN /\ deleg' = [d |-> d, parentScope |-> ps]
           /\ issued' = issued \cup {[kind |-> "delegation", by |-> h, art |-> d]}
  BY DEF IssueDelegation
<1> DEFINE bare == [ delegation_id |-> [id |-> "d", nfc |-> TRUE], issuer |-> i,
                     parent_auth_hash |-> delegationParentHash(auth), delegator |-> auth.audience,
                     delegatee |-> Delegatee, scope |-> scope, policy_id |-> auth.policy_id,
                     issued_at |-> now, expiry |-> expiry, alg |-> "Ed25519", kid |-> "k", signature |-> None ]
           v == Sign(h, "DELEGATION_V1", delegationSigningPayload(bare))
           d == [bare EXCEPT !.signature = v]
           entry == [kind |-> "delegation", by |-> h, art |-> d]
<1>2. /\ deleg' = [d |-> d, parentScope |-> ps] /\ issued' = issued \cup {entry}
      /\ auth # None /\ UNCHANGED <<now, keySets, opts, auth, consumed, log, changes>>
  BY <1>1 DEF IssueDelegation, createDelegation
<1>3. Authorization(auth)
  BY <1>2 DEF Inv, TransitInv
<1>4. Delegation(d) /\ d.signature = v
  <2>1. auth.audience \in Agents /\ auth.policy_id \in Policies
    BY <1>3 DEF Authorization, AuthorizationType
  <2>2. expiry \in Int /\ now \in Int
    BY DEF Inv, TypeInv, Lifetime
  <2> HIDE DEF v
  <2> QED BY <2>1, <2>2, ArtifactsConfig DEF Delegation, DelegationType, IdText, Kids
<1>5. delegationSigningPayload(d) = delegationSigningPayload(bare)
  <2> HIDE DEF v
  <2>1. DOMAIN d = DOMAIN bare /\ \A f \in DOMAIN bare \ {"signature"} : d[f] = bare[f]
    OBVIOUS
  <2> HIDE DEF d, bare
  <2> QED BY <2>1 DEF delegationSigningPayload
<1> HIDE DEF d
<1>6. /\ v = [by |-> v.by, over |-> v.over, enc |-> v.enc] /\ v.by = h
      /\ v.over.payload = canonicalJson(delegationSigningPayload(bare))
  BY DEF Sign, signatureInput
<1> HIDE DEF v, bare
<1>7. IssuedInv'
  <2> SUFFICES ASSUME NEW s \in issued' PROVE
        /\ s.by \in Holders
        /\ s.kind = "authorization" =>
             /\ Authorization(s.art)
             /\ s.art.signature.value.by = Signer(s)
             /\ s.art.signature.value.over.payload = canonicalJson(authorizationSigningPayload(s.art))
        /\ s.kind = "delegation" =>
             /\ Delegation(s.art)
             /\ s.art.signature.by = s.by
             /\ s.art.signature.over.payload = canonicalJson(delegationSigningPayload(s.art))
    BY DEF IssuedInv
  <2>1. CASE s \in issued
    BY <2>1 DEF Inv, IssuedInv
  <2>2. CASE s = entry
    BY <2>2, <1>4, <1>5, <1>6
  <2> QED BY <1>2, <2>1, <2>2
<1>8. TransitInv'
  <2> PICK w : w = v
    OBVIOUS
  <2>1. Made(w, "delegation")'
    <3>1. entry \in issued' /\ entry.kind = "delegation" /\ SignatureOf(entry) = w
      BY <1>2, <1>4 DEF SignatureOf
    <3> HIDE DEF entry
    <3> QED BY <3>1, <1>6 DEF Made
  <2>2. /\ deleg' = [d |-> deleg'.d, parentScope |-> deleg'.parentScope]
        /\ Delegation(deleg.d)' /\ deleg'.d.signature = w
        /\ deleg'.parentScope \in Scopes
    BY <1>2, <1>4 DEF Delegation
  <2>3. issued \subseteq issued'
    BY <1>2
  <2> QED BY <1>2, <2>1, <2>2, <2>3, IssuedGrows DEF TransitInv, Made
<1>9. issued \subseteq issued' /\ now' \in Nat
  BY <1>2 DEF Inv, TypeInv
<1> QED BY <1>2, <1>7, <1>8, <1>9, Quiet DEF Inv

\* Whatever is changed, a signature that is left is still the one made.
Copy(sig, of) ==
  sig = [by |-> sig.by, over |-> sig.over, enc |-> sig.enc] /\ sig.by = of.by /\ sig.over = of.over

LEMMA AlteredAuthorization ==
  ASSUME NEW a, Authorization(a), Copy(a.signature.value, a.signature.value), now \in Nat,
         NEW b \in OtherAuthorizations(a)
  PROVE  Authorization(b) /\ (b.signature.value = None \/ Copy(b.signature.value, a.signature.value))
<1> DEFINE v == a.signature.value
<1>0. a \in AuthorizationType({v}) /\ MaxSkew \in Int
  BY ArtifactsConfig DEF Authorization
<1>1. CASE b.signature = a.signature /\ b \in AuthorizationType({v})
  BY <1>1 DEF Authorization
<1>2. CASE b = [a EXCEPT !.auth_id.nfc = ~@]
  <2>1. PICK id : id = [a.auth_id EXCEPT !.nfc = ~a.auth_id.nfc]
    OBVIOUS
  <2>2. id \in IdText
    BY <1>0, <2>1, Zenon DEF AuthorizationType, IdText
  <2>3. b = [a EXCEPT !.auth_id = id]
    BY <1>2, <2>1, Zenon
  <2>4. b.signature = a.signature /\ b \in AuthorizationType({v})
    BY <1>0, <2>2, <2>3 DEF AuthorizationType
  <2> QED BY <1>1, <2>4
<1>3. CASE \/ b = [a EXCEPT !.decision = "DENY"]
           \/ \E n \in Int : \/ b = [a EXCEPT !.issued_at = n] \/ b = [a EXCEPT !.expiry = n]
                             \/ b = [a EXCEPT !.expires_at = n]
                             \/ b = [a EXCEPT !.expiry = NoInt, !.expires_at = n]
  <2>1. b.signature = a.signature /\ b \in AuthorizationType({v})
    <3>1. CASE b = [a EXCEPT !.decision = "DENY"]
      BY <1>0, <3>1 DEF AuthorizationType
    <3>2. ASSUME NEW n \in Int, b = [a EXCEPT !.issued_at = n]
          PROVE  b.signature = a.signature /\ b \in AuthorizationType({v})
      BY <1>0, <3>2 DEF AuthorizationType
    <3>3. ASSUME NEW n \in Int, b = [a EXCEPT !.expiry = n]
          PROVE  b.signature = a.signature /\ b \in AuthorizationType({v})
      BY <1>0, <3>3 DEF AuthorizationType
    <3>4. ASSUME NEW n \in Int, b = [a EXCEPT !.expires_at = n]
          PROVE  b.signature = a.signature /\ b \in AuthorizationType({v})
      BY <1>0, <3>4 DEF AuthorizationType
    <3>5. ASSUME NEW n \in Int, b = [a EXCEPT !.expiry = NoInt, !.expires_at = n]
          PROVE  b.signature = a.signature /\ b \in AuthorizationType({v})
      <4> DEFINE c == [a EXCEPT !.expiry = NoInt]
      <4>1. c.signature = a.signature /\ c \in AuthorizationType({v})
        BY <1>0 DEF AuthorizationType, NoInt
      <4>2. b = [c EXCEPT !.expires_at = n]
        BY <3>5
      <4> HIDE DEF c
      <4> QED BY <4>1, <4>2 DEF AuthorizationType
    <3> QED BY <1>3, <3>1, <3>2, <3>3, <3>4, <3>5
  <2> QED BY <1>1, <2>1
<1>10. \/ b = [a EXCEPT !.issued_at = @ + MaxSkew + 2]
       \/ b \in { [a EXCEPT !.expiry = now + Lifetime + 2], [a EXCEPT !.expires_at = now + Lifetime + 2],
                   [a EXCEPT !.expiry = NoInt, !.expires_at = now + Lifetime + 2] }
       => \E n \in Int : \/ b = [a EXCEPT !.issued_at = n] \/ b = [a EXCEPT !.expiry = n]
                         \/ b = [a EXCEPT !.expires_at = n]
                         \/ b = [a EXCEPT !.expiry = NoInt, !.expires_at = n]
  <2>1. a.issued_at + MaxSkew + 2 \in Int /\ now + Lifetime + 2 \in Int
    BY <1>0 DEF AuthorizationType, Lifetime
  <2> QED BY <2>1, Zenon
<1>4. CASE b \in { [a EXCEPT !.capability = Absent], [a EXCEPT !.alg = "none"], [a EXCEPT !.kid = "w"] }
  <2>1. b.signature = a.signature /\ b \in AuthorizationType({v})
    BY <1>0, <1>4 DEF AuthorizationType, Algs, Kids
  <2> QED BY <1>1, <2>1
<1>5. CASE b \in {[a EXCEPT !.issuer = h] : h \in Holders} \cup {[a EXCEPT !.policy_id = p] : p \in Policies}
                   \cup {[a EXCEPT !.audience = g] : g \in Agents}
  <2>1. b.signature = a.signature /\ b \in AuthorizationType({v})
    BY <1>0, <1>5 DEF AuthorizationType
  <2> QED BY <1>1, <2>1
<1>6. CASE b = [a EXCEPT !.signature.kid = "w"]
  <2>1. b.signature.value = v /\ b \in AuthorizationType({v})
    BY <1>0, <1>6 DEF AuthorizationType, Kids
  <2> QED BY <2>1 DEF Authorization
<1>7. CASE b = [a EXCEPT !.signature.value = None]
  <2>1. b.signature.value = None /\ b \in AuthorizationType({None})
    BY <1>0, <1>7 DEF AuthorizationType
  <2> QED BY <2>1 DEF Authorization
<1>8. ASSUME NEW e, b = [a EXCEPT !.signature.value.enc = e]
      PROVE  Authorization(b) /\ Copy(b.signature.value, a.signature.value)
  <2>1. Copy([v EXCEPT !.enc = e], v)
    BY DEF Copy
  <2>2. b = [a EXCEPT !.signature.value = [v EXCEPT !.enc = e]]
    BY <1>8
  <2> DEFINE w == [v EXCEPT !.enc = e]
  <2>3. b.signature.value = w /\ b \in AuthorizationType({w})
    <3> HIDE DEF w
    <3>1. b = [a EXCEPT !.signature.value = w]
      BY <2>2 DEF w
    <3> QED BY <1>0, <3>1 DEF AuthorizationType
  <2> QED BY <2>1, <2>3 DEF Authorization
<1>9. CASE b \in { [a EXCEPT !.signature.value.enc = "base64url"], [a EXCEPT !.signature.value.enc = "loose"] }
  BY <1>8, <1>9
<1> QED BY <1>2, <1>3, <1>4, <1>5, <1>6, <1>7, <1>9, <1>10, Zenon DEF OtherAuthorizations

LEMMA AlteredDelegation ==
  ASSUME NEW d, Delegation(d), Copy(d.signature, d.signature), NEW b \in OtherDelegations(d)
  PROVE  Delegation(b) /\ (b.signature = None \/ Copy(b.signature, d.signature))
<1> DEFINE v == d.signature
           H == {d.parent_auth_hash}
<1>0. d \in DelegationType({v}, H)
  BY DEF Delegation
<1>1. CASE b.signature = v /\ b.parent_auth_hash = d.parent_auth_hash /\ b \in DelegationType({v}, H)
  BY <1>1 DEF Delegation
<1>2. CASE b \in {[d EXCEPT !.delegation_id.nfc = ~@], [d EXCEPT !.expiry = @ + 1], [d EXCEPT !.kid = "w"]}
  <2>1. b.signature = v /\ b.parent_auth_hash = d.parent_auth_hash /\ b \in DelegationType({v}, H)
    <3>1. CASE b = [d EXCEPT !.delegation_id.nfc = ~@]
      <4>1. PICK id : id = [d.delegation_id EXCEPT !.nfc = ~d.delegation_id.nfc]
        OBVIOUS
      <4>2. id \in IdText
        BY <1>0, <4>1, Zenon DEF DelegationType, IdText
      <4>3. b = [d EXCEPT !.delegation_id = id]
        BY <3>1, <4>1, Zenon
      <4> QED BY <1>0, <4>2, <4>3 DEF DelegationType
    <3>2. CASE b = [d EXCEPT !.expiry = @ + 1]
      BY <1>0, <3>2 DEF DelegationType
    <3>3. CASE b = [d EXCEPT !.kid = "w"]
      BY <1>0, <3>3 DEF DelegationType, Kids
    <3> QED BY <1>2, <3>1, <3>2, <3>3
  <2> QED BY <1>1, <2>1
<1>3. CASE b \in {[d EXCEPT !.delegatee = g] : g \in Agents} \cup {[d EXCEPT !.delegator = g] : g \in Agents}
                   \cup {[d EXCEPT !.issuer = h] : h \in Holders} \cup {[d EXCEPT !.scope = s] : s \in Scopes}
  <2>1. b.signature = v /\ b.parent_auth_hash = d.parent_auth_hash /\ b \in DelegationType({v}, H)
    BY <1>0, <1>3 DEF DelegationType
  <2> QED BY <1>1, <2>1
<1>4. CASE b = [d EXCEPT !.signature = None]
  <2>1. b.signature = None /\ b.parent_auth_hash = d.parent_auth_hash /\ b \in DelegationType({None}, H)
    BY <1>0, <1>4 DEF DelegationType
  <2> QED BY <2>1 DEF Delegation
<1>5. CASE b = [d EXCEPT !.signature.enc = "base64url"]
  <2> DEFINE w == [v EXCEPT !.enc = "base64url"]
  <2>1. Copy(w, v)
    BY DEF Copy
  <2>2. b.signature = w /\ b.parent_auth_hash = d.parent_auth_hash /\ b \in DelegationType({w}, H)
    <3> HIDE DEF w
    <3>1. b = [d EXCEPT !.signature = w]
      BY <1>5 DEF w
    <3> QED BY <1>0, <3>1 DEF DelegationType
  <2> QED BY <2>1, <2>2 DEF Delegation
<1> QED BY <1>2, <1>3, <1>4, <1>5, Zenon DEF OtherDelegations

LEMMA ChangeAuthorizationInv ==
  ASSUME Inv, ChangeAuthorization
  PROVE  Inv'
<1>1. /\ auth # None /\ auth.signature.value # None /\ auth' \in OtherAuthorizations(auth)
      /\ UNCHANGED <<now, keySets, opts, issued, deleg, consumed, log>>
  BY DEF ChangeAuthorization
<1>2. PICK a, b : a = auth /\ b = auth'
  OBVIOUS
<1>3. Authorization(a) /\ Made(a.signature.value, "authorization")
  BY <1>1, <1>2 DEF Inv, TransitInv
<1>4. Authorization(b) /\ (b.signature.value = None \/ Copy(b.signature.value, a.signature.value))
  BY <1>1, <1>2, <1>3, AlteredAuthorization DEF Made, Copy, Inv, TypeInv
<1>5. Authorization(auth)' /\ (auth'.signature.value # None => Made(b.signature.value, "authorization")')
  BY <1>1, <1>2, <1>3, <1>4 DEF Authorization, Made, Copy
<1>6. TransitInv'
  BY <1>1, <1>2, <1>5, IssuedGrows DEF TransitInv, Made
<1>7. issued \subseteq issued' /\ now' \in Nat
  BY <1>1 DEF Inv, TypeInv
<1> QED BY <1>1, <1>6, <1>7, Quiet, IssuedGrows DEF Inv

LEMMA ChangeDelegationInv ==
  ASSUME Inv, ChangeDelegation
  PROVE  Inv'
<1>1. PICK b \in OtherDelegations(deleg.d) : deleg' = [deleg EXCEPT !.d = b]
  BY DEF ChangeDelegation
<1>2. /\ deleg # None /\ deleg.d.signature # None
      /\ UNCHANGED <<now, keySets, opts, issued, auth, consumed, log>>
  BY DEF ChangeDelegation
<1>3. PICK d : d = deleg.d
  OBVIOUS
<1>4. /\ Delegation(d) /\ Made(d.signature, "delegation")
      /\ deleg = [d |-> deleg.d, parentScope |-> deleg.parentScope] /\ deleg.parentScope \in Scopes
  BY <1>2, <1>3 DEF Inv, TransitInv
<1>5. Delegation(b) /\ (b.signature = None \/ Copy(b.signature, d.signature))
  BY <1>1, <1>3, <1>4, AlteredDelegation DEF Made, Copy
<1>6. deleg'.d = b /\ deleg'.parentScope = deleg.parentScope
      /\ deleg' = [d |-> deleg'.d, parentScope |-> deleg'.parentScope]
  <2>1. deleg' = [d |-> b, parentScope |-> deleg.parentScope]
    BY <1>1, <1>4
  <2> QED BY <2>1
<1>7. Delegation(deleg.d)' /\ (deleg'.d.signature # None => Made(b.signature, "delegation")')
  BY <1>2, <1>4, <1>5, <1>6 DEF Delegation, Made, Copy
<1>8. TransitInv'
  BY <1>2, <1>4, <1>6, <1>7, IssuedGrows DEF TransitInv, Made
<1>9. issued \subseteq issued' /\ now' \in Nat
  BY <1>2 DEF Inv, TypeInv
<1> QED BY <1>2, <1>8, <1>9, Quiet, IssuedGrows DEF Inv

(***************************************************************************)
(* An authorization whose signature held is, in all that is relied on, one *)
(* that was issued.                                                        *)
(***************************************************************************)
LEMMA HeldWasIssued ==
  ASSUME Inv, NEW a, Authorization(a), Made(a.signature.value, "authorization"), Held(a),
         isInteger(effectiveExpiry(a))
  PROVE  \E s \in issued :
           /\ s.kind = "authorization" /\ Relied(s.art) = Relied(a)
           /\ signatureParts(s.art).alg = "Ed25519" =>
                Keyed(keySets, a.issuer, signatureParts(a).kid, s.by)
<1>1. PICK s \in issued : /\ s.kind = "authorization"
                          /\ a.signature.value.by = SignatureOf(s).by
                          /\ a.signature.value.over = SignatureOf(s).over
  BY DEF Made
<1>2. /\ s.by \in Holders /\ Authorization(s.art)
      /\ s.art.signature.value.by = Signer(s)
      /\ s.art.signature.value.over.payload = canonicalJson(authorizationSigningPayload(s.art))
  BY <1>1 DEF Inv, IssuedInv
<1>3. canonicalJson(authorizationSigningPayload(a)) = canonicalJson(authorizationSigningPayload(s.art))
  BY <1>1, <1>2 DEF Held, SignatureOf
<1>4. Relied(a) = Relied(s.art)
  BY <1>2, <1>3, SamePayloadSameReliance DEF Held
<1>5. ASSUME signatureParts(s.art).alg = "Ed25519"
      PROVE  Keyed(keySets, a.issuer, signatureParts(a).kid, s.by)
  <2>1. a.signature.value.by = s.by /\ s.by # "secret"
    BY <1>1, <1>2, <1>5, ArtifactsConfig DEF Signer, SignatureOf
  <2> QED BY <2>1 DEF Held
<1> QED BY <1>1, <1>4, <1>5

LEMMA SameReliance ==
  ASSUME NEW a, NEW b, Relied(a) = Relied(b)
  PROVE  effectiveExpiry(a) = effectiveExpiry(b)
BY DEF Relied

LEMMA PresentAuthorizationInv ==
  ASSUME Inv, PresentAuthorization
  PROVE  Inv'
<1> DEFINE r == verifyAuthorization(auth, opts)
           e == Entry("authorization", auth, r.signatureVerified)
<1>1. /\ auth # None
      /\ log' = IF r.ok THEN Append(log, e) ELSE log
      /\ consumed' = IF r.ok THEN consumed \cup {auth.auth_id} ELSE consumed
      /\ UNCHANGED <<now, keySets, opts, issued, auth, deleg, changes>>
  BY DEF PresentAuthorization
<1>2. CASE ~r.ok
  <2>1. UNCHANGED <<log, consumed, opts>> /\ issued \subseteq issued' /\ now' \in Nat
    BY <1>1, <1>2 DEF Inv, TypeInv
  <2>2. TransitInv'
    BY <1>1, <2>1 DEF Inv, TransitInv, Made
  <2> QED BY <1>1, <2>1, <2>2, Quiet, IssuedGrows DEF Inv
<1>3. CASE r.ok
  <2>1. /\ CanonicalId(auth.auth_id) /\ auth.auth_id \notin consumed
        /\ auth.signature.value # None
        /\ isInteger(effectiveExpiry(auth)) /\ ~(now >= effectiveExpiry(auth))
        /\ opts.authorities => <<auth.issuer, auth.policy_id>> \in AuthorityPairs
        /\ r.signatureVerified \in BOOLEAN
        /\ opts.mode = "strict" => r.signatureVerified
        /\ r.signatureVerified => Held(auth)
    BY <1>3, AuthorizationVerified
  <2>2. Authorization(auth) /\ Made(auth.signature.value, "authorization")
    BY <1>1, <2>1 DEF Inv, TransitInv
  <2>3. auth.auth_id \in IdText /\ now < effectiveExpiry(auth)
    <3>1. effectiveExpiry(auth) \in Int /\ now \in Int /\ auth.auth_id \in IdText
      BY <2>2 DEF Authorization, AuthorizationType, effectiveExpiry, Inv, TypeInv
    <3> QED BY <3>1, <2>1
  <2>4. /\ e.kind = "authorization" /\ e.art = auth /\ e.at = now
        /\ e.verified = r.signatureVerified /\ e.keys = keySets
    BY DEF Entry
  <2> HIDE DEF e, r
  <2>5. IdOf(e) = auth.auth_id
    BY <2>4 DEF IdOf
  <2>6. FreshEntry(e)
    BY <2>1, <2>3, <2>4, <2>5 DEF FreshEntry, CanonicalId
  <2>7. SignedEntry(e)
    <3>1. ASSUME e.verified
          PROVE  \E s \in issued :
                   /\ s.kind = "authorization" /\ Relied(s.art) = Relied(e.art)
                   /\ signatureParts(s.art).alg = "Ed25519" =>
                         \E k \in KeyOf(e, signatureParts(e.art).kid) : k.pub = s.by /\ keyIsActiveAt(k, e.at)
                   /\ e.at < effectiveExpiry(s.art)
                   /\ opts.authorities => <<e.art.issuer, e.art.policy_id>> \in AuthorityPairs
      <4>1. Held(auth)
        BY <3>1, <2>1, <2>4
      <4>2. PICK s \in issued :
              /\ s.kind = "authorization" /\ Relied(s.art) = Relied(auth)
              /\ signatureParts(s.art).alg = "Ed25519" =>
                   Keyed(keySets, auth.issuer, signatureParts(auth).kid, s.by)
        BY <4>1, <2>1, <2>2, HeldWasIssued
      <4>3. effectiveExpiry(s.art) = effectiveExpiry(auth)
        BY <4>2, SameReliance
      <4>4. signatureParts(s.art).alg = "Ed25519" =>
              \E k \in KeyOf(e, signatureParts(e.art).kid) : k.pub = s.by /\ keyIsActiveAt(k, e.at)
        BY <4>2, <2>4 DEF Keyed, KeyOf
      <4> QED BY <4>2, <4>3, <4>4, <2>1, <2>3, <2>4
    <3>2. opts.mode = "strict" => e.verified
      BY <2>1, <2>4
    <3> QED BY <3>1, <3>2 DEF SignedEntry
  <2>8. /\ log' = Append(log, e) /\ consumed \subseteq consumed' /\ IdOf(e) \in consumed'
        /\ UNCHANGED <<now, keySets, opts, issued, auth, deleg, changes>>
    BY <1>1, <1>3, <2>5 DEF r
  <2>9. e.kind = "authorization" => SignedEntry(e)
    BY <2>7
  <2>10. e.kind = "delegation" => NarrowEntry(e)
    BY <2>4
  <2> QED BY <2>6, <2>8, <2>9, <2>10, LogGrows
<1> QED BY <1>2, <1>3

LEMMA PresentDelegationInv ==
  ASSUME Inv, PresentDelegation
  PROVE  Inv'
<1> DEFINE o == GuardOptions
           r == verifyAuthorization(auth, o)
           ok == r.ok /\ verifyDelegationChain(deleg.d, auth, deleg.parentScope, o) = {}
           d == deleg.d
           e == Entry("delegation", d, TRUE)
<1>1. /\ auth # None /\ deleg # None
      /\ log' = IF ok THEN Append(log, e) ELSE log
      /\ consumed' = IF ok THEN consumed \cup {auth.auth_id, d.delegation_id} ELSE consumed
      /\ UNCHANGED <<now, keySets, opts, issued, auth, deleg, changes>>
  BY DEF PresentDelegation
<1>2. CASE ~ok
  <2>1. UNCHANGED <<log, consumed, opts>> /\ issued \subseteq issued' /\ now' \in Nat
    BY <1>1, <1>2 DEF Inv, TypeInv
  <2>2. TransitInv'
    BY <1>1, <2>1 DEF Inv, TransitInv, Made
  <2> QED BY <1>1, <2>1, <2>2, Quiet, IssuedGrows DEF Inv
<1>3. CASE ok
  <2>1. o.mode = "strict"
    BY ArtifactsConfig DEF GuardOptions, createVerifier, Inv, TypeInv
  <2> HIDE DEF o
  <2>2. /\ auth.signature.value # None
        /\ isInteger(effectiveExpiry(auth)) /\ ~(now >= effectiveExpiry(auth))
        /\ Held(auth)
    BY <1>3, <2>1, AuthorizationVerified
  <2>3. Authorization(auth) /\ Made(auth.signature.value, "authorization")
    BY <1>1, <2>2 DEF Inv, TransitInv
  <2>4. now < effectiveExpiry(auth)
    <3>1. effectiveExpiry(auth) \in Int /\ now \in Int
      BY <2>3 DEF Authorization, AuthorizationType, effectiveExpiry, Inv, TypeInv
    <3> QED BY <3>1, <2>2
  <2>5. \E s \in issued : s.kind = "authorization" /\ Relied(s.art) = Relied(auth)
    BY <2>2, <2>3, HeldWasIssued
  <2>6. verifyDelegation(d, deleg.parentScope, o) = {}
    BY <1>3 DEF verifyDelegationChain
  <2>7. /\ hasText(d.kid) /\ d.alg = "Ed25519" /\ d.signature # None
        /\ CanonicalId(d.delegation_id) /\ d.delegation_id \notin consumed
        /\ ScopeViolations(d.scope, deleg.parentScope) = {}
        /\ DelegationSignature(d, o) = {}
    BY <2>6, DelegationFieldsHold
  <2>8. DelegationHeld(d)
    BY <2>7, DelegationSignatureHolds
  <2>9. Delegation(d) /\ deleg.parentScope \in Scopes /\ Made(d.signature, "delegation")
    BY <1>1, <2>7 DEF Inv, TransitInv
  <2>10. d.delegation_id \in IdText /\ d.scope \in Scopes
    BY <2>9 DEF Delegation, DelegationType
  <2>11. \E s \in issued : /\ s.kind = "delegation" /\ s.art.scope = d.scope
                           /\ Keyed(keySets, d.issuer, d.kid, s.by)
    <3>1. PICK s \in issued : /\ s.kind = "delegation" /\ d.signature.by = SignatureOf(s).by
                              /\ d.signature.over = SignatureOf(s).over
      BY <2>9 DEF Made
    <3>2. /\ s.art.signature.by = s.by /\ Delegation(s.art)
          /\ s.art.signature.over.payload = canonicalJson(delegationSigningPayload(s.art))
      BY <3>1 DEF Inv, IssuedInv
    <3>3. canonicalJson(delegationSigningPayload(d)) = canonicalJson(delegationSigningPayload(s.art))
      BY <3>1, <3>2, <2>8 DEF DelegationHeld, SignatureOf
    <3>4. s.art.scope = d.scope
      <4> DEFINE p == delegationSigningPayload(d)
                 q == delegationSigningPayload(s.art)
      <4>1. "scope" \in DOMAIN p /\ p["scope"] = d.scope
        BY <2>9 DEF delegationSigningPayload, Delegation, DelegationType
      <4>2. "scope" \in DOMAIN q /\ q["scope"] = s.art.scope
        BY <3>2 DEF delegationSigningPayload, Delegation, DelegationType
      <4> HIDE DEF p, q
      <4>3. p["scope"] = q["scope"]
        BY <3>3, <4>1, CanonicalAgree DEF p, q
      <4> QED BY <4>1, <4>2, <4>3
    <3>5. Keyed(keySets, d.issuer, d.kid, s.by)
      BY <3>1, <3>2, <2>8 DEF DelegationHeld, SignatureOf
    <3> QED BY <3>1, <3>4, <3>5
  <2>12. LET eff == resolveEffectiveChildScope(d.scope, deleg.parentScope)
         IN /\ \A l \in Limits : deleg.parentScope.limits[l] # NoInt =>
                 deleg.parentScope.limits[l] \in Nat /\ Allowed(eff, l) <= deleg.parentScope.limits[l]
            /\ deleg.parentScope.tools # NoTools =>
                 eff.tools # NoTools /\ eff.tools \subseteq deleg.parentScope.tools
    BY <2>7, <2>9, <2>10, ScopeNarrows, ArtifactsConfig
  <2>13. /\ e.kind = "delegation" /\ e.art = d /\ e.at = now /\ e.keys = keySets
         /\ e.parent = auth /\ e.parentScope = deleg.parentScope
    BY DEF Entry
  <2>14. /\ log' = Append(log, e) /\ consumed \subseteq consumed' /\ d.delegation_id \in consumed'
         /\ UNCHANGED <<now, keySets, opts, issued, auth, deleg, changes>>
    BY <1>1, <1>3
  <2> HIDE DEF e, r, ok
  <2>15. IdOf(e) = d.delegation_id
    BY <2>13 DEF IdOf
  <2>16. FreshEntry(e)
    BY <2>7, <2>10, <2>13, <2>15 DEF FreshEntry, CanonicalId
  <2>17. NarrowEntry(e)
    <3>1. \E s \in issued : /\ s.kind = "delegation" /\ s.art.scope = e.art.scope
                            /\ \E k \in KeyOf(e, e.art.kid) : k.pub = s.by
      BY <2>11, <2>13 DEF Keyed, KeyOf
    <3> QED BY <3>1, <2>4, <2>5, <2>12, <2>13 DEF NarrowEntry
  <2> QED BY <2>13, <2>14, <2>15, <2>16, <2>17, LogGrows
<1> QED BY <1>2, <1>3

----------------------------------------------------------------------------
LEMMA InitInv == Init => Inv
<1> SUFFICES ASSUME Init PROVE Inv
  OBVIOUS
<1>1. TypeInv /\ IssuedInv /\ TransitInv
  BY DEF Init, TypeInv, IssuedInv, TransitInv
<1>2. DOMAIN log = {}
  BY DEF Init
<1>3. ConsumedInv /\ AcceptedOncePerArtifact /\ AcceptedAsSigned /\ DelegationNeverWidens
  BY <1>2 DEF ConsumedInv, AcceptedOncePerArtifact, AcceptedAsSigned, DelegationNeverWidens, Accepted
<1> QED BY <1>1, <1>3 DEF Inv

LEMMA NextInv == Inv /\ [Next]_vars => Inv'
<1> SUFFICES ASSUME Inv, [Next]_vars PROVE Inv'
  OBVIOUS
<1>1. ASSUME NEW h \in Holders, NEW i \in Holders, NEW p \in Policies, NEW s \in Shapes,
             NEW alg \in {"Ed25519", "HMAC-SHA256"}, IssueAuthorization(h, i, p, s, alg)
      PROVE  Inv'
  BY <1>1, IssueAuthorizationInv
<1>2. ASSUME NEW h \in Holders, NEW i \in Holders, NEW s \in Scopes, NEW ps \in Scopes,
             IssueDelegation(h, i, s, ps)
      PROVE  Inv'
  BY <1>2, IssueDelegationInv
<1>3. CASE ChangeAuthorization
  BY <1>3, ChangeAuthorizationInv
<1>4. CASE ChangeDelegation
  BY <1>4, ChangeDelegationInv
<1>5. CASE PresentAuthorization
  BY <1>5, PresentAuthorizationInv
<1>6. CASE PresentDelegation
  BY <1>6, PresentDelegationInv
<1>7. ASSUME UNCHANGED <<log, consumed, opts, issued, auth, deleg>>, now' \in Nat
      PROVE  Inv'
  <2>1. TransitInv'
    BY <1>7 DEF Inv, TransitInv, Made
  <2> QED BY <1>7, <2>1, Quiet, IssuedGrows DEF Inv
<1>8. ASSUME NEW i \in DOMAIN keySets, RevokeKey(i) PROVE Inv'
  BY <1>7, <1>8 DEF RevokeKey, Inv, TypeInv
<1>9. CASE Tick
  BY <1>7, <1>9 DEF Tick, Inv, TypeInv
<1>10. CASE UNCHANGED vars
  BY <1>7, <1>10 DEF vars, Inv, TypeInv
<1> QED BY <1>1, <1>2, <1>3, <1>4, <1>5, <1>6, <1>8, <1>9, <1>10 DEF Next

LEMMA Invariance == Spec => []Inv
<1> QED BY InitInv, NextInv, PTL DEF Spec

(***************************************************************************)
(* What is consumed identifies what was signed: however an artifact is     *)
(* spelled when it comes back, it is accepted once                         *)
(* (verifyAuthorization.ts and verifyDelegation.ts compare raw             *)
(* identifiers, signatures cover normalized ones).                         *)
(***************************************************************************)
THEOREM ArtifactsAreAcceptedOnce == Spec => []AcceptedOncePerArtifact
<1>1. Inv => AcceptedOncePerArtifact
  BY DEF Inv
<1> QED BY <1>1, Invariance, PTL

(***************************************************************************)
(* In strict mode no unchecked authorization is accepted, and a checked    *)
(* one is what the holder of the registered key signed, in every field     *)
(* enforcement relies on and in either encoding.                           *)
(***************************************************************************)
THEOREM ArtifactsAreAcceptedAsSigned == Spec => []AcceptedAsSigned
<1>1. Inv => AcceptedAsSigned
  BY DEF Inv
<1> QED BY <1>1, Invariance, PTL

(***************************************************************************)
(* A delegation accepted by the guard has a signed parent and gives no     *)
(* more than the parent's scope, for no longer.                            *)
(***************************************************************************)
THEOREM DelegationsNarrow == Spec => []DelegationNeverWidens
<1>1. Inv => DelegationNeverWidens
  BY DEF Inv
<1> QED BY <1>1, Invariance, PTL

============================================================================
