----------------------------- MODULE Artifacts -----------------------------
(***************************************************************************)
(* Signed artifacts between the holders of signing keys and an enforcement *)
(* boundary: AuthorizationV1 and DelegationV1 are signed, travel, may      *)
(* arrive changed, re-encoded, late or twice, and are verified by          *)
(* packages/core/src/verification against key sets that change meanwhile.  *)
(* The boundary is the gateway for authorizations and the guard for        *)
(* delegations: it verifies, then consumes the identifiers it verified.    *)
(*                                                                         *)
(* Hashing is injective and a signature is [by, over, enc]: who made it,   *)
(* over which domain and canonical payload, in which text encoding.  A     *)
(* number that is absent or not an integer is NoInt, an absent string is   *)
(* Absent.  An identifier is [id, nfc]: the text up to Unicode             *)
(* equivalence, and whether it is spelled in NFC.  state_hash travels as   *)
(* intent_hash does, version and nonce as capability does.                 *)
(***************************************************************************)
EXTENDS Integers, FiniteSets, Sequences, TLC

CONSTANTS
  Holders,        \* issuers that hold a signing key of their own
  Policies,       \* policy ids
  Agents,         \* audiences, delegators and delegatees
  Owner,          \* the agent that authorizations are issued to
  Delegatee,      \* the agent it delegates to
  TrustedKeySets, \* the key sets the deployer starts with
  AuthorityPairs, \* trustedAuthorizationAuthorities: <<issuer, policy>>
  SignerPairs,    \* trustedDelegationAuthorities: <<delegator, issuer>>
  Scopes,         \* scopes that parents state and delegations are created with
  Options,        \* configurations of the boundary
  MaxSkew,        \* maxFutureIssuedAtSkewSeconds
  MaxNow,         \* bound on the clock
  MaxChanges      \* bound on what happens to artifacts on the way

NoInt == -1
Absent == "absent"
hasText(s) == s # Absent
isInteger(n) == n # NoInt

Limits == {"max_amount", "max_actions", "max_depth"}
Malformed == -2      \* NaN, a fraction, a negative or a value of another type

ASSUME ArtifactsConfig ==
  /\ AuthorityPairs \subseteq Holders \X Policies
  /\ SignerPairs \subseteq Agents \X Holders
  /\ {Owner, Delegatee} \subseteq Agents
  /\ {MaxSkew, MaxNow, MaxChanges} \subseteq Nat
  /\ "secret" \notin Holders
  /\ \A s \in Scopes : s.limits \in [Limits -> Nat \cup {NoInt, Malformed}]
  /\ Options \subseteq
       [ path : {"gateway", "guard"}, mode : {"strict", "best-effort"},
         requireSignatureVerification : BOOLEAN, trusted : BOOLEAN, legacyHmacSecret : BOOLEAN,
         authorities : BOOLEAN, signers : BOOLEAN,
         expectedIssuer : Holders \cup {Absent}, expectedAudience : Agents \cup {Absent},
         expectedPolicyId : Policies \cup {Absent}, expectedDelegatee : Agents \cup {Absent} ]

VARIABLES
  now,        \* the boundary's clock
  keySets,    \* trustedKeySets as the deployer configures them
  opts,       \* the configuration of the boundary
  issued,     \* every artifact as its holder signed it
  auth,       \* the authorization in transit
  deleg,      \* the delegation in transit and the parent scope stated with it
  consumed,   \* identifiers the boundary consumed, as they were spelled
  log,        \* what the boundary accepted, in order
  changes     \* changes left

vars == <<now, keySets, opts, issued, auth, deleg, consumed, log, changes>>

None == [none |-> TRUE]

----------------------------------------------------------------------------
(* crypto/signatures.ts and crypto/hashes.ts *)

\* A key of a key set; the holder's name stands for its key material.
Key(kid, pub) ==
  [kid |-> kid, alg |-> "Ed25519", pub |-> pub, status |-> "active", not_before |-> NoInt, not_after |-> NoInt]

\* The element of s at the earliest of some positions: {} or {element}.
First(s, hits) == {s[i] : i \in {j \in hits : \A k \in hits : j <= k}}

\* The first key set of the issuer decides, also when it lacks the kid.
findKeyInKeySets(ks, issuer, kid) ==
  UNION { First(set.keys, {i \in DOMAIN set.keys : set.keys[i].kid = kid /\ set.keys[i].alg = "Ed25519"}) :
          set \in First(ks, {i \in DOMAIN ks : ks[i].issuer = issuer}) }

keyIsActiveAt(key, t) ==
  /\ key.status # "revoked"
  /\ ~(isInteger(key.not_before) /\ t < key.not_before)
  /\ ~(isInteger(key.not_after) /\ t > key.not_after)

Nfc(id) == [id EXCEPT !.nfc = TRUE]

\* canonicalJson: strings are NFC-normalized, an undefined value throws.
Fails(payload) == \E f \in DOMAIN payload : f \in {"expiry", "issued_at"} /\ payload[f] = NoInt
canonicalJson(payload) ==
  [f \in DOMAIN payload |-> IF f \in {"auth_id", "delegation_id"} THEN Nfc(payload[f]) ELSE payload[f]]

\* A public key of small order authenticates nothing: any signature passes.
SmallOrder == {"small"}
CryptoVerify(pub, input, sig) == pub \in SmallOrder \/ (sig.by = pub /\ sig.over = input)

signatureInput(domain, payload) == [domain |-> domain, payload |-> canonicalJson(payload)]

Sign(by, domain, payload) == [by |-> by, over |-> signatureInput(domain, payload), enc |-> "base64"]

verifyEd25519(domain, payload, sig, pub) ==
  sig.enc = "base64" /\ pub \notin SmallOrder /\ ~Fails(payload)
    /\ CryptoVerify(pub, signatureInput(domain, payload), sig)

\* base64url is accepted on the raw path only, and only in canonical form.
canonicalSignatureBytes(sig) == sig.enc \in {"base64", "base64url"}

verifyEd25519Raw(payload, sig, pub) ==
  canonicalSignatureBytes(sig) /\ pub \notin SmallOrder /\ ~Fails(payload)
    /\ CryptoVerify(pub, signatureInput("raw", payload), sig)

verifyHmacDomain(domain, payload, sig) ==
  ~Fails(payload) /\ sig.by = "secret" /\ sig.over = signatureInput(domain, payload)

----------------------------------------------------------------------------
(* verifyAuthorization.ts *)

signatureParts(a) ==
  IF a.signature.nested THEN [alg |-> a.signature.alg, kid |-> a.signature.kid]
  ELSE [alg |-> a.alg, kid |-> a.kid]

NormativeFields == {"auth_id", "issuer", "audience", "intent_hash", "policy_id", "decision", "issued_at"}

Present(a, fields) == {f \in fields : IF f = "capability" THEN hasText(a[f]) ELSE isInteger(a[f])}

Restricted(a, fields) == [f \in fields |-> a[f]]

\* Mutant: the nested encoding signs the policy only when it is flat.
authorizationSigningPayload_NestedWithoutPolicy(a) ==
  IF a.signature.nested
  THEN [ f \in (NormativeFields \ {"policy_id"}) \cup Present(a, {"expiry", "expires_at", "capability"}) |-> a[f] ]
  ELSE Restricted(a, NormativeFields \cup {"expiry", "alg", "kid"} \cup Present(a, {"capability"}))

\* Nested signatures omit what is absent and also cover expires_at; flat ones
\* always name expiry, alg and kid.
authorizationSigningPayload(a) ==
  IF ~a.signature.nested
  THEN Restricted(a, NormativeFields \cup {"expiry", "alg", "kid"} \cup Present(a, {"capability"}))
  ELSE LET covered == NormativeFields \cup Present(a, {"expiry", "expires_at", "capability"})
       IN IF hasText(a.alg) /\ hasText(a.kid)
          THEN Restricted(a, covered \cup {"alg", "kid"})
          ELSE [ f \in covered \cup {"signature"} |->
                 IF f = "signature" THEN [alg |-> a.signature.alg, kid |-> a.signature.kid] ELSE a[f] ]

\* Normative fields only: engine internals are not part of the artifact.
toPublicAuthorizationV1(a) ==
  Restricted(a, NormativeFields \cup {"expiry", "alg", "kid", "signature"} \cup Present(a, {"capability"}))

signAuthorizationEd25519(a, pub) ==
  [a EXCEPT !.signature.value = Sign(pub, IF a.signature.nested THEN "raw" ELSE "AUTH_V1",
                                     authorizationSigningPayload(a))]

isTrustedAuthorizationAuthority(issuer, policy) ==
  \E p \in AuthorityPairs : p = <<issuer, policy>>

effectiveExpiry(a) == IF isInteger(a.expiry) THEN a.expiry ELSE a.expires_at

Codes(table) == {row[2] : row \in {r \in table : r[1]}}

\* Mutant: every spelling of an identifier is accepted.
CanonicalId_Any(id) == id.nfc \/ ~id.nfc

\* Signing normalizes identifiers and replay protection does not, so only the
\* normalized spelling is accepted.
CanonicalId(id) == id.nfc

FieldViolations(a) ==
  Codes({ <<a.decision # "ALLOW", "AUTH_DECISION_INVALID">>,
          <<\E f \in {"issuer", "audience", "intent_hash", "policy_id"} : ~hasText(a[f]), "AUTH_MISSING_FIELD">>,
          <<~CanonicalId(a.auth_id), "AUTH_ID_NONCANONICAL">>,
          <<~isInteger(a.issued_at), "AUTH_MISSING_FIELD">>,
          <<isInteger(a.issued_at) /\ a.issued_at > now + MaxSkew, "AUTH_ISSUED_AT_IMPLAUSIBLE">>,
          <<~hasText(signatureParts(a).alg) \/ ~hasText(signatureParts(a).kid), "AUTH_MISSING_FIELD">>,
          <<a.signature.value = None, "AUTH_MISSING_FIELD">>,
          <<~isInteger(effectiveExpiry(a)), "AUTH_MISSING_FIELD">>,
          <<isInteger(effectiveExpiry(a)) /\ now >= effectiveExpiry(a), "AUTH_EXPIRED">> })

ExpectationViolations(a, o) ==
  Codes({ <<hasText(o.expectedIssuer) /\ a.issuer # o.expectedIssuer, "AUTH_ISSUER_MISMATCH">>,
          <<hasText(o.expectedAudience) /\ a.audience # o.expectedAudience, "AUTH_AUDIENCE_MISMATCH">>,
          <<hasText(o.expectedPolicyId) /\ a.policy_id # o.expectedPolicyId, "AUTH_POLICY_ID_MISMATCH">>,
          <<o.authorities /\ ~isTrustedAuthorizationAuthority(a.issuer, a.policy_id), "AUTH_ISSUER_POLICY_NOT_AUTHORIZED">>,
          <<a.auth_id \in consumed, "AUTH_REPLAY">> })

TrustedSets(o) == IF o.trusted THEN keySets ELSE <<>>

requireSig(o) == o.mode = "strict" \/ o.requireSignatureVerification

Outcome(violations, verified, coverage) ==
  [violations |-> violations, signatureVerified |-> verified, verificationCoverage |-> coverage]

\* The surface is covered once a check is engaged, whatever its outcome.
Checked(valid) ==
  Outcome(IF valid THEN {} ELSE {"AUTH_SIGNATURE_INVALID"}, valid, "authorization-v1-full")

Unchecked(code) == Outcome(code, FALSE, "none")

Ed25519Check(a, o) ==
  LET kid == signatureParts(a).kid
      sig == a.signature.value
      payload == authorizationSigningPayload(a)
      found == findKeyInKeySets(keySets, a.issuer, kid)
  IN IF TrustedSets(o) = <<>> THEN Unchecked(IF requireSig(o) THEN {"AUTH_TRUST_MISSING"} ELSE {})
     ELSE IF found = {} THEN Unchecked({"AUTH_KID_UNKNOWN"})
     ELSE LET key == CHOOSE k \in found : TRUE
          IN IF ~keyIsActiveAt(key, now) THEN Unchecked({"AUTH_KEY_INACTIVE"})
             ELSE Checked(verifyEd25519("AUTH_V1", payload, sig, key.pub) \/ verifyEd25519Raw(payload, sig, key.pub))

HmacCheck(a, o) ==
  IF o.legacyHmacSecret
  THEN Checked(verifyHmacDomain("AUTH_V1", authorizationSigningPayload(a), a.signature.value))
  ELSE Unchecked(IF requireSig(o) THEN {"AUTH_TRUST_MISSING"} ELSE {})

SignatureCheck(a, o) ==
  LET s == signatureParts(a)
  IN IF ~hasText(s.alg) \/ ~hasText(s.kid) \/ a.signature.value = None THEN Unchecked({})
     ELSE IF s.alg = "Ed25519" THEN Ed25519Check(a, o)
     ELSE IF s.alg = "HMAC-SHA256" THEN HmacCheck(a, o)
     ELSE Unchecked({"AUTH_ALG_UNSUPPORTED"})

Result(s) ==
  [ ok |-> s.violations = {}, violations |-> s.violations,
    signatureVerified |-> s.signatureVerified, verificationCoverage |-> s.verificationCoverage ]

verifyAuthorization(a, o) ==
  LET s == SignatureCheck(a, o)
      violations == FieldViolations(a) \cup ExpectationViolations(a, o) \cup s.violations
  IN IF o.mode = "strict" /\ TrustedSets(o) = <<>>
     THEN Result(Unchecked({"TRUSTED_KEYSETS_REQUIRED"}))
     ELSE Result(Outcome(violations, s.signatureVerified, s.verificationCoverage))

\* createVerifier.ts: a bound verifier is strict and has key sets.
createVerifier(o) == [o EXCEPT !.mode = "strict", !.trusted = TRUE]

----------------------------------------------------------------------------
(* verifyDelegation.ts and createDelegation.ts *)

NoTools == {Absent}  \* scope.tools undefined

delegationParentHash(parent) == canonicalJson(toPublicAuthorizationV1(parent))

delegationSigningPayload(d) == [f \in DOMAIN d \ {"signature"} |-> d[f]]

createDelegation(parent, issuer, delegatee, scope, expiry, pub) ==
  LET d == [ delegation_id |-> [id |-> "d", nfc |-> TRUE], issuer |-> issuer,
             parent_auth_hash |-> delegationParentHash(parent), delegator |-> parent.audience,
             delegatee |-> delegatee, scope |-> scope, policy_id |-> parent.policy_id,
             issued_at |-> now, expiry |-> expiry, alg |-> "Ed25519", kid |-> "k", signature |-> None ]
  IN [d EXCEPT !.signature = Sign(pub, "DELEGATION_V1", delegationSigningPayload(d))]

resolveEffectiveChildScope(child, parent) ==
  [ tools |-> IF child.tools # NoTools THEN child.tools ELSE parent.tools,
    limits |-> [l \in Limits |-> IF child.limits[l] # NoInt THEN child.limits[l] ELSE parent.limits[l]] ]

scopeTypeViolations(scope) ==
  IF \E l \in Limits : scope.limits[l] = Malformed THEN {"DELEGATION_SCOPE_VIOLATION"} ELSE {}

\* A comparison with something that is not a number is false in JavaScript.
Exceeds(x, y) == x \in Nat /\ y \in Nat /\ x > y

checkScopeNarrowing(child, parent) ==
  LET eff == resolveEffectiveChildScope(child, parent)
  IN IF \/ eff.tools # NoTools /\ parent.tools # NoTools /\ ~(eff.tools \subseteq parent.tools)
        \/ \E l \in Limits : Exceeds(eff.limits[l], parent.limits[l])
     THEN {"DELEGATION_SCOPE_VIOLATION"} ELSE {}

\* Mutant: the parent's ceiling is compared without being checked.
ScopeViolations_ChildOnly(child, parent) ==
  IF scopeTypeViolations(child) # {} THEN scopeTypeViolations(child) ELSE checkScopeNarrowing(child, parent)

\* Both scopes are checked for type before they are compared.
ScopeViolations(child, parent) ==
  LET typed == scopeTypeViolations(child) \cup scopeTypeViolations(parent)
  IN IF typed # {} THEN typed ELSE checkScopeNarrowing(child, parent)

isTrustedDelegationAuthority(delegator, issuer) == \E p \in SignerPairs : p = <<delegator, issuer>>

DelegationSignature(d, o) ==
  LET found == findKeyInKeySets(keySets, d.issuer, d.kid)
  IN IF d.alg # "Ed25519" \/ ~hasText(d.kid) \/ d.signature = None THEN {}
     ELSE IF TrustedSets(o) = <<>> THEN {"DELEGATION_TRUST_MISSING"}
     ELSE IF found = {} THEN {"DELEGATION_KID_UNKNOWN"}
     ELSE LET key == CHOOSE k \in found : TRUE
          IN IF ~keyIsActiveAt(key, now) THEN {"DELEGATION_KEY_INACTIVE"}
             ELSE IF ~verifyEd25519("DELEGATION_V1", delegationSigningPayload(d), d.signature, key.pub)
                  THEN {"DELEGATION_SIGNATURE_INVALID"} ELSE {}

verifyDelegation(d, parentScope, o) ==
  Codes({ <<\E f \in {"issuer", "delegator", "delegatee", "policy_id", "alg", "kid"} : ~hasText(d[f]), "DELEGATION_MISSING_FIELD">>,
          <<d.signature = None, "DELEGATION_MISSING_FIELD">>,
          <<~isInteger(d.issued_at) \/ ~isInteger(d.expiry), "DELEGATION_MISSING_FIELD">>,
          <<hasText(d.alg) /\ d.alg # "Ed25519", "DELEGATION_ALG_UNSUPPORTED">>,
          <<isInteger(d.expiry) /\ now >= d.expiry, "DELEGATION_EXPIRED">>,
          <<isInteger(d.issued_at) /\ isInteger(d.expiry) /\ d.expiry <= d.issued_at, "DELEGATION_TEMPORAL_INVALID">>,
          <<isInteger(d.issued_at) /\ d.issued_at > now + MaxSkew, "DELEGATION_ISSUED_AT_IMPLAUSIBLE">>,
          <<hasText(o.expectedDelegatee) /\ d.delegatee # o.expectedDelegatee, "DELEGATION_AUDIENCE_MISMATCH">>,
          <<hasText(o.expectedPolicyId) /\ d.policy_id # o.expectedPolicyId, "DELEGATION_POLICY_MISMATCH">>,
          <<~CanonicalId(d.delegation_id), "DELEGATION_ID_NONCANONICAL">>,
          <<d.delegation_id \in consumed, "DELEGATION_REPLAY">>,
          <<o.signers /\ ~isTrustedDelegationAuthority(d.delegator, d.issuer), "DELEGATION_SIGNER_NOT_AUTHORIZED">> })
    \cup ScopeViolations(d.scope, parentScope)
    \cup DelegationSignature(d, o)

\* The chain is checked first; only then the delegation itself.
verifyDelegationChain(d, parent, parentScope, o) ==
  LET chain ==
        Codes({ <<delegationParentHash(parent) # d.parent_auth_hash, "DELEGATION_PARENT_HASH_MISMATCH">>,
                <<isInteger(parent.expiry) /\ now >= parent.expiry, "DELEGATION_PARENT_EXPIRED">>,
                <<d.delegator # parent.audience, "DELEGATION_DELEGATOR_MISMATCH">>,
                <<d.policy_id # parent.policy_id, "DELEGATION_POLICY_ID_MISMATCH">>,
                <<isInteger(d.expiry) /\ isInteger(parent.expiry) /\ d.expiry > parent.expiry, "DELEGATION_EXPIRY_EXCEEDS_PARENT">> })
  IN IF chain # {} THEN chain ELSE verifyDelegation(d, parentScope, o)

----------------------------------------------------------------------------
(* The holders, the way and the boundary. *)

Shapes == {"flat", "nested", "nestedFlat", "expiresAt"}
Lifetime == 2
Init ==
  /\ now = 0
  /\ keySets = TrustedKeySets
  /\ opts \in Options
  /\ issued = {} /\ auth = None /\ deleg = None /\ consumed = {} /\ log = <<>>
  /\ changes = MaxChanges

\* A holder signs with its own key, whatever issuer the artifact names.
IssueAuthorization(h, issuer, policy, shape, alg) ==
  /\ auth = None
  /\ LET nested == shape # "flat"
         flatHeader == shape \in {"flat", "nestedFlat"}
         a == [ auth_id |-> [id |-> "a", nfc |-> TRUE], issuer |-> issuer, audience |-> Owner,
                intent_hash |-> "i", policy_id |-> policy, decision |-> "ALLOW", issued_at |-> now,
                expiry |-> IF shape = "expiresAt" THEN NoInt ELSE now + Lifetime,
                expires_at |-> IF shape = "expiresAt" THEN now + Lifetime ELSE NoInt,
                capability |-> "read", alg |-> IF flatHeader THEN alg ELSE Absent,
                kid |-> IF flatHeader THEN "k" ELSE Absent,
                signature |-> [nested |-> nested, alg |-> IF nested THEN alg ELSE Absent,
                               kid |-> IF nested THEN "k" ELSE Absent, value |-> None] ]
         signed == IF alg = "Ed25519" THEN signAuthorizationEd25519(a, h)
                   ELSE [a EXCEPT !.signature.value = Sign("secret", "AUTH_V1", authorizationSigningPayload(a))]
     IN auth' = signed /\ issued' = issued \cup {[kind |-> "authorization", by |-> h, art |-> signed]}
  /\ UNCHANGED <<now, keySets, opts, deleg, consumed, log, changes>>

IssueDelegation(h, issuer, scope, parentScope) ==
  /\ auth # None /\ deleg = None /\ opts.path = "guard"
  /\ \E expiry \in {now + 1, now + Lifetime + 1} :
       LET d == createDelegation(auth, issuer, Delegatee, scope, expiry, h)
       IN /\ deleg' = [d |-> d, parentScope |-> parentScope]
          /\ issued' = issued \cup {[kind |-> "delegation", by |-> h, art |-> d]}
  /\ UNCHANGED <<now, keySets, opts, auth, consumed, log, changes>>

OtherAuthorizations(a) ==
  { [a EXCEPT !.auth_id.nfc = ~@], [a EXCEPT !.decision = "DENY"], [a EXCEPT !.issued_at = @ + MaxSkew + 2],
    [a EXCEPT !.expiry = now + Lifetime + 2], [a EXCEPT !.expires_at = now + Lifetime + 2],
    [a EXCEPT !.expiry = NoInt, !.expires_at = now + Lifetime + 2],
    [a EXCEPT !.capability = Absent], [a EXCEPT !.alg = "none"],
    [a EXCEPT !.kid = "w"], [a EXCEPT !.signature.kid = "w"], [a EXCEPT !.signature.value.enc = "base64url"],
    [a EXCEPT !.signature.value.enc = "loose"], [a EXCEPT !.signature.value = None] }
  \cup {[a EXCEPT !.issuer = h] : h \in Holders} \cup {[a EXCEPT !.policy_id = p] : p \in Policies}
  \cup {[a EXCEPT !.audience = g] : g \in Agents}

OtherDelegations(d) ==
  { [d EXCEPT !.delegation_id.nfc = ~@], [d EXCEPT !.expiry = @ + 1], [d EXCEPT !.kid = "w"],
    [d EXCEPT !.signature = None], [d EXCEPT !.signature.enc = "base64url"] }
  \cup {[d EXCEPT !.delegatee = g] : g \in Agents} \cup {[d EXCEPT !.delegator = g] : g \in Agents}
  \cup {[d EXCEPT !.issuer = h] : h \in Holders} \cup {[d EXCEPT !.scope = s] : s \in Scopes}

\* On the way an artifact is changed, or stored and spelled differently.
ChangeAuthorization ==
  /\ auth # None /\ auth.signature.value # None
  /\ changes > 0 /\ changes' = changes - 1
  /\ auth' \in OtherAuthorizations(auth)
  /\ UNCHANGED <<now, keySets, opts, issued, deleg, consumed, log>>

ChangeDelegation ==
  /\ deleg # None /\ deleg.d.signature # None
  /\ changes > 0 /\ changes' = changes - 1
  /\ deleg' \in {[deleg EXCEPT !.d = d] : d \in OtherDelegations(deleg.d)}
  /\ UNCHANGED <<now, keySets, opts, issued, auth, consumed, log>>

Entry(kind, art, verified) ==
  [ kind |-> kind, art |-> art, at |-> now, verified |-> verified, keys |-> keySets,
    parent |-> IF kind = "delegation" THEN auth ELSE None,
    parentScope |-> IF kind = "delegation" THEN deleg.parentScope ELSE None ]

PresentAuthorization ==
  /\ auth # None /\ opts.path = "gateway"
  /\ LET r == verifyAuthorization(auth, opts)
     IN /\ log' = IF r.ok THEN Append(log, Entry("authorization", auth, r.signatureVerified)) ELSE log
        /\ consumed' = IF r.ok THEN consumed \cup {auth.auth_id} ELSE consumed
  /\ UNCHANGED <<now, keySets, opts, issued, auth, deleg, changes>>

\* guard.ts: the parent is verified strictly and against the pairs, then the
\* chain; both identifiers are consumed.
GuardOptions == [createVerifier(opts) EXCEPT !.authorities = TRUE, !.requireSignatureVerification = TRUE]

PresentDelegation ==
  /\ auth # None /\ deleg # None
  /\ LET parent == verifyAuthorization(auth, GuardOptions)
         ok == parent.ok /\ verifyDelegationChain(deleg.d, auth, deleg.parentScope, GuardOptions) = {}
     IN /\ log' = IF ok THEN Append(log, Entry("delegation", deleg.d, TRUE)) ELSE log
        /\ consumed' = IF ok THEN consumed \cup {auth.auth_id, deleg.d.delegation_id} ELSE consumed
  /\ UNCHANGED <<now, keySets, opts, issued, auth, deleg, changes>>

RevokeKey(i) ==
  /\ keySets[i].keys[1].status = "active"
  /\ changes > 0 /\ changes' = changes - 1
  /\ keySets' = [keySets EXCEPT ![i].keys[1].status = "revoked"]
  /\ UNCHANGED <<now, opts, issued, auth, deleg, consumed, log>>

Tick ==
  /\ now < MaxNow /\ now' = now + 1
  /\ UNCHANGED <<keySets, opts, issued, auth, deleg, consumed, log, changes>>

Next ==
  \/ \E h, i \in Holders, p \in Policies, s \in Shapes, alg \in {"Ed25519", "HMAC-SHA256"} :
       IssueAuthorization(h, i, p, s, alg)
  \/ \E h, i \in Holders, s, ps \in Scopes : IssueDelegation(h, i, s, ps)
  \/ ChangeAuthorization \/ ChangeDelegation \/ PresentAuthorization \/ PresentDelegation
  \/ \E i \in DOMAIN keySets : RevokeKey(i)
  \/ Tick

Spec == Init /\ [][Next]_vars

----------------------------------------------------------------------------
(* Properties. *)

Accepted(kind) == {i \in DOMAIN log : log[i].kind = kind}

IdOf(e) == IF e.kind = "delegation" THEN e.art.delegation_id ELSE e.art.auth_id

\* One signed artifact is accepted at most once, however it is spelled when it
\* comes back: what is consumed (verifyAuthorization.ts, verifyDelegation.ts
\* compare the raw identifier) identifies what was signed.
AcceptedOncePerArtifact ==
  \A kind \in {"authorization", "delegation"} :
    \A i, j \in Accepted(kind) : i # j => Nfc(IdOf(log[i])) # Nfc(IdOf(log[j]))

\* What enforcement relies on in an authorization.
Relied(a) ==
  <<Nfc(a.auth_id), a.issuer, a.audience, a.intent_hash, a.policy_id, a.decision, effectiveExpiry(a), a.capability>>

\* The key the deployer had registered for the issuer and key id, {} or {key}.
KeyOf(e, kid) == findKeyInKeySets(e.keys, e.art.issuer, kid)

\* Strict mode accepts nothing whose signature was not checked and held, and
\* an authorization that was accepted as verified is, in every field that
\* enforcement relies on, one that the holder of the key registered for its
\* issuer signed, in either encoding, and was accepted before the expiry that
\* was signed, under a key in force then, for a pair the deployer trusts.
AcceptedAsSigned ==
  \A i \in Accepted("authorization") :
    LET e == log[i]
    IN /\ opts.mode = "strict" => e.verified
       /\ e.verified =>
            \E s \in issued :
              /\ s.kind = "authorization" /\ Relied(s.art) = Relied(e.art)
              /\ signatureParts(s.art).alg = "Ed25519" =>
                    \E k \in KeyOf(e, signatureParts(e.art).kid) : k.pub = s.by /\ keyIsActiveAt(k, e.at)
              /\ e.at < effectiveExpiry(s.art)
              /\ opts.authorities => <<e.art.issuer, e.art.policy_id>> \in AuthorityPairs

Unlimited == 1000
Allowed(scope, l) == IF scope.limits[l] \in Nat THEN scope.limits[l] ELSE Unlimited

\* A delegation never gives its delegatee more than its parent had: every
\* limit and tool that is in force is the parent's or less, an omitted one
\* and a malformed ceiling included, and it ends with its parent.  The parent
\* is one that was signed, and so is the scope.
DelegationNeverWidens ==
  \A i \in Accepted("delegation") :
    LET e == log[i]
        eff == resolveEffectiveChildScope(e.art.scope, e.parentScope)
    IN /\ \A l \in Limits : e.parentScope.limits[l] # NoInt =>
            e.parentScope.limits[l] \in Nat /\ Allowed(eff, l) <= e.parentScope.limits[l]
       /\ e.parentScope.tools # NoTools => eff.tools # NoTools /\ eff.tools \subseteq e.parentScope.tools
       /\ e.at < effectiveExpiry(e.parent)
       /\ \E s \in issued : s.kind = "authorization" /\ Relied(s.art) = Relied(e.parent)
       /\ \E s \in issued :
            /\ s.kind = "delegation" /\ s.art.scope = e.art.scope
            /\ \E k \in KeyOf(e, e.art.kid) : k.pub = s.by

=============================================================================
