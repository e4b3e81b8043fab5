---------------------------- MODULE MCArtifacts ----------------------------
(* Two holders that may each issue for one policy only, two agents, and the *)
(* configurations of the boundary that differ in what they verify.          *)
EXTENDS Artifacts

MCPairs == {<<"pdp", "p1">>, <<"ops", "p2">>}
MCSigners == {<<"A", "pdp">>}

Scope(tools, amount, actions) ==
  [ tools |-> tools,
    limits |-> [l \in Limits |-> IF l = "max_amount" THEN amount ELSE IF l = "max_actions" THEN actions ELSE NoInt] ]

MCScopes ==
  { Scope(NoTools, NoInt, NoInt), Scope({"t1"}, 1, NoInt), Scope({"t1", "t2"}, 2, 1), Scope(NoTools, Malformed, 2) }

MCOptions ==
  LET base == [ path |-> "gateway", mode |-> "best-effort", requireSignatureVerification |-> FALSE, trusted |-> TRUE,
                legacyHmacSecret |-> FALSE, authorities |-> FALSE, signers |-> FALSE,
                expectedIssuer |-> Absent, expectedAudience |-> Absent, expectedPolicyId |-> Absent,
                expectedDelegatee |-> Absent ]
  IN { base, [base EXCEPT !.mode = "strict", !.trusted = FALSE],
       [base EXCEPT !.requireSignatureVerification = TRUE, !.trusted = FALSE],
       createVerifier([base EXCEPT !.legacyHmacSecret = TRUE, !.authorities = TRUE]),
       createVerifier([base EXCEPT !.authorities = TRUE, !.expectedAudience = "A",
                                   !.expectedPolicyId = "p1", !.expectedIssuer = "pdp"]),
       [base EXCEPT !.path = "guard"],
       [base EXCEPT !.path = "guard", !.signers = TRUE, !.expectedDelegatee = "B"] }

MCKeySets ==
  << [issuer |-> "pdp", keys |-> <<Key("k", "pdp"), Key("w", "small")>>],
     [issuer |-> "ops", keys |-> <<Key("k", "ops"), Key("w", "small")>>] >>

\* The clock starts when the authorization is issued, and a delegation follows
\* before it expires.  False claims about the issuer are left to authorizations
\* presented directly and to delegations: a delegation's parent names the
\* holder that signed it, and its expiry in one of the two ways.
Bounds ==
  /\ auth = None => now = 0 /\ changes = MaxChanges
  /\ opts.path = "guard" /\ deleg = None => now = 0
  /\ opts.path = "guard" => \A s \in issued : s.kind = "authorization" =>
       /\ s.by = s.art.issuer /\ signatureParts(s.art).alg = "Ed25519"
       /\ s.art.signature.nested => s.art.expiry = NoInt
=============================================================================
