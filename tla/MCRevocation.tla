--------------------------- MODULE MCRevocation ---------------------------
(***************************************************************************)
(* Two publishers with overlapping scopes: one equivocates at version 1    *)
(* and revokes K with version 2, the other revokes it with its version 2   *)
(* and is about to change to a new signing key.                            *)
(***************************************************************************)
EXTENDS Revocation

CONSTANTS K, e1, e2

A == "A"
B == "B"
TwoScopes == <<A, B>>

Overlapping == (A :> {"idp", "ops"}) @@ (B :> {"idp"})

Key(kid, alg, status, not_before, not_after) ==
  [kid |-> kid, alg |-> alg, status |-> status, not_before |-> not_before, not_after |-> not_after,
   public_key |-> kid]

KeySets ==
  << [issuer |-> A, keys |-> <<Key("a1", "Ed25519", "active", NoTime, NoTime), Key("a0", "Ed25519", "revoked", NoTime, NoTime)>>],
     [issuer |-> B, keys |-> <<Key("b1", "ES256", "active", NoTime, NoTime), Key("b1", "Ed25519", "active", 0, 0),
                               Key("b2", "Ed25519", "active", 1, NoTime)>>] >>

Unsigned(i, version, revoked, kid) ==
  [version |-> "SignedKRLV1", issuer |-> i, krl_version |-> Whole(version), issued_at |-> Whole(0),
   not_after |-> Whole(2), kids_array |-> TRUE, revoked_kids |-> revoked, nonce |-> Absent,
   signature |-> [object |-> TRUE, alg |-> "Ed25519", kid |-> kid,
                  sig |-> [enc |-> "base64", domain |-> "OXDEAI_KRL_V1", by |-> kid, over |-> <<>>]]]

Signed(i, version, revoked, kid) ==
  LET l == Unsigned(i, version, revoked, kid)
  IN [l EXCEPT !.signature.sig.over = signedKrlSigningPayload(l)]

Lists ==
  { Signed(A, 1, <<>>, "a1"), Signed(A, 1, <<"other">>, "a1"), Signed(A, 2, <<K, "other">>, "a1"),
    Signed(B, 1, <<>>, "b1"), Signed(B, 2, <<K>>, "b2"),
    \* K taken out, and a signature that is not the publisher's
    [Signed(B, 2, <<K>>, "b2") EXCEPT !.revoked_kids = <<>>],
    [Signed(B, 2, <<>>, "b2") EXCEPT !.signature.sig.by = "a1"],
    Signed("stranger", 1, <<>>, "a1") }

AsksAboutK == [e \in Evaluations |-> {[issuer |-> "idp", kid |-> K]}]

EvaluationSymmetry == Permutations(Evaluations)

=============================================================================
