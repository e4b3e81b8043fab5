---------------------------- MODULE MCKeyStore ----------------------------
(***************************************************************************)
(* A refresh and a receipt of a key unknown at first, against an endpoint  *)
(* that serves an old list that expires at time 1, a newer one that        *)
(* revokes the receipt's key, a forged, an unsigned and a malformed one.   *)
(***************************************************************************)
EXTENDS KeyStore

CONSTANTS c1, r1

Served(version, revoked, not_after, form) ==
  [issuer |-> "krl", version |-> version, revoked |-> revoked, not_after |-> not_after,
   form |-> form]

Lists == { Served(1, {}, 1, "signed"), Served(2, {"kid"}, 2, "signed"),
           Served(3, {}, 2, "forged"), Served(0, {}, 2, "unsigned"), Served(0, {}, 0, "malformed") }

Kids == [c \in Calls |-> IF c = r1 THEN "kid" ELSE NoKid]

=============================================================================
