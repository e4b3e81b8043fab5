------------------------------ MODULE MCSift ------------------------------
(* Adapter configurations, key store answers and bounds for the Sift flow. *)
EXTENDS Sift, TLC

Configs ==
  {[issuer |-> "adapter-issuer", audience |-> "pep", ttlSeconds |-> 1],
   [issuer |-> "adapter-issuer", audience |-> "other", ttlSeconds |-> 1],
   [issuer |-> "adapter-issuer", audience |-> "pep", ttlSeconds |-> 0]}

Answers == {"sift", "other", "small", "short", "REVOKED_KID", "UNKNOWN_KID"}

Kinds == {"int", "null", "fraction", "undefined", "nan", "none", "list"}

Symmetric == Permutations(Requests) \cup Permutations(Tools)
=============================================================================
