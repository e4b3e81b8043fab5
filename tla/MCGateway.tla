----------------------------- MODULE MCGateway -----------------------------
(***************************************************************************)
(* The gateway model-checked: two requests and a call that goes around the *)
(* gateway.                                                                *)
(***************************************************************************)
EXTENDS Gateway, TLC

CONSTANTS r1, r2, d1, a1, a2

MCActionOf == (a1 :> "pay") @@ (a2 :> "refund")
MCIssuerOf == (a1 :> "ours") @@ (a2 :> "theirs")

\* One authorization twice, beside one of a stranger, and for another action.
Pay == [auth |-> a1, action |-> "pay"]
MCPresented ==
  {[r \in Requests |-> IF r = r2 THEN second ELSE Pay] :
     second \in {Pay, [auth |-> a2, action |-> "refund"], [auth |-> a1, action |-> "refund"]}}

ExpiresAt2 == [a \in Auths |-> 2]

\* The list as deployed, one that trusts a stranger, and one that is malformed.
Deployed == [wellFormed |-> TRUE, authorities |-> {"ours"}]
MCOptionValues ==
  {Deployed, [Deployed EXCEPT !.authorities = {"ours", "theirs"}],
   [Deployed EXCEPT !.wellFormed = FALSE]}

MCDirectHeaders == {<<>>, <<"guess">>, <<Token, Token>>}

=============================================================================
