------------------------------ MODULE MCGuard ------------------------------
(***************************************************************************)
(* Small instances of Guard: one agent, intents of amount one.             *)
(***************************************************************************)
EXTENDS Guard

CONSTANTS a1, n1, i1, i2, r1, r2, r3, d1

One(v) == [a \in {a1} |-> v]
MCBudgetLimit == One(2)
MCMaxAmount == One(2)
MCMaxConcurrent == One(3)
MCMaxDepth == One(0)
MCMaxCalls == One(2)
MCMaxCallsByTool == [a \in {a1} |-> <<>>]

Execute(n, ts) ==
  [type |-> "EXECUTE", agent_id |-> a1, nonce |-> n, timestamp |-> ts, amount |-> 1,
   depth |-> 0, tool |-> NoTool, off_list |-> {}, authorization_id |-> NoLease]

(***************************************************************************)
(* The same intent twice, in two instances that crash and share no replay  *)
(* store, with every external call failing.                                *)
(***************************************************************************)
TwinRequests == {r1, r2}
TwoInstances == [r \in TwinRequests |-> IF r = r1 THEN i1 ELSE i2]
TwinIntent == [r \in TwinRequests |-> Execute(n1, 1)]
TwinDelegation == [r \in TwinRequests |-> NoDelegation]

(***************************************************************************)
(* Both paths: r1 and r2 present delegations with the same id under two    *)
(* parents; r3 takes the standard path and, at time 0, mints the very      *)
(* authorization that is r1's parent.                                      *)
(***************************************************************************)
MixedRequests == {r1, r2, r3}
OneInstance == [r \in MixedRequests |-> i1]

Minted(at) == [intent |-> Execute(n1, 0), state |-> EmptyState, issued_at |-> at]
Presented(at, expiry) ==
  [id |-> d1, expiry |-> expiry, parent |-> Minted(at), parent_expiry |-> at + Ttl, defects |-> {}]

MixedIntent == [r \in MixedRequests |-> Execute(n1, 0)]
MixedDelegation ==
  [r \in MixedRequests |->
     CASE r = r1 -> Presented(0, 1) [] r = r2 -> Presented(1, 2) [] r = r3 -> NoDelegation]
=============================================================================
