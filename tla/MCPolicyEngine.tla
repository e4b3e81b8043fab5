--------------------------- MODULE MCPolicyEngine ---------------------------
(***************************************************************************)
(* A small instance of PolicyEngine: one configured agent and one without  *)
(* a configuration, three nonces, one limited tool.                        *)
(***************************************************************************)
EXTENDS PolicyEngine, TLC

CONSTANTS a1, a2, n1, n2, n3, t1

MCAgents == {a1, a2}
MCConfigured == {a1}
MCLimit(n) == [a \in MCConfigured |-> n]
MCBudgetLimit == MCLimit(3)
MCMaxAmount == MCLimit(2)
MCMaxConcurrent == MCLimit(2)
MCMaxDepth == MCLimit(0)
MCMaxCalls == MCLimit(2)
MCMaxCallsByTool == [a \in MCConfigured |-> [t \in {t1} |-> 1]]

Base(type, a, n, ts) ==
  [type |-> type, agent_id |-> a, nonce |-> n, timestamp |-> ts, amount |-> 0,
   depth |-> 0, tool |-> NoTool, off_list |-> {}, authorization_id |-> NoLease]

\* Executions that hold leases, spend and call tools.
Executions ==
  {[Base("EXECUTE", a1, n, ts) EXCEPT !.amount = c[1], !.tool = c[2]] :
      n \in Nonces, ts \in {1, 3}, c \in {<<0, NoTool>>, <<2, NoTool>>, <<0, t1>>}}

\* Releases of any authorization that can have been issued.
Releases ==
  {[Base("RELEASE", a1, n, ts) EXCEPT !.authorization_id = [nonce |-> m, issued_at |-> at]] :
      n \in Nonces, ts \in {3}, m \in Nonces, at \in 0..4}

\* One intent for each gate that refuses it.
Refused ==
  {[Base("EXECUTE", a1, n1, 1) EXCEPT !.amount = -1],
   [Base("EXECUTE", a1, n1, 1) EXCEPT !.amount = 3],
   [Base("EXECUTE", a1, n1, 1) EXCEPT !.depth = 1],
   [Base("EXECUTE", a1, n1, 1) EXCEPT !.off_list = {"ALLOWLIST_TARGET"}],
   Base("EXECUTE", a1, n1, -1),
   Base("EXECUTE", a2, n1, 1),
   Base("RELEASE", a1, n1, 1)}

MCIntents == Executions \cup Releases \cup Refused
=============================================================================
