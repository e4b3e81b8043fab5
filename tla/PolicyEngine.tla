---------------------------- MODULE PolicyEngine ----------------------------
(***************************************************************************)
(* The policy engine as a sequential state machine: a caller evaluates     *)
(* intents one after the other against the state it owns and keeps the     *)
(* next state of each ALLOW, under a trusted clock that does not run       *)
(* backwards, while an operator works the kill switches in that state.     *)
(* A denied evaluation leaves the state alone.                             *)
(*                                                                         *)
(* This is also the abstract specification of the guard: module Guard      *)
(* shows that concurrent requests behave like this one sequential caller.  *)
(*                                                                         *)
(* `admitted` is a history variable: the AUTH_EMITTED records of the audit *)
(* log, in order, each with the intent it was emitted for.                 *)
(***************************************************************************)
EXTENDS PolicyModules

CONSTANTS
  Intents,   \* the intents callers present
  MaxTime    \* bound on the clock

ASSUME EngineConfig == Intents \subseteq Intent /\ MaxTime \in Nat

VARIABLES
  now,       \* evaluationTime of the last admitted evaluation
  state,     \* the caller's State object
  admitted   \* history of the admitted intents

vars == <<now, state, admitted>>

Admission == [intent : Intent, at : Time]

TypeOK ==
  /\ now \in Time
  /\ state \in State
  /\ admitted \in Seq(Admission)

Init ==
  /\ now = 0
  /\ \E v \in {PolicyVersion, "other"} : state = [EmptyState EXCEPT !.policy_version = v]
  /\ admitted = <<>>

(***************************************************************************)
(* evaluate at trusted time t: evaluatePure in fail-fast mode, then the    *)
(* caller's state takes the next state.                                    *)
(***************************************************************************)
EvaluateAllow(i, t) ==
  /\ t >= now
  /\ DenyReasons(i, state, t, "fail-fast") = {}
  /\ state' = NextState(i, state, t)
  /\ admitted' = Append(admitted, [intent |-> i, at |-> t])
  /\ now' = t

EvaluateDeny(i, t) ==
  /\ t >= now
  /\ DenyReasons(i, state, t, "fail-fast") # {}
  /\ UNCHANGED vars

(***************************************************************************)
(* The operator owns the kill switches; the engine never writes them.      *)
(***************************************************************************)
SetKillSwitch(global, agents) ==
  /\ state' = [state EXCEPT !.kill_global = global, !.kill_agents = agents]
  /\ UNCHANGED <<now, admitted>>

Next ==
  \/ \E i \in Intents, t \in 0..MaxTime : EvaluateAllow(i, t)
  \/ \E i \in Intents, t \in 0..MaxTime : EvaluateDeny(i, t)
  \/ \E g \in BOOLEAN, as \in SUBSET Configured : SetKillSwitch(g, as)

Spec == Init /\ [][Next]_vars

----------------------------------------------------------------------------
(***************************************************************************)
(* Reading the history.                                                    *)
(***************************************************************************)
Admissions == DOMAIN admitted

IsExecute(k, a) == admitted[k].intent.type = "EXECUTE" /\ admitted[k].intent.agent_id = a

IdOf(k) == [nonce |-> admitted[k].intent.nonce, issued_at |-> admitted[k].at]

Released(k, a) ==
  \E j \in Admissions :
    /\ admitted[j].intent.type = "RELEASE"
    /\ admitted[j].intent.agent_id = a
    /\ admitted[j].intent.authorization_id = IdOf(k)

\* Executions of agent a admitted in the w seconds that end at t.
AdmittedIn(a, t, w) == {k \in Admissions : IsExecute(k, a) /\ admitted[k].at \in (t - w + 1)..t}

(***************************************************************************)
(* No intent is ever admitted twice: by the time its nonce is pruned from  *)
(* the replay entries (ReplayModule's retention), the freshness gate no    *)
(* longer accepts its timestamp.                                           *)
(***************************************************************************)
NoIntentAdmittedTwice ==
  \A j, k \in Admissions : admitted[j].intent = admitted[k].intent => j = k

(***************************************************************************)
(* The concurrency counter stays the number of tracked leases and within   *)
(* the agent's limit, through reclamation, release and replacement of the  *)
(* lease map (ConcurrencyModule and the engine's lease assignment).        *)
(***************************************************************************)
LeaseAccounting ==
  \A a \in Agents :
    /\ state.active[a] = Cardinality(state.active_auths[a])
    /\ a \in Configured => state.active[a] <= MaxConcurrent[a]
    /\ a \notin Configured => state.active[a] = 0

(***************************************************************************)
(* Budget and per-action cap (BudgetModule): an agent never spends past    *)
(* its limit.                                                              *)
(***************************************************************************)
BudgetRespected ==
  \A a \in Agents :
    IF a \in Configured THEN state.spent[a] <= BudgetLimit[a] ELSE state.spent[a] = 0

(***************************************************************************)
(* The authorizations an agent can still execute under (emitted, neither   *)
(* expired nor released) are, now and at any later time, exactly its live  *)
(* leases, so the concurrency limit really bounds them.                    *)
(***************************************************************************)
LiveAuthorizationsAreLeased ==
  \A a \in Agents : \A t \in now..MaxTime :
    {l.auth_id : l \in LiveLeases(state, a, t)}
      = {IdOf(k) : k \in {j \in Admissions : /\ IsExecute(j, a)
                                             /\ t < admitted[j].at + Ttl
                                             /\ ~Released(j, a)}}

(***************************************************************************)
(* VelocityModule's fixed windows let a burst straddle two of them, but    *)
(* the action that opened the first window is out of any VelocityWindow    *)
(* seconds that reach the second: at most 2 * MaxActions - 1 in any such   *)
(* interval.                                                               *)
(***************************************************************************)
VelocityBurstBound ==
  \A a \in Agents : \A t \in 0..now :
    Cardinality(AdmittedIn(a, t, VelocityWindow)) <= IF MaxActions = 0 THEN 0 ELSE 2 * MaxActions - 1

(***************************************************************************)
(* ToolAmplificationModule is a true sliding window: in any ToolWindow     *)
(* seconds no more tool calls than the agent's limits, in total and for    *)
(* each tool that has a limit of its own.                                  *)
(***************************************************************************)
ToolWindowBound ==
  \A a \in Configured : \A t \in 0..now :
    LET calls == {k \in AdmittedIn(a, t, ToolWindow) : admitted[k].intent.tool # NoTool}
    IN /\ Cardinality(calls) <= MaxCalls[a]
       /\ \A u \in DOMAIN MaxCallsByTool[a] :
             Cardinality({k \in calls : admitted[k].intent.tool = u}) <= MaxCallsByTool[a][u]

=============================================================================
