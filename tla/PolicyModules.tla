--------------------------- MODULE PolicyModules ---------------------------
(***************************************************************************)
(* The decision phase of the OxDeAI policy engine as pure operators:       *)
(* the eight policy modules (packages/core/src/policy/modules), the        *)
(* trusted-time freshness gate, the module pipeline and evaluatePure.      *)
(*                                                                         *)
(* Every module looks at the same state, the one before the evaluation;    *)
(* on ALLOW each contributes a delta to a part of the state of its own,    *)
(* so merging the deltas in pipeline order is one simultaneous update.     *)
(* A denying module is a non-empty set of reason codes.                    *)
(*                                                                         *)
(* Hashes are represented by what they identify.  The content-derived      *)
(* auth_id is the pair (nonce, issued_at) within an agent's lease map:     *)
(* two authorizations of one agent with the same pair would need the same  *)
(* nonce to be admitted twice in one second of one state lineage.          *)
(***************************************************************************)
EXTENDS Integers, Sequences, FiniteSets

CONSTANTS
  Agents,           \* every agent id an intent may carry
  Configured,       \* the agents whose limits are all present in the state
  Nonces,           \* intent nonces
  Tools,            \* tool names
  NoTool,           \* the intent names no tool
  BudgetLimit,      \* budget.budget_limit            [Configured -> Nat]
  MaxAmount,        \* max_amount_per_action          [Configured -> Nat]
  MaxConcurrent,    \* concurrency.max_concurrent     [Configured -> Nat]
  MaxDepth,         \* recursion.max_depth            [Configured -> Nat]
  MaxCalls,         \* tool_limits.max_calls          [Configured -> Nat]
  MaxCallsByTool,   \* tool_limits.max_calls_by_tool  [Configured -> partial]
  ToolWindow,       \* tool_limits.window_seconds
  VelocityWindow,   \* velocity.config.window_seconds
  MaxActions,       \* velocity.config.max_actions
  ReplayWindow,     \* replay.window_seconds
  MaxNonces,        \* replay.max_nonces_per_agent
  MaxClockSkew,     \* EngineOptions.maxClockSkewSeconds
  MaxIntentAge,     \* EngineOptions.maxIntentAgeSeconds
  Ttl,              \* EngineOptions.authorization_ttl_seconds
  PolicyVersion     \* EngineOptions.policy_version

(***************************************************************************)
(* What EngineOptions' constructor and the modules' own checks accept.     *)
(***************************************************************************)
ASSUME PolicyConfig ==
  /\ Configured \subseteq Agents
  /\ BudgetLimit \in [Configured -> Nat]
  /\ MaxAmount \in [Configured -> Nat]
  /\ MaxConcurrent \in [Configured -> Nat]
  /\ MaxDepth \in [Configured -> Nat]
  /\ MaxCalls \in [Configured -> Nat]
  /\ \A a \in Configured : \A u \in DOMAIN MaxCallsByTool[a] : MaxCallsByTool[a][u] \in Nat
  /\ NoTool \notin Tools
  /\ ToolWindow \in Nat \ {0} /\ VelocityWindow \in Nat \ {0}
  /\ MaxActions \in Nat /\ ReplayWindow \in Nat /\ MaxNonces \in Nat \ {0}
  /\ MaxClockSkew \in Nat /\ MaxIntentAge \in Nat /\ Ttl \in Nat \ {0}

----------------------------------------------------------------------------
(***************************************************************************)
(* The runtime State, restricted to what evaluations read and write.       *)
(***************************************************************************)
Time == Nat

LeaseId == [nonce : Nonces, issued_at : Time]
Lease == [auth_id : LeaseId, expires_at : Time]
NonceEntry == [nonce : Nonces, ts : Time]
ToolCall == [ts : Time, tool : Tools, nonce : Nonces]
Counter == [window_start : Time, count : Nat]
NoCounter == [window_start |-> -1, count |-> 0]  \* velocity.counters[agent] absent
NoLease == [nonce |-> "none", issued_at |-> -1]  \* intent.authorization_id absent

State ==
  [ policy_version : {PolicyVersion, "other"},
    kill_global : BOOLEAN,
    kill_agents : SUBSET Agents,
    spent : [Agents -> Nat],
    counters : [Agents -> Counter \cup {NoCounter}],
    nonces : [Agents -> SUBSET NonceEntry],
    active : [Agents -> Nat],
    active_auths : [Agents -> SUBSET Lease],
    calls : [Agents -> SUBSET ToolCall] ]

EmptyState ==
  [ policy_version |-> PolicyVersion,
    kill_global |-> FALSE,
    kill_agents |-> {},
    spent |-> [a \in Agents |-> 0],
    counters |-> [a \in Agents |-> NoCounter],
    nonces |-> [a \in Agents |-> {}],
    active |-> [a \in Agents |-> 0],
    active_auths |-> [a \in Agents |-> {}],
    calls |-> [a \in Agents |-> {}] ]

(***************************************************************************)
(* An intent, with the fields the decision reads.  A negative amount or    *)
(* timestamp stands for a malformed one; off_list holds the reason code of *)
(* each configured allowlist the intent's action type, asset or target is  *)
(* missing from.                                                           *)
(***************************************************************************)
Intent ==
  [ type : {"EXECUTE", "RELEASE"}, agent_id : Agents, nonce : Nonces,
    timestamp : Int, amount : Int, depth : Nat, tool : Tools \cup {NoTool},
    off_list : SUBSET {"ALLOWLIST_ACTION", "ALLOWLIST_ASSET", "ALLOWLIST_TARGET"},
    authorization_id : LeaseId \cup {NoLease} ]

DenyIf(condition, reason) == IF condition THEN {reason} ELSE {}

----------------------------------------------------------------------------
(***************************************************************************)
(* The modules.                                                            *)
(***************************************************************************)
KillSwitchModule(i, s) ==
  DenyIf(s.kill_global \/ i.agent_id \in s.kill_agents, "KILL_SWITCH")

AllowlistModule(i) == i.off_list

RecursionDepthModule(i) ==
  DenyIf(i.depth > MaxDepth[i.agent_id], "RECURSION_DEPTH_EXCEEDED")

\* Mutant: the limit is compared with what was spent before this action.
BudgetModule_IgnoresAmount(i, s) ==
  DenyIf(s.spent[i.agent_id] > BudgetLimit[i.agent_id], "BUDGET_EXCEEDED")

BudgetModule(i, s) ==
  IF i.amount > MaxAmount[i.agent_id]
  THEN {"PER_ACTION_CAP_EXCEEDED"}
  ELSE DenyIf(s.spent[i.agent_id] + i.amount > BudgetLimit[i.agent_id], "BUDGET_EXCEEDED")

(***************************************************************************)
(* Replay entries are stamped with, and pruned by, the trusted evaluation  *)
(* clock.  They are kept for the replay window or for as long as an intent *)
(* can stay fresh, whichever is longer.                                    *)
(***************************************************************************)
FreshnessHorizon == MaxIntentAge + MaxClockSkew
\* Mutant: entries are kept for the replay window only.
Retention_ReplayWindow == ReplayWindow

Retention == IF ReplayWindow > FreshnessHorizon THEN ReplayWindow ELSE FreshnessHorizon

RetainedNonces(s, a, t) == {e \in s.nonces[a] : e.ts >= t - Retention}

ReplayModule(i, s, t) ==
  LET kept == RetainedNonces(s, i.agent_id, t)
  IN IF \E e \in kept : e.nonce = i.nonce
     THEN {"REPLAY_NONCE"}
     ELSE DenyIf(Cardinality(kept) >= MaxNonces, "VELOCITY_EXCEEDED")

NextNonces(i, s, t) ==
  RetainedNonces(s, i.agent_id, t) \cup {[nonce |-> i.nonce, ts |-> t]}

(***************************************************************************)
(* Leases are reclaimed at their exact expiry; a RELEASE removes the lease *)
(* it names, and only a live one.                                          *)
(***************************************************************************)
LiveLeases(s, a, t) == {l \in s.active_auths[a] : t < l.expires_at}

\* Mutant: a RELEASE reclaims expired leases but keeps the one it names.
RemainingLeases_KeepsReleased(i, s, t) == LiveLeases(s, i.agent_id, t)

RemainingLeases(i, s, t) ==
  {l \in LiveLeases(s, i.agent_id, t) :
      i.type = "RELEASE" => l.auth_id # i.authorization_id}

RemovedLeases(i, s, t) ==
  Cardinality(s.active_auths[i.agent_id]) - Cardinality(RemainingLeases(i, s, t))

ReleaseInvalid(i, s, t) ==
  \A l \in LiveLeases(s, i.agent_id, t) : l.auth_id # i.authorization_id

ActiveAfterReclaim(i, s, t) == s.active[i.agent_id] - RemovedLeases(i, s, t)

ConcurrencyModule(i, s, t) ==
  IF s.active[i.agent_id] < Cardinality(s.active_auths[i.agent_id])
  THEN {"STATE_INVALID"}
  ELSE IF i.type = "RELEASE"
       THEN DenyIf(ReleaseInvalid(i, s, t), "CONCURRENCY_RELEASE_INVALID")
       ELSE DenyIf(ActiveAfterReclaim(i, s, t) >= MaxConcurrent[i.agent_id],
                   "CONCURRENCY_LIMIT_EXCEEDED")

(***************************************************************************)
(* A sliding log of tool calls: an event leaves the window at the exact    *)
(* boundary, and an event from the future makes the state invalid.  The    *)
(* log's order is never looked at, so it is a set; each call carries the   *)
(* nonce of its intent, which keeps equal calls apart.                     *)
(***************************************************************************)
CallsOf(log, tool) == {e \in log : e.tool = tool}
\* Mutant: an event leaves the window one second early.
InWindow_Early(log, t) == {e \in log : t - e.ts < ToolWindow - 1}

InWindow(log, t) == {e \in log : t - e.ts < ToolWindow}

ToolLogInvalid(a, s, t) ==
  \/ \E u \in DOMAIN MaxCallsByTool[a] : MaxCallsByTool[a][u] > MaxCalls[a]
  \/ Cardinality(s.calls[a]) > MaxCalls[a]
  \/ \E e \in s.calls[a] : e.ts > t
  \/ \E u \in DOMAIN MaxCallsByTool[a] :
        Cardinality(CallsOf(s.calls[a], u)) > MaxCallsByTool[a][u]

ToolAmplificationModule(i, s, t) ==
  LET a == i.agent_id
      pruned == InWindow(s.calls[a], t)
  IN IF i.tool = NoTool
     THEN {}
     ELSE IF ToolLogInvalid(a, s, t)
     THEN {"STATE_INVALID"}
     ELSE DenyIf(\/ Cardinality(pruned) >= MaxCalls[a]
                 \/ /\ i.tool \in DOMAIN MaxCallsByTool[a]
                    /\ Cardinality(CallsOf(pruned, i.tool)) >= MaxCallsByTool[a][i.tool],
                 "TOOL_CALL_LIMIT_EXCEEDED")

NextCalls(i, s, t) ==
  IF i.tool = NoTool
  THEN s.calls[i.agent_id]
  ELSE InWindow(s.calls[i.agent_id], t)
         \cup {[ts |-> t, tool |-> i.tool, nonce |-> i.nonce]}

(***************************************************************************)
(* A fixed window, opened by the first action after the previous one       *)
(* closed.                                                                 *)
(***************************************************************************)
\* Mutant: the window closes a second early.
WindowClosed_Early(c, t) == c = NoCounter \/ t - c.window_start >= VelocityWindow - 1

WindowClosed(c, t) == c = NoCounter \/ t - c.window_start >= VelocityWindow

VelocityModule(i, s, t) ==
  LET c == s.counters[i.agent_id]
  IN IF c # NoCounter /\ t < c.window_start
     THEN {"STATE_INVALID"}
     ELSE DenyIf(IF WindowClosed(c, t) THEN MaxActions < 1 ELSE c.count >= MaxActions,
                 "VELOCITY_EXCEEDED")

NextCounter(i, s, t) ==
  LET c == s.counters[i.agent_id]
  IN IF WindowClosed(c, t)
     THEN [window_start |-> t, count |-> 1]
     ELSE [window_start |-> c.window_start, count |-> c.count + 1]

----------------------------------------------------------------------------
(***************************************************************************)
(* The freshness gate, both bounds inclusive.                              *)
(***************************************************************************)
VerifyTrustedTime(i, t) ==
  IF i.timestamp < 0
  THEN {"STATE_INVALID"}
  ELSE DenyIf(i.timestamp - t > MaxClockSkew, "INTENT_FRESHNESS_FUTURE")
       \cup DenyIf(t - i.timestamp > MaxIntentAge, "INTENT_STALE")

(***************************************************************************)
(* The checks made before anything is audited: the intent, the presence of *)
(* the agent's configuration, the policy version.                          *)
(***************************************************************************)
ValidateIntent(i) ==
  IF i.amount < 0
  THEN {"INTENT_AMOUNT_INVALID"}
  ELSE DenyIf(i.type = "RELEASE" /\ i.authorization_id = NoLease, "STATE_INVALID")

ValidateState(i, s) ==
  IF i.agent_id \notin Configured
  THEN {"STATE_INVALID"}
  ELSE DenyIf(s.policy_version # PolicyVersion, "POLICY_VERSION_MISMATCH")

(***************************************************************************)
(* The two pipelines, in order.                                            *)
(***************************************************************************)
ModuleResults(i, s, t) ==
  IF i.type = "RELEASE"
  THEN << KillSwitchModule(i, s), ReplayModule(i, s, t), ConcurrencyModule(i, s, t) >>
  ELSE << KillSwitchModule(i, s), AllowlistModule(i), ReplayModule(i, s, t),
          RecursionDepthModule(i), ConcurrencyModule(i, s, t),
          ToolAmplificationModule(i, s, t), BudgetModule(i, s), VelocityModule(i, s, t) >>

(***************************************************************************)
(* Fail-fast stops at the first denying stage; collect-all, which only the *)
(* module stage honours, gathers the reasons of every module.              *)
(***************************************************************************)
FirstDenial(stages) ==
  LET denying == {k \in DOMAIN stages : stages[k] # {}}
  IN IF denying = {}
     THEN {}
     ELSE stages[CHOOSE k \in denying : \A j \in denying : k <= j]

RunDecisionModules(i, s, t, mode) ==
  LET results == ModuleResults(i, s, t)
  IN IF mode = "fail-fast"
     THEN FirstDenial(results)
     ELSE UNION {results[k] : k \in DOMAIN results}

Gates(i, s, t) ==
  FirstDenial(<< ValidateIntent(i), ValidateState(i, s), VerifyTrustedTime(i, t) >>)

DenyReasons(i, s, t, mode) ==
  IF Gates(i, s, t) # {}
  THEN Gates(i, s, t)
  ELSE RunDecisionModules(i, s, t, mode)

(***************************************************************************)
(* The state after an ALLOW.  The lease map is replaced, not merged, and   *)
(* an EXECUTE adds the lease of the authorization it emits.                *)
(***************************************************************************)
NewLease(i, t) ==
  [auth_id |-> [nonce |-> i.nonce, issued_at |-> t], expires_at |-> t + Ttl]

NextStateRelease(i, s, t) ==
  LET a == i.agent_id
  IN [ policy_version |-> s.policy_version,
       kill_global |-> s.kill_global,
       kill_agents |-> s.kill_agents,
       spent |-> s.spent,
       counters |-> s.counters,
       nonces |-> [s.nonces EXCEPT ![a] = NextNonces(i, s, t)],
       active |-> [s.active EXCEPT ![a] = ActiveAfterReclaim(i, s, t)],
       active_auths |-> [s.active_auths EXCEPT ![a] = RemainingLeases(i, s, t)],
       calls |-> s.calls ]

ExecuteWithLeases(i, s, t, leases) ==
  LET a == i.agent_id
  IN [ policy_version |-> s.policy_version,
       kill_global |-> s.kill_global,
       kill_agents |-> s.kill_agents,
       spent |-> [s.spent EXCEPT ![a] = @ + i.amount],
       counters |-> [s.counters EXCEPT ![a] = NextCounter(i, s, t)],
       nonces |-> [s.nonces EXCEPT ![a] = NextNonces(i, s, t)],
       active |-> [s.active EXCEPT ![a] = ActiveAfterReclaim(i, s, t) + 1],
       active_auths |-> [s.active_auths EXCEPT ![a] = leases \cup {NewLease(i, t)}],
       calls |-> [s.calls EXCEPT ![a] = NextCalls(i, s, t)] ]

\* Mutant: the lease map is merged into the old one instead of replacing it.
NextStateExecute_MergesLeases(i, s, t) ==
  ExecuteWithLeases(i, s, t, s.active_auths[i.agent_id])

NextStateExecute(i, s, t) == ExecuteWithLeases(i, s, t, RemainingLeases(i, s, t))

NextState(i, s, t) ==
  IF i.type = "RELEASE" THEN NextStateRelease(i, s, t) ELSE NextStateExecute(i, s, t)

=============================================================================
