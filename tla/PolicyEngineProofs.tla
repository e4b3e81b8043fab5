------------------------- MODULE PolicyEngineProofs -------------------------
(***************************************************************************)
(* Proofs about the sequential policy engine, for every configuration,     *)
(* every set of intents and every length of run.                           *)
(***************************************************************************)
EXTENDS PolicyEngine, FiniteSetTheorems, WellFoundedInduction, TLAPS

(***************************************************************************)
(* The inductive invariant.  Two facts strengthen the properties:          *)
(* a lease issued at the time of the last evaluation has its nonce still   *)
(* among the replay entries (so a new lease is never an old one), and an   *)
(* admission whose entry has been pruned is too old to be fresh again.     *)
(***************************************************************************)
LeasesFinite == \A a \in Agents : IsFiniteSet(state.active_auths[a])

LeasesBackedByNonces ==
  \A a \in Agents : \A l \in state.active_auths[a] :
    /\ l.auth_id.issued_at <= now
    /\ l.auth_id.issued_at = now => [nonce |-> l.auth_id.nonce, ts |-> now] \in state.nonces[a]

AdmissionsRemembered ==
  \A k \in DOMAIN admitted :
    /\ admitted[k].at <= now
    /\ admitted[k].intent.timestamp <= admitted[k].at + MaxClockSkew
    /\ admitted[k].at >= now - Retention =>
         [nonce |-> admitted[k].intent.nonce, ts |-> admitted[k].at]
           \in state.nonces[admitted[k].intent.agent_id]

Inv ==
  /\ TypeOK
  /\ LeasesFinite /\ LeasesBackedByNonces /\ LeaseAccounting
  /\ BudgetRespected
  /\ AdmissionsRemembered /\ NoIntentAdmittedTwice

(***************************************************************************)
(* The second invariant ties the state to the whole history.  No two       *)
(* admissions of an agent have one identifier; leases, executions and      *)
(* releases name each other, so that an identifier once released is never  *)
(* issued again.                                                           *)
(***************************************************************************)
IdsUnique ==
  \A j, k \in Admissions :
    admitted[j].intent.agent_id = admitted[k].intent.agent_id /\ IdOf(j) = IdOf(k) => j = k

LeasesTraced ==
  /\ \A a \in Agents : \A l \in state.active_auths[a] :
       /\ l.expires_at = l.auth_id.issued_at + Ttl
       /\ \E k \in Admissions : IsExecute(k, a) /\ IdOf(k) = l.auth_id /\ ~Released(k, a)
  /\ \A a \in Agents : \A k \in Admissions :
       (IsExecute(k, a) /\ now < admitted[k].at + Ttl /\ ~Released(k, a))
         => \E l \in state.active_auths[a] : l.auth_id = IdOf(k)
  /\ \A j \in Admissions : admitted[j].intent.type = "RELEASE" =>
       \E k \in Admissions : IsExecute(k, admitted[j].intent.agent_id)
                             /\ IdOf(k) = admitted[j].intent.authorization_id

(***************************************************************************)
(* The velocity counter counts the executions of the open window, which    *)
(* one of them opened; and of the actions before it, fewer than the limit  *)
(* are within reach of an interval that also reaches this window.          *)
(***************************************************************************)
ExecutionsSince(a, t) == {k \in Admissions : IsExecute(k, a) /\ admitted[k].at >= t}
ExecutionsBetween(a, t, u) ==
  {k \in Admissions : IsExecute(k, a) /\ t < admitted[k].at /\ admitted[k].at < u}

WindowCounted(a) ==
  LET c == state.counters[a]
  IN IF c = NoCounter
     THEN \A k \in Admissions : ~IsExecute(k, a)
     ELSE /\ c.window_start <= now /\ c.count <= MaxActions
          /\ c.count = Cardinality(ExecutionsSince(a, c.window_start))
          /\ \E k \in Admissions : IsExecute(k, a) /\ admitted[k].at = c.window_start
          /\ \A k \in Admissions : IsExecute(k, a) => admitted[k].at < c.window_start + VelocityWindow
          /\ Cardinality(ExecutionsBetween(a, c.window_start - VelocityWindow, c.window_start))
                <= MaxActions - 1

(***************************************************************************)
(* Every tool call that can still be in the window is in the agent's log,  *)
(* and the log never holds more than the limits allow.                     *)
(***************************************************************************)
CallOf(k) ==
  [ts |-> admitted[k].at, tool |-> admitted[k].intent.tool, nonce |-> admitted[k].intent.nonce]

CallsLogged(a) ==
  /\ IsFiniteSet(state.calls[a])
  /\ a \in Configured =>
       /\ Cardinality(state.calls[a]) <= MaxCalls[a]
       /\ \A u \in DOMAIN MaxCallsByTool[a] :
            Cardinality(CallsOf(state.calls[a], u)) <= MaxCallsByTool[a][u]
  /\ \A k \in Admissions :
       (IsExecute(k, a) /\ admitted[k].intent.tool # NoTool /\ admitted[k].at > now - ToolWindow)
         => CallOf(k) \in state.calls[a]

HistoryInv ==
  /\ IdsUnique /\ LeasesTraced
  /\ \A a \in Agents : WindowCounted(a) /\ CallsLogged(a)
  /\ VelocityBurstBound /\ ToolWindowBound

----------------------------------------------------------------------------
(* Operators *)

(***************************************************************************)
(* Every non-empty set of naturals has a least element: here, the first    *)
(* stage that denies.                                                      *)
(***************************************************************************)
LEMMA LeastNatural ==
  ASSUME NEW T \in SUBSET Nat, T # {}
  PROVE  \E k \in T : \A j \in T : k <= j
<1>1. PICK x \in T : \A y \in T : ~ (<<y, x>> \in OpToRel(<, Nat))
  BY NatLessThanWellFounded, WFMin
<1>2. \A y \in T : ~ (y < x)
  BY <1>1 DEF OpToRel
<1> QED
  BY <1>2

(***************************************************************************)
(* The pipeline denies nothing only when no stage denies.                  *)
(***************************************************************************)
LEMMA FirstDenialEmpty ==
  ASSUME NEW stages, DOMAIN stages \subseteq Nat, FirstDenial(stages) = {}
  PROVE  \A k \in DOMAIN stages : stages[k] = {}
<1> DEFINE denying == {k \in DOMAIN stages : stages[k] # {}}
<1> SUFFICES ASSUME denying # {} PROVE FALSE
  OBVIOUS
<1>1. \E k \in denying : \A j \in denying : k <= j
  BY LeastNatural
<1>2. (CHOOSE k \in denying : \A j \in denying : k <= j) \in denying
  BY <1>1
<1>3. FirstDenial(stages) = stages[CHOOSE k \in denying : \A j \in denying : k <= j]
  BY DEF FirstDenial
<1> QED
  BY <1>2, <1>3

LEMMA DenyIfEmpty ==
  ASSUME NEW condition, NEW reason, DenyIf(condition, reason) = {}
  PROVE  ~condition
BY DEF DenyIf

(***************************************************************************)
(* What an ALLOW implies: the gates and the modules a later step needs.    *)
(***************************************************************************)
LEMMA AllowGates ==
  ASSUME NEW i \in Intent, NEW s, NEW t, DenyReasons(i, s, t, "fail-fast") = {}
  PROVE  /\ ValidateIntent(i) = {} /\ ValidateState(i, s) = {} /\ VerifyTrustedTime(i, t) = {}
         /\ FirstDenial(ModuleResults(i, s, t)) = {}
<1>1. Gates(i, s, t) = {} /\ FirstDenial(ModuleResults(i, s, t)) = {}
  BY DEF DenyReasons, RunDecisionModules
<1> DEFINE stages == << ValidateIntent(i), ValidateState(i, s), VerifyTrustedTime(i, t) >>
<1>2. DOMAIN stages = 1..3
  OBVIOUS
<1>3. FirstDenial(stages) = {}
  BY <1>1 DEF Gates
<1>4. \A k \in DOMAIN stages : stages[k] = {}
  <2> HIDE DEF stages
  <2> QED BY <1>2, <1>3, FirstDenialEmpty
<1> QED
  BY <1>1, <1>2, <1>4

LEMMA AllowModules ==
  ASSUME NEW i \in Intent, NEW s, NEW t, FirstDenial(ModuleResults(i, s, t)) = {}
  PROVE  /\ ReplayModule(i, s, t) = {}
         /\ ConcurrencyModule(i, s, t) = {}
         /\ i.type = "EXECUTE" =>
              BudgetModule(i, s) = {} /\ ToolAmplificationModule(i, s, t) = {}
              /\ VelocityModule(i, s, t) = {}
<1> DEFINE results == ModuleResults(i, s, t)
<1>1. i.type \in {"EXECUTE", "RELEASE"}
  BY DEF Intent
<1>2. DOMAIN results \subseteq Nat
  BY <1>1 DEF ModuleResults
<1>3. \A k \in DOMAIN results : results[k] = {}
  <2> HIDE DEF results
  <2>1. FirstDenial(results) = {} BY DEF results
  <2> QED BY <1>2, <2>1, FirstDenialEmpty
<1>4. CASE i.type = "RELEASE"
  <2>1. results = << KillSwitchModule(i, s), ReplayModule(i, s, t), ConcurrencyModule(i, s, t) >>
    BY <1>4 DEF ModuleResults
  <2>2. results[2] = {} /\ results[3] = {}
    BY <1>3, <2>1
  <2> QED BY <1>4, <2>1, <2>2
<1>5. CASE i.type = "EXECUTE"
  <2>1. results = << KillSwitchModule(i, s), AllowlistModule(i), ReplayModule(i, s, t),
                     RecursionDepthModule(i), ConcurrencyModule(i, s, t),
                     ToolAmplificationModule(i, s, t), BudgetModule(i, s),
                     VelocityModule(i, s, t) >>
    BY <1>5 DEF ModuleResults
  <2>2. results[3] = {} /\ results[5] = {} /\ results[6] = {} /\ results[7] = {} /\ results[8] = {}
    BY <1>3, <2>1
  <2> QED BY <2>1, <2>2
<1> QED
  BY <1>1, <1>4, <1>5

LEMMA AllowFacts ==
  ASSUME NEW i \in Intent, NEW s \in State, NEW t \in Time,
         DenyReasons(i, s, t, "fail-fast") = {}
  PROVE  /\ i.agent_id \in Configured
         /\ i.amount \in Nat
         /\ i.timestamp - t <= MaxClockSkew
         /\ t - i.timestamp <= MaxIntentAge
         /\ \A e \in s.nonces[i.agent_id] : e.ts >= t - Retention => e.nonce # i.nonce
         /\ ~ (s.active[i.agent_id] < Cardinality(s.active_auths[i.agent_id]))
         /\ i.type = "EXECUTE" =>
              /\ ~ (ActiveAfterReclaim(i, s, t) >= MaxConcurrent[i.agent_id])
              /\ ~ (s.spent[i.agent_id] + i.amount > BudgetLimit[i.agent_id])
<1>1. /\ ValidateIntent(i) = {} /\ ValidateState(i, s) = {} /\ VerifyTrustedTime(i, t) = {}
      /\ FirstDenial(ModuleResults(i, s, t)) = {}
  BY AllowGates
<1>2. /\ ReplayModule(i, s, t) = {}
      /\ ConcurrencyModule(i, s, t) = {}
      /\ i.type = "EXECUTE" => BudgetModule(i, s) = {}
  BY <1>1, AllowModules
<1>3. i.agent_id \in Configured
  BY <1>1 DEF ValidateState
<1>4. i.amount \in Nat
  BY <1>1 DEF ValidateIntent, Intent
<1>5. i.timestamp - t <= MaxClockSkew /\ t - i.timestamp <= MaxIntentAge
  <2>1. i.timestamp \in Int /\ t \in Nat /\ MaxClockSkew \in Nat /\ MaxIntentAge \in Nat
    BY PolicyConfig DEF Intent, Time
  <2>2. /\ DenyIf(i.timestamp - t > MaxClockSkew, "INTENT_FRESHNESS_FUTURE") = {}
        /\ DenyIf(t - i.timestamp > MaxIntentAge, "INTENT_STALE") = {}
    BY <1>1 DEF VerifyTrustedTime
  <2>3. ~ (i.timestamp - t > MaxClockSkew) /\ ~ (t - i.timestamp > MaxIntentAge)
    BY <2>2, DenyIfEmpty
  <2> QED BY <2>1, <2>3
<1>6. \A e \in s.nonces[i.agent_id] : e.ts >= t - Retention => e.nonce # i.nonce
  BY <1>2 DEF ReplayModule, RetainedNonces
<1>7. ~ (s.active[i.agent_id] < Cardinality(s.active_auths[i.agent_id]))
  BY <1>2 DEF ConcurrencyModule
<1>8. ASSUME i.type = "EXECUTE"
      PROVE  /\ ~ (ActiveAfterReclaim(i, s, t) >= MaxConcurrent[i.agent_id])
             /\ ~ (s.spent[i.agent_id] + i.amount > BudgetLimit[i.agent_id])
  <2>1. DenyIf(ActiveAfterReclaim(i, s, t) >= MaxConcurrent[i.agent_id],
               "CONCURRENCY_LIMIT_EXCEEDED") = {}
    BY <1>2, <1>7, <1>8 DEF ConcurrencyModule
  <2>2. DenyIf(s.spent[i.agent_id] + i.amount > BudgetLimit[i.agent_id], "BUDGET_EXCEEDED") = {}
    BY <1>2, <1>8 DEF BudgetModule
  <2> QED BY <2>1, <2>2, DenyIfEmpty
<1> QED
  BY <1>3, <1>4, <1>5, <1>6, <1>7, <1>8

(***************************************************************************)
(* Reclaiming and releasing: the remaining leases are a subset, and the    *)
(* counter goes down by exactly the number of leases that left.            *)
(***************************************************************************)
LEMMA ReclaimKeepsCount ==
  ASSUME NEW i \in Intent, NEW s \in State, NEW t \in Time,
         IsFiniteSet(s.active_auths[i.agent_id]),
         s.active[i.agent_id] = Cardinality(s.active_auths[i.agent_id])
  PROVE  /\ RemainingLeases(i, s, t) \subseteq s.active_auths[i.agent_id]
         /\ IsFiniteSet(RemainingLeases(i, s, t))
         /\ Cardinality(RemainingLeases(i, s, t)) \in Nat
         /\ ActiveAfterReclaim(i, s, t) = Cardinality(RemainingLeases(i, s, t))
<1>1. RemainingLeases(i, s, t) \subseteq s.active_auths[i.agent_id]
  BY DEF RemainingLeases, LiveLeases
<1>2. IsFiniteSet(RemainingLeases(i, s, t))
  BY <1>1, FS_Subset
<1>3. /\ Cardinality(RemainingLeases(i, s, t)) \in Nat
      /\ Cardinality(s.active_auths[i.agent_id]) \in Nat
  BY <1>2, FS_CardinalityType
<1> QED
  BY <1>1, <1>2, <1>3 DEF ActiveAfterReclaim, RemovedLeases

LEMMA NextStateType ==
  ASSUME NEW i \in Intent, NEW s \in State, NEW t \in Time,
         IsFiniteSet(s.active_auths[i.agent_id]),
         s.active[i.agent_id] = Cardinality(s.active_auths[i.agent_id]),
         i.amount \in Nat
  PROVE  NextState(i, s, t) \in State
<1> DEFINE a == i.agent_id
<1>1. a \in Agents /\ i.nonce \in Nonces /\ i.tool \in Tools \cup {NoTool}
      /\ i.type \in {"EXECUTE", "RELEASE"}
  BY DEF Intent
<1>2. /\ RemainingLeases(i, s, t) \subseteq s.active_auths[a]
      /\ ActiveAfterReclaim(i, s, t) \in Nat
  BY ReclaimKeepsCount
<1>3. RemainingLeases(i, s, t) \in SUBSET Lease
  BY <1>1, <1>2 DEF State
<1>4. NextNonces(i, s, t) \in SUBSET NonceEntry
  BY <1>1 DEF NextNonces, RetainedNonces, NonceEntry, State, Time
<1>5. NewLease(i, t) \in Lease
  BY <1>1, PolicyConfig DEF NewLease, Lease, LeaseId, Time
<1>6. NextCalls(i, s, t) \in SUBSET ToolCall
  BY <1>1 DEF NextCalls, InWindow, ToolCall, State, Time
<1>7. NextCounter(i, s, t) \in Counter
  <2>1. s.counters[a] \in Counter \cup {NoCounter}
    BY <1>1 DEF State
  <2>2. CASE WindowClosed(s.counters[a], t)
    BY <2>2 DEF NextCounter, Counter, Time
  <2>3. CASE ~WindowClosed(s.counters[a], t)
    <3>1. s.counters[a] \in Counter
      BY <2>1, <2>3 DEF WindowClosed
    <3> QED BY <2>3, <3>1 DEF NextCounter, Counter, Time
  <2> QED BY <2>2, <2>3
<1>8. CASE i.type = "RELEASE"
  <2>1. NextState(i, s, t) = NextStateRelease(i, s, t)
    BY <1>8 DEF NextState
  <2>2. NextStateRelease(i, s, t) \in State
    BY <1>1, <1>2, <1>3, <1>4 DEF NextStateRelease, State
  <2> QED BY <2>1, <2>2
<1>9. CASE i.type = "EXECUTE"
  <2>1. NextState(i, s, t) = NextStateExecute(i, s, t)
    BY <1>9 DEF NextState
  <2>2. NextStateExecute(i, s, t) \in State
    BY <1>1, <1>2, <1>3, <1>4, <1>5, <1>6, <1>7
    DEF NextStateExecute, ExecuteWithLeases, State
  <2> QED BY <2>1, <2>2
<1> QED
  BY <1>1, <1>8, <1>9

----------------------------------------------------------------------------
LEMMA InitInv == Init => Inv
<1> SUFFICES ASSUME Init PROVE Inv
  OBVIOUS
<1> USE DEF Init
<1>1. PICK v \in {PolicyVersion, "other"} : state = [EmptyState EXCEPT !.policy_version = v]
  OBVIOUS
<1>2. /\ state.spent = [a \in Agents |-> 0] /\ state.active = [a \in Agents |-> 0]
      /\ state.active_auths = [a \in Agents |-> {}] /\ state.nonces = [a \in Agents |-> {}]
  BY <1>1 DEF EmptyState
<1>3. TypeOK
  <2>1. EmptyState \in State
    <3>1. NoCounter \in Counter \cup {NoCounter}
      OBVIOUS
    <3>2. {} \in SUBSET Lease /\ {} \in SUBSET NonceEntry /\ {} \in SUBSET ToolCall
      OBVIOUS
    <3> QED BY <3>1, <3>2 DEF EmptyState, State
  <2>2. state \in State
    BY <1>1, <2>1 DEF State
  <2>3. now \in Time /\ admitted \in Seq(Admission)
    BY DEF Time
  <2> HIDE DEF Init
  <2> QED BY <2>2, <2>3 DEF TypeOK
<1>4. LeasesFinite /\ LeasesBackedByNonces /\ LeaseAccounting
  <2>1. \A a \in Agents : state.active_auths[a] = {} /\ state.active[a] = 0
    BY <1>2
  <2>2. \A a \in Configured : MaxConcurrent[a] \in Nat
    BY PolicyConfig
  <2>3. IsFiniteSet({}) /\ Cardinality({}) = 0
    BY FS_EmptySet
  <2> HIDE DEF Init
  <2>4. LeasesFinite /\ LeasesBackedByNonces
    BY <2>1, <2>3 DEF LeasesFinite, LeasesBackedByNonces
  <2>5. LeaseAccounting
    BY <2>1, <2>2, <2>3 DEF LeaseAccounting
  <2> QED BY <2>4, <2>5
<1>5. BudgetRespected
  BY <1>2, PolicyConfig DEF BudgetRespected
<1>6. AdmissionsRemembered /\ NoIntentAdmittedTwice
  BY DEF AdmissionsRemembered, NoIntentAdmittedTwice, Admissions
<1> QED
  BY <1>3, <1>4, <1>5, <1>6 DEF Inv

LEMMA KillSwitchInv ==
  ASSUME Inv, NEW global \in BOOLEAN, NEW agents \in SUBSET Configured,
         SetKillSwitch(global, agents)
  PROVE  Inv'
<1> USE DEF Inv, SetKillSwitch
<1>1. state \in State /\ agents \subseteq Agents
  BY PolicyConfig DEF TypeOK
<1>2. /\ state' \in State
      /\ state'.spent = state.spent /\ state'.active = state.active
      /\ state'.active_auths = state.active_auths /\ state'.nonces = state.nonces
  BY <1>1 DEF State
<1>3. TypeOK'
  BY <1>2 DEF TypeOK
<1>4. LeasesFinite' /\ LeasesBackedByNonces' /\ LeaseAccounting' /\ BudgetRespected'
  BY <1>2 DEF LeasesFinite, LeasesBackedByNonces, LeaseAccounting, BudgetRespected
<1>5. AdmissionsRemembered' /\ NoIntentAdmittedTwice'
  BY <1>2 DEF AdmissionsRemembered, NoIntentAdmittedTwice, Admissions
<1> QED
  BY <1>3, <1>4, <1>5

LEMMA EvaluateInv ==
  ASSUME Inv, NEW i \in Intents, NEW t \in 0..MaxTime, EvaluateAllow(i, t)
  PROVE  Inv'
<1> DEFINE a == i.agent_id
<1>1. /\ state \in State /\ now \in Nat /\ admitted \in Seq(Admission)
      /\ i \in Intent /\ t \in Time /\ t \in Nat /\ t >= now
      /\ a \in Agents /\ i.nonce \in Nonces /\ i.timestamp \in Int
      /\ i.type \in {"EXECUTE", "RELEASE"}
  BY EngineConfig DEF Inv, TypeOK, EvaluateAllow, Intent, Time
<1>2. /\ state' = NextState(i, state, t) /\ now' = t
      /\ admitted' = Append(admitted, [intent |-> i, at |-> t])
      /\ DenyReasons(i, state, t, "fail-fast") = {}
  BY DEF EvaluateAllow
<1>3. /\ a \in Configured /\ i.amount \in Nat
      /\ i.timestamp - t <= MaxClockSkew /\ t - i.timestamp <= MaxIntentAge
      /\ \A e \in state.nonces[a] : e.ts >= t - Retention => e.nonce # i.nonce
      /\ i.type = "EXECUTE" =>
           /\ ~ (ActiveAfterReclaim(i, state, t) >= MaxConcurrent[a])
           /\ ~ (state.spent[a] + i.amount > BudgetLimit[a])
  BY <1>1, <1>2, AllowFacts
<1>4. IsFiniteSet(state.active_auths[a]) /\ state.active[a] = Cardinality(state.active_auths[a])
  BY <1>1 DEF Inv, LeasesFinite, LeaseAccounting
<1>5. /\ RemainingLeases(i, state, t) \subseteq state.active_auths[a]
      /\ IsFiniteSet(RemainingLeases(i, state, t))
      /\ Cardinality(RemainingLeases(i, state, t)) \in Nat
      /\ ActiveAfterReclaim(i, state, t) = Cardinality(RemainingLeases(i, state, t))
  BY <1>1, <1>4, ReclaimKeepsCount
<1>6. /\ state'.nonces = [state.nonces EXCEPT ![a] = NextNonces(i, state, t)]
      /\ i.type = "RELEASE" =>
           /\ state'.active = [state.active EXCEPT ![a] = ActiveAfterReclaim(i, state, t)]
           /\ state'.active_auths = [state.active_auths EXCEPT ![a] = RemainingLeases(i, state, t)]
           /\ state'.spent = state.spent
      /\ i.type = "EXECUTE" =>
           /\ state'.active = [state.active EXCEPT ![a] = ActiveAfterReclaim(i, state, t) + 1]
           /\ state'.active_auths
                = [state.active_auths EXCEPT ![a] =
                     RemainingLeases(i, state, t) \cup {NewLease(i, t)}]
           /\ state'.spent = [state.spent EXCEPT ![a] = @ + i.amount]
  <2> DEFINE next == NextState(i, state, t)
  <2>1. /\ next.nonces = [state.nonces EXCEPT ![a] = NextNonces(i, state, t)]
        /\ i.type = "RELEASE" =>
             /\ next.active = [state.active EXCEPT ![a] = ActiveAfterReclaim(i, state, t)]
             /\ next.active_auths = [state.active_auths EXCEPT ![a] = RemainingLeases(i, state, t)]
             /\ next.spent = state.spent
        /\ i.type = "EXECUTE" =>
             /\ next.active = [state.active EXCEPT ![a] = ActiveAfterReclaim(i, state, t) + 1]
             /\ next.active_auths
                  = [state.active_auths EXCEPT ![a] =
                       RemainingLeases(i, state, t) \cup {NewLease(i, t)}]
             /\ next.spent = [state.spent EXCEPT ![a] = @ + i.amount]
    BY <1>1 DEF NextState, NextStateRelease, NextStateExecute, ExecuteWithLeases
  <2>2. state' = next
    BY <1>2
  <2> HIDE DEF next
  <2> QED BY <2>1, <2>2
<1>7. Retention \in Nat /\ FreshnessHorizon <= Retention /\ FreshnessHorizon = MaxIntentAge + MaxClockSkew
  BY PolicyConfig DEF Retention, FreshnessHorizon
<1>8. NewLease(i, t) \notin state.active_auths[a]
  <2> SUFFICES ASSUME NewLease(i, t) \in state.active_auths[a] PROVE FALSE
    OBVIOUS
  <2>1. /\ NewLease(i, t).auth_id.issued_at = t /\ NewLease(i, t).auth_id.nonce = i.nonce
    BY DEF NewLease
  <2>2. t <= now /\ (t = now => [nonce |-> i.nonce, ts |-> now] \in state.nonces[a])
    BY <1>1, <2>1 DEF Inv, LeasesBackedByNonces
  <2>3. [nonce |-> i.nonce, ts |-> now] \in state.nonces[a] /\ now >= t - Retention
    BY <1>1, <1>7, <2>2
  <2> QED BY <1>3, <2>3
<1>9. TypeOK'
  <2>1. state' \in State
    BY <1>1, <1>2, <1>3, <1>4, NextStateType
  <2>2. admitted' \in Seq(Admission)
    BY <1>1, <1>2 DEF Admission
  <2> QED BY <1>1, <1>2, <2>1, <2>2 DEF TypeOK
<1>10. /\ LeasesFinite' /\ LeaseAccounting'
  <2>1. CASE i.type = "RELEASE"
    <3>1. /\ state'.active = [state.active EXCEPT ![a] = ActiveAfterReclaim(i, state, t)]
          /\ state'.active_auths = [state.active_auths EXCEPT ![a] = RemainingLeases(i, state, t)]
      BY <1>6, <2>1
    <3>2. Cardinality(RemainingLeases(i, state, t)) <= Cardinality(state.active_auths[a])
      BY <1>4, <1>5, FS_Subset
    <3>3. Cardinality(state.active_auths[a]) \in Nat /\ MaxConcurrent[a] \in Nat
      BY <1>3, <1>4, FS_CardinalityType, PolicyConfig
    <3> QED BY <1>1, <1>3, <1>4, <1>5, <3>1, <3>2, <3>3, SMTT(60) DEF Inv, LeasesFinite, LeaseAccounting, State
  <2>2. CASE i.type = "EXECUTE"
    <3> DEFINE leases == RemainingLeases(i, state, t) \cup {NewLease(i, t)}
    <3>1. /\ state'.active = [state.active EXCEPT ![a] = ActiveAfterReclaim(i, state, t) + 1]
          /\ state'.active_auths = [state.active_auths EXCEPT ![a] = leases]
      BY <1>6, <2>2
    <3>2. /\ IsFiniteSet(leases)
          /\ Cardinality(leases) = Cardinality(RemainingLeases(i, state, t)) + 1
      BY <1>5, <1>8, FS_AddElement
    <3>3. MaxConcurrent[a] \in Nat
      BY <1>3, PolicyConfig
    <3>4. Cardinality(RemainingLeases(i, state, t)) + 1 <= MaxConcurrent[a]
      BY <1>3, <1>5, <2>2, <3>3
    <3> HIDE DEF leases
    <3> QED BY <1>1, <1>3, <1>5, <3>1, <3>2, <3>4 DEF Inv, LeasesFinite, LeaseAccounting, State
  <2> QED BY <1>1, <2>1, <2>2
<1>11. LeasesBackedByNonces'
  <2>1. /\ \A b \in Agents \ {a} : state'.active_auths[b] = state.active_auths[b]
        /\ state'.active_auths[a] \subseteq state.active_auths[a] \cup {NewLease(i, t)}
    <3>1. state.active_auths \in [Agents -> SUBSET Lease]
      BY <1>1 DEF State
    <3>2. CASE i.type = "RELEASE"
      BY <1>1, <1>5, <1>6, <3>1, <3>2
    <3>3. CASE i.type = "EXECUTE"
      BY <1>1, <1>5, <1>6, <3>1, <3>3
    <3> QED BY <1>1, <3>2, <3>3
  <2>2. /\ \A b \in Agents \ {a} : state'.nonces[b] = state.nonces[b]
        /\ state'.nonces[a] = NextNonces(i, state, t)
    BY <1>1, <1>6 DEF State
  <2> SUFFICES ASSUME NEW b \in Agents, NEW l \in state'.active_auths[b]
               PROVE  /\ l.auth_id.issued_at <= t
                      /\ l.auth_id.issued_at = t =>
                           [nonce |-> l.auth_id.nonce, ts |-> t] \in state'.nonces[b]
    BY <1>2 DEF LeasesBackedByNonces
  <2>3. CASE l \in state.active_auths[b]
    <3>1. /\ l.auth_id.issued_at <= now /\ l.auth_id.issued_at \in Nat
          /\ l.auth_id.issued_at = now => [nonce |-> l.auth_id.nonce, ts |-> now] \in state.nonces[b]
      BY <1>1, <2>3 DEF Inv, LeasesBackedByNonces, State, Lease, LeaseId, Time
    <3>2. ASSUME now = t, NEW e \in state.nonces[b], e.ts = now PROVE e \in state'.nonces[b]
      BY <1>1, <1>7, <2>2, <3>2 DEF NextNonces, RetainedNonces
    <3> QED BY <1>1, <3>1, <3>2
  <2>4. CASE b = a /\ l = NewLease(i, t)
    BY <1>1, <2>2, <2>4 DEF NewLease, NextNonces
  <2> QED BY <2>1, <2>3, <2>4
<1>12. BudgetRespected'
  <2>1. CASE i.type = "RELEASE"
    BY <1>6, <2>1 DEF Inv, BudgetRespected
  <2>2. CASE i.type = "EXECUTE"
    <3>1. state'.spent = [state.spent EXCEPT ![a] = @ + i.amount]
      BY <1>6, <2>2
    <3>2. state.spent[a] \in Nat /\ BudgetLimit[a] \in Nat /\ state.spent \in [Agents -> Nat]
      BY <1>1, <1>3, PolicyConfig DEF State
    <3>3. state'.spent[a] <= BudgetLimit[a] /\ \A b \in Agents \ {a} : state'.spent[b] = state.spent[b]
      BY <1>1, <1>3, <2>2, <3>1, <3>2
    <3> QED BY <1>3, <3>3 DEF Inv, BudgetRespected
  <2> QED BY <1>1, <2>1, <2>2
<1>13. AdmissionsRemembered' /\ NoIntentAdmittedTwice'
  <2>1. /\ DOMAIN admitted' = 1..(Len(admitted) + 1) /\ DOMAIN admitted = 1..Len(admitted)
        /\ Len(admitted) \in Nat
        /\ \A k \in 1..Len(admitted) : admitted'[k] = admitted[k] /\ admitted[k] \in Admission
        /\ admitted'[Len(admitted) + 1] = [intent |-> i, at |-> t]
    BY <1>1, <1>2
  <2>2. ASSUME NEW k \in 1..Len(admitted), admitted[k].at >= t - Retention,
               admitted[k].intent.agent_id = a
        PROVE  admitted[k].intent.nonce # i.nonce
    <3>1. admitted[k].at \in Nat /\ admitted[k].at >= now - Retention
      BY <1>1, <1>7, <2>1, <2>2 DEF Admission, Time
    <3>2. [nonce |-> admitted[k].intent.nonce, ts |-> admitted[k].at] \in state.nonces[a]
      BY <2>1, <2>2, <3>1 DEF Inv, AdmissionsRemembered
    <3> QED BY <1>3, <2>2, <3>2
  <2>3. AdmissionsRemembered'
    <3> SUFFICES ASSUME NEW k \in 1..(Len(admitted) + 1)
                 PROVE  /\ admitted'[k].at <= t
                        /\ admitted'[k].intent.timestamp <= admitted'[k].at + MaxClockSkew
                        /\ admitted'[k].at >= t - Retention =>
                             [nonce |-> admitted'[k].intent.nonce, ts |-> admitted'[k].at]
                               \in state'.nonces[admitted'[k].intent.agent_id]
      BY <1>2, <2>1 DEF AdmissionsRemembered
    <3>1. CASE k = Len(admitted) + 1
      <4>1. [nonce |-> i.nonce, ts |-> t] \in state'.nonces[a]
        BY <1>1, <1>6 DEF State, NextNonces
      <4>2. i.timestamp <= t + MaxClockSkew
        BY <1>1, <1>3, PolicyConfig
      <4> QED BY <1>1, <2>1, <3>1, <4>1, <4>2
    <3>2. CASE k \in 1..Len(admitted)
      <4> DEFINE e == [nonce |-> admitted[k].intent.nonce, ts |-> admitted[k].at]
                 b == admitted[k].intent.agent_id
      <4>1. /\ admitted[k].at \in Nat /\ b \in Agents /\ admitted[k].at <= now
            /\ admitted[k].intent.timestamp <= admitted[k].at + MaxClockSkew
            /\ admitted[k].at >= now - Retention => e \in state.nonces[b]
        BY <2>1, <3>2 DEF Inv, AdmissionsRemembered, Admission, Intent, Time
      <4>2. ASSUME admitted[k].at >= t - Retention PROVE e \in state'.nonces[b]
        <5>1. e \in state.nonces[b] /\ e.ts = admitted[k].at
          BY <1>1, <1>7, <4>1, <4>2
        <5>2. /\ b # a => state'.nonces[b] = state.nonces[b]
              /\ state'.nonces[a] = NextNonces(i, state, t)
          BY <1>1, <1>6, <4>1 DEF State
        <5>3. CASE b = a
          BY <4>2, <5>1, <5>2, <5>3 DEF NextNonces, RetainedNonces
        <5>4. CASE b # a
          BY <5>1, <5>2, <5>4
        <5> QED BY <5>3, <5>4
      <4> QED BY <1>1, <2>1, <3>2, <4>1, <4>2
    <3> QED BY <2>1, <3>1, <3>2
  <2>4. ASSUME NEW k \in 1..Len(admitted) PROVE admitted[k].intent # i
    <3> SUFFICES ASSUME admitted[k].intent = i PROVE FALSE
      OBVIOUS
    <3>1. admitted[k].at \in Nat /\ i.timestamp <= admitted[k].at + MaxClockSkew
      BY <2>1 DEF Inv, AdmissionsRemembered, Admission, Time
    <3>2. admitted[k].at >= t - Retention
      BY <1>1, <1>3, <1>7, <3>1, PolicyConfig
    <3> QED BY <2>2, <3>2
  <2>5. NoIntentAdmittedTwice'
    BY <2>1, <2>4 DEF Inv, NoIntentAdmittedTwice, Admissions
  <2> QED BY <2>3, <2>5
<1> QED
  BY <1>9, <1>10, <1>11, <1>12, <1>13 DEF Inv

LEMMA NextInv == Inv /\ [Next]_vars => Inv'
<1> SUFFICES ASSUME Inv, [Next]_vars PROVE Inv'
  OBVIOUS
<1>1. ASSUME NEW i \in Intents, NEW t \in 0..MaxTime, EvaluateAllow(i, t) PROVE Inv'
  BY <1>1, EvaluateInv
<1>2. ASSUME UNCHANGED vars PROVE Inv'
  BY <1>2 DEF Inv, vars, TypeOK, LeasesFinite, LeasesBackedByNonces, LeaseAccounting,
              BudgetRespected, AdmissionsRemembered, NoIntentAdmittedTwice, Admissions
<1>3. ASSUME NEW g \in BOOLEAN, NEW as \in SUBSET Configured, SetKillSwitch(g, as) PROVE Inv'
  BY <1>3, KillSwitchInv
<1> QED
  BY <1>1, <1>2, <1>3 DEF Next, EvaluateDeny

----------------------------------------------------------------------------
(***************************************************************************)
(* The history.  What an ALLOW implies for it, and what it changes.        *)
(***************************************************************************)
LEMMA AllowHistoryFacts ==
  ASSUME NEW i \in Intent, NEW s \in State, NEW t \in Time,
         DenyReasons(i, s, t, "fail-fast") = {}
  PROVE  /\ i.type = "RELEASE" =>
              \E l \in LiveLeases(s, i.agent_id, t) : l.auth_id = i.authorization_id
         /\ i.type = "EXECUTE" =>
              /\ ~ (s.counters[i.agent_id] # NoCounter /\ t < s.counters[i.agent_id].window_start)
              /\ IF WindowClosed(s.counters[i.agent_id], t)
                 THEN ~ (MaxActions < 1)
                 ELSE ~ (s.counters[i.agent_id].count >= MaxActions)
         /\ (i.type = "EXECUTE" /\ i.tool # NoTool) =>
              /\ ~ (Cardinality(InWindow(s.calls[i.agent_id], t)) >= MaxCalls[i.agent_id])
              /\ i.tool \in DOMAIN MaxCallsByTool[i.agent_id] =>
                   ~ (Cardinality(CallsOf(InWindow(s.calls[i.agent_id], t), i.tool))
                        >= MaxCallsByTool[i.agent_id][i.tool])
<1>1. FirstDenial(ModuleResults(i, s, t)) = {}
  BY AllowGates
<1>2. /\ ConcurrencyModule(i, s, t) = {}
      /\ i.type = "EXECUTE" =>
           ToolAmplificationModule(i, s, t) = {} /\ VelocityModule(i, s, t) = {}
  BY <1>1, AllowModules
<1>3. ASSUME i.type = "RELEASE"
      PROVE  \E l \in LiveLeases(s, i.agent_id, t) : l.auth_id = i.authorization_id
  <2>1. DenyIf(ReleaseInvalid(i, s, t), "CONCURRENCY_RELEASE_INVALID") = {}
    BY <1>2, <1>3 DEF ConcurrencyModule
  <2> QED BY <2>1, DenyIfEmpty DEF ReleaseInvalid
<1>4. ASSUME i.type = "EXECUTE"
      PROVE  /\ ~ (s.counters[i.agent_id] # NoCounter /\ t < s.counters[i.agent_id].window_start)
             /\ IF WindowClosed(s.counters[i.agent_id], t)
                THEN ~ (MaxActions < 1)
                ELSE ~ (s.counters[i.agent_id].count >= MaxActions)
  BY <1>2, <1>4 DEF VelocityModule, DenyIf
<1>5. ASSUME i.type = "EXECUTE", i.tool # NoTool
      PROVE  /\ ~ (Cardinality(InWindow(s.calls[i.agent_id], t)) >= MaxCalls[i.agent_id])
             /\ i.tool \in DOMAIN MaxCallsByTool[i.agent_id] =>
                  ~ (Cardinality(CallsOf(InWindow(s.calls[i.agent_id], t), i.tool))
                       >= MaxCallsByTool[i.agent_id][i.tool])
  BY <1>2, <1>5 DEF ToolAmplificationModule, DenyIf
<1> QED
  BY <1>3, <1>4, <1>5

\* A new admission joins the history, and the old ones stay as they were.
LEMMA Admitting ==
  ASSUME Inv, NEW i \in Intents, NEW t \in 0..MaxTime, EvaluateAllow(i, t)
  PROVE  \E n \in Nat :
            /\ Admissions' = Admissions \cup {n} /\ n \notin Admissions
            /\ Admissions \in SUBSET Nat /\ IsFiniteSet(Admissions)
            /\ admitted'[n] = [intent |-> i, at |-> t]
            /\ \A k \in Admissions : admitted'[k] = admitted[k] /\ admitted[k] \in Admission
                                     /\ admitted[k].at <= now
            /\ i \in Intent /\ t \in Nat /\ now \in Nat /\ now <= t /\ now' = t
            /\ state \in State /\ state' = NextState(i, state, t)
            /\ DenyReasons(i, state, t, "fail-fast") = {}
<1> DEFINE n == Len(admitted) + 1
<1>1. /\ state \in State /\ now \in Nat /\ admitted \in Seq(Admission)
      /\ i \in Intent /\ t \in Nat /\ t >= now
      /\ state' = NextState(i, state, t) /\ now' = t
      /\ admitted' = Append(admitted, [intent |-> i, at |-> t])
      /\ DenyReasons(i, state, t, "fail-fast") = {}
  BY EngineConfig DEF Inv, TypeOK, EvaluateAllow, Time
<1>2. /\ Admissions = 1..Len(admitted) /\ Admissions' = 1..n /\ n \in Nat
      /\ \A k \in 1..Len(admitted) : admitted'[k] = admitted[k] /\ admitted[k] \in Admission
      /\ admitted'[n] = [intent |-> i, at |-> t] /\ Len(admitted) \in Nat
  BY <1>1 DEF Admissions
<1>3. IsFiniteSet(1..Len(admitted))
  BY <1>2, FS_Interval
<1>4. \A k \in Admissions : admitted[k].at <= now
  BY DEF Inv, AdmissionsRemembered, Admissions
<1>5. Admissions' = Admissions \cup {n} /\ n \notin Admissions /\ Admissions \in SUBSET Nat
  BY <1>2
<1> QED
  BY <1>1, <1>2, <1>3, <1>4, <1>5

LEMMA ReadingStays ==
  ASSUME NEW k, admitted'[k] = admitted[k], NEW a
  PROVE  IdOf(k)' = IdOf(k) /\ CallOf(k)' = CallOf(k) /\ IsExecute(k, a)' = IsExecute(k, a)
  BY DEF IdOf, CallOf, IsExecute

\* What an ALLOW changes for the history: only its own agent's records.
LEMMA AllowEffects ==
  ASSUME NEW i \in Intent, NEW s \in State, NEW t
  PROVE  LET a == i.agent_id
             next == NextState(i, s, t)
         IN /\ \A b \in Agents \ {a} :
                 /\ next.active_auths[b] = s.active_auths[b]
                 /\ next.counters[b] = s.counters[b] /\ next.calls[b] = s.calls[b]
            /\ i.type = "RELEASE" =>
                 /\ next.active_auths[a] = RemainingLeases(i, s, t)
                 /\ next.counters[a] = s.counters[a] /\ next.calls[a] = s.calls[a]
            /\ i.type = "EXECUTE" =>
                 /\ next.active_auths[a] = RemainingLeases(i, s, t) \cup {NewLease(i, t)}
                 /\ next.counters[a] = NextCounter(i, s, t) /\ next.calls[a] = NextCalls(i, s, t)
<1> DEFINE a == i.agent_id
<1>1. a \in Agents
  BY DEF Intent
<1>2. /\ DOMAIN s.active_auths = Agents /\ DOMAIN s.counters = Agents /\ DOMAIN s.calls = Agents
  BY DEF State
<1>3. CASE i.type = "RELEASE"
  BY <1>1, <1>2, <1>3 DEF NextState, NextStateRelease
<1>4. CASE i.type = "EXECUTE"
  BY <1>1, <1>2, <1>4 DEF NextState, NextStateExecute, ExecuteWithLeases
<1> QED
  BY <1>3, <1>4 DEF Intent

\* An admission whose nonce a later intent repeats is out of its reach.
LEMMA NonceIsNew ==
  ASSUME Inv, NEW i \in Intents, NEW t \in 0..MaxTime, EvaluateAllow(i, t),
         NEW k \in Admissions, admitted[k].intent.agent_id = i.agent_id,
         admitted[k].intent.nonce = i.nonce
  PROVE  admitted[k].at < t
<1>1. /\ i \in Intent /\ t \in Time /\ t \in Nat /\ now \in Nat /\ now <= t /\ state \in State
      /\ DenyReasons(i, state, t, "fail-fast") = {}
      /\ admitted[k] \in Admission /\ admitted[k].at \in Nat /\ admitted[k].at <= now
  BY Admitting DEF Admission, Time
<1>2. \A e \in state.nonces[i.agent_id] : e.ts >= t - Retention => e.nonce # i.nonce
  BY <1>1, AllowFacts
<1>3. Retention \in Nat
  BY PolicyConfig DEF Retention, FreshnessHorizon
<1>4. admitted[k].at >= now - Retention =>
        [nonce |-> i.nonce, ts |-> admitted[k].at] \in state.nonces[i.agent_id]
  BY DEF Inv, AdmissionsRemembered, Admissions
<1> QED
  BY <1>1, <1>2, <1>3, <1>4

LEMMA IdsUniqueStep ==
  ASSUME Inv, IdsUnique, NEW i \in Intents, NEW t \in 0..MaxTime, EvaluateAllow(i, t)
  PROVE  IdsUnique'
<1>1. PICK n \in Nat :
      /\ Admissions' = Admissions \cup {n} /\ n \notin Admissions /\ t \in Nat
      /\ admitted'[n] = [intent |-> i, at |-> t]
      /\ \A k \in Admissions : admitted'[k] = admitted[k] /\ admitted[k] \in Admission
  BY Admitting
<1>2. ASSUME NEW k \in Admissions, admitted[k].intent.agent_id = i.agent_id
      PROVE  IdOf(k)' # IdOf(n)'
  <2> SUFFICES ASSUME IdOf(k)' = IdOf(n)' PROVE FALSE
    OBVIOUS
  <2>1. admitted[k].intent.nonce = i.nonce /\ admitted[k].at = t
    BY <1>1 DEF IdOf
  <2> QED BY <1>1, <1>2, <2>1, NonceIsNew
<1>3. ASSUME NEW j \in Admissions, NEW k \in Admissions,
             admitted'[j].intent.agent_id = admitted'[k].intent.agent_id, IdOf(j)' = IdOf(k)'
      PROVE  j = k
  BY <1>1, <1>3 DEF IdsUnique, IdOf
<1> SUFFICES ASSUME NEW j \in Admissions', NEW k \in Admissions',
                    admitted'[j].intent.agent_id = admitted'[k].intent.agent_id,
                    IdOf(j)' = IdOf(k)'
             PROVE  j = k
  BY DEF IdsUnique
<1> QED
  BY <1>1, <1>2, <1>3

LEMMA LeasesTracedStep ==
  ASSUME Inv, LeasesTraced, NEW i \in Intents, NEW t \in 0..MaxTime, EvaluateAllow(i, t)
  PROVE  LeasesTraced'
<1> DEFINE a == i.agent_id
<1>1. PICK n \in Nat :
      /\ Admissions' = Admissions \cup {n} /\ n \notin Admissions
      /\ admitted'[n] = [intent |-> i, at |-> t]
      /\ \A k \in Admissions : admitted'[k] = admitted[k] /\ admitted[k] \in Admission
      /\ i \in Intent /\ t \in Nat /\ now \in Nat /\ now <= t /\ now' = t
      /\ state \in State /\ state' = NextState(i, state, t)
      /\ DenyReasons(i, state, t, "fail-fast") = {}
  BY Admitting
<1>2. /\ a \in Agents /\ i.type \in {"EXECUTE", "RELEASE"} /\ Ttl \in Nat
      /\ \A k \in Admissions : admitted[k].at \in Nat
  BY <1>1, PolicyConfig DEF Intent, Admission, Time
<1>3. /\ \A b \in Agents \ {a} : state'.active_auths[b] = state.active_auths[b]
      /\ i.type = "RELEASE" => state'.active_auths[a] = RemainingLeases(i, state, t)
      /\ i.type = "EXECUTE" =>
           state'.active_auths[a] = RemainingLeases(i, state, t) \cup {NewLease(i, t)}
  BY <1>1, AllowEffects
<1>4. /\ i.type = "RELEASE" => \E l \in LiveLeases(state, a, t) : l.auth_id = i.authorization_id
      /\ RemainingLeases(i, state, t) \subseteq LiveLeases(state, a, t)
      /\ LiveLeases(state, a, t) \subseteq state.active_auths[a]
  BY <1>1, AllowHistoryFacts DEF Time, RemainingLeases, LiveLeases
<1>5. \A k \in Admissions : /\ IdOf(k)' = IdOf(k)
                            /\ \A b \in Agents : IsExecute(k, b)' <=> IsExecute(k, b)
  BY <1>1 DEF IdOf, IsExecute
<1>6. /\ IdOf(n)' = [nonce |-> i.nonce, issued_at |-> t]
      /\ \A b \in Agents : IsExecute(n, b)' <=> (i.type = "EXECUTE" /\ a = b)
  BY <1>1 DEF IdOf, IsExecute
<1>7. ASSUME NEW k \in Admissions, NEW b \in Agents, ~Released(k, b),
             ~(i.type = "RELEASE" /\ a = b /\ i.authorization_id = IdOf(k))
      PROVE  ~Released(k, b)'
  <2>1. \A j \in Admissions : admitted'[j].intent = admitted[j].intent
    BY <1>1
  <2>2. admitted'[n].intent = i
    BY <1>1
  <2> QED BY <1>1, <1>5, <1>7, <2>1, <2>2 DEF Released
<1>8. ASSUME NEW k \in Admissions, NEW b \in Agents, ~Released(k, b)'
      PROVE  /\ ~Released(k, b)
             /\ ~(i.type = "RELEASE" /\ a = b /\ i.authorization_id = IdOf(k))
  <2>1. \A j \in Admissions : admitted'[j].intent = admitted[j].intent
    BY <1>1
  <2>2. admitted'[n].intent = i
    BY <1>1
  <2> QED BY <1>1, <1>5, <1>8, <2>1, <2>2 DEF Released
<1>9. ASSUME i.type = "EXECUTE" PROVE ~Released(n, a)'
  <2> SUFFICES ASSUME NEW j \in Admissions, admitted[j].intent.type = "RELEASE",
                      admitted[j].intent.agent_id = a,
                      admitted[j].intent.authorization_id = IdOf(n)'
               PROVE  FALSE
    BY <1>1, <1>9 DEF Released
  <2>1. PICK k \in Admissions : IsExecute(k, a) /\ IdOf(k) = [nonce |-> i.nonce, issued_at |-> t]
    BY <1>6 DEF LeasesTraced
  <2>2. admitted[k].intent.agent_id = a /\ admitted[k].intent.nonce = i.nonce /\ admitted[k].at = t
    BY <2>1 DEF IsExecute, IdOf
  <2>3. admitted[k].at < t
    BY <2>2, NonceIsNew
  <2> QED BY <1>1, <2>2, <2>3
<1>10. ASSUME NEW b \in Agents, NEW l \in state.active_auths[b],
              (i.type = "RELEASE" /\ a = b) => l.auth_id # i.authorization_id
       PROVE  /\ l.expires_at = l.auth_id.issued_at + Ttl
              /\ \E k \in Admissions' : IsExecute(k, b)' /\ IdOf(k)' = l.auth_id /\ ~Released(k, b)'
  <2>1. l.expires_at = l.auth_id.issued_at + Ttl
    BY DEF LeasesTraced
  <2>2. PICK k \in Admissions : IsExecute(k, b) /\ IdOf(k) = l.auth_id /\ ~Released(k, b)
    BY DEF LeasesTraced
  <2>3. ~Released(k, b)'
    BY <1>7, <1>10, <2>2
  <2>4. IsExecute(k, b)' /\ IdOf(k)' = l.auth_id /\ k \in Admissions'
    BY <1>1, <1>5, <2>2
  <2> QED BY <2>1, <2>3, <2>4
<1>11. ASSUME NEW b \in Agents, NEW l \in state'.active_auths[b]
       PROVE  /\ l.expires_at = l.auth_id.issued_at + Ttl
              /\ \E k \in Admissions' : IsExecute(k, b)' /\ IdOf(k)' = l.auth_id /\ ~Released(k, b)'
  <2>1. CASE b # a
    BY <1>3, <1>10, <2>1
  <2>2. CASE b = a /\ l \in RemainingLeases(i, state, t)
    <3>1. i.type = "RELEASE" => l.auth_id # i.authorization_id
      BY <2>2 DEF RemainingLeases
    <3> QED BY <1>4, <1>10, <2>2, <3>1
  <2>3. CASE b = a /\ i.type = "EXECUTE" /\ l = NewLease(i, t)
    <3>1. l.expires_at = l.auth_id.issued_at + Ttl /\ l.auth_id = IdOf(n)'
      BY <1>6, <2>3 DEF NewLease
    <3> QED BY <1>1, <1>6, <1>9, <2>3, <3>1
  <2> QED BY <1>2, <1>3, <2>1, <2>2, <2>3
<1>12. ASSUME NEW b \in Agents, NEW k \in Admissions', IsExecute(k, b)',
              now' < admitted'[k].at + Ttl, ~Released(k, b)'
       PROVE  \E l \in state'.active_auths[b] : l.auth_id = IdOf(k)'
  <2>1. CASE k = n
    <3>1. i.type = "EXECUTE" /\ b = a
      BY <1>6, <1>12, <2>1
    <3>2. NewLease(i, t).auth_id = IdOf(n)'
      BY <1>6 DEF NewLease
    <3> QED BY <1>3, <2>1, <3>1, <3>2
  <2>2. CASE k \in Admissions
    <3>1. /\ IsExecute(k, b) /\ t < admitted[k].at + Ttl /\ ~Released(k, b)
          /\ ~(i.type = "RELEASE" /\ a = b /\ i.authorization_id = IdOf(k))
      BY <1>1, <1>5, <1>8, <1>12, <2>2
    <3>2. now < admitted[k].at + Ttl
      BY <1>1, <1>2, <2>2, <3>1
    <3>3. PICK l \in state.active_auths[b] : l.auth_id = IdOf(k)
      BY <2>2, <3>1, <3>2 DEF LeasesTraced
    <3>4. CASE b # a
      BY <1>3, <1>5, <2>2, <3>3, <3>4
    <3>5. CASE b = a
      <4>1. l.expires_at = admitted[k].at + Ttl
        BY <3>3 DEF LeasesTraced, IdOf
      <4>2. l \in RemainingLeases(i, state, t)
        BY <3>1, <3>3, <3>5, <4>1 DEF RemainingLeases, LiveLeases
      <4> QED BY <1>2, <1>3, <1>5, <2>2, <3>3, <3>5, <4>2
    <3> QED BY <3>4, <3>5
  <2> QED BY <1>1, <2>1, <2>2
<1>13. ASSUME NEW j \in Admissions', admitted'[j].intent.type = "RELEASE"
       PROVE  \E k \in Admissions' :
                /\ admitted'[k].intent.type = "EXECUTE"
                /\ admitted'[k].intent.agent_id = admitted'[j].intent.agent_id
                /\ IdOf(k)' = admitted'[j].intent.authorization_id
  <2>1. CASE j = n
    <3>1. /\ admitted'[j].intent = i /\ i.type = "RELEASE"
      BY <1>1, <1>13, <2>1
    <3>2. PICK l \in state.active_auths[a] : l.auth_id = i.authorization_id
      BY <1>4, <3>1
    <3>3. PICK k \in Admissions : IsExecute(k, a) /\ IdOf(k) = l.auth_id
      BY <1>2, <3>2 DEF LeasesTraced
    <3>4. k \in Admissions' /\ IdOf(k)' = i.authorization_id /\ admitted'[k] = admitted[k]
      BY <1>1, <1>5, <3>2, <3>3
    <3> QED BY <3>1, <3>3, <3>4 DEF IsExecute
  <2>2. CASE j \in Admissions
    <3>1. admitted'[j].intent = admitted[j].intent
      BY <1>1, <2>2
    <3>2. PICK k \in Admissions : IsExecute(k, admitted[j].intent.agent_id)
                                  /\ IdOf(k) = admitted[j].intent.authorization_id
      BY <1>13, <2>2, <3>1 DEF LeasesTraced
    <3>3. k \in Admissions' /\ IdOf(k)' = IdOf(k) /\ admitted'[k] = admitted[k]
      BY <1>1, <1>5
    <3> QED BY <3>1, <3>2, <3>3 DEF IsExecute
  <2> QED BY <1>1, <2>1, <2>2
<1>14. \A j \in Admissions' : admitted'[j].intent.type = "RELEASE" =>
         \E k \in Admissions' : IsExecute(k, admitted[j].intent.agent_id)'
                                /\ IdOf(k)' = admitted'[j].intent.authorization_id
  BY <1>13 DEF IsExecute
<1> QED
  BY <1>1, <1>11, <1>12, <1>14 DEF LeasesTraced

(***************************************************************************)
(* How the sets of executions grow: the new admission joins those of its   *)
(* agent whose interval reaches the evaluation time, if it is an EXECUTE.  *)
(***************************************************************************)
ExecutionsGrow(b, n, i, t) ==
  LET new == i.type = "EXECUTE" /\ b = i.agent_id
  IN /\ n \notin Admissions
     /\ \A x : ExecutionsSince(b, x)' =
               ExecutionsSince(b, x) \cup (IF new /\ t >= x THEN {n} ELSE {})
     /\ \A x, y : ExecutionsBetween(b, x, y)' =
                  ExecutionsBetween(b, x, y) \cup (IF new /\ x < t /\ t < y THEN {n} ELSE {})
     /\ \A x, y : AdmittedIn(b, x, y)' =
                  AdmittedIn(b, x, y) \cup (IF new /\ t \in (x - y + 1)..x THEN {n} ELSE {})
     /\ \A k \in Admissions' : IsExecute(k, b)' =>
          \/ k \in Admissions /\ IsExecute(k, b) /\ admitted'[k].at = admitted[k].at
          \/ k = n /\ new /\ admitted'[k].at = t
     /\ \A k \in Admissions : IsExecute(k, b) =>
          k \in Admissions' /\ IsExecute(k, b)' /\ admitted'[k].at = admitted[k].at
     /\ new => n \in Admissions' /\ IsExecute(n, b)' /\ admitted'[n].at = t

LEMMA ExecutionsStep ==
  ASSUME Inv, NEW i \in Intents, NEW t \in 0..MaxTime, EvaluateAllow(i, t), NEW b \in Agents
  PROVE  \E n \in Nat : ExecutionsGrow(b, n, i, t)
<1>1. PICK n \in Nat :
      /\ Admissions' = Admissions \cup {n} /\ n \notin Admissions
      /\ admitted'[n] = [intent |-> i, at |-> t]
      /\ \A k \in Admissions : admitted'[k] = admitted[k]
      /\ t \in Nat
  BY Admitting
<1>2. /\ \A k \in Admissions : IsExecute(k, b)' <=> IsExecute(k, b)
      /\ IsExecute(n, b)' <=> (i.type = "EXECUTE" /\ b = i.agent_id)
      /\ admitted'[n].at = t /\ \A k \in Admissions : admitted'[k].at = admitted[k].at
  BY <1>1 DEF IsExecute
<1>3. ASSUME NEW x
      PROVE  ExecutionsSince(b, x)' = ExecutionsSince(b, x)
               \cup (IF (i.type = "EXECUTE" /\ b = i.agent_id) /\ t >= x THEN {n} ELSE {})
  BY <1>1, <1>2 DEF ExecutionsSince
<1>4. ASSUME NEW x, NEW y
      PROVE  ExecutionsBetween(b, x, y)' = ExecutionsBetween(b, x, y)
               \cup (IF (i.type = "EXECUTE" /\ b = i.agent_id) /\ x < t /\ t < y THEN {n} ELSE {})
  BY <1>1, <1>2 DEF ExecutionsBetween
<1>5. ASSUME NEW x, NEW y
      PROVE  AdmittedIn(b, x, y)' = AdmittedIn(b, x, y)
               \cup (IF (i.type = "EXECUTE" /\ b = i.agent_id) /\ t \in (x - y + 1)..x
                     THEN {n} ELSE {})
  BY <1>1, <1>2 DEF AdmittedIn
<1>6. \A k \in Admissions' : IsExecute(k, b)' =>
        \/ k \in Admissions /\ IsExecute(k, b) /\ admitted'[k].at = admitted[k].at
        \/ k = n /\ (i.type = "EXECUTE" /\ b = i.agent_id) /\ admitted'[k].at = t
  BY <1>1, <1>2
<1>7. \A k \in Admissions :
        IsExecute(k, b) => k \in Admissions' /\ IsExecute(k, b)' /\ admitted'[k].at = admitted[k].at
  BY <1>1, <1>2
<1>8. (i.type = "EXECUTE" /\ b = i.agent_id) =>
        n \in Admissions' /\ IsExecute(n, b)' /\ admitted'[n].at = t
  BY <1>1, <1>2
<1> QED
  BY <1>1, <1>3, <1>4, <1>5, <1>6, <1>7, <1>8 DEF ExecutionsGrow

\* The recorded times, and that the sets of executions are finite.
LEMMA HistoryTyped ==
  ASSUME Inv
  PROVE  /\ now \in Nat /\ state \in State
         /\ \A k \in Admissions : admitted[k].at \in Nat /\ admitted[k].at <= now
         /\ IsFiniteSet(Admissions)
         /\ \A b, x :
              /\ IsFiniteSet(ExecutionsSince(b, x)) /\ Cardinality(ExecutionsSince(b, x)) \in Nat
              /\ \A y :
                   /\ IsFiniteSet(ExecutionsBetween(b, x, y)) /\ IsFiniteSet(AdmittedIn(b, x, y))
                   /\ Cardinality(ExecutionsBetween(b, x, y)) \in Nat
                   /\ Cardinality(AdmittedIn(b, x, y)) \in Nat
<1>1. Admissions = 1..Len(admitted) /\ Len(admitted) \in Nat
      /\ now \in Nat /\ state \in State /\ \A k \in Admissions : admitted[k] \in Admission
  BY DEF Inv, TypeOK, Admissions, Time
<1>2. \A k \in Admissions : admitted[k].at \in Nat /\ admitted[k].at <= now
  BY <1>1 DEF Inv, AdmissionsRemembered, Admissions, Admission, Time
<1>3. IsFiniteSet(Admissions)
  BY <1>1, FS_Interval
<1>4. ASSUME NEW S \in SUBSET Admissions PROVE IsFiniteSet(S) /\ Cardinality(S) \in Nat
  BY <1>3, FS_Subset, FS_CardinalityType
<1>5. \A b, x, y :
        /\ ExecutionsSince(b, x) \in SUBSET Admissions
        /\ ExecutionsBetween(b, x, y) \in SUBSET Admissions
        /\ AdmittedIn(b, x, y) \in SUBSET Admissions
  BY DEF ExecutionsSince, ExecutionsBetween, AdmittedIn
<1> QED
  BY <1>1, <1>2, <1>3, <1>4, <1>5

(***************************************************************************)
(* A new window: the actions of the one before it that are still within    *)
(* reach leave out the action that opened it.                              *)
(***************************************************************************)
LEMMA ReachOfClosedWindow ==
  ASSUME Inv, NEW a \in Agents, WindowCounted(a), NEW t \in Nat, now <= t,
         WindowClosed(state.counters[a], t), ~ (MaxActions < 1)
  PROVE  /\ ExecutionsSince(a, t) = {}
         /\ Cardinality(ExecutionsBetween(a, t - VelocityWindow, t)) <= MaxActions - 1
<1> DEFINE c == state.counters[a]
<1>1. /\ VelocityWindow \in Nat /\ VelocityWindow > 0 /\ MaxActions \in Nat
      /\ t - VelocityWindow \in Int
      /\ state \in State /\ now \in Nat
      /\ \A k \in Admissions : admitted[k].at \in Nat /\ admitted[k].at <= now
  BY PolicyConfig, HistoryTyped
<1>2. CASE c = NoCounter
  <2>1. \A k \in Admissions : ~IsExecute(k, a)
    BY <1>2 DEF WindowCounted
  <2>2. ExecutionsSince(a, t) = {} /\ ExecutionsBetween(a, t - VelocityWindow, t) = {}
    BY <2>1 DEF ExecutionsSince, ExecutionsBetween
  <2> QED BY <1>1, <2>2, FS_EmptySet
<1>3. CASE c # NoCounter
  <2> DEFINE ws == c.window_start
             since == ExecutionsSince(a, ws)
  <2>1. /\ c \in Counter /\ ws \in Nat /\ c.count \in Nat /\ ws + VelocityWindow <= t
    BY <1>1, <1>3 DEF State, Counter, Time, WindowClosed
  <2>2. /\ c.count <= MaxActions /\ c.count = Cardinality(since)
        /\ \A k \in Admissions : IsExecute(k, a) => admitted[k].at < ws + VelocityWindow
    BY <1>3 DEF WindowCounted
  <2>3. PICK k0 \in Admissions : IsExecute(k0, a) /\ admitted[k0].at = ws
    BY <1>3 DEF WindowCounted
  <2>4. ExecutionsSince(a, t) = {}
    BY <1>1, <2>1, <2>2 DEF ExecutionsSince
  <2>5. IsFiniteSet(since) /\ k0 \in since
    <3>1. IsFiniteSet(since)
      BY <2>1, HistoryTyped
    <3>2. k0 \in since
      BY <2>1, <2>3 DEF ExecutionsSince
    <3> QED BY <3>1, <3>2
  <2>6. ExecutionsBetween(a, t - VelocityWindow, t) \subseteq since \ {k0}
    <3> SUFFICES ASSUME NEW k \in Admissions, IsExecute(k, a), t - VelocityWindow < admitted[k].at
                 PROVE  k \in since \ {k0}
      BY DEF ExecutionsBetween
    <3>1. admitted[k].at > ws /\ admitted[k].at >= ws
      BY <1>1, <2>1
    <3> QED BY <2>3, <2>1, <3>1 DEF ExecutionsSince
  <2>7. IsFiniteSet(since \ {k0}) /\ Cardinality(since \ {k0}) = Cardinality(since) - 1
    BY <2>5, FS_RemoveElement
  <2>8. Cardinality(ExecutionsBetween(a, t - VelocityWindow, t)) <= Cardinality(since) - 1
    BY <2>6, <2>7, FS_Subset
  <2>9. Cardinality(ExecutionsBetween(a, t - VelocityWindow, t)) \in Nat
    BY <1>1, HistoryTyped
  <2> QED BY <1>1, <2>1, <2>2, <2>4, <2>8, <2>9
<1> QED
  BY <1>2, <1>3

LEMMA WindowCountedStep ==
  ASSUME Inv, NEW i \in Intents, NEW t \in 0..MaxTime, EvaluateAllow(i, t),
         NEW b \in Agents, WindowCounted(b)
  PROVE  WindowCounted(b)'
<1> DEFINE a == i.agent_id
           c == state.counters[b]
           W == VelocityWindow
<1>1. PICK n \in Nat : ExecutionsGrow(b, n, i, t)
  BY ExecutionsStep
<1>2. /\ i \in Intent /\ t \in Nat /\ now \in Nat /\ now <= t /\ now' = t
      /\ state \in State /\ state' = NextState(i, state, t)
      /\ DenyReasons(i, state, t, "fail-fast") = {}
  BY Admitting
<1>3. /\ a \in Agents /\ i.type \in {"EXECUTE", "RELEASE"}
      /\ MaxActions \in Nat /\ W \in Nat /\ W > 0 /\ c \in Counter \cup {NoCounter}
  BY <1>2, PolicyConfig DEF Intent, State
<1>4. /\ b # a \/ i.type = "RELEASE" => state'.counters[b] = c
      /\ b = a /\ i.type = "EXECUTE" => state'.counters[b] = NextCounter(i, state, t)
  BY <1>2, <1>3, AllowEffects
<1>5. CASE b # a \/ i.type = "RELEASE"
  <2>1. /\ \A x : /\ ExecutionsSince(b, x)' = ExecutionsSince(b, x)
                  /\ \A y : ExecutionsBetween(b, x, y)' = ExecutionsBetween(b, x, y)
        /\ \A k \in Admissions' : IsExecute(k, b)' =>
             k \in Admissions /\ IsExecute(k, b) /\ admitted'[k].at = admitted[k].at
    BY <1>1, <1>5, ZenonT(60) DEF ExecutionsGrow
  <2>2. CASE c = NoCounter
    BY <1>4, <1>5, <2>1, <2>2 DEF WindowCounted
  <2>3. CASE c # NoCounter
    <3>1. PICK ws \in Nat : ws = c.window_start /\ ws - W \in Int
      BY <1>3, <2>3 DEF Counter, Time
    <3>2. /\ ws <= now /\ c.count <= MaxActions
          /\ c.count = Cardinality(ExecutionsSince(b, ws))
          /\ \E k \in Admissions : IsExecute(k, b) /\ admitted[k].at = ws
          /\ \A k \in Admissions : IsExecute(k, b) => admitted[k].at < ws + W
          /\ Cardinality(ExecutionsBetween(b, ws - W, ws)) <= MaxActions - 1
      BY <2>3, <3>1 DEF WindowCounted
    <3>3. /\ ExecutionsSince(b, ws)' = ExecutionsSince(b, ws)
          /\ ExecutionsBetween(b, ws - W, ws)' = ExecutionsBetween(b, ws - W, ws)
      BY <2>1, <3>1
    <3>4. ws <= t
      BY <1>2, <3>1, <3>2
    <3>5. \E k \in Admissions' : IsExecute(k, b)' /\ admitted'[k].at = ws
      BY <1>1, <3>2 DEF ExecutionsGrow
    <3>6. \A k \in Admissions' : IsExecute(k, b)' => admitted'[k].at < ws + W
      BY <2>1, <3>2
    <3>7. state'.counters[b] = c
      BY <1>4, <1>5
    <3> QED BY <1>2, <2>3, <3>1, <3>2, <3>3, <3>4, <3>5, <3>6, <3>7 DEF WindowCounted
  <2> QED BY <2>2, <2>3
<1>6. CASE b = a /\ i.type = "EXECUTE"
  <2>1. /\ ~ (c # NoCounter /\ t < c.window_start)
        /\ IF WindowClosed(c, t) THEN ~ (MaxActions < 1) ELSE ~ (c.count >= MaxActions)
    BY <1>2, <1>6, AllowHistoryFacts DEF Time
  <2>2. CASE WindowClosed(c, t)
    <3>1. /\ ExecutionsSince(b, t) = {}
          /\ Cardinality(ExecutionsBetween(b, t - W, t)) <= MaxActions - 1
      BY <1>2, <2>1, <2>2, ReachOfClosedWindow
    <3>2. state'.counters[b] = [window_start |-> t, count |-> 1]
      BY <1>4, <1>6, <2>2 DEF NextCounter
    <3>3. [window_start |-> t, count |-> 1] # NoCounter
      BY <1>2 DEF NoCounter
    <3>4. state'.counters[b].window_start = t /\ state'.counters[b].count = 1
      BY <3>2
    <3>5. /\ ExecutionsSince(b, t)' = {n}
          /\ ExecutionsBetween(b, t - W, t)' = ExecutionsBetween(b, t - W, t)
      <4>1. ExecutionsSince(b, t)' = ExecutionsSince(b, t) \cup {n}
        BY <1>1, <1>2, <1>6 DEF ExecutionsGrow
      <4>2. ExecutionsBetween(b, t - W, t)' = ExecutionsBetween(b, t - W, t)
              \cup (IF (i.type = "EXECUTE" /\ b = i.agent_id) /\ t - W < t /\ t < t
                    THEN {n} ELSE {})
        BY <1>1 DEF ExecutionsGrow
      <4>3. ~ (t < t)
        BY <1>2
      <4> QED BY <3>1, <4>1, <4>2, <4>3
    <3>6. Cardinality({n}) = 1
      BY FS_Singleton
    <3>7. n \in Admissions' /\ IsExecute(n, b)' /\ admitted'[n].at = t
      BY <1>1, <1>6 DEF ExecutionsGrow
    <3>8. ASSUME NEW k \in Admissions', IsExecute(k, b)' PROVE admitted'[k].at < t + W
      <4>1. CASE k = n
        BY <1>2, <1>3, <3>7, <4>1
      <4>2. CASE k \in Admissions /\ admitted'[k].at = admitted[k].at
        <5>1. admitted[k].at \in Nat /\ admitted[k].at <= now
          BY <4>2, HistoryTyped
        <5> QED BY <1>2, <1>3, <4>2, <5>1
      <4> QED BY <1>1, <3>8, <4>1, <4>2 DEF ExecutionsGrow
    <3>9. 1 <= MaxActions
      BY <1>3, <2>1, <2>2
    <3>10. 1 = Cardinality(ExecutionsSince(b, t)')
           /\ Cardinality(ExecutionsBetween(b, t - W, t)') <= MaxActions - 1
      BY <3>1, <3>5, <3>6
    <3>11. t <= now' /\ state'.counters[b] # NoCounter
      BY <1>2, <3>2, <3>3
    <3> QED BY <3>4, <3>7, <3>8, <3>9, <3>10, <3>11 DEF WindowCounted
  <2>3. CASE ~ WindowClosed(c, t)
    <3>1. PICK ws \in Nat : ws = c.window_start /\ c # NoCounter /\ c.count \in Nat
                            /\ ~ (t - ws >= W) /\ ws - W \in Int
      BY <1>3, <2>3 DEF WindowClosed, Counter, Time
    <3>2. /\ c.count = Cardinality(ExecutionsSince(b, ws))
          /\ \E k \in Admissions : IsExecute(k, b) /\ admitted[k].at = ws
          /\ \A k \in Admissions : IsExecute(k, b) => admitted[k].at < ws + W
          /\ Cardinality(ExecutionsBetween(b, ws - W, ws)) <= MaxActions - 1
      BY <3>1 DEF WindowCounted
    <3>3. state'.counters[b] = [window_start |-> ws, count |-> c.count + 1]
      BY <1>4, <1>6, <2>3, <3>1 DEF NextCounter
    <3>4. [window_start |-> ws, count |-> c.count + 1] # NoCounter
      BY <3>1 DEF NoCounter
    <3>5. ws <= t /\ t < ws + W /\ c.count + 1 <= MaxActions
      BY <1>2, <1>3, <2>1, <2>3, <3>1
    <3>6. /\ ExecutionsSince(b, ws)' = ExecutionsSince(b, ws) \cup {n}
          /\ ExecutionsBetween(b, ws - W, ws)' = ExecutionsBetween(b, ws - W, ws)
      <4>1. ExecutionsSince(b, ws)' = ExecutionsSince(b, ws) \cup {n}
        BY <1>1, <1>2, <1>6, <3>5 DEF ExecutionsGrow
      <4>2. ExecutionsBetween(b, ws - W, ws)' = ExecutionsBetween(b, ws - W, ws)
              \cup (IF (i.type = "EXECUTE" /\ b = i.agent_id) /\ ws - W < t /\ t < ws
                    THEN {n} ELSE {})
        BY <1>1 DEF ExecutionsGrow
      <4>3. ~ (t < ws)
        BY <1>2, <3>5
      <4> QED BY <4>1, <4>2, <4>3
    <3>7. Cardinality(ExecutionsSince(b, ws)') = c.count + 1
      <4>1. IsFiniteSet(ExecutionsSince(b, ws)) /\ n \notin ExecutionsSince(b, ws)
        <5>1. IsFiniteSet(ExecutionsSince(b, ws))
          BY <3>1, HistoryTyped
        <5>2. n \notin ExecutionsSince(b, ws)
          BY <1>1 DEF ExecutionsGrow, ExecutionsSince
        <5> QED BY <5>1, <5>2
      <4>2. Cardinality(ExecutionsSince(b, ws) \cup {n}) = Cardinality(ExecutionsSince(b, ws)) + 1
        BY <4>1, FS_AddElement
      <4> QED BY <3>2, <3>6, <4>2
    <3>8. \E k \in Admissions' : IsExecute(k, b)' /\ admitted'[k].at = ws
      BY <1>1, <3>2 DEF ExecutionsGrow
    <3>9. \A k \in Admissions' : IsExecute(k, b)' => admitted'[k].at < ws + W
      BY <1>1, <3>2, <3>5 DEF ExecutionsGrow
    <3>10. state'.counters[b].window_start = ws /\ state'.counters[b].count = c.count + 1
           /\ state'.counters[b] # NoCounter /\ ws <= now'
      BY <1>2, <3>3, <3>4, <3>5
    <3>11. Cardinality(ExecutionsBetween(b, ws - W, ws)') <= MaxActions - 1
      BY <3>2, <3>6
    <3> QED BY <3>5, <3>7, <3>8, <3>9, <3>10, <3>11 DEF WindowCounted
  <2> QED BY <2>2, <2>3
<1> QED
  BY <1>3, <1>5, <1>6

(***************************************************************************)
(* Any VelocityWindow seconds that end now hold at most the open window    *)
(* and what of the previous one is within its reach.                       *)
(***************************************************************************)
LEMMA BurstNow ==
  ASSUME Inv, NEW a \in Agents, WindowCounted(a)
  PROVE  Cardinality(AdmittedIn(a, now, VelocityWindow))
           <= IF MaxActions = 0 THEN 0 ELSE 2 * MaxActions - 1
<1> DEFINE c == state.counters[a]
           W == VelocityWindow
           burst == AdmittedIn(a, now, W)
<1>1. /\ W \in Nat /\ MaxActions \in Nat /\ now \in Nat /\ state \in State
      /\ \A k \in Admissions : admitted[k].at \in Nat /\ admitted[k].at <= now
  BY PolicyConfig, HistoryTyped
<1>2. CASE c = NoCounter
  <2>1. burst = {}
    BY <1>2 DEF WindowCounted, AdmittedIn
  <2> QED BY <1>1, <2>1, FS_EmptySet
<1>3. CASE c # NoCounter
  <2> DEFINE ws == c.window_start
             since == ExecutionsSince(a, ws)
             before == ExecutionsBetween(a, ws - W, ws)
  <2>1. c \in Counter /\ ws \in Nat /\ c.count \in Nat /\ ws - W \in Int
    BY <1>1, <1>3 DEF State, Counter, Time
  <2>2. /\ ws <= now /\ c.count <= MaxActions /\ c.count = Cardinality(since)
        /\ Cardinality(before) <= MaxActions - 1
    BY <1>3 DEF WindowCounted
  <2>3. /\ IsFiniteSet(since) /\ IsFiniteSet(before)
        /\ Cardinality(since) \in Nat /\ Cardinality(before) \in Nat
    BY <2>1, HistoryTyped
  <2>4. burst \subseteq since \cup before
    BY <1>1, <2>1, <2>2 DEF AdmittedIn, ExecutionsSince, ExecutionsBetween
  <2>5. /\ IsFiniteSet(since \cup before)
        /\ Cardinality(since \cup before) <= Cardinality(since) + Cardinality(before)
    <3>1. /\ IsFiniteSet(since \cup before) /\ IsFiniteSet(since \cap before)
          /\ Cardinality(since \cup before) =
               Cardinality(since) + Cardinality(before) - Cardinality(since \cap before)
      BY <2>3, FS_Union, FS_Intersection
    <3>2. Cardinality(since \cap before) \in Nat
      BY <3>1, FS_CardinalityType
    <3> QED BY <2>3, <3>1, <3>2
  <2>6. /\ Cardinality(burst) <= Cardinality(since \cup before)
        /\ Cardinality(burst) \in Nat /\ Cardinality(since \cup before) \in Nat
    BY <2>4, <2>5, FS_Subset, FS_CardinalityType
  <2> QED BY <1>1, <2>1, <2>2, <2>3, <2>5, <2>6
<1> QED
  BY <1>2, <1>3

\* Below the evaluation time nothing is added to an interval, and an interval
\* that ends after the last admission holds no more than the one that ends at it.
LEMMA EarlierIntervals ==
  ASSUME Inv, NEW i \in Intents, NEW t \in 0..MaxTime, EvaluateAllow(i, t), NEW b \in Agents,
         NEW u \in Nat, u < t, NEW w \in Nat
  PROVE  /\ AdmittedIn(b, u, w)' = AdmittedIn(b, u, w)
         /\ u > now => AdmittedIn(b, u, w) \subseteq AdmittedIn(b, now, w)
<1>1. PICK n \in Nat : ExecutionsGrow(b, n, i, t)
  BY ExecutionsStep
<1>2. AdmittedIn(b, u, w)' = AdmittedIn(b, u, w)
        \cup (IF (i.type = "EXECUTE" /\ b = i.agent_id) /\ t \in (u - w + 1)..u THEN {n} ELSE {})
  BY <1>1 DEF ExecutionsGrow
<1>3. t \notin (u - w + 1)..u
  OBVIOUS
<1>4. now \in Nat /\ \A k \in Admissions : admitted[k].at \in Nat /\ admitted[k].at <= now
  BY HistoryTyped
<1>5. ASSUME u > now PROVE AdmittedIn(b, u, w) \subseteq AdmittedIn(b, now, w)
  BY <1>4, <1>5 DEF AdmittedIn
<1> QED
  BY <1>2, <1>3, <1>5

BurstLimit == IF MaxActions = 0 THEN 0 ELSE 2 * MaxActions - 1

LEMMA BurstsNow ==
  Inv /\ (\A a \in Agents : WindowCounted(a))
    => \A a \in Agents : Cardinality(AdmittedIn(a, now, VelocityWindow)) <= BurstLimit
BY BurstNow DEF BurstLimit

LEMMA VelocityBurstStep ==
  ASSUME Inv, VelocityBurstBound, NEW i \in Intents, NEW t \in 0..MaxTime, EvaluateAllow(i, t),
         Inv', (\A a \in Agents : WindowCounted(a))'
  PROVE  VelocityBurstBound'
<1>1. now \in Nat /\ now' = t /\ t \in Nat /\ VelocityWindow \in Nat /\ BurstLimit \in Int
  <2>1. now \in Nat /\ now' = t /\ t \in Nat
    BY Admitting
  <2>2. VelocityWindow \in Nat /\ BurstLimit \in Int
    BY PolicyConfig DEF BurstLimit
  <2> QED BY <2>1, <2>2
<1>2. (\A a \in Agents : Cardinality(AdmittedIn(a, now, VelocityWindow)) <= BurstLimit)'
  BY BurstsNow, PTL
<1>3. ASSUME NEW a \in Agents, NEW u \in 0..t
      PROVE  Cardinality(AdmittedIn(a, u, VelocityWindow)') <= BurstLimit
  <2>1. CASE u = t
    BY <1>1, <1>2, <2>1
  <2>2. CASE u < t /\ u <= now
    <3>1. AdmittedIn(a, u, VelocityWindow)' = AdmittedIn(a, u, VelocityWindow)
      BY <1>1, <2>2, EarlierIntervals
    <3>2. u \in 0..now
      BY <1>1, <2>2
    <3>3. Cardinality(AdmittedIn(a, u, VelocityWindow)) <= BurstLimit
      BY <3>2 DEF VelocityBurstBound, BurstLimit
    <3> QED BY <3>1, <3>3
  <2>3. CASE u < t /\ u > now
    <3>1. /\ AdmittedIn(a, u, VelocityWindow)' = AdmittedIn(a, u, VelocityWindow)
          /\ AdmittedIn(a, u, VelocityWindow) \subseteq AdmittedIn(a, now, VelocityWindow)
      BY <1>1, <2>3, EarlierIntervals
    <3>2. /\ IsFiniteSet(AdmittedIn(a, now, VelocityWindow))
          /\ Cardinality(AdmittedIn(a, now, VelocityWindow)) \in Nat
          /\ Cardinality(AdmittedIn(a, u, VelocityWindow)) \in Nat
      BY HistoryTyped
    <3>3. Cardinality(AdmittedIn(a, now, VelocityWindow)) <= BurstLimit
      BY <1>1 DEF VelocityBurstBound, BurstLimit
    <3>4. Cardinality(AdmittedIn(a, u, VelocityWindow))
            <= Cardinality(AdmittedIn(a, now, VelocityWindow))
      BY <3>1, <3>2, FS_Subset
    <3> QED BY <1>1, <3>1, <3>2, <3>3, <3>4
  <2> QED BY <1>1, <2>1, <2>2, <2>3
<1> QED
  BY <1>1, <1>3 DEF VelocityBurstBound, BurstLimit

----------------------------------------------------------------------------
\* The log after a call: what is left of it, and the call.
LEMMA NextCallsCount ==
  ASSUME NEW i \in Intent, NEW s \in State, NEW t \in Nat, i.type = "EXECUTE", i.tool # NoTool,
         DenyReasons(i, s, t, "fail-fast") = {}, IsFiniteSet(s.calls[i.agent_id]),
         \A u \in DOMAIN MaxCallsByTool[i.agent_id] :
           Cardinality(CallsOf(s.calls[i.agent_id], u)) <= MaxCallsByTool[i.agent_id][u]
  PROVE  /\ IsFiniteSet(NextCalls(i, s, t))
         /\ Cardinality(NextCalls(i, s, t)) <= MaxCalls[i.agent_id]
         /\ \A u \in DOMAIN MaxCallsByTool[i.agent_id] :
              Cardinality(CallsOf(NextCalls(i, s, t), u)) <= MaxCallsByTool[i.agent_id][u]
<1> DEFINE a == i.agent_id
           pruned == InWindow(s.calls[a], t)
           call == [ts |-> t, tool |-> i.tool, nonce |-> i.nonce]
<1>1. /\ a \in Configured
      /\ ~ (Cardinality(pruned) >= MaxCalls[a])
      /\ i.tool \in DOMAIN MaxCallsByTool[a] =>
           ~ (Cardinality(CallsOf(pruned, i.tool)) >= MaxCallsByTool[a][i.tool])
  BY AllowFacts, AllowHistoryFacts DEF Time
<1>2. NextCalls(i, s, t) = pruned \cup {call}
  BY DEF NextCalls
<1>3. MaxCalls[a] \in Nat /\ \A u \in DOMAIN MaxCallsByTool[a] : MaxCallsByTool[a][u] \in Nat
  BY <1>1, PolicyConfig
<1>4. pruned \subseteq s.calls[a]
  BY DEF InWindow
<1>5. IsFiniteSet(pruned)
  BY <1>4, FS_Subset
<1>6. IsFiniteSet(pruned \cup {call}) /\ Cardinality(pruned \cup {call}) <= MaxCalls[a]
  <2>1. Cardinality(pruned) \in Nat
    BY <1>5, FS_CardinalityType
  <2>2. /\ IsFiniteSet(pruned \cup {call})
        /\ Cardinality(pruned \cup {call}) =
             IF call \in pruned THEN Cardinality(pruned) ELSE Cardinality(pruned) + 1
    BY <1>5, FS_AddElement
  <2> QED BY <1>1, <1>3, <2>1, <2>2
<1>7. ASSUME NEW u \in DOMAIN MaxCallsByTool[a]
      PROVE  Cardinality(CallsOf(pruned \cup {call}, u)) <= MaxCallsByTool[a][u]
  <2>1. /\ CallsOf(pruned, u) \subseteq pruned /\ CallsOf(s.calls[a], u) \subseteq s.calls[a]
        /\ CallsOf(pruned, u) \subseteq CallsOf(s.calls[a], u)
    BY <1>4 DEF CallsOf
  <2>2. /\ IsFiniteSet(CallsOf(pruned, u)) /\ IsFiniteSet(CallsOf(s.calls[a], u))
    BY <1>5, <2>1, FS_Subset
  <2>3. /\ Cardinality(CallsOf(pruned, u)) \in Nat /\ Cardinality(CallsOf(s.calls[a], u)) \in Nat
        /\ Cardinality(CallsOf(pruned, u)) <= Cardinality(CallsOf(s.calls[a], u))
    BY <2>1, <2>2, FS_Subset, FS_CardinalityType
  <2>4. CASE u = i.tool
    <3>1. CallsOf(pruned \cup {call}, u) = CallsOf(pruned, u) \cup {call}
      BY <2>4 DEF CallsOf
    <3>2. Cardinality(CallsOf(pruned, u) \cup {call}) =
            IF call \in CallsOf(pruned, u)
            THEN Cardinality(CallsOf(pruned, u)) ELSE Cardinality(CallsOf(pruned, u)) + 1
      BY <2>2, FS_AddElement
    <3>3. ~ (Cardinality(CallsOf(pruned, u)) >= MaxCallsByTool[a][u]) /\ MaxCallsByTool[a][u] \in Nat
      BY <1>1, <1>3, <2>4
    <3>4. Cardinality(CallsOf(pruned, u) \cup {call}) <= Cardinality(CallsOf(pruned, u)) + 1
      BY <2>3, <3>2
    <3> HIDE DEF pruned, call
    <3>5. Cardinality(CallsOf(pruned, u) \cup {call}) <= MaxCallsByTool[a][u]
      <4>1. Cardinality(CallsOf(pruned, u) \cup {call}) \in Nat
        BY <2>3, <3>2
      <4> QED BY <2>3, <3>3, <3>4, <4>1
    <3> QED BY <3>1, <3>5
  <2>5. CASE u # i.tool
    <3>1. CallsOf(pruned \cup {call}, u) = CallsOf(pruned, u)
      BY <2>5 DEF CallsOf
    <3>2. Cardinality(CallsOf(s.calls[a], u)) <= MaxCallsByTool[a][u]
      OBVIOUS
    <3> QED BY <1>3, <2>3, <3>1, <3>2
  <2> QED BY <2>4, <2>5
<1> QED
  BY <1>2, <1>6, <1>7

LEMMA CallsLoggedStep ==
  ASSUME Inv, NEW i \in Intents, NEW t \in 0..MaxTime, EvaluateAllow(i, t),
         NEW b \in Agents, CallsLogged(b)
  PROVE  CallsLogged(b)'
<1> DEFINE a == i.agent_id
           new == b = a /\ i.type = "EXECUTE" /\ i.tool # NoTool
<1>1. PICK n \in Nat :
      /\ Admissions' = Admissions \cup {n} /\ n \notin Admissions
      /\ admitted'[n] = [intent |-> i, at |-> t]
      /\ \A k \in Admissions : admitted'[k] = admitted[k] /\ admitted[k] \in Admission
                               /\ admitted[k].at <= now
      /\ i \in Intent /\ t \in Nat /\ now \in Nat /\ now <= t /\ now' = t
      /\ state \in State /\ state' = NextState(i, state, t)
      /\ DenyReasons(i, state, t, "fail-fast") = {}
  BY Admitting
<1>2. /\ a \in Agents /\ i.type \in {"EXECUTE", "RELEASE"} /\ ToolWindow \in Nat
      /\ \A k \in Admissions : admitted[k].at \in Nat
  BY <1>1, PolicyConfig DEF Intent, Admission, Time
<1>3. /\ ~new => state'.calls[b] = state.calls[b]
      /\ new => state'.calls[b] = NextCalls(i, state, t)
  <2>1. CASE b # a \/ i.type = "RELEASE"
    BY <1>1, <1>2, <2>1, AllowEffects
  <2>2. CASE b = a /\ i.type = "EXECUTE"
    <3>1. state'.calls[b] = NextCalls(i, state, t)
      BY <1>1, <1>2, <2>2, AllowEffects
    <3> QED BY <2>2, <3>1 DEF NextCalls
  <2> QED BY <1>2, <2>1, <2>2
<1>4. /\ IsFiniteSet(state.calls[b])
      /\ b \in Configured =>
           /\ Cardinality(state.calls[b]) <= MaxCalls[b]
           /\ \A u \in DOMAIN MaxCallsByTool[b] :
                Cardinality(CallsOf(state.calls[b], u)) <= MaxCallsByTool[b][u]
      /\ \A k \in Admissions :
           (IsExecute(k, b) /\ admitted[k].intent.tool # NoTool /\ admitted[k].at > now - ToolWindow)
             => CallOf(k) \in state.calls[b]
  BY DEF CallsLogged
<1>5. IsFiniteSet(state'.calls[b])
      /\ (b \in Configured =>
            /\ Cardinality(state'.calls[b]) <= MaxCalls[b]
            /\ \A u \in DOMAIN MaxCallsByTool[b] :
                 Cardinality(CallsOf(state'.calls[b], u)) <= MaxCallsByTool[b][u])
  <2>1. CASE ~new
    BY <1>3, <1>4, <2>1
  <2>2. CASE new
    <3>1. a \in Configured
      BY <1>1, AllowFacts DEF Time
    <3> QED BY <1>1, <1>3, <1>4, <2>2, <3>1, NextCallsCount
  <2> QED BY <2>1, <2>2
<1>6. ASSUME NEW k \in Admissions', IsExecute(k, b)', admitted'[k].intent.tool # NoTool,
             admitted'[k].at > t - ToolWindow
      PROVE  CallOf(k)' \in state'.calls[b]
  <2>1. CASE k = n
    <3>1. new /\ CallOf(k)' = [ts |-> t, tool |-> i.tool, nonce |-> i.nonce]
      BY <1>1, <1>6, <2>1 DEF CallOf, IsExecute
    <3> QED BY <1>3, <3>1 DEF NextCalls
  <2>2. CASE k \in Admissions
    <3>1. /\ CallOf(k)' = CallOf(k) /\ IsExecute(k, b) /\ admitted[k].intent.tool # NoTool
          /\ admitted[k].at > t - ToolWindow /\ CallOf(k).ts = admitted[k].at
      BY <1>1, <1>6, <2>2 DEF CallOf, IsExecute
    <3>2. admitted[k].at > now - ToolWindow /\ t - admitted[k].at < ToolWindow
      BY <1>1, <1>2, <2>2, <3>1
    <3>3. CallOf(k) \in state.calls[b]
      BY <1>4, <2>2, <3>1, <3>2
    <3>4. CASE ~new
      BY <1>3, <3>1, <3>3, <3>4
    <3>5. CASE new
      BY <1>3, <3>1, <3>2, <3>3, <3>5 DEF NextCalls, InWindow
    <3> QED BY <3>4, <3>5
  <2> QED BY <1>1, <2>1, <2>2
<1> QED
  BY <1>1, <1>5, <1>6 DEF CallsLogged

LEMMA CountByInjection ==
  ASSUME NEW S, NEW T, IsFiniteSet(T), NEW f \in [S -> T],
         \A x, y \in S : f[x] = f[y] => x = y
  PROVE  Cardinality(S) <= Cardinality(T)
<1>1. f \in Injection(S, T)
  BY DEF Injection, IsInjective
<1> QED
  BY <1>1, FS_Injection

CallsIn(a, t) == {k \in AdmittedIn(a, t, ToolWindow) : admitted[k].intent.tool # NoTool}

WithinLimits(a, calls) ==
  /\ Cardinality(calls) <= MaxCalls[a]
  /\ \A u \in DOMAIN MaxCallsByTool[a] :
       Cardinality({k \in calls : admitted[k].intent.tool = u}) <= MaxCallsByTool[a][u]

\* The calls of the window that ends now are different entries of the log.
LEMMA CallsNow ==
  ASSUME Inv, IdsUnique, NEW a \in Configured, CallsLogged(a)
  PROVE  WithinLimits(a, CallsIn(a, now))
<1> DEFINE S == CallsIn(a, now)
           T == state.calls[a]
<1>1. ToolWindow \in Nat /\ now \in Nat
  BY PolicyConfig, HistoryTyped
<1>2. ASSUME NEW k \in S
      PROVE  k \in Admissions /\ IsExecute(k, a) /\ CallOf(k) \in T
             /\ CallOf(k).tool = admitted[k].intent.tool
  <2>1. /\ k \in Admissions /\ IsExecute(k, a) /\ admitted[k].intent.tool # NoTool
        /\ admitted[k].at \in (now - ToolWindow + 1)..now
    BY <1>2 DEF CallsIn, AdmittedIn
  <2>2. admitted[k].at > now - ToolWindow
    BY <1>1, <2>1
  <2> QED BY <2>1, <2>2 DEF CallsLogged, CallOf
<1>3. ASSUME NEW j \in S, NEW k \in S, CallOf(j) = CallOf(k) PROVE j = k
  <2>1. IdOf(j) = IdOf(k)
    BY <1>3 DEF CallOf, IdOf
  <2>2. admitted[j].intent.agent_id = admitted[k].intent.agent_id
    BY <1>2 DEF IsExecute
  <2> QED BY <1>2, <2>1, <2>2 DEF IdsUnique
<1>4. /\ IsFiniteSet(T) /\ Cardinality(T) <= MaxCalls[a]
      /\ \A u \in DOMAIN MaxCallsByTool[a] :
           Cardinality(CallsOf(T, u)) <= MaxCallsByTool[a][u]
  BY DEF CallsLogged
<1>5. MaxCalls[a] \in Nat /\ \A u \in DOMAIN MaxCallsByTool[a] : MaxCallsByTool[a][u] \in Nat
  BY PolicyConfig
<1>6. \A R \in SUBSET S : IsFiniteSet(R) /\ Cardinality(R) \in Nat
  <2>1. IsFiniteSet(AdmittedIn(a, now, ToolWindow)) /\ S \subseteq AdmittedIn(a, now, ToolWindow)
    BY HistoryTyped DEF CallsIn
  <2> QED BY <2>1, FS_Subset, FS_CardinalityType
<1>7. Cardinality(S) <= MaxCalls[a]
  <2> DEFINE f == [k \in S |-> CallOf(k)]
  <2>1. f \in [S -> T] /\ \A x, y \in S : f[x] = f[y] => x = y
    BY <1>2, <1>3
  <2>2. Cardinality(S) <= Cardinality(T)
    <3> HIDE DEF f, S, T
    <3> QED BY <1>4, <2>1, CountByInjection
  <2>3. Cardinality(S) \in Nat /\ Cardinality(T) \in Nat
    BY <1>4, <1>6, FS_CardinalityType
  <2> HIDE DEF S, T
  <2> QED BY <1>4, <1>5, <2>2, <2>3
<1>8. ASSUME NEW u \in DOMAIN MaxCallsByTool[a]
      PROVE  Cardinality({k \in S : admitted[k].intent.tool = u}) <= MaxCallsByTool[a][u]
  <2> DEFINE Su == {k \in S : admitted[k].intent.tool = u}
             Tu == CallsOf(T, u)
             f == [k \in Su |-> CallOf(k)]
  <2>1. f \in [Su -> Tu] /\ \A x, y \in Su : f[x] = f[y] => x = y
    BY <1>2, <1>3 DEF CallsOf
  <2>2. IsFiniteSet(Tu) /\ Tu \subseteq T
    <3>1. Tu \subseteq T
      BY DEF CallsOf
    <3> HIDE DEF Tu, T
    <3> QED BY <1>4, <3>1, FS_Subset
  <2>3. Cardinality(Su) <= Cardinality(Tu)
    <3> HIDE DEF f, Su, Tu
    <3> QED BY <2>1, <2>2, CountByInjection
  <2>4. Cardinality(Su) \in Nat /\ Cardinality(Tu) \in Nat
    BY <1>6, <2>2, FS_CardinalityType
  <2>5. Cardinality(Tu) <= MaxCallsByTool[a][u] /\ MaxCallsByTool[a][u] \in Nat
    BY <1>4, <1>5
  <2>6. Cardinality(Su) <= MaxCallsByTool[a][u]
    <3> HIDE DEF Su, Tu
    <3> QED BY <2>3, <2>4, <2>5
  <2> QED BY <2>6
<1> QED
  BY <1>7, <1>8 DEF WithinLimits

LEMMA AllCallsNow ==
  Inv /\ IdsUnique /\ (\A a \in Agents : CallsLogged(a))
    => \A a \in Configured : WithinLimits(a, CallsIn(a, now))
BY CallsNow, PolicyConfig

LEMMA ToolWindowStep ==
  ASSUME Inv, ToolWindowBound, NEW i \in Intents, NEW t \in 0..MaxTime, EvaluateAllow(i, t),
         Inv', IdsUnique', (\A a \in Agents : CallsLogged(a))'
  PROVE  ToolWindowBound'
<1>1. /\ now \in Nat /\ now' = t /\ t \in Nat
      /\ \A k \in Admissions : admitted'[k] = admitted[k]
  BY Admitting
<1>2. ToolWindow \in Nat
  BY PolicyConfig
<1>3. (\A a \in Configured : WithinLimits(a, CallsIn(a, now)))'
  BY AllCallsNow, PTL
<1>4. \A a \in Configured, u \in 0..now : WithinLimits(a, CallsIn(a, u))
  BY DEF ToolWindowBound, WithinLimits, CallsIn
<1>5. ASSUME NEW a \in Configured, NEW u \in 0..t
      PROVE  WithinLimits(a, CallsIn(a, u))'
  <2>1. CASE u = t
    BY <1>1, <1>3, <2>1 DEF WithinLimits, CallsIn
  <2>2. CASE u < t
    <3>0. a \in Agents /\ MaxCalls[a] \in Nat
          /\ \A x \in DOMAIN MaxCallsByTool[a] : MaxCallsByTool[a][x] \in Nat
      BY PolicyConfig
    <3>1. /\ AdmittedIn(a, u, ToolWindow)' = AdmittedIn(a, u, ToolWindow)
          /\ u > now => AdmittedIn(a, u, ToolWindow) \subseteq AdmittedIn(a, now, ToolWindow)
      BY <1>1, <1>2, <2>2, <3>0, EarlierIntervals
    <3>2. PICK S \in SUBSET Admissions : S = CallsIn(a, u)
      BY DEF CallsIn, AdmittedIn
    <3>3. CallsIn(a, u)' = S /\ \A k \in S : admitted'[k].intent.tool = admitted[k].intent.tool
      BY <1>1, <3>1, <3>2 DEF CallsIn, AdmittedIn
    <3>4. \A x : {k \in S : admitted'[k].intent.tool = x} = {k \in S : admitted[k].intent.tool = x}
      BY <3>3
    <3>5. WithinLimits(a, S)
      <4>1. CASE u <= now
        <5>1. u \in 0..now
          BY <1>1, <4>1
        <5> QED BY <1>4, <3>2, <5>1
      <4>2. CASE u > now
        <5> DEFINE N == CallsIn(a, now)
        <5>1. S \subseteq N
          BY <3>1, <3>2, <4>2 DEF CallsIn
        <5>2. IsFiniteSet(N)
          <6>1. IsFiniteSet(AdmittedIn(a, now, ToolWindow)) /\ N \subseteq AdmittedIn(a, now, ToolWindow)
            BY HistoryTyped DEF CallsIn
          <6> QED BY <6>1, FS_Subset
        <5>3. WithinLimits(a, N)
          BY <1>1, <1>4
        <5>4. ASSUME NEW X, NEW Y, X \subseteq Y, Y \subseteq N, NEW m \in Nat, Cardinality(Y) <= m
              PROVE  Cardinality(X) <= m
          <6>1. IsFiniteSet(X) /\ IsFiniteSet(Y) /\ Cardinality(X) <= Cardinality(Y)
            BY <5>2, <5>4, FS_Subset
          <6> QED BY <5>4, <6>1, FS_CardinalityType
        <5>5. Cardinality(S) <= MaxCalls[a]
          BY <3>0, <5>1, <5>3, <5>4 DEF WithinLimits
        <5>6. ASSUME NEW x \in DOMAIN MaxCallsByTool[a]
              PROVE  Cardinality({k \in S : admitted[k].intent.tool = x}) <= MaxCallsByTool[a][x]
          <6>1. /\ {k \in S : admitted[k].intent.tool = x} \subseteq {k \in N : admitted[k].intent.tool = x}
                /\ {k \in N : admitted[k].intent.tool = x} \subseteq N
                /\ Cardinality({k \in N : admitted[k].intent.tool = x}) <= MaxCallsByTool[a][x]
            BY <5>1, <5>3 DEF WithinLimits
          <6>2. MaxCallsByTool[a][x] \in Nat
            BY <3>0
          <6> QED BY <5>4, <6>1, <6>2
        <5> QED BY <5>5, <5>6 DEF WithinLimits
      <4> QED BY <1>1, <4>1, <4>2
    <3> QED BY <3>3, <3>4, <3>5 DEF WithinLimits
  <2> QED BY <1>1, <2>1, <2>2
<1> QED
  BY <1>1, <1>5 DEF ToolWindowBound, WithinLimits, CallsIn

----------------------------------------------------------------------------
LEMMA InitHistory == Init => HistoryInv
<1> SUFFICES ASSUME Init PROVE HistoryInv
  OBVIOUS
<1>1. now = 0 /\ admitted = <<>> /\ Admissions = {}
  BY DEF Init, Admissions
<1>2. PICK v \in {PolicyVersion, "other"} : state = [EmptyState EXCEPT !.policy_version = v]
  BY DEF Init
<1>3. \A a \in Agents : /\ state.active_auths[a] = {} /\ state.calls[a] = {}
                        /\ state.counters[a] = NoCounter
  BY <1>2 DEF EmptyState
<1>4. IdsUnique /\ LeasesTraced
  BY <1>1, <1>3 DEF IdsUnique, LeasesTraced
<1>5. \A a, t, w : AdmittedIn(a, t, w) = {}
  BY <1>1 DEF AdmittedIn
<1>6. IsFiniteSet({}) /\ Cardinality({}) = 0
  BY FS_EmptySet
<1>7. ASSUME NEW a \in Agents PROVE WindowCounted(a) /\ CallsLogged(a)
  <2>1. WindowCounted(a)
    BY <1>1, <1>3 DEF WindowCounted
  <2>2. \A u : CallsOf({}, u) = {}
    BY DEF CallsOf
  <2>3. a \in Configured =>
          MaxCalls[a] \in Nat /\ \A u \in DOMAIN MaxCallsByTool[a] : MaxCallsByTool[a][u] \in Nat
    BY PolicyConfig
  <2>4. a \in Configured =>
          /\ Cardinality({}) <= MaxCalls[a]
          /\ \A u \in DOMAIN MaxCallsByTool[a] : Cardinality({}) <= MaxCallsByTool[a][u]
    BY <1>6, <2>3
  <2>5. \A k : k \notin Admissions
    BY <1>1
  <2>6. CallsLogged(a)
    BY <1>3, <1>6, <2>2, <2>4, <2>5 DEF CallsLogged
  <2> QED BY <2>1, <2>6
<1>8. VelocityBurstBound
  <2>1. MaxActions \in Nat
    BY PolicyConfig
  <2> QED BY <1>5, <1>6, <2>1 DEF VelocityBurstBound
<1>9. ToolWindowBound
  <2> SUFFICES ASSUME NEW a \in Configured, NEW t \in 0..now
               PROVE  WithinLimits(a, CallsIn(a, t))
    BY DEF ToolWindowBound, WithinLimits, CallsIn
  <2>1. CallsIn(a, t) = {}
    BY <1>5 DEF CallsIn
  <2>2. MaxCalls[a] \in Nat /\ \A u \in DOMAIN MaxCallsByTool[a] : MaxCallsByTool[a][u] \in Nat
    BY PolicyConfig
  <2>3. \A u : {k \in {} : admitted[k].intent.tool = u} = {}
    OBVIOUS
  <2> QED BY <1>6, <2>1, <2>2, <2>3 DEF WithinLimits
<1> QED
  BY <1>4, <1>7, <1>8, <1>9 DEF HistoryInv

\* Evaluations and the kill switches are all that happens to a history.
LEMMA UnchangedHistory ==
  ASSUME HistoryInv, UNCHANGED <<now, admitted>>,
         state'.active_auths = state.active_auths, state'.counters = state.counters,
         state'.calls = state.calls
  PROVE  HistoryInv'
<1> USE DEF Admissions, IdOf, IsExecute
<1>1. IdsUnique'
  BY DEF HistoryInv, IdsUnique
<1>2. LeasesTraced'
  BY DEF HistoryInv, LeasesTraced, Released
<1>3. ASSUME NEW a \in Agents PROVE WindowCounted(a)' /\ CallsLogged(a)'
  <2>1. WindowCounted(a)'
    <3>1. \A x, y : /\ ExecutionsSince(a, x)' = ExecutionsSince(a, x)
                    /\ ExecutionsBetween(a, x, y)' = ExecutionsBetween(a, x, y)
      BY DEF ExecutionsSince, ExecutionsBetween
    <3>2. PICK ws, count, c : c = state.counters[a] /\ ws = c.window_start /\ count = c.count
      OBVIOUS
    <3>3. /\ ExecutionsSince(a, ws)' = ExecutionsSince(a, ws)
          /\ ExecutionsBetween(a, ws - VelocityWindow, ws)'
               = ExecutionsBetween(a, ws - VelocityWindow, ws)
      BY <3>1
    <3>4. state'.counters[a] = c
      BY <3>2
    <3>5. WindowCounted(a)
      BY DEF HistoryInv
    <3> QED BY <3>2, <3>3, <3>4, <3>5 DEF WindowCounted
  <2>2. CallsLogged(a)'
    BY DEF HistoryInv, CallsLogged, CallOf
  <2> QED BY <2>1, <2>2
<1>4. VelocityBurstBound'
  BY DEF HistoryInv, VelocityBurstBound, AdmittedIn
<1>5. ToolWindowBound'
  BY DEF HistoryInv, ToolWindowBound, AdmittedIn
<1> QED
  BY <1>1, <1>2, <1>3, <1>4, <1>5 DEF HistoryInv

LEMMA NextHistory == Inv /\ HistoryInv /\ [Next]_vars => HistoryInv'
<1> SUFFICES ASSUME Inv, HistoryInv, [Next]_vars PROVE HistoryInv'
  OBVIOUS
<1>1. Inv'
  BY NextInv
<1>2. ASSUME NEW i \in Intents, NEW t \in 0..MaxTime, EvaluateAllow(i, t) PROVE HistoryInv'
  <2>1. IdsUnique' /\ LeasesTraced'
    BY <1>2, IdsUniqueStep, LeasesTracedStep DEF HistoryInv
  <2>2. (\A a \in Agents : WindowCounted(a))'
    BY <1>2, WindowCountedStep DEF HistoryInv
  <2>3. (\A a \in Agents : CallsLogged(a))'
    BY <1>2, CallsLoggedStep DEF HistoryInv
  <2>4. VelocityBurstBound'
    BY <1>1, <1>2, <2>2, VelocityBurstStep DEF HistoryInv
  <2>5. ToolWindowBound'
    BY <1>1, <1>2, <2>1, <2>3, ToolWindowStep DEF HistoryInv
  <2> QED BY <2>1, <2>2, <2>3, <2>4, <2>5 DEF HistoryInv
<1>3. ASSUME UNCHANGED vars PROVE HistoryInv'
  BY <1>3, UnchangedHistory DEF vars
<1>4. ASSUME NEW g \in BOOLEAN, NEW as \in SUBSET Configured, SetKillSwitch(g, as)
      PROVE  HistoryInv'
  <2>1. /\ state'.active_auths = state.active_auths /\ state'.counters = state.counters
        /\ state'.calls = state.calls /\ UNCHANGED <<now, admitted>>
    BY <1>4 DEF SetKillSwitch, Inv, TypeOK, State
  <2> QED BY <2>1, UnchangedHistory
<1> QED
  BY <1>2, <1>3, <1>4 DEF Next, EvaluateDeny

LEMMA LeasesAreLive == Inv /\ HistoryInv => LiveAuthorizationsAreLeased
<1> SUFFICES ASSUME Inv, HistoryInv, NEW a \in Agents, NEW t \in now..MaxTime
             PROVE  {l.auth_id : l \in LiveLeases(state, a, t)}
                      = {IdOf(k) : k \in {j \in Admissions : /\ IsExecute(j, a)
                                                             /\ t < admitted[j].at + Ttl
                                                             /\ ~Released(j, a)}}
  BY DEF LiveAuthorizationsAreLeased
<1>1. LeasesTraced /\ now \in Nat /\ t \in Nat /\ now <= t /\ Ttl \in Nat
      /\ \A k \in Admissions : admitted[k].at \in Nat
  BY HistoryTyped, EngineConfig, PolicyConfig DEF HistoryInv
<1>2. ASSUME NEW l \in LiveLeases(state, a, t)
      PROVE  \E k \in Admissions : /\ IsExecute(k, a) /\ t < admitted[k].at + Ttl
                                   /\ ~Released(k, a) /\ IdOf(k) = l.auth_id
  <2>1. l \in state.active_auths[a] /\ t < l.expires_at
    BY DEF LiveLeases
  <2>2. l.expires_at = l.auth_id.issued_at + Ttl
    BY <1>1, <2>1 DEF LeasesTraced
  <2>3. PICK k \in Admissions : IsExecute(k, a) /\ IdOf(k) = l.auth_id /\ ~Released(k, a)
    BY <1>1, <2>1 DEF LeasesTraced
  <2>4. l.auth_id.issued_at = admitted[k].at
    BY <2>3 DEF IdOf
  <2> QED BY <2>1, <2>2, <2>3, <2>4
<1>3. ASSUME NEW k \in Admissions, IsExecute(k, a), t < admitted[k].at + Ttl, ~Released(k, a)
      PROVE  \E l \in LiveLeases(state, a, t) : l.auth_id = IdOf(k)
  <2>1. now < admitted[k].at + Ttl
    BY <1>1, <1>3
  <2>2. PICK l \in state.active_auths[a] : l.auth_id = IdOf(k)
    BY <1>1, <1>3, <2>1 DEF LeasesTraced
  <2>3. l.expires_at = admitted[k].at + Ttl
    BY <1>1, <2>2 DEF LeasesTraced, IdOf
  <2> QED BY <1>3, <2>2, <2>3 DEF LiveLeases
<1> QED
  BY <1>2, <1>3

----------------------------------------------------------------------------
(***************************************************************************)
(* The inductive invariant holds in every reachable state.                 *)
(***************************************************************************)
THEOREM InvariantHolds == Spec => []Inv
<1> QED BY InitInv, NextInv, PTL DEF Spec

(***************************************************************************)
(* The engine's state keeps its type: counters, nonces, leases and tool    *)
(* log stay well formed and no count goes negative.                        *)
(***************************************************************************)
THEOREM EngineTyped == Spec => []TypeOK
<1>1. Inv => TypeOK
  BY DEF Inv
<1> QED BY <1>1, InvariantHolds, PTL

(***************************************************************************)
(* No intent is admitted twice, whatever the windows: the retention of     *)
(* ReplayModule outlasts the freshness gate.                               *)
(***************************************************************************)
THEOREM EngineAdmitsOnce == Spec => []NoIntentAdmittedTwice
<1>1. Inv => NoIntentAdmittedTwice
  BY DEF Inv
<1> QED BY <1>1, InvariantHolds, PTL

(***************************************************************************)
(* The concurrency counter is the number of tracked leases and within the  *)
(* agent's limit.                                                          *)
(***************************************************************************)
THEOREM EngineCountsLeases == Spec => []LeaseAccounting
<1>1. Inv => LeaseAccounting
  BY DEF Inv
<1> QED BY <1>1, InvariantHolds, PTL

(***************************************************************************)
(* No agent spends past its budget.                                        *)
(***************************************************************************)
THEOREM EngineKeepsBudget == Spec => []BudgetRespected
<1>1. Inv => BudgetRespected
  BY DEF Inv
<1> QED BY <1>1, InvariantHolds, PTL

(***************************************************************************)
(* The second invariant, relative to the first.                            *)
(***************************************************************************)
THEOREM HistoryHolds == Spec => []HistoryInv
<1> QED BY InitHistory, NextHistory, InvariantHolds, PTL DEF Spec

(***************************************************************************)
(* The authorizations an agent can still execute under are exactly its     *)
(* live leases: no lease is lost or kept by reclamation, release or the    *)
(* replacement of the lease map (ConcurrencyModule, PolicyEngine).         *)
(***************************************************************************)
THEOREM EngineLeasesLiveAuthorizations == Spec => []LiveAuthorizationsAreLeased
<1> QED BY InvariantHolds, HistoryHolds, LeasesAreLive, PTL

(***************************************************************************)
(* No VelocityWindow seconds hold more than 2 * MaxActions - 1 actions of  *)
(* an agent, although VelocityModule's windows are fixed ones.             *)
(***************************************************************************)
THEOREM EngineBoundsBursts == Spec => []VelocityBurstBound
<1>1. HistoryInv => VelocityBurstBound
  BY DEF HistoryInv
<1> QED BY <1>1, HistoryHolds, PTL

(***************************************************************************)
(* No ToolWindow seconds hold more tool calls of an agent than its limits, *)
(* in total and for each tool (ToolAmplificationModule).                   *)
(***************************************************************************)
THEOREM EngineBoundsToolCalls == Spec => []ToolWindowBound
<1>1. HistoryInv => ToolWindowBound
  BY DEF HistoryInv
<1> QED BY <1>1, HistoryHolds, PTL

=============================================================================
