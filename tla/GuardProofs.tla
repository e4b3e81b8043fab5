---------------------------- MODULE GuardProofs ----------------------------
(***************************************************************************)
(* Proofs about the policy enforcement point, for any number of requests,  *)
(* guard instances, crashes, operator writes and failing calls: concurrent *)
(* requests implement the sequential policy engine, no intent is executed  *)
(* twice, what was used or revoked does not run, and the audit streams     *)
(* tell the truth.                                                         *)
(***************************************************************************)
EXTENDS Guard, TLAPS

\* What is proved of the policy engine, read on the guard's variables.
EngineProofs == INSTANCE PolicyEngineProofs WITH
  Intents <- {IntentOf[r] : r \in Requests},
  now <- lastEval, state <- store.state, admitted <- admitted

----------------------------------------------------------------------------
(***************************************************************************)
(* The inductive invariant.                                                *)
(*                                                                         *)
(* The store holds an engine state, and each committed request is an       *)
(* admission of its own.                                                   *)
(***************************************************************************)
StoreInv ==
  /\ EngineProofs!Inv
  /\ store.state.kill_agents = {}
  /\ lastEval <= now /\ now <= MaxTime
  /\ \A r \in committed : \E k \in DOMAIN admitted : admitted[k].intent = IntentOf[r]
  /\ \A r, s \in committed : IntentOf[r] = IntentOf[s] => r = s

(***************************************************************************)
(* A snapshot whose version is still the store's is the store's state, and *)
(* nothing was evaluated after it: what makes compare-and-set on a version *)
(* enough.                                                                 *)
(***************************************************************************)
SnapshotInv(r) ==
  /\ req[r].version <= store.version
  /\ req[r].version = store.version => req[r].state = store.state /\ lastEval <= req[r].at
  /\ req[r].at <= now

(***************************************************************************)
(* Where a request is says which path it took, what it has checked, and    *)
(* which of its effects have happened.                                     *)
(***************************************************************************)
BeforeUse == {"idle", "loaded", "verify", "revocation", "krl", "consume_delegation", "consume_auth"}

PathInv(r) ==
  /\ pc[r] \in {"verify", "commit"} => ~Delegated(r)
  /\ pc[r] \in {"revocation", "krl", "consume_delegation"} => Delegated(r)
  /\ (pc[r] \in {"verify", "consume_auth", "commit"} /\ ~Delegated(r))
       => DenyReasons(IntentOf[r], req[r].state, req[r].at, "fail-fast") = {}

EffectInv(r) ==
  /\ pc[r] \in BeforeUse => ~life[r].authorizationConsumed
  /\ (pc[r] \in {"commit", "gate", "executing"} \/ r \in started) => life[r].authorizationConsumed
  /\ pc[r] \in BeforeUse \ {"consume_auth"} => ~life[r].delegationConsumed
  /\ (pc[r] = "consume_auth" \/ life[r].authorizationConsumed)
       => (Delegated(r) /\ StoresDelegations => life[r].delegationConsumed)
  /\ pc[r] \in BeforeUse \cup {"commit"} => r \notin committed
  /\ (pc[r] \in {"gate", "executing"} \/ r \in started) => Delegated(r) \/ r \in committed
  /\ pc[r] # "rejected" => (life[r].stateCommitted <=> r \in committed)
  /\ r \in started => pc[r] \in {"executing", "returned", "failed", "crashed"}

\* What a request found revoked when it began stays revoked, and stops it.
RevokedInv(r) ==
  /\ req[r].revoked_at_start \subseteq revoked
  /\ (/\ pc[r] \in {"krl", "consume_delegation", "consume_auth", "gate", "executing"} \/ r \in started
      /\ Delegated(r) /\ RevocationProvider) => DelegationOf[r].id \notin req[r].revoked_at_start

(***************************************************************************)
(* What a request consumed is in the replay store, in the domain it began  *)
(* in.  While no entry is evicted, no two requests consumed the same.      *)
(***************************************************************************)
RecordedAuth(r) == \E e \in authIds : e.domain = req[r].domain /\ e.id = AuthIdOf(r)
RecordedDelegation(r) ==
  \E e \in delegationIds : e.domain = req[r].domain /\ e.id = DelegationOf[r].id

ReplayInv(r) ==
  /\ life[r].authorizationConsumed => RecordedAuth(r)
  /\ life[r].delegationConsumed => RecordedDelegation(r)

UsedOnce(r, s) ==
  (r # s /\ req[r].domain = req[s].domain) =>
    /\ life[r].authorizationConsumed /\ life[s].authorizationConsumed => AuthIdOf(r) # AuthIdOf(s)
    /\ (life[r].delegationConsumed /\ life[s].delegationConsumed)
         => DelegationOf[r].id # DelegationOf[s].id

\* What an event says of a request's progress is what happened.
Truthful(r, event) ==
  /\ event.stage \in Stages /\ event.progress \in Lifecycle
  /\ event.progress.authorizationConsumed => RecordedAuth(r)
  /\ event.progress.stateCommitted => r \in committed
  /\ (r \in committed /\ ~event.progress.stateCommitted)
       => event.stage = "STATE_COMMIT" /\ event.failure = "UNCLASSIFIED"

AuditInv(r) ==
  /\ events[r] = <<>> \/ (pc[r] = "rejected" /\ events[r] = <<events[r][1]>> /\ Truthful(r, events[r][1]))
  /\ (pc[r] = "rejected" /\ Thrown \subseteq {Fresh}) => events[r] # <<>>
  /\ decisions[r] = IF pc[r] = "denied" THEN <<"DENY">>
                    ELSE IF pc[r] = "returned" THEN <<"ALLOW">> ELSE <<>>

RequestInv(r) ==
  SnapshotInv(r) /\ PathInv(r) /\ EffectInv(r) /\ RevokedInv(r) /\ ReplayInv(r) /\ AuditInv(r)

Inv ==
  /\ TypeOK
  /\ StoreInv
  /\ \A r \in Requests : RequestInv(r)
  /\ ~Evicts => \A r, s \in Requests : UsedOnce(r, s)

----------------------------------------------------------------------------
(***************************************************************************)
(* The guard and the engine mean the same by the policy's operators: each  *)
(* instance's operator is the guard's.                                     *)
(***************************************************************************)
LEMMA SameCardinality ==
  ASSUME NEW S
  PROVE  /\ EngineProofs!Cardinality(S) = Cardinality(S)
         /\ Engine!Cardinality(S) = Cardinality(S)
  BY DEF Cardinality, EngineProofs!Cardinality, Engine!Cardinality

LEMMA SameRetained ==
  ASSUME NEW s, NEW a, NEW t
  PROVE  /\ EngineProofs!RetainedNonces(s, a, t) = RetainedNonces(s, a, t)
         /\ Engine!RetainedNonces(s, a, t) = RetainedNonces(s, a, t)
  BY DEF RetainedNonces, EngineProofs!RetainedNonces, Engine!RetainedNonces, Retention,
       EngineProofs!Retention, Engine!Retention, FreshnessHorizon,
       EngineProofs!FreshnessHorizon, Engine!FreshnessHorizon

LEMMA SameRemaining ==
  ASSUME NEW i, NEW s, NEW t
  PROVE  /\ EngineProofs!RemainingLeases(i, s, t) = RemainingLeases(i, s, t)
         /\ Engine!RemainingLeases(i, s, t) = RemainingLeases(i, s, t)
  BY DEF RemainingLeases, EngineProofs!RemainingLeases, Engine!RemainingLeases,
       LiveLeases, EngineProofs!LiveLeases, Engine!LiveLeases

LEMMA SameLive ==
  ASSUME NEW s, NEW a, NEW t
  PROVE  /\ EngineProofs!LiveLeases(s, a, t) = LiveLeases(s, a, t)
         /\ Engine!LiveLeases(s, a, t) = LiveLeases(s, a, t)
  BY DEF LiveLeases, EngineProofs!LiveLeases, Engine!LiveLeases

LEMMA SameActive ==
  ASSUME NEW i, NEW s, NEW t
  PROVE  /\ EngineProofs!ActiveAfterReclaim(i, s, t) = ActiveAfterReclaim(i, s, t)
         /\ Engine!ActiveAfterReclaim(i, s, t) = ActiveAfterReclaim(i, s, t)
  BY SameCardinality, SameRemaining DEF ActiveAfterReclaim, EngineProofs!ActiveAfterReclaim, Engine!ActiveAfterReclaim,
       RemovedLeases, EngineProofs!RemovedLeases, Engine!RemovedLeases

LEMMA SameCounter ==
  ASSUME NEW i, NEW s, NEW t
  PROVE  /\ EngineProofs!NextCounter(i, s, t) = NextCounter(i, s, t)
         /\ Engine!NextCounter(i, s, t) = NextCounter(i, s, t)
  BY DEF NextCounter, EngineProofs!NextCounter, Engine!NextCounter, WindowClosed,
       EngineProofs!WindowClosed, Engine!WindowClosed, NoCounter,
       EngineProofs!NoCounter, Engine!NoCounter

LEMMA SameCalls ==
  ASSUME NEW i, NEW s, NEW t
  PROVE  /\ EngineProofs!NextCalls(i, s, t) = NextCalls(i, s, t)
         /\ Engine!NextCalls(i, s, t) = NextCalls(i, s, t)
  BY DEF NextCalls, EngineProofs!NextCalls, Engine!NextCalls, InWindow,
       EngineProofs!InWindow, Engine!InWindow

LEMMA SameNonces ==
  ASSUME NEW i, NEW s, NEW t
  PROVE  /\ EngineProofs!NextNonces(i, s, t) = NextNonces(i, s, t)
         /\ Engine!NextNonces(i, s, t) = NextNonces(i, s, t)
  BY SameRetained DEF NextNonces, EngineProofs!NextNonces, Engine!NextNonces

LEMMA SameNextState ==
  ASSUME NEW i, NEW s, NEW t
  PROVE  /\ EngineProofs!NextState(i, s, t) = NextState(i, s, t)
         /\ Engine!NextState(i, s, t) = NextState(i, s, t)
  BY SameNonces, SameActive, SameRemaining, SameCounter, SameCalls DEF NextState, EngineProofs!NextState, Engine!NextState, NextStateRelease,
       EngineProofs!NextStateRelease, Engine!NextStateRelease, NextStateExecute,
       EngineProofs!NextStateExecute, Engine!NextStateExecute, ExecuteWithLeases,
       EngineProofs!ExecuteWithLeases, Engine!ExecuteWithLeases, NewLease,
       EngineProofs!NewLease, Engine!NewLease

LEMMA SameFirstDenial ==
  ASSUME NEW stages
  PROVE  /\ EngineProofs!FirstDenial(stages) = FirstDenial(stages)
         /\ Engine!FirstDenial(stages) = FirstDenial(stages)
  BY DEF FirstDenial, EngineProofs!FirstDenial, Engine!FirstDenial

LEMMA SameGates ==
  ASSUME NEW i, NEW s, NEW t
  PROVE  /\ EngineProofs!Gates(i, s, t) = Gates(i, s, t)
         /\ Engine!Gates(i, s, t) = Gates(i, s, t)
  BY SameFirstDenial DEF Gates, EngineProofs!Gates, Engine!Gates, ValidateIntent,
       EngineProofs!ValidateIntent, Engine!ValidateIntent, ValidateState,
       EngineProofs!ValidateState, Engine!ValidateState, VerifyTrustedTime,
       EngineProofs!VerifyTrustedTime, Engine!VerifyTrustedTime, DenyIf,
       EngineProofs!DenyIf, Engine!DenyIf, NoLease, EngineProofs!NoLease,
       Engine!NoLease

LEMMA SameReplay ==
  ASSUME NEW i, NEW s, NEW t
  PROVE  /\ EngineProofs!ReplayModule(i, s, t) = ReplayModule(i, s, t)
         /\ Engine!ReplayModule(i, s, t) = ReplayModule(i, s, t)
  BY SameRetained, SameCardinality DEF ReplayModule, EngineProofs!ReplayModule, Engine!ReplayModule, DenyIf,
       EngineProofs!DenyIf, Engine!DenyIf

LEMMA SameConcurrency ==
  ASSUME NEW i, NEW s, NEW t
  PROVE  /\ EngineProofs!ConcurrencyModule(i, s, t) = ConcurrencyModule(i, s, t)
         /\ Engine!ConcurrencyModule(i, s, t) = ConcurrencyModule(i, s, t)
  BY SameActive, SameLive, SameCardinality DEF ConcurrencyModule, EngineProofs!ConcurrencyModule, Engine!ConcurrencyModule,
       ReleaseInvalid, EngineProofs!ReleaseInvalid, Engine!ReleaseInvalid, DenyIf,
       EngineProofs!DenyIf, Engine!DenyIf

LEMMA SameTools ==
  ASSUME NEW i, NEW s, NEW t
  PROVE  /\ EngineProofs!ToolAmplificationModule(i, s, t) = ToolAmplificationModule(i, s, t)
         /\ Engine!ToolAmplificationModule(i, s, t) = ToolAmplificationModule(i, s, t)
  BY SameCardinality DEF ToolAmplificationModule, EngineProofs!ToolAmplificationModule,
       Engine!ToolAmplificationModule, ToolLogInvalid, EngineProofs!ToolLogInvalid,
       Engine!ToolLogInvalid, CallsOf, EngineProofs!CallsOf, Engine!CallsOf, InWindow,
       EngineProofs!InWindow, Engine!InWindow, DenyIf, EngineProofs!DenyIf,
       Engine!DenyIf

LEMMA SameVelocity ==
  ASSUME NEW i, NEW s, NEW t
  PROVE  /\ EngineProofs!VelocityModule(i, s, t) = VelocityModule(i, s, t)
         /\ Engine!VelocityModule(i, s, t) = VelocityModule(i, s, t)
  BY DEF VelocityModule, EngineProofs!VelocityModule, Engine!VelocityModule,
       WindowClosed, EngineProofs!WindowClosed, Engine!WindowClosed, NoCounter,
       EngineProofs!NoCounter, Engine!NoCounter, DenyIf, EngineProofs!DenyIf,
       Engine!DenyIf

LEMMA SameBudget ==
  ASSUME NEW i, NEW s
  PROVE  /\ EngineProofs!BudgetModule(i, s) = BudgetModule(i, s)
         /\ Engine!BudgetModule(i, s) = BudgetModule(i, s)
  BY DEF BudgetModule, EngineProofs!BudgetModule, Engine!BudgetModule, DenyIf,
       EngineProofs!DenyIf, Engine!DenyIf

LEMMA SameResults ==
  ASSUME NEW i, NEW s, NEW t
  PROVE  /\ EngineProofs!ModuleResults(i, s, t) = ModuleResults(i, s, t)
         /\ Engine!ModuleResults(i, s, t) = ModuleResults(i, s, t)
  BY SameReplay, SameConcurrency, SameTools, SameVelocity, SameBudget DEF ModuleResults, EngineProofs!ModuleResults, Engine!ModuleResults,
       KillSwitchModule, EngineProofs!KillSwitchModule, Engine!KillSwitchModule,
       AllowlistModule, EngineProofs!AllowlistModule, Engine!AllowlistModule,
       RecursionDepthModule, EngineProofs!RecursionDepthModule,
       Engine!RecursionDepthModule, DenyIf, EngineProofs!DenyIf, Engine!DenyIf

LEMMA SameDenyReasons ==
  ASSUME NEW i, NEW s, NEW t
  PROVE  /\ EngineProofs!DenyReasons(i, s, t, "fail-fast") = DenyReasons(i, s, t, "fail-fast")
         /\ Engine!DenyReasons(i, s, t, "fail-fast") = DenyReasons(i, s, t, "fail-fast")
  BY SameGates, SameResults, SameFirstDenial DEF DenyReasons, EngineProofs!DenyReasons, Engine!DenyReasons, RunDecisionModules,
       EngineProofs!RunDecisionModules, Engine!RunDecisionModules

LEMMA SameData ==
  /\ EngineProofs!Intent = Intent /\ EngineProofs!State = State
  /\ EngineProofs!EmptyState = EmptyState /\ Engine!EmptyState = EmptyState
  BY DEF Intent, EngineProofs!Intent, LeaseId, EngineProofs!LeaseId, NoLease, EngineProofs!NoLease,
         State, EngineProofs!State, Lease, EngineProofs!Lease, Counter, EngineProofs!Counter,
         NonceEntry, EngineProofs!NonceEntry, ToolCall, EngineProofs!ToolCall,
         NoCounter, EngineProofs!NoCounter, Engine!NoCounter, Time, EngineProofs!Time,
         EmptyState, EngineProofs!EmptyState, Engine!EmptyState

----------------------------------------------------------------------------
(***************************************************************************)
(* The store and the engine.  What PolicyEngineProofs shows of one         *)
(* sequential caller holds of the store as soon as every step of the guard *)
(* is one of the engine or leaves the store alone.                         *)
(***************************************************************************)
LEMMA EngineInit == Init => EngineProofs!Init /\ Engine!Init
<1>1. [EmptyState EXCEPT !.policy_version = PolicyVersion] = EmptyState
  <2>1. EmptyState \in State /\ EmptyState.policy_version = PolicyVersion
    BY DEF EmptyState, State
  <2>2. \A s \in State : s.policy_version = PolicyVersion =>
          [s EXCEPT !.policy_version = PolicyVersion] = s
    BY DEF State
  <2> QED BY <2>1, <2>2
<1>2. Init => store.state = EmptyState /\ lastEval = 0 /\ admitted = <<>>
  BY DEF Init
<1> QED
  BY <1>1, <1>2, SameData DEF EngineProofs!Init, Engine!Init

LEMMA EngineInvInit == EngineProofs!Init => EngineProofs!Inv
<1>1. {IntentOf[r] : r \in Requests} \subseteq EngineProofs!Intent /\ MaxTime \in Nat
  BY GuardConfig, SameData
<1> QED BY <1>1, PolicyConfig, EngineProofs!InitInv DEF EngineProofs!InitInv

LEMMA EngineInvStep ==
  EngineProofs!Inv /\ [EngineProofs!Next]_(EngineProofs!vars) => EngineProofs!Inv'
<1>1. {IntentOf[r] : r \in Requests} \subseteq EngineProofs!Intent /\ MaxTime \in Nat
  BY GuardConfig, SameData
<1> QED BY <1>1, PolicyConfig, EngineProofs!NextInv DEF EngineProofs!NextInv

\* What the guard needs of the engine's invariant.
LEMMA EngineFacts ==
  ASSUME EngineProofs!Inv
  PROVE  /\ store.state \in State /\ lastEval \in Nat
         /\ admitted \in Seq([intent : Intent, at : Time])
         /\ \A j, k \in DOMAIN admitted : admitted[j].intent = admitted[k].intent => j = k
  BY SameData DEF EngineProofs!Inv, EngineProofs!TypeOK, EngineProofs!Time, Time,
     EngineProofs!Admission, EngineProofs!NoIntentAdmittedTwice, EngineProofs!Admissions

(***************************************************************************)
(* A successful compare-and-set is an ALLOW of the engine: the request's   *)
(* snapshot is the store's state and its time is no earlier than the last  *)
(* evaluation's.                                                           *)
(***************************************************************************)
LEMMA SetStateRefines ==
  ASSUME NEW r \in Requests, StoreInv, SnapshotInv(r), PathInv(r), req \in [Requests -> Locals],
         now \in Time, pc[r] = "commit", SetState(r)
  PROVE  EngineProofs!Next /\ Engine!Next
<1> DEFINE i == IntentOf[r]
           t == req[r].at
<1>1. i \in {IntentOf[q] : q \in Requests}
  OBVIOUS
<1>2. t \in Nat /\ t <= MaxTime
  <2>1. t \in Nat /\ now \in Nat /\ MaxTime \in Nat /\ t <= now /\ now <= MaxTime
    BY GuardConfig DEF Locals, Time, SnapshotInv, StoreInv
  <2> QED BY <2>1
<1>3. req[r].state = store.state /\ lastEval <= t
  BY DEF SetState, SnapshotInv
<1>4. DenyReasons(i, store.state, t, "fail-fast") = {}
  BY <1>3 DEF PathInv
<1>5. /\ store'.state = NextState(i, store.state, t)
      /\ admitted' = Append(admitted, [intent |-> i, at |-> t])
      /\ lastEval' = t
  BY <1>3 DEF SetState
<1>6. EngineProofs!EvaluateAllow(i, t) /\ Engine!EvaluateAllow(i, t)
  <2>1. t >= lastEval
    BY <1>3
  <2> HIDE DEF i, t
  <2> QED BY <1>4, <1>5, <2>1, SameDenyReasons, SameNextState
          DEF EngineProofs!EvaluateAllow, Engine!EvaluateAllow
<1>7. t \in 0..MaxTime
  BY <1>2, GuardConfig
<1> QED
  <2> HIDE DEF i, t
  <2> QED BY <1>1, <1>6, <1>7 DEF EngineProofs!Next, Engine!Next

LEMMA NextStateKeepsKills ==
  ASSUME NEW i, NEW s, NEW t
  PROVE  NextState(i, s, t).kill_agents = s.kill_agents
  BY DEF NextState, NextStateRelease, NextStateExecute, ExecuteWithLeases

\* A request's commit keeps the store an engine state and is an admission of its own.
LEMMA SetStateInv ==
  ASSUME NEW r \in Requests, TypeOK, StoreInv, RequestInv(r),
         pc[r] = "commit", SetState(r), now' = now
  PROVE  StoreInv'
<1> DEFINE i == IntentOf[r]
<1>1. req \in [Requests -> Locals] /\ now \in Time /\ SnapshotInv(r) /\ PathInv(r)
  BY DEF TypeOK, RequestInv
<1>2. EngineProofs!Inv'
  <2>1. EngineProofs!Next
    BY <1>1, SetStateRefines
  <2> QED BY <2>1, EngineInvStep DEF StoreInv
<1>3. /\ admitted \in Seq([intent : Intent, at : Time])
      /\ \A j, k \in DOMAIN admitted' : admitted'[j].intent = admitted'[k].intent => j = k
  BY <1>2, SameData DEF EngineProofs!Inv, EngineProofs!NoIntentAdmittedTwice,
     EngineProofs!Admissions, TypeOK
<1>4. /\ admitted' = Append(admitted, [intent |-> i, at |-> req[r].at])
      /\ committed' = committed \cup {r} /\ lastEval' = req[r].at
      /\ store'.state = NextState(i, store.state, req[r].at)
  BY <1>1 DEF SetState, SnapshotInv
<1>5. store'.state.kill_agents = {}
  BY <1>4, NextStateKeepsKills DEF StoreInv
<1>6. lastEval' <= now' /\ now' <= MaxTime
  BY <1>1, <1>4 DEF SnapshotInv, StoreInv
<1> DEFINE n == Len(admitted) + 1
<1>7. /\ DOMAIN admitted' = 1..n /\ n \in Nat \ {0} /\ admitted'[n].intent = i
      /\ \A k \in DOMAIN admitted : k \in 1..n /\ k # n /\ admitted'[k] = admitted[k]
  BY <1>3, <1>4
<1>8. \A q \in committed' : \E k \in DOMAIN admitted' : admitted'[k].intent = IntentOf[q]
  BY <1>4, <1>7 DEF StoreInv
<1>9. \A q \in committed : IntentOf[q] # i
  BY <1>3, <1>7 DEF StoreInv
<1>10. \A q, s \in committed' : IntentOf[q] = IntentOf[s] => q = s
  BY <1>4, <1>9 DEF StoreInv
<1> QED
  BY <1>2, <1>5, <1>6, <1>8, <1>10 DEF StoreInv

\* The operator's write is the engine's, and changes nothing the guard relies on.
LEMMA KillSwitchRefines ==
  ASSUME TypeOK, StoreInv, NEW global \in BOOLEAN, SetKillSwitch(global)
  PROVE  EngineProofs!Next /\ Engine!Next /\ StoreInv'
<1>1. store' = [state |-> [store.state EXCEPT !.kill_global = global],
                version |-> store.version + 1]
      /\ UNCHANGED <<now, lastEval, admitted, committed>>
  BY DEF SetKillSwitch, envVars
<1>2. [store.state EXCEPT !.kill_global = global]
        = [store.state EXCEPT !.kill_global = global, !.kill_agents = {}]
  <2>1. \A s \in State : s.kill_agents = {} =>
          [s EXCEPT !.kill_global = global] = [s EXCEPT !.kill_global = global, !.kill_agents = {}]
    BY DEF State
  <2> QED BY <2>1 DEF TypeOK, StoreInv
<1>3. EngineProofs!SetKillSwitch(global, {}) /\ Engine!SetKillSwitch(global, {})
  BY <1>1, <1>2 DEF EngineProofs!SetKillSwitch, Engine!SetKillSwitch
<1>4. EngineProofs!Next /\ Engine!Next
  BY <1>3 DEF EngineProofs!Next, Engine!Next
<1>5. EngineProofs!Inv'
  BY <1>4, EngineInvStep DEF StoreInv
<1>6. store'.state.kill_agents = {}
  BY <1>1, <1>2 DEF StoreInv, TypeOK, State
<1> QED
  BY <1>1, <1>4, <1>5, <1>6 DEF StoreInv

\* A step that leaves the store alone is a stutter of the engine.
LEMMA StoreAlone ==
  ASSUME StoreInv, UNCHANGED storeVars, now' >= now, now' <= MaxTime, now \in Nat, now' \in Nat,
         lastEval \in Nat
  PROVE  /\ UNCHANGED EngineProofs!vars /\ UNCHANGED Engine!vars
         /\ StoreInv'
<1>1. UNCHANGED <<store, lastEval, admitted, committed>>
  BY DEF storeVars
<1>2. UNCHANGED EngineProofs!vars /\ UNCHANGED Engine!vars
  BY <1>1 DEF EngineProofs!vars, Engine!vars
<1>3. EngineProofs!Inv'
  BY <1>2, EngineInvStep DEF StoreInv
<1> QED
  BY <1>1, <1>2, <1>3 DEF StoreInv

----------------------------------------------------------------------------
(***************************************************************************)
(* A step of one request.  The others are untouched; what the stores, the  *)
(* clock and the operator hold only grows, or the store moves to a new     *)
(* version.                                                                *)
(***************************************************************************)
Untouched(q) ==
  /\ pc'[q] = pc[q] /\ req'[q] = req[q] /\ life'[q] = life[q]
  /\ events'[q] = events[q] /\ decisions'[q] = decisions[q]
  /\ q \in started' <=> q \in started
  /\ q \in committed' <=> q \in committed

Grows ==
  /\ authIds \subseteq authIds' /\ delegationIds \subseteq delegationIds'
  /\ revoked \subseteq revoked' /\ now' >= now
  /\ \/ store' = store /\ lastEval' = lastEval
     \/ store'.version = store.version + 1

\* A request that consumes nothing in this step.
ConsumesNothing(q) ==
  /\ life'[q].authorizationConsumed => life[q].authorizationConsumed /\ req'[q] = req[q]
  /\ life'[q].delegationConsumed => life[q].delegationConsumed /\ req'[q] = req[q]

LEMMA RecordedStays ==
  ASSUME Grows, NEW q, req'[q] = req[q]
  PROVE  /\ RecordedAuth(q) => RecordedAuth(q)'
         /\ RecordedDelegation(q) => RecordedDelegation(q)'
  BY DEF Grows, RecordedAuth, RecordedDelegation, AuthIdOf

LEMMA SnapshotStays ==
  ASSUME TypeOK, TypeOK', Grows, NEW q \in Requests, req'[q] = req[q], SnapshotInv(q)
  PROVE  SnapshotInv(q)'
<1>1. /\ req[q].version \in Nat /\ store.version \in Nat /\ now \in Nat /\ now' \in Nat
      /\ req[q].at \in Nat
  BY DEF TypeOK, Locals, Time
<1> QED BY <1>1 DEF SnapshotInv, Grows

LEMMA OthersInv ==
  ASSUME TypeOK, TypeOK', Grows, NEW q \in Requests, RequestInv(q), Untouched(q)
  PROVE  RequestInv(q)'
<1>1. /\ RecordedAuth(q) => RecordedAuth(q)'
      /\ RecordedDelegation(q) => RecordedDelegation(q)'
  BY RecordedStays DEF Untouched
<1>2. SnapshotInv(q)'
  BY SnapshotStays DEF RequestInv, Untouched
<1>3. PathInv(q)' /\ EffectInv(q)'
  BY DEF RequestInv, Untouched, PathInv, EffectInv
<1>4. RevokedInv(q)'
  BY DEF RequestInv, Untouched, Grows, RevokedInv
<1>5. ReplayInv(q)'
  BY <1>1 DEF RequestInv, Untouched, ReplayInv
<1>6. AuditInv(q)'
  <2>1. ASSUME NEW e PROVE Truthful(q, e) => Truthful(q, e)'
    BY <1>1 DEF Untouched, Truthful
  <2> QED BY <2>1 DEF RequestInv, Untouched, AuditInv
<1> QED
  BY <1>2, <1>3, <1>4, <1>5, <1>6 DEF RequestInv

LEMMA UsedOnceStays ==
  ASSUME NEW r, NEW q, UsedOnce(r, q), ConsumesNothing(r), ConsumesNothing(q)
  PROVE  UsedOnce(r, q)'
  BY DEF UsedOnce, ConsumesNothing, AuthIdOf

LEMMA StepOf ==
  ASSUME Inv, TypeOK', StoreInv', Grows, NEW r \in Requests, RequestInv(r)',
         \A q \in Requests \ {r} : Untouched(q),
         ConsumesNothing(r) \/ (~Evicts => \A q \in Requests : UsedOnce(r, q)')
  PROVE  Inv'
<1>1. ASSUME NEW q \in Requests PROVE RequestInv(q)'
  BY <1>1, OthersInv DEF Inv
<1>2. \A q \in Requests \ {r} : ConsumesNothing(q)
  BY DEF Untouched, ConsumesNothing
<1>3. ASSUME ~Evicts, NEW q \in Requests PROVE UsedOnce(r, q)'
  BY <1>2, <1>3, UsedOnceStays DEF Inv
<1>4. ASSUME ~Evicts, NEW q \in Requests, NEW s \in Requests PROVE UsedOnce(q, s)'
  <2>1. CASE q # r /\ s # r
    BY <1>2, <1>4, <2>1, UsedOnceStays DEF Inv
  <2>2. CASE q = r
    BY <1>3, <1>4, <2>2
  <2>3. CASE s = r
    <3>1. UsedOnce(r, q)'
      BY <1>3, <1>4
    <3> QED BY <2>3, <3>1 DEF UsedOnce
  <2> QED BY <2>1, <2>2, <2>3
<1> QED
  BY <1>1, <1>4 DEF Inv

----------------------------------------------------------------------------
(***************************************************************************)
(* Rejections.  Every one goes through the same catch: what the request    *)
(* did is not undone, and its event says so.                               *)
(***************************************************************************)
SameEffects(l, m) ==
  /\ l.authorizationConsumed = m.authorizationConsumed
  /\ l.delegationConsumed = m.delegationConsumed
  /\ l.stateCommitted = m.stateCommitted

LEMMA AppendToEmpty ==
  ASSUME NEW x
  PROVE  Append(<<>>, x) = <<x>> /\ <<x>>[1] = x /\ <<x>> # <<>> /\ DOMAIN <<x>> = {1}
  OBVIOUS

\* The event of a rejection: the only one the request ever gives.
LEMMA RejectionEvent ==
  ASSUME Inv, NEW r \in Requests, NEW stage \in Stages, NEW failure,
         NEW thrown, thrown \in Thrown \/ thrown = Fresh, NEW lc \in Lifecycle,
         events[r] = <<>>, RejectAfter(r, stage, failure, thrown, lc)
  PROVE  /\ \/ events' = events /\ ~ (Thrown \subseteq {Fresh})
            \/ events' = [events EXCEPT ![r] = <<buildEvent(stage, failure, lc)>>]
         /\ emitted' \subseteq SharedErrors \X (Instances \X Nat)
<1>1. emitBoundaryEvent(r, stage, failure, thrown, lc)
  BY DEF RejectAfter
<1>2. /\ emitted \subseteq SharedErrors \X (Instances \X Nat)
      /\ Process(r) \in Instances \X Nat
  BY GuardConfig DEF Inv, TypeOK, Process
<1>3. emitted' \subseteq SharedErrors \X (Instances \X Nat)
  BY <1>1, <1>2 DEF emitBoundaryEvent, Remember
<1>4. \/ events' = [events EXCEPT ![r] = Append(@, buildEvent(stage, failure, lc))]
      \/ events' = events /\ (thrown = DenyError \/ <<thrown, Process(r)>> \in emitted)
  BY <1>1 DEF emitBoundaryEvent
<1>5. Append(events[r], buildEvent(stage, failure, lc)) = <<buildEvent(stage, failure, lc)>>
  BY AppendToEmpty
<1>6. ASSUME thrown = DenyError \/ <<thrown, Process(r)>> \in emitted, Thrown \subseteq {Fresh}
      PROVE  FALSE
  BY <1>2, <1>6, GuardConfig
<1> QED
  BY <1>3, <1>4, <1>5, <1>6

LEMMA RejectionInv ==
  ASSUME Inv, NEW r \in Requests, NEW stage \in Stages, NEW failure,
         NEW thrown, thrown \in Thrown \/ thrown = Fresh, NEW lc \in Lifecycle,
         SameEffects(lc, life[r]), pc[r] \in BeforeUse \cup {"commit", "gate"},
         RejectAfter(r, stage, failure, thrown, lc),
         authIds \subseteq authIds', authIds' \subseteq ReplayEntry(AuthId),
         delegationIds \subseteq delegationIds', delegationIds' \subseteq ReplayEntry(DelegationIds),
         \/ UNCHANGED storeVars
         \/ /\ pc[r] = "commit" /\ SetState(r)
            /\ stage = "STATE_COMMIT" /\ failure = "UNCLASSIFIED"
  PROVE  Inv'
<1> DEFINE event == buildEvent(stage, failure, lc)
<1>1. /\ UNCHANGED <<now, revoked, epoch, decisions, req, started>>
      /\ life' = [life EXCEPT ![r] = lc] /\ pc' = [pc EXCEPT ![r] = "rejected"]
  BY DEF RejectAfter, Goto
<1>2. /\ pc \in [Requests -> {"idle"} \cup InFlight \cup Settled]
      /\ life \in [Requests -> Lifecycle] /\ req \in [Requests -> Locals]
      /\ now \in Nat /\ lastEval \in Nat /\ store.version \in Nat
      /\ decisions' = decisions /\ DOMAIN events = Requests
  BY <1>1 DEF Inv, TypeOK, Time
<1>3. events[r] = <<>> /\ pc[r] \notin {"rejected", "denied", "returned"}
  BY DEF Inv, RequestInv, AuditInv, BeforeUse
<1>4. /\ \/ events' = events /\ ~ (Thrown \subseteq {Fresh})
         \/ events' = [events EXCEPT ![r] = <<event>>]
      /\ emitted' \subseteq SharedErrors \X (Instances \X Nat)
  BY <1>3, RejectionEvent
<1>5. /\ DOMAIN events' = Requests
      /\ pc'[r] = "rejected" /\ life'[r] = lc /\ req'[r] = req[r] /\ decisions'[r] = decisions[r]
      /\ \A q \in Requests \ {r} : pc'[q] = pc[q] /\ life'[q] = life[q] /\ events'[q] = events[q]
  BY <1>1, <1>2, <1>4
<1>6. StoreInv'
  <2>1. CASE UNCHANGED storeVars
    BY <1>1, <1>2, <2>1, StoreAlone DEF Inv, StoreInv
  <2>2. CASE pc[r] = "commit" /\ SetState(r)
    BY <1>1, <2>2, SetStateInv DEF Inv
  <2> QED BY <2>1, <2>2
<1>7. /\ \A q \in Requests \ {r} : q \in committed' <=> q \in committed
      /\ \/ store' = store /\ lastEval' = lastEval /\ committed' = committed
         \/ /\ store'.version = store.version + 1 /\ r \in committed'
            /\ pc[r] = "commit" /\ stage = "STATE_COMMIT" /\ failure = "UNCLASSIFIED"
  BY DEF storeVars, SetState
<1>8. TypeOK'
  <2>1. store' \in [state : State, version : Nat] /\ lastEval' \in Time
        /\ admitted' \in Seq([intent : Intent, at : Time]) /\ committed' \subseteq Requests
    <3>1. /\ store'.state \in State /\ lastEval' \in Time
          /\ admitted' \in Seq([intent : Intent, at : Time])
      BY <1>6, SameData DEF StoreInv, EngineProofs!Inv, EngineProofs!TypeOK, EngineProofs!Time,
         Time, EngineProofs!Admission
    <3>2. store' \in [state : State, version : Nat] /\ committed' \subseteq Requests
      <4>1. CASE UNCHANGED storeVars
        BY <4>1 DEF Inv, TypeOK, storeVars
      <4>2. CASE SetState(r)
        <5>1. store' = [state |-> store'.state, version |-> store.version + 1]
          BY <4>2 DEF SetState
        <5> QED BY <1>2, <3>1, <4>2, <5>1 DEF Inv, TypeOK, SetState
      <4> QED BY <4>1, <4>2
    <3> QED BY <3>1, <3>2
  <2>2. pc' \in [Requests -> {"idle"} \cup InFlight \cup Settled] /\ life' \in [Requests -> Lifecycle]
    BY <1>1, <1>2 DEF Settled
  <2>3. \A q \in Requests : \A k \in DOMAIN events'[q] :
          events'[q][k].stage \in Stages /\ events'[q][k].progress \in Lifecycle
    <3>1. event.stage \in Stages /\ event.progress \in Lifecycle
      BY DEF buildEvent
    <3>2. ASSUME NEW k \in DOMAIN events'[r]
          PROVE  events'[r][k].stage \in Stages /\ events'[r][k].progress \in Lifecycle
      <4> HIDE DEF event
      <4>1. CASE events' = events
        BY <3>2, <4>1 DEF Inv, TypeOK
      <4>2. CASE events' = [events EXCEPT ![r] = <<event>>]
        <5>1. events'[r] = <<event>>
          BY <1>2, <4>2
        <5> QED BY <3>1, <3>2, <5>1, AppendToEmpty
      <4> QED BY <1>4, <4>1, <4>2
    <3> QED BY <1>5, <3>2 DEF Inv, TypeOK
  <2> QED
    BY <1>1, <1>4, <2>1, <2>2, <2>3 DEF Inv, TypeOK
<1>9. Grows
  BY <1>1, <1>2, <1>7 DEF Grows
<1>10. RecordedAuth(r) => RecordedAuth(r)'
  BY <1>5, <1>9, RecordedStays
<1>11. RequestInv(r)'
  <2>1. SnapshotInv(r) /\ PathInv(r) /\ EffectInv(r) /\ RevokedInv(r) /\ ReplayInv(r) /\ AuditInv(r)
    BY DEF Inv, RequestInv
  <2>2. SnapshotInv(r)'
    BY <1>5, <1>8, <1>9, <2>1, SnapshotStays DEF Inv
  <2>3. r \notin started /\ r \notin started'
    BY <1>1, <2>1 DEF EffectInv, BeforeUse
  <2>4. PathInv(r)' /\ EffectInv(r)' /\ RevokedInv(r)'
    BY <1>1, <1>5, <2>1, <2>3 DEF PathInv, EffectInv, RevokedInv, SameEffects, BeforeUse
  <2>5. ReplayInv(r)'
    BY <1>5, <1>9, <2>1, RecordedStays DEF ReplayInv, SameEffects
  <2>6. Truthful(r, event)'
    <3>1. /\ life[r].authorizationConsumed => RecordedAuth(r)
          /\ life[r].stateCommitted <=> r \in committed
      BY <1>3, <2>1 DEF EffectInv, ReplayInv
    <3>2. /\ event.stage = stage /\ event.failure = failure /\ event.progress = lc
      BY DEF buildEvent
    <3>3. \/ committed' = committed
          \/ r \in committed' /\ stage = "STATE_COMMIT" /\ failure = "UNCLASSIFIED"
      BY <1>7
    <3> HIDE DEF event
    <3>4. ASSUME NEW e, e = event PROVE Truthful(r, e)'
      BY <1>10, <3>1, <3>2, <3>3, <3>4 DEF Truthful, SameEffects
    <3> QED BY <3>4
  <2>7. AuditInv(r)'
    <3>1. \/ events'[r] = <<>> /\ ~ (Thrown \subseteq {Fresh})
          \/ events'[r] = <<event>>
      <4> HIDE DEF event
      <4> QED BY <1>2, <1>3, <1>4
    <3> HIDE DEF event
    <3>2. decisions'[r] = <<>>
      BY <1>3, <1>5, <2>1 DEF AuditInv
    <3> QED BY <1>5, <2>6, <3>1, <3>2 DEF AuditInv
  <2> QED BY <2>2, <2>4, <2>5, <2>7 DEF RequestInv
<1>12. ConsumesNothing(r) /\ \A q \in Requests \ {r} : Untouched(q)
  BY <1>1, <1>5, <1>7 DEF ConsumesNothing, Untouched, SameEffects
<1> QED
  BY <1>6, <1>8, <1>9, <1>11, <1>12, StepOf

----------------------------------------------------------------------------
(***************************************************************************)
(* Steps that go on.                                                       *)
(***************************************************************************)
LEMMA MarkSets ==
  ASSUME NEW l \in Lifecycle, NEW flags
  PROVE  LET m == [f \in DOMAIN l |-> f \in flags \/ l[f]]
         IN /\ m \in Lifecycle
            /\ m.authorizationConsumed <=> "authorizationConsumed" \in flags \/ l.authorizationConsumed
            /\ m.delegationConsumed <=> "delegationConsumed" \in flags \/ l.delegationConsumed
            /\ m.stateCommitted <=> "stateCommitted" \in flags \/ l.stateCommitted
<1>1. /\ DOMAIN l = {"policyEvaluated", "authorizationIssued", "authorizationConsumed",
                     "delegationConsumed", "stateCommitted"}
      /\ l = [f \in DOMAIN l |-> l[f]]
  BY DEF Lifecycle
<1>2. /\ l["policyEvaluated"] \in BOOLEAN /\ l["authorizationIssued"] \in BOOLEAN
      /\ l["authorizationConsumed"] \in BOOLEAN /\ l["delegationConsumed"] \in BOOLEAN
      /\ l["stateCommitted"] \in BOOLEAN
  BY DEF Lifecycle
<1> DEFINE m == [f \in DOMAIN l |-> f \in flags \/ l[f]]
<1>3. m \in Lifecycle
  BY <1>1, <1>2 DEF Lifecycle
<1>4. /\ m["authorizationConsumed"] <=> "authorizationConsumed" \in flags \/ l["authorizationConsumed"]
      /\ m["delegationConsumed"] <=> "delegationConsumed" \in flags \/ l["delegationConsumed"]
      /\ m["stateCommitted"] <=> "stateCommitted" \in flags \/ l["stateCommitted"]
  BY <1>1
<1> QED
  BY <1>3, <1>4

LEMMA StepFrame ==
  ASSUME Inv, NEW r \in Requests, NEW label \in InFlight \cup Settled, Goto(r, label),
         UNCHANGED <<now, revoked, epoch, events>>, UNCHANGED storeVars,
         req' \in [Requests -> Locals], life' \in [Requests -> Lifecycle],
         decisions' \in [Requests -> Seq({"ALLOW", "DENY"})],
         \A q \in Requests \ {r} :
           req'[q] = req[q] /\ life'[q] = life[q] /\ decisions'[q] = decisions[q],
         started' = started \/ started' = started \cup {r},
         emitted' \subseteq SharedErrors \X (Instances \X Nat),
         authIds \subseteq authIds', authIds' \subseteq ReplayEntry(AuthId),
         delegationIds \subseteq delegationIds', delegationIds' \subseteq ReplayEntry(DelegationIds)
  PROVE  /\ TypeOK' /\ StoreInv' /\ Grows /\ pc'[r] = label
         /\ \A q \in Requests \ {r} : Untouched(q)
<1>1. /\ now \in Nat /\ lastEval \in Nat
      /\ pc \in [Requests -> {"idle"} \cup InFlight \cup Settled]
      /\ UNCHANGED <<store, lastEval, admitted, committed>>
  BY DEF Inv, TypeOK, Time, storeVars
<1>2. pc' = [pc EXCEPT ![r] = label]
  BY DEF Goto
<1>3. TypeOK'
  BY <1>1, <1>2 DEF Inv, TypeOK
<1>4. StoreInv'
  BY <1>1, StoreAlone DEF Inv, StoreInv
<1>5. Grows
  BY <1>1 DEF Grows
<1>6. \A q \in Requests \ {r} : Untouched(q)
  BY <1>1, <1>2 DEF Untouched
<1> QED
  BY <1>1, <1>2, <1>3, <1>4, <1>5, <1>6

LEMMA RequestFacts ==
  ASSUME Inv, NEW r \in Requests
  PROVE  /\ req[r] \in Locals /\ life[r] \in Lifecycle
         /\ SnapshotInv(r) /\ PathInv(r) /\ EffectInv(r) /\ RevokedInv(r) /\ ReplayInv(r)
         /\ AuditInv(r)
         /\ authIds \subseteq ReplayEntry(AuthId) /\ delegationIds \subseteq ReplayEntry(DelegationIds)
         /\ emitted \subseteq SharedErrors \X (Instances \X Nat)
         /\ req \in [Requests -> Locals] /\ life \in [Requests -> Lifecycle]
         /\ decisions \in [Requests -> Seq({"ALLOW", "DENY"})]
         /\ now \in Nat /\ store.version \in Nat /\ store.state \in State /\ revoked \subseteq DelegationIds
         /\ lastEval <= now
  BY DEF Inv, TypeOK, RequestInv, StoreInv, Time

LEMMA LoadStateInv ==
  ASSUME Inv, NEW r \in Requests, LoadState(r)
  PROVE  Inv'
<1> DEFINE locals == [version |-> store.version, state |-> store.state, at |-> now,
                      domain |-> Domain(r), revoked_at_start |-> revoked]
<1>1. /\ pc[r] = "idle" /\ req' = [req EXCEPT ![r] = locals] /\ Goto(r, "loaded")
      /\ UNCHANGED <<now, revoked, epoch>> /\ UNCHANGED storeVars /\ UNCHANGED <<authIds, delegationIds>>
      /\ UNCHANGED <<decisions, events, emitted>> /\ UNCHANGED <<life, started>>
  BY DEF LoadState, envVars, replayVars, auditVars
<1>2. SnapshotInv(r) /\ PathInv(r) /\ EffectInv(r) /\ RevokedInv(r) /\ ReplayInv(r) /\ AuditInv(r)
  BY RequestFacts
<1>3. Domain(r) \in Domains
  <2>1. Process(r) \in Instances \X Nat
    BY GuardConfig DEF Inv, TypeOK, Process
  <2> QED BY <2>1 DEF Domain, Domains
<1>4. locals \in Locals
  BY <1>3, RequestFacts DEF Locals, Time
<1> HIDE DEF locals
<1>5. req' \in [Requests -> Locals] /\ req'[r] = locals /\ \A q \in Requests \ {r} : req'[q] = req[q]
  BY <1>1, <1>4, RequestFacts
<1>6. /\ TypeOK' /\ StoreInv' /\ Grows /\ pc'[r] = "loaded"
      /\ \A q \in Requests \ {r} : Untouched(q)
  BY <1>1, <1>5, RequestFacts, StepFrame DEF InFlight
<1>7. SnapshotInv(r)'
  BY <1>1, <1>5, RequestFacts DEF SnapshotInv, locals, storeVars
<1>8. RevokedInv(r)'
  BY <1>1, <1>2, <1>5, <1>6 DEF RevokedInv, EffectInv, locals
<1>9. PathInv(r)' /\ EffectInv(r)' /\ ReplayInv(r)' /\ AuditInv(r)'
  BY <1>1, <1>2, <1>6 DEF PathInv, EffectInv, ReplayInv, AuditInv, BeforeUse, storeVars
<1>10. RequestInv(r)' /\ ConsumesNothing(r)
  BY <1>1, <1>2, <1>7, <1>8, <1>9 DEF RequestInv, ConsumesNothing, EffectInv, BeforeUse
<1> QED
  BY <1>6, <1>10, StepOf

\* Reading the clock again: the snapshot is then as old as the evaluation.
LEMMA ClockRead ==
  ASSUME Inv, NEW r \in Requests, req' = [req EXCEPT ![r].at = now]
  PROVE  /\ req' \in [Requests -> Locals]
         /\ req'[r] = [req[r] EXCEPT !.at = now] /\ \A q \in Requests \ {r} : req'[q] = req[q]
         /\ req'[r].at = now /\ req'[r].state = req[r].state /\ req'[r].version = req[r].version
         /\ req'[r].domain = req[r].domain /\ req'[r].revoked_at_start = req[r].revoked_at_start
<1>1. req[r] \in Locals /\ req \in [Requests -> Locals] /\ now \in Nat
  BY RequestFacts
<1>2. req' = [req EXCEPT ![r] = [req[r] EXCEPT !.at = now]]
  OBVIOUS
<1>3. [req[r] EXCEPT !.at = now] \in Locals
  BY <1>1 DEF Locals, Time
<1>4. req'[r] = [req[r] EXCEPT !.at = now] /\ \A q \in Requests \ {r} : req'[q] = req[q]
  BY <1>1, <1>2
<1>5. req' \in [Requests -> Locals]
  BY <1>1, <1>2, <1>3
<1>6. DOMAIN req[r] = {"version", "state", "at", "domain", "revoked_at_start"}
  BY <1>1 DEF Locals
<1> QED
  BY <1>4, <1>5, <1>6

\* Setting flags of a request's lifecycle.
LEMMA MarkStep ==
  ASSUME Inv, NEW r \in Requests, NEW flags, Mark(r, flags)
  PROVE  /\ life' \in [Requests -> Lifecycle] /\ \A q \in Requests \ {r} : life'[q] = life[q]
         /\ life'[r].authorizationConsumed
              <=> "authorizationConsumed" \in flags \/ life[r].authorizationConsumed
         /\ life'[r].delegationConsumed
              <=> "delegationConsumed" \in flags \/ life[r].delegationConsumed
         /\ life'[r].stateCommitted <=> "stateCommitted" \in flags \/ life[r].stateCommitted
<1> DEFINE m == [f \in DOMAIN life[r] |-> f \in flags \/ life[r][f]]
<1>1. life[r] \in Lifecycle /\ life \in [Requests -> Lifecycle]
  BY RequestFacts
<1>2. /\ m \in Lifecycle
      /\ m.authorizationConsumed <=> "authorizationConsumed" \in flags \/ life[r].authorizationConsumed
      /\ m.delegationConsumed <=> "delegationConsumed" \in flags \/ life[r].delegationConsumed
      /\ m.stateCommitted <=> "stateCommitted" \in flags \/ life[r].stateCommitted
  BY <1>1, MarkSets
<1>3. life' = [life EXCEPT ![r] = m]
  BY DEF Mark
<1> HIDE DEF m
<1> QED BY <1>1, <1>2, <1>3

LEMMA EvaluateAllowInv ==
  ASSUME Inv, NEW r \in Requests, EvaluateAllow(r)
  PROVE  Inv'
<1>1. /\ pc[r] = "loaded" /\ ~Delegated(r)
      /\ DenyReasons(IntentOf[r], req[r].state, now, "fail-fast") = {}
      /\ req' = [req EXCEPT ![r].at = now]
      /\ Mark(r, {"policyEvaluated", "authorizationIssued"}) /\ Goto(r, "verify")
      /\ UNCHANGED <<now, revoked, epoch>> /\ UNCHANGED storeVars /\ UNCHANGED <<authIds, delegationIds>>
      /\ UNCHANGED <<decisions, events, emitted>> /\ started' = started
  BY DEF EvaluateAllow, envVars, replayVars, auditVars
<1>2. SnapshotInv(r) /\ PathInv(r) /\ EffectInv(r) /\ RevokedInv(r) /\ ReplayInv(r) /\ AuditInv(r)
  BY RequestFacts
<1>3. /\ req' \in [Requests -> Locals] /\ \A q \in Requests \ {r} : req'[q] = req[q]
      /\ req'[r].at = now /\ req'[r].state = req[r].state /\ req'[r].version = req[r].version
      /\ req'[r].domain = req[r].domain /\ req'[r].revoked_at_start = req[r].revoked_at_start
  BY <1>1, ClockRead
<1>4. /\ life' \in [Requests -> Lifecycle] /\ \A q \in Requests \ {r} : life'[q] = life[q]
      /\ life'[r].authorizationConsumed <=> life[r].authorizationConsumed
      /\ life'[r].delegationConsumed <=> life[r].delegationConsumed
      /\ life'[r].stateCommitted <=> life[r].stateCommitted
  BY <1>1, MarkStep
<1>5. /\ TypeOK' /\ StoreInv' /\ Grows /\ pc'[r] = "verify"
      /\ \A q \in Requests \ {r} : Untouched(q)
  BY <1>1, <1>3, <1>4, RequestFacts, StepFrame DEF InFlight
<1>6. SnapshotInv(r)'
  BY <1>1, <1>2, <1>3, RequestFacts DEF SnapshotInv, storeVars
<1>7. PathInv(r)'
  BY <1>1, <1>3, <1>5 DEF PathInv, Delegated
<1>8. EffectInv(r)' /\ ReplayInv(r)'
  BY <1>1, <1>2, <1>4, <1>5 DEF EffectInv, ReplayInv, BeforeUse, storeVars, Delegated
<1>9. RevokedInv(r)' /\ AuditInv(r)'
  BY <1>1, <1>2, <1>3, <1>5 DEF RevokedInv, AuditInv, EffectInv, Delegated
<1>10. RequestInv(r)' /\ ConsumesNothing(r)
  BY <1>1, <1>2, <1>4, <1>6, <1>7, <1>8, <1>9 DEF RequestInv, ConsumesNothing, EffectInv, BeforeUse
<1> QED
  BY <1>5, <1>10, StepOf

LEMMA VerifyDelegationInv ==
  ASSUME Inv, NEW r \in Requests, VerifyDelegation(r)
  PROVE  Inv'
<1>1. /\ pc[r] = "loaded" /\ Delegated(r)
      /\ req' = [req EXCEPT ![r].at = now] /\ Goto(r, "revocation")
      /\ UNCHANGED <<now, revoked, epoch>> /\ UNCHANGED storeVars /\ UNCHANGED <<authIds, delegationIds>>
      /\ UNCHANGED <<decisions, events, emitted>> /\ UNCHANGED <<life, started>>
  BY DEF VerifyDelegation, envVars, replayVars, auditVars
<1>2. SnapshotInv(r) /\ PathInv(r) /\ EffectInv(r) /\ RevokedInv(r) /\ ReplayInv(r) /\ AuditInv(r)
  BY RequestFacts
<1>3. /\ req' \in [Requests -> Locals] /\ \A q \in Requests \ {r} : req'[q] = req[q]
      /\ req'[r].at = now /\ req'[r].state = req[r].state /\ req'[r].version = req[r].version
      /\ req'[r].domain = req[r].domain /\ req'[r].revoked_at_start = req[r].revoked_at_start
  BY <1>1, ClockRead
<1>4. /\ TypeOK' /\ StoreInv' /\ Grows /\ pc'[r] = "revocation"
      /\ \A q \in Requests \ {r} : Untouched(q)
  BY <1>1, <1>3, RequestFacts, StepFrame DEF InFlight
<1>5. SnapshotInv(r)'
  BY <1>1, <1>2, <1>3, RequestFacts DEF SnapshotInv, storeVars
<1>6. PathInv(r)' /\ RevokedInv(r)' /\ AuditInv(r)'
  BY <1>1, <1>2, <1>3, <1>4 DEF PathInv, RevokedInv, AuditInv, EffectInv
<1>7. EffectInv(r)' /\ ReplayInv(r)'
  BY <1>1, <1>2, <1>4 DEF EffectInv, ReplayInv, BeforeUse, storeVars
<1>8. RequestInv(r)' /\ ConsumesNothing(r)
  BY <1>1, <1>2, <1>5, <1>6, <1>7 DEF RequestInv, ConsumesNothing, EffectInv, BeforeUse
<1> QED
  BY <1>4, <1>8, StepOf

\* The steps that only go on to the next check, and the steps that end.
LEMMA GoOnInv ==
  ASSUME Inv, NEW r \in Requests,
         \/ VerifyAuthorization(r) \/ CheckRevocation(r) \/ KrlAccepts(r) \/ EnterCallback(r)
  PROVE  Inv'
<1> DEFINE label == pc'[r]
<1>1. SnapshotInv(r) /\ PathInv(r) /\ EffectInv(r) /\ RevokedInv(r) /\ ReplayInv(r) /\ AuditInv(r)
  BY RequestFacts
<1>2. /\ Goto(r, label)
      /\ \/ pc[r] = "verify" /\ label = "consume_auth" /\ started' = started
         \/ /\ pc[r] = "revocation" /\ label \in {"krl", "consume_delegation"} /\ started' = started
            /\ RevocationProvider => DelegationOf[r].id \notin revoked
         \/ pc[r] = "krl" /\ label = "consume_delegation" /\ started' = started
         \/ pc[r] = "gate" /\ label = "executing" /\ started' = started \cup {r}
      /\ UNCHANGED <<now, revoked, epoch>> /\ UNCHANGED storeVars /\ UNCHANGED <<authIds, delegationIds>>
      /\ UNCHANGED <<decisions, events, emitted>> /\ UNCHANGED <<req, life>>
  <2>1. pc \in [Requests -> {"idle"} \cup InFlight \cup Settled]
    BY DEF Inv, TypeOK
  <2> QED
    BY <2>1 DEF VerifyAuthorization, CheckRevocation, KrlAccepts, EnterCallback, Goto,
                envVars, replayVars, auditVars
<1> HIDE DEF label
<1>3. /\ TypeOK' /\ StoreInv' /\ Grows /\ pc'[r] = label
      /\ \A q \in Requests \ {r} : Untouched(q)
  <2>1. label \in InFlight \cup Settled
    BY <1>2 DEF InFlight
  <2> QED BY <1>2, <2>1, RequestFacts, StepFrame
<1>4. SnapshotInv(r)'
  BY <1>1, <1>2, <1>3, SnapshotStays DEF Inv
<1>5. PathInv(r)' /\ AuditInv(r)'
  BY <1>1, <1>2, <1>3 DEF PathInv, AuditInv
<1>6. EffectInv(r)' /\ ReplayInv(r)'
  BY <1>1, <1>2, <1>3, RecordedStays
  DEF EffectInv, ReplayInv, BeforeUse, storeVars, PathInv, Delegated
<1>7. RevokedInv(r)'
  BY <1>1, <1>2, <1>3 DEF RevokedInv, EffectInv, PathInv
<1>8. RequestInv(r)' /\ ConsumesNothing(r)
  BY <1>2, <1>4, <1>5, <1>6, <1>7 DEF RequestInv, ConsumesNothing
<1> QED
  BY <1>3, <1>8, StepOf

LEMMA DecisionIsSeq == <<"ALLOW">> \in Seq({"ALLOW", "DENY"}) /\ <<"DENY">> \in Seq({"ALLOW", "DENY"})
<1>1. ASSUME NEW S, NEW x \in S PROVE <<x>> \in Seq(S)
  OBVIOUS
<1>2. "ALLOW" \in {"ALLOW", "DENY"} /\ "DENY" \in {"ALLOW", "DENY"}
  OBVIOUS
<1> DEFINE D == {"ALLOW", "DENY"}
<1> HIDE DEF D
<1>3. "ALLOW" \in D /\ "DENY" \in D
  BY <1>2 DEF D
<1>4. <<"ALLOW">> \in Seq(D) /\ <<"DENY">> \in Seq(D)
  BY <1>1, <1>3
<1> QED
  BY <1>4 DEF D

\* The decision record of a request, the only one it fires.
LEMMA DecisionStep ==
  ASSUME Inv, NEW r \in Requests, NEW d \in {"ALLOW", "DENY"}, fireDecision(r, d), decisions[r] = <<>>
  PROVE  /\ decisions' \in [Requests -> Seq({"ALLOW", "DENY"})]
         /\ decisions'[r] = <<d>> /\ \A q \in Requests \ {r} : decisions'[q] = decisions[q]
<1>1. decisions' = [decisions EXCEPT ![r] = <<d>>]
  BY AppendToEmpty DEF fireDecision
<1>2. <<d>> \in Seq({"ALLOW", "DENY"})
  BY DecisionIsSeq
<1> QED
  BY <1>1, <1>2, RequestFacts

LEMMA EvaluateDenyInv ==
  ASSUME Inv, NEW r \in Requests, EvaluateDeny(r)
  PROVE  Inv'
<1>1. /\ pc[r] = "loaded" /\ Mark(r, {"policyEvaluated"}) /\ fireDecision(r, "DENY")
      /\ Goto(r, "denied")
      /\ UNCHANGED <<now, revoked, epoch>> /\ UNCHANGED storeVars /\ UNCHANGED <<authIds, delegationIds>>
      /\ UNCHANGED <<events, emitted>> /\ UNCHANGED <<req, started>>
  BY DEF EvaluateDeny, envVars, replayVars
<1>2. SnapshotInv(r) /\ PathInv(r) /\ EffectInv(r) /\ RevokedInv(r) /\ ReplayInv(r) /\ AuditInv(r)
  BY RequestFacts
<1>3. /\ life' \in [Requests -> Lifecycle] /\ \A q \in Requests \ {r} : life'[q] = life[q]
      /\ life'[r].authorizationConsumed <=> life[r].authorizationConsumed
      /\ life'[r].delegationConsumed <=> life[r].delegationConsumed
      /\ life'[r].stateCommitted <=> life[r].stateCommitted
  BY <1>1, MarkStep
<1>4. /\ decisions' \in [Requests -> Seq({"ALLOW", "DENY"})]
      /\ decisions'[r] = <<"DENY">> /\ \A q \in Requests \ {r} : decisions'[q] = decisions[q]
  <2>1. decisions[r] = <<>>
    BY <1>1, <1>2 DEF AuditInv
  <2> QED BY <1>1, <2>1, DecisionStep
<1>5. /\ TypeOK' /\ StoreInv' /\ Grows /\ pc'[r] = "denied"
      /\ \A q \in Requests \ {r} : Untouched(q)
  BY <1>1, <1>3, <1>4, RequestFacts, StepFrame DEF Settled
<1>6. SnapshotInv(r)'
  BY <1>1, <1>2, <1>5, SnapshotStays DEF Inv
<1>7. PathInv(r)' /\ RevokedInv(r)' /\ AuditInv(r)'
  BY <1>1, <1>2, <1>4, <1>5 DEF PathInv, RevokedInv, AuditInv, EffectInv
<1>8. EffectInv(r)' /\ ReplayInv(r)'
  BY <1>1, <1>2, <1>3, <1>5 DEF EffectInv, ReplayInv, BeforeUse, storeVars
<1>9. RequestInv(r)' /\ ConsumesNothing(r)
  BY <1>1, <1>3, <1>6, <1>7, <1>8 DEF RequestInv, ConsumesNothing
<1> QED
  BY <1>5, <1>9, StepOf

LEMMA CallbackInv ==
  ASSUME Inv, NEW r \in Requests, CallbackReturns(r) \/ CallbackThrows(r)
  PROVE  Inv'
<1>1. SnapshotInv(r) /\ PathInv(r) /\ EffectInv(r) /\ RevokedInv(r) /\ ReplayInv(r) /\ AuditInv(r)
  BY RequestFacts
<1>2. /\ pc[r] = "executing" /\ UNCHANGED <<now, revoked, epoch>> /\ UNCHANGED storeVars
      /\ UNCHANGED <<authIds, delegationIds>> /\ UNCHANGED <<req, life, started, events>>
  BY DEF CallbackReturns, CallbackThrows, envVars, replayVars
<1>3. decisions[r] = <<>> /\ events[r] = <<>>
  BY <1>1, <1>2 DEF AuditInv
<1>4. \/ /\ Goto(r, "returned") /\ emitted' = emitted
         /\ decisions' \in [Requests -> Seq({"ALLOW", "DENY"})]
         /\ decisions'[r] = <<"ALLOW">> /\ \A q \in Requests \ {r} : decisions'[q] = decisions[q]
      \/ /\ Goto(r, "failed") /\ decisions' = decisions
         /\ emitted' \subseteq SharedErrors \X (Instances \X Nat)
  <2>1. CASE CallbackReturns(r)
    BY <1>3, <2>1, DecisionStep DEF CallbackReturns
  <2>2. CASE CallbackThrows(r)
    <3>1. Process(r) \in Instances \X Nat
      BY GuardConfig DEF Inv, TypeOK, Process
    <3> QED BY <2>2, <3>1, RequestFacts DEF CallbackThrows, Remember
  <2> QED BY <2>1, <2>2
<1> DEFINE label == pc'[r]
<1>5. /\ Goto(r, label) /\ label \in Settled
      /\ \/ label = "returned" /\ decisions'[r] = <<"ALLOW">>
         \/ label = "failed" /\ decisions'[r] = <<>>
  <2>1. pc \in [Requests -> {"idle"} \cup InFlight \cup Settled]
    BY DEF Inv, TypeOK
  <2> QED BY <1>3, <1>4, <2>1 DEF Goto, Settled
<1> HIDE DEF label
<1>6. /\ TypeOK' /\ StoreInv' /\ Grows /\ pc'[r] = label
      /\ \A q \in Requests \ {r} : Untouched(q)
  BY <1>2, <1>4, <1>5, RequestFacts, StepFrame
<1>7. SnapshotInv(r)'
  BY <1>1, <1>2, <1>6, SnapshotStays DEF Inv
<1>8. PathInv(r)' /\ RevokedInv(r)' /\ AuditInv(r)'
  BY <1>1, <1>2, <1>3, <1>5, <1>6 DEF PathInv, RevokedInv, AuditInv, EffectInv
<1>9. EffectInv(r)' /\ ReplayInv(r)'
  BY <1>1, <1>2, <1>5, <1>6, RecordedStays DEF Delegated, EffectInv, ReplayInv, BeforeUse, storeVars
<1>10. RequestInv(r)' /\ ConsumesNothing(r)
  BY <1>2, <1>7, <1>8, <1>9 DEF RequestInv, ConsumesNothing
<1> QED
  BY <1>6, <1>10, StepOf

----------------------------------------------------------------------------
(***************************************************************************)
(* Replay consumption.                                                     *)
(***************************************************************************)
LEMMA EntryType ==
  ASSUME Inv, NEW r \in Requests
  PROVE  /\ pc[r] = "consume_delegation" =>
              Entry(r, DelegationOf[r].id, DelegationOf[r].expiry) \in ReplayEntry(DelegationIds)
         /\ pc[r] = "consume_auth" => Entry(r, AuthIdOf(r), AuthExpiry(r)) \in ReplayEntry(AuthId)
<1>1. ASSUME NEW expiry \in Nat PROVE RetainedUntil(expiry) \in Nat
  BY RequestFacts DEF RetainedUntil
<1>2. Delegated(r) => DelegationOf[r] \in Delegation
  BY GuardConfig DEF Delegated
<1>3. req[r] \in Locals /\ PathInv(r) /\ IntentOf[r] \in Intent /\ Ttl \in Nat
  BY RequestFacts, GuardConfig, PolicyConfig
<1>4. AuthIdOf(r) \in AuthId /\ AuthExpiry(r) \in Nat
  BY <1>2, <1>3 DEF AuthIdOf, AuthExpiry, AuthId, Locals, Delegation, Time
<1>5. pc[r] = "consume_delegation" => DelegationOf[r].id \in DelegationIds /\ DelegationOf[r].expiry \in Nat
  BY <1>2, <1>3 DEF PathInv, Delegation, Time
<1> QED
  BY <1>1, <1>3, <1>4, <1>5 DEF Entry, ReplayEntry, Locals, Time

\* Without eviction an id that is not held was never recorded.
LEMMA NotHeld ==
  ASSUME ~Evicts, NEW r, NEW ids, NEW id, ~Held(r, ids, id)
  PROVE  \A e \in ids : ~ (e.domain = req[r].domain /\ e.id = id)
  BY DEF Held

LEMMA ConsumeAuthorizationInv ==
  ASSUME Inv, NEW r \in Requests, ConsumeAuthorization(r)
  PROVE  Inv'
<1> DEFINE entry == Entry(r, AuthIdOf(r), AuthExpiry(r))
           label == IF Delegated(r) THEN "gate" ELSE "commit"
<1>1. /\ pc[r] = "consume_auth" /\ ~Held(r, authIds, AuthIdOf(r))
      /\ authIds' = authIds \cup {entry} /\ Mark(r, {"authorizationConsumed"}) /\ Goto(r, label)
      /\ UNCHANGED <<now, revoked, epoch>> /\ UNCHANGED storeVars /\ delegationIds' = delegationIds
      /\ UNCHANGED <<decisions, events, emitted>> /\ UNCHANGED <<req, started>>
  BY DEF ConsumeAuthorization, envVars, auditVars
<1>2. SnapshotInv(r) /\ PathInv(r) /\ EffectInv(r) /\ RevokedInv(r) /\ ReplayInv(r) /\ AuditInv(r)
  BY RequestFacts
<1>3. /\ life' \in [Requests -> Lifecycle] /\ \A q \in Requests \ {r} : life'[q] = life[q]
      /\ life'[r].authorizationConsumed
      /\ life'[r].delegationConsumed <=> life[r].delegationConsumed
      /\ life'[r].stateCommitted <=> life[r].stateCommitted
  BY <1>1, MarkStep
<1>4. entry \in ReplayEntry(AuthId) /\ entry.domain = req[r].domain /\ entry.id = AuthIdOf(r)
  BY <1>1, EntryType DEF Entry
<1> HIDE DEF entry
<1>5. /\ TypeOK' /\ StoreInv' /\ Grows /\ pc'[r] = label
      /\ \A q \in Requests \ {r} : Untouched(q)
  <2>1. label \in InFlight
    BY DEF InFlight
  <2> QED BY <1>1, <1>3, <1>4, <2>1, RequestFacts, StepFrame
<1>6. SnapshotInv(r)'
  BY <1>1, <1>2, <1>5, SnapshotStays DEF Inv
<1>7. PathInv(r)' /\ RevokedInv(r)' /\ AuditInv(r)'
  BY <1>1, <1>2, <1>5 DEF PathInv, RevokedInv, AuditInv, EffectInv, Delegated
<1>8. EffectInv(r)'
  BY <1>1, <1>2, <1>3, <1>5 DEF EffectInv, BeforeUse, storeVars, Delegated
<1>9. ReplayInv(r)'
  <2>1. RecordedAuth(r)'
    BY <1>1, <1>4 DEF RecordedAuth, AuthIdOf
  <2> QED BY <1>1, <1>2, <1>3, <1>5, <2>1, RecordedStays DEF ReplayInv
<1>10. ASSUME ~Evicts, NEW q \in Requests PROVE UsedOnce(r, q)'
  <2> SUFFICES ASSUME r # q, req[r].domain = req[q].domain
               PROVE  /\ life[q].authorizationConsumed => AuthIdOf(r) # AuthIdOf(q)
                      /\ (life[r].delegationConsumed /\ life[q].delegationConsumed)
                            => DelegationOf[r].id # DelegationOf[q].id
    BY <1>1, <1>3 DEF UsedOnce, AuthIdOf
  <2>1. life[q].authorizationConsumed => RecordedAuth(q)
    BY RequestFacts DEF ReplayInv
  <2>2. \A e \in authIds : ~ (e.domain = req[r].domain /\ e.id = AuthIdOf(r))
    BY <1>1, <1>10, NotHeld
  <2>3. life[q].authorizationConsumed => AuthIdOf(r) # AuthIdOf(q)
    BY <2>1, <2>2 DEF RecordedAuth
  <2>4. UsedOnce(r, q)
    BY <1>10 DEF Inv
  <2> QED BY <2>3, <2>4 DEF UsedOnce
<1>11. RequestInv(r)'
  BY <1>6, <1>7, <1>8, <1>9 DEF RequestInv
<1> QED
  BY <1>5, <1>10, <1>11, StepOf

LEMMA ConsumeDelegationInv ==
  ASSUME Inv, NEW r \in Requests, ConsumeDelegation(r)
  PROVE  Inv'
<1> DEFINE entry == Entry(r, DelegationOf[r].id, DelegationOf[r].expiry)
<1>1. /\ pc[r] = "consume_delegation" /\ Goto(r, "consume_auth")
      /\ UNCHANGED <<now, revoked, epoch>> /\ UNCHANGED storeVars /\ authIds' = authIds
      /\ UNCHANGED <<decisions, events, emitted>> /\ UNCHANGED <<req, started>>
      /\ \/ /\ StoresDelegations /\ ~Held(r, delegationIds, DelegationOf[r].id)
            /\ delegationIds' = delegationIds \cup {entry} /\ Mark(r, {"delegationConsumed"})
         \/ ~StoresDelegations /\ delegationIds' = delegationIds /\ life' = life
  BY DEF ConsumeDelegation, envVars, auditVars
<1>2. SnapshotInv(r) /\ PathInv(r) /\ EffectInv(r) /\ RevokedInv(r) /\ ReplayInv(r) /\ AuditInv(r)
  BY RequestFacts
<1>3. /\ life' \in [Requests -> Lifecycle] /\ \A q \in Requests \ {r} : life'[q] = life[q]
      /\ life'[r].authorizationConsumed <=> life[r].authorizationConsumed
      /\ life'[r].stateCommitted <=> life[r].stateCommitted
      /\ \/ StoresDelegations /\ life'[r].delegationConsumed
         \/ ~StoresDelegations /\ life'[r] = life[r]
  <2>1. CASE StoresDelegations
    BY <1>1, <2>1, MarkStep
  <2>2. CASE ~StoresDelegations
    BY <1>1, <2>2, RequestFacts
  <2> QED BY <2>1, <2>2
<1>4. entry \in ReplayEntry(DelegationIds) /\ entry.domain = req[r].domain /\ entry.id = DelegationOf[r].id
  BY <1>1, EntryType DEF Entry
<1> HIDE DEF entry
<1>5. /\ TypeOK' /\ StoreInv' /\ Grows /\ pc'[r] = "consume_auth"
      /\ \A q \in Requests \ {r} : Untouched(q)
  <2>1. delegationIds \subseteq delegationIds' /\ delegationIds' \subseteq ReplayEntry(DelegationIds)
    BY <1>1, <1>4, RequestFacts
  <2> QED BY <1>1, <1>3, <2>1, RequestFacts, StepFrame DEF InFlight
<1>6. SnapshotInv(r)'
  BY <1>1, <1>2, <1>5, SnapshotStays DEF Inv
<1>7. PathInv(r)' /\ RevokedInv(r)' /\ AuditInv(r)'
  BY <1>1, <1>2, <1>5 DEF PathInv, RevokedInv, AuditInv, EffectInv, Delegated
<1>8. EffectInv(r)'
  BY <1>1, <1>2, <1>3, <1>5 DEF EffectInv, BeforeUse, storeVars, Delegated
<1>9. ReplayInv(r)'
  <2>1. StoresDelegations => RecordedDelegation(r)'
    BY <1>1, <1>4 DEF RecordedDelegation
  <2> QED BY <1>1, <1>2, <1>3, <1>5, <2>1, RecordedStays DEF ReplayInv
<1>10. ASSUME ~Evicts, NEW q \in Requests PROVE UsedOnce(r, q)'
  <2> SUFFICES ASSUME r # q, req[r].domain = req[q].domain, life'[r].delegationConsumed,
                      life[q].delegationConsumed
               PROVE  DelegationOf[r].id # DelegationOf[q].id
    BY <1>1, <1>2, <1>3 DEF UsedOnce, AuthIdOf, EffectInv, BeforeUse
  <2>1. CASE StoresDelegations
    <3>1. RecordedDelegation(q)
      BY RequestFacts DEF ReplayInv
    <3>2. \A e \in delegationIds : ~ (e.domain = req[r].domain /\ e.id = DelegationOf[r].id)
      BY <1>1, <1>10, <2>1, NotHeld
    <3> QED BY <3>1, <3>2 DEF RecordedDelegation
  <2>2. CASE ~StoresDelegations
    BY <1>1, <1>2, <1>3, <2>2 DEF EffectInv, BeforeUse
  <2> QED BY <2>1, <2>2
<1>11. RequestInv(r)'
  BY <1>6, <1>7, <1>8, <1>9 DEF RequestInv
<1> QED
  BY <1>5, <1>10, <1>11, StepOf

LEMMA CommitStateInv ==
  ASSUME Inv, NEW r \in Requests, CommitState(r)
  PROVE  Inv'
<1>1. /\ pc[r] = "commit" /\ SetState(r) /\ Mark(r, {"stateCommitted"}) /\ Goto(r, "gate")
      /\ UNCHANGED <<now, revoked, epoch>> /\ UNCHANGED <<authIds, delegationIds>>
      /\ UNCHANGED <<decisions, events, emitted>> /\ UNCHANGED <<req, started>>
  BY DEF CommitState, envVars, replayVars, auditVars
<1>2. SnapshotInv(r) /\ PathInv(r) /\ EffectInv(r) /\ RevokedInv(r) /\ ReplayInv(r) /\ AuditInv(r)
  BY RequestFacts
<1>3. /\ life' \in [Requests -> Lifecycle] /\ \A q \in Requests \ {r} : life'[q] = life[q]
      /\ life'[r].authorizationConsumed <=> life[r].authorizationConsumed
      /\ life'[r].delegationConsumed <=> life[r].delegationConsumed
      /\ life'[r].stateCommitted
  BY <1>1, MarkStep
<1>4. StoreInv'
  BY <1>1, SetStateInv DEF Inv
<1>5. /\ store' = [state |-> store'.state, version |-> store.version + 1]
      /\ committed' = committed \cup {r} /\ store'.version = store.version + 1
  BY <1>1 DEF SetState
<1>6. pc' = [pc EXCEPT ![r] = "gate"] /\ pc'[r] = "gate"
      /\ pc' \in [Requests -> {"idle"} \cup InFlight \cup Settled]
  BY <1>1 DEF Goto, Inv, TypeOK, InFlight
<1>7. TypeOK'
  <2>1. /\ store'.state \in State /\ lastEval' \in Time
        /\ admitted' \in Seq([intent : Intent, at : Time])
    BY <1>4, SameData DEF StoreInv, EngineProofs!Inv, EngineProofs!TypeOK, EngineProofs!Time,
       Time, EngineProofs!Admission
  <2>2. store' \in [state : State, version : Nat] /\ committed' \subseteq Requests
    BY <1>5, <2>1 DEF Inv, TypeOK
  <2> QED BY <1>1, <1>3, <1>6, <2>1, <2>2 DEF Inv, TypeOK
<1>8. Grows /\ \A q \in Requests \ {r} : Untouched(q)
  BY <1>1, <1>3, <1>5, <1>6, RequestFacts DEF Grows, Untouched, Inv, TypeOK
<1>9. SnapshotInv(r)'
  BY <1>1, <1>2, <1>7, <1>8, SnapshotStays DEF Inv
<1>10. PathInv(r)' /\ RevokedInv(r)' /\ AuditInv(r)'
  BY <1>1, <1>2, <1>6 DEF PathInv, RevokedInv, AuditInv, EffectInv, Delegated
<1>11. EffectInv(r)' /\ ReplayInv(r)'
  BY <1>1, <1>2, <1>3, <1>5, <1>6, <1>8, RecordedStays
  DEF EffectInv, ReplayInv, BeforeUse, Delegated, PathInv
<1>12. RequestInv(r)' /\ ConsumesNothing(r)
  BY <1>1, <1>3, <1>9, <1>10, <1>11 DEF RequestInv, ConsumesNothing
<1> QED
  BY <1>4, <1>7, <1>8, <1>12, StepOf

----------------------------------------------------------------------------
(***************************************************************************)
(* The steps that fail.                                                    *)
(***************************************************************************)
LEMMA RejectInv ==
  ASSUME Inv, NEW r \in Requests, NEW stage \in Stages, NEW failure,
         NEW thrown, thrown \in Thrown \/ thrown = Fresh,
         pc[r] \in BeforeUse \cup {"commit", "gate"}, RejectWith(r, stage, failure, thrown),
         UNCHANGED <<storeVars, replayVars>>
  PROVE  Inv'
<1>1. RejectAfter(r, stage, failure, thrown, life[r]) /\ SameEffects(life[r], life[r])
  BY DEF RejectWith, SameEffects
<1>2. /\ authIds \subseteq authIds' /\ authIds' \subseteq ReplayEntry(AuthId)
      /\ delegationIds \subseteq delegationIds' /\ delegationIds' \subseteq ReplayEntry(DelegationIds)
      /\ UNCHANGED storeVars /\ life[r] \in Lifecycle
  BY RequestFacts DEF replayVars
<1> QED
  BY <1>1, <1>2, RejectionInv

\* A replay store that fails may have recorded the id all the same.
LEMMA RejectConsumeInv ==
  ASSUME Inv, NEW r \in Requests, NEW failure, pc[r] \in {"consume_auth", "consume_delegation"},
         reject(r, "REPLAY", failure), UNCHANGED storeVars,
         authIds' = authIds \/ /\ pc[r] = "consume_auth"
                               /\ authIds' = authIds \cup {Entry(r, AuthIdOf(r), AuthExpiry(r))},
         delegationIds' = delegationIds
           \/ /\ pc[r] = "consume_delegation"
              /\ delegationIds' =
                   delegationIds \cup {Entry(r, DelegationOf[r].id, DelegationOf[r].expiry)}
  PROVE  Inv'
<1>1. RejectAfter(r, "REPLAY", failure, Fresh, life[r]) /\ SameEffects(life[r], life[r])
  BY DEF reject, RejectWith, SameEffects
<1>2. /\ authIds \subseteq authIds' /\ authIds' \subseteq ReplayEntry(AuthId)
      /\ delegationIds \subseteq delegationIds' /\ delegationIds' \subseteq ReplayEntry(DelegationIds)
      /\ life[r] \in Lifecycle
  BY RequestFacts, EntryType
<1>3. "REPLAY" \in Stages /\ pc[r] \in BeforeUse \cup {"commit", "gate"}
  BY DEF Stages, BeforeUse
<1> QED
  BY <1>1, <1>2, <1>3, RejectionInv

LEMMA EarlyFailureInv ==
  ASSUME Inv, NEW r \in Requests,
         LoadStateFails(r) \/ NormalizeFails(r) \/ EngineFails(r)
  PROVE  Inv'
<1>1. Thrown \ {DenyError} \subseteq Thrown
  OBVIOUS
<1>2. CASE LoadStateFails(r)
  <2>1. pc[r] \in BeforeUse /\ "STATE_LOAD" \in Stages /\ UNCHANGED <<storeVars, replayVars>>
    BY <1>2 DEF LoadStateFails, BeforeUse, Stages
  <2>2. \/ \E thrown \in Thrown : RejectWith(r, "STATE_LOAD", "UNCLASSIFIED", thrown)
        \/ RejectWith(r, "STATE_LOAD", "STATE_VERSION_MISSING", Fresh)
    BY <1>2 DEF LoadStateFails, reject
  <2> QED BY <2>1, <2>2, RejectInv
<1>3. CASE NormalizeFails(r)
  <2>1. /\ pc[r] \in BeforeUse /\ "NORMALIZATION" \in Stages /\ "PROVENANCE" \in Stages
        /\ UNCHANGED <<storeVars, replayVars>>
    BY <1>3 DEF NormalizeFails, BeforeUse, Stages
  <2>2. \E thrown \in Thrown : \/ RejectWith(r, "NORMALIZATION", "NORMALIZATION_FAILURE", thrown)
                               \/ RejectWith(r, "PROVENANCE", "PROVENANCE_CONFLICT", thrown)
    BY <1>3 DEF NormalizeFails
  <2> QED BY <2>1, <2>2, RejectInv
<1>4. CASE EngineFails(r)
  <2>1. pc[r] \in BeforeUse /\ "POLICY_EVALUATION" \in Stages /\ UNCHANGED <<storeVars, replayVars>>
    BY <1>4 DEF EngineFails, BeforeUse, Stages
  <2>2. CASE reject(r, "POLICY_EVALUATION", "ENGINE_FAILURE")
    BY <2>1, <2>2, RejectInv DEF reject
  <2>3. ASSUME NEW failure,
               RejectAfter(r, "POLICY_EVALUATION", failure, Fresh,
                           [life[r] EXCEPT !.policyEvaluated = TRUE])
        PROVE  Inv'
    <3> DEFINE lc == [life[r] EXCEPT !.policyEvaluated = TRUE]
    <3>1. lc \in Lifecycle /\ SameEffects(lc, life[r])
      BY RequestFacts DEF Lifecycle, SameEffects
    <3>2. /\ authIds \subseteq authIds' /\ authIds' \subseteq ReplayEntry(AuthId)
          /\ delegationIds \subseteq delegationIds' /\ delegationIds' \subseteq ReplayEntry(DelegationIds)
          /\ UNCHANGED storeVars
      BY <2>1, RequestFacts DEF replayVars
    <3> HIDE DEF lc
    <3>3. RejectAfter(r, "POLICY_EVALUATION", failure, Fresh, lc)
      BY <2>3 DEF lc
    <3> QED BY <2>1, <3>1, <3>2, <3>3, RejectionInv
  <2> QED BY <1>4, <2>2, <2>3 DEF EngineFails
<1> QED
  BY <1>2, <1>3, <1>4

\* A denial of the pipeline is one of its stages' denials.
LEMMA FirstDenialIsAStage ==
  ASSUME NEW stages, NEW n \in Nat, DOMAIN stages = 1..n, NEW x \in FirstDenial(stages)
  PROVE  \E k \in DOMAIN stages : x \in stages[k]
<1> DEFINE denying == {k \in DOMAIN stages : stages[k] # {}}
           first == CHOOSE k \in denying : \A j \in denying : k <= j
<1>1. denying # {} /\ x \in stages[first]
  BY DEF FirstDenial
<1>2. denying \in SUBSET Nat
  OBVIOUS
<1>3. {IntentOf[r] : r \in Requests} \subseteq EngineProofs!Intent /\ MaxTime \in Nat
  BY GuardConfig, SameData
<1>4. \E k \in denying : \A j \in denying : k <= j
  <2> HIDE DEF denying
  <2> QED BY <1>1, <1>2, <1>3, PolicyConfig, EngineProofs!LeastNatural DEF EngineProofs!LeastNatural
<1> QED
  BY <1>1, <1>4

\* The checks of a delegation that fail name one of the guard's stages.
LEMMA DelegationDenialStages ==
  ASSUME NEW d, NEW t, NEW denial \in DelegationDenial(d, t)
  PROVE  denial[1] \in Stages
<1> DEFINE parentDefects == (d.defects \cap {"parent", "authority"})
                               \cup DenyIf(t >= d.parent_expiry, "parent")
           stages == << DenyIf("amount" \in d.defects, <<"NORMALIZATION", "NORMALIZATION_FAILURE">>),
                        DenyIf("input" \in d.defects, <<"DELEGATION", "DELEGATION_INPUT_INVALID">>),
                        DenyIf(~AuthoritiesConfigured,
                               <<"DELEGATION", "AUTHORIZATION_AUTHORITY_DENIED">>),
                        DenyIf("scope" \in d.defects, <<"DELEGATION", "DELEGATION_INPUT_INVALID">>),
                        DenyIf(parentDefects = {"authority"},
                               <<"AUTHORIZATION_VERIFICATION", "AUTHORIZATION_AUTHORITY_DENIED">>),
                        DenyIf(parentDefects # {},
                               <<"AUTHORIZATION_VERIFICATION", "AUTHORIZATION_VERIFICATION_FAILED">>),
                        DenyIf("chain" \in d.defects \/ d.expiry > d.parent_expiry \/ t >= d.expiry,
                               <<"DELEGATION", "DELEGATION_VERIFICATION_FAILED">>) >>
<1> HIDE DEF parentDefects
<1>1. DOMAIN stages = 1..7
  OBVIOUS
<1>2. \A k \in DOMAIN stages : \A x \in stages[k] : x[1] \in Stages
  BY DEF DenyIf, Stages
<1>3. denial \in FirstDenial(stages)
  BY DEF DelegationDenial, parentDefects
<1> HIDE DEF stages
<1>4. \E k \in DOMAIN stages : denial \in stages[k]
  BY <1>1, <1>3, FirstDenialIsAStage
<1> QED
  BY <1>2, <1>4

LEMMA CheckFailureInv ==
  ASSUME Inv, NEW r \in Requests,
         \/ VerifyAuthorizationFails(r) \/ VerifyDelegationFails(r)
         \/ CheckRevocationFails(r) \/ KrlRejects(r) \/ BeforeExecuteFails(r)
  PROVE  Inv'
<1> USE DEF reject
<1>1. /\ pc[r] \in BeforeUse \cup {"commit", "gate"} /\ UNCHANGED <<storeVars, replayVars>>
      /\ "AUTHORIZATION_VERIFICATION" \in Stages /\ "DELEGATION" \in Stages
      /\ "EXECUTION_GATE" \in Stages
  BY DEF VerifyAuthorizationFails, VerifyDelegationFails, CheckRevocationFails, KrlRejects,
         BeforeExecuteFails, BeforeUse, Stages
<1>2. CASE VerifyAuthorizationFails(r)
  <2>1. \E failure : RejectWith(r, "AUTHORIZATION_VERIFICATION", failure, Fresh)
    BY <1>2 DEF VerifyAuthorizationFails
  <2> QED BY <1>1, <2>1, RejectInv
<1>3. CASE VerifyDelegationFails(r)
  <2>1. PICK denial \in DelegationDenial(DelegationOf[r], now) :
          RejectWith(r, denial[1], denial[2], Fresh)
    BY <1>3 DEF VerifyDelegationFails
  <2>2. denial[1] \in Stages
    BY DelegationDenialStages
  <2> QED BY <1>1, <2>1, <2>2, RejectInv
<1>4. CASE CheckRevocationFails(r) \/ KrlRejects(r)
  <2>1. \E failure : RejectWith(r, "DELEGATION", failure, Fresh)
    BY <1>4 DEF CheckRevocationFails, KrlRejects
  <2> QED BY <1>1, <2>1, RejectInv
<1>5. CASE BeforeExecuteFails(r)
  <2>1. \E thrown \in Thrown : RejectWith(r, "EXECUTION_GATE", "UNCLASSIFIED", thrown)
    BY <1>5 DEF BeforeExecuteFails
  <2> QED BY <1>1, <2>1, RejectInv
<1> QED
  BY <1>2, <1>3, <1>4, <1>5

LEMMA EffectFailureInv ==
  ASSUME Inv, NEW r \in Requests,
         ConsumeDelegationFails(r) \/ ConsumeAuthorizationFails(r) \/ CommitStateFails(r)
  PROVE  Inv'
<1>1. CASE ConsumeDelegationFails(r)
  <2>1. /\ pc[r] = "consume_delegation" /\ UNCHANGED storeVars /\ authIds' = authIds
        /\ \E failure : reject(r, "REPLAY", failure)
        /\ \/ delegationIds' = delegationIds
           \/ delegationIds' =
                delegationIds \cup {Entry(r, DelegationOf[r].id, DelegationOf[r].expiry)}
    BY <1>1 DEF ConsumeDelegationFails
  <2> QED BY <2>1, RejectConsumeInv
<1>2. CASE ConsumeAuthorizationFails(r)
  <2>1. /\ pc[r] = "consume_auth" /\ UNCHANGED storeVars /\ delegationIds' = delegationIds
        /\ \E failure : reject(r, "REPLAY", failure)
        /\ \/ authIds' = authIds
           \/ authIds' = authIds \cup {Entry(r, AuthIdOf(r), AuthExpiry(r))}
    BY <1>2 DEF ConsumeAuthorizationFails
  <2> QED BY <2>1, RejectConsumeInv
<1>3. CASE CommitStateFails(r)
  <2>1. /\ pc[r] = "commit" /\ UNCHANGED <<authIds, delegationIds>> /\ "STATE_COMMIT" \in Stages
    BY <1>3 DEF CommitStateFails, replayVars, Stages
  <2>2. PICK failure, thrown :
          /\ RejectAfter(r, "STATE_COMMIT", failure, thrown, life[r])
          /\ thrown \in Thrown \/ thrown = Fresh
          /\ UNCHANGED storeVars \/ (SetState(r) /\ failure = "UNCLASSIFIED")
    BY <1>3 DEF CommitStateFails, reject, RejectWith
  <2>3. /\ authIds \subseteq authIds' /\ authIds' \subseteq ReplayEntry(AuthId)
        /\ delegationIds \subseteq delegationIds' /\ delegationIds' \subseteq ReplayEntry(DelegationIds)
        /\ life[r] \in Lifecycle /\ SameEffects(life[r], life[r])
    BY <2>1, RequestFacts DEF SameEffects
  <2> QED BY <2>1, <2>2, <2>3, RejectionInv
<1> QED
  BY <1>1, <1>2, <1>3

----------------------------------------------------------------------------
(***************************************************************************)
(* The environment.                                                        *)
(***************************************************************************)
LEMMA EnvironmentStep ==
  ASSUME Inv, TypeOK', StoreInv', Grows, \A q \in Requests : Untouched(q)
  PROVE  Inv'
<1>1. \A q \in Requests : RequestInv(q)'
  BY OthersInv DEF Inv
<1>2. \A q \in Requests : ConsumesNothing(q)
  BY DEF Untouched, ConsumesNothing
<1>3. ASSUME ~Evicts, NEW q \in Requests, NEW s \in Requests PROVE UsedOnce(q, s)'
  BY <1>2, <1>3, UsedOnceStays DEF Inv
<1> QED
  BY <1>1, <1>3 DEF Inv

LEMMA ClockInv ==
  ASSUME Inv, Tick
  PROVE  Inv'
<1>1. /\ now' = now + 1 /\ now < MaxTime /\ now \in Nat /\ lastEval \in Nat /\ MaxTime \in Nat
      /\ UNCHANGED <<revoked, epoch>> /\ UNCHANGED storeVars /\ UNCHANGED <<authIds, delegationIds>>
      /\ UNCHANGED <<decisions, events, emitted>> /\ UNCHANGED <<pc, req, life, started>>
      /\ UNCHANGED <<store, lastEval, admitted, committed>>
  BY GuardConfig DEF Tick, replayVars, auditVars, storeVars, Inv, TypeOK, Time
<1>2. TypeOK'
  BY <1>1 DEF Inv, TypeOK, Time
<1>3. StoreInv'
  BY <1>1, StoreAlone DEF Inv
<1>4. Grows /\ \A q \in Requests : Untouched(q)
  BY <1>1 DEF Grows, Untouched
<1> QED
  BY <1>2, <1>3, <1>4, EnvironmentStep

LEMMA OperatorInv ==
  ASSUME Inv, NEW global \in BOOLEAN, SetKillSwitch(global)
  PROVE  Inv'
<1>1. /\ UNCHANGED <<now, revoked, epoch>> /\ UNCHANGED <<lastEval, admitted, committed>>
      /\ UNCHANGED <<authIds, delegationIds>> /\ UNCHANGED <<decisions, events, emitted>>
      /\ UNCHANGED <<pc, req, life, started>>
      /\ store' = [state |-> [store.state EXCEPT !.kill_global = global],
                   version |-> store.version + 1]
  BY DEF SetKillSwitch, envVars, replayVars, auditVars
<1>2. TypeOK'
  <2>1. store.state \in State /\ store.version \in Nat
    BY RequestFacts DEF Inv, TypeOK
  <2>2. \A s \in State : [s EXCEPT !.kill_global = global] \in State
    BY DEF State
  <2>3. store' \in [state : State, version : Nat]
    BY <1>1, <2>1, <2>2
  <2> QED BY <1>1, <2>3 DEF Inv, TypeOK
<1>3. StoreInv'
  BY KillSwitchRefines DEF Inv
<1>4. Grows /\ \A q \in Requests : Untouched(q)
  BY <1>1, RequestFacts DEF Grows, Untouched, Inv, TypeOK, Time
<1> QED
  BY <1>2, <1>3, <1>4, EnvironmentStep

LEMMA RevokeInv ==
  ASSUME Inv, NEW id \in DelegationIds, Revoke(id)
  PROVE  Inv'
<1>1. /\ revoked' = revoked \cup {id} /\ now \in Nat /\ lastEval \in Nat /\ MaxTime \in Nat
      /\ UNCHANGED <<now, epoch>> /\ UNCHANGED storeVars /\ UNCHANGED <<authIds, delegationIds>>
      /\ UNCHANGED <<decisions, events, emitted>> /\ UNCHANGED <<pc, req, life, started>>
      /\ UNCHANGED <<store, lastEval, admitted, committed>>
  BY GuardConfig DEF Revoke, replayVars, auditVars, storeVars, Inv, TypeOK, Time
<1>2. TypeOK'
  BY <1>1 DEF Inv, TypeOK
<1>3. StoreInv'
  BY <1>1, StoreAlone DEF Inv, StoreInv
<1>4. Grows /\ \A q \in Requests : Untouched(q)
  BY <1>1 DEF Grows, Untouched
<1> QED
  BY <1>2, <1>3, <1>4, EnvironmentStep

LEMMA CrashInv ==
  ASSUME Inv, NEW n \in Instances, Crash(n)
  PROVE  Inv'
<1>1. /\ epoch' = [epoch EXCEPT ![n] = @ + 1] /\ now \in Nat /\ lastEval \in Nat
      /\ pc' = [r \in Requests |->
                  IF InstanceOf[r] = n /\ pc[r] \in InFlight THEN "crashed" ELSE pc[r]]
      /\ UNCHANGED <<now, revoked>> /\ UNCHANGED storeVars /\ UNCHANGED <<authIds, delegationIds>>
      /\ UNCHANGED <<decisions, events, emitted>> /\ UNCHANGED <<req, life, started>>
      /\ UNCHANGED <<store, lastEval, admitted, committed>>
  BY DEF Crash, replayVars, auditVars, storeVars, Inv, TypeOK, Time
<1>2. TypeOK'
  BY <1>1 DEF Inv, TypeOK, Settled
<1>3. StoreInv'
  BY <1>1, StoreAlone DEF Inv, StoreInv
<1>4. Grows
  BY <1>1 DEF Grows
<1>5. ASSUME NEW q \in Requests PROVE RequestInv(q)'
  <2>1. CASE pc'[q] = pc[q]
    <3>1. Untouched(q)
      BY <1>1, <2>1 DEF Untouched
    <3> QED BY <1>2, <1>4, <3>1, OthersInv DEF Inv
  <2>2. CASE pc'[q] = "crashed" /\ pc[q] \in InFlight
    <3>1. SnapshotInv(q) /\ PathInv(q) /\ EffectInv(q) /\ RevokedInv(q) /\ ReplayInv(q) /\ AuditInv(q)
      BY RequestFacts
    <3>2. SnapshotInv(q)'
      BY <1>1, <1>2, <1>4, <3>1, SnapshotStays DEF Inv
    <3>3. PathInv(q)' /\ RevokedInv(q)' /\ AuditInv(q)'
      BY <1>1, <2>2, <3>1 DEF PathInv, RevokedInv, AuditInv, InFlight
    <3>4. EffectInv(q)' /\ ReplayInv(q)'
      BY <1>1, <1>4, <2>2, <3>1, RecordedStays
      DEF EffectInv, ReplayInv, BeforeUse, InFlight, Delegated
    <3> QED BY <3>2, <3>3, <3>4 DEF RequestInv
  <2> QED BY <1>1, <2>1, <2>2
<1>6. ASSUME ~Evicts, NEW q \in Requests, NEW s \in Requests PROVE UsedOnce(q, s)'
  <2>1. ConsumesNothing(q) /\ ConsumesNothing(s)
    BY <1>1 DEF ConsumesNothing
  <2> QED BY <1>6, <2>1, UsedOnceStays DEF Inv
<1> QED
  BY <1>2, <1>3, <1>5, <1>6 DEF Inv

----------------------------------------------------------------------------
LEMMA InitInv == Init => Inv
<1> SUFFICES ASSUME Init PROVE Inv
  OBVIOUS
<1>1. /\ now = 0 /\ store.state = EmptyState /\ store.version = 0
      /\ store = [state |-> EmptyState, version |-> 0]
      /\ authIds = {} /\ delegationIds = {} /\ revoked = {} /\ started = {} /\ emitted = {}
      /\ lastEval = 0 /\ admitted = <<>> /\ committed = {}
      /\ pc = [r \in Requests |-> "idle"] /\ life = [r \in Requests |-> createLifecycle]
      /\ decisions = [r \in Requests |-> <<>>] /\ events = [r \in Requests |-> <<>>]
      /\ epoch = [n \in Instances |-> 0]
  BY DEF Init
<1>2. EmptyState.kill_agents = {}
  BY DEF EmptyState
<1>3. req = [r \in Requests |->
               [version |-> 0, state |-> EmptyState, at |-> 0, domain |-> <<"shared", 0>>,
                revoked_at_start |-> {}]]
  BY DEF Init
<1>4. EngineProofs!Inv
  BY EngineInit, EngineInvInit
<1>5. StoreInv
  BY <1>1, <1>2, <1>4, GuardConfig DEF StoreInv
<1>6. EmptyState \in State
  BY <1>1, <1>4, EngineFacts
<1> DEFINE locals == [version |-> 0, state |-> EmptyState, at |-> 0, domain |-> <<"shared", 0>>,
                      revoked_at_start |-> {}]
<1>7. locals \in Locals
  BY <1>6 DEF Locals, Domains, Time
<1>8. \A r \in Requests : req[r] = locals /\ req[r].version = 0 /\ req[r].state = EmptyState
                          /\ req[r].at = 0 /\ req[r].revoked_at_start = {}
  BY <1>3
<1>9. createLifecycle \in Lifecycle /\ ~createLifecycle.authorizationConsumed
      /\ ~createLifecycle.delegationConsumed /\ ~createLifecycle.stateCommitted
  BY DEF createLifecycle, Lifecycle
<1>10. TypeOK
  <2>1. /\ now \in Time /\ store \in [state : State, version : Nat]
        /\ epoch \in [Instances -> Nat] /\ pc \in [Requests -> {"idle"} \cup InFlight \cup Settled]
        /\ req \in [Requests -> Locals] /\ life \in [Requests -> Lifecycle]
    <3> HIDE DEF locals
    <3>1. req = [r \in Requests |-> locals]
      BY <1>3 DEF locals
    <3> QED BY <1>1, <1>6, <1>7, <1>9, <3>1 DEF Time
  <2>2. /\ decisions \in [Requests -> Seq({"ALLOW", "DENY"})] /\ DOMAIN events = Requests
        /\ \A r \in Requests : events[r] = <<>>
        /\ admitted \in Seq([intent : Intent, at : Time]) /\ lastEval \in Time
    <3>1. \A S : <<>> \in Seq(S)
      OBVIOUS
    <3> QED BY <1>1, <3>1 DEF Time
  <2>3. DOMAIN <<>> = {}
    OBVIOUS
  <2> QED BY <1>1, <2>1, <2>2, <2>3 DEF TypeOK
<1>11. ASSUME NEW r \in Requests PROVE RequestInv(r)
  <2>1. /\ pc[r] = "idle" /\ life[r] = createLifecycle
        /\ events[r] = <<>> /\ decisions[r] = <<>>
    BY <1>1
  <2>2. SnapshotInv(r)
    BY <1>1, <1>8 DEF SnapshotInv
  <2>3. PathInv(r) /\ AuditInv(r)
    BY <2>1 DEF PathInv, AuditInv
  <2>4. EffectInv(r) /\ RevokedInv(r) /\ ReplayInv(r)
    BY <1>1, <1>8, <1>9, <2>1 DEF EffectInv, RevokedInv, ReplayInv
  <2> QED BY <2>2, <2>3, <2>4 DEF RequestInv
<1>12. \A r, s \in Requests : UsedOnce(r, s)
  BY <1>1, <1>9 DEF UsedOnce
<1> QED
  BY <1>5, <1>10, <1>11, <1>12 DEF Inv

LEMMA NextInv == Inv /\ [Next]_vars => Inv'
<1> SUFFICES ASSUME Inv, [Next]_vars PROVE Inv'
  OBVIOUS
<1>1. ASSUME NEW r \in Requests, Begin(r) \/ Proceed(r) PROVE Inv'
  <2>1. CASE Begin(r)
    BY <2>1, LoadStateInv, EarlyFailureInv DEF Begin
  <2>2. CASE Proceed(r)
    BY <2>2, EarlyFailureInv, EvaluateAllowInv, EvaluateDenyInv, GoOnInv, CheckFailureInv,
       VerifyDelegationInv, ConsumeDelegationInv, ConsumeAuthorizationInv, EffectFailureInv,
       CommitStateInv, CallbackInv
    DEF Proceed
  <2> QED BY <1>1, <2>1, <2>2
<1>2. CASE Environment
  BY <1>2, ClockInv, OperatorInv, RevokeInv, CrashInv DEF Environment
<1>3. CASE UNCHANGED vars
  <2>1. /\ UNCHANGED <<now, revoked, epoch>> /\ UNCHANGED storeVars
        /\ UNCHANGED <<authIds, delegationIds>> /\ UNCHANGED <<decisions, events, emitted>>
        /\ UNCHANGED <<pc, req, life, started>> /\ UNCHANGED <<store, lastEval, admitted, committed>>
        /\ now \in Nat /\ lastEval \in Nat
    BY <1>3 DEF vars, envVars, storeVars, replayVars, auditVars, Inv, TypeOK, Time
  <2>2. TypeOK'
    BY <2>1 DEF Inv, TypeOK
  <2>3. StoreInv'
    BY <2>1, StoreAlone DEF Inv, StoreInv
  <2>4. Grows /\ \A q \in Requests : Untouched(q)
    BY <2>1 DEF Grows, Untouched
  <2> QED BY <2>2, <2>3, <2>4, EnvironmentStep
<1> QED
  BY <1>1, <1>2, <1>3 DEF Next

(***************************************************************************)
(* A step of the guard moves the store only by a compare-and-set or an     *)
(* operator's write.                                                       *)
(***************************************************************************)
LEMMA StoreMoves ==
  ASSUME [Next]_vars
  PROVE  \/ UNCHANGED storeVars
         \/ \E r \in Requests : pc[r] = "commit" /\ SetState(r)
         \/ \E g \in BOOLEAN : SetKillSwitch(g)
<1>1. ASSUME NEW r \in Requests, Begin(r) \/ NormalizeFails(r) \/ EvaluateAllow(r)
                                 \/ EvaluateDeny(r) \/ EngineFails(r)
      PROVE  UNCHANGED storeVars
  BY <1>1 DEF Begin, LoadState, LoadStateFails, NormalizeFails, EvaluateAllow, EvaluateDeny, EngineFails
<1>2. ASSUME NEW r \in Requests,
             \/ VerifyAuthorization(r) \/ VerifyAuthorizationFails(r) \/ VerifyDelegation(r)
             \/ VerifyDelegationFails(r) \/ CheckRevocation(r) \/ CheckRevocationFails(r)
             \/ KrlAccepts(r) \/ KrlRejects(r)
      PROVE  UNCHANGED storeVars
  BY <1>2 DEF VerifyAuthorization, VerifyAuthorizationFails, VerifyDelegation,
              VerifyDelegationFails, CheckRevocation, CheckRevocationFails, KrlAccepts, KrlRejects
<1>3. ASSUME NEW r \in Requests,
             \/ ConsumeDelegation(r) \/ ConsumeDelegationFails(r) \/ ConsumeAuthorization(r)
             \/ ConsumeAuthorizationFails(r) \/ EnterCallback(r) \/ BeforeExecuteFails(r)
             \/ CallbackReturns(r) \/ CallbackThrows(r)
      PROVE  UNCHANGED storeVars
  BY <1>3 DEF ConsumeDelegation, ConsumeDelegationFails, ConsumeAuthorization,
              ConsumeAuthorizationFails, EnterCallback, BeforeExecuteFails, CallbackReturns,
              CallbackThrows
<1>4. ASSUME NEW r \in Requests, CommitState(r) \/ CommitStateFails(r)
      PROVE  UNCHANGED storeVars \/ (pc[r] = "commit" /\ SetState(r))
  BY <1>4 DEF CommitState, CommitStateFails
<1>5. CASE Environment
  BY <1>5 DEF Environment, Tick, Revoke, Crash
<1>6. CASE UNCHANGED vars
  BY <1>6 DEF vars
<1> QED
  BY <1>1, <1>2, <1>3, <1>4, <1>5, <1>6 DEF Next, Proceed

LEMMA StepRefines == Inv /\ [Next]_vars => [Engine!Next]_(Engine!vars)
<1> SUFFICES ASSUME Inv, [Next]_vars PROVE [Engine!Next]_(Engine!vars)
  OBVIOUS
<1>1. CASE UNCHANGED storeVars
  BY <1>1 DEF storeVars, Engine!vars
<1>2. ASSUME NEW r \in Requests, pc[r] = "commit", SetState(r) PROVE Engine!Next
  BY <1>2, SetStateRefines, RequestFacts DEF Inv, TypeOK
<1>3. ASSUME NEW g \in BOOLEAN, SetKillSwitch(g) PROVE Engine!Next
  BY <1>3, KillSwitchRefines DEF Inv
<1> QED
  BY <1>1, <1>2, <1>3, StoreMoves

----------------------------------------------------------------------------
(***************************************************************************)
(* The inductive invariant holds in every reachable state, for every       *)
(* number of requests, instances and crashes and every set of failing      *)
(* calls.                                                                  *)
(***************************************************************************)
THEOREM InvariantHolds == Spec => []Inv
<1> QED BY InitInv, NextInv, PTL DEF Spec

(***************************************************************************)
(* The guard's concurrent requests, with their crashes, conflicts and      *)
(* failing calls, implement the sequential policy engine: every commit is  *)
(* an ALLOW of the engine in the state it replaces.                        *)
(***************************************************************************)
THEOREM GuardImplementsEngine == Spec => EngineSpec
<1>1. Init => Engine!Init
  BY EngineInit
<1> QED
  BY <1>1, InvariantHolds, StepRefines, PTL DEF Spec, EngineSpec, Engine!Spec

(***************************************************************************)
(* So the limits the engine keeps hold of the guard's store under          *)
(* concurrency: budgets, and the concurrency counter.                      *)
(***************************************************************************)
LimitsKept == EngineProofs!BudgetRespected /\ EngineProofs!LeaseAccounting

\* The limits of the engine, read in the store the guards share.
THEOREM GuardKeepsLimits == Spec => []LimitsKept
<1>1. Inv => LimitsKept
  BY DEF Inv, StoreInv, EngineProofs!Inv, LimitsKept
<1> QED BY <1>1, InvariantHolds, PTL

(***************************************************************************)
(* On the standard path no intent is executed twice, whatever instances    *)
(* share and however they crash: compare-and-set and the nonces kept in    *)
(* the state are enough.                                                   *)
(***************************************************************************)
THEOREM GuardExecutesOnce == Spec => []NoIntentExecutedTwice
<1>1. Inv => NoIntentExecutedTwice
  <2> SUFFICES ASSUME Inv, NEW r \in started, NEW s \in started,
                      ~Delegated(r), ~Delegated(s), IntentOf[r] = IntentOf[s]
               PROVE  r = s
    BY DEF NoIntentExecutedTwice
  <2>1. r \in Requests /\ s \in Requests
    BY DEF Inv, TypeOK
  <2>2. r \in committed /\ s \in committed
    BY <2>1, RequestFacts DEF EffectInv
  <2> QED BY <2>2 DEF Inv, StoreInv
<1> QED BY <1>1, InvariantHolds, PTL

(***************************************************************************)
(* A delegation revoked before a request began does not execute in it      *)
(* (the revocation provider is asked once the request is under way).       *)
(***************************************************************************)
RevokedNeverRuns ==
  \A r \in started :
    (Delegated(r) /\ RevocationProvider) => DelegationOf[r].id \notin req[r].revoked_at_start

\* Whatever the replay stores evict and however requests overlap.
THEOREM GuardNeverRunsRevoked == Spec => []RevokedNeverRuns
<1>1. Inv => RevokedNeverRuns
  <2> SUFFICES ASSUME Inv, NEW r \in started, Delegated(r), RevocationProvider
               PROVE  DelegationOf[r].id \notin req[r].revoked_at_start
    BY DEF RevokedNeverRuns
  <2>1. r \in Requests
    BY DEF Inv, TypeOK
  <2> QED BY <2>1, RequestFacts DEF RevokedInv
<1> QED BY <1>1, InvariantHolds, PTL

(***************************************************************************)
(* While the replay store evicts nothing, an authorization or a delegation *)
(* backs at most one execution in its replay domain.  With eviction that   *)
(* is false of the code: an id that expires between the check of its       *)
(* expiry and its consumption is forgotten.                                *)
(***************************************************************************)
THEOREM GuardNeverRunsUsed == ~Evicts => (Spec => []UsedOrRevokedNeverRuns)
<1> SUFFICES ASSUME ~Evicts PROVE Spec => []UsedOrRevokedNeverRuns
  OBVIOUS
<1>1. Inv => UsedOrRevokedNeverRuns
  <2> SUFFICES ASSUME Inv PROVE UsedOrRevokedNeverRuns
    OBVIOUS
  <2>1. ASSUME NEW r \in started, NEW s \in started, r # s, req[r].domain = req[s].domain
        PROVE  /\ AuthIdOf(r) # AuthIdOf(s)
               /\ (StoresDelegations /\ Delegated(r) /\ Delegated(s))
                     => DelegationOf[r].id # DelegationOf[s].id
    <3>1. r \in Requests /\ s \in Requests
      BY DEF Inv, TypeOK
    <3>2. EffectInv(r) /\ EffectInv(s)
      BY <3>1, RequestFacts
    <3>3. UsedOnce(r, s)
      BY <3>1 DEF Inv
    <3> QED BY <2>1, <3>2, <3>3 DEF EffectInv, UsedOnce
  <2>2. ASSUME NEW r \in started, Delegated(r), RevocationProvider
        PROVE  DelegationOf[r].id \notin req[r].revoked_at_start
    <3>1. r \in Requests
      BY DEF Inv, TypeOK
    <3> QED BY <2>2, <3>1, RequestFacts DEF RevokedInv
  <2> QED BY <2>1, <2>2 DEF UsedOrRevokedNeverRuns
<1> QED BY <1>1, InvariantHolds, PTL

(***************************************************************************)
(* Whatever callbacks throw, a boundary event tells the truth about the    *)
(* request's progress and no request it is about has entered execute().    *)
(***************************************************************************)
EventsAreTrue ==
  \A r \in Requests : \A k \in DOMAIN events[r] :
    Len(events[r]) = 1 /\ Truthful(r, events[r][k]) /\ r \notin started

LEMMA EventsTruthful == Inv => EventsAreTrue
<1> SUFFICES ASSUME Inv, NEW r \in Requests, NEW k \in DOMAIN events[r]
             PROVE  Len(events[r]) = 1 /\ Truthful(r, events[r][k]) /\ r \notin started
  BY DEF EventsAreTrue
<1>1. AuditInv(r) /\ EffectInv(r)
  BY RequestFacts
<1>2. DOMAIN <<>> = {}
  OBVIOUS
<1>3. pc[r] = "rejected" /\ events[r] = <<events[r][1]>> /\ Truthful(r, events[r][1])
  BY <1>1, <1>2 DEF AuditInv
<1>4. \A x : Len(<<x>>) = 1 /\ DOMAIN <<x>> = {1}
  OBVIOUS
<1>5. Len(events[r]) = 1 /\ k = 1
  <2> DEFINE e == events[r][1]
  <2> HIDE DEF e
  <2>1. events[r] = <<e>>
    BY <1>3 DEF e
  <2> QED BY <1>4, <2>1
<1> QED
  BY <1>1, <1>3, <1>5 DEF EffectInv

\* So no boundary event ever denies an execution that took place.
THEOREM GuardEventsAreTrue == Spec => []EventsAreTrue
<1> QED BY EventsTruthful, InvariantHolds, PTL

(***************************************************************************)
(* When every thrown value is an object of its own, each outcome is also   *)
(* reported exactly once.  (A value that several requests throw is marked  *)
(* as reported by the first of them.)                                      *)
(***************************************************************************)
THEOREM GuardReportsTruthfully ==
  Thrown \subseteq {Fresh} => (Spec => []OutcomesReportedTruthfully)
<1> SUFFICES ASSUME Thrown \subseteq {Fresh} PROVE Spec => []OutcomesReportedTruthfully
  OBVIOUS
<1>1. Inv => OutcomesReportedTruthfully
  <2> SUFFICES ASSUME Inv, NEW r \in Requests
               PROVE  /\ pc[r] = "denied" => decisions[r] = <<"DENY">> /\ events[r] = <<>>
                      /\ pc[r] = "returned" => decisions[r] = <<"ALLOW">> /\ events[r] = <<>>
                      /\ pc[r] = "rejected" => decisions[r] = <<>> /\ Len(events[r]) = 1
                      /\ pc[r] = "failed" => decisions[r] = <<>> /\ events[r] = <<>>
                      /\ \A k \in DOMAIN events[r] :
                           Truthful(r, events[r][k]) /\ r \notin started
    BY DEF OutcomesReportedTruthfully, Truthful, RecordedAuth
  <2>1. AuditInv(r)
    BY RequestFacts
  <2>2. EventsAreTrue
    BY EventsTruthful
  <2>3. \A k \in DOMAIN events[r] : Truthful(r, events[r][k]) /\ r \notin started
    BY <2>2 DEF EventsAreTrue
  <2>4. pc[r] = "rejected" => Len(events[r]) = 1
    <3> SUFFICES ASSUME pc[r] = "rejected" PROVE Len(events[r]) = 1
      OBVIOUS
    <3>1. events[r] = <<events[r][1]>>
      BY <2>1 DEF AuditInv
    <3>2. \A x : DOMAIN <<x>> = {1}
      OBVIOUS
    <3>3. 1 \in DOMAIN events[r]
      <4> DEFINE e == events[r][1]
      <4> HIDE DEF e
      <4>1. events[r] = <<e>>
        BY <3>1 DEF e
      <4> QED BY <3>2, <4>1
    <3> QED BY <2>2, <3>3 DEF EventsAreTrue
  <2> QED BY <2>1, <2>3, <2>4 DEF AuditInv
<1> QED BY <1>1, InvariantHolds, PTL

=============================================================================
