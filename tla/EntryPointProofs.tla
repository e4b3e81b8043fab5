-------------------------- MODULE EntryPointProofs --------------------------
(***************************************************************************)
(* Proofs about the two programs an operator starts: the gateway (module   *)
(* Gateway), for every set of requests, authorizations and option values,  *)
(* every store and any number of restarts and changes; and the command     *)
(* line tool (module Cli), for every set of processes, policies, nonces    *)
(* and holders and any number of runs, kills and edits.                    *)
(***************************************************************************)
EXTENDS Gateway, Cli, FiniteSetTheorems, WellFoundedInduction, TLAPS

(***************************************************************************)
(* The inductive invariant.  What is known of one request follows from the *)
(* stage it is in; KeysOutlive says what the store remembers of those that *)
(* were consumed.                                                          *)
(***************************************************************************)
Stages == {"idle", "consume", "dispatch", "dispatched", "relay", "send", "answered", "crashed"}

Unread == {"idle", "consume", "dispatch"}      \* nothing was sent to the upstream
Waiting == Unread \cup {"dispatched", "crashed"} \* no answer has been chosen

Unknown == Body("UNKNOWN", "INDETERMINATE", "null")

TypeInv ==
  /\ now \in Nat /\ crashes \in Nat
  /\ DOMAIN input = Requests /\ \A r \in Requests : input[r].auth \in Auths
  /\ pc \in [Requests -> Stages]
  /\ asked \in [Requests -> Int] /\ answered \in [Requests -> Int]
  /\ DOMAIN request = Requests /\ DOMAIN payload = Requests
  /\ upstream \in [Requests -> {"none", "called", "ran", "ok", "error"}]
  /\ DOMAIN response = Requests
  /\ \A k \in keys : k.until \in Int
  /\ effects \subseteq Requests

\* The snapshot of a request: verified in time, for its own action.
SnapshotInv(r) ==
  /\ pc[r] = "idle" => request[r] = {}
  /\ pc[r] \in {"consume", "dispatch", "dispatched", "relay"} => request[r] # {}
  /\ \A p, q \in request[r] : p = q
  /\ \A q \in request[r] :
       /\ q.auth \in Auths /\ q.action = ActionOf[q.auth]
       /\ asked[r] >= 0 /\ asked[r] <= now /\ asked[r] < Expiry[q.auth]
       /\ crashes = 0 => IssuerOf[q.auth] \in FirstOptions.authorities
  /\ payload[r] \subseteq {q.action : q \in request[r]}
  /\ answered[r] # NotYet => request[r] # {} /\ answered[r] >= asked[r] /\ answered[r] <= now
  /\ pc[r] = "consume" => answered[r] = NotYet
  /\ pc[r] \in {"dispatch", "dispatched", "relay"} => answered[r] # NotYet

\* How far the upstream is, and what the caller was told.
OutcomeInv(r) ==
  /\ r \in Direct => upstream[r] = "error" /\ r \notin effects /\ pc[r] = "idle"
  /\ upstream[r] \in {"ran", "ok"} => r \in effects
  /\ upstream[r] \in {"none", "called"} => r \notin effects
  /\ r \notin Direct =>
       /\ upstream[r] # "none" => answered[r] # NotYet /\ pc[r] \notin Unread
       /\ pc[r] \in {"dispatched", "relay"} => upstream[r] # "none"
       /\ pc[r] \in Waiting => response[r] = NoResponse
       /\ pc[r] \notin Waiting =>
            \/ upstream[r] = "none" /\ response[r] \in {deny, NotServed}
            \/ upstream[r] # "none" /\ response[r] \in {Indeterminate, Unknown}
            \/ r \in effects /\ response[r] = Executed

GatewayAsBuilt ==
  crashes = 0 => \A g \in gateway : g.authorities = FirstOptions.authorities

\* A consumed id stays on record for as long as it can be presented.
KeysOutlive ==
  Durable => \A r \in Requests : answered[r] # NotYet =>
    \A q \in request[r] : \E k \in keys : k.id = q.auth /\ k.until >= Expiry[q.auth]

Inv ==
  /\ TypeInv
  /\ \A r \in Requests : SnapshotInv(r) /\ OutcomeInv(r)
  /\ GatewayAsBuilt /\ KeysOutlive /\ TimelyPresentationsDispatchOnce

----------------------------------------------------------------------------
(***************************************************************************)
(* A request whose own part of the state does not change keeps its         *)
(* invariant: the clock and the count of restarts only grow.               *)
(***************************************************************************)
LEMMA OthersKeep ==
  ASSUME NEW s \in Requests, SnapshotInv(s), OutcomeInv(s),
         now \in Nat, now' \in Nat, now <= now', crashes' = 0 => crashes = 0,
         asked[s] \in Int, answered[s] \in Int,
         pc'[s] = pc[s], request'[s] = request[s], payload'[s] = payload[s],
         asked'[s] = asked[s], answered'[s] = answered[s], upstream'[s] = upstream[s],
         response'[s] = response[s], s \in effects' <=> s \in effects
  PROVE  SnapshotInv(s)' /\ OutcomeInv(s)'
<1>1. SnapshotInv(s)'
  BY DEF SnapshotInv, NotYet
<1>2. OutcomeInv(s)'
  BY DEF OutcomeInv
<1> QED BY <1>1, <1>2

(***************************************************************************)
(* As long as no consume is applied and no key dropped, the store's        *)
(* promises stand.                                                         *)
(***************************************************************************)
LEMMA StoreKeeps ==
  ASSUME KeysOutlive, TimelyPresentationsDispatchOnce,
         keys \subseteq keys', UNCHANGED answered,
         \A r \in Requests : answered[r] # NotYet => request'[r] = request[r]
  PROVE  KeysOutlive' /\ TimelyPresentationsDispatchOnce'
<1>1. KeysOutlive'
  BY DEF KeysOutlive
<1>2. TimelyPresentationsDispatchOnce'
  BY DEF TimelyPresentationsDispatchOnce
<1> QED BY <1>1, <1>2

LEMMA InitInv == Init => Inv
<1> SUFFICES ASSUME Init PROVE Inv
  OBVIOUS
<1>1. PICK h \in DirectHeaders :
        upstream = [r \in Requests |-> IF r \in Direct THEN protectUpstreamExecution(h) ELSE "none"]
  BY DEF Init
<1>2. protectUpstreamExecution(h) = "error"
  <2>1. h \in Seq(STRING) /\ h # <<Token>>
    BY TokenIsSecret
  <2>2. ~(Len(h) = 1 /\ h[1] = Token)
    BY <2>1
  <2>3. "undefined" # Token
    BY DEF Token
  <2> QED BY <2>2, <2>3 DEF protectUpstreamExecution, hasValidInternalExecutorToken, headerValue
<1>3. TypeInv
  BY <1>1, <1>2, GatewayConfig DEF Init, TypeInv, Stages, NotYet
<1>4. ASSUME NEW r \in Requests PROVE SnapshotInv(r) /\ OutcomeInv(r)
  BY <1>1, <1>2 DEF Init, SnapshotInv, OutcomeInv, NotYet, Waiting, Unread
<1>5. GatewayAsBuilt
  BY DEF Init, GatewayAsBuilt, createPepGatewayExecutor, resolveTrustedAuthorizationAuthorities
<1>6. KeysOutlive /\ TimelyPresentationsDispatchOnce
  BY DEF Init, KeysOutlive, TimelyPresentationsDispatchOnce
<1> QED BY <1>3, <1>4, <1>5, <1>6 DEF Inv

----------------------------------------------------------------------------
(* One lemma for each action of a request. *)

LEMMA RefuseInv ==
  ASSUME Inv, NEW r \in Requests, NEW defect \in DOMAIN Refusal, Refuse(r, defect)
  PROVE  Inv'
<1> USE DEF live, Refuse, Goto, Refusal
<1>1. TypeInv'
  BY DEF Inv, TypeInv, Stages
<1>2. SnapshotInv(r)'
  BY DEF Inv, TypeInv, SnapshotInv, NotYet
<1>3. OutcomeInv(r)'
  BY DEF Inv, TypeInv, SnapshotInv, OutcomeInv, Waiting, Unread, NotYet
<1>4. ASSUME NEW s \in Requests \ {r} PROVE SnapshotInv(s)' /\ OutcomeInv(s)'
  BY OthersKeep DEF Inv, TypeInv
<1>5. GatewayAsBuilt'
  BY DEF Inv, GatewayAsBuilt
<1>6. KeysOutlive' /\ TimelyPresentationsDispatchOnce'
  BY StoreKeeps DEF Inv, TypeInv, SnapshotInv, NotYet
<1> QED BY <1>1, <1>2, <1>3, <1>4, <1>5, <1>6 DEF Inv

LEMMA CallStoreInv ==
  ASSUME Inv, NEW r \in Requests, CallStore(r)
  PROVE  Inv'
<1> USE DEF live, CallStore, Goto
<1>1. TypeInv'
  BY DEF Inv, TypeInv, Stages
<1>2. SnapshotInv(r)'
  <2>1. PICK g \in gateway : Defects(input[r], g) = {}
    OBVIOUS
  <2>2. /\ "expired" \notin Defects(input[r], g) /\ "authority" \notin Defects(input[r], g)
        /\ "intent" \notin Defects(input[r], g)
    BY <2>1
  <2>3. /\ ~(now >= Expiry[input[r].auth]) /\ input[r].action = ActionOf[input[r].auth]
        /\ IssuerOf[input[r].auth] \in g.authorities
    BY <2>2 DEF Defects, TrustedAuthorities
  <2>4. input[r].auth \in Auths /\ Expiry[input[r].auth] \in Nat /\ now \in Nat
    BY GatewayConfig DEF Inv, TypeInv
  <2>5. /\ request'[r] = {input[r]} /\ asked'[r] = now /\ pc'[r] = "consume"
        /\ payload'[r] = {} /\ answered'[r] = NotYet
    BY DEF Inv, TypeInv, SnapshotInv
  <2>6. crashes' = 0 => IssuerOf[input[r].auth] \in FirstOptions.authorities
    BY <2>1, <2>3 DEF Inv, GatewayAsBuilt
  <2>7. now < Expiry[input[r].auth]
    BY <2>3, <2>4
  <2> QED BY <2>3, <2>4, <2>5, <2>6, <2>7 DEF SnapshotInv, NotYet
<1>3. OutcomeInv(r)'
  BY DEF Inv, TypeInv, SnapshotInv, OutcomeInv, Waiting, Unread, NotYet
<1>4. ASSUME NEW s \in Requests \ {r} PROVE SnapshotInv(s)' /\ OutcomeInv(s)'
  BY OthersKeep DEF Inv, TypeInv
<1>5. GatewayAsBuilt'
  BY DEF Inv, GatewayAsBuilt
<1>6. KeysOutlive' /\ TimelyPresentationsDispatchOnce'
  BY StoreKeeps DEF Inv, TypeInv, SnapshotInv, NotYet
<1> QED BY <1>1, <1>2, <1>3, <1>4, <1>5, <1>6 DEF Inv

LEMMA StoreRefusesInv ==
  ASSUME Inv, NEW r \in Requests, StoreRefuses(r)
  PROVE  Inv'
<1> USE DEF live, StoreRefuses, Return, Goto
<1>1. TypeInv'
  BY DEF Inv, TypeInv, Stages
<1>2. SnapshotInv(r)'
  BY DEF Inv, TypeInv, SnapshotInv, NotYet
<1>3. OutcomeInv(r)'
  BY DEF Inv, TypeInv, SnapshotInv, OutcomeInv, Waiting, Unread, NotYet
<1>4. ASSUME NEW s \in Requests \ {r} PROVE SnapshotInv(s)' /\ OutcomeInv(s)'
  BY OthersKeep DEF Inv, TypeInv
<1>5. GatewayAsBuilt'
  BY DEF Inv, GatewayAsBuilt
<1>6. KeysOutlive' /\ TimelyPresentationsDispatchOnce'
  BY StoreKeeps DEF Inv, TypeInv, SnapshotInv, NotYet
<1> QED BY <1>1, <1>2, <1>3, <1>4, <1>5, <1>6 DEF Inv

LEMMA DispatchInv ==
  ASSUME Inv, NEW r \in Requests, Dispatch(r)
  PROVE  Inv'
<1> USE DEF live, Dispatch, Goto, mutableCopyOfSnapshot, protectUpstreamExecution, hasValidInternalExecutorToken, headerValue
<1>1. TypeInv'
  BY DEF Inv, TypeInv, Stages
<1>2. SnapshotInv(r)'
  BY DEF Inv, TypeInv, SnapshotInv, NotYet
<1>3. OutcomeInv(r)'
  BY DEF Inv, TypeInv, SnapshotInv, OutcomeInv, Waiting, Unread, NotYet
<1>4. ASSUME NEW s \in Requests \ {r} PROVE SnapshotInv(s)' /\ OutcomeInv(s)'
  BY OthersKeep DEF Inv, TypeInv
<1>5. GatewayAsBuilt'
  BY DEF Inv, GatewayAsBuilt
<1>6. KeysOutlive' /\ TimelyPresentationsDispatchOnce'
  BY StoreKeeps DEF Inv, TypeInv, SnapshotInv, NotYet
<1> QED BY <1>1, <1>2, <1>3, <1>4, <1>5, <1>6 DEF Inv

LEMMA AnswerInv ==
  ASSUME Inv, NEW r \in Requests, UpstreamAnswered(r) \/ TransportFails(r) \/ TimerFires(r)
  PROVE  Inv'
<1> USE DEF live, UpstreamAnswered, TransportFails, TimerFires, Return, Goto, Relayed, createHttpUpstreamExecutor
<1>1. TypeInv'
  BY DEF Inv, TypeInv, Stages
<1>2. SnapshotInv(r)'
  BY DEF Inv, TypeInv, SnapshotInv, NotYet
<1>3. OutcomeInv(r)'
  BY DEF Inv, TypeInv, SnapshotInv, OutcomeInv, Waiting, Unread, NotYet
<1>4. ASSUME NEW s \in Requests \ {r} PROVE SnapshotInv(s)' /\ OutcomeInv(s)'
  BY OthersKeep DEF Inv, TypeInv
<1>5. GatewayAsBuilt'
  BY DEF Inv, GatewayAsBuilt
<1>6. KeysOutlive' /\ TimelyPresentationsDispatchOnce'
  BY StoreKeeps DEF Inv, TypeInv, SnapshotInv, NotYet
<1> QED BY <1>1, <1>2, <1>3, <1>4, <1>5, <1>6 DEF Inv

LEMMA SendInv ==
  ASSUME Inv, NEW r \in Requests, SendJson(r) \/ SendJsonFails(r)
  PROVE  Inv'
<1> USE DEF live, SendJson, SendJsonFails, Goto
<1>1. TypeInv'
  BY DEF Inv, TypeInv, Stages
<1>2. SnapshotInv(r)'
  BY DEF Inv, TypeInv, SnapshotInv, NotYet, Unknown
<1>3. OutcomeInv(r)'
  BY DEF Inv, TypeInv, SnapshotInv, OutcomeInv, Waiting, Unread, NotYet, Unknown
<1>4. ASSUME NEW s \in Requests \ {r} PROVE SnapshotInv(s)' /\ OutcomeInv(s)'
  BY OthersKeep DEF Inv, TypeInv
<1>5. GatewayAsBuilt'
  BY DEF Inv, GatewayAsBuilt
<1>6. KeysOutlive' /\ TimelyPresentationsDispatchOnce'
  BY StoreKeeps DEF Inv, TypeInv, SnapshotInv, NotYet
<1> QED BY <1>1, <1>2, <1>3, <1>4, <1>5, <1>6 DEF Inv

LEMMA UpstreamInv ==
  ASSUME Inv, NEW r \in Requests, UpstreamStep(r)
  PROVE  Inv'
<1> USE DEF live, UpstreamStep, UpstreamRuns, UpstreamReturns, UpstreamThrows
<1>1. TypeInv'
  BY DEF Inv, TypeInv, Stages
<1>2. SnapshotInv(r)'
  BY DEF Inv, TypeInv, SnapshotInv, NotYet
<1>3. OutcomeInv(r)'
  BY DEF Inv, TypeInv, SnapshotInv, OutcomeInv, Waiting, Unread, NotYet
<1>4. ASSUME NEW s \in Requests \ {r} PROVE SnapshotInv(s)' /\ OutcomeInv(s)'
  BY OthersKeep DEF Inv, TypeInv
<1>5. GatewayAsBuilt'
  BY DEF Inv, GatewayAsBuilt
<1>6. KeysOutlive' /\ TimelyPresentationsDispatchOnce'
  BY StoreKeeps DEF Inv, TypeInv, SnapshotInv, NotYet
<1> QED BY <1>1, <1>2, <1>3, <1>4, <1>5, <1>6 DEF Inv

LEMMA ChangeRequestInv ==
  ASSUME Inv, NEW r \in Requests, ChangeRequest(r)
  PROVE  Inv'
<1> USE DEF live, ChangeRequest
<1>1. TypeInv'
  BY DEF Inv, TypeInv, Stages
<1>2. SnapshotInv(r)'
  BY DEF Inv, TypeInv, SnapshotInv, NotYet
<1>3. OutcomeInv(r)'
  BY DEF Inv, TypeInv, SnapshotInv, OutcomeInv, Waiting, Unread, NotYet
<1>4. ASSUME NEW s \in Requests \ {r} PROVE SnapshotInv(s)' /\ OutcomeInv(s)'
  BY OthersKeep DEF Inv, TypeInv
<1>5. GatewayAsBuilt'
  BY DEF Inv, GatewayAsBuilt
<1>6. KeysOutlive' /\ TimelyPresentationsDispatchOnce'
  BY StoreKeeps DEF Inv, TypeInv, SnapshotInv, NotYet
<1> QED BY <1>1, <1>2, <1>3, <1>4, <1>5, <1>6 DEF Inv

(***************************************************************************)
(* The time-to-live of a consumed key outlasts the authorization: it is    *)
(* counted from the moment the store applies it, which is not before the   *)
(* moment the request was verified.                                        *)
(***************************************************************************)
LEMMA KeyOutlivesAuthorization ==
  ASSUME Inv, NEW r \in Requests, pc[r] = "consume"
  PROVE  /\ \A q \in request[r] : ConsumedId(r) = q.auth
         /\ ConsumedId(r) \in Auths
         /\ Key(r).id = ConsumedId(r)
         /\ Key(r).until \in Int /\ Key(r).until >= Expiry[ConsumedId(r)]
<1>1. PICK q \in request[r] : TRUE
  BY DEF Inv, SnapshotInv
<1>2. request[r] = {q}
  BY <1>1 DEF Inv, SnapshotInv
<1>3. ConsumedId(r) = q.auth /\ q.auth \in Auths /\ asked[r] <= now /\ asked[r] \in Int /\ now \in Nat
  BY <1>2 DEF Inv, TypeInv, SnapshotInv, ConsumedId
<1>4. Expiry[q.auth] \in Nat
  BY <1>3, GatewayConfig
<1>5. /\ Key(r).id = q.auth /\ Key(r).until = now + computeTtl(Expiry[q.auth], asked[r])
  BY <1>3 DEF Key
<1>6. computeTtl(Expiry[q.auth], asked[r]) \in Int
      /\ computeTtl(Expiry[q.auth], asked[r]) >= Expiry[q.auth] - asked[r]
  BY <1>3, <1>4 DEF computeTtl
<1> QED BY <1>2, <1>3, <1>4, <1>5, <1>6

(***************************************************************************)
(* A consume is granted to a second request only when every key of the id  *)
(* has gone, and so only after the authorization expired.                  *)
(***************************************************************************)
LEMMA StoreConsumesInv ==
  ASSUME Inv, NEW r \in Requests, StoreConsumes(r)
  PROVE  Inv'
<1> USE DEF live, StoreConsumes, Goto
<1> DEFINE id == ConsumedId(r)
<1>1. /\ \A q \in request[r] : id = q.auth
      /\ id \in Auths /\ Key(r).id = id
      /\ Key(r).until \in Int /\ Key(r).until >= Expiry[id]
  BY KeyOutlivesAuthorization
<1> HIDE DEF id
<1>2. TypeInv'
  BY <1>1 DEF Inv, TypeInv, Stages
<1>3. SnapshotInv(r)'
  BY DEF Inv, TypeInv, SnapshotInv, NotYet
<1>4. OutcomeInv(r)'
  BY DEF Inv, TypeInv, SnapshotInv, OutcomeInv, Waiting, Unread, NotYet
<1>5. ASSUME NEW s \in Requests \ {r} PROVE SnapshotInv(s)' /\ OutcomeInv(s)'
  BY OthersKeep DEF Inv, TypeInv
<1>6. GatewayAsBuilt'
  BY DEF Inv, GatewayAsBuilt
<1>7. KeysOutlive'
  <2> SUFFICES ASSUME Durable, NEW s \in Requests, answered'[s] # NotYet, NEW q \in request'[s]
               PROVE  \E k \in keys' : k.id = q.auth /\ k.until >= Expiry[q.auth]
    BY DEF KeysOutlive
  <2>1. CASE s = r
    BY <1>1, <2>1
  <2>2. CASE s # r
    BY <2>2 DEF Inv, TypeInv, KeysOutlive
  <2> QED BY <2>1, <2>2
<1>8. ASSUME Durable, NEW s \in Requests \ {r}, answered[s] # NotYet, NEW q \in request[s], q.auth = id
      PROVE  Evicts /\ now >= Expiry[id]
  <2>1. PICK k \in keys : k.id = id /\ k.until >= Expiry[id]
    BY <1>8 DEF Inv, KeysOutlive
  <2>2. ~(Evicts => now < k.until)
    BY <2>1 DEF Held, id
  <2>3. k.until \in Int /\ now \in Int /\ Expiry[id] \in Int
    BY <1>1, <2>1, GatewayConfig DEF Inv, TypeInv
  <2> QED BY <2>1, <2>2, <2>3
<1>9. TimelyPresentationsDispatchOnce'
  <2> SUFFICES ASSUME Durable, NEW s \in Requests, NEW u \in Requests,
                      NEW p \in request'[s], NEW q \in request'[u], p.auth = q.auth,
                      s # u, answered'[s] # NotYet, answered'[u] # NotYet
               PROVE  Evicts /\ (answered'[s] >= Expiry[p.auth] \/ answered'[u] >= Expiry[p.auth])
    BY DEF TimelyPresentationsDispatchOnce
  <2>1. answered'[r] = now /\ \A x \in Requests \ {r} : answered'[x] = answered[x]
    BY DEF Inv, TypeInv
  <2>2. CASE s = r
    BY <1>1, <1>8, <2>1, <2>2
  <2>3. CASE u = r
    BY <1>1, <1>8, <2>1, <2>3
  <2>4. CASE s # r /\ u # r
    BY <2>1, <2>4 DEF Inv, TimelyPresentationsDispatchOnce
  <2> QED BY <2>2, <2>3, <2>4
<1> QED BY <1>2, <1>3, <1>4, <1>5, <1>6, <1>7, <1>9 DEF Inv

LEMMA StoreErrsInv ==
  ASSUME Inv, NEW r \in Requests, StoreErrs(r)
  PROVE  Inv'
<1> USE DEF live, StoreErrs, Return, Goto
<1>1. TypeInv'
  BY KeyOutlivesAuthorization DEF Inv, TypeInv, Stages
<1>2. SnapshotInv(r)'
  BY DEF Inv, TypeInv, SnapshotInv, NotYet
<1>3. OutcomeInv(r)'
  BY DEF Inv, TypeInv, SnapshotInv, OutcomeInv, Waiting, Unread, NotYet
<1>4. ASSUME NEW s \in Requests \ {r} PROVE SnapshotInv(s)' /\ OutcomeInv(s)'
  BY OthersKeep DEF Inv, TypeInv
<1>5. GatewayAsBuilt'
  BY DEF Inv, GatewayAsBuilt
<1>6. KeysOutlive' /\ TimelyPresentationsDispatchOnce'
  BY StoreKeeps DEF Inv
<1> QED BY <1>1, <1>2, <1>3, <1>4, <1>5, <1>6 DEF Inv

----------------------------------------------------------------------------
(* The clock, the process and the deployer. *)

LEMMA TickInv == ASSUME Inv, Tick \/ ChangeOptions PROVE Inv'
<1> USE DEF live, Tick, ChangeOptions
<1>1. TypeInv'
  BY DEF Inv, TypeInv
<1>2. ASSUME NEW s \in Requests PROVE SnapshotInv(s)' /\ OutcomeInv(s)'
  BY OthersKeep DEF Inv, TypeInv
<1>3. GatewayAsBuilt'
  BY DEF Inv, GatewayAsBuilt
<1>4. KeysOutlive' /\ TimelyPresentationsDispatchOnce'
  BY StoreKeeps DEF Inv
<1> QED BY <1>1, <1>2, <1>3, <1>4 DEF Inv

LEMMA CrashInv == ASSUME Inv, Crash PROVE Inv'
<1> USE DEF live, Crash
<1>1. TypeInv'
  BY DEF Inv, TypeInv, Stages
<1>2. crashes' # 0
  BY DEF Inv, TypeInv
<1>3. ASSUME NEW s \in Requests PROVE SnapshotInv(s)'
  BY <1>2 DEF Inv, TypeInv, SnapshotInv, NotYet
<1>4. ASSUME NEW s \in Requests PROVE OutcomeInv(s)'
  BY DEF Inv, TypeInv, SnapshotInv, OutcomeInv, Waiting, Unread, NotYet, Stages
<1>5. GatewayAsBuilt'
  BY <1>2 DEF GatewayAsBuilt
<1>6. KeysOutlive' /\ TimelyPresentationsDispatchOnce'
  BY DEF Inv, KeysOutlive, TimelyPresentationsDispatchOnce
<1> QED BY <1>1, <1>3, <1>4, <1>5, <1>6 DEF Inv

LEMMA NextInv == Inv /\ [Next]_vars => Inv'
<1> SUFFICES ASSUME Inv, [Next]_vars PROVE Inv'
  OBVIOUS
<1>1. ASSUME NEW r \in Requests, NEW d \in DOMAIN Refusal, Refuse(r, d) PROVE Inv'
  BY <1>1, RefuseInv
<1>2. ASSUME NEW r \in Requests, CallStore(r) \/ ChangeRequest(r) PROVE Inv'
  BY <1>2, CallStoreInv, ChangeRequestInv
<1>3. ASSUME NEW r \in Requests, GatewayStep(r) PROVE Inv'
  BY <1>3, StoreConsumesInv, StoreRefusesInv, StoreErrsInv, DispatchInv, AnswerInv, SendInv
     DEF GatewayStep
<1>4. ASSUME NEW r \in Requests, UpstreamStep(r) PROVE Inv'
  BY <1>4, UpstreamInv
<1>5. ASSUME Tick \/ Crash \/ ChangeOptions PROVE Inv'
  BY <1>5, TickInv, CrashInv
<1>6. ASSUME UNCHANGED vars PROVE Inv'
  <2> USE <1>6 DEF vars, live
  <2>1. TypeInv'
    BY DEF Inv, TypeInv
  <2>2. ASSUME NEW s \in Requests PROVE SnapshotInv(s)' /\ OutcomeInv(s)'
    BY OthersKeep DEF Inv, TypeInv
  <2>3. GatewayAsBuilt' /\ KeysOutlive' /\ TimelyPresentationsDispatchOnce'
    BY StoreKeeps DEF Inv, GatewayAsBuilt
  <2> QED BY <2>1, <2>2, <2>3 DEF Inv
<1> QED BY <1>1, <1>2, <1>3, <1>4, <1>5, <1>6 DEF Next

----------------------------------------------------------------------------
(***************************************************************************)
(* The inductive invariant holds in every reachable state.                 *)
(***************************************************************************)
THEOREM InvariantHolds == Spec => []Inv
<1> QED BY InitInv, NextInv, PTL DEF Spec

(***************************************************************************)
(* A caller is never told more, and never something else, than what        *)
(* happened upstream, whatever the upstream does later.                    *)
(***************************************************************************)
THEOREM GatewayAnswersHonestly == Spec => []OutcomeIsHonest
<1>1. Inv => OutcomeIsHonest
  <2> SUFFICES ASSUME Inv, NEW r \in Requests \ Direct
               PROVE  /\ response[r].outcome = "NOT_DISPATCHED"
                           => upstream[r] = "none" /\ r \notin effects /\ response[r].executed = "false"
                      /\ response[r].outcome = "EXECUTED"
                           => r \in effects /\ response[r].executed = "true"
                      /\ response[r].outcome = "INDETERMINATE" => response[r].executed = "null"
                      /\ response[r].outcome = "none" /\ r \in effects
                           => pc[r] \in {"dispatched", "crashed"}
    BY DEF OutcomeIsHonest
  <2>1. OutcomeInv(r) /\ upstream[r] \in {"none", "called", "ran", "ok", "error"}
    BY DEF Inv, TypeInv
  <2> QED BY <2>1 DEF OutcomeInv, Waiting, Unread, NoResponse, NotServed, deny, Indeterminate,
                      Unknown, Executed, Body
<1> QED BY <1>1, InvariantHolds, PTL

(***************************************************************************)
(* What runs upstream is what was verified: the snapshot of a request and  *)
(* the authorities captured at construction decide, and no call around the *)
(* gateway has an effect.                                                  *)
(***************************************************************************)
THEOREM GatewayExecutesAsVerified == Spec => []ExecutedAsVerified
<1>1. Inv => ExecutedAsVerified
  <2> SUFFICES ASSUME Inv PROVE ExecutedAsVerified
    OBVIOUS
  <2>1. ASSUME NEW r \in Requests \ Direct, NEW q \in request[r]
        PROVE  /\ payload[r] \subseteq {ActionOf[q.auth]}
               /\ answered[r] # NotYet /\ Durable => \E k \in keys : k.id = q.auth
               /\ crashes = 0 => IssuerOf[q.auth] \in FirstOptions.authorities
    BY <2>1 DEF Inv, SnapshotInv, KeysOutlive
  <2>2. ASSUME NEW r \in effects
        PROVE  \E q \in request[r] :
                 asked[r] # NotYet /\ asked[r] < Expiry[q.auth] /\ answered[r] # NotYet
    <3>1. r \in Requests /\ SnapshotInv(r) /\ OutcomeInv(r)
      BY DEF Inv, TypeInv
    <3>2. r \notin Direct /\ upstream[r] # "none" /\ answered[r] # NotYet
      BY <3>1 DEF OutcomeInv
    <3> QED BY <3>1, <3>2 DEF SnapshotInv, NotYet
  <2> QED BY <2>1, <2>2 DEF ExecutedAsVerified
<1> QED BY <1>1, InvariantHolds, PTL

(***************************************************************************)
(* With a store that survives restarts, two presentations of one           *)
(* authorization are both dispatched only if the store applied one of the  *)
(* consumes after the authorization had expired.                           *)
(***************************************************************************)
THEOREM GatewayDispatchesOnce == Spec => []TimelyPresentationsDispatchOnce
<1>1. Inv => TimelyPresentationsDispatchOnce
  BY DEF Inv
<1> QED BY <1>1, InvariantHolds, PTL


----------------------------------------------------------------------------
(***************************************************************************)
(* The command line tool.  First what module Evidence computes: its lists  *)
(* are put in order, and picked from, by counting positions, so positions  *)
(* in an order come before the exports and imports, and these before the   *)
(* processes.                                                              *)
(***************************************************************************)
(* Positions in an order. *)

StrictOrder(S, R) ==
  /\ R \in SUBSET (S \X S)
  /\ \A x \in S : <<x, x>> \notin R
  /\ \A x, y, z \in S : <<x, y>> \in R /\ <<y, z>> \in R => <<x, z>> \in R
  /\ \A x, y \in S : x # y => <<x, y>> \in R \/ <<y, x>> \in R

Under(S, R, x) == {y \in S : <<y, x>> \in R}

Ranked(S, R) ==
  /\ \A x \in S : Cardinality(Under(S, R, x)) \in 0..(Cardinality(S) - 1)
  /\ \A x, y \in S : Cardinality(Under(S, R, x)) = Cardinality(Under(S, R, y)) => x = y
  /\ \A k \in 1..Cardinality(S) : \E x \in S : Cardinality(Under(S, R, x)) = k - 1

\* In a finite strict order every rank is taken, and by one element.
LEMMA Ranking ==
  ASSUME NEW S, IsFiniteSet(S), NEW R, StrictOrder(S, R)
  PROVE  Ranked(S, R)
<1> USE DEF StrictOrder, Under, Ranked
<1> DEFINE Below(x) == Under(S, R, x)
           rank == [x \in S |-> Cardinality(Below(x)) + 1]
           n == Cardinality(S)
<1>1. n \in Nat
  BY FS_CardinalityType
<1>2. ASSUME NEW x \in S
      PROVE  /\ IsFiniteSet(Below(x)) /\ Cardinality(Below(x)) \in 0..(n - 1)
  <2>1. x \notin Below(x) /\ Below(x) \in SUBSET S
    OBVIOUS
  <2>2. IsFiniteSet(Below(x)) /\ Cardinality(Below(x)) <= n /\ (n = Cardinality(Below(x)) => S = Below(x))
    BY <2>1, FS_Subset, Zenon
  <2>3. Cardinality(Below(x)) \in Nat
    BY <2>2, FS_CardinalityType
  <2> HIDE DEF Below, n
  <2> QED BY <2>1, <2>2, <2>3, <1>1
<1>3. ASSUME NEW x \in S, NEW y \in S, <<x, y>> \in R
      PROVE  Cardinality(Below(x)) < Cardinality(Below(y))
  <2>1. Below(x) \in SUBSET Below(y) /\ x \in Below(y) /\ x \notin Below(x)
    BY <1>3
  <2>2. Cardinality(Below(x)) <= Cardinality(Below(y)) /\ Cardinality(Below(x)) # Cardinality(Below(y))
    BY <2>1, <1>2, FS_Subset, Zenon
  <2> HIDE DEF Below
  <2> QED BY <2>2, <1>2, <1>1
<1>4. ASSUME NEW x \in S, NEW y \in S, Cardinality(Below(x)) = Cardinality(Below(y))
      PROVE  x = y
  <2>1. CASE <<x, y>> \in R
    <3> HIDE DEF Below, n
    <3> QED BY <2>1, <1>4, <1>3, <1>2, <1>1
  <2>2. CASE <<y, x>> \in R
    <3> HIDE DEF Below, n
    <3> QED BY <2>2, <1>4, <1>3, <1>2, <1>1
  <2> QED BY <2>1, <2>2
<1>5. rank \in Injection(S, 1..n)
  <2> HIDE DEF Below, n
  <2>1. \A x \in S : rank[x] \in 1..n
    BY <1>2, <1>1
  <2>2. \A x, y \in S : rank[x] = rank[y] => x = y
    BY <1>2, <1>4, <1>1
  <2> QED BY <2>1, <2>2 DEF Injection, IsInjective
<1>6. IsFiniteSet(1..n) /\ Cardinality(1..n) = n
  BY <1>1, FS_Interval
<1>7. rank \in Surjection(S, 1..n)
  BY <1>5, <1>6, FS_Injection
<1>8. ASSUME NEW k \in 1..n
      PROVE  \E x \in S : Cardinality(Below(x)) = k - 1
  <2>1. PICK x \in S : rank[x] = k
    BY <1>7 DEF Surjection
  <2> HIDE DEF Below, n
  <2> QED BY <2>1, <1>2, <1>1
<1> HIDE DEF n
<1> QED BY <1>2, <1>4, <1>8 DEF n

\* In an interval the rank of a number is the number.
LEMMA RankInInterval ==
  ASSUME NEW n \in Nat, NEW i \in 1..n
  PROVE  /\ {j \in 1..n : j < i} = 1..(i - 1)
         /\ Cardinality({j \in 1..n : j < i}) = i - 1
<1>1. {j \in 1..n : j < i} = 1..(i - 1)
  OBVIOUS
<1>2. Cardinality(1..(i - 1)) = i - 1
  BY FS_Interval
<1> QED BY <1>1, <1>2

\* Taking every position leaves a list as it is.
LEMMA SubsequenceOfAll ==
  ASSUME NEW X, NEW s \in Seq(X)
  PROVE  Subsequence(s, DOMAIN s) = s
<1>1. DOMAIN s = 1..Len(s) /\ Len(s) \in Nat /\ s = [k \in 1..Len(s) |-> s[k]]
  OBVIOUS
<1>2. Cardinality(1..Len(s)) = Len(s)
  BY <1>1, FS_Interval
<1>3. ASSUME NEW k \in 1..Len(s)
      PROVE  (CHOOSE i \in 1..Len(s) : Cardinality({j \in 1..Len(s) : j < i}) = k - 1) = k
  <2>1. \A i \in 1..Len(s) : Cardinality({j \in 1..Len(s) : j < i}) = i - 1
    BY <1>1, RankInInterval
  <2>2. \A i \in 1..Len(s) : Cardinality({j \in 1..Len(s) : j < i}) = k - 1 => i = k
    BY <2>1, <1>1
  <2>3. Cardinality({j \in 1..Len(s) : j < k}) = k - 1
    BY <2>1
  <2> QED BY <2>2, <2>3, Zenon
<1>4. Subsequence(s, DOMAIN s) =
        [k \in 1..Len(s) |-> s[CHOOSE i \in 1..Len(s) : Cardinality({j \in 1..Len(s) : j < i}) = k - 1]]
  BY <1>1, <1>2 DEF Subsequence
<1> QED BY <1>1, <1>3, <1>4, Zenon

----------------------------------------------------------------------------
(* The order of entries. *)

Entries == [id : Int, ts : Int]
Sorted(s) == \A i, j \in DOMAIN s : i < j => ~Precedes(s[j], s[i])

\* A list of entries is a function from its positions, by number.
LEMMA EntriesAreNumbers ==
  ASSUME NEW s \in Seq(Entries)
  PROVE  /\ DOMAIN s = 1..Len(s) /\ Len(s) \in Nat /\ s \in [1..Len(s) -> Entries]
         /\ s = [k \in 1..Len(s) |-> s[k]]
         /\ \A i \in DOMAIN s : i \in Int /\ s[i].ts \in Int /\ s[i].id \in Int
<1>1. DOMAIN s = 1..Len(s) /\ Len(s) \in Nat /\ s \in [1..Len(s) -> Entries]
  OBVIOUS
<1>2. \A i \in DOMAIN s : s[i] \in Entries
  BY <1>1
<1>3. \A e \in Entries : e.ts \in Int /\ e.id \in Int
  BY DEF Entries
<1> QED BY <1>1, <1>2, <1>3

\* Time, then name, then position order the positions of a list strictly.
LEMMA EarlierOrders ==
  ASSUME NEW s \in Seq(Entries)
  PROVE  /\ \A i \in DOMAIN s : ~Earlier(s, i, i)
         /\ \A i, j, k \in DOMAIN s : Earlier(s, i, j) /\ Earlier(s, j, k) => Earlier(s, i, k)
         /\ \A i, j \in DOMAIN s : i # j => Earlier(s, i, j) \/ Earlier(s, j, i)
<1>1. \A i \in DOMAIN s : i \in Int /\ s[i].ts \in Int /\ s[i].id \in Int
  BY EntriesAreNumbers
<1> QED BY <1>1 DEF Earlier, Precedes

\* Putting a list in order keeps its length and its elements.
LEMMA ChronologicalSorts ==
  ASSUME NEW s \in Seq(Entries)
  PROVE  /\ Chronological(s) \in Seq(Entries) /\ Len(Chronological(s)) = Len(s)
         /\ Elements(Chronological(s)) = Elements(s)
         /\ Sorted(Chronological(s))
<1> DEFINE n == Len(s)
           D == 1..n
           R == {r \in D \X D : Earlier(s, r[1], r[2])}
           B(i) == Under(D, R, i)
           at == [k \in D |-> CHOOSE i \in D : Cardinality({j \in D : Earlier(s, j, i)}) = k - 1]
<1>1. n \in Nat /\ DOMAIN s = D /\ IsFiniteSet(D) /\ Cardinality(D) = n /\ s \in [D -> Entries]
  <2>1. n \in Nat /\ DOMAIN s = D /\ s \in [D -> Entries]
    BY EntriesAreNumbers
  <2>2. IsFiniteSet(D) /\ Cardinality(D) = n
    BY <2>1, FS_Interval
  <2> QED BY <2>1, <2>2
<1>2. \A i \in D : B(i) = {j \in D : Earlier(s, j, i)}
  BY DEF Under
<1>3. StrictOrder(D, R)
  BY <1>1, EarlierOrders DEF StrictOrder
<1>4. /\ \A i \in D : Cardinality(B(i)) \in 0..(n - 1)
      /\ \A i, j \in D : Cardinality(B(i)) = Cardinality(B(j)) => i = j
      /\ \A k \in D : \E i \in D : Cardinality(B(i)) = k - 1
  <2>1. Ranked(D, R)
    <3> HIDE DEF D, R
    <3> QED BY <1>1, <1>3, Ranking
  <2> QED BY <2>1, <1>1 DEF Ranked
<1>5. \A k \in D : at[k] \in D /\ Cardinality(B(at[k])) = k - 1
  <2> HIDE DEF D, B
  <2>1. ASSUME NEW k \in D
        PROVE  \E i \in D : Cardinality({j \in D : Earlier(s, j, i)}) = k - 1
    BY <1>4, <1>2
  <2>2. ASSUME NEW k \in D
        PROVE  at[k] \in D /\ Cardinality({j \in D : Earlier(s, j, at[k])}) = k - 1
    BY <2>1
  <2> QED BY <2>2, <1>2
<1>6. \A i \in D : \E k \in D : at[k] = i
  <2> TAKE i \in D
  <2> DEFINE k == Cardinality(B(i)) + 1
  <2>1. k \in D /\ Cardinality(B(i)) = k - 1
    <3>1. Cardinality(B(i)) \in 0..(n - 1)
      BY <1>4
    <3> HIDE DEF B, n
    <3> QED BY <3>1, <1>1
  <2> HIDE DEF k, D, B
  <2>2. Cardinality(B(at[k])) = k - 1 /\ at[k] \in D
    BY <2>1, <1>5
  <2>3. at[k] = i
    BY <2>1, <2>2, <1>4
  <2> QED BY <2>1, <2>3
<1>7. Chronological(s) = [k \in D |-> s[at[k]]]
  BY <1>1 DEF Chronological
<1>8. Chronological(s) \in [1..n -> Entries]
  BY <1>7, <1>5, <1>1
<1>9. Chronological(s) \in Seq(Entries) /\ Len(Chronological(s)) = n
  BY <1>8, <1>1
<1>10. Elements(Chronological(s)) = Elements(s)
  <2> HIDE DEF D, at, B
  <2>1. Elements(s) = {s[i] : i \in D} /\ Elements(Chronological(s)) = {s[at[k]] : k \in D}
    BY <1>1, <1>7 DEF Elements
  <2> QED BY <2>1, <1>5, <1>6
<1>11. ASSUME NEW i \in D, NEW j \in D, i < j
       PROVE  ~Precedes(s[at[j]], s[at[i]])
  <2>1. SUFFICES ASSUME Precedes(s[at[j]], s[at[i]])
                 PROVE  FALSE
    OBVIOUS
  <2>2. Earlier(s, at[j], at[i])
    BY <2>1 DEF Earlier
  <2>3. B(at[j]) \in SUBSET B(at[i]) /\ IsFiniteSet(B(at[i]))
    <3>1. <<at[j], at[i]>> \in R
      <4>1. at[j] \in D /\ at[i] \in D
        BY <1>5
      <4> HIDE DEF at, D
      <4> QED BY <2>2, <4>1
    <3>2. B(at[i]) \in SUBSET D
      BY DEF Under
    <3>3. IsFiniteSet(B(at[i]))
      BY <3>2, <1>1, FS_Subset
    <3> HIDE DEF R, D, at
    <3> QED BY <3>1, <3>3, <1>3, <1>5 DEF StrictOrder, Under
  <2>4. Cardinality(B(at[j])) <= Cardinality(B(at[i]))
    <3> HIDE DEF B
    <3> QED BY <2>3, FS_Subset
  <2> HIDE DEF B, at
  <2> QED BY <2>4, <1>5, <1>11, <1>1
<1>12. Sorted(Chronological(s))
  <2> HIDE DEF at
  <2> QED BY <1>7, <1>11 DEF Sorted
<1> QED BY <1>9, <1>10, <1>12

\* A list in order is left as it is.
LEMMA SortedIsChronological ==
  ASSUME NEW t \in Seq(Entries), Sorted(t)
  PROVE  Chronological(t) = t
<1> DEFINE n == Len(t)
<1>1. n \in Nat /\ DOMAIN t = 1..n /\ t = [k \in 1..n |-> t[k]] /\ \A k \in 1..n : t[k].ts \in Int /\ t[k].id \in Int
  BY EntriesAreNumbers
<1>2. ASSUME NEW i \in 1..n
      PROVE  {j \in 1..n : Earlier(t, j, i)} = {j \in 1..n : j < i}
  <2>1. ASSUME NEW j \in 1..n
        PROVE  Earlier(t, j, i) <=> j < i
    <3>1. CASE j < i
      BY <3>1, <1>1 DEF Sorted, Earlier
    <3>2. CASE i < j
      BY <3>2, <1>1 DEF Sorted, Earlier
    <3>3. CASE i = j
      BY <3>3, <1>1 DEF Earlier, Precedes
    <3> QED BY <3>1, <3>2, <3>3
  <2> QED BY <2>1
<1>3. \A i \in 1..n : Cardinality({j \in 1..n : Earlier(t, j, i)}) = i - 1
  BY <1>1, <1>2, RankInInterval
<1>4. ASSUME NEW k \in 1..n
      PROVE  (CHOOSE i \in 1..n : Cardinality({j \in 1..n : Earlier(t, j, i)}) = k - 1) = k
  <2>1. \A i \in 1..n : Cardinality({j \in 1..n : Earlier(t, j, i)}) = k - 1 => i = k
    <3> HIDE DEF n
    <3> QED BY <1>3, <1>1
  <2> QED BY <2>1, <1>3, Zenon
<1>5. Chronological(t) = [k \in 1..n |-> t[CHOOSE i \in 1..n : Cardinality({j \in 1..n : Earlier(t, j, i)}) = k - 1]]
  BY <1>1 DEF Chronological
<1> QED BY <1>1, <1>4, <1>5, Zenon

\* A list that is put in order twice is in the order of the first time.
LEMMA ChronologicalTwice ==
  ASSUME NEW s \in Seq(Entries)
  PROVE  Chronological(Chronological(s)) = Chronological(s)
BY ChronologicalSorts, SortedIsChronological

\* A set written as a list in order has the elements of the set.
LEMMA AsListKeepsElements ==
  ASSUME NEW E \in SUBSET Int, IsFiniteSet(E)
  PROVE  AsList(E) \in Seq(Int) /\ Elements(AsList(E)) = E
<1> DEFINE n == Cardinality(E)
           R == {r \in E \X E : r[1] < r[2]}
           B(x) == Under(E, R, x)
           L == [k \in 1..n |-> CHOOSE x \in E : Cardinality({y \in E : y < x}) = k - 1]
<1>1. n \in Nat
  BY FS_CardinalityType
<1>2. \A x \in E : B(x) = {y \in E : y < x}
  BY DEF Under
<1>3. /\ \A x \in E : Cardinality(B(x)) \in 0..(n - 1)
      /\ \A x, y \in E : Cardinality(B(x)) = Cardinality(B(y)) => x = y
      /\ \A k \in 1..n : \E x \in E : Cardinality(B(x)) = k - 1
  <2>1. StrictOrder(E, R)
    BY DEF StrictOrder
  <2> HIDE DEF R
  <2>2. Ranked(E, R)
    BY <2>1, Ranking
  <2> QED BY <2>2 DEF Ranked
<1>4. \A k \in 1..n : L[k] \in E /\ Cardinality(B(L[k])) = k - 1
  <2> HIDE DEF n, B
  <2>1. ASSUME NEW k \in 1..n
        PROVE  \E x \in E : Cardinality({y \in E : y < x}) = k - 1
    BY <1>3, <1>2
  <2>2. ASSUME NEW k \in 1..n
        PROVE  L[k] \in E /\ Cardinality({y \in E : y < L[k]}) = k - 1
    BY <2>1
  <2> QED BY <2>2, <1>2
<1>5. ASSUME NEW x \in E
      PROVE  \E k \in 1..n : L[k] = x
  <2> DEFINE k == Cardinality(B(x)) + 1
  <2> HIDE DEF B, n
  <2>1. k \in 1..n /\ Cardinality(B(x)) = k - 1
    BY <1>1, <1>3
  <2> HIDE DEF k, L
  <2>2. L[k] = x
    BY <2>1, <1>3, <1>4
  <2> QED BY <2>1, <2>2
<1>6. AsList(E) = L
  BY DEF AsList
<1>7. L \in [1..n -> Int]
  <2> HIDE DEF n
  <2> QED BY <1>4
<1> HIDE DEF L, n
<1>8. Elements(L) = E
  BY <1>4, <1>5, <1>7 DEF Elements
<1> QED BY <1>1, <1>6, <1>7, <1>8

----------------------------------------------------------------------------
(***************************************************************************)
(* What is exported and imported again.                                    *)
(***************************************************************************)
Back(id, mods) == deserializeState(id, serializeState(id, mods))

\* Amounts that the import accepts: decimal numbers without a sign.
AmountsWithoutSign(s) ==
  LET b == s.mods["BudgetModule"] IN optional(b.limit) /\ optional(b.spent) /\ optional(b.cap)

\* A list has finitely many elements.
LEMMA ElementsOfASequence ==
  ASSUME NEW X, NEW s \in Seq(X)
  PROVE  IsFiniteSet(Elements(s)) /\ Elements(s) \in SUBSET X
<1>1. DOMAIN s = 1..Len(s) /\ Len(s) \in Nat /\ s \in [1..Len(s) -> X]
  OBVIOUS
<1>2. s \in Surjection(1..Len(s), Elements(s))
  BY <1>1 DEF Surjection, Elements
<1>3. IsFiniteSet(1..Len(s))
  BY <1>1, FS_Interval
<1>4. IsFiniteSet(Elements(s))
  BY <1>2, <1>3, FS_Surjection
<1> QED BY <1>1, <1>4 DEF Elements

\* An allowlist comes back without repetitions and in order, as its canonical form.
LEMMA AllowlistsComeBack ==
  ASSUME NEW s, WellShaped(s)
  PROVE  LET p == s.mods["AllowlistModule"]
             q == Back("AllowlistModule", s.mods)
         IN /\ Normal("AllowlistModule", q) = Normal("AllowlistModule", p)
            /\ Elements(q.listed) = Elements(p.listed) /\ q.listed \in Seq(Int) /\ p.listed \in Seq(Int)
            /\ q.listed = <<>> <=> p.listed = <<>>
<1> DEFINE p == s.mods["AllowlistModule"]
           E == Elements(p.listed)
<1>1. p.listed \in Seq(Int)
  BY DEF WellShaped, ModuleIds, Parts
<1>2. IsFiniteSet(E) /\ E \in SUBSET Int
  BY <1>1, ElementsOfASequence
<1>3. AsList(E) \in Seq(Int) /\ Elements(AsList(E)) = E
  BY <1>2, AsListKeepsElements
<1>4. ASSUME NEW l \in Seq(Int)
      PROVE  l = <<>> <=> Elements(l) = {}
  <2>1. DOMAIN l = 1..Len(l) /\ Len(l) \in Nat /\ (Len(l) = 0 <=> l = <<>>)
    OBVIOUS
  <2>2. l # <<>> => l[1] \in Elements(l)
    BY <2>1 DEF Elements
  <2>3. l = <<>> => Elements(l) = {}
    BY <2>1 DEF Elements
  <2> QED BY <2>2, <2>3
<1>5. Back("AllowlistModule", s.mods) = [listed |-> AsList(E)]
  BY DEF Back, deserializeState, serializeState, Normal, normalizeAllowlists
<1> QED BY <1>1, <1>3, <1>4, <1>5 DEF Normal, normalizeAllowlists

\* The nonces come back in the order of their times.
LEMMA RepliesComeBack ==
  ASSUME NEW s, WellShaped(s)
  PROVE  LET p == s.mods["ReplayModule"]
             q == Back("ReplayModule", s.mods)
         IN /\ q = Normal("ReplayModule", p) /\ Normal("ReplayModule", q) = q
            /\ Elements(q.nonces) = Elements(p.nonces)
            /\ p.nonces \in Seq(Entries) /\ q.nonces \in Seq(Entries)
            /\ Serializable("ReplayModule", p) => Serializable("ReplayModule", q)
<1> DEFINE p == s.mods["ReplayModule"]
           t == Chronological(p.nonces)
           q == [window |-> p.window, max |-> p.max, nonces |-> t]
<1>1. p \in [window : Int, max : Int, nonces : Seq(Entries)]
  BY DEF WellShaped, ModuleIds, Parts, Entries
<1>2. p.nonces \in Seq(Entries)
  BY <1>1
<1>3. /\ t \in Seq(Entries) /\ Len(t) = Len(p.nonces) /\ Elements(t) = Elements(p.nonces)
      /\ Chronological(t) = t
  BY <1>2, ChronologicalSorts, ChronologicalTwice
<1>4. normalizeReplay(p) = q
  BY <1>1 DEF normalizeReplay
<1>5. normalizeReplay(q) = q
  BY <1>3 DEF normalizeReplay
<1>6. Normal("ReplayModule", p) = q /\ Normal("ReplayModule", q) = q
  BY <1>4, <1>5 DEF Normal
<1>7. Back("ReplayModule", s.mods) = q
  BY <1>6 DEF Back, deserializeState, serializeState
<1>8. ASSUME Serializable("ReplayModule", p)
      PROVE  Serializable("ReplayModule", q)
  <2>1. \A k \in DOMAIN p.nonces : assertInt(p.nonces[k].ts)
    BY <1>8 DEF Serializable
  <2>2. \A e \in Elements(p.nonces) : assertInt(e.ts)
    BY <2>1 DEF Elements
  <2>3. \A k \in DOMAIN t : t[k] \in Elements(t)
    BY DEF Elements
  <2>4. \A k \in DOMAIN t : assertInt(t[k].ts)
    BY <2>2, <2>3, <1>3
  <2> QED BY <1>3, <1>8, <2>4 DEF Serializable, Distinct
<1> HIDE DEF t
<1> QED BY <1>2, <1>3, <1>6, <1>7, <1>8

\* So do the tool calls; what could be written once can be written again.
LEMMA CallsComeBack ==
  ASSUME NEW s, WellShaped(s)
  PROVE  LET p == s.mods["ToolAmplificationModule"]
             q == Back("ToolAmplificationModule", s.mods)
         IN /\ q = Normal("ToolAmplificationModule", p) /\ Normal("ToolAmplificationModule", q) = q
            /\ q.max = p.max /\ q.window = p.window
            /\ Serializable("ToolAmplificationModule", p) => Serializable("ToolAmplificationModule", q)
<1> DEFINE p == s.mods["ToolAmplificationModule"]
           t == Chronological(p.calls)
           q == [window |-> p.window, max |-> p.max, calls |-> t]
<1>1. p \in [window : Int, max : Int, calls : Seq(Entries)]
  BY DEF WellShaped, ModuleIds, Parts, Entries
<1>2. p.calls \in Seq(Entries)
  BY <1>1
<1>3. /\ t \in Seq(Entries) /\ Len(t) = Len(p.calls) /\ Elements(t) = Elements(p.calls)
      /\ Chronological(t) = t
  BY <1>2, ChronologicalSorts, ChronologicalTwice
<1>4. normalizeToolLimits(p) = q
  BY <1>1 DEF normalizeToolLimits
<1>5. normalizeToolLimits(q) = q
  BY <1>3 DEF normalizeToolLimits
<1>6. Normal("ToolAmplificationModule", p) = q /\ Normal("ToolAmplificationModule", q) = q
  BY <1>4, <1>5 DEF Normal
<1>7. Back("ToolAmplificationModule", s.mods) = q
  BY <1>6 DEF Back, deserializeState, serializeState
<1>8. ASSUME Serializable("ToolAmplificationModule", p)
      PROVE  Serializable("ToolAmplificationModule", q)
  <2>1. \A k \in DOMAIN p.calls : assertInt(p.calls[k].ts)
    BY <1>8 DEF Serializable
  <2>2. \A e \in Elements(p.calls) : assertInt(e.ts)
    BY <2>1 DEF Elements
  <2>3. \A k \in DOMAIN t : t[k] \in Elements(t)
    BY DEF Elements
  <2>4. \A k \in DOMAIN t : assertInt(t[k].ts)
    BY <2>2, <2>3, <1>3
  <2> QED BY <1>8, <2>4 DEF Serializable
<1> HIDE DEF t
<1> QED BY <1>6, <1>7, <1>8

\* The authorizations that hold a slot come back, and their count with them.  A
\* cap is stated in every state that init accepted.
LEMMA LeasesComeBack ==
  ASSUME NEW s, WellShaped(s), s.mods["ConcurrencyModule"].max # NoInt
  PROVE  LET p == s.mods["ConcurrencyModule"]
             q == Back("ConcurrencyModule", s.mods)
         IN /\ q = Normal("ConcurrencyModule", p) /\ Normal("ConcurrencyModule", q) = q
            /\ q.max = p.max /\ OrZero(q.active) = OrZero(p.active) /\ q.auths = p.auths
            /\ Serializable("ConcurrencyModule", p) => Serializable("ConcurrencyModule", q)
<1> DEFINE p == s.mods["ConcurrencyModule"]
           q == [max |-> p.max, active |-> IF p.active = NoInt THEN 0 ELSE p.active, auths |-> p.auths]
<1>1. p \in [max : Int, active : Int, auths : SUBSET Int]
  BY DEF WellShaped, ModuleIds, Parts
<1>2. p # [max |-> NoInt, active |-> NoInt, auths |-> {}]
  OBVIOUS
<1>3. normalizeConcurrency(p) = q
  BY <1>1, <1>2 DEF normalizeConcurrency
<1>4. normalizeConcurrency(q) = q
  BY DEF normalizeConcurrency, NoInt
<1>5. Normal("ConcurrencyModule", p) = q /\ Normal("ConcurrencyModule", q) = q
  BY <1>3, <1>4 DEF Normal
<1>6. Back("ConcurrencyModule", s.mods) = q
  BY <1>5 DEF Back, deserializeState, serializeState
<1>7. Serializable("ConcurrencyModule", p) => Serializable("ConcurrencyModule", q)
  BY <1>3, <1>4 DEF Serializable
<1> QED BY <1>5, <1>6, <1>7 DEF OrZero, NoInt

Plain == {"BudgetModule", "VelocityModule", "RecursionDepthModule", "KillSwitchModule"}

\* The modules whose canonical form only fills in defaults come back as they were written.
LEMMA PlainPartsComeBack ==
  ASSUME NEW s, NEW id \in Plain
  PROVE  Back(id, s.mods) = s.mods[id] /\ \A p : Normal(id, p) = p
BY DEF Plain, Back, deserializeState, serializeState, Normal, normalizeBudget, normalizeVelocity

\* Every part comes back with the same canonical form, and can be written again.
LEMMA PartsComeBack ==
  ASSUME NEW s, WellShaped(s), s.mods["ConcurrencyModule"].max # NoInt, NEW id \in ModuleIds,
         Serializable(id, s.mods[id])
  PROVE  /\ Normal(id, Back(id, s.mods)) = Normal(id, s.mods[id])
         /\ Serializable(id, Back(id, s.mods))
         /\ Serializable(id, Normal(id, s.mods[id]))
<1>1. CASE id = "AllowlistModule"
  BY <1>1, AllowlistsComeBack DEF Serializable
<1>2. CASE id = "ReplayModule"
  BY <1>2, RepliesComeBack
<1>3. CASE id = "ToolAmplificationModule"
  BY <1>3, CallsComeBack
<1>4. CASE id = "ConcurrencyModule"
  BY <1>4, LeasesComeBack
<1>5. CASE id \in Plain
  BY <1>5, PlainPartsComeBack
<1> QED BY <1>1, <1>2, <1>3, <1>4, <1>5 DEF ModuleIds, Plain

\* A snapshot names every module of the state, in one order.
LEMMA EveryModuleIsSorted ==
  /\ DOMAIN SortedIds = 1..8
  /\ \A id \in ModuleIds : \E k \in 1..8 : SortedIds[k] = id
  /\ \A k \in 1..8 : SortedIds[k] \in ModuleIds
BY DEF SortedIds, ModuleIds

\* The import accepts what the export wrote, when its amounts have no sign.
LEMMA WhatIsExportedIsAccepted ==
  ASSUME NEW s, WellShaped(s), s.mods["ConcurrencyModule"].max # NoInt, AmountsWithoutSign(s),
         ~exportThrows(s), NEW id \in ModuleIds
  PROVE  Deserializable(id, serializeState(id, s.mods))
<1>1. Serializable(id, Normal(id, s.mods[id]))
  BY PartsComeBack DEF exportThrows
<1>2. CASE id = "BudgetModule"
  BY <1>1, <1>2, PlainPartsComeBack DEF Deserializable, serializeState, AmountsWithoutSign, Plain
<1>3. CASE id = "KillSwitchModule"
  BY <1>1, <1>3, PlainPartsComeBack DEF Deserializable, serializeState, Plain, WellShaped, Parts, ModuleIds
<1> QED BY <1>1, <1>2, <1>3 DEF Deserializable, serializeState

\* Import after export gives every module the part it was written from.
LEMMA ImportOfExport ==
  ASSUME NEW s, WellShaped(s), s.mods["ConcurrencyModule"].max # NoInt, AmountsWithoutSign(s),
         ~exportThrows(s), NEW policyId, NEW current
  PROVE  LET r == importState(current, Blank, exportState(s, policyId), policyId)
         IN /\ r.ok
            /\ r.current = [version |-> "v1", mods |-> [id \in ModuleIds |-> Back(id, s.mods)]]
<1> DEFINE snap == exportState(s, policyId)
           all == DOMAIN SortedIds
           before == {k \in all : \A r \in Refused(snap) : k < r}
<1>1. /\ snap.formatVersion = 1 /\ snap.policyId = policyId /\ DOMAIN snap.modules = ModuleIds
      /\ \A id \in ModuleIds : snap.modules[id] = serializeState(id, s.mods)
  BY DEF exportState, Snapshot
<1>2. Refused(snap) = {}
  BY <1>1, WhatIsExportedIsAccepted, EveryModuleIsSorted DEF Refused
<1>3. before = all
  BY <1>2
<1>4. \A id \in ModuleIds : ~\A k \in all : SortedIds[k] # id
  BY EveryModuleIsSorted
<1>5. Restored(Blank, snap, all) = [version |-> "v1", mods |-> [id \in ModuleIds |-> Back(id, s.mods)]]
  <2> HIDE DEF snap, all
  <2>1. [id \in ModuleIds |->
           IF \A k \in all : SortedIds[k] # id THEN Blank.mods[id]
           ELSE IF id \in DOMAIN snap.modules THEN deserializeState(id, snap.modules[id])
           ELSE Default(id)] = [id \in ModuleIds |-> Back(id, s.mods)]
    BY <1>1, <1>4 DEF Back
  <2>2. \A m : [Blank EXCEPT !.mods = m] = [version |-> "v1", mods |-> m]
    <3> DEFINE d == [id \in ModuleIds |-> Default(id)]
    <3>1. Blank = [version |-> "v1", mods |-> d]
      BY DEF Blank
    <3> HIDE DEF d
    <3> QED BY <3>1
  <2> QED BY <2>1, <2>2, Zenon DEF Restored
<1>6. importState(current, Blank, snap, policyId) =
        [ok |-> TRUE, current |-> Restored(Blank, snap, all), target |-> Restored(Blank, snap, all)]
  <2> HIDE DEF snap
  <2> QED BY <1>1, <1>3 DEF importState
<1> QED BY <1>5, <1>6

\* A state that came back has the verdicts of the one it was exported from.
LEMMA VerdictsComeBack ==
  ASSUME NEW s, WellShaped(s), s.mods["ConcurrencyModule"].max # NoInt, NEW r,
         r.mods = [id \in ModuleIds |-> Back(id, s.mods)], NEW nonce \in Int, NEW amount \in Int
  PROVE  /\ ModuleVerdicts(r, nonce, amount) = ModuleVerdicts(s, nonce, amount)
         /\ StateInvalid(r) <=> StateInvalid(s)
<1>1. /\ r.mods["KillSwitchModule"] = s.mods["KillSwitchModule"]
      /\ r.mods["RecursionDepthModule"] = s.mods["RecursionDepthModule"]
      /\ r.mods["BudgetModule"] = s.mods["BudgetModule"]
      /\ r.mods["VelocityModule"] = s.mods["VelocityModule"]
  BY PlainPartsComeBack DEF Plain, ModuleIds
<1>2. /\ Elements(r.mods["AllowlistModule"].listed) = Elements(s.mods["AllowlistModule"].listed)
      /\ r.mods["AllowlistModule"].listed = <<>> <=> s.mods["AllowlistModule"].listed = <<>>
  BY AllowlistsComeBack DEF ModuleIds
<1>3. /\ r.mods["ConcurrencyModule"].max = s.mods["ConcurrencyModule"].max
      /\ OrZero(r.mods["ConcurrencyModule"].active) = OrZero(s.mods["ConcurrencyModule"].active)
      /\ r.mods["ConcurrencyModule"].auths = s.mods["ConcurrencyModule"].auths
  BY LeasesComeBack DEF ModuleIds
<1>4. /\ r.mods["ToolAmplificationModule"].max = s.mods["ToolAmplificationModule"].max
      /\ r.mods["ToolAmplificationModule"].window = s.mods["ToolAmplificationModule"].window
  BY CallsComeBack DEF ModuleIds
<1>5. (\E k \in DOMAIN r.mods["ReplayModule"].nonces : r.mods["ReplayModule"].nonces[k].id = nonce)
        <=> \E k \in DOMAIN s.mods["ReplayModule"].nonces : s.mods["ReplayModule"].nonces[k].id = nonce
  <2>1. Elements(r.mods["ReplayModule"].nonces) = Elements(s.mods["ReplayModule"].nonces)
    BY RepliesComeBack DEF ModuleIds
  <2>2. \A l : (\E k \in DOMAIN l : l[k].id = nonce) <=> \E e \in Elements(l) : e.id = nonce
    BY DEF Elements
  <2> DEFINE l == r.mods["ReplayModule"].nonces
             k == s.mods["ReplayModule"].nonces
  <2>3. (\E i \in DOMAIN l : l[i].id = nonce) <=> \E e \in Elements(l) : e.id = nonce
    BY <2>2, Zenon
  <2>4. (\E i \in DOMAIN k : k[i].id = nonce) <=> \E e \in Elements(k) : e.id = nonce
    BY <2>2, Zenon
  <2> QED BY <2>1, <2>3, <2>4, Zenon
<1>6. ModuleVerdicts(r, nonce, amount) = ModuleVerdicts(s, nonce, amount)
  <2> DEFINE denied(c) == IF c THEN "DENY" ELSE "ALLOW"
             kill(x) == denied(x.mods["KillSwitchModule"].global)
             listed(x) == denied(x.mods["AllowlistModule"].listed # <<>> /\ 1 \notin Elements(x.mods["AllowlistModule"].listed))
             replayed(x) == denied(\E k \in DOMAIN x.mods["ReplayModule"].nonces : x.mods["ReplayModule"].nonces[k].id = nonce)
             deep(x) == denied(x.mods["RecursionDepthModule"].depth < 0)
             leased(x) == LET m == x.mods["ConcurrencyModule"]
                          IN IF OrZero(m.active) < Cardinality(m.auths) THEN "STATE_INVALID"
                             ELSE denied(OrZero(m.active) >= m.max)
             spent(x) == LET m == x.mods["BudgetModule"]
                         IN denied(OrZero(m.spent) + amount > m.limit \/ amount > m.cap)
             counted(x) == LET m == x.mods["VelocityModule"]
                           IN IF m.window <= 0 \/ m.max < 0 THEN "STATE_INVALID" ELSE denied(OrZero(m.count) >= m.max)
  <2>1. \A x : ModuleVerdicts(x, nonce, amount) =
                 <<kill(x), listed(x), replayed(x), deep(x), leased(x), spent(x), counted(x)>>
    BY Zenon DEF ModuleVerdicts
  <2>2. kill(r) = kill(s) /\ deep(r) = deep(s) /\ spent(r) = spent(s) /\ counted(r) = counted(s)
    BY <1>1
  <2>3. listed(r) = listed(s)
    BY <1>2
  <2>4. replayed(r) = replayed(s)
    BY <1>5, Zenon
  <2>5. leased(r) = leased(s)
    BY <1>3
  <2> HIDE DEF kill, listed, replayed, deep, leased, spent, counted
  <2> QED BY <2>1, <2>2, <2>3, <2>4, <2>5, Zenon
<1>7. StateInvalid(r) <=> StateInvalid(s)
  BY <1>1, <1>3, <1>4 DEF StateInvalid
<1> QED BY <1>6, <1>7

\* So an exported state is restored: with its hash, and with its decisions.
LEMMA ExportsAreRestorable ==
  ASSUME NEW s, WellShaped(s), ~StateInvalid(s), AmountsWithoutSign(s), ~exportThrows(s),
         NEW id, id # NoPolicy
  PROVE  Restorable(s, id)
<1> DEFINE snap == exportState(s, id)
           hash == computeStateHash(s, id)
           r == importState(Blank, Blank, snap, id)
           c == r.current
           damaged(m) == importState(s, Blank, [snap EXCEPT !.modules[m].form = "text"], id)
           lacking(m) == [snap EXCEPT !.modules = [k \in ModuleIds \ {m} |-> snap.modules[k]]]
<1>1. s.mods["ConcurrencyModule"].max # NoInt
  BY DEF StateInvalid
<1>2. r.ok /\ c = [version |-> "v1", mods |-> [m \in ModuleIds |-> Back(m, s.mods)]]
  BY <1>1, ImportOfExport
<1>3. \A m \in ModuleIds : c.mods[m] = Back(m, s.mods) /\ Normal(m, c.mods[m]) = Normal(m, s.mods[m])
                            /\ Serializable(m, c.mods[m])
  BY <1>1, <1>2, PartsComeBack DEF exportThrows
<1>4. snap = [parses |-> TRUE, formatVersion |-> 1, policyId |-> id,
              modules |-> [m \in ModuleIds |-> serializeState(m, s.mods)]]
  BY DEF exportState, Snapshot
<1>5. hash = [policyId |-> id, modules |-> [m \in ModuleIds |-> serializeState(m, s.mods)]]
  BY DEF computeStateHash
<1> HIDE DEF r, snap, hash
<1>6. computeStateHash(c, id) = hash
  BY <1>3, <1>5 DEF computeStateHash, serializeState
<1>7. verifySnapshot(snap, id).hash = hash
  BY <1>4, <1>5 DEF verifySnapshot, assertCanonicalState, validateCanonicalStateJson, Result
<1>8. ASSUME NEW n \in Nonces
      PROVE  evaluatePure(c, n, 1, clock, id) = evaluatePure(s, n, 1, clock, id)
  <2>1. n \in Int
    BY CliConfig
  <2>2. ModuleVerdicts(c, n, 1) = ModuleVerdicts(s, n, 1) /\ (StateInvalid(c) <=> StateInvalid(s))
    BY <1>1, <1>2, <2>1, VerdictsComeBack
  <2>3. ~exportThrows(c)
    BY <1>3 DEF exportThrows
  <2>4. runDecisionModules(c, n, 1) = runDecisionModules(s, n, 1)
    <3> DEFINE verdict(v) == LET denials == {k \in DOMAIN v : v[k] # "ALLOW"}
                             IN IF denials = {} THEN "ALLOW" ELSE v[CHOOSE k \in denials : \A j \in denials : k <= j]
    <3>1. \A x : runDecisionModules(x, n, 1) = verdict(ModuleVerdicts(x, n, 1))
      BY Zenon DEF runDecisionModules
    <3> HIDE DEF verdict, c
    <3> QED BY <2>2, <3>1, Zenon
  <2> HIDE DEF c
  <2> QED BY <2>2, <2>3, <2>4 DEF evaluatePure
<1>9. ASSUME NEW m \in ModuleIds
      PROVE  ~damaged(m).ok /\ damaged(m).current = s
  <2> DEFINE text == [snap EXCEPT !.modules[m].form = "text"]
             before == {k \in DOMAIN SortedIds : \A x \in Refused(text) : k < x}
  <2>1. serializeState(m, s.mods) = [form |-> "object", part |-> Normal(m, s.mods[m])]
    BY DEF serializeState
  <2>2. /\ text.formatVersion = 1 /\ text.policyId = id /\ DOMAIN text.modules = ModuleIds
        /\ text.modules[m].form = "text"
    BY <1>4, <2>1
  <2> HIDE DEF text
  <2>3. PICK k \in DOMAIN SortedIds : SortedIds[k] = m
    BY EveryModuleIsSorted
  <2>4. k \in Refused(text)
    BY <2>2, <2>3 DEF Refused, Deserializable
  <2>5. k \notin before
    BY <2>4, EveryModuleIsSorted
  <2>6. before # DOMAIN SortedIds
    BY <2>5
  <2> HIDE DEF before
  <2>7. importState(s, Blank, text, id).ok = FALSE /\ importState(s, Blank, text, id).current = s
    BY <2>2, <2>6 DEF importState, before
  <2> QED BY <2>7 DEF text
<1>10. ASSUME NEW m \in ModuleIds
       PROVE  verifySnapshot(lacking(m), id).hash # hash
  <2>1. /\ lacking(m).parses /\ lacking(m).formatVersion = 1 /\ lacking(m).policyId = id
        /\ DOMAIN lacking(m).modules = ModuleIds \ {m}
    BY <1>4
  <2> HIDE DEF lacking
  <2>2. verifySnapshot(lacking(m), id).hash.modules = lacking(m).modules
    BY <2>1 DEF verifySnapshot, assertCanonicalState, validateCanonicalStateJson, Result
  <2>3. DOMAIN hash.modules = ModuleIds
    BY <1>5
  <2> QED BY <2>1, <2>2, <2>3
<1> QED BY <1>2, <1>6, <1>7, <1>8, <1>9, <1>10 DEF Restorable, r, snap, hash

----------------------------------------------------------------------------
(***************************************************************************)
(* The inductive invariant of the command line tool.                       *)
(*                                                                         *)
(* What the files hold, and what a process holds at each of its awaits.    *)
(***************************************************************************)
FileNames == {"state", "audit", "snapshot", "envelope"}

\* normalizeBudget writes a negative amount that assertDecimalBigIntString refuses.
AmountsAreWritten == \A q \in Policies : AmountsWithoutSign(q)

Versions == {q.version : q \in Policies} \cup {"v1"}

\* A state that init accepted, or that a launch made of one.
Sound(s) ==
  /\ WellShaped(s) /\ ~StateInvalid(s) /\ s.version \in Versions
  /\ AmountsAreWritten => AmountsWithoutSign(s)

PolicyIdSet == {computePolicyId(v, t) : v \in Versions, t \in Ttls} \cup {NoPolicy, EmptyPolicy}

Lines ==
  [ type : {"INTENT_RECEIVED", "DECISION", "AUTH_EMITTED", "STATE_CHECKPOINT", "torn"}, ts : Int,
    policyId : PolicyIdSet, ref : Int, extra : BOOLEAN ]

EnvelopeShape(env) ==
  env = [parses |-> TRUE, formatVersion |-> env.formatVersion, snapshot |-> env.snapshot, events |-> env.events,
         issuer |-> env.issuer, kid |-> env.kid, signature |-> [by |-> env.signature.by, over |-> env.signature.over]]

\* A signature is over an envelope that its holder signed.
Genuine(env, made) ==
  hasSignature(env) => [env.signature.over EXCEPT !.signature = env.signature] \in made

Whole(f) == f = Holds(f.content)

FileInv ==
  /\ file = [f \in FileNames |-> file[f]]
  /\ file["state"] \in {Missing, Torn} \/ (Whole(file["state"]) /\ Sound(file["state"].content))
  /\ file["audit"] = Missing \/ (Whole(file["audit"]) /\ file["audit"].content \in Seq(Lines))
  /\ \/ file["envelope"] \in {Missing, Torn}
     \/ /\ Whole(file["envelope"])
        /\ EnvelopeShape(file["envelope"].content) /\ Genuine(file["envelope"].content, signed)

Steps(cmd) ==
  IF cmd = "init" THEN {"policy", "truncate", "fill", "reset"}
  ELSE IF cmd = "examples init" THEN {"sample", "truncate", "fill", "reset"}
  ELSE IF cmd = "launch" THEN {"state", "append", "truncate", "fill"}
  ELSE IF cmd = "build" THEN {"state", "truncate", "fill"}
  ELSE IF cmd = "make-envelope" THEN {"state", "events", "truncate", "fill"}
  ELSE {"snapshot", "audit", "envelope"}

Writing == {"truncate", "fill"}

NoncesOf(s) == {s.mods["ReplayModule"].nonces[k].id : k \in DOMAIN s.mods["ReplayModule"].nonces}

ProcShape(q) ==
  q = [cmd |-> q.cmd, pc |-> q.pc, ttl |-> q.ttl, nonce |-> q.nonce, flags |-> q.flags,
       st |-> q.st, ev |-> q.ev, out |-> q.out, status |-> q.status]

\* The last event of an ALLOW, behind two others.
Emitted(q) ==
  /\ Len(q.ev) = 3 /\ q.ev[3].type = "AUTH_EMITTED" /\ q.ev[3].ref = q.nonce

Stage(q) ==
  /\ ProcShape(q)
  /\ q.pc = "idle" => q = Idle
  /\ q.pc # "idle" =>
       /\ q.cmd \in {"init", "examples init", "launch", "build", "make-envelope", "verify all"}
       /\ q.pc \in Steps(q.cmd) /\ <<q.nonce, q.ttl>> \in Launches
  /\ q.cmd \in Setup /\ q.pc \in Writing => Sound(q.out) /\ NoncesOf(q.out) \subseteq SeededNonces
  /\ q.cmd = "launch" /\ q.pc = "append" =>
       /\ q.ev \in Seq(Lines)
       /\ q.status = {"ALLOW"} => Sound(q.out) /\ Emitted(q)
  /\ q.cmd = "launch" /\ q.pc \in Writing => Sound(q.out)
  /\ q.cmd = "make-envelope" /\ q.pc = "events" => Sound(q.st)
  /\ q.cmd = "make-envelope" /\ q.pc \in Writing =>
       /\ EnvelopeShape(q.out) /\ ~hasSignature(q.out)

CliTypeInv ==
  /\ clock \in Nat /\ printed \in Seq(Int)
  /\ proc = [p \in Procs |-> proc[p]]
  /\ FileInv /\ \A p \in Procs : Stage(proc[p])

\* Which processes run at the same time.
OverlapInv ==
  \A p, q \in Procs : p # q /\ Alive(p) /\ Alive(q) =>
    /\ "init" \notin overlap => proc[p].cmd \notin Setup
    /\ "launch" \notin overlap => ~(proc[p].cmd = "launch" /\ proc[q].cmd = "launch")

\* What was printed is in the state, as far as that can be read, and so it is
\* in the one that a launch is about to write.
Deciding(q) == q.cmd = "launch" /\ (q.pc \in Writing \/ (q.pc = "append" /\ q.status = {"ALLOW"}))

Promise(q, done) ==
  Deciding(q) =>
    /\ q.nonce \notin Elements(done)
    /\ Elements(done) \cup {q.nonce} \subseteq NoncesOf(q.out)

PrintedInv ==
  overlap = {} =>
    /\ \A i, j \in DOMAIN printed : printed[i] = printed[j] => i = j
    /\ Parses(file["state"]) => Elements(printed) \subseteq NoncesOf(file["state"].content)
    /\ \A p \in Procs : Promise(proc[p], printed)

\* Every nonce of a state that is or will be in the file, or in an envelope,
\* is an operator's or has its event in the log that goes with it.
Authorized(lines) == {lines[k].ref : k \in {j \in DOMAIN lines : lines[j].type = "AUTH_EMITTED"}}
Recorded(nonces, lines) == nonces \subseteq SeededNonces \cup Authorized(lines)
Exported(env) ==
  {env.snapshot.modules["ReplayModule"].part.nonces[k].id : k \in DOMAIN env.snapshot.modules["ReplayModule"].part.nonces}

Owed(q, state, lines) ==
  /\ q.cmd = "launch" /\ q.pc = "append" /\ q.status = {"ALLOW"} =>
       Recorded(NoncesOf(q.out) \ {q.nonce}, lines)
  /\ q.cmd = "launch" /\ q.pc \in Writing => Recorded(NoncesOf(q.out), lines)
  /\ q.cmd \in Setup /\ q.pc = "reset" /\ Parses(state) =>
       NoncesOf(state.content) \subseteq SeededNonces
  /\ q.cmd = "make-envelope" /\ q.pc = "events" => Recorded(NoncesOf(q.st), lines)
  /\ q.cmd = "make-envelope" /\ q.pc \in Writing => Recorded(Exported(q.out), q.out.events)

CoverInv ==
  overlap \subseteq {"launch"} =>
    /\ Parses(file["state"]) => Recorded(NoncesOf(file["state"].content), AuditLines)
    /\ \A p \in Procs : Owed(proc[p], file["state"], AuditLines)

CliInv == CliTypeInv /\ OverlapInv /\ PrintedInv /\ CoverInv

----------------------------------------------------------------------------
(* The engine, as the invariant sees it. *)

\* Every set of numbers that is not empty has a least one.
LEMMA LeastNatural ==
  ASSUME NEW T \in SUBSET Nat, T # {}
  PROVE  \E k \in T : \A j \in T : k <= j
<1>1. PICK x \in T : \A y \in T : ~ (<<y, x>> \in OpToRel(<, Nat))
  BY NatLessThanWellFounded, WFMin
<1>2. \A y \in T : ~ (y < x)
  BY <1>1 DEF OpToRel
<1> QED
  BY <1>2

\* An ALLOW means that no module said otherwise.
LEMMA ADenialIsNoAllow ==
  ASSUME NEW s, NEW n, NEW amount, runDecisionModules(s, n, amount) = "ALLOW"
  PROVE  \A k \in DOMAIN ModuleVerdicts(s, n, amount) : ModuleVerdicts(s, n, amount)[k] = "ALLOW"
<1> DEFINE v == ModuleVerdicts(s, n, amount)
           denials == {k \in DOMAIN v : v[k] # "ALLOW"}
           first == CHOOSE k \in denials : \A j \in denials : k <= j
<1>1. DOMAIN v = 1..7
  BY DEF ModuleVerdicts
<1> HIDE DEF v
<1>2. denials = {} \/ v[first] = "ALLOW"
  BY DEF runDecisionModules, v
<1>3. ASSUME denials # {}
      PROVE  FALSE
  <2>1. denials \subseteq 1..7
    BY <1>1
  <2>2. \E k \in denials : \A j \in denials : k <= j
    <3> HIDE DEF denials
    <3>1. denials \in SUBSET Nat
      BY <2>1
    <3> QED BY <1>3, <3>1, LeastNatural
  <2>3. first \in denials
    <3> HIDE DEF denials
    <3> QED BY <2>2
  <2> QED BY <2>3, <1>2, <1>3
<1> QED BY <1>3 DEF v

\* The engine allows no nonce that the state has already.
LEMMA AllowedOnce ==
  ASSUME NEW s, NEW n, NEW amount, runDecisionModules(s, n, amount) = "ALLOW"
  PROVE  n \notin NoncesOf(s)
<1>1. ModuleVerdicts(s, n, amount)[3] =
        IF \E k \in DOMAIN s.mods["ReplayModule"].nonces : s.mods["ReplayModule"].nonces[k].id = n THEN "DENY" ELSE "ALLOW"
  BY DEF ModuleVerdicts
<1>2. 3 \in DOMAIN ModuleVerdicts(s, n, amount)
  BY DEF ModuleVerdicts
<1>3. ModuleVerdicts(s, n, amount)[3] = "ALLOW"
  BY <1>2, ADenialIsNoAllow
<1> QED BY <1>1, <1>3 DEF NoncesOf

\* What the engine emits are lines of the log; an ALLOW ends with its AUTH_EMITTED.
LEMMA EventsAreLines ==
  ASSUME NEW s, NEW n \in Int, NEW amount, NEW t \in Int, NEW id \in PolicyIdSet
  PROVE  LET r == evaluatePure(s, n, amount, t, id)
         IN /\ r.events \in Seq(Lines)
            /\ r.decision = "ALLOW" =>
                 /\ Len(r.events) = 3 /\ r.events[3].type = "AUTH_EMITTED" /\ r.events[3].ref = n
                 /\ runDecisionModules(s, n, amount) = "ALLOW" /\ ~exportThrows(s) /\ ~StateInvalid(s)
<1> DEFINE e(type) == Event(type, t, id, n)
           r == evaluatePure(s, n, amount, t, id)
<1>1. e("INTENT_RECEIVED") \in Lines /\ e("DECISION") \in Lines /\ e("AUTH_EMITTED") \in Lines
  BY DEF Event, Lines
<1>2. e("AUTH_EMITTED").type = "AUTH_EMITTED" /\ e("AUTH_EMITTED").ref = n
  BY DEF Event
<1>3. \/ r.decision # "ALLOW" /\ r.events = <<>>
      \/ r.decision # "ALLOW" /\ r.events = <<e("INTENT_RECEIVED"), e("DECISION")>>
      \/ r.decision # "ALLOW" /\ r.events = <<e("INTENT_RECEIVED")>>
      \/ /\ r.events = <<e("INTENT_RECEIVED"), e("DECISION"), e("AUTH_EMITTED")>>
         /\ runDecisionModules(s, n, amount) = "ALLOW" /\ ~exportThrows(s) /\ ~StateInvalid(s)
  <2> HIDE DEF e
  <2>1. [k \in DOMAIN <<"INTENT_RECEIVED">> |-> e(<<"INTENT_RECEIVED">>[k])] = <<e("INTENT_RECEIVED")>>
    OBVIOUS
  <2>2. [k \in DOMAIN <<"INTENT_RECEIVED", "DECISION">> |-> e(<<"INTENT_RECEIVED", "DECISION">>[k])]
          = <<e("INTENT_RECEIVED"), e("DECISION")>>
    OBVIOUS
  <2>3. [k \in DOMAIN <<"INTENT_RECEIVED", "DECISION", "AUTH_EMITTED">> |->
           e(<<"INTENT_RECEIVED", "DECISION", "AUTH_EMITTED">>[k])]
          = <<e("INTENT_RECEIVED"), e("DECISION"), e("AUTH_EMITTED")>>
    OBVIOUS
  <2>4. CASE StateInvalid(s)
    BY <2>4 DEF evaluatePure
  <2>5. CASE ~StateInvalid(s) /\ runDecisionModules(s, n, amount) # "ALLOW"
    BY <2>5, <2>2 DEF evaluatePure, e
  <2>6. CASE ~StateInvalid(s) /\ runDecisionModules(s, n, amount) = "ALLOW" /\ exportThrows(s)
    BY <2>6, <2>1 DEF evaluatePure, e
  <2>7. CASE ~StateInvalid(s) /\ runDecisionModules(s, n, amount) = "ALLOW" /\ ~exportThrows(s)
    BY <2>7, <2>3 DEF evaluatePure, e
  <2> QED BY <2>4, <2>5, <2>6, <2>7
<1> HIDE DEF r, e
<1>4. r.events \in Seq(Lines)
  <2>1. /\ <<>> \in Seq(Lines) /\ <<e("INTENT_RECEIVED")>> \in Seq(Lines)
        /\ <<e("INTENT_RECEIVED"), e("DECISION")>> \in Seq(Lines)
        /\ <<e("INTENT_RECEIVED"), e("DECISION"), e("AUTH_EMITTED")>> \in Seq(Lines)
    BY <1>1
  <2> QED BY <1>3, <2>1, Zenon
<1>5. r.decision = "ALLOW" =>
        /\ r.events = <<e("INTENT_RECEIVED"), e("DECISION"), e("AUTH_EMITTED")>>
        /\ runDecisionModules(s, n, amount) = "ALLOW" /\ ~exportThrows(s) /\ ~StateInvalid(s)
  BY <1>3
<1>6. r.decision = "ALLOW" => Len(r.events) = 3 /\ r.events[3] = e("AUTH_EMITTED")
  <2>1. \A x, a, b, c : x = <<a, b, c>> => Len(x) = 3 /\ x[3] = c
    OBVIOUS
  <2> QED BY <1>5, <2>1, ZenonT(30)
<1>7. r.decision = "ALLOW" => r.events[3].type = "AUTH_EMITTED" /\ r.events[3].ref = n
  BY <1>2, <1>6, Zenon
<1> QED BY <1>4, <1>5, <1>6, <1>7, Zenon DEF r

\* The state after an ALLOW is sound, and has one nonce more.
LEMMA NextStateIsSound ==
  ASSUME NEW s, Sound(s), NEW n \in Int, NEW t \in Int
  PROVE  Sound(NextState(s, n, t)) /\ NoncesOf(NextState(s, n, t)) = NoncesOf(s) \cup {n}
<1> DEFINE m == s.mods
           new == [id |-> n, ts |-> t]
           m2 == [m EXCEPT
                    !["BudgetModule"].spent = OrZero(@) + 1,
                    !["VelocityModule"].count = OrZero(@) + 1,
                    !["ReplayModule"].nonces = Append(@, new),
                    !["ConcurrencyModule"].active = OrZero(@) + 1,
                    !["ConcurrencyModule"].auths = @ \cup {n}]
           u == NextState(s, n, t)
<1>1. s = [version |-> s.version, mods |-> m] /\ m = [id \in ModuleIds |-> m[id]]
  BY DEF Sound, WellShaped
<1>2. u = [version |-> s.version, mods |-> m2]
  <2>1. u = [s EXCEPT !.mods = m2]
    BY Zenon DEF NextState
  <2> HIDE DEF m2
  <2> QED BY <1>1, <2>1
<1>3. /\ m["BudgetModule"] \in [limit : Int, spent : Int, cap : Int]
      /\ m["VelocityModule"] \in [window : Int, max : Int, count : Int]
      /\ m["ReplayModule"] \in [window : Int, max : Int, nonces : Seq([id : Int, ts : Int])]
      /\ m["ConcurrencyModule"] \in [max : Int, active : Int, auths : SUBSET Int]
      /\ \A id \in ModuleIds : m[id] \in Parts[id]
  BY DEF Sound, WellShaped, ModuleIds, Parts
<1>4. \A k \in Int : OrZero(k) + 1 \in Int /\ (optional(k) => optional(OrZero(k) + 1))
  BY DEF OrZero, optional, NoInt
<1>5. /\ m2["BudgetModule"] = [limit |-> m["BudgetModule"].limit, spent |-> OrZero(m["BudgetModule"].spent) + 1,
                               cap |-> m["BudgetModule"].cap]
      /\ m2["VelocityModule"] = [window |-> m["VelocityModule"].window, max |-> m["VelocityModule"].max,
                                 count |-> OrZero(m["VelocityModule"].count) + 1]
      /\ m2["ReplayModule"] = [window |-> m["ReplayModule"].window, max |-> m["ReplayModule"].max,
                               nonces |-> Append(m["ReplayModule"].nonces, new)]
      /\ m2["ConcurrencyModule"] = [max |-> m["ConcurrencyModule"].max,
                                    active |-> OrZero(m["ConcurrencyModule"].active) + 1,
                                    auths |-> m["ConcurrencyModule"].auths \cup {n}]
      /\ \A id \in ModuleIds \ {"BudgetModule", "VelocityModule", "ReplayModule", "ConcurrencyModule"} : m2[id] = m[id]
  <2>1. DOMAIN m = ModuleIds
    BY <1>1
  <2> HIDE DEF m
  <2>2. m2["BudgetModule"] = [m["BudgetModule"] EXCEPT !.spent = OrZero(@) + 1]
    BY <2>1 DEF ModuleIds
  <2>3. m2["VelocityModule"] = [m["VelocityModule"] EXCEPT !.count = OrZero(@) + 1]
    BY <2>1 DEF ModuleIds
  <2>4. m2["ReplayModule"] = [m["ReplayModule"] EXCEPT !.nonces = Append(@, new)]
    BY <2>1 DEF ModuleIds
  <2>5. m2["ConcurrencyModule"] = [m["ConcurrencyModule"] EXCEPT !.active = OrZero(@) + 1, !.auths = @ \cup {n}]
    BY <2>1 DEF ModuleIds
  <2>6. \A id \in ModuleIds \ {"BudgetModule", "VelocityModule", "ReplayModule", "ConcurrencyModule"} : m2[id] = m[id]
    BY <2>1
  <2> HIDE DEF m2, new
  <2> QED BY <1>3, <2>2, <2>3, <2>4, <2>5, <2>6
<1>6. DOMAIN m2 = ModuleIds /\ m2 = [id \in ModuleIds |-> m2[id]]
  <2>1. DOMAIN m = ModuleIds
    BY <1>1
  <2> HIDE DEF m
  <2>2. DOMAIN m2 = ModuleIds
    BY <2>1
  <2>3. m2 = [id \in DOMAIN m2 |-> m2[id]]
    OBVIOUS
  <2> HIDE DEF m2
  <2> QED BY <2>2, <2>3
<1> HIDE DEF m, m2
<1>7. /\ m2["BudgetModule"] \in [limit : Int, spent : Int, cap : Int]
      /\ m2["VelocityModule"] \in [window : Int, max : Int, count : Int]
      /\ m2["ReplayModule"] \in [window : Int, max : Int, nonces : Seq([id : Int, ts : Int])]
      /\ m2["ConcurrencyModule"] \in [max : Int, active : Int, auths : SUBSET Int]
  <2>1. /\ OrZero(m["BudgetModule"].spent) + 1 \in Int /\ OrZero(m["VelocityModule"].count) + 1 \in Int
        /\ OrZero(m["ConcurrencyModule"].active) + 1 \in Int
    BY <1>3, <1>4
  <2>2. new \in [id : Int, ts : Int] /\ m["ReplayModule"].nonces \in Seq([id : Int, ts : Int])
    BY <1>3
  <2>3. Append(m["ReplayModule"].nonces, new) \in Seq([id : Int, ts : Int])
    BY <2>2
  <2>4. m["ConcurrencyModule"].auths \cup {n} \in SUBSET Int
    BY <1>3
  <2> HIDE DEF new
  <2>5. m2["BudgetModule"] \in [limit : Int, spent : Int, cap : Int]
    BY <1>3, <1>5, <2>1
  <2>6. m2["VelocityModule"] \in [window : Int, max : Int, count : Int]
    BY <1>3, <1>5, <2>1
  <2>7. m2["ReplayModule"] \in [window : Int, max : Int, nonces : Seq([id : Int, ts : Int])]
    BY <1>3, <1>5, <2>3
  <2>8. m2["ConcurrencyModule"] \in [max : Int, active : Int, auths : SUBSET Int]
    BY <1>3, <1>5, <2>1, <2>4
  <2> QED BY <2>5, <2>6, <2>7, <2>8
<1>8. \A id \in ModuleIds : m2[id] \in Parts[id]
  <2>1. /\ Parts["BudgetModule"] = [limit : Int, spent : Int, cap : Int]
        /\ Parts["VelocityModule"] = [window : Int, max : Int, count : Int]
        /\ Parts["ReplayModule"] = [window : Int, max : Int, nonces : Seq([id : Int, ts : Int])]
        /\ Parts["ConcurrencyModule"] = [max : Int, active : Int, auths : SUBSET Int]
    BY DEF Parts
  <2>2. ASSUME NEW id \in ModuleIds \ {"BudgetModule", "VelocityModule", "ReplayModule", "ConcurrencyModule"}
        PROVE  m2[id] \in Parts[id]
    BY <1>3, <1>5, Zenon
  <2> QED BY <1>7, <2>1, <2>2, Zenon
<1>9. WellShaped(u)
  BY <1>2, <1>6, <1>8 DEF WellShaped
<1>10. ~StateInvalid(u)
  BY <1>2, <1>5 DEF StateInvalid, Sound, m, ModuleIds
<1>11. AmountsWithoutSign(s) => AmountsWithoutSign(u)
  <2>1. /\ u.mods["BudgetModule"].limit = s.mods["BudgetModule"].limit
        /\ u.mods["BudgetModule"].cap = s.mods["BudgetModule"].cap
        /\ u.mods["BudgetModule"].spent = OrZero(s.mods["BudgetModule"].spent) + 1
    BY <1>2, <1>5 DEF m
  <2>2. s.mods["BudgetModule"].spent \in Int
    BY <1>3 DEF m
  <2> QED BY <1>4, <2>1, <2>2 DEF AmountsWithoutSign
<1>12. NoncesOf(u) = NoncesOf(s) \cup {n}
  <2> DEFINE l == m["ReplayModule"].nonces
  <2>1. l \in Seq([id : Int, ts : Int]) /\ u.mods["ReplayModule"].nonces = Append(l, new)
    <3>1. l \in Seq([id : Int, ts : Int])
      BY <1>3
    <3>2. u.mods = m2 /\ m2["ReplayModule"].nonces = Append(l, new)
      BY <1>2, <1>5
    <3> QED BY <3>1, <3>2
  <2> HIDE DEF l
  <2>2. {Append(l, new)[k].id : k \in DOMAIN Append(l, new)} = {l[k].id : k \in DOMAIN l} \cup {n}
    <3>1. Len(l) \in Nat /\ DOMAIN l = 1..Len(l) /\ DOMAIN Append(l, new) = 1..(Len(l) + 1)
      BY <2>1
    <3>2. \A k \in 1..Len(l) : Append(l, new)[k] = l[k]
      BY <2>1
    <3>3. Append(l, new)[Len(l) + 1] = new
      BY <2>1
    <3> QED BY <3>1, <3>2, <3>3
  <2> QED BY <2>1, <2>2 DEF NoncesOf, l, m
<1> QED BY <1>2, <1>9, <1>10, <1>11, <1>12 DEF Sound

\* A policy that init accepts is a sound state.
LEMMA PoliciesAreSound ==
  ASSUME NEW q \in Policies, validateStateStructure(q)
  PROVE  Sound(q) /\ NoncesOf(q) \subseteq SeededNonces
<1>1. WellShaped(q)
  BY CliConfig
<1>2. ~StateInvalid(q)
  BY DEF validateStateStructure, evaluatePure
<1> QED BY <1>1, <1>2 DEF Sound, Versions, AmountsAreWritten, NoncesOf, SeededNonces

\* So is the sample of examples init.
LEMMA SampleIsSound ==
  Sound(SampleState) /\ NoncesOf(SampleState) \subseteq SeededNonces
<1> DEFINE m == SampleState.mods
<1>1. SampleState = [version |-> "v1", mods |-> [id \in ModuleIds |-> m[id]]]
  <2>1. PICK f : SampleState = [version |-> "v1", mods |-> [id \in ModuleIds |-> f[id]]]
    <3> DEFINE part(id) ==
                 CASE id = "AllowlistModule" -> [listed |-> <<1>>]
                   [] id = "BudgetModule" -> [limit |-> 9, spent |-> 0, cap |-> 9]
                   [] id = "VelocityModule" -> [window |-> 60, max |-> 10, count |-> NoInt]
                   [] id = "ReplayModule" -> [window |-> 3600, max |-> 256, nonces |-> <<>>]
                   [] id = "ConcurrencyModule" -> [max |-> 4, active |-> NoInt, auths |-> {}]
                   [] id = "RecursionDepthModule" -> [depth |-> 5]
                   [] id = "ToolAmplificationModule" -> [window |-> 60, max |-> 100, calls |-> <<>>]
                   [] id = "KillSwitchModule" -> [global |-> FALSE]
               g == [id \in ModuleIds |-> part(id)]
    <3>1. SampleState = [version |-> "v1", mods |-> g]
      BY Zenon DEF SampleState
    <3> HIDE DEF part
    <3>2. g = [id \in ModuleIds |-> g[id]]
      OBVIOUS
    <3> HIDE DEF g
    <3> WITNESS g
    <3> QED BY <3>1, <3>2
  <2> QED BY <2>1
<1>2. /\ m["AllowlistModule"] = [listed |-> <<1>>]
      /\ m["BudgetModule"] = [limit |-> 9, spent |-> 0, cap |-> 9]
      /\ m["VelocityModule"] = [window |-> 60, max |-> 10, count |-> NoInt]
      /\ m["ReplayModule"] = [window |-> 3600, max |-> 256, nonces |-> <<>>]
      /\ m["ConcurrencyModule"] = [max |-> 4, active |-> NoInt, auths |-> {}]
      /\ m["RecursionDepthModule"] = [depth |-> 5]
      /\ m["ToolAmplificationModule"] = [window |-> 60, max |-> 100, calls |-> <<>>]
      /\ m["KillSwitchModule"] = [global |-> FALSE]
  <2>1. m["AllowlistModule"] = [listed |-> <<1>>]
    BY DEF SampleState, ModuleIds
  <2>2. m["BudgetModule"] = [limit |-> 9, spent |-> 0, cap |-> 9]
    BY DEF SampleState, ModuleIds
  <2>3. m["VelocityModule"] = [window |-> 60, max |-> 10, count |-> NoInt]
    BY DEF SampleState, ModuleIds
  <2>4. m["ReplayModule"] = [window |-> 3600, max |-> 256, nonces |-> <<>>]
    BY DEF SampleState, ModuleIds
  <2>5. m["ConcurrencyModule"] = [max |-> 4, active |-> NoInt, auths |-> {}]
    BY DEF SampleState, ModuleIds
  <2>6. m["RecursionDepthModule"] = [depth |-> 5]
    BY DEF SampleState, ModuleIds
  <2>7. m["ToolAmplificationModule"] = [window |-> 60, max |-> 100, calls |-> <<>>]
    BY DEF SampleState, ModuleIds
  <2>8. m["KillSwitchModule"] = [global |-> FALSE]
    BY DEF SampleState, ModuleIds
  <2> QED BY <2>1, <2>2, <2>3, <2>4, <2>5, <2>6, <2>7, <2>8
<1> HIDE DEF m
<1>3. \A id \in ModuleIds : m[id] \in Parts[id]
  <2>1. m["AllowlistModule"] \in Parts["AllowlistModule"]
    BY <1>2 DEF Parts
  <2>2. m["BudgetModule"] \in Parts["BudgetModule"] /\ m["RecursionDepthModule"] \in Parts["RecursionDepthModule"]
    BY <1>2 DEF Parts
  <2>3. m["VelocityModule"] \in Parts["VelocityModule"] /\ m["ConcurrencyModule"] \in Parts["ConcurrencyModule"]
    BY <1>2 DEF Parts, NoInt
  <2>4. <<>> \in Seq([id : Int, ts : Int])
    OBVIOUS
  <2>5. m["ReplayModule"] \in Parts["ReplayModule"] /\ m["ToolAmplificationModule"] \in Parts["ToolAmplificationModule"]
    BY <1>2, <2>4 DEF Parts
  <2>6. m["KillSwitchModule"] \in Parts["KillSwitchModule"]
    BY <1>2 DEF Parts
  <2> QED BY <2>1, <2>2, <2>3, <2>5, <2>6 DEF ModuleIds
<1>4. WellShaped(SampleState) /\ SampleState.version = "v1"
  BY <1>1, <1>3 DEF WellShaped, m
<1>5. ~StateInvalid(SampleState) /\ AmountsWithoutSign(SampleState)
  BY <1>2 DEF StateInvalid, AmountsWithoutSign, optional, NoInt, m
<1>6. NoncesOf(SampleState) = {}
  BY <1>2 DEF NoncesOf, m
<1> QED BY <1>4, <1>5, <1>6 DEF Sound, Versions

\* A snapshot holds the nonces of its state.
LEMMA NoncesAreExported ==
  ASSUME NEW s, Sound(s), NEW id, NEW lines
  PROVE  Exported(Envelope(exportState(s, id), lines)) = NoncesOf(s)
<1> DEFINE p == s.mods["ReplayModule"]
           t == Chronological(p.nonces)
<1>1. Envelope(exportState(s, id), lines).snapshot.modules["ReplayModule"].part.nonces
        = Normal("ReplayModule", p).nonces
  BY DEF Envelope, exportState, Snapshot, serializeState, ModuleIds
<1>2. Normal("ReplayModule", p) = [p EXCEPT !.nonces = t] /\ p.nonces \in Seq(Entries) /\ "nonces" \in DOMAIN p
  <2>1. p \in [window : Int, max : Int, nonces : Seq(Entries)]
    BY DEF Sound, WellShaped, ModuleIds, Parts, Entries
  <2> QED BY <2>1 DEF Normal, normalizeReplay
<1>3. Elements(t) = Elements(p.nonces)
  BY <1>2, ChronologicalSorts
<1>4. \A l : {l[k].id : k \in DOMAIN l} = {e.id : e \in Elements(l)}
  BY DEF Elements
<1>5. Normal("ReplayModule", p).nonces = t
  BY <1>2
<1>6. Exported(Envelope(exportState(s, id), lines)) = {t[k].id : k \in DOMAIN t}
  BY <1>1, <1>5 DEF Exported
<1>7. {t[k].id : k \in DOMAIN t} = {e.id : e \in Elements(p.nonces)}
  BY <1>3, <1>4, Zenon
<1>8. NoncesOf(s) = {e.id : e \in Elements(p.nonces)}
  BY <1>4, Zenon DEF NoncesOf
<1> QED BY <1>6, <1>7, <1>8, Zenon

----------------------------------------------------------------------------
(* Steps of one process. *)

\* An ended process holds and owes nothing.
LEMMA IdleIsFine == Stage(Idle) /\ \A done, state, lines : Promise(Idle, done) /\ Owed(Idle, state, lines)
<1>1. Idle = [cmd |-> "none", pc |-> "idle", ttl |-> 0, nonce |-> 0, flags |-> None,
              st |-> None, ev |-> <<>>, out |-> None, status |-> {}]
  BY DEF Idle
<1>2. ProcShape(Idle)
  BY <1>1 DEF ProcShape
<1>3. Idle.cmd = "none" /\ Idle.pc = "idle"
  BY <1>1
<1> QED BY <1>2, <1>3 DEF Stage, Promise, Deciding, Owed, Setup

\* A process in the middle of a command has a command that takes that step.
LEMMA WhoIsWhere ==
  ASSUME CliTypeInv, NEW p \in Procs, Alive(p)
  PROVE  /\ proc[p].pc \in Steps(proc[p].cmd)
         /\ proc[p].cmd \in {"init", "examples init", "launch", "build", "make-envelope", "verify all"}
         /\ <<proc[p].nonce, proc[p].ttl>> \in Launches
         /\ ProcShape(proc[p]) /\ Stage(proc[p])
  BY DEF CliTypeInv, Stage, Alive

\* What a step leaves of a process.
Kept(q, x, at, st, ev, out, status) ==
  /\ x.cmd = q.cmd /\ x.pc = at /\ x.ttl = q.ttl /\ x.nonce = q.nonce
  /\ x.st = st /\ x.ev = ev /\ x.out = out /\ x.status = status /\ ProcShape(x)

\* A process with some of its fields replaced.
LEMMA FieldsChange ==
  ASSUME NEW q, ProcShape(q), NEW at, NEW st, NEW ev, NEW out, NEW status
  PROVE  /\ Kept(q, [q EXCEPT !.pc = at], at, q.st, q.ev, q.out, q.status)
         /\ Kept(q, [q EXCEPT !.pc = at, !.out = out], at, q.st, q.ev, out, q.status)
         /\ Kept(q, [q EXCEPT !.pc = at, !.st = st], at, st, q.ev, q.out, q.status)
         /\ Kept(q, [q EXCEPT !.pc = at, !.st = st, !.out = out], at, st, q.ev, out, q.status)
         /\ Kept(q, [q EXCEPT !.pc = at, !.status = status], at, q.st, q.ev, q.out, status)
         /\ Kept(q, [q EXCEPT !.pc = at, !.ev = ev, !.status = status, !.out = out], at, q.st, ev, out, status)
<1> DEFINE names == {"cmd", "pc", "ttl", "nonce", "flags", "st", "ev", "out", "status"}
           is(x, a, b, c, d, e) ==
             /\ x.cmd = q.cmd /\ x.pc = a /\ x.ttl = q.ttl /\ x.nonce = q.nonce /\ x.flags = q.flags
             /\ x.st = b /\ x.ev = c /\ x.out = d /\ x.status = e /\ DOMAIN x = names
             /\ x = [k \in DOMAIN x |-> x[k]]
<1>1. DOMAIN q = names
  BY DEF ProcShape
<1>2. ASSUME NEW x, NEW a, NEW b, NEW c, NEW d, NEW e, is(x, a, b, c, d, e)
      PROVE  Kept(q, x, a, b, c, d, e)
  <2>1. ProcShape(x)
    BY <1>2 DEF ProcShape
  <2> QED BY <1>2, <2>1 DEF Kept
<1>3. is([q EXCEPT !.pc = at], at, q.st, q.ev, q.out, q.status)
  BY <1>1
<1>4. is([q EXCEPT !.pc = at, !.out = out], at, q.st, q.ev, out, q.status)
  BY <1>1
<1>5. is([q EXCEPT !.pc = at, !.st = st], at, st, q.ev, q.out, q.status)
  BY <1>1
<1>6. is([q EXCEPT !.pc = at, !.st = st, !.out = out], at, st, q.ev, out, q.status)
  BY <1>1
<1>7. is([q EXCEPT !.pc = at, !.status = status], at, q.st, q.ev, q.out, status)
  BY <1>1
<1>8. is([q EXCEPT !.pc = at, !.ev = ev, !.status = status, !.out = out], at, q.st, ev, out, status)
  BY <1>1
<1> HIDE DEF is
<1> QED BY <1>2, <1>3, <1>4, <1>5, <1>6, <1>7, <1>8, Zenon

\* The types after a step of p: its next stage and the files decide.
LEMMA TypedStep ==
  ASSUME CliTypeInv, OverlapInv, NEW p \in Procs, NEW x, proc' = [proc EXCEPT ![p] = x],
         clock' \in Nat, printed' \in Seq(Int), FileInv', overlap' = overlap, Stage(x),
         x.pc = "idle" \/ (Alive(p) /\ x.cmd = proc[p].cmd)
  PROVE  /\ CliTypeInv' /\ OverlapInv'
         /\ proc'[p] = x /\ \A q \in Procs : q # p => proc'[q] = proc[q]
<1>1. proc = [q \in Procs |-> proc[q]]
  BY DEF CliTypeInv
<1>2. proc'[p] = x /\ \A q \in Procs : q # p => proc'[q] = proc[q]
  BY <1>1
<1>3. proc' = [q \in Procs |-> proc'[q]]
  BY <1>1
<1>4. \A q \in Procs : Stage(proc'[q])
  BY <1>2 DEF CliTypeInv
<1>5. CliTypeInv'
  BY <1>3, <1>4 DEF CliTypeInv
<1>6. \A q \in Procs : proc'[q].pc # "idle" => proc[q].pc # "idle" /\ proc'[q].cmd = proc[q].cmd
  BY <1>2 DEF Alive
<1>7. OverlapInv'
  BY <1>6 DEF OverlapInv, Alive
<1> QED BY <1>2, <1>5, <1>7

\* A step of p that leaves the files and the histories alone.
LEMMA QuietStep ==
  ASSUME CliInv, NEW p \in Procs, NEW x, proc' = [proc EXCEPT ![p] = x],
         clock' \in Nat, UNCHANGED <<file, signed, printed, overlap>>, Stage(x),
         x.pc = "idle" \/ (Alive(p) /\ x.cmd = proc[p].cmd),
         overlap = {} => Promise(x, printed), overlap \subseteq {"launch"} => Owed(x, file["state"], AuditLines)
  PROVE  CliInv'
<1>1. CliTypeInv /\ OverlapInv /\ PrintedInv /\ CoverInv
  BY DEF CliInv
<1>2. printed' \in Seq(Int) /\ FileInv'
  BY <1>1 DEF CliTypeInv, FileInv, Genuine
<1>3. /\ CliTypeInv' /\ OverlapInv'
      /\ proc'[p] = x /\ \A q \in Procs : q # p => proc'[q] = proc[q]
  BY <1>1, <1>2, TypedStep
<1>4. PrintedInv'
  BY <1>1, <1>3 DEF PrintedInv
<1>5. CoverInv'
  <2>1. AuditLines' = AuditLines
    BY DEF AuditLines
  <2> QED BY <1>1, <1>3, <2>1 DEF CoverInv
<1> QED BY <1>3, <1>4, <1>5 DEF CliInv

\* A command that ends.
LEMMA Exits ==
  ASSUME CliInv, NEW p \in Procs, proc' = [proc EXCEPT ![p] = Idle], clock' \in Nat,
         UNCHANGED <<file, signed, printed, overlap>>
  PROVE  CliInv'
<1>1. Idle.pc = "idle"
  BY DEF Idle
<1> QED BY <1>1, IdleIsFine, QuietStep

\* A process that has a state to write, on behalf of init.
LEMMA Prepares ==
  ASSUME CliInv, NEW p \in Procs, Alive(p), proc[p].cmd \in Setup,
         NEW s, Sound(s), NoncesOf(s) \subseteq SeededNonces,
         proc' = [proc EXCEPT ![p].pc = "truncate", ![p].out = s],
         UNCHANGED <<clock, file, signed, printed, overlap>>
  PROVE  CliInv'
<1> DEFINE q == proc[p]
           x == [q EXCEPT !.pc = "truncate", !.out = s]
<1>1. CliTypeInv /\ clock' \in Nat
  BY DEF CliInv, CliTypeInv
<1>2. ProcShape(q) /\ <<q.nonce, q.ttl>> \in Launches
  BY <1>1, WhoIsWhere
<1>3. /\ x.cmd = q.cmd /\ x.pc = "truncate" /\ x.out = s /\ x.nonce = q.nonce /\ x.ttl = q.ttl
      /\ ProcShape(x)
  <2>1. Kept(q, x, "truncate", q.st, q.ev, s, q.status)
    BY <1>2, FieldsChange, Zenon
  <2> HIDE DEF x
  <2> QED BY <2>1 DEF Kept
<1>4. proc' = [proc EXCEPT ![p] = x]
  OBVIOUS
<1> HIDE DEF x
<1>5. Stage(x)
  BY <1>2, <1>3 DEF Stage, Setup, Steps
<1>6. Promise(x, printed) /\ Owed(x, file["state"], AuditLines)
  BY <1>3 DEF Promise, Deciding, Owed, Setup
<1> QED BY <1>1, <1>3, <1>4, <1>5, <1>6, QuietStep

(***************************************************************************)
(* One lemma for each action.                                              *)
(***************************************************************************)
LEMMA ReadPolicyInv ==
  ASSUME CliInv, NEW p \in Procs, ReadPolicy(p)
  PROVE  CliInv'
<1>1. Alive(p) /\ UNCHANGED <<clock, file, signed, printed, overlap>>
  BY DEF ReadPolicy, At, Alive, Reads, history
<1>2. proc[p].cmd \in Setup /\ clock' \in Nat
  BY <1>1, WhoIsWhere DEF CliInv, CliTypeInv, ReadPolicy, At, Steps, Setup
<1>3. PICK policy \in Policies :
        IF validateStateStructure(policy)
        THEN proc' = [proc EXCEPT ![p].pc = "truncate", ![p].out = policy] /\ UNCHANGED exit
        ELSE Exit(p, EXIT_CODE_INVALID)
  BY DEF ReadPolicy
<1>4. CASE validateStateStructure(policy)
  BY <1>1, <1>2, <1>3, <1>4, PoliciesAreSound, Prepares
<1>5. CASE ~validateStateStructure(policy)
  BY <1>1, <1>2, <1>3, <1>5, Exits DEF Exit
<1> QED BY <1>4, <1>5

LEMMA UseSampleInv ==
  ASSUME CliInv, NEW p \in Procs, UseSample(p)
  PROVE  CliInv'
<1>1. Alive(p) /\ UNCHANGED <<clock, file, signed, printed, overlap>>
  BY DEF UseSample, At, Alive, Reads, history
<1>2. proc[p].cmd \in Setup
  BY <1>1, WhoIsWhere DEF CliInv, UseSample, At, Steps, Setup
<1> QED BY <1>1, <1>2, SampleIsSound, Prepares DEF UseSample

\* What a file holds when it can be read.
LEMMA ReadableState ==
  ASSUME CliInv, Parses(file["state"])
  PROVE  Sound(file["state"].content)
  BY DEF CliInv, CliTypeInv, FileInv, Parses, Missing, Torn

\* A policy id is computed from a version and a lifetime in use.
LEMMA PolicyIdsAreKnown ==
  ASSUME CliInv, NEW p \in Procs, Alive(p), NEW s, Sound(s)
  PROVE  policyIdOf(p, s) \in PolicyIdSet /\ proc[p].nonce \in Int
<1>1. <<proc[p].nonce, proc[p].ttl>> \in Nonces \X Ttls /\ Nonces \subseteq Int
  BY WhoIsWhere, CliConfig DEF CliInv
<1>2. proc[p].nonce \in Int /\ proc[p].ttl \in Ttls
  BY <1>1
<1> QED BY <1>2 DEF policyIdOf, PolicyIdSet, Sound

\* launch decides on the state it read; what it decides is not in that state.
LEMMA LaunchInv ==
  ASSUME CliInv, NEW p \in Procs, At(p, "state"), proc[p].cmd = "launch",
         Parses(file["state"]), Launch(p, file["state"].content),
         clock' \in Nat, UNCHANGED <<file, signed, printed, overlap>>
  PROVE  CliInv'
<1> DEFINE q == proc[p]
           s == file["state"].content
           n == q.nonce
           r == evaluatePure(s, n, 1, clock', policyIdOf(p, s))
           out == IF r.decision = "ALLOW" THEN NextState(s, n, clock') ELSE None
           x == [q EXCEPT !.pc = "append", !.ev = r.events, !.status = {r.decision}, !.out = out]
<1>1. Alive(p) /\ Sound(s) /\ CliTypeInv
  BY ReadableState DEF At, Alive, CliInv
<1>2. ProcShape(q) /\ <<n, q.ttl>> \in Launches
  BY <1>1, WhoIsWhere
<1>3. policyIdOf(p, s) \in PolicyIdSet /\ n \in Int
  BY <1>1, PolicyIdsAreKnown
<1>4. /\ r.events \in Seq(Lines)
      /\ r.decision = "ALLOW" =>
           /\ Len(r.events) = 3 /\ r.events[3].type = "AUTH_EMITTED" /\ r.events[3].ref = n
           /\ runDecisionModules(s, n, 1) = "ALLOW" /\ ~exportThrows(s) /\ ~StateInvalid(s)
  <2> DEFINE e(id, t) == evaluatePure(s, n, 1, t, id)
  <2>1. clock' \in Int
    OBVIOUS
  <2>2. \A id \in PolicyIdSet, t \in Int :
          /\ e(id, t).events \in Seq(Lines)
          /\ e(id, t).decision = "ALLOW" =>
               /\ Len(e(id, t).events) = 3 /\ e(id, t).events[3].type = "AUTH_EMITTED" /\ e(id, t).events[3].ref = n
               /\ runDecisionModules(s, n, 1) = "ALLOW" /\ ~exportThrows(s) /\ ~StateInvalid(s)
    BY <1>3, EventsAreLines
  <2>3. r = e(policyIdOf(p, s), clock')
    OBVIOUS
  <2> HIDE DEF e, r
  <2> QED BY <1>3, <2>1, <2>2, <2>3
<1>5. r.decision = "ALLOW" => n \notin NoncesOf(s)
  BY <1>4, AllowedOnce
<1>6. r.decision = "ALLOW" => Sound(out) /\ NoncesOf(out) = NoncesOf(s) \cup {n}
  <2> clock' \in Int
    OBVIOUS
  <2> QED BY <1>1, <1>3, NextStateIsSound
<1>7. proc' = [proc EXCEPT ![p] = x]
  BY DEF Launch
<1> HIDE DEF out, r
<1>8. /\ x.cmd = "launch" /\ x.pc = "append" /\ x.out = out /\ x.nonce = n /\ x.ttl = q.ttl
      /\ x.ev = r.events /\ x.status = {r.decision} /\ ProcShape(x)
  <2>1. Kept(q, x, "append", q.st, r.events, out, {r.decision})
    BY <1>2, FieldsChange, Zenon
  <2> HIDE DEF x
  <2> QED BY <2>1 DEF Kept
<1> HIDE DEF x
<1>9. Stage(x)
  BY <1>2, <1>4, <1>6, <1>8 DEF Stage, Setup, Steps, Writing, Emitted
<1>10. overlap = {} => Promise(x, printed)
  <2>1. overlap = {} => Elements(printed) \subseteq NoncesOf(s)
    BY DEF CliInv, PrintedInv
  <2> QED BY <2>1, <1>5, <1>6, <1>8 DEF Promise, Deciding, Writing
<1>11. overlap \subseteq {"launch"} => Owed(x, file["state"], AuditLines)
  <2>1. overlap \subseteq {"launch"} => Recorded(NoncesOf(s), AuditLines)
    BY DEF CliInv, CoverInv
  <2> QED BY <2>1, <1>6, <1>8 DEF Owed, Recorded, Setup, Writing
<1> QED BY <1>1, <1>7, <1>8, <1>9, <1>10, <1>11, QuietStep

LEMMA ReadStateInv ==
  ASSUME CliInv, NEW p \in Procs, ReadState(p)
  PROVE  CliInv'
<1> DEFINE q == proc[p]
           s == file["state"].content
<1>1. /\ At(p, "state") /\ Alive(p) /\ UNCHANGED <<file, signed, printed, overlap>>
      /\ CliTypeInv /\ clock \in Nat
  BY DEF ReadState, At, Alive, history, CliInv, CliTypeInv
<1>2. clock' \in Nat
  <2>1. clock' \in clock..MaxNow \/ clock' = clock
    BY DEF ReadState
  <2>2. MaxNow \in Nat
    BY CliConfig
  <2> QED BY <1>1, <2>1, <2>2
<1>3. q.cmd \in {"launch", "build", "make-envelope"} /\ ProcShape(q) /\ <<q.nonce, q.ttl>> \in Launches
  BY <1>1, WhoIsWhere DEF At, Steps
<1>4. CASE ~Parses(file["state"])
  BY <1>1, <1>2, <1>4, Exits DEF ReadState, Exit
<1>5. CASE Parses(file["state"]) /\ q.cmd = "launch"
  <2>1. Launch(p, s)
    BY <1>5 DEF ReadState
  <2> QED BY <1>1, <1>2, <1>5, <2>1, LaunchInv
<1>6. CASE Parses(file["state"]) /\ q.cmd = "build"
  <2>1. Build(p, s)
    BY <1>6 DEF ReadState
  <2>2. CASE exportThrows(s)
    BY <1>1, <1>2, <2>1, <2>2, Exits DEF Build, Exit
  <2>3. CASE ~exportThrows(s)
    <3> DEFINE o == exportState(s, policyIdOf(p, s))
               x == [q EXCEPT !.pc = "truncate", !.out = o]
    <3>1. proc' = [proc EXCEPT ![p] = x]
      BY <2>1, <2>3 DEF Build
    <3> HIDE DEF o
    <3>2. x.cmd = "build" /\ x.pc = "truncate" /\ x.nonce = q.nonce /\ x.ttl = q.ttl /\ ProcShape(x)
      <4>1. Kept(q, x, "truncate", q.st, q.ev, o, q.status)
        BY <1>3, FieldsChange, Zenon
      <4> HIDE DEF x
      <4> QED BY <1>6, <4>1 DEF Kept
    <3> HIDE DEF x
    <3>3. Stage(x) /\ Promise(x, printed) /\ Owed(x, file["state"], AuditLines)
      BY <1>3, <3>2 DEF Stage, Setup, Steps, Writing, Promise, Deciding, Owed
    <3> QED BY <1>1, <1>2, <1>6, <3>1, <3>2, <3>3, QuietStep
  <2> QED BY <2>2, <2>3
<1>7. CASE Parses(file["state"]) /\ q.cmd = "make-envelope"
  <2> DEFINE x == [q EXCEPT !.pc = "events", !.st = s]
  <2>1. proc' = [proc EXCEPT ![p] = x]
    BY <1>7 DEF ReadState
  <2>2. x.cmd = "make-envelope" /\ x.pc = "events" /\ x.st = s /\ x.nonce = q.nonce /\ x.ttl = q.ttl /\ ProcShape(x)
    <3>1. Kept(q, x, "events", s, q.ev, q.out, q.status)
      BY <1>3, FieldsChange, Zenon
    <3> HIDE DEF x
    <3> QED BY <1>7, <3>1 DEF Kept
  <2>3. Sound(s) /\ (overlap \subseteq {"launch"} => Recorded(NoncesOf(s), AuditLines))
    BY <1>7, ReadableState DEF CliInv, CoverInv
  <2> HIDE DEF x
  <2>4. Stage(x) /\ Promise(x, printed)
    BY <1>3, <2>2, <2>3 DEF Stage, Setup, Steps, Writing, Promise, Deciding
  <2>5. overlap \subseteq {"launch"} => Owed(x, file["state"], AuditLines)
    BY <2>2, <2>3 DEF Owed, Setup, Writing
  <2> QED BY <1>1, <1>2, <1>7, <2>1, <2>2, <2>4, <2>5, QuietStep
<1> QED BY <1>3, <1>4, <1>5, <1>6, <1>7

LEMMA ReadEventsInv ==
  ASSUME CliInv, NEW p \in Procs, ReadEvents(p)
  PROVE  CliInv'
<1> DEFINE q == proc[p]
           s == q.st
           o == Envelope(exportState(s, policyIdOf(p, s)), AuditLines)
           x == [q EXCEPT !.pc = "truncate", !.st = None, !.out = o]
<1>1. /\ Alive(p) /\ At(p, "events") /\ UNCHANGED <<clock, file, signed, printed, overlap>>
      /\ CliTypeInv /\ clock' \in Nat
  BY DEF ReadEvents, At, Alive, Reads, history, CliInv, CliTypeInv
<1>2. q.cmd = "make-envelope" /\ ProcShape(q) /\ Stage(q) /\ <<q.nonce, q.ttl>> \in Launches
  BY <1>1, WhoIsWhere DEF At, Steps
<1>3. Sound(s)
  BY <1>1, <1>2 DEF Stage, At
<1>4. CASE HasTornLine(AuditLines) \/ exportThrows(s)
  BY <1>1, <1>4, Exits DEF ReadEvents, Exit
<1>5. CASE ~(HasTornLine(AuditLines) \/ exportThrows(s))
  <2>1. proc' = [proc EXCEPT ![p] = x]
    BY <1>5 DEF ReadEvents
  <2>2. Exported(o) = NoncesOf(s)
    BY <1>3, NoncesAreExported
  <2>3. o.events = AuditLines /\ EnvelopeShape(o) /\ ~hasSignature(o)
    BY DEF Envelope, EnvelopeShape, hasSignature, Unsigned
  <2>4. overlap \subseteq {"launch"} => Recorded(NoncesOf(s), AuditLines)
    BY <1>1, <1>2 DEF CliInv, CoverInv, Owed, At
  <2> HIDE DEF o
  <2>5. Kept(q, x, "truncate", None, q.ev, o, q.status)
    BY <1>2, FieldsChange, Zenon
  <2> HIDE DEF x
  <2>6. Stage(x) /\ Promise(x, printed)
    BY <1>2, <2>3, <2>5 DEF Kept, Stage, Setup, Steps, Writing, Promise, Deciding
  <2>7. overlap \subseteq {"launch"} => Owed(x, file["state"], AuditLines)
    BY <1>2, <2>2, <2>3, <2>4, <2>5 DEF Kept, Owed, Setup, Writing
  <2>8. x.pc = "idle" \/ (Alive(p) /\ x.cmd = proc[p].cmd)
    BY <1>1, <2>5 DEF Kept
  <2> QED BY <1>1, <2>1, <2>6, <2>7, <2>8, QuietStep
<1> QED BY <1>4, <1>5

LEMMA VerifyAllInv ==
  ASSUME CliInv, NEW p \in Procs, VerifyAllSnapshot(p) \/ VerifyAllAudit(p) \/ VerifyAllEnvelope(p)
  PROVE  CliInv'
<1> DEFINE q == proc[p]
<1>1. /\ Alive(p) /\ q.pc \in {"snapshot", "audit", "envelope"}
      /\ UNCHANGED <<clock, file, signed, printed, overlap>>
      /\ CliTypeInv /\ clock' \in Nat
  BY DEF VerifyAllSnapshot, VerifyAllAudit, VerifyAllEnvelope, At, Alive, Reads, history, CliInv, CliTypeInv
<1>2. q.cmd = "verify all" /\ ProcShape(q) /\ <<q.nonce, q.ttl>> \in Launches
  BY <1>1, WhoIsWhere DEF Steps
<1>3. \/ proc' = [proc EXCEPT ![p] = Idle]
      \/ \E next \in {"audit", "envelope"} : \E status :
           proc' = [proc EXCEPT ![p].pc = next, ![p].status = q.status \cup {status}]
  BY DEF VerifyAllSnapshot, VerifyAllAudit, VerifyAllEnvelope, VerifyAllReads, Exit
<1>4. CASE proc' = [proc EXCEPT ![p] = Idle]
  BY <1>1, <1>4, Exits
<1>5. ASSUME NEW next \in {"audit", "envelope"}, NEW status,
             proc' = [proc EXCEPT ![p].pc = next, ![p].status = q.status \cup {status}]
      PROVE  CliInv'
  <2> DEFINE all == q.status \cup {status}
             x == [q EXCEPT !.pc = next, !.status = all]
  <2>1. proc' = [proc EXCEPT ![p] = x]
    BY <1>5
  <2> HIDE DEF all
  <2>2. Kept(q, x, next, q.st, q.ev, q.out, all)
    BY <1>2, FieldsChange, Zenon
  <2> HIDE DEF x
  <2>3. Stage(x) /\ Promise(x, printed) /\ Owed(x, file["state"], AuditLines) /\ Alive(p) /\ x.cmd = q.cmd
    BY <1>1, <1>2, <2>2 DEF Kept, Stage, Setup, Steps, Writing, Promise, Deciding, Owed
  <2> QED BY <1>1, <2>1, <2>3, QuietStep
<1> QED BY <1>3, <1>4, <1>5

----------------------------------------------------------------------------
(* The audit log. *)

\* The lines of the log are lines.
LEMMA LinesAreTyped ==
  ASSUME CliTypeInv
  PROVE  AuditLines \in Seq(Lines)
<1>1. <<>> \in Seq(Lines)
  OBVIOUS
<1> QED BY <1>1 DEF CliTypeInv, FileInv, AuditLines

\* Two lists, one behind the other.
LEMMA Concatenated ==
  ASSUME NEW lines \in Seq(Lines), NEW new \in Seq(Lines)
  PROVE  /\ lines \o new \in Seq(Lines)
         /\ Authorized(lines) \subseteq Authorized(lines \o new)
         /\ Authorized(new) \subseteq Authorized(lines \o new)
<1> DEFINE c == lines \o new
<1>1. /\ c \in Seq(Lines) /\ Len(lines) \in Nat /\ Len(new) \in Nat
      /\ DOMAIN lines = 1..Len(lines) /\ DOMAIN new = 1..Len(new) /\ DOMAIN c = 1..(Len(lines) + Len(new))
      /\ \A k \in 1..Len(lines) : c[k] = lines[k]
      /\ \A k \in 1..Len(new) : c[Len(lines) + k] = new[k]
  OBVIOUS
<1> HIDE DEF c
<1>2. ASSUME NEW k \in DOMAIN lines, lines[k].type = "AUTH_EMITTED"
      PROVE  lines[k].ref \in Authorized(c)
  <2>1. k \in DOMAIN c /\ c[k] = lines[k]
    BY <1>1
  <2> QED BY <1>2, <2>1 DEF Authorized
<1>3. ASSUME NEW k \in DOMAIN new, new[k].type = "AUTH_EMITTED"
      PROVE  new[k].ref \in Authorized(c)
  <2> DEFINE i == Len(lines) + k
  <2>1. i \in DOMAIN c /\ c[i] = new[k]
    BY <1>1
  <2> HIDE DEF i
  <2> QED BY <1>3, <2>1 DEF Authorized
<1>4. Authorized(lines) \subseteq Authorized(c) /\ Authorized(new) \subseteq Authorized(c)
  <2>1. \A n \in Authorized(lines) : \E k \in DOMAIN lines : lines[k].type = "AUTH_EMITTED" /\ n = lines[k].ref
    BY DEF Authorized
  <2>2. \A n \in Authorized(new) : \E k \in DOMAIN new : new[k].type = "AUTH_EMITTED" /\ n = new[k].ref
    BY DEF Authorized
  <2> QED BY <1>2, <1>3, <2>1, <2>2
<1> QED BY <1>1, <1>4 DEF c

\* The third of three events is the last of those that remain.
LEMMA TailOfThree ==
  ASSUME NEW L, NEW l \in Seq(L), Len(l) = 3
  PROVE  l # <<>> /\ 3 \in DOMAIN l /\ 2 \in DOMAIN Tail(l) /\ Tail(l)[2] = l[3]
<1>1. l # <<>> /\ 3 \in DOMAIN l /\ Len(Tail(l)) = 2 /\ Tail(l)[2] = l[3]
  OBVIOUS
<1>2. Tail(l) \in Seq(L)
  BY <1>1
<1> QED BY <1>1, <1>2

\* An append leaves the lines before it.
LEMMA AppendKeeps ==
  ASSUME NEW lines \in Seq(Lines), NEW new \in Seq(Lines)
  PROVE  /\ AppendLines(lines, new) \in Seq(Lines)
         /\ Authorized(lines) \subseteq Authorized(AppendLines(lines, new))
         /\ Len(new) = 3 /\ new[3].type = "AUTH_EMITTED" => new[3].ref \in Authorized(AppendLines(lines, new))
<1>1. new # <<>> => Tail(new) \in Seq(Lines)
  OBVIOUS
<1>2. AppendLines(lines, new) = lines \o new \/ (new # <<>> /\ AppendLines(lines, new) = lines \o Tail(new))
  BY DEF AppendLines
<1>3. ASSUME Len(new) = 3, new[3].type = "AUTH_EMITTED"
      PROVE  new[3].ref \in Authorized(new) /\ new[3].ref \in Authorized(Tail(new)) /\ new # <<>>
  <2>1. /\ new # <<>> /\ 3 \in DOMAIN new
        /\ 2 \in DOMAIN Tail(new) /\ Tail(new)[2] = new[3]
    BY <1>3, TailOfThree, Zenon
  <2> QED BY <1>3, <2>1 DEF Authorized
<1>4. CASE AppendLines(lines, new) = lines \o new
  <2>1. /\ lines \o new \in Seq(Lines)
        /\ Authorized(lines) \subseteq Authorized(lines \o new)
        /\ Authorized(new) \subseteq Authorized(lines \o new)
    BY Concatenated
  <2> QED BY <1>3, <1>4, <2>1
<1>5. CASE new # <<>> /\ AppendLines(lines, new) = lines \o Tail(new)
  <2> DEFINE t == Tail(new)
  <2>1. t \in Seq(Lines)
    BY <1>1, <1>5
  <2>2. /\ lines \o t \in Seq(Lines)
        /\ Authorized(lines) \subseteq Authorized(lines \o t)
        /\ Authorized(t) \subseteq Authorized(lines \o t)
    BY <2>1, Concatenated
  <2> QED BY <1>3, <1>5, <2>2
<1> QED BY <1>2, <1>4, <1>5

----------------------------------------------------------------------------
(* Steps that change files. *)

\* The files, when one of them is given other contents.
LEMMA AuditChanges ==
  ASSUME CliTypeInv, NEW lines \in Seq(Lines), file' = [file EXCEPT !["audit"] = Holds(lines)], signed' = signed
  PROVE  FileInv' /\ AuditLines' = lines /\ file'["state"] = file["state"]
<1>1. FileInv /\ "audit" \in DOMAIN file
  BY DEF CliTypeInv, FileInv, FileNames
<1>2. /\ file' = [f \in FileNames |-> file'[f]] /\ file'["audit"] = Holds(lines)
      /\ file'["state"] = file["state"] /\ file'["envelope"] = file["envelope"]
  BY <1>1 DEF FileInv, FileNames
<1>3. Whole(file'["audit"]) /\ file'["audit"].content = lines /\ file'["audit"] # Missing
  BY <1>2 DEF Whole, Holds, Missing
<1>4. FileInv'
  BY <1>1, <1>2, <1>3 DEF FileInv
<1> QED BY <1>2, <1>3, <1>4 DEF AuditLines

\* A log that has grown records what it recorded.
LEMMA RecordedStays ==
  ASSUME NEW lines, NEW more, Authorized(lines) \subseteq Authorized(more), NEW nonces, Recorded(nonces, lines)
  PROVE  Recorded(nonces, more)
  BY DEF Recorded

\* What a process owes is still covered by a log that has grown.
LEMMA LogGrows ==
  ASSUME CliInv, NEW p \in Procs, NEW x, proc' = [proc EXCEPT ![p] = x], Stage(x),
         x.pc = "idle" \/ (Alive(p) /\ x.cmd = proc[p].cmd),
         NEW lines \in Seq(Lines), file' = [file EXCEPT !["audit"] = Holds(lines)],
         Authorized(AuditLines) \subseteq Authorized(lines),
         UNCHANGED <<clock, signed, printed, overlap>>,
         overlap = {} => Promise(x, printed), overlap \subseteq {"launch"} => Owed(x, file["state"], lines)
  PROVE  CliInv'
<1>1. CliTypeInv /\ OverlapInv /\ PrintedInv /\ CoverInv
  BY DEF CliInv
<1>2. FileInv' /\ AuditLines' = lines /\ file'["state"] = file["state"]
  BY <1>1, AuditChanges
<1>3. printed' \in Seq(Int) /\ clock' \in Nat
  BY <1>1 DEF CliTypeInv
<1>4. /\ CliTypeInv' /\ OverlapInv'
      /\ proc'[p] = x /\ \A q \in Procs : q # p => proc'[q] = proc[q]
  BY <1>1, <1>2, <1>3, TypedStep
<1>5. PrintedInv'
  BY <1>1, <1>2, <1>4 DEF PrintedInv
<1>6. CoverInv'
  <2>1. \A nonces : Recorded(nonces, AuditLines) => Recorded(nonces, lines)
    BY RecordedStays
  <2>2. \A q : Owed(q, file["state"], AuditLines) => Owed(q, file["state"], lines)
    BY <2>1 DEF Owed
  <2> QED BY <1>1, <1>2, <1>4, <2>1, <2>2 DEF CoverInv
<1> QED BY <1>4, <1>5, <1>6 DEF CliInv

LEMMA AppendAuditInv ==
  ASSUME CliInv, NEW p \in Procs, AppendAudit(p)
  PROVE  CliInv'
<1> DEFINE q == proc[p]
           lines == AppendLines(AuditLines, q.ev)
           x == [q EXCEPT !.pc = "truncate"]
<1>1. /\ Alive(p) /\ At(p, "append") /\ UNCHANGED <<clock, signed, printed, overlap>>
      /\ CliTypeInv /\ clock' \in Nat
  BY DEF AppendAudit, At, Alive, history, CliInv, CliTypeInv
<1>2. q.cmd = "launch" /\ ProcShape(q) /\ Stage(q) /\ <<q.nonce, q.ttl>> \in Launches
  BY <1>1, WhoIsWhere DEF At, Steps
<1>3. q.ev \in Seq(Lines) /\ (q.status = {"ALLOW"} => Sound(q.out) /\ Emitted(q))
  BY <1>1, <1>2 DEF Stage, At
<1>4. AuditLines \in Seq(Lines)
  BY <1>1, LinesAreTyped
<1>5. /\ lines \in Seq(Lines) /\ Authorized(AuditLines) \subseteq Authorized(lines)
      /\ q.status = {"ALLOW"} => q.nonce \in Authorized(lines)
  BY <1>3, <1>4, AppendKeeps DEF Emitted
<1>6. CASE q.status = {"ALLOW"}
  <2>1. proc' = [proc EXCEPT ![p] = x]
    BY <1>6 DEF AppendAudit, Continue
  <2>2. q.ev # <<>>
    BY <1>3, <1>6 DEF Emitted
  <2>3. file' = [file EXCEPT !["audit"] = Holds(lines)]
    BY <2>2 DEF AppendAudit
  <2>5. Kept(q, x, "truncate", q.st, q.ev, q.out, q.status)
    BY <1>2, FieldsChange, Zenon
  <2> HIDE DEF x, lines
  <2>6. Stage(x) /\ Alive(p) /\ x.cmd = q.cmd
    BY <1>1, <1>2, <1>3, <1>6, <2>5 DEF Kept, Stage, Setup, Steps, Writing
  <2>7. overlap = {} => Promise(x, printed)
    <3>1. overlap = {} => Promise(q, printed)
      BY DEF CliInv, PrintedInv
    <3> QED BY <1>1, <1>2, <1>6, <2>5, <3>1 DEF Kept, Promise, Deciding, At
  <2>8. overlap \subseteq {"launch"} => Owed(x, file["state"], lines)
    <3>1. overlap \subseteq {"launch"} => Recorded(NoncesOf(q.out) \ {q.nonce}, AuditLines)
      BY <1>1, <1>2, <1>6 DEF CliInv, CoverInv, Owed, At
    <3>2. overlap \subseteq {"launch"} => Recorded(NoncesOf(q.out), lines)
      BY <1>5, <1>6, <3>1 DEF Recorded
    <3> QED BY <1>2, <2>5, <3>2 DEF Kept, Owed, Setup
  <2> QED BY <1>1, <1>5, <2>1, <2>3, <2>6, <2>7, <2>8, LogGrows
<1>7. CASE q.status # {"ALLOW"}
  <2>1. proc' = [proc EXCEPT ![p] = Idle]
    BY <1>7 DEF AppendAudit, Exit
  <2>2. CASE q.ev = <<>>
    <3>1. file' = file
      BY <2>2 DEF AppendAudit
    <3> QED BY <1>1, <2>1, <3>1, Exits
  <2>3. CASE q.ev # <<>>
    <3>1. file' = [file EXCEPT !["audit"] = Holds(lines)]
      BY <2>3 DEF AppendAudit
    <3>2. Stage(Idle) /\ Promise(Idle, printed) /\ Owed(Idle, file["state"], lines) /\ Idle.pc = "idle"
      BY IdleIsFine DEF Idle
    <3> HIDE DEF lines
    <3> QED BY <1>1, <1>5, <2>1, <3>1, <3>2, LogGrows
  <2> QED BY <2>2, <2>3
<1> QED BY <1>6, <1>7

\* A file that was being written is not read as anything.
LEMMA TornFilesAreUnread == ~Parses(Torn) /\ ~Parses(Missing) /\ \A c : Parses(Holds(c)) /\ Whole(Holds(c)) /\ Holds(c).content = c
  BY DEF Parses, Torn, Missing, Holds, Whole

LEMMA TruncateInv ==
  ASSUME CliInv, NEW p \in Procs, Truncate(p)
  PROVE  CliInv'
<1> DEFINE q == proc[p]
           t == Target(q.cmd)
           x == [q EXCEPT !.pc = "fill"]
<1>1. /\ Alive(p) /\ At(p, "truncate") /\ UNCHANGED <<clock, signed, printed, overlap>>
      /\ CliTypeInv /\ OverlapInv /\ PrintedInv /\ CoverInv /\ clock' \in Nat /\ printed' \in Seq(Int)
  BY DEF Truncate, At, Alive, history, CliInv, CliTypeInv
<1>2. /\ q.cmd \in {"init", "examples init", "launch", "build", "make-envelope"}
      /\ ProcShape(q) /\ Stage(q) /\ <<q.nonce, q.ttl>> \in Launches
  BY <1>1, WhoIsWhere DEF At, Steps
<1>3. t \in {"state", "snapshot", "envelope"}
  BY <1>2 DEF Target, Setup
<1>4. file' = [file EXCEPT ![t] = Torn] /\ proc' = [proc EXCEPT ![p] = x]
  BY DEF Truncate, Continue
<1> HIDE DEF t
<1>5. /\ file' = [f \in FileNames |-> file'[f]] /\ AuditLines' = AuditLines
      /\ file'["audit"] = file["audit"] /\ file'["state"] \in {file["state"], Torn}
      /\ file'["envelope"] \in {file["envelope"], Torn}
  BY <1>1, <1>3, <1>4 DEF CliTypeInv, FileInv, FileNames, AuditLines
<1>6. FileInv'
  BY <1>1, <1>5 DEF CliTypeInv, FileInv
<1>7. Kept(q, x, "fill", q.st, q.ev, q.out, q.status)
  BY <1>2, FieldsChange, Zenon
<1> HIDE DEF x
<1>8. Stage(x) /\ x.cmd = q.cmd
  BY <1>1, <1>2, <1>7 DEF Kept, Stage, Setup, Steps, Writing, At
<1>9. /\ CliTypeInv' /\ OverlapInv'
      /\ proc'[p] = x /\ \A r \in Procs : r # p => proc'[r] = proc[r]
  BY <1>1, <1>4, <1>6, <1>8, TypedStep
<1>10. Parses(file'["state"]) => file'["state"] = file["state"]
  BY <1>5, TornFilesAreUnread
<1>11. PrintedInv'
  <2>1. Promise(q, printed) => Promise(x, printed)
    BY <1>1, <1>7 DEF Kept, Promise, Deciding, Writing, At
  <2> QED BY <1>1, <1>9, <1>10, <2>1 DEF PrintedInv
<1>12. CoverInv'
  <2>1. Owed(q, file["state"], AuditLines) => Owed(x, file'["state"], AuditLines)
    BY <1>1, <1>7 DEF Kept, Owed, Writing, At
  <2>2. \A r : Owed(r, file["state"], AuditLines) => Owed(r, file'["state"], AuditLines)
    BY <1>10 DEF Owed
  <2> QED BY <1>1, <1>5, <1>9, <1>10, <2>1, <2>2 DEF CoverInv
<1> QED BY <1>9, <1>11, <1>12 DEF CliInv

\* While init runs, and no overlap is on record, it runs alone.
LEMMA InitRunsAlone ==
  ASSUME CliInv, NEW p \in Procs, Alive(p), proc[p].cmd \in Setup, "init" \notin overlap,
         NEW r \in Procs, r # p
  PROVE  proc[r] = Idle
  BY DEF CliInv, CliTypeInv, OverlapInv, Stage, Alive

\* init writes a state of operators' nonces only.
LEMMA FillSetup ==
  ASSUME CliInv, NEW p \in Procs, Fill(p), proc[p].cmd \in Setup
  PROVE  CliInv'
<1> DEFINE q == proc[p]
           x == [q EXCEPT !.pc = "reset"]
<1>1. /\ Alive(p) /\ At(p, "fill") /\ UNCHANGED <<clock, signed, overlap>>
      /\ CliTypeInv /\ OverlapInv /\ clock' \in Nat
  BY DEF Fill, At, Alive, CliInv, CliTypeInv
<1>2. ProcShape(q) /\ Stage(q) /\ <<q.nonce, q.ttl>> \in Launches
  BY <1>1, WhoIsWhere
<1>3. Sound(q.out) /\ NoncesOf(q.out) \subseteq SeededNonces
  BY <1>1, <1>2 DEF Stage, At, Writing
<1>4. file' = [file EXCEPT !["state"] = Holds(q.out)] /\ proc' = [proc EXCEPT ![p] = x] /\ printed' = <<>>
  <2>1. q.cmd = "init" \/ q.cmd = "examples init"
    BY DEF Setup
  <2>2. Target(q.cmd) = "state"
    BY <2>1 DEF Target, Setup
  <2> QED BY <2>1, <2>2 DEF Fill, Continue, Setup
<1>5. /\ file' = [f \in FileNames |-> file'[f]] /\ file'["state"] = Holds(q.out)
      /\ file'["audit"] = file["audit"] /\ file'["envelope"] = file["envelope"] /\ AuditLines' = AuditLines
  BY <1>1, <1>4 DEF CliTypeInv, FileInv, FileNames, AuditLines
<1>6. FileInv'
  BY <1>1, <1>3, <1>5, TornFilesAreUnread DEF CliTypeInv, FileInv
<1>7. Kept(q, x, "reset", q.st, q.ev, q.out, q.status)
  BY <1>2, FieldsChange, Zenon
<1> HIDE DEF x
<1>8. Stage(x) /\ x.cmd = q.cmd
  BY <1>1, <1>2, <1>7 DEF Kept, Stage, Setup, Steps, Writing, At
<1>9. printed' \in Seq(Int) /\ DOMAIN printed' = {} /\ Elements(printed') = {}
  BY <1>4 DEF Elements
<1>10. /\ CliTypeInv' /\ OverlapInv'
       /\ proc'[p] = x /\ \A r \in Procs : r # p => proc'[r] = proc[r]
  BY <1>1, <1>4, <1>6, <1>8, <1>9, TypedStep
<1>11. "init" \notin overlap => \A r \in Procs : r # p => proc'[r] = Idle
  BY <1>1, <1>10, InitRunsAlone
<1>12. PrintedInv'
  <2>1. Promise(x, printed')
    BY <1>7 DEF Kept, Promise, Deciding, Setup
  <2> QED BY <1>1, <1>9, <1>10, <1>11, <2>1, IdleIsFine DEF PrintedInv
<1>13. CoverInv'
  <2>1. NoncesOf(file'["state"].content) \subseteq SeededNonces
    BY <1>3, <1>5, TornFilesAreUnread
  <2>2. Owed(x, file'["state"], AuditLines')
    BY <1>7, <2>1 DEF Kept, Owed, Setup, Writing
  <2>3. Recorded(NoncesOf(file'["state"].content), AuditLines')
    BY <2>1 DEF Recorded
  <2> QED BY <1>1, <1>10, <1>11, <2>2, <2>3, IdleIsFine DEF CoverInv
<1> QED BY <1>10, <1>12, <1>13 DEF CliInv

\* launch writes the state it decided on, then prints.
LEMMA FillLaunch ==
  ASSUME CliInv, NEW p \in Procs, Fill(p), proc[p].cmd = "launch"
  PROVE  CliInv'
<1> DEFINE q == proc[p]
<1>1. /\ Alive(p) /\ At(p, "fill") /\ UNCHANGED <<clock, signed, overlap>>
      /\ CliTypeInv /\ OverlapInv /\ PrintedInv /\ CoverInv /\ clock' \in Nat /\ printed \in Seq(Int)
  BY DEF Fill, At, Alive, CliInv, CliTypeInv
<1>2. ProcShape(q) /\ Stage(q) /\ <<q.nonce, q.ttl>> \in Launches
  BY <1>1, WhoIsWhere
<1>3. Sound(q.out) /\ q.nonce \in Int
  <2>1. Launches \subseteq Nonces \X Ttls /\ Nonces \subseteq Int
    BY CliConfig
  <2> QED BY <1>1, <1>2, <2>1 DEF Stage, At, Writing
<1>4. /\ file' = [file EXCEPT !["state"] = Holds(q.out)] /\ proc' = [proc EXCEPT ![p] = Idle]
      /\ printed' = Append(printed, q.nonce)
  <2>1. Target(q.cmd) = "state"
    BY DEF Target, Setup
  <2> QED BY <2>1 DEF Fill, Exit, Setup
<1>5. /\ file' = [f \in FileNames |-> file'[f]] /\ file'["state"] = Holds(q.out)
      /\ file'["audit"] = file["audit"] /\ file'["envelope"] = file["envelope"] /\ AuditLines' = AuditLines
  BY <1>1, <1>4 DEF CliTypeInv, FileInv, FileNames, AuditLines
<1>6. FileInv'
  BY <1>1, <1>3, <1>5, TornFilesAreUnread DEF CliTypeInv, FileInv
<1>7. printed' \in Seq(Int)
  BY <1>1, <1>3, <1>4
<1>8. /\ CliTypeInv' /\ OverlapInv'
      /\ proc'[p] = Idle /\ \A r \in Procs : r # p => proc'[r] = proc[r]
  <2>1. Idle.pc = "idle"
    BY DEF Idle
  <2> QED BY <1>1, <1>4, <1>6, <1>7, <2>1, IdleIsFine, TypedStep
<1>9. Parses(file'["state"]) /\ file'["state"].content = q.out
  BY <1>5, TornFilesAreUnread
<1>10. PrintedInv'
  <2>1. SUFFICES ASSUME overlap = {} PROVE PrintedInv'
    BY <1>1 DEF PrintedInv
  <2>2. Promise(q, printed) /\ \A i, j \in DOMAIN printed : printed[i] = printed[j] => i = j
    BY <1>1, <2>1 DEF PrintedInv
  <2>3. q.nonce \notin Elements(printed) /\ Elements(printed) \cup {q.nonce} \subseteq NoncesOf(q.out)
    BY <1>1, <2>2 DEF Promise, Deciding, Writing, At
  <2>4. /\ DOMAIN printed = 1..Len(printed) /\ DOMAIN printed' = 1..(Len(printed) + 1) /\ Len(printed) \in Nat
        /\ printed'[Len(printed) + 1] = q.nonce /\ \A i \in 1..Len(printed) : printed'[i] = printed[i]
    BY <1>1, <1>3, <1>4
  <2>5. \A i \in DOMAIN printed : printed[i] # q.nonce
    BY <2>3 DEF Elements
  <2>6. \A i, j \in DOMAIN printed' : printed'[i] = printed'[j] => i = j
    BY <2>2, <2>4, <2>5
  <2>7. Elements(printed') \subseteq Elements(printed) \cup {q.nonce}
    BY <2>4 DEF Elements
  <2>8. ASSUME NEW r \in Procs
        PROVE  Promise(proc'[r], printed')
    <3>1. CASE r = p
      BY <1>8, <3>1, IdleIsFine
    <3>2. CASE r # p
      <4>1. ~(Alive(r) /\ proc[r].cmd = "launch")
        BY <1>1, <2>1, <3>2 DEF OverlapInv
      <4>2. ~Alive(r) => proc[r] = Idle
        BY <1>1 DEF CliTypeInv, Stage, Alive
      <4>3. CASE Alive(r)
        BY <1>8, <3>2, <4>1, <4>3 DEF Promise, Deciding
      <4>4. CASE ~Alive(r)
        BY <1>8, <3>2, <4>2, <4>4, IdleIsFine
      <4> QED BY <4>3, <4>4
    <3> QED BY <3>1, <3>2
  <2> QED BY <1>9, <2>3, <2>6, <2>7, <2>8 DEF PrintedInv
<1>11. CoverInv'
  <2>1. SUFFICES ASSUME overlap \subseteq {"launch"} PROVE CoverInv'
    BY <1>1 DEF CoverInv
  <2>2. Recorded(NoncesOf(q.out), AuditLines)
    BY <1>1, <2>1 DEF CoverInv, Owed, Writing, At
  <2>3. ASSUME NEW r \in Procs
        PROVE  Owed(proc'[r], file'["state"], AuditLines)
    <3>1. CASE r = p
      BY <1>8, <3>1, IdleIsFine
    <3>2. CASE r # p
      <4>1. Alive(r) => proc[r].cmd \notin Setup
        BY <1>1, <2>1, <3>2 DEF OverlapInv
      <4>2. ~Alive(r) => proc[r] = Idle
        BY <1>1 DEF CliTypeInv, Stage, Alive
      <4>3. CASE Alive(r)
        <5>1. Owed(proc[r], file["state"], AuditLines)
          BY <1>1, <2>1 DEF CoverInv
        <5> QED BY <1>8, <3>2, <4>1, <4>3, <5>1 DEF Owed
      <4>4. CASE ~Alive(r)
        BY <1>8, <3>2, <4>2, <4>4, IdleIsFine
      <4> QED BY <4>3, <4>4
    <3> QED BY <3>1, <3>2
  <2> QED BY <1>5, <1>9, <2>2, <2>3 DEF CoverInv
<1> QED BY <1>8, <1>10, <1>11 DEF CliInv

\* build and make-envelope write what no launch reads.
LEMMA FillArtifact ==
  ASSUME CliInv, NEW p \in Procs, Fill(p), proc[p].cmd \in {"build", "make-envelope"}
  PROVE  CliInv'
<1> DEFINE q == proc[p]
           t == Target(q.cmd)
<1>1. /\ Alive(p) /\ At(p, "fill") /\ UNCHANGED <<clock, signed, overlap>>
      /\ CliTypeInv /\ OverlapInv /\ PrintedInv /\ CoverInv /\ clock' \in Nat /\ printed \in Seq(Int)
  BY DEF Fill, At, Alive, CliInv, CliTypeInv
<1>2. Stage(q)
  BY <1>1, WhoIsWhere
<1>3. /\ \/ q.cmd = "build" /\ t = "snapshot"
         \/ q.cmd = "make-envelope" /\ t = "envelope"
      /\ file' = [file EXCEPT ![t] = Holds(q.out)] /\ proc' = [proc EXCEPT ![p] = Idle] /\ printed' = printed
  <2>1. \/ q.cmd = "build" /\ t = "snapshot"
        \/ q.cmd = "make-envelope" /\ t = "envelope"
    <3>1. \A c : c = "build" => Target(c) = "snapshot"
      BY DEF Target, Setup
    <3>2. \A c : c = "make-envelope" => Target(c) = "envelope"
      BY DEF Target, Setup
    <3> QED BY <3>1, <3>2
  <2>2. q.cmd \notin Setup /\ q.cmd # "launch"
    BY <2>1 DEF Setup
  <2>3. file' = [file EXCEPT ![t] = Holds(q.out)]
    BY DEF Fill
  <2> HIDE DEF t
  <2> QED BY <2>1, <2>2, <2>3 DEF Fill, Exit
<1> HIDE DEF t
<1>4. /\ file' = [f \in FileNames |-> file'[f]] /\ file'["state"] = file["state"]
      /\ file'["audit"] = file["audit"] /\ AuditLines' = AuditLines
      /\ \/ file'["envelope"] = file["envelope"]
         \/ q.cmd = "make-envelope" /\ file'["envelope"] = Holds(q.out)
  BY <1>1, <1>3 DEF CliTypeInv, FileInv, FileNames, AuditLines
<1>5. q.cmd = "make-envelope" => EnvelopeShape(q.out) /\ Genuine(q.out, signed)
  BY <1>1, <1>2 DEF Stage, At, Writing, Genuine
<1>6. FileInv'
  BY <1>1, <1>4, <1>5, TornFilesAreUnread DEF CliTypeInv, FileInv
<1>7. /\ CliTypeInv' /\ OverlapInv'
      /\ proc'[p] = Idle /\ \A r \in Procs : r # p => proc'[r] = proc[r]
  <2>1. Idle.pc = "idle"
    BY DEF Idle
  <2> QED BY <1>1, <1>3, <1>6, <2>1, IdleIsFine, TypedStep
<1>8. PrintedInv'
  BY <1>1, <1>3, <1>4, <1>7, IdleIsFine DEF PrintedInv
<1>9. CoverInv'
  BY <1>1, <1>4, <1>7, IdleIsFine DEF CoverInv
<1> QED BY <1>7, <1>8, <1>9 DEF CliInv

LEMMA FillInv ==
  ASSUME CliInv, NEW p \in Procs, Fill(p)
  PROVE  CliInv'
<1>1. Alive(p)
  BY DEF Fill, At, Alive
<1>2. proc[p].cmd \in Setup \/ proc[p].cmd = "launch" \/ proc[p].cmd \in {"build", "make-envelope"}
  BY <1>1, WhoIsWhere DEF CliInv, Fill, At, Steps, Setup
<1> QED BY <1>2, FillSetup, FillLaunch, FillArtifact

LEMMA ResetAuditInv ==
  ASSUME CliInv, NEW p \in Procs, ResetAudit(p)
  PROVE  CliInv'
<1> DEFINE q == proc[p]
           lines == <<>>
<1>1. /\ Alive(p) /\ At(p, "reset") /\ UNCHANGED <<clock, signed, printed, overlap>>
      /\ CliTypeInv /\ OverlapInv /\ PrintedInv /\ CoverInv /\ clock' \in Nat /\ printed' \in Seq(Int)
      /\ file' = [file EXCEPT !["audit"] = Holds(<<>>)] /\ proc' = [proc EXCEPT ![p] = Idle]
  BY DEF ResetAudit, At, Alive, CliInv, CliTypeInv, history, Exit
<1>2. q.cmd \in Setup
  BY <1>1, WhoIsWhere DEF At, Steps, Setup
<1>3. lines \in Seq(Lines)
  OBVIOUS
<1>4. FileInv' /\ AuditLines' = lines /\ file'["state"] = file["state"]
  BY <1>1, <1>3, AuditChanges
<1>5. /\ CliTypeInv' /\ OverlapInv'
      /\ proc'[p] = Idle /\ \A r \in Procs : r # p => proc'[r] = proc[r]
  <2>1. Idle.pc = "idle"
    BY DEF Idle
  <2> QED BY <1>1, <1>4, <2>1, IdleIsFine, TypedStep
<1>6. PrintedInv'
  BY <1>1, <1>4, <1>5, IdleIsFine DEF PrintedInv
<1>7. CoverInv'
  <2>1. SUFFICES ASSUME overlap \subseteq {"launch"} PROVE CoverInv'
    BY <1>1 DEF CoverInv
  <2>2. \A r \in Procs : proc'[r] = Idle
    BY <1>1, <1>2, <1>5, <2>1, InitRunsAlone
  <2>3. Parses(file["state"]) => NoncesOf(file["state"].content) \subseteq SeededNonces
    BY <1>1, <1>2, <2>1 DEF CoverInv, Owed, At
  <2> QED BY <1>4, <2>2, <2>3, IdleIsFine DEF CoverInv, Recorded
<1> QED BY <1>5, <1>6, <1>7 DEF CliInv

LEMMA KillInv ==
  ASSUME CliInv, NEW p \in Procs, Kill(p)
  PROVE  CliInv'
<1> DEFINE q == proc[p]
<1>1. /\ Alive(p) /\ UNCHANGED <<clock, signed, printed, overlap>>
      /\ CliTypeInv /\ clock' \in Nat /\ proc' = [proc EXCEPT ![p] = Idle]
  BY DEF Kill, Alive, CliInv, CliTypeInv, history
<1>2. CASE UNCHANGED file
  BY <1>1, <1>2, Exits
<1>3. ASSUME At(p, "append"), NEW n \in 1..Len(q.ev),
             file' = [file EXCEPT !["audit"] = Holds(AppendLines(AuditLines, SubSeq(q.ev, 1, n - 1) \o <<TornLine>>))]
      PROVE  CliInv'
  <2> DEFINE new == SubSeq(q.ev, 1, n - 1) \o <<TornLine>>
             lines == AppendLines(AuditLines, new)
  <2>1. q.cmd = "launch" /\ Stage(q)
    BY <1>1, <1>3, WhoIsWhere DEF At, Steps
  <2>2. q.ev \in Seq(Lines)
    BY <1>3, <2>1 DEF Stage, At
  <2>3. TornLine \in Lines
    BY DEF TornLine, Event, Lines, PolicyIdSet, NoInt
  <2>4. SubSeq(q.ev, 1, n - 1) \in Seq(Lines)
    BY <2>2
  <2>5. new \in Seq(Lines)
    BY <2>3, <2>4
  <2> HIDE DEF new
  <2>6. lines \in Seq(Lines) /\ Authorized(AuditLines) \subseteq Authorized(lines)
    BY <1>1, <2>5, LinesAreTyped, AppendKeeps
  <2>7. file' = [file EXCEPT !["audit"] = Holds(lines)]
    BY <1>3 DEF new
  <2>8. Idle.pc = "idle"
    BY DEF Idle
  <2> HIDE DEF lines
  <2> QED BY <1>1, <2>6, <2>7, <2>8, IdleIsFine, LogGrows
<1> QED BY <1>2, <1>3 DEF Kill

LEMMA StartInv ==
  ASSUME CliInv, NEW p \in Procs, Start(p)
  PROVE  CliInv'
<1>1. PICK cmd \in Commands, launch \in Launches, flags \in VerifyFlags :
        /\ proc' = [proc EXCEPT ![p] = [Idle EXCEPT !.cmd = cmd, !.pc = FirstStep(cmd), !.nonce = launch[1],
                                                    !.ttl = launch[2], !.flags = flags]]
        /\ overlap' = overlap \cup Overlaps(cmd)
  BY DEF Start
<1> DEFINE x == [Idle EXCEPT !.cmd = cmd, !.pc = FirstStep(cmd), !.nonce = launch[1], !.ttl = launch[2],
                             !.flags = flags]
<1>2. /\ ~Alive(p) /\ UNCHANGED <<clock, file, signed, printed>>
      /\ CliTypeInv /\ OverlapInv /\ PrintedInv /\ CoverInv
  BY DEF Start, CliInv
<1>3. /\ cmd \in {"init", "examples init", "launch", "build", "make-envelope", "verify all"}
      /\ <<launch[1], launch[2]>> \in Launches
  <2>1. Launches \subseteq Nonces \X Ttls /\ cmd \in {"init", "examples init", "launch", "build", "make-envelope", "verify all"}
    BY CliConfig, Zenon
  <2>2. launch = <<launch[1], launch[2]>>
    <3>1. \A l \in Nonces \X Ttls : l = <<l[1], l[2]>>
      OBVIOUS
    <3>2. launch \in Nonces \X Ttls
      BY <2>1
    <3> QED BY <3>1, <3>2, Zenon
  <2> QED BY <2>1, <2>2
<1>4. /\ x = [cmd |-> cmd, pc |-> FirstStep(cmd), ttl |-> launch[2], nonce |-> launch[1], flags |-> flags,
              st |-> None, ev |-> <<>>, out |-> None, status |-> {}]
  <2>1. DOMAIN x = DOMAIN Idle /\ x = [k \in DOMAIN x |-> x[k]]
    OBVIOUS
  <2>2. DOMAIN Idle = {"cmd", "pc", "ttl", "nonce", "flags", "st", "ev", "out", "status"}
    BY DEF Idle
  <2>3. /\ x.cmd = cmd /\ x.pc = FirstStep(cmd) /\ x.ttl = launch[2] /\ x.nonce = launch[1] /\ x.flags = flags
        /\ x.st = Idle.st /\ x.ev = Idle.ev /\ x.out = Idle.out /\ x.status = Idle.status
    BY <2>2
  <2>4. Idle.st = None /\ Idle.ev = <<>> /\ Idle.out = None /\ Idle.status = {}
    BY DEF Idle
  <2> HIDE DEF x
  <2> QED BY <2>1, <2>2, <2>3, <2>4
<1>5. /\ FirstStep(cmd) \in Steps(cmd) \ {"truncate", "fill", "append", "reset", "events", "idle"}
  BY <1>3 DEF FirstStep, Steps
<1>6. ProcShape(x)
  BY <1>4, ZenonT(30) DEF ProcShape
<1>7. x.cmd = cmd /\ x.pc = FirstStep(cmd) /\ <<x.nonce, x.ttl>> \in Launches
  BY <1>3, <1>4
<1> HIDE DEF x
<1>8. Stage(x) /\ \A done, state, lines : Promise(x, done) /\ Owed(x, state, lines)
  BY <1>3, <1>5, <1>6, <1>7 DEF Stage, Writing, Promise, Deciding, Owed
<1>9. proc = [r \in Procs |-> proc[r]] /\ proc' = [proc EXCEPT ![p] = x]
  BY <1>1, <1>2 DEF CliTypeInv, x
<1>10. proc'[p] = x /\ (\A r \in Procs : r # p => proc'[r] = proc[r]) /\ proc' = [r \in Procs |-> proc'[r]]
  BY <1>9
<1>11. CliTypeInv'
  <2>1. FileInv' /\ clock' \in Nat /\ printed' \in Seq(Int)
    BY <1>2 DEF CliTypeInv, FileInv
  <2> QED BY <1>2, <1>8, <1>10, <2>1 DEF CliTypeInv
<1>12. OverlapInv'
  <2>1. ASSUME NEW r \in Procs, r # p, Alive(r)
        PROVE  /\ "init" \notin overlap' => cmd \notin Setup /\ proc[r].cmd \notin Setup
               /\ "launch" \notin overlap' => ~(cmd = "launch" /\ proc[r].cmd = "launch")
    <3>1. Overlaps(cmd) \subseteq overlap'
      BY <1>1
    <3>2. cmd \in Setup => "init" \in Overlaps(cmd)
      BY <2>1 DEF Overlaps, If
    <3>3. proc[r].cmd \in Setup => "init" \in Overlaps(cmd)
      BY <2>1 DEF Overlaps, If, Running
    <3>4. cmd = "launch" /\ proc[r].cmd = "launch" => "launch" \in Overlaps(cmd)
      BY <2>1 DEF Overlaps, If, Running
    <3> QED BY <3>1, <3>2, <3>3, <3>4
  <2>2. overlap \subseteq overlap'
    BY <1>1
  <2>3. \A r \in Procs : r # p => (proc'[r].pc # "idle" <=> Alive(r)) /\ proc'[r] = proc[r]
    BY <1>10 DEF Alive
  <2> QED BY <1>2, <1>7, <1>10, <2>1, <2>2, <2>3 DEF OverlapInv, Alive
<1>13. PrintedInv'
  <2>1. overlap' = {} => overlap = {}
    BY <1>1
  <2> QED BY <1>2, <1>8, <1>10, <2>1 DEF PrintedInv
<1>14. CoverInv'
  <2>1. overlap' \subseteq {"launch"} => overlap \subseteq {"launch"}
    BY <1>1
  <2>2. AuditLines' = AuditLines
    BY <1>2 DEF AuditLines
  <2> QED BY <1>2, <1>8, <1>10, <2>1, <2>2 DEF CoverInv
<1> QED BY <1>11, <1>12, <1>13, <1>14 DEF CliInv

\* A step between two commands that touches one artifact.
LEMMA EnvelopeChanges ==
  ASSUME CliInv, NEW env, EnvelopeShape(env), Genuine(env, signed'), file' = [file EXCEPT !["envelope"] = Holds(env)],
         UNCHANGED <<clock, proc, printed, overlap>>
  PROVE  CliInv'
<1>1. CliTypeInv /\ OverlapInv /\ PrintedInv /\ CoverInv
  BY DEF CliInv
<1>2. /\ file' = [f \in FileNames |-> file'[f]] /\ file'["state"] = file["state"]
      /\ file'["audit"] = file["audit"] /\ AuditLines' = AuditLines /\ file'["envelope"] = Holds(env)
  BY <1>1 DEF CliTypeInv, FileInv, FileNames, AuditLines
<1>3. FileInv'
  BY <1>1, <1>2, TornFilesAreUnread DEF CliTypeInv, FileInv
<1>4. CliTypeInv'
  BY <1>1, <1>3 DEF CliTypeInv
<1>5. OverlapInv' /\ PrintedInv' /\ CoverInv'
  BY <1>1, <1>2 DEF OverlapInv, PrintedInv, CoverInv, Alive
<1> QED BY <1>4, <1>5 DEF CliInv

\* An envelope that can be read has its fields, and its signature is genuine.
LEMMA ReadableEnvelope ==
  ASSUME CliInv, Parses(file["envelope"])
  PROVE  /\ EnvelopeShape(file["envelope"].content) /\ Genuine(file["envelope"].content, signed)
         /\ Whole(file["envelope"])
  BY TornFilesAreUnread DEF CliInv, CliTypeInv, FileInv

\* An edited envelope, or one without its signature, has the same fields.
LEMMA ShapesStay ==
  ASSUME NEW e, EnvelopeShape(e), NEW y
  PROVE  /\ EnvelopeShape([e EXCEPT !.events = y]) /\ [e EXCEPT !.events = y].signature = e.signature
         /\ EnvelopeShape([e EXCEPT !.snapshot = y]) /\ [e EXCEPT !.snapshot = y].signature = e.signature
         /\ EnvelopeShape([e EXCEPT !.signature = Unsigned]) /\ ~hasSignature([e EXCEPT !.signature = Unsigned])
<1> DEFINE names == {"parses", "formatVersion", "snapshot", "events", "issuer", "kid", "signature"}
           is(x) == /\ x.parses = TRUE /\ x.signature = [by |-> x.signature.by, over |-> x.signature.over]
                    /\ DOMAIN x = names /\ x = [k \in DOMAIN x |-> x[k]]
<1>1. is(e)
  BY DEF EnvelopeShape
<1>2. ASSUME NEW x, is(x)
      PROVE  EnvelopeShape(x)
  BY <1>2 DEF EnvelopeShape
<1>3. is([e EXCEPT !.events = y]) /\ is([e EXCEPT !.snapshot = y])
  BY <1>1
<1>4. is([e EXCEPT !.signature = Unsigned])
  BY <1>1 DEF Unsigned
<1>5. ~hasSignature([e EXCEPT !.signature = Unsigned])
  BY <1>1 DEF hasSignature, Unsigned
<1>6. [e EXCEPT !.events = y].signature = e.signature /\ [e EXCEPT !.snapshot = y].signature = e.signature
  BY <1>1
<1> HIDE DEF is
<1> QED BY <1>2, <1>3, <1>4, <1>5, <1>6

LEMMA SignInv ==
  ASSUME CliInv, NEW h \in Holders, Sign(h)
  PROVE  CliInv'
<1> DEFINE e == file["envelope"].content
           unsigned == [e EXCEPT !.issuer = h, !.kid = h, !.signature = Unsigned]
           env == signEnvelopeEd25519(e, h)
<1>1. /\ file' = [file EXCEPT !["envelope"] = Holds(env)] /\ signed' = signed \cup {env}
      /\ UNCHANGED <<clock, proc, printed, overlap>> /\ Parses(file["envelope"])
  BY DEF Sign
<1>2. EnvelopeShape(e)
  BY <1>1, ReadableEnvelope
<1> HIDE DEF e
<1>3. unsigned = [parses |-> TRUE, formatVersion |-> e.formatVersion, snapshot |-> e.snapshot, events |-> e.events,
                  issuer |-> h, kid |-> h, signature |-> Unsigned]
  <2>1. DOMAIN unsigned = DOMAIN e /\ unsigned = [k \in DOMAIN unsigned |-> unsigned[k]]
    OBVIOUS
  <2>2. /\ DOMAIN e = {"parses", "formatVersion", "snapshot", "events", "issuer", "kid", "signature"}
        /\ e.parses = TRUE
    BY <1>2 DEF EnvelopeShape
  <2>3. /\ unsigned.parses = e.parses /\ unsigned.formatVersion = e.formatVersion
        /\ unsigned.snapshot = e.snapshot /\ unsigned.events = e.events
        /\ unsigned.issuer = h /\ unsigned.kid = h /\ unsigned.signature = Unsigned
    BY <2>2
  <2> HIDE DEF unsigned
  <2> QED BY <2>1, <2>2, <2>3
<1>4. envelopeSigningPayload(unsigned) = unsigned
  BY <1>3 DEF envelopeSigningPayload
<1>5. env = [unsigned EXCEPT !.signature = [by |-> h, over |-> unsigned]]
  BY <1>4, Zenon DEF signEnvelopeEd25519
<1>6. env = [parses |-> TRUE, formatVersion |-> e.formatVersion, snapshot |-> e.snapshot, events |-> e.events,
             issuer |-> h, kid |-> h, signature |-> [by |-> h, over |-> unsigned]]
  <2> HIDE DEF env
  <2> QED BY <1>3, <1>5
<1>7. env.signature.over = unsigned /\ env.signature = [by |-> h, over |-> unsigned] /\ EnvelopeShape(env)
  <2> HIDE DEF env, unsigned
  <2> QED BY <1>6 DEF EnvelopeShape
<1>8. [env.signature.over EXCEPT !.signature = env.signature] = env
  <2> HIDE DEF env, unsigned
  <2> QED BY <1>5, <1>7
<1>9. Genuine(env, signed')
  BY <1>1, <1>8, Zenon DEF Genuine
<1> HIDE DEF env
<1> QED BY <1>1, <1>7, <1>9, EnvelopeChanges

\* What an editor makes of a log is a log.
LEMMA EditsAreLines ==
  ASSUME NEW lines \in Seq(Lines), clock \in Nat, NEW other \in Edits(lines) \cup Rewordings(lines)
  PROVE  other \in Seq(Lines)
<1>1. Len(lines) \in Nat /\ DOMAIN lines = 1..Len(lines) /\ lines \in [1..Len(lines) -> Lines]
  OBVIOUS
<1>2. ASSUME NEW k \in DOMAIN lines
      PROVE  [lines EXCEPT ![k].extra = TRUE] \in Seq(Lines)
  <2> DEFINE l == [lines[k] EXCEPT !.extra = TRUE]
  <2>1. lines[k] \in Lines
    BY <1>1
  <2>2. l \in Lines
    BY <2>1 DEF Lines
  <2> HIDE DEF l
  <2>3. [lines EXCEPT ![k] = l] \in [1..Len(lines) -> Lines]
    BY <1>1, <2>2
  <2>4. [lines EXCEPT ![k] = l] \in Seq(Lines)
    BY <1>1, <2>3
  <2> QED BY <2>4 DEF l
<1>3. ASSUME NEW k \in 1..(Len(lines) - 1)
      PROVE  [lines EXCEPT ![k] = lines[k + 1], ![k + 1] = lines[k]] \in Seq(Lines)
  <2>1. lines[k] \in Lines /\ lines[k + 1] \in Lines
    BY <1>1
  <2>2. [lines EXCEPT ![k] = lines[k + 1], ![k + 1] = lines[k]] \in [1..Len(lines) -> Lines]
    BY <1>1, <2>1
  <2> QED BY <1>1, <2>2
<1>4. ASSUME NEW k \in DOMAIN lines
      PROVE  SubSeq(lines, 1, k - 1) \o SubSeq(lines, k + 1, Len(lines)) \in Seq(Lines)
  <2>1. SubSeq(lines, 1, k - 1) \in Seq(Lines)
    BY <1>1
  <2>2. SubSeq(lines, k + 1, Len(lines)) \in Seq(Lines)
    BY <1>1
  <2> QED BY <2>1, <2>2
<1>5. ASSUME NEW k \in DOMAIN lines
      PROVE  [lines EXCEPT ![k].policyId = EmptyPolicy] \in Seq(Lines)
  <2> DEFINE l == [lines[k] EXCEPT !.policyId = EmptyPolicy]
  <2>1. lines[k] \in Lines /\ EmptyPolicy \in PolicyIdSet
    BY <1>1 DEF PolicyIdSet
  <2>2. l \in Lines
    <3> HIDE DEF PolicyIdSet
    <3> QED BY <2>1 DEF Lines
  <2> HIDE DEF l
  <2>3. [lines EXCEPT ![k] = l] \in [1..Len(lines) -> Lines]
    BY <1>1, <2>2
  <2>4. [lines EXCEPT ![k] = l] \in Seq(Lines)
    BY <1>1, <2>3
  <2> QED BY <2>4 DEF l
<1>6. ASSUME NEW hash \in {0, Bad}
      PROVE  Append(lines, Event("STATE_CHECKPOINT", clock, NoPolicy, hash)) \in Seq(Lines)
  <2> DEFINE l == Event("STATE_CHECKPOINT", clock, NoPolicy, hash)
  <2>1. NoPolicy \in PolicyIdSet /\ hash \in Int
    BY DEF PolicyIdSet, Bad
  <2>2. l \in Lines
    BY <2>1 DEF Event, Lines
  <2> HIDE DEF l
  <2>3. Append(lines, l) \in Seq(Lines)
    BY <2>2
  <2> QED BY <2>3 DEF l
<1> QED BY <1>2, <1>3, <1>4, <1>5, <1>6 DEF Edits, Rewordings

LEMMA AlterInv ==
  ASSUME CliInv, Alter
  PROVE  CliInv'
<1> DEFINE e == file["envelope"].content
<1>1. /\ UNCHANGED <<clock, proc, signed, printed>>
      /\ CliTypeInv /\ OverlapInv /\ PrintedInv /\ CoverInv
  BY DEF Alter, CliInv
<1>2. CASE /\ Parses(file["envelope"]) /\ UNCHANGED overlap
           /\ \/ \E events \in Edits(e.events) : file' = [file EXCEPT !["envelope"].content.events = events]
              \/ file' = [file EXCEPT !["envelope"].content.snapshot = file["snapshot"].content]
              \/ file' = [file EXCEPT !["envelope"].content.signature = Unsigned]
  <2>1. EnvelopeShape(e) /\ Genuine(e, signed) /\ Whole(file["envelope"]) /\ "envelope" \in DOMAIN file
    BY <1>1, <1>2, ReadableEnvelope DEF CliTypeInv, FileInv, FileNames
  <2> DEFINE f == file["envelope"]
             replaced(c) == [file EXCEPT !["envelope"] = [f EXCEPT !.content = c]]
  <2>2. \A c : replaced(c) = [file EXCEPT !["envelope"] = Holds(c)]
    <3>1. \A c : [f EXCEPT !.content = c] = Holds(c)
      <4>1. f = [kind |-> "whole", content |-> f.content]
        BY <2>1 DEF Whole, Holds
      <4> HIDE DEF f
      <4> QED BY <4>1 DEF Holds
    <3> HIDE DEF f
    <3> QED BY <3>1
  <2>3. ASSUME NEW events, file' = replaced([e EXCEPT !.events = events])
        PROVE  CliInv'
    <3> DEFINE c == [e EXCEPT !.events = events]
    <3>1. EnvelopeShape(c) /\ c.signature = e.signature
      BY <2>1, ShapesStay
    <3>2. Genuine(c, signed')
      BY <1>1, <2>1, <3>1 DEF Genuine, hasSignature
    <3> HIDE DEF c, replaced
    <3> QED BY <1>1, <1>2, <2>2, <2>3, <3>1, <3>2, EnvelopeChanges DEF c
  <2>4. ASSUME NEW snap, file' = replaced([e EXCEPT !.snapshot = snap])
        PROVE  CliInv'
    <3> DEFINE c == [e EXCEPT !.snapshot = snap]
    <3>1. EnvelopeShape(c) /\ c.signature = e.signature
      BY <2>1, ShapesStay
    <3>2. Genuine(c, signed')
      BY <1>1, <2>1, <3>1 DEF Genuine, hasSignature
    <3> HIDE DEF c, replaced
    <3> QED BY <1>1, <1>2, <2>2, <2>4, <3>1, <3>2, EnvelopeChanges DEF c
  <2>5. ASSUME file' = replaced([e EXCEPT !.signature = Unsigned])
        PROVE  CliInv'
    <3> DEFINE c == [e EXCEPT !.signature = Unsigned]
    <3>1. EnvelopeShape(c) /\ ~hasSignature(c)
      BY <2>1, ShapesStay
    <3>2. Genuine(c, signed')
      BY <3>1 DEF Genuine
    <3> HIDE DEF c, replaced
    <3> QED BY <1>1, <1>2, <2>2, <2>5, <3>1, <3>2, EnvelopeChanges DEF c
  <2>6. CASE \E events \in Edits(e.events) : file' = [file EXCEPT !["envelope"].content.events = events]
    BY <2>3, <2>6
  <2>7. CASE file' = [file EXCEPT !["envelope"].content.snapshot = file["snapshot"].content]
    BY <2>4, <2>7
  <2>8. CASE file' = [file EXCEPT !["envelope"].content.signature = Unsigned]
    BY <2>5, <2>8
  <2> QED BY <1>2, <2>6, <2>7, <2>8
<1>3. ASSUME file["audit"] # Missing, NEW lines \in Edits(AuditLines) \cup Rewordings(AuditLines),
             file' = [file EXCEPT !["audit"].content = lines],
             overlap' = overlap \cup {"altered"}
      PROVE  CliInv'
  <2>1. lines \in Seq(Lines)
    BY <1>1, LinesAreTyped, EditsAreLines DEF CliTypeInv
  <2>2. file' = [file EXCEPT !["audit"] = Holds(lines)]
    <3> DEFINE f == file["audit"]
    <3>1. f = [kind |-> "whole", content |-> f.content]
      BY <1>1, <1>3 DEF CliTypeInv, FileInv, Whole, Holds
    <3> HIDE DEF f
    <3>2. [f EXCEPT !.content = lines] = Holds(lines)
      BY <3>1 DEF Holds
    <3> QED BY <1>3, <3>2 DEF f
  <2>3. FileInv'
    BY <1>1, <2>1, <2>2, AuditChanges
  <2>4. CliTypeInv'
    BY <1>1, <2>3 DEF CliTypeInv
  <2>5. OverlapInv'
    BY <1>1, <1>3 DEF OverlapInv, Alive
  <2>6. overlap' # {} /\ ~(overlap' \subseteq {"launch"})
    BY <1>3
  <2>7. PrintedInv' /\ CoverInv'
    BY <2>6 DEF PrintedInv, CoverInv
  <2> QED BY <2>4, <2>5, <2>7 DEF CliInv
<1> QED BY <1>2, <1>3 DEF Alter

----------------------------------------------------------------------------
(* The invariant holds. *)

\* No process runs; init has written a policy's state, or nothing.
LEMMA CliInitInv == CliInit => CliInv
<1> SUFFICES ASSUME CliInit PROVE CliInv
  OBVIOUS
<1>1. /\ clock = 0 /\ printed = <<>> /\ overlap = {} /\ signed = {}
      /\ proc = [p \in Procs |-> Idle]
  BY DEF CliInit
<1>2. /\ file = [f \in FileNames |-> file[f]]
      /\ file["snapshot"] = Missing /\ file["envelope"] = Missing
      /\ \/ file["state"] = Missing /\ file["audit"] = Missing
         \/ file["audit"] = Holds(<<>>) /\ \E q \in Policies : validateStateStructure(q) /\ file["state"] = Holds(q)
  <2>1. PICK setup \in Policies \cup {None} :
          file = [f \in FileNames |->
                    CASE f = "state" /\ setup # None /\ validateStateStructure(setup) -> Holds(setup)
                      [] f = "audit" /\ setup # None /\ validateStateStructure(setup) -> Holds(<<>>)
                      [] OTHER -> Missing]
    BY DEF CliInit, FileNames
  <2>2. file = [f \in FileNames |-> file[f]] /\ file["snapshot"] = Missing /\ file["envelope"] = Missing
    BY <2>1 DEF FileNames
  <2>3. CASE setup # None /\ validateStateStructure(setup)
    <3>1. file["state"] = Holds(setup) /\ file["audit"] = Holds(<<>>)
      BY <2>1, <2>3 DEF FileNames
    <3> QED BY <2>2, <2>3, <3>1
  <2>4. CASE ~(setup # None /\ validateStateStructure(setup))
    <3>1. file["state"] = Missing /\ file["audit"] = Missing
      BY <2>1, <2>4 DEF FileNames
    <3> QED BY <2>2, <3>1
  <2> QED BY <2>3, <2>4
<1>3. Parses(file["state"]) => Sound(file["state"].content) /\ NoncesOf(file["state"].content) \subseteq SeededNonces
  BY <1>2, PoliciesAreSound, TornFilesAreUnread
<1>4. FileInv
  <2>1. <<>> \in Seq(Lines)
    OBVIOUS
  <2> QED BY <1>2, <1>3, <2>1, TornFilesAreUnread DEF FileInv
<1>5. \A p \in Procs : proc[p] = Idle
  BY <1>1
<1>6. CliTypeInv
  BY <1>1, <1>4, <1>5, IdleIsFine DEF CliTypeInv
<1>7. OverlapInv
  BY <1>5 DEF OverlapInv, Alive, Idle
<1>8. PrintedInv
  BY <1>1, <1>5, IdleIsFine DEF PrintedInv, Elements
<1>9. CoverInv
  BY <1>3, <1>5, IdleIsFine DEF CoverInv, Recorded
<1> QED BY <1>6, <1>7, <1>8, <1>9 DEF CliInv

\* A stuttering step.
LEMMA NothingMoves ==
  ASSUME CliInv, UNCHANGED <<clock, file, proc, signed, printed, overlap>>
  PROVE  CliInv'
<1>1. CliTypeInv' /\ OverlapInv' /\ PrintedInv' /\ CoverInv'
  <2>1. FileInv' /\ AuditLines' = AuditLines
    BY DEF CliInv, CliTypeInv, FileInv, AuditLines
  <2> QED BY <2>1 DEF CliInv, CliTypeInv, OverlapInv, PrintedInv, CoverInv, Alive
<1> QED BY <1>1 DEF CliInv

LEMMA CliNextInv == CliInv /\ [CliNext]_cliVars => CliInv'
<1> SUFFICES ASSUME CliInv, [CliNext]_cliVars PROVE CliInv'
  OBVIOUS
<1>1. CASE UNCHANGED cliVars
  BY <1>1, NothingMoves DEF cliVars
<1>2. CASE ReadOnly \/ NoFiles
  BY <1>2, NothingMoves DEF ReadOnly, NoFiles, history
<1>3. CASE Alter
  BY <1>3, AlterInv
<1>4. ASSUME NEW h \in Holders, Sign(h)
      PROVE  CliInv'
  BY <1>4, SignInv
<1>5. ASSUME NEW p \in Procs, Start(p) \/ Kill(p)
      PROVE  CliInv'
  BY <1>5, StartInv, KillInv
<1>6. ASSUME NEW p \in Procs, ReadPolicy(p) \/ UseSample(p) \/ ReadState(p) \/ ReadEvents(p)
      PROVE  CliInv'
  BY <1>6, ReadPolicyInv, UseSampleInv, ReadStateInv, ReadEventsInv
<1>7. ASSUME NEW p \in Procs, AppendAudit(p) \/ Truncate(p) \/ Fill(p) \/ ResetAudit(p)
      PROVE  CliInv'
  BY <1>7, AppendAuditInv, TruncateInv, FillInv, ResetAuditInv
<1>8. ASSUME NEW p \in Procs, VerifyAllSnapshot(p) \/ VerifyAllAudit(p) \/ VerifyAllEnvelope(p)
      PROVE  CliInv'
  BY <1>8, VerifyAllInv
<1> QED BY <1>1, <1>2, <1>3, <1>4, <1>5, <1>6, <1>7, <1>8 DEF CliNext

(***************************************************************************)
(* The inductive invariant holds in every reachable state: whatever        *)
(* processes run at once, are killed between two awaits or have their      *)
(* files edited, each process holds at each of its awaits what the code    *)
(* had computed there, and the files hold what some process wrote.         *)
(***************************************************************************)
THEOREM CliInvariantHolds == CliSpec => []CliInv
<1> QED BY CliInitInv, CliNextInv, PTL DEF CliSpec

----------------------------------------------------------------------------
(* The properties. *)
(***************************************************************************)
(* AllowPrintedOncePerNonce.  While no two launches and no init have       *)
(* overlapped, no nonce is printed ALLOW for twice: launch writes          *)
(* state.json, with the nonce among those used, before it prints, and a    *)
(* kill in between loses the output and not the nonce.                     *)
(***************************************************************************)
THEOREM CliPrintsAllowOnce == CliSpec => []AllowPrintedOncePerNonce
<1>1. ASSUME CliInv
      PROVE  AllowPrintedOncePerNonce
  <2>1. SUFFICES ASSUME overlap = {} PROVE Cardinality(Elements(printed)) = Len(printed)
    BY DEF AllowPrintedOncePerNonce
  <2>2. printed \in Seq(Int) /\ \A i, j \in DOMAIN printed : printed[i] = printed[j] => i = j
    BY <1>1, <2>1 DEF CliInv, CliTypeInv, PrintedInv
  <2> DEFINE n == Len(printed)
             f == [i \in 1..n |-> printed[i]]
  <2>3. n \in Nat /\ DOMAIN printed = 1..n
    BY <2>2
  <2>4. Elements(printed) = {printed[i] : i \in 1..n}
    BY <2>3 DEF Elements
  <2> HIDE DEF n
  <2>5. IsFiniteSet(1..n) /\ Cardinality(1..n) = n
    BY <2>3, FS_Interval
  <2>6. f \in Injection(1..n, Elements(printed))
    BY <2>2, <2>3, <2>4 DEF Injection, IsInjective
  <2>7. f \in Surjection(1..n, Elements(printed))
    BY <2>3, <2>4 DEF Surjection
  <2>8. ExistsBijection(1..n, Elements(printed))
    BY <2>6, <2>7 DEF ExistsBijection, Bijection
  <2>9. Cardinality(Elements(printed)) = n
    BY <2>5, <2>8, FS_Bijection
  <2> QED BY <2>9 DEF n
<1> QED BY <1>1, CliInvariantHolds, PTL

(***************************************************************************)
(* EnvelopeCoversSnapshot.  make-envelope reads the state before the log,  *)
(* and launch appends to the log before it writes the state: so every      *)
(* nonce of the snapshot is an operator's or has its AUTH_EMITTED among    *)
(* the events, also when launches overlap the export.                      *)
(***************************************************************************)
THEOREM CliEnvelopesCover == CliSpec => EnvelopeCoversSnapshot
<1>1. ASSUME CliInv, NEW p \in Procs, Fill(p), proc[p].cmd = "make-envelope", overlap \subseteq {"launch"}
      PROVE  LET env == proc[p].out
                 nonces == env.snapshot.modules["ReplayModule"].part.nonces
             IN \A k \in DOMAIN nonces :
                  \/ nonces[k].id \in SeededNonces
                  \/ \E j \in DOMAIN env.events : env.events[j].type = "AUTH_EMITTED" /\ env.events[j].ref = nonces[k].id
  <2>1. Recorded(Exported(proc[p].out), proc[p].out.events)
    BY <1>1 DEF CliInv, CoverInv, Owed, Writing, Fill, At
  <2> QED BY <2>1 DEF Recorded, Exported, Authorized
<1>2. CliInv /\ [CliNext]_cliVars => [ \A p \in Procs :
        (Fill(p) /\ proc[p].cmd = "make-envelope" /\ overlap \subseteq {"launch"}) =>
          LET env == proc[p].out
              nonces == env.snapshot.modules["ReplayModule"].part.nonces
          IN \A k \in DOMAIN nonces :
               \/ nonces[k].id \in SeededNonces
               \/ \E j \in DOMAIN env.events : env.events[j].type = "AUTH_EMITTED" /\ env.events[j].ref = nonces[k].id ]_cliVars
  BY <1>1
<1> QED BY <1>2, CliInvariantHolds, PTL DEF CliSpec, EnvelopeCoversSnapshot

\* The policyIds that verifyAuditEvents counts are among those that count for the
\* replay verifier, and are the same when none is empty.
LEMMA PolicyIdsCounted ==
  ASSUME NEW events \in Seq(Lines)
  PROVE  /\ Cardinality(PolicyIds(events)) > 1 => Cardinality(PolicyTexts(events)) > 1
         /\ PlainlyWritten(events) => PolicyIds(events) = PolicyTexts(events)
<1> DEFINE all == {events[k].policyId : k \in DOMAIN events}
<1>1. IsFiniteSet(all)
  <2>1. DOMAIN events = 1..Len(events) /\ Len(events) \in Nat
    OBVIOUS
  <2>2. IsFiniteSet(DOMAIN events)
    BY <2>1, FS_Interval
  <2> DEFINE f == [k \in DOMAIN events |-> events[k].policyId]
  <2>3. f \in Surjection(DOMAIN events, all)
    BY DEF Surjection
  <2> HIDE DEF f, all
  <2> QED BY <2>2, <2>3, FS_Surjection
<1>2. PolicyIds(events) \subseteq PolicyTexts(events) /\ PolicyTexts(events) \subseteq all
  BY DEF PolicyIds, PolicyTexts
<1> HIDE DEF all
<1>3. IsFiniteSet(PolicyTexts(events))
  BY <1>1, <1>2, FS_Subset
<1>4. /\ Cardinality(PolicyIds(events)) <= Cardinality(PolicyTexts(events))
      /\ Cardinality(PolicyIds(events)) \in Nat /\ Cardinality(PolicyTexts(events)) \in Nat
  BY <1>2, <1>3, FS_Subset, FS_CardinalityType
<1>5. PlainlyWritten(events) => PolicyIds(events) = PolicyTexts(events)
  BY DEF PlainlyWritten, PolicyIds, PolicyTexts
<1> QED BY <1>4, <1>5

(***************************************************************************)
(* In a well formed log the replay verifier sees every fault that          *)
(* verifyAuditEvents sees; and it sees no other in one that is plainly     *)
(* written.                                                                *)
(***************************************************************************)
LEMMA VerifiersAgree ==
  ASSUME NEW events \in Seq(Lines), validateAuditLogJson(events), NEW mode \in {"strict", "best-effort"}
  PROVE  LET audit == verifyAuditEvents(events, mode, NoPolicy)
             replay == verifyReplayEvents(events, mode, NoPolicy)
         IN /\ replay.status # "violation" => audit.status = replay.status
            /\ replay.status = "violation" /\ PlainlyWritten(events) => audit.status = "invalid"
<1> DEFINE late == If(~Monotone(events), "NON_MONOTONIC_TIMESTAMP")
           mixed == If(Cardinality(PolicyIds(events)) > 1, "MIXED_POLICY_ID")
           mixedTexts == If(Cardinality(PolicyTexts(events)) > 1, "MIXED_POLICY_ID")
           bare == \E k \in DOMAIN events : events[k].type = "STATE_CHECKPOINT" /\ ~stateHashRe(events[k].ref)
           odd == If(bare, "INVALID_STATE_HASH")
           loose == If(mode = "strict" /\ ~Anchored(events), "NO_STATE_ANCHOR")
<1>1. WellFormed(events) = events
  <2>1. {k \in DOMAIN events : validateAuditEventJson(events[k])} = DOMAIN events
    BY DEF validateAuditLogJson
  <2> QED BY <2>1, SubsequenceOfAll DEF WellFormed
<1>2. late \subseteq {"NON_MONOTONIC_TIMESTAMP"} /\ mixed \subseteq {"MIXED_POLICY_ID"} /\ loose \subseteq {"NO_STATE_ANCHOR"}
  BY DEF If
<1>3. verifyAuditEvents(events, mode, NoPolicy).status =
        IF late \cup mixed # {} THEN "invalid" ELSE IF loose # {} THEN "inconclusive" ELSE "ok"
  <2> DEFINE codes == UNION {If(~validateAuditLogJson(events), "MALFORMED_EVENT"), late,
                             If(NoPolicy # NoPolicy /\ \E k \in DOMAIN events : events[k].policyId \in {NoPolicy, EmptyPolicy},
                                "POLICY_ID_MISSING"),
                             If(NoPolicy # NoPolicy /\ PolicyIds(events) \ {NoPolicy} # {}, "POLICY_ID_MISMATCH"),
                             mixed, loose}
  <2>1. codes = late \cup mixed \cup loose
    <3> HIDE DEF late, mixed, loose
    <3> QED BY DEF If
  <2>2. verifyAuditEvents(events, mode, NoPolicy).status =
          IF codes \ {"NO_STATE_ANCHOR"} # {} THEN "invalid" ELSE IF codes # {} THEN "inconclusive" ELSE "ok"
    BY <1>1 DEF verifyAuditEvents, Result
  <2> HIDE DEF codes, late, mixed, loose
  <2>3. codes \ {"NO_STATE_ANCHOR"} # {} <=> late \cup mixed # {}
    BY <1>2, <2>1
  <2>4. late \cup mixed = {} => (codes # {} <=> loose # {})
    BY <2>1
  <2> QED BY <2>2, <2>3, <2>4
<1>4. verifyReplayEvents(events, mode, NoPolicy).status =
        IF late \cup odd \cup mixedTexts # {} THEN "violation" ELSE IF loose # {} THEN "inconclusive" ELSE "ok"
  <2> DEFINE observed == Subsequence(events, {k \in DOMAIN events : events[k].policyId # NoPolicy})
             policyId == IF observed = <<>> THEN NoPolicy ELSE observed[1].policyId
             other == {NoPolicy, policyId} \cap {NoPolicy, EmptyPolicy} = {} /\ NoPolicy # policyId
             codes == UNION {late, odd, mixedTexts, If(other, "POLICY_ID_MISMATCH")}
  <2>1. ~other
    OBVIOUS
  <2>2. codes = late \cup odd \cup mixedTexts
    <3> HIDE DEF late, odd, mixedTexts, other
    <3> QED BY <2>1 DEF If
  <2>3. verifyReplayEvents(events, mode, NoPolicy).status =
          IF codes # {} THEN "violation"
          ELSE IF mode = "strict" /\ ~Anchored(events) THEN "inconclusive" ELSE "ok"
    BY DEF verifyReplayEvents, Result
  <2>4. loose # {} <=> mode = "strict" /\ ~Anchored(events)
    BY DEF If
  <2> HIDE DEF codes, loose, late, odd, mixedTexts
  <2> QED BY <2>2, <2>3, <2>4
<1>5. mixed \subseteq mixedTexts
  BY PolicyIdsCounted DEF If
<1>6. PlainlyWritten(events) => odd = {} /\ mixedTexts = mixed
  <2>1. PlainlyWritten(events) => ~bare
    BY DEF PlainlyWritten
  <2> HIDE DEF bare
  <2> QED BY <2>1, PolicyIdsCounted DEF If
<1> HIDE DEF late, mixed, mixedTexts, odd, loose
<1> QED BY <1>3, <1>4, <1>5, <1>6

\* An envelope that verifies with a required signature was signed as it is.
LEMMA VerifiedMeansSigned ==
  ASSUME CliInv, NEW flags, flags.requireSig, EnvelopeStatus(flags) \in {"ok", "inconclusive"}
  PROVE  file["envelope"].content \in signed
<1> DEFINE f == file["envelope"]
           env == Bytes(f)
<1>1. verifyEnvelope(env, flags).status \in {"ok", "inconclusive"}
  BY DEF EnvelopeStatus
<1>2. assertEnvelope(env) /\ ~(flags.mode = "strict" /\ flags.trusted = {})
  BY <1>1 DEF verifyEnvelope, Result
<1>3. Parses(f) /\ env = f.content
  BY <1>2 DEF assertEnvelope, Bytes, Garbage
<1> HIDE DEF env
<1>4. SignatureCodes(env, flags) \subseteq {"NO_STATE_ANCHOR"}
  <2> DEFINE snap == verifySnapshot(env.snapshot, flags.expectedPolicyId)
             audit == verifyAuditEvents(env.events, flags.mode, flags.expectedPolicyId)
             codes == UNION {If(flags.expectedIssuer # Absent /\ env.issuer # flags.expectedIssuer, "ENVELOPE_SIGNATURE_INVALID"),
                             SignatureCodes(env, flags), snap.codes, audit.codes,
                             If(NoPolicy \in {snap.policyId, audit.policyId}, "POLICY_ID_MISSING"),
                             If(NoPolicy \notin {snap.policyId, audit.policyId} /\ snap.policyId # audit.policyId,
                                "POLICY_ID_MISMATCH")}
  <2>1. verifyEnvelope(env, flags).status =
          IF codes \ {"NO_STATE_ANCHOR"} # {} THEN "invalid" ELSE IF codes # {} THEN "inconclusive" ELSE "ok"
    BY <1>2 DEF verifyEnvelope, Result
  <2>2. SignatureCodes(env, flags) \subseteq codes
    <3> HIDE DEF snap, audit
    <3> QED OBVIOUS
  <2> HIDE DEF codes
  <2>3. codes \ {"NO_STATE_ANCHOR"} = {}
    BY <1>1, <2>1
  <2> QED BY <2>2, <2>3
<1>5. hasSignature(env) /\ env.signature.over = envelopeSigningPayload(env)
  BY <1>4 DEF SignatureCodes, If
<1>6. EnvelopeShape(env) /\ Genuine(env, signed)
  BY <1>3, ReadableEnvelope
<1>7. [env.signature.over EXCEPT !.signature = env.signature] = env
  <2> DEFINE u == [env EXCEPT !.signature = Unsigned]
             w == [u EXCEPT !.signature = env.signature]
  <2>1. /\ DOMAIN w = DOMAIN env /\ w = [k \in DOMAIN w |-> w[k]] /\ env = [k \in DOMAIN env |-> env[k]]
        /\ \A k \in DOMAIN env : w[k] = env[k]
    <3>1. env = [k \in DOMAIN env |-> env[k]]
      BY <1>6 DEF EnvelopeShape
    <3> QED BY <3>1
  <2>2. w = env
    <3> HIDE DEF w
    <3> QED BY <2>1
  <2> QED BY <1>5, <2>2, Zenon DEF envelopeSigningPayload
<1>8. env \in signed
  BY <1>5, <1>6, <1>7, Zenon DEF Genuine
<1> QED BY <1>3, <1>8

(***************************************************************************)
(* VerdictsHold.  What the replay verifier does not object to in a log     *)
(* without malformed lines, verify-audit judges the same, and what it      *)
(* objects to is invalid for verify-audit unless a state hash does not     *)
(* look like one or a policyId is empty; and verifyEnvelope with a         *)
(* required signature accepts only an envelope that a holder of the key    *)
(* signed, field for field.                                                *)
(***************************************************************************)
THEOREM CliVerdictsHold == CliSpec => []VerdictsHold
<1>1. ASSUME CliInv
      PROVE  VerdictsHold
  <2>1. AuditLines \in Seq(Lines)
    BY <1>1, LinesAreTyped DEF CliInv
  <2>2. validateAuditLogJson(AuditLines) =>
          \A mode \in {"strict", "best-effort"} :
            LET audit == verifyAuditEvents(AuditLines, mode, NoPolicy)
                replay == verifyReplayEvents(AuditLines, mode, NoPolicy)
            IN /\ replay.status # "violation" => audit.status = replay.status
               /\ replay.status = "violation" /\ PlainlyWritten(AuditLines) => audit.status = "invalid"
    BY <2>1, VerifiersAgree
  <2>3. \A flags \in VerifyFlags :
          (flags.requireSig /\ EnvelopeStatus(flags) \in {"ok", "inconclusive"}) => file["envelope"].content \in signed
    BY <1>1, VerifiedMeansSigned
  <2> QED BY <2>2, <2>3 DEF VerdictsHold
<1> QED BY <1>1, CliInvariantHolds, PTL

(***************************************************************************)
(* RestoresWhatItExported.  Every state.json that a command writes and     *)
(* exportState can write comes back from importState with the same hash    *)
(* and the same decisions.  Amounts must have no sign: normalizeBudget     *)
(* writes a negative one and assertDecimalBigIntString then refuses the    *)
(* file.                                                                   *)
(***************************************************************************)
THEOREM CliRestoresWhatItExported ==
  ASSUME AmountsAreWritten
  PROVE  CliSpec => RestoresWhatItExported
<1>1. ASSUME CliInv', Parses(file'["state"]), ~exportThrows(file'["state"].content)
      PROVE  Restorable(file'["state"].content, computePolicyId(file'["state"].content.version, 0))
  <2> DEFINE s == file'["state"].content
             id == computePolicyId(s.version, 0)
  <2>1. Sound(s)
    BY <1>1, TornFilesAreUnread DEF CliInv, CliTypeInv, FileInv
  <2>2. WellShaped(s) /\ ~StateInvalid(s) /\ AmountsWithoutSign(s)
    BY <2>1, AmountsAreWritten DEF Sound
  <2>3. id # NoPolicy
    BY DEF computePolicyId, NoPolicy, NoInt
  <2> HIDE DEF s, id
  <2> QED BY <1>1, <2>2, <2>3, ExportsAreRestorable DEF s, id
<1>2. CliInv' => [ LET f == file'["state"]
                   IN (f # file["state"] /\ Parses(f) /\ ~exportThrows(f.content)) =>
                        Restorable(f.content, computePolicyId(f.content.version, 0)) ]_cliVars
  BY <1>1
<1> QED BY <1>2, CliInvariantHolds, PTL DEF CliSpec, RestoresWhatItExported
=============================================================================
