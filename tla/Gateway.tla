------------------------------ MODULE Gateway ------------------------------
(***************************************************************************)
(* The PEP gateway (packages/guard/src/gateway.ts): an HTTP server that    *)
(* verifies an authorization, consumes its auth_id and dispatches the      *)
(* action to a protected upstream, and the upstream's own token check.     *)
(*                                                                         *)
(* A request is cut where other requests, the clock, the replay store, the *)
(* upstream or a crash can come between: the store applies a consume some  *)
(* time after the gateway asked for it, and the upstream works on after    *)
(* the gateway has stopped waiting for it.  The request object stays in    *)
(* the hands of the process that passed it, and the options object in the  *)
(* deployer's: both may change while a request waits.                      *)
(*                                                                         *)
(* External, modelled from how the gateway uses them: the replay store's   *)
(* server, the network and the upstream's execute callback.                *)
(***************************************************************************)
EXTENDS Integers, FiniteSets, Sequences, Functions

CONSTANTS
  Requests,       \* HTTP calls, each made once
  Direct,         \* those sent straight to the upstream, without the executor token
  Auths,          \* auth_ids
  Presented,      \* the [auth, action] pairs requests may present, by request
  ActionOf,       \* the action whose hash an authorization holds
  IssuerOf,       \* the (issuer, policy) pair an authorization names
  Expiry,         \* [Auths -> Nat]
  OptionValues,   \* [wellFormed, authorities]: what the options object may hold
  FirstOptions,   \* what it holds when the gateway is first built
  DirectHeaders,  \* token headers, as sequences, of calls around the gateway
  Evicts,         \* the store drops a key once its TTL has passed (Redis)
  Durable,        \* the store survives a restart of the gateway
  StoreFails,     \* the store may fail, or answer with something not a boolean
  Timeout,        \* timeoutMs is positive and finite
  MaxTime,        \* bound on the clock
  MaxCrashes,     \* bound on restarts of the gateway
  MaxChanges      \* bound on changes of the request and options objects

ASSUME GatewayConfig ==
  /\ Direct \subseteq Requests
  /\ Presented \subseteq [Requests -> [auth : Auths, action : Range(ActionOf)]]
  /\ Expiry \in [Auths -> Nat]
  /\ {Evicts, Durable, StoreFails, Timeout} \subseteq BOOLEAN
  /\ MaxTime \in Nat /\ MaxCrashes \in Nat /\ MaxChanges \in Nat
  /\ FirstOptions \in OptionValues

VARIABLES
  now,        \* Date.now() in seconds
  crashes,    \* restarts so far
  changes,    \* changes of live objects so far
  options,    \* the deployer's options object
  gateway,    \* {} or {what the running gateway captured of it}
  input,      \* the request objects, as their owners hold them
  request,    \* {} or {the snapshot taken of the request}
  payload,    \* {} or {what was sent to the upstream}
  pc,         \* where the gateway is with each request
  asked,      \* when each request was verified and the store called; NotYet before
  keys,       \* the replay store: consumed auth_ids
  answered,   \* when the store applied each request's consume; NotYet before
  upstream,   \* how far the upstream is with each request
  effects,    \* requests whose protected effect has happened
  response    \* what each caller was told

live == <<changes, options, input>>
vars == <<now, crashes, live, gateway, request, payload, pc, asked, keys, answered, upstream,
          effects, response>>

NotYet == -1

\* The HTTP status, the reason and the upstream's own value are left out.
Body(decision, outcome, executed) ==
  [decision |-> decision, outcome |-> outcome, executed |-> executed]

NoResponse == Body("pending", "none", "none")

NotServed == Body("none", "none", "none")

deny == Body("DENY", "NOT_DISPATCHED", "false")

Indeterminate == Body("ALLOW", "INDETERMINATE", "null")

Executed == Body("ALLOW", "EXECUTED", "true")

----------------------------------------------------------------------------
(***************************************************************************)
(* Construction reads the options once.  A list of authorities that is     *)
(* absent or not plain well-formed data stops it; an empty list does not.  *)
(***************************************************************************)
resolveTrustedAuthorizationAuthorities(o) == IF o.wellFormed THEN {o.authorities} ELSE {}

createPepGatewayExecutor(o) ==
  {[authorities |-> a] : a \in resolveTrustedAuthorizationAuthorities(o)}

Token == "executor token"

\* Whoever calls around the gateway does not know the token.
ASSUME TokenIsSecret == \A h \in DirectHeaders : h \in Seq(STRING) /\ h # <<Token>>

(***************************************************************************)
(* The protected upstream.  Only calls that carry the executor token run.  *)
(***************************************************************************)
\* A header that is repeated is no header.
headerValue(headers) == IF Len(headers) = 1 THEN headers[1] ELSE "undefined"

hasValidInternalExecutorToken(headers) == headerValue(headers) = Token

\* A call is refused with an error status or goes on to execute().
protectUpstreamExecution(headers) ==
  IF hasValidInternalExecutorToken(headers) THEN "called" ELSE "error"

\* The calls around the gateway are under way: they share nothing with it.
Init ==
  /\ now = 0 /\ crashes = 0 /\ changes = 0
  /\ options = FirstOptions
  /\ gateway = createPepGatewayExecutor(options)
  /\ input \in Presented
  /\ request = [r \in Requests |-> {}]
  /\ payload = [r \in Requests |-> {}]
  /\ pc = [r \in Requests |-> "idle"]
  /\ asked = [r \in Requests |-> NotYet]
  /\ keys = {}
  /\ answered = [r \in Requests |-> NotYet]
  /\ \E h \in DirectHeaders :
       upstream = [r \in Requests |-> IF r \in Direct THEN protectUpstreamExecution(h) ELSE "none"]
  /\ effects = {}
  /\ response = [r \in Requests |-> NoResponse]

----------------------------------------------------------------------------
Goto(r, label) == pc' = [pc EXCEPT ![r] = label]

\* executeThroughPep has its result; the HTTP handler still has to send it.
\* A body to "relay" carries a value the upstream chose.
Return(r, label, body) ==
  /\ response' = [response EXCEPT ![r] = body]
  /\ Goto(r, label)

(***************************************************************************)
(* The checks made before anything is touched, all at one reading of the   *)
(* clock.  The HTTP handler answers the first three itself.                *)
(***************************************************************************)
Refusal ==
  [d \in {"route", "json", "read", "request", "hash", "verification", "expired", "authority",
          "intent", "input"} |-> IF d = "route" THEN NotServed ELSE deny]

TrustedAuthorities(g) == g.authorities

(***************************************************************************)
(* What the verification and the binding to the action make of a request.  *)
(* The other defects of an artifact depend on nothing that changes here.   *)
(***************************************************************************)
Defects(q, g) ==
  {d \in {"expired", "authority", "intent"} :
     \/ d = "expired" /\ now >= Expiry[q.auth]
     \/ d = "authority" /\ IssuerOf[q.auth] \notin TrustedAuthorities(g)
     \/ d = "intent" /\ q.action # ActionOf[q.auth]}

Refuse(r, defect) ==
  /\ pc[r] = "idle" /\ r \notin Direct
  /\ \E g \in gateway :
       /\ defect \in {"expired", "authority", "intent"} => defect \in Defects(input[r], g)
       /\ defect \in {"intent", "input"} => Defects(input[r], g) \subseteq {"intent"}
  /\ response' = [response EXCEPT ![r] = Refusal[defect]]
  /\ Goto(r, IF defect \in {"route", "json", "read"} THEN "answered" ELSE "send")
  /\ UNCHANGED <<now, crashes, live, gateway, request, payload, asked, keys, answered, upstream,
                 effects>>

\* One walk of the request graph, before any decision; all later steps read it.
CallStore(r) ==
  /\ pc[r] = "idle" /\ r \notin Direct
  /\ \E g \in gateway : Defects(input[r], g) = {}
  /\ request' = [request EXCEPT ![r] = {input[r]}]
  /\ asked' = [asked EXCEPT ![r] = now]
  /\ Goto(r, "consume")
  /\ UNCHANGED <<now, crashes, live, gateway, payload, keys, answered, upstream, effects,
                 response>>

(***************************************************************************)
(* The store: SET key NX EX ttl, atomic when it is applied.                *)
(***************************************************************************)
Held(id) == \E k \in keys : k.id = id /\ (Evicts => now < k.until)

\* Mutant: the key lives one second less than the authorization.
computeTtl_Short(expiry, t) == IF expiry - t > 2 THEN expiry - t - 1 ELSE 1

computeTtl(expiry, t) == IF expiry - t > 1 THEN expiry - t ELSE 1

ConsumedId(r) == (CHOOSE q \in request[r] : TRUE).auth

Key(r) == [id |-> ConsumedId(r), until |-> now + computeTtl(Expiry[ConsumedId(r)], asked[r])]

StoreConsumes(r) ==
  /\ pc[r] = "consume"
  /\ ~Held(ConsumedId(r))
  /\ keys' = keys \cup {Key(r)}
  /\ answered' = [answered EXCEPT ![r] = now]
  /\ Goto(r, "dispatch")
  /\ UNCHANGED <<now, crashes, live, gateway, request, payload, asked, upstream, effects, response>>

StoreRefuses(r) ==
  /\ pc[r] = "consume"
  /\ Held(ConsumedId(r))
  /\ Return(r, "send", deny)
  /\ UNCHANGED <<now, crashes, live, gateway, request, payload, asked, keys, answered, upstream, effects>>

\* A failing store may have recorded the id all the same.
StoreErrs(r) ==
  /\ pc[r] = "consume" /\ StoreFails
  /\ keys' \in {keys, keys \cup {Key(r)}}
  /\ Return(r, "send", deny)
  /\ UNCHANGED <<now, crashes, live, gateway, request, payload, asked, answered, upstream, effects>>

----------------------------------------------------------------------------
(***************************************************************************)
(* Dispatch, and the race between the upstream's answer, a transport       *)
(* error and the timer.                                                    *)
(***************************************************************************)
\* Mutant: the caller's own object is dispatched.
mutableCopyOfSnapshot_Live(r) == {input[r].action}

\* A copy of the verified action, made before the id is consumed.
mutableCopyOfSnapshot(r) == {q.action : q \in request[r]}

Dispatch(r) ==
  /\ pc[r] = "dispatch"
  /\ payload' = [payload EXCEPT ![r] = mutableCopyOfSnapshot(r)]
  /\ upstream' = [upstream EXCEPT ![r] = protectUpstreamExecution(<<Token>>)]
  /\ Goto(r, "dispatched")
  /\ UNCHANGED <<now, crashes, live, gateway, request, asked, keys, answered, effects, response>>

\* Mutant: an error status of the upstream is a confirmed non-execution.
Relayed_ErrorMeansNothingRan(r) ==
  IF upstream[r] = "ok" THEN Executed ELSE deny

Relayed(r) == IF upstream[r] = "ok" THEN Executed ELSE Indeterminate

\* The call resolves with the upstream's status when its whole answer is in.
createHttpUpstreamExecutor(r) == {upstream[r]} \cap {"ok", "error"}

UpstreamAnswered(r) ==
  /\ pc[r] = "dispatched" /\ createHttpUpstreamExecutor(r) # {}
  /\ Return(r, "relay", Relayed(r))
  /\ UNCHANGED <<now, crashes, live, gateway, request, payload, asked, keys, answered, upstream, effects>>

\* The connection fails, or the answer is not JSON.
TransportFails(r) ==
  /\ pc[r] = "dispatched"
  /\ Return(r, "send", Indeterminate)
  /\ UNCHANGED <<now, crashes, live, gateway, request, payload, asked, keys, answered, upstream, effects>>

\* Mutant: the timer is never armed.
TimerFires_Never(r) == pc[r] = "dispatched" /\ ~Timeout /\ UNCHANGED vars

TimerFires(r) ==
  /\ pc[r] = "dispatched" /\ Timeout
  /\ Return(r, "send", Indeterminate)
  /\ UNCHANGED <<now, crashes, live, gateway, request, payload, asked, keys, answered, upstream, effects>>

(***************************************************************************)
(* sendJson serializes the whole body before it writes anything; if that   *)
(* throws (only an upstream's own value can make it) the backstop answers. *)
(***************************************************************************)
SendJson(r) ==
  /\ pc[r] \in {"send", "relay"}
  /\ Goto(r, "answered")
  /\ UNCHANGED <<now, crashes, live, gateway, request, payload, asked, keys, answered, upstream, effects, response>>

SendJsonFails(r) ==
  /\ pc[r] = "relay"
  /\ response' = [response EXCEPT ![r] =
                    Body("UNKNOWN", "INDETERMINATE", "null")]
  /\ Goto(r, "answered")
  /\ UNCHANGED <<now, crashes, live, gateway, request, payload, asked, keys, answered, upstream, effects>>

----------------------------------------------------------------------------
\* execute() has its effect; it may throw before, or after it.
UpstreamRuns(r) ==
  /\ upstream[r] = "called"
  /\ effects' = effects \cup {r}
  /\ upstream' = [upstream EXCEPT ![r] = "ran"]
  /\ UNCHANGED <<now, crashes, live, gateway, request, payload, pc, asked, keys, answered, response>>

UpstreamReturns(r) ==
  /\ upstream[r] = "ran"
  /\ upstream' = [upstream EXCEPT ![r] = "ok"]
  /\ UNCHANGED <<now, crashes, live, gateway, request, payload, pc, asked, keys, answered, effects, response>>

UpstreamThrows(r) ==
  /\ upstream[r] \in {"called", "ran"}
  /\ upstream' = [upstream EXCEPT ![r] = "error"]
  /\ UNCHANGED <<now, crashes, live, gateway, request, payload, pc, asked, keys, answered, effects, response>>

----------------------------------------------------------------------------
Tick ==
  /\ now < MaxTime
  /\ now' = now + 1
  /\ UNCHANGED <<crashes, live, gateway, request, payload, pc, asked, keys, answered, upstream,
                 effects, response>>

\* The gateway restarts, from the options as they are by now: callers in
\* flight get no answer.
Crash ==
  /\ crashes < MaxCrashes
  /\ crashes' = crashes + 1
  /\ gateway' = createPepGatewayExecutor(options)
  /\ pc' = [r \in Requests |-> IF pc[r] \in {"idle", "answered"} THEN pc[r] ELSE "crashed"]
  /\ response' = [r \in Requests |-> IF pc[r] \in {"send", "relay"} THEN NoResponse ELSE response[r]]
  /\ keys' = IF Durable THEN keys ELSE {}
  /\ UNCHANGED <<now, live, request, payload, asked, answered, upstream, effects>>

\* The owner of a request object turns it into another request.  Until the
\* gateway has read it that is the request; after dispatch nothing reads it.
ChangeRequest(r) ==
  /\ changes < MaxChanges /\ changes' = changes + 1
  /\ pc[r] \in {"consume", "dispatch"}
  /\ \E a \in Auths \ {input[r].auth} :
       input' = [input EXCEPT ![r] = [auth |-> a, action |-> ActionOf[a]]]
  /\ UNCHANGED <<now, crashes, options, gateway, request, payload, pc, asked, keys, answered,
                 upstream, effects, response>>

ChangeOptions ==
  /\ changes < MaxChanges /\ changes' = changes + 1
  /\ options' \in OptionValues \ {options}
  /\ UNCHANGED <<now, crashes, input, gateway, request, payload, pc, asked, keys, answered,
                 upstream, effects, response>>

GatewayStep(r) ==
  \/ StoreConsumes(r) \/ StoreRefuses(r) \/ StoreErrs(r)
  \/ Dispatch(r) \/ UpstreamAnswered(r) \/ TransportFails(r) \/ TimerFires(r)
  \/ SendJson(r) \/ SendJsonFails(r)

UpstreamStep(r) ==
  \/ UpstreamRuns(r) \/ UpstreamReturns(r)
  \/ UpstreamThrows(r)

Next ==
  \/ \E r \in Requests : (\E d \in DOMAIN Refusal : Refuse(r, d)) \/ CallStore(r)
                     \/ GatewayStep(r) \/ UpstreamStep(r)
                     \/ ChangeRequest(r)
  \/ Tick \/ Crash \/ ChangeOptions

(***************************************************************************)
(* The gateway's own continuations run, the store answers and the timer    *)
(* fires.  Nothing is assumed of the upstream or of the transport.         *)
(***************************************************************************)
Spec ==
  /\ Init /\ [][Next]_vars
  /\ \A r \in Requests :
       /\ WF_vars(StoreConsumes(r) \/ StoreRefuses(r) \/ StoreErrs(r))
       /\ WF_vars(Dispatch(r))
       /\ WF_vars(TimerFires(r))
       /\ WF_vars(SendJson(r) \/ SendJsonFails(r))

----------------------------------------------------------------------------
(***************************************************************************)
(* `executed` is false, and the outcome NOT_DISPATCHED, only when the      *)
(* effect has not happened and never will; it is true only when it has     *)
(* happened; anything else is INDETERMINATE (gateway.ts, H-1), whatever    *)
(* the upstream does after the gateway stopped waiting.                    *)
(***************************************************************************)
OutcomeIsHonest ==
  \A r \in Requests \ Direct :
    /\ response[r].outcome = "NOT_DISPATCHED"
         => upstream[r] = "none" /\ r \notin effects /\ response[r].executed = "false"
    /\ response[r].outcome = "EXECUTED" => r \in effects /\ response[r].executed = "true"
    /\ response[r].outcome = "INDETERMINATE" => response[r].executed = "null"
    /\ response[r].outcome = "none" /\ r \in effects => pc[r] \in {"dispatched", "crashed"}

(***************************************************************************)
(* Whatever the owners of the request and options objects do while a       *)
(* request waits: the action that reaches the upstream is the one the      *)
(* verified authorization holds the hash of, its issuer was trusted by the *)
(* gateway as built, and once its id is consumed that id is on record      *)
(* until it expires.  And the protected effect happens only for a request  *)
(* whose authorization was unexpired and consumed for it: not around the   *)
(* gateway, and not on a failed or refused consume (snapshotPlainData,     *)
(* mutableCopyOfSnapshot, resolveTrustedAuthorizationAuthorities and       *)
(* protectUpstreamExecution together).                                     *)
(***************************************************************************)
ExecutedAsVerified ==
  /\ \A r \in Requests \ Direct : \A q \in request[r] :
       /\ payload[r] \subseteq {ActionOf[q.auth]}
       /\ answered[r] # NotYet /\ Durable => \E k \in keys : k.id = q.auth
       /\ crashes = 0 => IssuerOf[q.auth] \in FirstOptions.authorities
  /\ \A r \in effects : \E q \in request[r] :
       asked[r] # NotYet /\ asked[r] < Expiry[q.auth] /\ answered[r] # NotYet

(***************************************************************************)
(* Through restarts of the gateway and with keys that expire, two requests *)
(* with one authorization are both dispatched only if the store applied    *)
(* the consume of one of them after the authorization had expired: a TTL   *)
(* of max(1, expiry - now) covers every presentation that reaches the      *)
(* store in time (replayStore.redis.ts, computeTtl).                       *)
(***************************************************************************)
TimelyPresentationsDispatchOnce ==
  Durable =>
    \A r, s \in Requests :
      \A id \in {q.auth : q \in request[r]} \cap {q.auth : q \in request[s]} :
        (r # s /\ answered[r] # NotYet /\ answered[s] # NotYet)
          => (Evicts /\ (answered[r] >= Expiry[id] \/ answered[s] >= Expiry[id]))

(***************************************************************************)
(* A request that reached the store is answered, or its gateway restarts,  *)
(* even if the upstream never says a word (withTimeout).                   *)
(***************************************************************************)
EveryCallerIsAnswered ==
  \A r \in Requests : pc[r] = "consume" ~> pc[r] \in {"answered", "crashed"}

=============================================================================
