---------------------------- MODULE AuditTrail ----------------------------
(***************************************************************************)
(* Audit emission and write-behind persistence of the policy engine        *)
(* (packages/core/src/policy/PolicyEngine.ts, audit/HashChainedLog.ts,     *)
(* adapters/).  evaluate is synchronous: it appends events to a hash       *)
(* chained log and queues them, and snapshots of the state, on two promise *)
(* chains that deliver them later, one at a time.  flushAudit and          *)
(* flushState wait for what was queued before them.                        *)
(*                                                                         *)
(* Decisions are those of module PolicyEngine; here an evaluation is       *)
(* invalid, failed, denied or allowed, and the state is the number of      *)
(* admissions it contains.  An event is its type, the evaluation it        *)
(* belongs to and, for a checkpoint, the state it anchors.                 *)
(*                                                                         *)
(* External: the file system, which may refuse a write or leave part of a  *)
(* line, a sink of the caller's that may fail now and then, and the caller *)
(* who restarts from the stored snapshot.                                  *)
(***************************************************************************)
EXTENDS Integers, Sequences, FiniteSets

CONSTANTS
  Setups,      \* the pairs [sink, store] of configured adapters considered
  Flushes,     \* calls of flushAudit and flushState, each made once
  Every,       \* checkpoint_every_n_events; 0: not configured
  Fails,       \* what may fail
  MaxEvaluations, MaxCrashes

ASSUME AuditConfig ==
  /\ Setups \subseteq [sink : {"none", "InMemoryAuditSink", "FileAuditSink", "caller"}, store : BOOLEAN]
  /\ Every \in Nat
  /\ Fails \subseteq {"append", "set"}
  /\ {MaxEvaluations, MaxCrashes} \subseteq Nat

VARIABLES
  sink,         \* the audit sink configured
  store,        \* a state store is configured
  crashes,
  evaluations,  \* evaluations so far
  state,        \* the caller's state
  head,         \* HashChainedLog: the events its head hash stands for
  auditCount,   \* auditEventCount
  auditQueue,   \* auditSinkChain: events not yet settled, the first being delivered
  writing,      \* FileAuditSink has opened the file for the first of them
  broken,       \* FileAuditSink.queue is rejected
  file,         \* what the sink holds
  auditError,   \* auditSinkError is set
  stateQueue,   \* stateStoreChain: snapshots not yet settled
  tmp,          \* FileStateStore has written the temporary file of the first of them
  stored,       \* the state store's contents
  stateError,   \* stateStoreError is set
  flush,        \* how far each flush is
  committed,    \* history: the last snapshot this process has queued
  refused,      \* history: events and snapshots that could not be written
  reported,     \* history: those whose loss some flush has thrown since
  glued         \* history: events that share a line with part of another

env == <<sink, store, crashes>>
logVars == <<head, auditCount>>
auditVars == <<auditQueue, writing, broken, file, auditError, glued>>
storeVars == <<stateQueue, tmp, stored, stateError>>
history == <<committed, refused, reported>>
vars == <<env, evaluations, state, logVars, auditVars, storeVars, flush, history>>

Null == -1           \* StateStore.get() returns null
Torn == [type |-> "torn"]         \* part of a line, no newline
Garbage == [type |-> "garbage"]   \* a line that does not parse

Event(type, anchor) == [type |-> type, of |-> evaluations, state |-> anchor]

NotFlushing == [pc |-> "idle", waits |-> 0, upto |-> 0, missed |-> {}]

Snapshot(n) == [type |-> "snapshot", state |-> n]

Init ==
  /\ \E s \in Setups : sink = s.sink /\ store = s.store
  /\ crashes = 0
  /\ evaluations = 0 /\ state = 0
  /\ head = <<>> /\ auditCount = 0
  /\ auditQueue = <<>> /\ writing = FALSE /\ broken = FALSE /\ file = <<>>
  /\ auditError = FALSE 
  /\ committed = Null /\ refused = {} /\ reported = {} /\ glued = {}
  /\ stateQueue = <<>> /\ tmp = FALSE /\ stored = Null /\ stateError = FALSE
  /\ flush = [f \in Flushes |-> NotFlushing]

----------------------------------------------------------------------------
(***************************************************************************)
(* evaluate: the events of one decision, then commitState (autoPersist).   *)
(* An intent or state that does not validate leaves no event, and an error *)
(* caught on the way only the first.                                       *)
(***************************************************************************)
Decided(decision) ==
  CASE decision = "invalid" -> <<>>
    [] decision = "INTERNAL_ERROR" -> <<"INTENT_RECEIVED">>
    [] decision = "DENY" -> <<"INTENT_RECEIVED", "DENY">>
    [] decision = "ALLOW" -> <<"INTENT_RECEIVED", "ALLOW", "AUTH_EMITTED">>

\* maybeEmitCheckpoint: the checkpoint counts as an event itself.
Checkpoint(count) ==
  IF Every > 0 /\ count % Every = 0 THEN <<"STATE_CHECKPOINT">> ELSE <<>>

EventsOf(decision, next) ==
  LET types == Decided(decision)
      all == IF decision \notin {"ALLOW", "DENY"} THEN types ELSE types \o Checkpoint(auditCount + Len(types))
  IN [k \in DOMAIN all |-> Event(all[k], IF all[k] = "STATE_CHECKPOINT" THEN next ELSE Null)]

emitAudit(events) ==
  /\ head' = head \o events
  /\ auditCount' = auditCount + Len(events)
  /\ auditQueue' = IF sink = "none" THEN <<>> ELSE auditQueue \o events

commitState(snapshot) ==
  stateQueue' = IF store THEN Append(stateQueue, snapshot) ELSE <<>>

Evaluate(decision) ==
  /\ evaluations < MaxEvaluations
  /\ evaluations' = evaluations + 1
  /\ state' = IF decision = "ALLOW" THEN state + 1 ELSE state
  /\ emitAudit(EventsOf(decision, state'))
  /\ commitState(state') /\ committed' = IF store THEN state' ELSE Null
  /\ UNCHANGED <<env, writing, broken, file, auditError, glued, tmp, stored, stateError, flush,
                 refused, reported>>

----------------------------------------------------------------------------
(***************************************************************************)
(* Delivery to the audit sink: the first queued event, then the next.      *)
(***************************************************************************)
\* The head of the chain is settled: those who wait for it wait for one less.
Awaited(labels) ==
  [f \in Flushes |-> IF flush[f].pc \in labels /\ flush[f].waits > 0
                     THEN [flush[f] EXCEPT !.waits = @ - 1] ELSE flush[f]]

Settle(ok) ==
  /\ auditQueue' = Tail(auditQueue)
  /\ flush' = Awaited({"audit", "sink"})
  /\ auditError' = (auditError \/ ~ok)
  /\ refused' = IF ok THEN refused ELSE refused \cup {Head(auditQueue)}
  /\ UNCHANGED <<env, evaluations, state, logVars, storeVars, committed, reported>>

SinkAppends ==
  /\ auditQueue # <<>> /\ sink # "FileAuditSink"
  /\ file' = Append(file, Head(auditQueue))
  /\ Settle(TRUE)
  /\ UNCHANGED <<writing, broken, glued>>

SinkRefuses ==
  /\ auditQueue # <<>>
  /\ \/ sink = "caller" /\ "append" \in Fails
     \/ sink = "FileAuditSink" /\ broken
  /\ Settle(FALSE)
  /\ UNCHANGED <<writing, broken, file, glued>>

OpenFile ==
  /\ auditQueue # <<>> /\ sink = "FileAuditSink" /\ ~broken /\ ~writing
  /\ writing' = TRUE
  /\ UNCHANGED <<env, evaluations, state, logVars, auditQueue, broken, file, auditError, glued,
                 storeVars, flush, history>>

EndsTorn == file # <<>> /\ file[Len(file)] = Torn

\* A line that follows part of a line is glued to it.
WriteLine ==
  /\ writing
  /\ file' = IF EndsTorn THEN [file EXCEPT ![Len(file)] = Garbage]
                         ELSE Append(file, Head(auditQueue))
  /\ glued' = IF EndsTorn THEN glued \cup {Head(auditQueue)} ELSE glued
  /\ writing' = FALSE
  /\ Settle(TRUE)
  /\ UNCHANGED broken

\* A write that fails or is cut off may leave part of a line.
MaybeTorn == file' \in {file, IF EndsTorn THEN file ELSE Append(file, Torn)}

\* Mutant: the next append tries again.
WriteFails_Recovers ==
  /\ writing /\ "append" \in Fails
  /\ MaybeTorn
  /\ writing' = FALSE
  /\ Settle(FALSE)
  /\ UNCHANGED <<broken, glued>>

WriteFails ==
  /\ writing /\ "append" \in Fails
  /\ MaybeTorn
  /\ writing' = FALSE /\ broken' = TRUE
  /\ Settle(FALSE)
  /\ UNCHANGED glued

----------------------------------------------------------------------------
(***************************************************************************)
(* Delivery to FileStateStore: a temporary file, then a rename.            *)
(***************************************************************************)
SettleState(ok) ==
  /\ stateQueue' = Tail(stateQueue)
  /\ flush' = Awaited({"state"})
  /\ stateError' = (stateError \/ ~ok)
  /\ tmp' = FALSE
  /\ refused' = IF ok THEN refused ELSE refused \cup {Snapshot(Head(stateQueue))}
  /\ UNCHANGED <<env, evaluations, state, logVars, auditVars, committed, reported>>

WriteTmp ==
  /\ stateQueue # <<>> /\ ~tmp
  /\ tmp' = TRUE
  /\ UNCHANGED <<env, evaluations, state, logVars, auditVars, stateQueue, stored, stateError,
                 flush, history>>

Rename ==
  /\ tmp
  /\ stored' = Head(stateQueue)
  /\ SettleState(TRUE)

SetFails ==
  /\ stateQueue # <<>> /\ "set" \in Fails
  /\ SettleState(FALSE)
  /\ UNCHANGED stored

----------------------------------------------------------------------------
(***************************************************************************)
(* flushAudit and flushState.  A flush waits for what is queued when it    *)
(* begins, and throws the first error nobody has been told of, once.       *)
(* FileAuditSink.flush throws by itself, and forgets nothing.              *)
(***************************************************************************)
Lines == {file[k] : k \in DOMAIN file}

Unreported(f) ==
  IF flush[f].pc = "state"
  THEN IF stored >= flush[f].upto THEN {} ELSE {Snapshot(flush[f].upto)} \ reported
  ELSE {head[k] : k \in 1..IF sink = "none" THEN 0 ELSE flush[f].upto} \ (Lines \cup glued \cup reported)

\* Mutant: only what is delivered already is waited for.
flushAudit_NoWait(f) ==
  /\ flush[f].pc = "idle"
  /\ flush' = [flush EXCEPT ![f] = [pc |-> "audit", waits |-> 0, upto |-> Len(head), missed |-> {}]]
  /\ UNCHANGED <<env, evaluations, state, logVars, auditVars, storeVars, history>>

flushAudit(f) ==
  /\ flush[f].pc = "idle"
  /\ flush' = [flush EXCEPT ![f] = [pc |-> "audit", waits |-> Len(auditQueue), upto |-> Len(head),
                                    missed |-> {}]]
  /\ UNCHANGED <<env, evaluations, state, logVars, auditVars, storeVars, history>>

flushState(f) ==
  /\ flush[f].pc = "idle"
  /\ flush' = [flush EXCEPT ![f] = [pc |-> "state", waits |-> Len(stateQueue), missed |-> {},
                                    upto |-> committed]]
  /\ UNCHANGED <<env, evaluations, state, logVars, auditVars, storeVars, history>>

FlushSink(f) ==
  /\ flush[f].pc = "audit" /\ flush[f].waits = 0
  /\ flush' = [flush EXCEPT ![f].pc = "sink", ![f].waits = IF writing THEN 1 ELSE 0]
  /\ UNCHANGED <<env, evaluations, state, logVars, auditVars, storeVars, history>>

Throws(f) ==
  /\ flush' = [flush EXCEPT ![f].pc = "thrown"]
  /\ reported' = reported \cup refused

\* Mutant: a rejected queue wakes nobody.
FlushSinkThrows_Never(f) == FALSE /\ UNCHANGED vars

FlushSinkThrows(f) ==
  /\ flush[f].pc = "sink" /\ flush[f].waits = 0 /\ broken
  /\ Throws(f)
  /\ UNCHANGED <<env, evaluations, state, logVars, auditVars, storeVars, committed, refused>>

FlushThrows(f) ==
  /\ flush[f].waits = 0
  /\ \/ /\ flush[f].pc = "sink" /\ ~broken /\ auditError
        /\ auditError' = FALSE /\ UNCHANGED stateError
     \/ /\ flush[f].pc = "state" /\ stateError
        /\ stateError' = FALSE /\ UNCHANGED auditError
  /\ Throws(f)
  /\ UNCHANGED <<env, evaluations, state, logVars, auditQueue, writing, broken, file, glued,
                 stateQueue, tmp, stored, committed, refused>>

FlushReturns(f) ==
  /\ flush[f].waits = 0
  /\ \/ flush[f].pc = "sink" /\ ~broken /\ ~auditError
     \/ flush[f].pc = "state" /\ ~stateError
  /\ flush' = [flush EXCEPT ![f].pc = "returned", ![f].missed = Unreported(f)]
  /\ UNCHANGED <<env, evaluations, state, logVars, auditVars, storeVars, history>>

----------------------------------------------------------------------------
\* The process restarts with a new engine on what is stored.
Crash ==
  /\ crashes < MaxCrashes
  /\ crashes' = crashes + 1
  /\ state' = IF stored = Null THEN 0 ELSE stored
  /\ head' = <<>> /\ auditCount' = 0
  /\ auditQueue' = <<>> /\ writing' = FALSE /\ broken' = FALSE /\ auditError' = FALSE
  /\ IF writing THEN MaybeTorn
                ELSE file' = IF sink = "InMemoryAuditSink" THEN <<>> ELSE file
  /\ stateQueue' = <<>> /\ tmp' = FALSE /\ stateError' = FALSE
  /\ flush' = [f \in Flushes |-> IF flush[f].pc \in {"audit", "sink", "state"}
                                 THEN [flush[f] EXCEPT !.pc = "crashed"] ELSE flush[f]]
  /\ committed' = Null /\ refused' = {} /\ reported' = {} /\ glued' = {}
  /\ UNCHANGED <<sink, store, evaluations, stored>>

Deliver == SinkAppends \/ SinkRefuses \/ OpenFile \/ WriteLine \/ WriteFails

Store == WriteTmp \/ Rename \/ SetFails

Flush(f) == FlushSink(f) \/ FlushSinkThrows(f) \/ FlushThrows(f) \/ FlushReturns(f)

Next ==
  \/ \E decision \in {"invalid", "INTERNAL_ERROR", "DENY", "ALLOW"} : Evaluate(decision)
  \/ Deliver \/ Store
  \/ \E f \in Flushes : flushAudit(f) \/ flushState(f) \/ Flush(f)
  \/ Crash

(***************************************************************************)
(* The sink and the store answer, in one way or another, and the           *)
(* continuations of a flush run.                                           *)
(***************************************************************************)
Spec ==
  /\ Init /\ [][Next]_vars
  /\ WF_vars(Deliver) /\ WF_vars(Store) /\ \A f \in Flushes : WF_vars(Flush(f))

----------------------------------------------------------------------------
Types == {"INTENT_RECEIVED", "DENY", "ALLOW", "AUTH_EMITTED", "STATE_CHECKPOINT"}

Events == [type : Types, of : 0..MaxEvaluations, state : Nat \cup {Null}]

Rank == [INTENT_RECEIVED |-> 1, DENY |-> 2, ALLOW |-> 2, AUTH_EMITTED |-> 3, STATE_CHECKPOINT |-> 4]

Precedes(d, e) == d.of < e.of \/ (d.of = e.of /\ Rank[d.type] < Rank[e.type])

(***************************************************************************)
(* What the sink holds is in the order of emission and without duplicates, *)
(* through asynchronous appends, failures and restarts (auditSinkChain),   *)
(* so that its timestamps do not fall, as verifyAuditEvents demands.  And  *)
(* FileAuditSink has no holes: if an event is in the file, every earlier   *)
(* one of its process is too, or shares a spoilt line.  After a failed     *)
(* append the file takes nothing more (the rejected queue is never reset). *)
(* No snapshot that waits to be written is older than the stored one       *)
(* (stateStoreChain).                                                      *)
(***************************************************************************)
WrittenInOrder ==
  /\ \A j, k \in DOMAIN file :
       (j < k /\ file[j] \in Events /\ file[k] \in Events) => Precedes(file[j], file[k])
  /\ sink = "FileAuditSink" =>
       \A j, k \in DOMAIN head :
         (j < k /\ head[k] \in Lines) => head[j] \in Lines \cup glued
  /\ \A k \in DOMAIN stateQueue : stored <= stateQueue[k]

(***************************************************************************)
(* No silent loss: when a flush returns, everything emitted or committed   *)
(* before it began has been written, or its loss was thrown to some flush  *)
(* (flushAudit, flushState).  The one exception is an event whose line was *)
(* appended to part of a line.                                             *)
(***************************************************************************)
NoSilentLoss == \A f \in Flushes : flush[f].pc = "returned" => flush[f].missed = {}

(***************************************************************************)
(* A flush settles, whatever else is evaluated meanwhile.                  *)
(***************************************************************************)
EveryFlushSettles ==
  \A f \in Flushes :
    flush[f].pc \in {"audit", "state"} ~> flush[f].pc \in {"returned", "thrown", "crashed"}

=============================================================================
