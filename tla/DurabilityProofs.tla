-------------------------- MODULE DurabilityProofs --------------------------
(***************************************************************************)
(* Proofs about the two components whose promise is what a crash leaves on *)
(* record.                                                                 *)
(*                                                                         *)
(* Audit emission and write-behind persistence: for every number of        *)
(* evaluations, restarts and overlapping flushes, every sink and every     *)
(* checkpoint interval, the sink holds events in order and a flush that    *)
(* returns has lost nothing in silence.                                    *)
(*                                                                         *)
(* The release orchestrator: for any number of packages and dependencies,  *)
(* any selection, any number of directories and revisions, and any number  *)
(* of crashes, failed saves, late effects and outside changes.             *)
(***************************************************************************)
EXTENDS AuditTrail, Release, SequenceTheorems, TLAPS

(***************************************************************************)
(* What is queued is the end of what was emitted: the first Delivered      *)
(* events of the log have been handed to the sink.                         *)
(***************************************************************************)
Delivered == Len(head) - Len(auditQueue)

Pcs == {"idle", "audit", "sink", "state", "thrown", "returned", "crashed"}

\* missed is filled only when a flush returns: nothing was missed.
FlushRecord == [pc : Pcs, waits : Nat, upto : Nat \cup {Null}, missed : {{}}]

TypeOK ==
  /\ sink \in {"none", "InMemoryAuditSink", "FileAuditSink", "caller"} /\ store \in BOOLEAN
  /\ evaluations \in 0..MaxEvaluations /\ state \in Nat
  /\ head \in Seq(Events) /\ auditCount \in Nat /\ auditQueue \in Seq(Events)
  /\ writing \in BOOLEAN /\ broken \in BOOLEAN /\ file \in Seq(Events \cup {Torn, Garbage})
  /\ auditError \in BOOLEAN
  /\ stateQueue \in Seq(Nat) /\ tmp \in BOOLEAN /\ stored \in Nat \cup {Null}
  /\ stateError \in BOOLEAN
  /\ committed \in Nat \cup {Null}
  /\ flush \in [Flushes -> FlushRecord]

QueueInv ==
  /\ sink = "none" => auditQueue = <<>>
  /\ sink # "none" =>
       /\ Len(auditQueue) <= Len(head)
       /\ \A k \in DOMAIN auditQueue : auditQueue[k] = head[Delivered + k]
  /\ \A k \in DOMAIN auditQueue : auditQueue[k].of < evaluations
  /\ \A j, k \in DOMAIN auditQueue : j < k => Precedes(auditQueue[j], auditQueue[k])
  /\ writing => auditQueue # <<>> /\ sink = "FileAuditSink" /\ ~broken
  /\ broken => sink = "FileAuditSink"

FileInv ==
  /\ \A k \in DOMAIN file : file[k] \in Events => file[k].of < evaluations
  /\ \A k \in DOMAIN file : file[k] \in Events =>
       \A q \in DOMAIN auditQueue : Precedes(file[k], auditQueue[q])
  /\ \A j, k \in DOMAIN file :
       (j < k /\ file[j] \in Events /\ file[k] \in Events) => Precedes(file[j], file[k])

(***************************************************************************)
(* What was delivered is written, glued to part of a line, or refused; and *)
(* only a broken file may miss one.                                        *)
(***************************************************************************)
DeliveredInv ==
  sink # "none" =>
    \A k \in 1..Delivered : head[k] \in Lines \cup glued \cup refused

NoHoles ==
  sink = "FileAuditSink" =>
    /\ ~broken => \A k \in 1..Delivered : head[k] \in Lines \cup glued
    /\ \A j, k \in DOMAIN head : (j < k /\ head[k] \in Lines) => head[j] \in Lines \cup glued

StoreInv ==
  /\ ~store => stateQueue = <<>> /\ committed = Null
  /\ tmp => stateQueue # <<>>
  /\ stored <= state
  /\ \A k \in DOMAIN stateQueue : stored <= stateQueue[k] /\ stateQueue[k] <= state
  /\ \A j, k \in DOMAIN stateQueue : j < k => stateQueue[j] <= stateQueue[k]
  /\ \/ committed <= stored \/ Snapshot(committed) \in refused
     \/ stateQueue # <<>> /\ stateQueue[Len(stateQueue)] = committed

(***************************************************************************)
(* A loss that no flush has thrown yet leaves its error set.               *)
(***************************************************************************)
ErrorInv ==
  /\ ~auditError => \A e \in refused : e.type # "snapshot" => e \in reported
  /\ ~stateError => \A e \in refused : e.type = "snapshot" => e \in reported

FlushInv(f) ==
  /\ (flush[f].pc = "audit" /\ sink # "none") => flush[f].upto <= Delivered + flush[f].waits
  /\ (flush[f].pc = "sink" /\ sink # "none") => flush[f].upto <= Delivered
  /\ flush[f].pc \in {"audit", "sink"} => flush[f].upto \in Nat
  /\ flush[f].pc = "state" =>
       \/ flush[f].upto <= stored \/ Snapshot(flush[f].upto) \in refused
       \/ flush[f].waits \in DOMAIN stateQueue /\ stateQueue[flush[f].waits] = flush[f].upto

Inv ==
  /\ TypeOK /\ QueueInv /\ FileInv /\ DeliveredInv /\ NoHoles /\ StoreInv /\ ErrorInv
  /\ \A f \in Flushes : FlushInv(f)


----------------------------------------------------------------------------
(***************************************************************************)
(* The events of one evaluation.                                           *)
(***************************************************************************)
Decisions == {"invalid", "INTERNAL_ERROR", "DENY", "ALLOW"}

Ascends(types) ==
  /\ types \in Seq(Types)
  /\ \A j, k \in DOMAIN types : j < k => Rank[types[j]] < Rank[types[k]]

LEMMA RankOf ==
  /\ Rank["INTENT_RECEIVED"] = 1 /\ Rank["DENY"] = 2 /\ Rank["ALLOW"] = 2
  /\ Rank["AUTH_EMITTED"] = 3 /\ Rank["STATE_CHECKPOINT"] = 4
BY DEF Rank

LEMMA DecidedAscends ==
  ASSUME NEW decision \in Decisions
  PROVE  Ascends(Decided(decision)) /\ \A k \in DOMAIN Decided(decision) : Rank[Decided(decision)[k]] < 4
<1>1. CASE decision = "invalid"
  <2>1. Decided(decision) = <<>>
    BY <1>1 DEF Decided
  <2> QED BY <2>1 DEF Ascends
<1>2. CASE decision = "INTERNAL_ERROR"
  <2>1. Decided(decision) = <<"INTENT_RECEIVED">>
    BY <1>2 DEF Decided
  <2> QED BY <2>1, RankOf DEF Ascends, Types
<1>3. CASE decision = "DENY"
  <2>1. Decided(decision) = <<"INTENT_RECEIVED", "DENY">>
    BY <1>3 DEF Decided
  <2> QED BY <2>1, RankOf DEF Ascends, Types
<1>4. CASE decision = "ALLOW"
  <2>1. Decided(decision) = <<"INTENT_RECEIVED", "ALLOW", "AUTH_EMITTED">>
    BY <1>4 DEF Decided
  <2> QED BY <2>1, RankOf DEF Ascends, Types
<1> QED BY <1>1, <1>2, <1>3, <1>4 DEF Decisions

LEMMA CheckpointAscends ==
  ASSUME NEW types, Ascends(types), \A k \in DOMAIN types : Rank[types[k]] < 4, NEW count
  PROVE  Ascends(types \o Checkpoint(count))
<1>1. types \in Seq(Types)
  BY DEF Ascends
<1>2. CASE Checkpoint(count) = <<>>
  BY <1>1, <1>2, ConcatEmptySeq
<1>3. CASE Checkpoint(count) = <<"STATE_CHECKPOINT">>
  <2>1. types \o Checkpoint(count) = Append(types, "STATE_CHECKPOINT")
    BY <1>1, <1>3
  <2>2. "STATE_CHECKPOINT" \in Types
    BY DEF Types
  <2> QED BY <1>1, <2>1, <2>2, RankOf DEF Ascends
<1> QED BY <1>2, <1>3 DEF Checkpoint

LEMMA EventsOfOneEvaluation ==
  ASSUME TypeOK, evaluations < MaxEvaluations, NEW decision \in Decisions, NEW next \in Nat
  PROVE  /\ EventsOf(decision, next) \in Seq(Events)
         /\ \A k \in DOMAIN EventsOf(decision, next) : EventsOf(decision, next)[k].of = evaluations
         /\ \A j, k \in DOMAIN EventsOf(decision, next) :
              j < k => Precedes(EventsOf(decision, next)[j], EventsOf(decision, next)[k])
<1> DEFINE types == Decided(decision)
           all == IF decision \notin {"ALLOW", "DENY"} THEN types ELSE types \o Checkpoint(auditCount + Len(types))
<1>1. Ascends(types) /\ Ascends(types \o Checkpoint(auditCount + Len(types)))
  BY DecidedAscends, CheckpointAscends
<1>2. Ascends(all)
  BY <1>1
<1>3. PICK a : a = all /\ Ascends(a)
  BY <1>2
<1>4. EventsOf(decision, next) = [k \in DOMAIN a |-> Event(a[k], IF a[k] = "STATE_CHECKPOINT" THEN next ELSE Null)]
  BY <1>3 DEF EventsOf
<1>5. \A k \in DOMAIN a : Event(a[k], IF a[k] = "STATE_CHECKPOINT" THEN next ELSE Null) \in Events
  BY <1>3, AuditConfig, SMTT(60) DEF Event, Events, Ascends, TypeOK
<1>6. EventsOf(decision, next) \in Seq(Events)
  <2> DEFINE e(k) == Event(a[k], IF a[k] = "STATE_CHECKPOINT" THEN next ELSE Null)
  <2> HIDE DEF e
  <2>1. Len(a) \in Nat /\ DOMAIN a = 1..Len(a)
    BY <1>3 DEF Ascends
  <2>2. EventsOf(decision, next) = [k \in 1..Len(a) |-> e(k)]
    BY <1>4, <2>1 DEF e
  <2>3. \A k \in 1..Len(a) : e(k) \in Events
    BY <1>5, <2>1 DEF e
  <2> QED BY <2>1, <2>2, <2>3
<1>7. \A k \in DOMAIN a : EventsOf(decision, next)[k].of = evaluations /\ EventsOf(decision, next)[k].type = a[k]
  BY <1>4 DEF Event
<1>8. DOMAIN EventsOf(decision, next) = DOMAIN a
  BY <1>4
<1>9. \A j, k \in DOMAIN a : j < k => Precedes(EventsOf(decision, next)[j], EventsOf(decision, next)[k])
  <2> SUFFICES ASSUME NEW j \in DOMAIN a, NEW k \in DOMAIN a, j < k
               PROVE  Precedes(EventsOf(decision, next)[j], EventsOf(decision, next)[k])
    OBVIOUS
  <2>1. Rank[a[j]] < Rank[a[k]]
    BY <1>3 DEF Ascends
  <2> QED BY <1>7, <2>1 DEF Precedes
<1> QED BY <1>6, <1>7, <1>8, <1>9

\* No event is emitted before itself.
LEMMA PrecedesIrreflexive == \A e \in Events : ~Precedes(e, e)
BY DEF Precedes, Events, Types, Rank

----------------------------------------------------------------------------
LEMMA InitInv == Init => Inv
<1> SUFFICES ASSUME Init PROVE Inv
  OBVIOUS
<1>1. TypeOK
  <2>1. sink \in {"none", "InMemoryAuditSink", "FileAuditSink", "caller"} /\ store \in BOOLEAN
    BY AuditConfig DEF Init
  <2>2. NotFlushing \in FlushRecord
    BY DEF NotFlushing, FlushRecord, Pcs
  <2>3. MaxEvaluations \in Nat
    BY AuditConfig
  <2>4. flush \in [Flushes -> FlushRecord]
    BY <2>2 DEF Init
  <2>5. evaluations \in 0..MaxEvaluations /\ state \in Nat /\ auditCount \in Nat
    BY <2>3 DEF Init
  <2>6. stored \in Nat \cup {Null} /\ committed \in Nat \cup {Null}
    BY DEF Init
  <2>7. head \in Seq(Events) /\ auditQueue \in Seq(Events) /\ stateQueue \in Seq(Nat)
        /\ file \in Seq(Events \cup {Torn, Garbage})
    BY DEF Init
  <2> QED BY <2>1, <2>4, <2>5, <2>6, <2>7 DEF Init, TypeOK
<1>2. QueueInv /\ FileInv /\ DeliveredInv /\ NoHoles /\ ErrorInv
  BY DEF Init, QueueInv, FileInv, DeliveredInv, NoHoles, ErrorInv, Delivered
<1>3. StoreInv
  BY DEF Init, StoreInv, Null
<1>4. \A f \in Flushes : FlushInv(f)
  BY DEF Init, FlushInv, NotFlushing
<1> QED BY <1>1, <1>2, <1>3, <1>4 DEF Inv

----------------------------------------------------------------------------
(***************************************************************************)
(* Evaluations: the log and what is queued grow by the same events.        *)
(***************************************************************************)
LEMMA Grows ==
  ASSUME NEW S, NEW s \in Seq(S), NEW t \in Seq(S)
  PROVE  /\ s \o t \in Seq(S) /\ Len(s \o t) = Len(s) + Len(t)
         /\ \A k \in 1..Len(s) : (s \o t)[k] = s[k]
         /\ \A k \in 1..Len(s) + Len(t) :
              Len(s) < k => k - Len(s) \in 1..Len(t) /\ (s \o t)[k] = t[k - Len(s)]
<1>1. Len(s) \in Nat /\ Len(t) \in Nat
  BY LenProperties
<1> QED BY <1>1, ConcatProperties

LEMMA EvaluateStep ==
  ASSUME Inv, NEW decision \in Decisions, Evaluate(decision)
  PROVE  Inv'
<1> USE DEF Inv
<1>1. state' \in Nat /\ state <= state'
  BY DEF Evaluate, TypeOK
<1>2. PICK es \in Seq(Events) :
        /\ es = EventsOf(decision, state')
        /\ \A k \in DOMAIN es : es[k].of = evaluations
        /\ \A j, k \in DOMAIN es : j < k => Precedes(es[j], es[k])
  BY <1>1, EventsOfOneEvaluation DEF Evaluate
<1>3. /\ head' = head \o es /\ auditCount' = auditCount + Len(es)
      /\ auditQueue' = IF sink = "none" THEN <<>> ELSE auditQueue \o es
  BY <1>2 DEF Evaluate, emitAudit
<1>4. PICK h, q, n : h = Len(head) /\ q = Len(auditQueue) /\ n = Len(es)
  OBVIOUS
<1>5. h \in Nat /\ q \in Nat /\ n \in Nat /\ DOMAIN head = 1..h /\ DOMAIN auditQueue = 1..q /\ DOMAIN es = 1..n
  BY <1>2, <1>4 DEF TypeOK
<1>6. /\ head' \in Seq(Events) /\ Len(head') = h + n /\ DOMAIN head' = 1..h + n
      /\ \A k \in 1..h : head'[k] = head[k]
      /\ \A k \in 1..h + n : h < k => k - h \in 1..n /\ head'[k] = es[k - h]
  BY <1>2, <1>3, <1>4, <1>5, Grows DEF TypeOK
<1>7. sink # "none" =>
      /\ auditQueue' \in Seq(Events) /\ Len(auditQueue') = q + n /\ DOMAIN auditQueue' = 1..q + n
      /\ \A k \in 1..q : auditQueue'[k] = auditQueue[k]
      /\ \A k \in 1..q + n : q < k => k - q \in 1..n /\ auditQueue'[k] = es[k - q]
  BY <1>2, <1>3, <1>4, <1>5, Grows DEF TypeOK
<1>8. sink = "none" => auditQueue' = <<>> /\ DOMAIN auditQueue' = {}
  BY <1>3
<1>9. /\ UNCHANGED <<env, writing, broken, file, auditError, glued, tmp, stored, stateError, flush,
                     refused, reported>>
      /\ evaluations' = evaluations + 1 /\ evaluations < MaxEvaluations
      /\ stateQueue' = IF store THEN Append(stateQueue, state') ELSE <<>>
      /\ committed' = IF store THEN state' ELSE Null
  BY DEF Evaluate, commitState
<1>10. evaluations \in Nat
  BY AuditConfig DEF TypeOK
<1>17. Delivered = h - q /\ (sink # "none" => Delivered' = h - q)
  <2>1. Len(head') = h + n /\ (sink # "none" => Len(auditQueue') = q + n)
    BY <1>6, <1>7
  <2> QED BY <2>1, <1>4, <1>5 DEF Delivered
<1>11. TypeOK'
  <2>1. auditQueue' \in Seq(Events)
    <3>1. <<>> \in Seq(Events)
      BY EmptySeq
    <3> QED BY <3>1, <1>7, <1>8
  <2>2. auditCount' \in Nat
    BY <1>3, <1>4, <1>5 DEF TypeOK
  <2>3. stateQueue' \in Seq(Nat) /\ committed' \in Nat \cup {Null}
    BY <1>1, <1>9 DEF TypeOK
  <2>4. evaluations' \in 0..MaxEvaluations
    BY <1>9, <1>10, AuditConfig
  <2> QED BY <1>1, <1>6, <1>9, <2>1, <2>2, <2>3, <2>4 DEF TypeOK, env
<1>12. QueueInv'
  <2>1. Delivered' = Delivered \/ sink = "none"
    BY <1>17
  <2>2. Delivered = h - q
    BY <1>17
  <2>3. sink # "none" =>
        /\ Len(auditQueue') <= Len(head')
        /\ \A k \in DOMAIN auditQueue' : auditQueue'[k] = head'[Delivered' + k]
    <3> SUFFICES ASSUME sink # "none"
                 PROVE  /\ Len(auditQueue') <= Len(head')
                        /\ \A k \in DOMAIN auditQueue' : auditQueue'[k] = head'[Delivered' + k]
      OBVIOUS
    <3>1. q <= h /\ \A k \in 1..q : auditQueue[k] = head[h - q + k]
      BY <1>4, <1>5, <2>2 DEF QueueInv
    <3>2. \A k \in 1..q : auditQueue'[k] = head'[h - q + k]
      BY <3>1, <1>5, <1>6, <1>7
    <3>3. \A k \in 1..q + n : q < k => auditQueue'[k] = head'[h - q + k]
      <4> SUFFICES ASSUME NEW k \in 1..q + n, q < k PROVE auditQueue'[k] = head'[h - q + k]
        OBVIOUS
      <4>1. h - q + k \in 1..h + n /\ h < h - q + k /\ h - q + k - h = k - q
        BY <1>5, <3>1
      <4>2. PICK i \in Int : i = h - q + k
        BY <4>1
      <4>3. head'[i] = es[i - h]
        BY <4>1, <4>2, <1>6
      <4>4. auditQueue'[k] = es[k - q]
        BY <1>7
      <4>5. auditQueue'[k] = head'[i]
        BY <1>5, <4>2, <4>1, <4>3, <4>4
      <4> QED BY <4>2, <4>5
    <3>4. /\ Delivered' = h - q /\ Len(auditQueue') = q + n /\ Len(head') = h + n
          /\ DOMAIN auditQueue' = 1..q + n /\ q + n <= h + n
      BY <3>1, <2>1, <2>2, <1>5, <1>6, <1>7
    <3>5. \A k \in 1..q + n : auditQueue'[k] = head'[h - q + k]
      <4> SUFFICES ASSUME NEW k \in 1..q + n PROVE auditQueue'[k] = head'[h - q + k]
        OBVIOUS
      <4>1. k \in 1..q \/ q < k
        BY <1>5
      <4> QED BY <4>1, <3>2, <3>3
    <3>6. \A k \in DOMAIN auditQueue' : auditQueue'[k] = head'[Delivered' + k]
      BY <3>4, <3>5
    <3> QED BY <3>4, <3>6
  <2>4. \A k \in DOMAIN auditQueue' : auditQueue'[k].of < evaluations'
    <3> SUFFICES ASSUME NEW k \in DOMAIN auditQueue' PROVE auditQueue'[k].of < evaluations'
      OBVIOUS
    <3>1. sink # "none" /\ k \in 1..q + n
      BY <1>7, <1>8
    <3>2. CASE k <= q
      <4>1. k \in DOMAIN auditQueue /\ auditQueue'[k] = auditQueue[k] /\ auditQueue[k].of < evaluations
        BY <3>1, <3>2, <1>5, <1>7 DEF QueueInv
      <4>2. auditQueue[k].of \in Nat
        <5>1. auditQueue[k] \in Events
          BY <4>1 DEF TypeOK
        <5> QED BY <5>1, AuditConfig DEF Events
      <4> QED BY <4>1, <4>2, <1>9, <1>10
    <3>3. CASE q < k
      <4>1. auditQueue'[k].of = evaluations
        BY <3>1, <3>3, <1>2, <1>5, <1>7
      <4> QED BY <4>1, <1>9, <1>10
    <3> QED BY <3>1, <3>2, <3>3, <1>5
  <2>5. \A j, k \in DOMAIN auditQueue' : j < k => Precedes(auditQueue'[j], auditQueue'[k])
    <3> SUFFICES ASSUME NEW j \in DOMAIN auditQueue', NEW k \in DOMAIN auditQueue', j < k
                 PROVE  Precedes(auditQueue'[j], auditQueue'[k])
      OBVIOUS
    <3>1. sink # "none" /\ j \in 1..q + n /\ k \in 1..q + n
      BY <1>7, <1>8
    <3>2. CASE k <= q
      BY <3>1, <3>2, <1>5, <1>7 DEF QueueInv
    <3>3. CASE j <= q /\ q < k
      <4>1. auditQueue'[j].of < evaluations
        BY <3>1, <3>3, <1>5, <1>7 DEF QueueInv
      <4>2. auditQueue'[k].of = evaluations
        BY <3>1, <3>3, <1>2, <1>5, <1>7
      <4> QED BY <4>1, <4>2 DEF Precedes
    <3>4. CASE q < j
      <4>1. /\ j - q \in 1..n /\ auditQueue'[j] = es[j - q]
            /\ k - q \in 1..n /\ auditQueue'[k] = es[k - q] /\ j - q < k - q
        BY <3>1, <3>4, <1>5, <1>7
      <4> QED BY <4>1, <1>2, <1>5
    <3> QED BY <3>1, <3>2, <3>3, <3>4, <1>5
  <2>6. writing' => auditQueue' # <<>> /\ sink' = "FileAuditSink" /\ ~broken'
    <3> SUFFICES ASSUME writing PROVE auditQueue' # <<>> /\ sink = "FileAuditSink" /\ ~broken
      BY <1>9 DEF env
    <3>1. auditQueue # <<>> /\ sink = "FileAuditSink" /\ ~broken
      BY DEF QueueInv
    <3>2. q > 0
      BY <3>1, <1>4 DEF TypeOK
    <3> QED BY <3>1, <3>2, <1>5, <1>7
  <2> QED BY <1>8, <1>9, <2>3, <2>4, <2>5, <2>6 DEF QueueInv, env
<1>13. FileInv'
  <2>1. \A k \in DOMAIN file : file[k] \in Events => file[k].of < evaluations'
    <3> SUFFICES ASSUME NEW k \in DOMAIN file, file[k] \in Events PROVE file[k].of < evaluations'
      OBVIOUS
    <3>1. file[k].of < evaluations /\ file[k].of \in Nat
      BY AuditConfig DEF FileInv, Events
    <3> QED BY <3>1, <1>9, <1>10
  <2>2. \A k \in DOMAIN file : file[k] \in Events =>
          \A i \in DOMAIN auditQueue' : Precedes(file[k], auditQueue'[i])
    <3> SUFFICES ASSUME NEW k \in DOMAIN file, file[k] \in Events, NEW i \in DOMAIN auditQueue'
                 PROVE  Precedes(file[k], auditQueue'[i])
      OBVIOUS
    <3>1. sink # "none" /\ i \in 1..q + n
      BY <1>7, <1>8
    <3>2. CASE i <= q
      BY <3>1, <3>2, <1>5, <1>7 DEF FileInv
    <3>3. CASE q < i
      <4>1. auditQueue'[i].of = evaluations
        BY <3>1, <3>3, <1>2, <1>5, <1>7
      <4>2. file[k].of < evaluations
        BY DEF FileInv
      <4> QED BY <4>1, <4>2 DEF Precedes
    <3> QED BY <3>1, <3>2, <3>3, <1>5
  <2> QED BY <1>9, <2>1, <2>2 DEF FileInv
<1>14. DeliveredInv' /\ NoHoles'
  <2> SUFFICES ASSUME sink # "none" PROVE DeliveredInv' /\ NoHoles'
    BY <1>9 DEF DeliveredInv, NoHoles, env
  <2>1. Delivered' = Delivered /\ Delivered \in 0..h
    <3>1. q <= h
      BY <1>4 DEF QueueInv
    <3> QED BY <3>1, <1>5, <1>17
  <2>2. Lines' = Lines
    BY <1>9 DEF Lines
  <2>3. \A k \in 1..Delivered : head'[k] = head[k]
    <3>1. 1..Delivered \subseteq 1..h
      BY <2>1, <1>5
    <3> QED BY <3>1, <1>6
  <2>4. \A k \in DOMAIN head' : head'[k] \in Lines => k \in DOMAIN head
    <3> SUFFICES ASSUME NEW k \in DOMAIN head', head'[k] \in Lines, h < k PROVE FALSE
      BY <1>5, <1>6
    <3>1. head'[k].of = evaluations
      BY <1>2, <1>5, <1>6
    <3>2. PICK i \in DOMAIN file : file[i] = head'[k]
      BY DEF Lines
    <3>3. file[i] \in Events
      BY <3>2, <1>6
    <3>4. file[i].of < evaluations
      BY <3>3 DEF FileInv
    <3> QED BY <3>1, <3>2, <3>4, <1>10
  <2>5. DeliveredInv'
    BY <1>9, <2>1, <2>2, <2>3 DEF DeliveredInv
  <2>6. NoHoles'
    <3> SUFFICES ASSUME sink = "FileAuditSink" PROVE NoHoles'
      BY <1>9 DEF NoHoles, env
    <3>1. ~broken' => \A k \in 1..Delivered' : head'[k] \in Lines' \cup glued'
      BY <1>9, <2>1, <2>2, <2>3 DEF NoHoles
    <3>2. \A j, k \in DOMAIN head' : (j < k /\ head'[k] \in Lines') => head'[j] \in Lines' \cup glued'
      <4> SUFFICES ASSUME NEW j \in DOMAIN head', NEW k \in DOMAIN head', j < k, head'[k] \in Lines
                   PROVE  head'[j] \in Lines \cup glued
        BY <1>9, <2>2
      <4>1. k \in 1..h /\ j \in 1..h
        BY <2>4, <1>5, <1>6
      <4>2. head'[k] = head[k] /\ head'[j] = head[j]
        BY <4>1, <1>6
      <4> QED BY <4>1, <4>2, <1>5 DEF NoHoles
    <3> QED BY <3>1, <3>2 DEF NoHoles
  <2> QED BY <2>5, <2>6
<1>15. StoreInv' /\ ErrorInv'
  <2>1. ErrorInv'
    BY <1>9 DEF ErrorInv
  <2>2. CASE ~store
    <3>1. stateQueue' = <<>> /\ committed' = Null /\ store' = store /\ ~tmp' /\ stored' = stored
      BY <1>9, <2>2 DEF StoreInv, env
    <3>2. stored <= state' /\ Null <= stored
      BY <1>1 DEF StoreInv, TypeOK, Null
    <3>3. DOMAIN stateQueue' = {}
      BY <3>1
    <3>4. StoreInv'
      BY <2>2, <3>1, <3>2, <3>3 DEF StoreInv
    <3> QED BY <2>1, <3>4
  <2>3. CASE store
    <3>1. PICK m \in Nat : m = Len(stateQueue) /\ DOMAIN stateQueue = 1..m
      BY DEF TypeOK
    <3>2. /\ stateQueue' = Append(stateQueue, state') /\ DOMAIN stateQueue' = 1..m + 1 /\ Len(stateQueue') = m + 1
          /\ stateQueue'[m + 1] = state' /\ \A k \in 1..m : stateQueue'[k] = stateQueue[k]
      BY <1>1, <1>9, <2>3, <3>1 DEF TypeOK
    <3>3. stored <= state'
      BY <1>1, AuditConfig DEF StoreInv, TypeOK, Null
    <3>4. \A k \in DOMAIN stateQueue' : stored <= stateQueue'[k] /\ stateQueue'[k] <= state'
      <4> SUFFICES ASSUME NEW k \in 1..m + 1 PROVE stored <= stateQueue'[k] /\ stateQueue'[k] <= state'
        BY <3>2
      <4>1. CASE k = m + 1
        BY <4>1, <1>1, <3>2, <3>3
      <4>2. CASE k \in 1..m
        <5>1. stored <= stateQueue[k] /\ stateQueue[k] <= state
          BY <4>2, <3>1 DEF StoreInv
        <5>2. stateQueue[k] \in Nat
          BY <4>2, <3>1 DEF TypeOK
        <5>3. stateQueue'[k] = stateQueue[k]
          BY <4>2, <3>2
        <5> QED BY <5>1, <5>2, <5>3, <1>1 DEF TypeOK
      <4> QED BY <4>1, <4>2, <3>1
    <3>5. \A j, k \in DOMAIN stateQueue' : j < k => stateQueue'[j] <= stateQueue'[k]
      <4> SUFFICES ASSUME NEW j \in 1..m + 1, NEW k \in 1..m + 1, j < k PROVE stateQueue'[j] <= stateQueue'[k]
        BY <3>2
      <4>1. CASE k = m + 1
        BY <4>1, <3>2, <3>4
      <4>2. CASE k # m + 1
        <5>1. j \in 1..m /\ k \in 1..m
          BY <4>2, <3>1
        <5> QED BY <5>1, <3>1, <3>2 DEF StoreInv
      <4> QED BY <4>1, <4>2
    <3>6. stateQueue' # <<>>
      BY <3>1, <3>2
    <3>7. stateQueue'[Len(stateQueue')] = committed'
      BY <1>9, <2>3, <3>2
    <3>8. store' /\ stored' = stored
      BY <1>9, <2>3 DEF env
    <3>9. StoreInv'
      BY <3>3, <3>4, <3>5, <3>6, <3>7, <3>8 DEF StoreInv
    <3> QED BY <2>1, <3>9
  <2> QED BY <2>1, <2>2, <2>3
<1>16. \A f \in Flushes : FlushInv(f)'
  <2> SUFFICES ASSUME NEW f \in Flushes PROVE FlushInv(f)'
    OBVIOUS
  <2>1. sink # "none" => Delivered' = Delivered
    BY <1>17
  <2>2. flush[f].pc = "state" =>
         \/ flush[f].upto <= stored \/ Snapshot(flush[f].upto) \in refused
         \/ flush[f].waits \in DOMAIN stateQueue' /\ stateQueue'[flush[f].waits] = flush[f].upto
    <3>1. CASE flush[f].waits \in DOMAIN stateQueue
      <4>1. store
        BY <3>1 DEF StoreInv
      <4>2. flush[f].waits \in DOMAIN stateQueue' /\ stateQueue'[flush[f].waits] = stateQueue[flush[f].waits]
        BY <3>1, <4>1, <1>1, <1>9 DEF TypeOK
      <4> QED BY <4>2 DEF FlushInv
    <3>2. CASE flush[f].waits \notin DOMAIN stateQueue
      BY <3>2 DEF FlushInv
    <3> QED BY <3>1, <3>2
  <2> QED BY <1>9, <2>1, <2>2 DEF FlushInv, env
<1> QED BY <1>11, <1>12, <1>13, <1>14, <1>15, <1>16

----------------------------------------------------------------------------
(***************************************************************************)
(* Delivery.  Whatever becomes of the first queued event, it leaves the    *)
(* queue and the flushes that waited for it wait for one less.             *)
(***************************************************************************)
LEMMA AwaitedType ==
  ASSUME flush \in [Flushes -> FlushRecord], NEW labels
  PROVE  /\ Awaited(labels) \in [Flushes -> FlushRecord]
         /\ \A f \in Flushes : /\ Awaited(labels)[f].pc = flush[f].pc
                               /\ Awaited(labels)[f].upto = flush[f].upto
                               /\ Awaited(labels)[f].waits =
                                    IF flush[f].pc \in labels /\ flush[f].waits > 0
                                    THEN flush[f].waits - 1 ELSE flush[f].waits
<1>1. \A f \in Flushes : flush[f] \in FlushRecord
  OBVIOUS
<1>2. \A r \in FlushRecord : r.waits > 0 =>
        /\ [r EXCEPT !.waits = @ - 1] \in FlushRecord
        /\ [r EXCEPT !.waits = @ - 1].pc = r.pc /\ [r EXCEPT !.waits = @ - 1].upto = r.upto
        /\ [r EXCEPT !.waits = @ - 1].waits = r.waits - 1
  BY DEF FlushRecord
<1> QED BY <1>1, <1>2 DEF Awaited

LEMMA HandedOver ==
  ASSUME Inv, auditQueue # <<>>, NEW ok \in BOOLEAN, Settle(ok)
  PROVE  /\ sink # "none" /\ Head(auditQueue) \in Events /\ Head(auditQueue).of < evaluations
         /\ Delivered \in Nat /\ Delivered' = Delivered + 1
         /\ Delivered + 1 \in DOMAIN head /\ head[Delivered + 1] = Head(auditQueue)
         /\ auditQueue' \in Seq(Events) /\ Len(auditQueue') + 1 = Len(auditQueue)
         /\ \A k \in DOMAIN auditQueue' : /\ k + 1 \in DOMAIN auditQueue
                                          /\ auditQueue'[k] = auditQueue[k + 1]
                                          /\ Precedes(Head(auditQueue), auditQueue'[k])
         /\ 1 \in DOMAIN auditQueue /\ auditQueue[1] = Head(auditQueue)
<1> USE DEF Inv
<1>1. sink # "none"
  BY DEF QueueInv
<1>2. PICK h \in Nat, q \in Nat : /\ h = Len(head) /\ q = Len(auditQueue) /\ DOMAIN head = 1..h
                                  /\ DOMAIN auditQueue = 1..q /\ q > 0
  BY DEF TypeOK
<1>3. q <= h /\ \A k \in 1..q : auditQueue[k] = head[h - q + k]
  BY <1>1, <1>2 DEF QueueInv, Delivered
<1>4. /\ auditQueue' \in Seq(Events) /\ Len(auditQueue') = q - 1 /\ DOMAIN auditQueue' = 1..q - 1
      /\ \A k \in 1..q - 1 : auditQueue'[k] = auditQueue[k + 1]
  BY <1>2, HeadTailProperties, LenProperties DEF Settle, TypeOK
<1>5. Head(auditQueue) = auditQueue[1] /\ 1 \in 1..q /\ Head(auditQueue) \in Events
  BY <1>2 DEF TypeOK
<1>6. Head(auditQueue).of < evaluations
  BY <1>2, <1>5 DEF QueueInv
<1>7. head' = head
  BY DEF Settle, logVars
<1>8. Delivered = h - q /\ Delivered' = h - (q - 1)
  BY <1>2, <1>4, <1>7 DEF Delivered
<1>9. head[h - q + 1] = Head(auditQueue)
  BY <1>3, <1>5
<1>10. \A k \in 1..q - 1 : Precedes(Head(auditQueue), auditQueue'[k])
  <2> SUFFICES ASSUME NEW k \in 1..q - 1 PROVE Precedes(Head(auditQueue), auditQueue'[k])
    OBVIOUS
  <2>1. k + 1 \in DOMAIN auditQueue /\ 1 \in DOMAIN auditQueue /\ 1 < k + 1
    BY <1>2
  <2>2. Precedes(auditQueue[1], auditQueue[k + 1])
    BY <2>1 DEF QueueInv
  <2> QED BY <2>2, <1>4, <1>5
<1>11. \A k \in DOMAIN auditQueue' : k + 1 \in DOMAIN auditQueue /\ auditQueue'[k] = auditQueue[k + 1]
                                     /\ Precedes(Head(auditQueue), auditQueue'[k])
  BY <1>2, <1>4, <1>10
<1>12. Delivered \in Nat /\ Delivered' = Delivered + 1 /\ Delivered + 1 \in DOMAIN head /\ Delivered + 1 = h - q + 1
  BY <1>2, <1>3, <1>8
<1>13. head[Delivered + 1] = Head(auditQueue)
  BY <1>9, <1>12
<1>14. Len(auditQueue') + 1 = Len(auditQueue)
  BY <1>2, <1>4
<1> QED BY <1>1, <1>2, <1>4, <1>5, <1>6, <1>11, <1>12, <1>13, <1>14

(***************************************************************************)
(* One step of the chain: the event is in the file, glued or refused, and  *)
(* a file that is broken already takes nothing.                            *)
(***************************************************************************)
LEMMA SettledStep ==
  ASSUME Inv, auditQueue # <<>>, NEW ok \in BOOLEAN, Settle(ok),
         writing' = FALSE, broken' \in BOOLEAN, file' \in Seq(Events \cup {Torn, Garbage}),
         \A k \in DOMAIN file' : file'[k] \in Events =>
           \/ k \in DOMAIN file /\ file'[k] = file[k]
           \/ k = Len(file) + 1 /\ file'[k] = Head(auditQueue),
         \A e \in Events : e \in Lines => e \in Lines',
         glued \subseteq glued',
         Head(auditQueue) \in Lines' \cup glued' \cup refused',
         (sink = "FileAuditSink" /\ ~broken') => ~broken /\ Head(auditQueue) \in Lines' \cup glued',
         broken => broken' /\ file' = file,
         broken' => sink = "FileAuditSink"
  PROVE  Inv'
<1> USE DEF Inv
<1> DEFINE e0 == Head(auditQueue)
<1>1. /\ sink # "none" /\ e0 \in Events /\ e0.of < evaluations
      /\ Delivered \in Nat /\ Delivered' = Delivered + 1
      /\ Delivered + 1 \in DOMAIN head /\ head[Delivered + 1] = e0
      /\ auditQueue' \in Seq(Events) /\ Len(auditQueue') + 1 = Len(auditQueue)
      /\ \A k \in DOMAIN auditQueue' : /\ k + 1 \in DOMAIN auditQueue
                                       /\ auditQueue'[k] = auditQueue[k + 1]
                                       /\ Precedes(e0, auditQueue'[k])
      /\ 1 \in DOMAIN auditQueue /\ auditQueue[1] = e0
  BY HandedOver
<1>2. /\ UNCHANGED <<env, evaluations, state, logVars, storeVars, committed, reported>>
      /\ flush' = Awaited({"audit", "sink"}) /\ auditError' = (auditError \/ ~ok)
      /\ refused' = IF ok THEN refused ELSE refused \cup {e0}
  BY DEF Settle
<1>3. /\ sink' = sink /\ store' = store /\ head' = head /\ evaluations' = evaluations
      /\ stateQueue' = stateQueue /\ tmp' = tmp /\ stored' = stored /\ stateError' = stateError
      /\ state' = state /\ auditCount' = auditCount /\ committed' = committed /\ reported' = reported
  BY <1>2 DEF env, logVars, storeVars
<1>4. TypeOK'
  BY <1>1, <1>2, <1>3, AwaitedType DEF TypeOK
<1>5. Len(auditQueue) \in Nat /\ Len(head) \in Nat /\ DOMAIN head = 1..Len(head) /\ Len(file) \in Nat
      /\ DOMAIN file = 1..Len(file)
  BY DEF TypeOK
<1>6. QueueInv'
  <2>1. Len(auditQueue') <= Len(head')
    BY <1>1, <1>3, <1>5 DEF QueueInv, TypeOK
  <2>2. \A k \in DOMAIN auditQueue' : auditQueue'[k] = head'[Delivered' + k]
    <3> SUFFICES ASSUME NEW k \in DOMAIN auditQueue' PROVE auditQueue'[k] = head[Delivered + 1 + k]
      BY <1>1, <1>3
    <3>1. k \in Nat
      BY <1>1
    <3>2. auditQueue[k + 1] = head[Delivered + (k + 1)]
      BY <1>1 DEF QueueInv
    <3>3. Delivered + (k + 1) = Delivered + 1 + k
      BY <3>1, <1>1
    <3> QED BY <3>2, <3>3, <1>1
  <2>3. \A k \in DOMAIN auditQueue' : auditQueue'[k].of < evaluations'
    BY <1>1, <1>3 DEF QueueInv
  <2>4. \A j, k \in DOMAIN auditQueue' : j < k => Precedes(auditQueue'[j], auditQueue'[k])
    <3> SUFFICES ASSUME NEW j \in DOMAIN auditQueue', NEW k \in DOMAIN auditQueue', j < k
                 PROVE  Precedes(auditQueue'[j], auditQueue'[k])
      OBVIOUS
    <3>1. j \in Nat /\ k \in Nat
      BY <1>1
    <3>2. j + 1 \in DOMAIN auditQueue /\ k + 1 \in DOMAIN auditQueue /\ j + 1 < k + 1
      BY <3>1, <1>1
    <3>3. Precedes(auditQueue[j + 1], auditQueue[k + 1])
      BY <3>2 DEF QueueInv
    <3> QED BY <3>3, <1>1
  <2> QED BY <1>1, <1>3, <2>1, <2>2, <2>3, <2>4 DEF QueueInv
<1>7. \A k \in DOMAIN file' : file'[k] \in Events =>
        \/ k \in DOMAIN file /\ file'[k] = file[k] /\ file[k] \in Events
        \/ k = Len(file) + 1 /\ file'[k] = e0
  OBVIOUS
<1>8. FileInv'
  <2>1. \A k \in DOMAIN file' : file'[k] \in Events => file'[k].of < evaluations'
    BY <1>1, <1>3, <1>7 DEF FileInv
  <2>2. \A k \in DOMAIN file' : file'[k] \in Events =>
          \A i \in DOMAIN auditQueue' : Precedes(file'[k], auditQueue'[i])
    BY <1>1, <1>7 DEF FileInv
  <2>3. \A j, k \in DOMAIN file' :
          (j < k /\ file'[j] \in Events /\ file'[k] \in Events) => Precedes(file'[j], file'[k])
    <3> SUFFICES ASSUME NEW j \in DOMAIN file', NEW k \in DOMAIN file', j < k,
                        file'[j] \in Events, file'[k] \in Events
                 PROVE  Precedes(file'[j], file'[k])
      OBVIOUS
    <3>1. DOMAIN file' \subseteq Nat
      OBVIOUS
    <3>2. j \in DOMAIN file /\ file'[j] = file[j] /\ file[j] \in Events
      <4>1. CASE j = Len(file) + 1
        <5>1. k \notin DOMAIN file /\ k # Len(file) + 1
          BY <4>1, <3>1, <1>5
        <5> QED BY <5>1, <1>7
      <4> QED BY <4>1, <1>7
    <3>3. CASE k \in DOMAIN file /\ file'[k] = file[k] /\ file[k] \in Events
      BY <3>2, <3>3 DEF FileInv
    <3>4. CASE file'[k] = e0
      BY <3>2, <3>4, <1>1 DEF FileInv
    <3> QED BY <3>3, <3>4, <1>7
  <2> QED BY <2>1, <2>2, <2>3 DEF FileInv
<1>9. \A k \in DOMAIN head : head[k] \in Events
  BY DEF TypeOK
<1>10. refused \subseteq refused'
  BY <1>2
<1>11. DeliveredInv'
  <2> SUFFICES ASSUME NEW k \in 1..Delivered' PROVE head[k] \in Lines' \cup glued' \cup refused'
    BY <1>3 DEF DeliveredInv
  <2>1. CASE k = Delivered + 1
    BY <2>1, <1>1
  <2>2. CASE k # Delivered + 1
    <3>1. k \in 1..Delivered /\ k \in DOMAIN head
      BY <2>2, <1>1, <1>5
    <3>2. head[k] \in Lines \cup glued \cup refused
      BY <3>1, <1>1 DEF DeliveredInv
    <3> QED BY <3>1, <3>2, <1>9, <1>10
  <2> QED BY <2>1, <2>2
<1>12. NoHoles'
  <2> SUFFICES ASSUME sink = "FileAuditSink" PROVE NoHoles'
    BY <1>3 DEF NoHoles
  <2>1. \A k \in DOMAIN head : head[k] \in Lines \cup glued => head[k] \in Lines' \cup glued'
    BY <1>9
  <2>2. ~broken' => \A k \in 1..Delivered' : head'[k] \in Lines' \cup glued'
    <3> SUFFICES ASSUME ~broken', NEW k \in 1..Delivered' PROVE head[k] \in Lines' \cup glued'
      BY <1>3
    <3>1. CASE k = Delivered + 1
      BY <3>1, <1>1
    <3>2. CASE k # Delivered + 1
      <4>1. k \in 1..Delivered /\ k \in DOMAIN head
        BY <3>2, <1>1, <1>5
      <4> QED BY <4>1, <2>1 DEF NoHoles
    <3> QED BY <3>1, <3>2
  <2>3. \A j, k \in DOMAIN head : (j < k /\ head[k] \in Lines') => head[j] \in Lines' \cup glued'
    <3> SUFFICES ASSUME NEW j \in DOMAIN head, NEW k \in DOMAIN head, j < k, head[k] \in Lines'
                 PROVE  head[j] \in Lines' \cup glued'
      OBVIOUS
    <3>1. CASE head[k] \in Lines
      BY <3>1, <2>1 DEF NoHoles
    <3>2. CASE head[k] \notin Lines
      <4>1. PICK i \in DOMAIN file' : file'[i] = head[k]
        BY DEF Lines
      <4>2. head[k] = e0 /\ file' # file
        BY <3>2, <4>1, <1>7, <1>9 DEF Lines
      <4>3. ~broken
        BY <4>2
      <4>4. CASE j \in 1..Delivered
        BY <4>3, <4>4, <2>1 DEF NoHoles
      <4>5. CASE j \notin 1..Delivered
        <5>1. PICK d \in Nat, l \in Nat : d = Delivered /\ l = Len(head)
          BY <1>1, <1>5
        <5>2. k \in Nat /\ j \in Nat /\ d + 1 < k
          BY <4>5, <5>1, <1>5
        <5>3. PICK i2 \in Nat : i2 > 0 /\ k = d + 1 + i2
          <6>1. k - (d + 1) \in Nat /\ k - (d + 1) > 0 /\ k = d + 1 + (k - (d + 1))
            BY <5>2
          <6> QED BY <6>1
        <5>4. i2 \in DOMAIN auditQueue'
          <6>1. Delivered' + Len(auditQueue') = Len(head)
            BY <1>1, <1>3, <1>5 DEF Delivered
          <6>2. Len(auditQueue') \in Nat /\ DOMAIN auditQueue' = 1..Len(auditQueue')
            BY <1>1
          <6> QED BY <6>1, <6>2, <5>1, <5>3, <1>1, <1>5
        <5>5. auditQueue'[i2] = head[k]
          BY <5>1, <5>3, <5>4, <1>1, <1>3, <1>6 DEF QueueInv
        <5> QED BY <5>4, <5>5, <4>2, <1>1, PrecedesIrreflexive
      <4> QED BY <4>4, <4>5
    <3> QED BY <3>1, <3>2
  <2> QED BY <1>3, <2>2, <2>3 DEF NoHoles
<1>13. StoreInv'
  BY <1>3, <1>10 DEF StoreInv
<1>14. ErrorInv'
  <2>1. e0.type # "snapshot"
    BY <1>1 DEF Events, Types
  <2> QED BY <1>2, <1>3, <2>1 DEF ErrorInv
<1>15. \A f \in Flushes : FlushInv(f)'
  <2> SUFFICES ASSUME NEW f \in Flushes PROVE FlushInv(f)'
    OBVIOUS
  <2>1. /\ flush'[f].pc = flush[f].pc /\ flush'[f].upto = flush[f].upto
        /\ flush'[f].waits = IF flush[f].pc \in {"audit", "sink"} /\ flush[f].waits > 0
                             THEN flush[f].waits - 1 ELSE flush[f].waits
    BY <1>2, AwaitedType DEF TypeOK
  <2>2. flush[f].waits \in Nat /\ flush[f].upto \in Int
    BY DEF TypeOK, FlushRecord, Null
  <2>3. (flush'[f].pc = "audit" /\ sink' # "none") => flush'[f].upto <= Delivered' + flush'[f].waits
    <3> SUFFICES ASSUME flush[f].pc = "audit" PROVE flush[f].upto <= Delivered' + flush'[f].waits
      BY <2>1
    <3>1. flush[f].upto <= Delivered + flush[f].waits
      BY <1>1 DEF FlushInv
    <3>2. \/ flush[f].waits > 0 /\ flush'[f].waits = flush[f].waits - 1
          \/ flush[f].waits = 0 /\ flush'[f].waits = 0
      BY <2>1, <2>2
    <3>3. Delivered' = Delivered + 1 /\ Delivered \in Int
      BY <1>1
    <3>4. PICK dl \in Int, up \in Int, w \in Nat : dl = Delivered /\ up = flush[f].upto /\ w = flush[f].waits
      BY <2>2, <3>3
    <3>5. up <= dl + w /\ (flush'[f].waits = w - 1 \/ (w = 0 /\ flush'[f].waits = 0))
      BY <3>1, <3>2, <3>4
    <3> QED BY <3>3, <3>4, <3>5
  <2>4. (flush'[f].pc = "sink" /\ sink' # "none") => flush'[f].upto <= Delivered'
    <3> SUFFICES ASSUME flush[f].pc = "sink" PROVE flush[f].upto <= Delivered'
      BY <2>1
    <3>1. flush[f].upto <= Delivered
      BY <1>1 DEF FlushInv
    <3> QED BY <3>1, <2>2, <1>1
  <2>5. flush'[f].pc = "state" =>
         \/ flush'[f].upto <= stored' \/ Snapshot(flush'[f].upto) \in refused'
         \/ flush'[f].waits \in DOMAIN stateQueue' /\ stateQueue'[flush'[f].waits] = flush'[f].upto
    BY <1>3, <1>10, <2>1 DEF FlushInv
  <2> QED BY <2>1, <2>3, <2>4, <2>5 DEF FlushInv
<1> QED BY <1>4, <1>6, <1>8, <1>11, <1>12, <1>13, <1>14, <1>15

\* A torn or garbled line is no event.
LEMMA NotEvents == Torn \notin Events /\ Garbage \notin Events
BY DEF Torn, Garbage, Events, Types

(***************************************************************************)
(* What a failed write leaves, or a line glued to it, changes no line that *)
(* holds an event.                                                         *)
(***************************************************************************)
KeepsLines ==
  /\ file' \in Seq(Events \cup {Torn, Garbage})
  /\ \A k \in DOMAIN file' : file'[k] \in Events => k \in DOMAIN file /\ file'[k] = file[k]
  /\ \A e \in Events : e \in Lines => e \in Lines'

LEMMA TornKeepsLines ==
  ASSUME TypeOK, MaybeTorn
  PROVE  KeepsLines
<1>1. CASE file' = file
  BY <1>1 DEF KeepsLines, TypeOK, Lines
<1>2. CASE file' = Append(file, Torn)
  <2>1. PICK m \in Nat : m = Len(file) /\ DOMAIN file = 1..m
    BY DEF TypeOK
  <2>2. /\ file' \in Seq(Events \cup {Torn, Garbage}) /\ DOMAIN file' = 1..m + 1
        /\ \A k \in 1..m : file'[k] = file[k]
        /\ file'[m + 1] = Torn
    BY <1>2, <2>1 DEF TypeOK
  <2>3. \A k \in DOMAIN file' : file'[k] \in Events => k \in DOMAIN file /\ file'[k] = file[k]
    BY <2>1, <2>2, NotEvents
  <2>4. Lines \subseteq Lines'
    BY <2>1, <2>2 DEF Lines
  <2> QED BY <2>2, <2>3, <2>4 DEF KeepsLines
<1> QED BY <1>1, <1>2 DEF MaybeTorn

LEMMA GluingKeepsLines ==
  ASSUME TypeOK, EndsTorn, file' = [file EXCEPT ![Len(file)] = Garbage]
  PROVE  KeepsLines
<1>1. PICK m \in Nat : m = Len(file) /\ DOMAIN file = 1..m /\ m \in 1..m /\ file[m] = Torn
  BY DEF TypeOK, EndsTorn
<1>2. /\ file' \in Seq(Events \cup {Torn, Garbage}) /\ DOMAIN file' = 1..m
      /\ \A k \in 1..m : k # m => file'[k] = file[k]
      /\ file'[m] = Garbage
  BY <1>1, ExceptSeq, LenProperties DEF TypeOK
<1>3. \A k \in DOMAIN file' : file'[k] \in Events => k \in DOMAIN file /\ file'[k] = file[k]
  BY <1>1, <1>2, NotEvents
<1>4. \A e \in Events : e \in Lines => e \in Lines'
  BY <1>1, <1>2, NotEvents DEF Lines
<1> QED BY <1>2, <1>3, <1>4 DEF KeepsLines

LEMMA AppendGains ==
  ASSUME TypeOK, NEW e \in Events, file' = Append(file, e)
  PROVE  /\ file' \in Seq(Events \cup {Torn, Garbage})
         /\ \A k \in DOMAIN file' : file'[k] \in Events =>
              \/ k \in DOMAIN file /\ file'[k] = file[k]
              \/ k = Len(file) + 1 /\ file'[k] = e
         /\ Lines' = Lines \cup {e}
<1>1. PICK m \in Nat : m = Len(file) /\ DOMAIN file = 1..m
  BY DEF TypeOK
<1>2. /\ file' \in Seq(Events \cup {Torn, Garbage}) /\ DOMAIN file' = 1..m + 1
      /\ \A k \in 1..m : file'[k] = file[k]
      /\ file'[m + 1] = e
  BY <1>1 DEF TypeOK
<1>3. Lines' = Lines \cup {e}
  BY <1>1, <1>2 DEF Lines
<1> QED BY <1>1, <1>2, <1>3

LEMMA DeliverStep == Inv /\ Deliver => Inv'
<1> SUFFICES ASSUME Inv, Deliver PROVE Inv'
  OBVIOUS
<1> USE DEF Inv
<1>1. auditQueue # <<>> => Head(auditQueue) \in Events
  BY DEF TypeOK
<1>2. CASE SinkAppends
  <2>1. /\ auditQueue # <<>> /\ sink # "FileAuditSink" /\ file' = Append(file, Head(auditQueue))
        /\ Settle(TRUE) /\ writing' = writing /\ broken' = broken /\ glued' = glued
    BY <1>2 DEF SinkAppends
  <2>2. ~writing /\ ~broken
    BY <2>1 DEF QueueInv
  <2>3. /\ writing' = FALSE /\ broken' \in BOOLEAN /\ ~broken'
        /\ file' \in Seq(Events \cup {Torn, Garbage})
        /\ \A k \in DOMAIN file' : file'[k] \in Events =>
             \/ k \in DOMAIN file /\ file'[k] = file[k]
             \/ k = Len(file) + 1 /\ file'[k] = Head(auditQueue)
        /\ Lines' = Lines \cup {Head(auditQueue)}
    BY <1>1, <2>1, <2>2, AppendGains DEF TypeOK
  <2> QED BY <2>1, <2>2, <2>3, SettledStep
<1>3. CASE SinkRefuses
  <2>1. /\ auditQueue # <<>> /\ Settle(FALSE) /\ writing' = writing /\ broken' = broken
        /\ file' = file /\ glued' = glued /\ (sink = "FileAuditSink" => broken)
    BY <1>3 DEF SinkRefuses
  <2>2. ~writing
    BY <2>1 DEF QueueInv
  <2>3. /\ writing' = FALSE /\ broken' \in BOOLEAN /\ Lines' = Lines
        /\ file' \in Seq(Events \cup {Torn, Garbage}) /\ (broken => sink = "FileAuditSink")
    BY <2>1, <2>2 DEF TypeOK, Lines, QueueInv
  <2>4. refused' = refused \cup {Head(auditQueue)}
    BY <2>1 DEF Settle
  <2> QED BY <2>1, <2>2, <2>3, <2>4, SettledStep
<1>4. CASE OpenFile
  <2>1. /\ auditQueue # <<>> /\ sink = "FileAuditSink" /\ ~broken /\ writing' = TRUE
        /\ UNCHANGED <<env, evaluations, state, logVars, auditQueue, broken, file, auditError, glued,
                       storeVars, flush, history>>
    BY <1>4 DEF OpenFile
  <2>2. /\ Delivered' = Delivered /\ Lines' = Lines /\ UNCHANGED <<env, logVars, storeVars, history>>
    BY <2>1 DEF Delivered, Lines, logVars
  <2>3. TypeOK'
    BY <2>1, <2>2 DEF TypeOK, env, logVars, storeVars, history
  <2>4. QueueInv' /\ FileInv'
    BY <2>1, <2>2 DEF QueueInv, FileInv, env, logVars
  <2>5. DeliveredInv' /\ NoHoles' /\ StoreInv' /\ ErrorInv'
    BY <2>1, <2>2 DEF DeliveredInv, NoHoles, StoreInv, ErrorInv, env, logVars, storeVars, history
  <2>6. \A f \in Flushes : FlushInv(f)'
    BY <2>1, <2>2 DEF FlushInv, env, storeVars, history
  <2> QED BY <2>3, <2>4, <2>5, <2>6
<1>5. CASE WriteLine
  <2>1. /\ writing /\ writing' = FALSE /\ Settle(TRUE) /\ broken' = broken
        /\ file' = IF EndsTorn THEN [file EXCEPT ![Len(file)] = Garbage] ELSE Append(file, Head(auditQueue))
        /\ glued' = IF EndsTorn THEN glued \cup {Head(auditQueue)} ELSE glued
    BY <1>5 DEF WriteLine
  <2>2. auditQueue # <<>> /\ sink = "FileAuditSink" /\ ~broken /\ ~broken' /\ broken' \in BOOLEAN
    <3>1. auditQueue # <<>> /\ sink = "FileAuditSink" /\ ~broken
      BY <2>1 DEF QueueInv
    <3> QED BY <2>1, <3>1 DEF TypeOK
  <2>3. CASE EndsTorn
    <3>1. KeepsLines /\ glued' = glued \cup {Head(auditQueue)}
      BY <2>1, <2>3, GluingKeepsLines
    <3> QED BY <2>1, <2>2, <3>1, SettledStep DEF KeepsLines
  <2>4. CASE ~EndsTorn
    <3>1. file' = Append(file, Head(auditQueue)) /\ glued' = glued
      BY <2>1, <2>4
    <3>2. /\ file' \in Seq(Events \cup {Torn, Garbage})
          /\ \A k \in DOMAIN file' : file'[k] \in Events =>
               \/ k \in DOMAIN file /\ file'[k] = file[k]
               \/ k = Len(file) + 1 /\ file'[k] = Head(auditQueue)
          /\ Lines' = Lines \cup {Head(auditQueue)}
      BY <1>1, <2>2, <3>1, AppendGains
    <3> QED BY <2>1, <2>2, <3>1, <3>2, SettledStep
  <2> QED BY <2>3, <2>4
<1>6. CASE WriteFails
  <2>1. /\ writing /\ MaybeTorn /\ writing' = FALSE /\ broken' = TRUE /\ Settle(FALSE) /\ glued' = glued
    BY <1>6 DEF WriteFails
  <2>2. auditQueue # <<>> /\ sink = "FileAuditSink" /\ ~broken
    BY <2>1 DEF QueueInv
  <2>3. KeepsLines
    BY <2>1, TornKeepsLines
  <2>4. refused' = refused \cup {Head(auditQueue)}
    BY <2>1 DEF Settle
  <2> QED BY <2>1, <2>2, <2>3, <2>4, SettledStep DEF KeepsLines
<1> QED BY <1>2, <1>3, <1>4, <1>5, <1>6 DEF Deliver

----------------------------------------------------------------------------
(***************************************************************************)
(* The state store: the first queued snapshot is stored or refused.        *)
(***************************************************************************)
LEMMA SettledStateStep ==
  ASSUME Inv, stateQueue # <<>>, NEW ok \in BOOLEAN, SettleState(ok),
         stored' = IF ok THEN Head(stateQueue) ELSE stored
  PROVE  Inv'
<1> USE DEF Inv
<1>1. /\ UNCHANGED <<env, evaluations, state, logVars, auditVars, committed, reported>>
      /\ stateQueue' = Tail(stateQueue) /\ flush' = Awaited({"state"})
      /\ stateError' = (stateError \/ ~ok) /\ tmp' = FALSE
      /\ refused' = IF ok THEN refused ELSE refused \cup {Snapshot(Head(stateQueue))}
  BY DEF SettleState
<1>2. /\ UNCHANGED <<sink, store, head, auditCount, auditQueue, writing, broken, file, auditError, glued>>
      /\ evaluations' = evaluations /\ state' = state /\ committed' = committed /\ reported' = reported
      /\ Lines' = Lines /\ Delivered' = Delivered
  BY <1>1 DEF env, logVars, auditVars, Lines, Delivered
<1>3. PICK m \in Nat : m = Len(stateQueue) /\ DOMAIN stateQueue = 1..m /\ m > 0
  BY DEF TypeOK
<1>4. /\ stateQueue' \in Seq(Nat) /\ Len(stateQueue') = m - 1 /\ DOMAIN stateQueue' = 1..m - 1
      /\ \A k \in 1..m - 1 : stateQueue'[k] = stateQueue[k + 1]
  BY <1>1, <1>3, HeadTailProperties, LenProperties DEF TypeOK
<1>5. Head(stateQueue) = stateQueue[1] /\ 1 \in 1..m /\ Head(stateQueue) \in Nat
  BY <1>3 DEF TypeOK
<1>6. stored' \in Nat \cup {Null} /\ stored <= stored' /\ stored' <= Head(stateQueue)
  BY <1>3, <1>5, SMTT(60) DEF StoreInv, TypeOK, Null
<1>7. refused \subseteq refused'
  BY <1>1
<1>8. \/ stored' = stateQueue[1]
      \/ Snapshot(stateQueue[1]) \in refused'
  BY <1>1, <1>5
<1>9. TypeOK'
  BY <1>1, <1>2, <1>4, <1>6, AwaitedType DEF TypeOK
<1>10. QueueInv' /\ FileInv' /\ NoHoles'
  BY <1>2 DEF QueueInv, FileInv, NoHoles
<1>11. DeliveredInv'
  <2> SUFFICES ASSUME sink # "none", NEW k \in 1..Delivered PROVE head[k] \in Lines \cup glued \cup refused'
    BY <1>2 DEF DeliveredInv
  <2> QED BY <1>7 DEF DeliveredInv
<1>12. ErrorInv'
  <2>1. \A n : Snapshot(n).type = "snapshot"
    BY DEF Snapshot
  <2>2. \A e \in refused' : e.type # "snapshot" => e \in refused
    BY <1>1, <2>1
  <2>3. ~stateError' => ~stateError /\ refused' = refused
    BY <1>1
  <2> QED BY <1>2, <2>2, <2>3 DEF ErrorInv
<1>13. StoreInv'
  <2>1. store
    BY <1>3 DEF StoreInv
  <2>2. stored' <= state'
    <3>1. Head(stateQueue) <= state
      BY <1>3, <1>5 DEF StoreInv
    <3> QED BY <1>2, <1>5, <1>6, <3>1 DEF TypeOK, Null
  <2>3. \A k \in DOMAIN stateQueue' : stored' <= stateQueue'[k] /\ stateQueue'[k] <= state'
    <3> SUFFICES ASSUME NEW k \in 1..m - 1 PROVE stored' <= stateQueue[k + 1] /\ stateQueue[k + 1] <= state
      BY <1>2, <1>4
    <3>1. k + 1 \in 1..m /\ 1 < k + 1
      BY <1>3
    <3>2. stateQueue[1] <= stateQueue[k + 1] /\ stateQueue[k + 1] <= state
      BY <1>3, <1>5, <3>1 DEF StoreInv
    <3>3. stateQueue[k + 1] \in Nat
      BY <1>3, <3>1 DEF TypeOK
    <3> QED BY <1>5, <1>6, <3>2, <3>3 DEF Null
  <2>4. \A j, k \in DOMAIN stateQueue' : j < k => stateQueue'[j] <= stateQueue'[k]
    <3> SUFFICES ASSUME NEW j \in 1..m - 1, NEW k \in 1..m - 1, j < k
                 PROVE  stateQueue[j + 1] <= stateQueue[k + 1]
      BY <1>4
    <3>1. j + 1 \in 1..m /\ k + 1 \in 1..m /\ j + 1 < k + 1
      BY <1>3
    <3> QED BY <1>3, <3>1 DEF StoreInv
  <2>5. \/ committed' <= stored' \/ Snapshot(committed') \in refused'
        \/ stateQueue' # <<>> /\ stateQueue'[Len(stateQueue')] = committed'
    <3>1. CASE committed <= stored
      BY <3>1, <1>2, <1>6 DEF TypeOK, Null
    <3>2. CASE Snapshot(committed) \in refused
      BY <3>2, <1>2, <1>7
    <3>3. CASE stateQueue[m] = committed
      <4>1. CASE m = 1
        <5>1. committed' = stateQueue[1] /\ stateQueue[1] \in Nat
          BY <1>2, <1>5, <3>3, <4>1
        <5> QED BY <1>8, <5>1
      <4>2. CASE m # 1
        <5>1. m - 1 \in 1..m - 1 /\ m - 1 + 1 = m
          BY <1>3, <4>2
        <5>2. stateQueue'[m - 1] = committed
          BY <1>4, <3>3, <5>1
        <5> QED BY <1>2, <1>4, <5>1, <5>2
      <4> QED BY <4>1, <4>2
    <3> QED BY <1>3, <3>1, <3>2, <3>3 DEF StoreInv
  <2> QED BY <1>1, <1>2, <2>1, <2>2, <2>3, <2>4, <2>5 DEF StoreInv
<1>14. \A f \in Flushes : FlushInv(f)'
  <2> SUFFICES ASSUME NEW f \in Flushes PROVE FlushInv(f)'
    OBVIOUS
  <2>1. /\ flush'[f].pc = flush[f].pc /\ flush'[f].upto = flush[f].upto
        /\ flush'[f].waits = IF flush[f].pc = "state" /\ flush[f].waits > 0
                             THEN flush[f].waits - 1 ELSE flush[f].waits
    BY <1>1, AwaitedType DEF TypeOK
  <2>2. flush[f].waits \in Nat /\ flush[f].upto \in Int
    BY DEF TypeOK, FlushRecord, Null
  <2>3. flush[f].pc = "state" =>
         \/ flush[f].upto <= stored' \/ Snapshot(flush[f].upto) \in refused'
         \/ flush'[f].waits \in DOMAIN stateQueue' /\ stateQueue'[flush'[f].waits] = flush[f].upto
    <3> SUFFICES ASSUME flush[f].pc = "state"
                 PROVE  \/ flush[f].upto <= stored' \/ Snapshot(flush[f].upto) \in refused'
                        \/ flush'[f].waits \in DOMAIN stateQueue' /\ stateQueue'[flush'[f].waits] = flush[f].upto
      OBVIOUS
    <3>1. CASE flush[f].upto <= stored
      BY <3>1, <2>2, <1>6 DEF TypeOK, Null
    <3>2. CASE Snapshot(flush[f].upto) \in refused
      BY <3>2, <1>7
    <3>3. CASE flush[f].waits \in DOMAIN stateQueue /\ stateQueue[flush[f].waits] = flush[f].upto
      <4>1. flush'[f].waits = flush[f].waits - 1 /\ flush[f].waits \in 1..m
        BY <3>3, <1>3, <2>1, <2>2
      <4>2. CASE flush[f].waits = 1
        BY <3>3, <4>2, <1>5, <1>6, <1>8
      <4>3. CASE flush[f].waits # 1
        <5>1. PICK w \in 1..m - 1 : w = flush'[f].waits /\ w + 1 = flush[f].waits
          BY <4>1, <4>3, <1>3
        <5>2. stateQueue'[w] = flush[f].upto
          BY <5>1, <3>3, <1>4
        <5> QED BY <5>1, <5>2, <1>4
      <4> QED BY <4>2, <4>3
    <3> QED BY <3>1, <3>2, <3>3 DEF FlushInv
  <2>4. flush'[f].pc \in {"audit", "sink"} => flush'[f].waits = flush[f].waits
    BY <2>1
  <2> QED BY <1>2, <2>1, <2>3, <2>4 DEF FlushInv
<1> QED BY <1>9, <1>10, <1>11, <1>12, <1>13, <1>14

LEMMA StoreStep == Inv /\ Store => Inv'
<1> SUFFICES ASSUME Inv, Store PROVE Inv'
  OBVIOUS
<1>1. CASE WriteTmp
  <2>1. /\ stateQueue # <<>> /\ tmp' = TRUE
        /\ UNCHANGED <<env, evaluations, state, logVars, auditVars, stateQueue, stored, stateError,
                       flush, history>>
    BY <1>1 DEF WriteTmp
  <2>2. /\ Delivered' = Delivered /\ Lines' = Lines
        /\ UNCHANGED <<sink, store, head, auditCount, auditQueue, writing, broken, file, auditError, glued,
                       committed, refused, reported>>
    BY <2>1 DEF Delivered, Lines, env, logVars, auditVars, history
  <2>3. TypeOK'
    BY <2>1, <2>2 DEF Inv, TypeOK
  <2>4. QueueInv' /\ FileInv' /\ DeliveredInv' /\ NoHoles'
    BY <2>1, <2>2 DEF Inv, QueueInv, FileInv, DeliveredInv, NoHoles
  <2>5. StoreInv' /\ ErrorInv'
    BY <2>1, <2>2 DEF Inv, StoreInv, ErrorInv
  <2>6. \A f \in Flushes : FlushInv(f)'
    BY <2>1, <2>2 DEF Inv, FlushInv
  <2> QED BY <2>3, <2>4, <2>5, <2>6 DEF Inv
<1>2. CASE Rename
  <2>1. stateQueue # <<>>
    BY <1>2 DEF Rename, Inv, StoreInv
  <2> QED BY <1>2, <2>1, SettledStateStep DEF Rename
<1>3. CASE SetFails
  BY <1>3, SettledStateStep DEF SetFails
<1> QED BY <1>1, <1>2, <1>3 DEF Store

----------------------------------------------------------------------------
(***************************************************************************)
(* A step of one flush moves nothing that the other flushes rely on.       *)
(***************************************************************************)
LEMMA OthersKeep ==
  ASSUME Inv, NEW f \in Flushes, NEW r \in FlushRecord, flush' = [flush EXCEPT ![f] = r],
         UNCHANGED <<sink, store, evaluations, state, head, auditCount, auditQueue, writing, broken, file,
                     glued, stateQueue, tmp, stored, committed, refused>>,
         auditError' \in BOOLEAN, stateError' \in BOOLEAN, ErrorInv', FlushInv(f)'
  PROVE  Inv'
<1> USE DEF Inv
<1>1. Delivered' = Delivered /\ Lines' = Lines
  BY DEF Delivered, Lines
<1>2. TypeOK'
  BY DEF TypeOK
<1>3. QueueInv' /\ FileInv' /\ DeliveredInv' /\ NoHoles'
  BY <1>1 DEF QueueInv, FileInv, DeliveredInv, NoHoles
<1>4. StoreInv'
  BY DEF StoreInv
<1>5. ASSUME NEW g \in Flushes PROVE FlushInv(g)'
  <2>1. CASE g # f
    <3>1. flush'[g] = flush[g]
      BY <2>1 DEF TypeOK
    <3> QED BY <1>1, <3>1 DEF FlushInv
  <2> QED BY <2>1
<1> QED BY <1>2, <1>3, <1>4, <1>5

LEMMA FlushBeginsStep ==
  ASSUME Inv, NEW f \in Flushes, flushAudit(f) \/ flushState(f)
  PROVE  Inv'
<1> USE DEF Inv
<1>1. /\ UNCHANGED <<env, evaluations, state, logVars, auditVars, storeVars, history>>
      /\ UNCHANGED <<sink, store, head, auditCount, auditQueue, writing, broken, file, auditError, glued,
                     stateQueue, tmp, stored, stateError, committed, refused, reported>>
  BY DEF flushAudit, flushState, env, logVars, auditVars, storeVars, history
<1>2. ErrorInv' /\ auditError' \in BOOLEAN /\ stateError' \in BOOLEAN /\ Delivered' = Delivered
  BY <1>1 DEF ErrorInv, TypeOK, Delivered
<1>3. Len(auditQueue) \in Nat /\ Len(head) \in Nat /\ Len(stateQueue) \in Nat /\ DOMAIN flush = Flushes
      /\ committed \in Nat \cup {Null} /\ DOMAIN stateQueue = 1..Len(stateQueue)
  BY DEF TypeOK
<1>4. CASE flushAudit(f)
  <2> DEFINE r == [pc |-> "audit", waits |-> Len(auditQueue), upto |-> Len(head), missed |-> {}]
  <2>1. flush' = [flush EXCEPT ![f] = r]
    BY <1>4 DEF flushAudit
  <2>2. r \in FlushRecord
    BY <1>3 DEF FlushRecord, Pcs
  <2>3. flush'[f] = r
    BY <1>3, <2>1
  <2>4. flush'[f].pc = "audit" /\ flush'[f].upto = Len(head) /\ flush'[f].waits = Len(auditQueue)
    BY <2>3
  <2>5. FlushInv(f)'
    BY <1>1, <1>2, <1>3, <2>4 DEF FlushInv, Delivered
  <2> QED BY <1>1, <1>2, <2>1, <2>2, <2>5, OthersKeep
<1>5. CASE flushState(f)
  <2> DEFINE r == [pc |-> "state", waits |-> Len(stateQueue), missed |-> {}, upto |-> committed]
  <2>1. flush' = [flush EXCEPT ![f] = r]
    BY <1>5 DEF flushState
  <2>2. r \in FlushRecord
    BY <1>3 DEF FlushRecord, Pcs
  <2>3. flush'[f] = r
    BY <1>3, <2>1
  <2>4. flush'[f].pc = "state" /\ flush'[f].upto = committed /\ flush'[f].waits = Len(stateQueue)
    BY <2>3
  <2>5. \/ committed <= stored \/ Snapshot(committed) \in refused
        \/ Len(stateQueue) \in DOMAIN stateQueue /\ stateQueue[Len(stateQueue)] = committed
    <3>1. stateQueue # <<>> => Len(stateQueue) \in DOMAIN stateQueue
      BY <1>3 DEF TypeOK
    <3> QED BY <3>1 DEF StoreInv
  <2>6. FlushInv(f)'
    BY <1>1, <2>4, <2>5 DEF FlushInv
  <2> QED BY <1>1, <1>2, <2>1, <2>2, <2>6, OthersKeep
<1> QED BY <1>4, <1>5

\* What a flush that returns would have missed: nothing.
LEMMA NothingUnreported ==
  ASSUME Inv, NEW f \in Flushes, flush[f].waits = 0,
         \/ flush[f].pc = "sink" /\ ~broken /\ ~auditError
         \/ flush[f].pc = "state" /\ ~stateError
  PROVE  Unreported(f) = {}
<1> USE DEF Inv
<1>1. CASE flush[f].pc = "sink" /\ ~auditError
  <2>1. CASE sink = "none"
    BY <1>1, <2>1 DEF Unreported
  <2>2. CASE sink # "none"
    <3>1. flush[f].upto <= Delivered /\ flush[f].upto \in Nat
      BY <1>1, <2>2 DEF FlushInv
    <3>2. Delivered \in 0..Len(head) /\ Len(head) \in Nat
      BY <2>2 DEF TypeOK, QueueInv, Delivered
    <3>3. ASSUME NEW k \in 1..flush[f].upto PROVE head[k] \in Lines \cup glued \cup reported
      <4>1. k \in 1..Delivered /\ k \in DOMAIN head
        BY <3>1, <3>2 DEF TypeOK
      <4>2. head[k] \in Lines \cup glued \cup refused
        BY <2>2, <4>1 DEF DeliveredInv
      <4>3. head[k].type # "snapshot"
        <5>1. head[k] \in Events
          BY <4>1 DEF TypeOK
        <5> QED BY <5>1 DEF Events, Types
      <4> QED BY <1>1, <4>2, <4>3 DEF ErrorInv
    <3> QED BY <1>1, <2>2, <3>3 DEF Unreported
  <2> QED BY <2>1, <2>2
<1>2. CASE flush[f].pc = "state" /\ ~stateError
  <2>1. flush[f].waits \notin DOMAIN stateQueue
    BY DEF TypeOK
  <2>2. flush[f].upto <= stored \/ Snapshot(flush[f].upto) \in refused
    BY <1>2, <2>1 DEF FlushInv
  <2>3. Snapshot(flush[f].upto) \in refused => Snapshot(flush[f].upto) \in reported
    <3>1. Snapshot(flush[f].upto).type = "snapshot"
      BY DEF Snapshot
    <3> QED BY <1>2, <3>1 DEF ErrorInv
  <2>4. flush[f].upto <= stored <=> stored >= flush[f].upto
    BY DEF TypeOK, FlushRecord, Null
  <2> QED BY <1>2, <2>2, <2>3, <2>4 DEF Unreported
<1> QED BY <1>1, <1>2

LEMMA FlushStep ==
  ASSUME Inv, NEW f \in Flushes, Flush(f)
  PROVE  Inv'
<1> USE DEF Inv
<1>1. flush[f] \in FlushRecord /\ DOMAIN flush = Flushes
  BY DEF TypeOK
<1>2. CASE FlushSink(f)
  <2>1. /\ flush[f].pc = "audit" /\ flush[f].waits = 0
        /\ flush' = [flush EXCEPT ![f].pc = "sink", ![f].waits = IF writing THEN 1 ELSE 0]
        /\ UNCHANGED <<sink, store, evaluations, state, head, auditCount, auditQueue, writing, broken, file,
                       auditError, glued, stateQueue, tmp, stored, stateError, committed, refused, reported>>
    BY <1>2 DEF FlushSink, env, logVars, auditVars, storeVars, history
  <2> DEFINE r == [flush[f] EXCEPT !.pc = "sink", !.waits = IF writing THEN 1 ELSE 0]
  <2>2. flush' = [flush EXCEPT ![f] = r] /\ flush'[f] = r
    BY <1>1, <2>1
  <2>3. r \in FlushRecord /\ r.pc = "sink" /\ r.upto = flush[f].upto
    BY <1>1 DEF FlushRecord, Pcs
  <2>4. ErrorInv' /\ Delivered' = Delivered /\ auditError' \in BOOLEAN /\ stateError' \in BOOLEAN
    BY <2>1 DEF ErrorInv, Delivered, TypeOK
  <2>5. sink # "none" => flush[f].upto <= Delivered
    <3>1. sink # "none" => Delivered \in Int
      BY DEF Delivered, TypeOK
    <3> QED BY <2>1, <3>1 DEF FlushInv
  <2>6. FlushInv(f)'
    BY <2>1, <2>2, <2>3, <2>4, <2>5 DEF FlushInv
  <2> HIDE DEF r
  <2> QED BY <2>1, <2>2, <2>3, <2>4, <2>6, OthersKeep
<1>3. ASSUME Throws(f),
             auditError' \in BOOLEAN, stateError' \in BOOLEAN,
             UNCHANGED <<sink, store, evaluations, state, head, auditCount, auditQueue, writing, broken, file,
                         glued, stateQueue, tmp, stored, committed, refused>>
      PROVE  Inv'
  <2> DEFINE r == [flush[f] EXCEPT !.pc = "thrown"]
  <2>1. flush' = [flush EXCEPT ![f] = r] /\ flush'[f] = r /\ reported' = reported \cup refused
    BY <1>1, <1>3 DEF Throws
  <2>2. r \in FlushRecord /\ r.pc = "thrown"
    BY <1>1 DEF FlushRecord, Pcs
  <2>3. ErrorInv'
    BY <1>3, <2>1 DEF ErrorInv
  <2>4. FlushInv(f)'
    BY <2>1, <2>2 DEF FlushInv
  <2> HIDE DEF r
  <2> QED BY <1>3, <2>1, <2>2, <2>3, <2>4, OthersKeep
<1>4. CASE FlushSinkThrows(f)
  BY <1>4, <1>3 DEF FlushSinkThrows, env, logVars, auditVars, storeVars, TypeOK
<1>5. CASE FlushThrows(f)
  BY <1>5, <1>3 DEF FlushThrows, env, logVars, TypeOK
<1>6. CASE FlushReturns(f)
  <2>1. /\ flush' = [flush EXCEPT ![f].pc = "returned", ![f].missed = Unreported(f)]
        /\ UNCHANGED <<sink, store, evaluations, state, head, auditCount, auditQueue, writing, broken, file,
                       auditError, glued, stateQueue, tmp, stored, stateError, committed, refused, reported>>
    BY <1>6 DEF FlushReturns, env, logVars, auditVars, storeVars, history
  <2>2. Unreported(f) = {}
    BY <1>6, NothingUnreported DEF FlushReturns
  <2> DEFINE r == [flush[f] EXCEPT !.pc = "returned", !.missed = {}]
  <2>3. flush' = [flush EXCEPT ![f] = r] /\ flush'[f] = r
    BY <1>1, <2>1, <2>2
  <2>4. r \in FlushRecord /\ r.pc = "returned"
    BY <1>1 DEF FlushRecord, Pcs
  <2>5. ErrorInv' /\ auditError' \in BOOLEAN /\ stateError' \in BOOLEAN
    BY <2>1 DEF ErrorInv, TypeOK
  <2>6. FlushInv(f)'
    BY <2>3, <2>4 DEF FlushInv
  <2> HIDE DEF r
  <2> QED BY <2>1, <2>3, <2>4, <2>5, <2>6, OthersKeep
<1> QED BY <1>2, <1>4, <1>5, <1>6 DEF Flush

----------------------------------------------------------------------------
(***************************************************************************)
(* A restart empties the log and both queues, and what an earlier process  *)
(* wrote precedes whatever comes next.                                     *)
(***************************************************************************)
LEMMA CrashStep == Inv /\ Crash => Inv'
<1> SUFFICES ASSUME Inv, Crash PROVE Inv'
  OBVIOUS
<1> USE DEF Inv
<1>1. /\ state' = IF stored = Null THEN 0 ELSE stored
      /\ head' = <<>> /\ auditCount' = 0
      /\ auditQueue' = <<>> /\ writing' = FALSE /\ broken' = FALSE /\ auditError' = FALSE
      /\ stateQueue' = <<>> /\ tmp' = FALSE /\ stateError' = FALSE
      /\ committed' = Null /\ refused' = {} /\ reported' = {} /\ glued' = {}
      /\ sink' = sink /\ store' = store /\ evaluations' = evaluations /\ stored' = stored
  BY DEF Crash
<1>2. KeepsLines \/ file' = <<>>
  <2>1. CASE writing
    BY <2>1, TornKeepsLines DEF Crash
  <2>2. CASE ~writing
    BY <2>2 DEF Crash, KeepsLines, TypeOK, Lines
  <2> QED BY <2>1, <2>2
<1>3. \A f \in Flushes : /\ flush'[f] \in FlushRecord
                         /\ flush'[f].pc \notin {"audit", "sink", "state"}
  <2> SUFFICES ASSUME NEW f \in Flushes PROVE flush'[f] \in FlushRecord /\ flush'[f].pc \notin {"audit", "sink", "state"}
    OBVIOUS
  <2>1. flush[f] \in FlushRecord
    BY DEF TypeOK
  <2>2. flush'[f] = IF flush[f].pc \in {"audit", "sink", "state"} THEN [flush[f] EXCEPT !.pc = "crashed"] ELSE flush[f]
    BY DEF Crash
  <2> QED BY <2>1, <2>2 DEF FlushRecord, Pcs
<1>4. file' \in Seq(Events \cup {Torn, Garbage})
  BY <1>2, EmptySeq DEF KeepsLines
<1>5. TypeOK'
  <2>1. flush' \in [Flushes -> FlushRecord]
    <3>1. flush' = [f \in Flushes |-> flush'[f]]
      BY DEF Crash
    <3> QED BY <1>3, <3>1
  <2>2. state' \in Nat /\ stored \in Nat \cup {Null}
    BY <1>1 DEF TypeOK
  <2>3. head' \in Seq(Events) /\ auditQueue' \in Seq(Events) /\ stateQueue' \in Seq(Nat)
    BY <1>1, EmptySeq
  <2> QED BY <1>1, <1>4, <2>1, <2>2, <2>3 DEF TypeOK
<1>6. QueueInv' /\ DeliveredInv' /\ NoHoles'
  <2>1. Delivered' = 0 /\ DOMAIN auditQueue' = {} /\ DOMAIN head' = {} /\ Len(auditQueue') = 0 /\ Len(head') = 0
    BY <1>1 DEF Delivered
  <2> QED BY <1>1, <2>1 DEF QueueInv, DeliveredInv, NoHoles
<1>7. FileInv'
  <2>1. DOMAIN auditQueue' = {}
    BY <1>1
  <2>2. CASE KeepsLines
    BY <1>1, <2>1, <2>2 DEF FileInv, KeepsLines
  <2>3. CASE file' = <<>>
    BY <2>3 DEF FileInv
  <2> QED BY <1>2, <2>2, <2>3
<1>8. StoreInv' /\ ErrorInv'
  <2>1. DOMAIN stateQueue' = {}
    BY <1>1
  <2>2. stored' <= state' /\ Null <= stored
    BY <1>1 DEF TypeOK, Null
  <2>3. StoreInv'
    BY <1>1, <2>1, <2>2 DEF StoreInv
  <2> QED BY <1>1, <2>3 DEF ErrorInv
<1>9. \A f \in Flushes : FlushInv(f)'
  BY <1>3 DEF FlushInv
<1> QED BY <1>5, <1>6, <1>7, <1>8, <1>9

LEMMA StutterStep == Inv /\ UNCHANGED vars => Inv'
<1> SUFFICES ASSUME Inv, UNCHANGED vars PROVE Inv'
  OBVIOUS
<1>1. /\ UNCHANGED <<sink, store, evaluations, state, head, auditCount, auditQueue, writing, broken, file,
                     auditError, glued, stateQueue, tmp, stored, stateError, flush, committed, refused, reported>>
      /\ Delivered' = Delivered /\ Lines' = Lines
  BY DEF vars, env, logVars, auditVars, storeVars, history, Delivered, Lines
<1>2. TypeOK'
  BY <1>1 DEF Inv, TypeOK
<1>3. QueueInv' /\ FileInv' /\ DeliveredInv' /\ NoHoles'
  BY <1>1 DEF Inv, QueueInv, FileInv, DeliveredInv, NoHoles
<1>4. StoreInv' /\ ErrorInv'
  BY <1>1 DEF Inv, StoreInv, ErrorInv
<1>5. \A f \in Flushes : FlushInv(f)'
  BY <1>1 DEF Inv, FlushInv
<1> QED BY <1>2, <1>3, <1>4, <1>5 DEF Inv

LEMMA NextStep == Inv /\ [Next]_vars => Inv'
<1> SUFFICES ASSUME Inv, [Next]_vars PROVE Inv'
  OBVIOUS
<1>1. ASSUME NEW decision \in {"invalid", "INTERNAL_ERROR", "DENY", "ALLOW"}, Evaluate(decision) PROVE Inv'
  BY <1>1, EvaluateStep DEF Decisions
<1>2. CASE Deliver
  BY <1>2, DeliverStep
<1>3. CASE Store
  BY <1>3, StoreStep
<1>4. ASSUME NEW f \in Flushes, flushAudit(f) \/ flushState(f) \/ Flush(f) PROVE Inv'
  BY <1>4, FlushBeginsStep, FlushStep
<1>5. CASE Crash
  BY <1>5, CrashStep
<1>6. CASE UNCHANGED vars
  BY <1>6, StutterStep
<1> QED BY <1>1, <1>2, <1>3, <1>4, <1>5, <1>6 DEF Next

(***************************************************************************)
(* The inductive invariant: the queue is the end of the log, the file      *)
(* precedes the queue, and what left the queue is written, glued or        *)
(* refused (auditSinkChain, stateStoreChain, FileAuditSink).               *)
(***************************************************************************)
THEOREM TrailHolds == Spec => []Inv
<1> QED BY InitInv, NextStep, PTL DEF Spec

(***************************************************************************)
(* What the sink holds is in the order of emission, without duplicates     *)
(* and, in FileAuditSink, without holes; and no snapshot that waits is     *)
(* older than the stored one.                                              *)
(***************************************************************************)
THEOREM TrailIsInOrder == Spec => []WrittenInOrder
<1>1. Inv => WrittenInOrder
  BY DEF Inv, FileInv, NoHoles, StoreInv, WrittenInOrder
<1> QED BY <1>1, TrailHolds, PTL

(***************************************************************************)
(* A flush that returns has lost nothing in silence: what was emitted or   *)
(* committed before it began was written, glued to part of a line, or its  *)
(* loss was thrown to some flush (flushAudit, flushState).                 *)
(***************************************************************************)
THEOREM TrailLosesNothingSilently == Spec => []NoSilentLoss
<1>1. Inv => NoSilentLoss
  BY DEF Inv, TypeOK, FlushRecord, NoSilentLoss
<1> QED BY <1>1, TrailHolds, PTL

----------------------------------------------------------------------------
(***************************************************************************)
(* The release orchestrator.                                               *)
(***************************************************************************)

(***************************************************************************)
(* The shapes of what the state holds.                                     *)
(***************************************************************************)
Tarballs == [rev : 0..MaxRev, clean : BOOLEAN, dir : 0..MaxDirs]
Optional(S) == {None} \cup S

Phases == { "PACKED", "VERIFIED_LOCAL", "PUBLISHING_NEXT", "PUBLISHED_NEXT", "PARTIAL_NEXT",
            "REGISTRY_VERIFIED", "EXTERNAL_INSTALL_VERIFIED", "READY_TO_PROMOTE",
            "PROMOTING_LATEST", "PROMOTED", "REMOVING_NEXT", "FINALIZED" }

Entries == [ status : {"pending", "published"}, integrity : Optional(Tarballs),
             registryVerified : BOOLEAN, externalInstallVerified : BOOLEAN,
             latestVerified : BOOLEAN, nextRemoved : BOOLEAN ]

States == [ phase : Phases, packages : [Pkgs -> Entries], blocker : 0..N, attempt : 0..N,
            finalizationBlocker : 0..N ]

Receipts == [rev : 1..MaxRev, selected : BOOLEAN]
Plans == [rev : 1..MaxRev, selected : BOOLEAN, bytes : [Pkgs -> Optional(Tarballs)]]
Packing == [bytes : [Pkgs -> Optional(Tarballs)]]

Evidence ==
  [ receipt : Optional(Receipts), tarballDir : BOOLEAN, tarballs : [Pkgs -> Optional(Tarballs)],
    manifest : Optional(Plans), state : Optional(States) ]

Registry ==
  [ version : [Pkgs -> Optional(Tarballs)], accepted : [Pkgs -> Optional(Tarballs)],
    latest : [Pkgs -> {"old", "none", "foreign", "ours"}],
    next : [Pkgs -> {"none", "foreign", "ours"}],
    late : SUBSET ({"latest", "next"} \X Pkgs), rights : SUBSET Pkgs ]

Publishing == {"observe", "publish", "published"}
Tagging == {"tag", "reobserve"}
Ops == {"idle", "pack", "packState"} \cup Publishing \cup Tagging

ReleaseTypeInv ==
  /\ checkout \in [rev : 1..MaxRev, clean : BOOLEAN]
  /\ defects \in [1..MaxRev -> Defects \cup {"none"}]
  /\ dir \in 1..MaxDirs
  /\ disk \in [1..MaxDirs -> Evidence]
  /\ mem \in {None} \cup Packing \cup States
  /\ pc \in [op : Ops, p : 0..(N + 1), ok : BOOLEAN]
  /\ npm \in Registry

(***************************************************************************)
(* Where the bytes come from.  A tarball names the directory it was packed *)
(* in, and a directory that has not been reached yet is empty.             *)
(***************************************************************************)
ManifestInv(d) ==
  LET m == disk[d].manifest
  IN /\ m.rev <= checkout.rev
     /\ validatePublishOrder /\ assertSelectionDependencies(m.selected)
     /\ \A p \in Pkgs :
          /\ m.bytes[p] # None /\ m.bytes[p].dir = d
          /\ disk[d].tarballs[p] \in {m.bytes[p], Damaged}
          /\ d \notin restored => m.bytes[p] = [rev |-> m.rev, clean |-> TRUE, dir |-> d]

OriginInv ==
  \A d \in 1..MaxDirs :
    /\ d > dir => disk[d] = NoEvidence
    /\ disk[d].receipt # None =>
         /\ disk[d].receipt.rev <= checkout.rev
         /\ validatePublishOrder /\ assertSelectionDependencies(disk[d].receipt.selected)
    /\ disk[d].manifest # None => ManifestInv(d)
    /\ disk[d].state # None => disk[d].manifest # None

\* A pack in progress.  As long as the tree is the one of the receipt, and no
\* edited tree was put back, what was packed so far is of that revision.
PackInv ==
  pc.op = "pack" =>
    /\ mem \in Packing /\ pc.p \in 1..(N + 1)
    /\ Here.receipt # None /\ manifest = None /\ Here.state = None
    /\ \A p \in Pkgs : p < pc.p =>
         /\ mem.bytes[p] # None /\ mem.bytes[p].dir = dir
         /\ Here.tarballs[p] \in {mem.bytes[p], Damaged}
         /\ dir \notin restored /\ checkout = [rev |-> Here.receipt.rev, clean |-> TRUE] =>
              mem.bytes[p] = [rev |-> Here.receipt.rev, clean |-> TRUE, dir |-> dir]

\* What the memory holds at each cut.
StageInv ==
  /\ pc.op = "idle" => mem \notin Packing
  /\ pc.op = "packState" => mem = None /\ manifest # None /\ Here.state = None
  /\ pc.op \in Publishing \cup Tagging =>
       /\ mem \in States /\ pc.p \in publicationPackages(manifest)
       /\ validateState(manifest, mem)
  /\ mem \in States =>
       /\ Here.state # None
       /\ mem.phase = Here.state.phase
       /\ mem.attempt = Here.state.attempt
       /\ mem.finalizationBlocker = Here.state.finalizationBlocker
       /\ \A p \in Pkgs : mem.packages[p].latestVerified <=> Here.state.packages[p].latestVerified

(***************************************************************************)
(* The registry and the states.  A version never changes once it is taken, *)
(* so what an entry of a state says of it stays true.                      *)
(***************************************************************************)
Taken(p) == npm.version[p] # None \/ npm.accepted[p] # None

Supplied(d, p) ==
  IF disk[d].manifest.selected THEN npm.version[p] = disk[d].manifest.bytes[p] ELSE Taken(p)

RegistryInv ==
  \A p \in Pkgs :
    /\ npm.accepted[p] # None => npm.version[p] = None
    /\ \A d \in 1..MaxDirs : \A b \in {npm.version[p], npm.accepted[p]} \ {None} : b.dir = d =>
         /\ disk[d].manifest # None
         /\ b = disk[d].manifest.bytes[p] /\ p \in publicationPackages(disk[d].manifest) =>
              \A q \in DependsOn[p] : Supplied(d, q)

EntryInv(d, s) ==
  /\ s.phase # "PACKED" => defects[disk[d].manifest.rev] = "none"
  /\ \A p \in Pkgs :
       LET e == s.packages[p]
       IN /\ e.integrity # None => e.integrity = disk[d].manifest.bytes[p] /\ Supplied(d, p)
          /\ e.registryVerified => npm.version[p] = disk[d].manifest.bytes[p]

StatesInv ==
  /\ \A d \in Manifests : disk[d].state # None => EntryInv(d, disk[d].state)
  /\ mem \in States => EntryInv(dir, mem)

\* The operation in progress is one whose predecessors are published, and an
\* answer that is not an error comes with a version taken.
PublishReady(s, at) ==
  /\ s.phase = "PUBLISHING_NEXT"
  /\ \A q \in Predecessors(at.p) : s.packages[q].integrity = manifest.bytes[q]
  /\ at.op = "published" /\ at.ok => Taken(at.p)

\* An effect on a tag is preceded by its record.
TagReady(s, at) ==
  /\ s.phase \in {"PROMOTING_LATEST", "REMOVING_NEXT"}
  /\ s.attempt = at.p /\ s.finalizationBlocker \in {0, at.p}
  /\ allPackagesReady(manifest, s)

OperationInv ==
  /\ pc.op \in Publishing => PublishReady(mem, pc)
  /\ pc.op \in Tagging => TagReady(mem, pc)

OneBuild(d) ==
  /\ defects[disk[d].manifest.rev] = "none"
  /\ \A q \in publicationPackages(disk[d].manifest) : npm.version[q] = disk[d].manifest.bytes[q]

OnRecord(d, p) ==
  /\ disk[d].state # None
  /\ \/ disk[d].state.packages[p].latestVerified
     \/ p \in {disk[d].state.attempt, disk[d].state.finalizationBlocker}

LatestInv ==
  \A p \in Pkgs : npm.latest[p] = "ours" \/ <<"latest", p>> \in npm.late =>
    /\ \E d \in Manifests : p \in publicationPackages(disk[d].manifest) /\ OneBuild(d)
    /\ \E d \in Manifests : OnRecord(d, p)

ValidInv ==
  \A d \in Manifests : disk[d].state # None => validateState(disk[d].manifest, disk[d].state)

ReleaseInv ==
  /\ ReleaseTypeInv /\ OriginInv /\ PackInv /\ StageInv
  /\ RegistryInv /\ StatesInv /\ OperationInv /\ LatestInv /\ ValidInv

----------------------------------------------------------------------------
(* Shapes. *)

LEMMA NoneIsNoRecord ==
  /\ None \notin Tarballs /\ None \notin Receipts /\ None \notin Plans
  /\ None \notin Packing /\ None \notin States
  /\ \A m \in Packing : m \notin States
<1> DEFINE D(x) == DOMAIN x
<1>1. D(None) = {"none"}
  BY DEF None
<1>2. \A b \in Tarballs : D(b) = {"rev", "clean", "dir"}
  BY DEF Tarballs
<1>3. \A b \in Receipts : D(b) = {"rev", "selected"}
  BY DEF Receipts
<1>4. \A b \in Plans : D(b) = {"rev", "selected", "bytes"}
  BY DEF Plans
<1>5. \A b \in Packing : D(b) = {"bytes"}
  BY DEF Packing
<1>6. \A b \in States : D(b) = {"phase", "packages", "blocker", "attempt", "finalizationBlocker"}
  BY DEF States
<1> HIDE DEF D
<1> QED BY <1>1, <1>2, <1>3, <1>4, <1>5, <1>6

LEMMA Constants ==
  /\ N \in Nat \ {0} /\ MaxRev \in Nat \ {0} /\ MaxDirs \in Nat \ {0}
  /\ Pkgs = 1..N /\ F2 \subseteq Pkgs /\ DependsOn \in [Pkgs -> SUBSET Pkgs]
  /\ \A m : publicationPackages(m) \subseteq Pkgs
BY ReleaseConfig DEF ReleaseConfig, Pkgs, publicationPackages

LEMMA EntryShapes ==
  /\ Pending \in Entries /\ Pending.integrity = None /\ Pending.status = "pending"
  /\ ~Pending.registryVerified /\ ~Pending.externalInstallVerified
  /\ ~Pending.latestVerified /\ ~Pending.nextRemoved
  /\ \A b \in Tarballs :
       LET e == Published(b)
       IN /\ e \in Entries /\ e.integrity = b /\ e.status = "published"
          /\ ~e.registryVerified /\ ~e.externalInstallVerified
          /\ ~e.latestVerified /\ ~e.nextRemoved
BY DEF Pending, Published, Entries, Optional

LEMMA EmptyDirectory ==
  /\ NoEvidence \in Evidence
  /\ NoEvidence.receipt = None /\ NoEvidence.manifest = None /\ NoEvidence.state = None
  /\ NoEvidence.tarballDir = FALSE /\ \A p \in Pkgs : NoEvidence.tarballs[p] = None
BY DEF NoEvidence, Evidence, Optional

\* The state saved in the directory in use, or not.
LEMMA StateWritten ==
  ASSUME ReleaseTypeInv, NEW s \in States, disk' \in {disk, [disk EXCEPT ![dir].state = s]}
  PROVE  /\ disk' \in [1..MaxDirs -> Evidence]
         /\ \A d \in 1..MaxDirs :
              /\ disk'[d].receipt = disk[d].receipt /\ disk'[d].tarballDir = disk[d].tarballDir
              /\ disk'[d].tarballs = disk[d].tarballs /\ disk'[d].manifest = disk[d].manifest
              /\ d # dir => disk'[d] = disk[d]
         /\ disk'[dir].state \in {s, disk[dir].state}
         /\ disk' = [disk EXCEPT ![dir].state = s] => disk'[dir].state = s
<1>1. disk[dir] \in Evidence /\ disk \in [1..MaxDirs -> Evidence] /\ dir \in 1..MaxDirs
  BY DEF ReleaseTypeInv
<1>2. CASE disk' = disk
  <2>1. disk = [disk EXCEPT ![dir].state = s] => disk[dir].state = s
    BY <1>1 DEF Evidence
  <2> QED BY <1>1, <1>2, <2>1
<1>3. CASE disk' = [disk EXCEPT ![dir].state = s]
  <2> DEFINE e == [disk[dir] EXCEPT !.state = s]
  <2>1. e \in Evidence /\ e.receipt = disk[dir].receipt /\ e.tarballDir = disk[dir].tarballDir
        /\ e.tarballs = disk[dir].tarballs /\ e.manifest = disk[dir].manifest /\ e.state = s
    BY <1>1 DEF Evidence, Optional
  <2>2. disk' = [disk EXCEPT ![dir] = e]
    BY <1>3
  <2> HIDE DEF e
  <2> QED BY <1>1, <2>1, <2>2
<1> QED BY <1>2, <1>3

----------------------------------------------------------------------------
(* Saving a state. *)

\* What a state must be to be saved, and what must hold for the step that
\* follows.
Savable(s, next) ==
  /\ validateState(manifest, s) /\ EntryInv(dir, s)
  /\ \A p \in Pkgs : OnRecord(dir, p) =>
       s.packages[p].latestVerified \/ p \in {s.attempt, s.finalizationBlocker}
  /\ \/ next = Idle
     \/ /\ next.op \in Publishing \cup Tagging /\ next.p \in publicationPackages(manifest)
        /\ next.op \in Publishing => PublishReady(s, next)
        /\ next.op \in Tagging => TagReady(s, next)

Cuts == [op : Ops, p : 0..(N + 1), ok : BOOLEAN]

LEMMA SaveStep ==
  ASSUME ReleaseInv, UNCHANGED Env, manifest # None, NEW s \in States, NEW next \in Cuts,
         saveState(s, next), Savable(s, next)
  PROVE  ReleaseInv'
<1> USE DEF Env
<1>1. PICK ok \in BOOLEAN :
        /\ writeJsonAtomic([disk EXCEPT ![dir].state = s], ok)
        /\ mem' = IF ok THEN s ELSE None
        /\ pc' = IF ok THEN next ELSE Idle
  BY DEF saveState
<1>2. disk' \in {disk, [disk EXCEPT ![dir].state = s]} /\ (ok => disk' = [disk EXCEPT ![dir].state = s])
  BY <1>1 DEF writeJsonAtomic
<1>3. /\ disk' \in [1..MaxDirs -> Evidence]
      /\ \A d \in 1..MaxDirs :
           /\ disk'[d].receipt = disk[d].receipt /\ disk'[d].tarballDir = disk[d].tarballDir
           /\ disk'[d].tarballs = disk[d].tarballs /\ disk'[d].manifest = disk[d].manifest
           /\ d # dir => disk'[d] = disk[d]
      /\ disk'[dir].state \in {s, disk[dir].state}
      /\ ok => disk'[dir].state = s
  BY <1>2, StateWritten DEF ReleaseInv
<1>4. dir' = dir /\ dir \in 1..MaxDirs /\ disk[dir].manifest # None /\ Manifests' = Manifests
  BY <1>3 DEF ReleaseInv, ReleaseTypeInv, manifest, Here, Manifests
<1>5. Idle \in Cuts /\ Idle.op = "idle"
  BY Constants DEF Idle, Cuts, Ops
<1>6. ReleaseTypeInv'
  BY <1>1, <1>3, <1>5 DEF ReleaseInv, ReleaseTypeInv, Cuts
<1>7. OriginInv'
  <2> SUFFICES ASSUME NEW d \in 1..MaxDirs
      PROVE  /\ d > dir => disk'[d] = NoEvidence
             /\ disk'[d].receipt # None =>
                  /\ disk'[d].receipt.rev <= checkout.rev
                  /\ validatePublishOrder /\ assertSelectionDependencies(disk'[d].receipt.selected)
             /\ disk'[d].manifest # None => ManifestInv(d)'
             /\ disk'[d].state # None => disk'[d].manifest # None
    BY <1>4 DEF OriginInv
  <2>1. d > dir => d # dir
    BY <1>4
  <2>2. ManifestInv(d) => ManifestInv(d)'
    BY <1>3 DEF ManifestInv
  <2> QED BY <1>3, <1>4, <2>1, <2>2 DEF ReleaseInv, OriginInv
<1>8. pc'.op = "idle" \/ pc'.op \in Publishing \cup Tagging
  BY <1>1, <1>5 DEF Savable
<1>9. PackInv' /\ (pc'.op # "packState")
  BY <1>8 DEF PackInv, Publishing, Tagging
<1>10. manifest' = manifest
  BY <1>3, <1>4 DEF manifest, Here
<1>11. StageInv'
  <2>1. mem' \notin Packing
    BY <1>1, NoneIsNoRecord
  <2>2. pc'.op \in Publishing \cup Tagging =>
           mem' \in States /\ pc'.p \in publicationPackages(manifest') /\ validateState(manifest', mem')
    <3>1. CASE ok
      BY <3>1, <1>1, <1>10 DEF Savable, Idle, Publishing, Tagging
    <3>2. CASE ~ok
      BY <3>2, <1>1, <1>5 DEF Publishing, Tagging
    <3> QED BY <3>1, <3>2
  <2>3. mem' \in States => mem' = s /\ disk'[dir].state = s
    BY <1>1, <1>3, NoneIsNoRecord
  <2>4. s # None
    BY NoneIsNoRecord
  <2> QED BY <1>4, <1>9, <2>1, <2>2, <2>3, <2>4 DEF StageInv, Here
<1>12. \A d \in 1..MaxDirs, p \in Pkgs : Supplied(d, p)' = Supplied(d, p)
  BY <1>3 DEF Supplied, Taken
<1>13. RegistryInv'
  <2> SUFFICES ASSUME NEW p \in Pkgs, NEW d \in 1..MaxDirs,
                      NEW b \in {npm.version[p], npm.accepted[p]} \ {None}, b.dir = d
      PROVE  /\ disk'[d].manifest # None
             /\ b = disk'[d].manifest.bytes[p] /\ p \in publicationPackages(disk'[d].manifest) =>
                  \A q \in DependsOn[p] : Supplied(d, q)'
    BY DEF ReleaseInv, RegistryInv
  <2>1. /\ disk[d].manifest # None
        /\ b = disk[d].manifest.bytes[p] /\ p \in publicationPackages(disk[d].manifest) =>
             \A q \in DependsOn[p] : Supplied(d, q)
    BY DEF ReleaseInv, RegistryInv
  <2> QED BY <1>3, <1>12, <2>1, Constants
<1>14. \A d \in 1..MaxDirs : \A t \in States : EntryInv(d, t) => EntryInv(d, t)'
  BY <1>3, <1>12 DEF EntryInv
<1>15. StatesInv'
  <2>1. mem' \in States => mem' = s
    BY <1>1, NoneIsNoRecord
  <2>2. mem' \in States => EntryInv(dir, mem)'
    <3>1. EntryInv(dir, s)'
      BY <1>4, <1>14 DEF Savable
    <3> QED BY <1>4, <2>1, <3>1 DEF EntryInv
  <2>3. ASSUME NEW d \in Manifests, disk'[d].state # None
        PROVE  EntryInv(d, disk[d].state)'
    <3>1. PICK t : t = disk'[d].state
      OBVIOUS
    <3>2. d \in 1..MaxDirs /\ t \in States
      BY <2>3, <1>3, <3>1 DEF Manifests, Evidence, Optional
    <3>3. t = disk[d].state \/ (d = dir /\ t = s)
      BY <1>3, <3>1, <3>2
    <3>4. EntryInv(d, t)
      BY <2>3, <3>1, <3>3 DEF ReleaseInv, StatesInv, Savable
    <3>5. EntryInv(d, t)'
      BY <3>2, <3>4, <1>14
    <3> QED BY <3>1, <3>5 DEF EntryInv
  <2> QED BY <1>4, <2>2, <2>3 DEF StatesInv
<1>16. OperationInv'
  <2>1. CASE pc' = Idle
    BY <2>1 DEF Idle, OperationInv, Publishing, Tagging
  <2>2. CASE pc' # Idle
    <3>1. ok /\ pc' = next /\ mem' = s /\ next # Idle
      BY <2>2, <1>1
    <3>2. \A q : Predecessors(q)' = Predecessors(q)
      BY <1>10 DEF Predecessors
    <3>3. next.op \in Publishing => PublishReady(s, next)'
      BY <3>1, <3>2, <1>10 DEF Savable, PublishReady, Taken
    <3>4. next.op \in Tagging => TagReady(s, next)'
      BY <3>1, <1>10 DEF Savable, TagReady
    <3> QED BY <3>1, <3>3, <3>4 DEF OperationInv
  <2> QED BY <2>1, <2>2
<1>17. LatestInv'
  <2>1. \A d \in Manifests : OneBuild(d) => OneBuild(d)'
    BY <1>3 DEF OneBuild, Manifests
  <2>2. ASSUME NEW d \in Manifests, NEW p \in Pkgs, OnRecord(d, p)
        PROVE  OnRecord(d, p)'
    <3>1. CASE disk'[d].state = disk[d].state
      BY <2>2, <3>1 DEF OnRecord
    <3>2. CASE d = dir /\ disk'[d].state = s
      BY <2>2, <3>2, NoneIsNoRecord DEF OnRecord, Savable
    <3>3. d \in 1..MaxDirs
      BY DEF Manifests
    <3> QED BY <3>1, <3>2, <3>3, <1>3
  <2> QED BY <1>3, <1>4, <2>1, <2>2 DEF ReleaseInv, LatestInv, Manifests
<1>18. ValidInv'
  <2> SUFFICES ASSUME NEW d \in Manifests, disk'[d].state # None
      PROVE  validateState(disk'[d].manifest, disk'[d].state)
    BY <1>4 DEF ValidInv
  <2>1. d \in 1..MaxDirs
    BY DEF Manifests
  <2>2. disk'[d].state = disk[d].state \/ (d = dir /\ disk'[d].state = s)
    BY <1>3, <2>1
  <2>3. disk'[d].manifest = disk[d].manifest
    BY <1>3, <2>1
  <2>4. validateState(disk[d].manifest, disk'[d].state)
    BY <2>2 DEF ReleaseInv, ValidInv, Savable, manifest, Here
  <2> QED BY <2>3, <2>4
<1> QED BY <1>6, <1>7, <1>9, <1>11, <1>13, <1>15, <1>16, <1>17, <1>18 DEF ReleaseInv

(***************************************************************************)
(* A step of the memory alone, and a step of the registry alone.           *)
(***************************************************************************)
LEMMA MemoryStep ==
  ASSUME ReleaseInv, UNCHANGED <<checkout, defects, dir, disk, npm, restored>>,
         mem' \in {None} \cup States, pc' \in Cuts, pc'.op \notin {"pack", "packState"},
         StageInv', OperationInv', mem' \in States => EntryInv(dir, mem)'
  PROVE  ReleaseInv'
<1>1. ReleaseTypeInv'
  BY DEF ReleaseInv, ReleaseTypeInv, Cuts
<1>2. OriginInv' /\ RegistryInv' /\ ValidInv'
  BY DEF ReleaseInv, OriginInv, ManifestInv, RegistryInv, Supplied, Taken, ValidInv, Manifests
<1>3. \A d \in Manifests : disk[d].state # None => EntryInv(d, disk[d].state)'
  BY DEF ReleaseInv, StatesInv, EntryInv, Supplied, Taken
<1>4. Manifests' = Manifests
  BY DEF Manifests
<1>5. StatesInv'
  BY <1>3, <1>4 DEF StatesInv
<1>6. LatestInv'
  BY <1>4 DEF ReleaseInv, LatestInv, OneBuild, OnRecord
<1>7. PackInv'
  BY DEF PackInv
<1> QED BY <1>1, <1>2, <1>5, <1>6, <1>7 DEF ReleaseInv

\* A version, once taken, stays; so does everything said of it.
LEMMA RegistryStep ==
  ASSUME ReleaseInv, UNCHANGED <<checkout, defects, dir, disk, mem, restored>>,
         npm' \in Registry,
         \A p \in Pkgs : npm.version[p] # None => npm'.version[p] = npm.version[p],
         \A p \in Pkgs : Taken(p) => Taken(p)'
  PROVE  /\ OriginInv' /\ StatesInv' /\ ValidInv' /\ Manifests' = Manifests
         /\ \A d \in Manifests, p \in Pkgs : Supplied(d, p) => Supplied(d, p)'
         /\ \A d \in Manifests : OneBuild(d) => OneBuild(d)'
         /\ \A d \in Manifests, p \in Pkgs : OnRecord(d, p) => OnRecord(d, p)'
<1>1. OriginInv' /\ ValidInv' /\ Manifests' = Manifests
  BY DEF ReleaseInv, OriginInv, ManifestInv, ValidInv, Manifests
<1>2. ASSUME NEW d \in Manifests, NEW p \in Pkgs
      PROVE  disk[d].manifest.bytes[p] # None
  BY DEF ReleaseInv, OriginInv, ManifestInv, Manifests
<1>3. ASSUME NEW d \in Manifests, NEW p \in Pkgs, Supplied(d, p)
      PROVE  Supplied(d, p)'
  BY <1>2, <1>3 DEF Supplied
<1>4. ASSUME NEW d \in Manifests, NEW s, EntryInv(d, s)
      PROVE  EntryInv(d, s)'
  BY <1>2, <1>3, <1>4 DEF EntryInv
<1>5. mem \in States => dir \in Manifests
  BY NoneIsNoRecord DEF ReleaseInv, StageInv, OriginInv, ReleaseTypeInv, Manifests, Here
<1>6. mem \in States => EntryInv(dir, mem)'
  <2>1. PICK s : s = mem
    OBVIOUS
  <2>2. mem \in States => EntryInv(dir, s)'
    BY <1>4, <1>5, <2>1 DEF ReleaseInv, StatesInv
  <2> QED BY <2>1, <2>2 DEF EntryInv
<1>7. ASSUME NEW d \in Manifests, disk[d].state # None
      PROVE  EntryInv(d, disk[d].state)'
  <2>1. PICK s : s = disk[d].state
    OBVIOUS
  <2>2. EntryInv(d, s)'
    BY <1>4, <1>7, <2>1 DEF ReleaseInv, StatesInv
  <2> QED BY <2>1, <2>2 DEF EntryInv
<1>8. StatesInv'
  BY <1>1, <1>6, <1>7 DEF StatesInv
<1>9. \A d \in Manifests : OneBuild(d) => OneBuild(d)'
  BY <1>2, Constants DEF OneBuild
<1>10. \A d \in Manifests, p \in Pkgs : OnRecord(d, p) => OnRecord(d, p)'
  BY DEF OnRecord
<1> QED BY <1>1, <1>3, <1>8, <1>9, <1>10

----------------------------------------------------------------------------
(* The operations. *)

LEMMA OperatorDiesStep == ASSUME ReleaseInv, OperatorDies PROVE ReleaseInv'
<1> USE DEF Env
<1>1. mem' = None /\ pc' = Idle /\ Idle \in Cuts /\ Idle.op = "idle"
  BY Constants DEF OperatorDies, Idle, Cuts, Ops
<1>2. StageInv' /\ OperationInv'
  BY <1>1, NoneIsNoRecord DEF StageInv, OperationInv, Publishing, Tagging
<1> QED BY <1>1, <1>2, MemoryStep, NoneIsNoRecord DEF OperatorDies

LEMMA LoadStep == ASSUME ReleaseInv, loadValidatedState PROVE ReleaseInv'
<1> USE DEF Env
<1>1. /\ pc' = Idle /\ Idle \in Cuts /\ Idle.op = "idle"
      /\ mem' = disk[dir].state /\ disk[dir].state \in States /\ dir \in Manifests
  BY Constants DEF loadValidatedState, Here, manifest, Idle, Cuts, Ops, ReleaseInv, ReleaseTypeInv, Evidence, Optional, Manifests
<1>2. StageInv' /\ OperationInv'
  BY <1>1, NoneIsNoRecord DEF loadValidatedState, Here, StageInv, OperationInv, Publishing, Tagging
<1>3. EntryInv(dir, disk[dir].state)
  BY <1>1, NoneIsNoRecord DEF ReleaseInv, StatesInv
<1>4. EntryInv(dir, mem)'
  BY <1>1, <1>3 DEF loadValidatedState, EntryInv, Supplied, Taken
<1> QED BY <1>1, <1>2, <1>4, MemoryStep DEF loadValidatedState

(***************************************************************************)
(* Before the promotion a state has no verified tag and no attempt.        *)
(***************************************************************************)
Promotion == {"PROMOTING_LATEST", "PROMOTED", "REMOVING_NEXT", "FINALIZED"}

Early(s) ==
  /\ s.phase \notin Promotion /\ s.attempt = 0 /\ s.finalizationBlocker = 0
  /\ \A p \in Pkgs : ~s.packages[p].latestVerified /\ ~s.packages[p].nextRemoved

Selective(m, s) == \A p \in Pkgs \ publicationPackages(m) : m.selected => s.packages[p] = Pending

LEMMA EarlyStates ==
  ASSUME NEW m, NEW s \in States, s.phase \notin Promotion
  PROVE  validateState(m, s) <=> Early(s) /\ Selective(m, s)
<1>1. ASSUME validateState(m, s)
      PROVE  Early(s) /\ Selective(m, s)
  <2>1. \A p \in Pkgs : ~s.packages[p].latestVerified /\ ~s.packages[p].nextRemoved
    BY <1>1 DEF validateState, assertFinalizationState, Promotion
  <2>2. s.attempt = 0 /\ s.finalizationBlocker = 0
    BY <1>1 DEF validateState, assertFinalizationState, Promotion
  <2> QED BY <1>1, <2>1, <2>2 DEF Early, Selective, validateState
<1>2. ASSUME Early(s), Selective(m, s)
      PROVE  validateState(m, s)
  <2>1. assertFinalizationState(m, s)
    BY <1>2 DEF Early, Promotion, assertFinalizationState
  <2> QED BY <1>2, <2>1 DEF validateState, Selective
<1> QED BY <1>1, <1>2

LEMMA HereFacts ==
  ASSUME ReleaseInv, manifest # None
  PROVE  /\ dir \in Manifests /\ dir \in 1..MaxDirs /\ manifest = disk[dir].manifest
         /\ manifest \in Plans /\ publicationPackages(manifest) \subseteq Pkgs
         /\ \A p \in Pkgs : manifest.bytes[p] \in Tarballs /\ manifest.bytes[p].dir = dir
         /\ \A p \in publicationPackages(manifest) : DependsOn[p] \subseteq Predecessors(p)
<1>1. dir \in 1..MaxDirs /\ disk[dir] \in Evidence
  BY DEF ReleaseInv, ReleaseTypeInv
<1>2. manifest \in Plans /\ dir \in Manifests /\ manifest = disk[dir].manifest
  BY <1>1 DEF Evidence, Optional, manifest, Here, Manifests
<1>3. /\ \A p \in Pkgs : manifest.bytes[p] # None /\ manifest.bytes[p].dir = dir
      /\ validatePublishOrder /\ assertSelectionDependencies(manifest.selected)
  BY <1>1, <1>2 DEF ReleaseInv, OriginInv, ManifestInv
<1>4. \A p \in Pkgs : manifest.bytes[p] \in Tarballs
  BY <1>2, <1>3 DEF Plans, Optional
<1>5. ASSUME NEW p \in publicationPackages(manifest), NEW q \in DependsOn[p]
      PROVE  q \in Predecessors(p)
  <2>1. p \in Pkgs /\ q \in Pkgs /\ q < p
    BY <1>3, Constants DEF validatePublishOrder
  <2>2. q \in publicationPackages(manifest)
    BY <1>3, <2>1 DEF publicationPackages, assertSelectionDependencies
  <2> QED BY <2>1, <2>2 DEF Predecessors
<1> QED BY <1>1, <1>2, <1>3, <1>4, <1>5, Constants

LEMMA InMemory ==
  ASSUME ReleaseInv, mem \in States
  PROVE  /\ dir \in Manifests /\ dir \in 1..MaxDirs /\ manifest = disk[dir].manifest
         /\ manifest \in Plans /\ manifest # None /\ Here.state # None
         /\ EntryInv(dir, mem) /\ publicationPackages(manifest) \subseteq Pkgs
         /\ \A p \in Pkgs : manifest.bytes[p] \in Tarballs /\ manifest.bytes[p].dir = dir
         /\ \A p \in publicationPackages(manifest) : DependsOn[p] \subseteq Predecessors(p)
         /\ \A p \in Pkgs : OnRecord(dir, p) <=>
              mem.packages[p].latestVerified \/ p \in {mem.attempt, mem.finalizationBlocker}
<1>1. Here.state # None /\ manifest # None
  BY DEF ReleaseInv, ReleaseTypeInv, StageInv, OriginInv, Here, manifest
<1>2. \A p \in Pkgs : OnRecord(dir, p) <=>
        mem.packages[p].latestVerified \/ p \in {mem.attempt, mem.finalizationBlocker}
  BY <1>1 DEF ReleaseInv, StageInv, OnRecord, Here
<1> QED BY <1>1, <1>2, HereFacts DEF ReleaseInv, StatesInv

LEMMA ReadyFacts ==
  ASSUME ReleaseInv, NEW phases, Ready(phases)
  PROVE  /\ mem \in States /\ pc = Idle /\ mem.phase \in phases
         /\ validateState(manifest, mem)
BY DEF Ready, ReleaseInv, ReleaseTypeInv, StageInv, Idle

\* A change of the entries and of the phase, before the promotion.
LEMMA EarlySave ==
  ASSUME ReleaseInv, NEW t \in States, NEW s \in States, NEW next \in Cuts,
         manifest # None, Here.state # None,
         t.phase \notin Promotion, validateState(manifest, t),
         \A p \in Pkgs : ~(OnRecord(dir, p) /\ Early(t)),
         s.phase \notin Promotion, s.attempt = t.attempt,
         s.finalizationBlocker = t.finalizationBlocker,
         \A p \in Pkgs : ~s.packages[p].latestVerified /\ ~s.packages[p].nextRemoved,
         \A p \in Pkgs \ publicationPackages(manifest) : s.packages[p] = t.packages[p],
         EntryInv(dir, s),
         \/ next = Idle
         \/ next.op \in Publishing /\ next.p \in publicationPackages(manifest) /\ PublishReady(s, next)
  PROVE  Savable(s, next)
<1>1. Early(t) /\ Selective(manifest, t)
  BY EarlyStates
<1>2. Early(s) /\ Selective(manifest, s)
  BY <1>1 DEF Early, Selective
<1>3. validateState(manifest, s)
  BY <1>2, EarlyStates
<1>4. \A p \in Pkgs : ~OnRecord(dir, p)
  BY <1>1
<1> QED BY <1>3, <1>4 DEF Savable, Publishing, Tagging

LEMMA Transition ==
  ASSUME NEW s \in States, NEW to \in Phases
  PROVE  /\ transition(s, to) \in States /\ transition(s, to).phase = to
         /\ transition(s, to).packages = s.packages /\ transition(s, to).blocker = s.blocker
         /\ transition(s, to).attempt = s.attempt
         /\ transition(s, to).finalizationBlocker = s.finalizationBlocker
BY DEF transition, States

LEMMA Entry ==
  ASSUME NEW s \in States, NEW p \in Pkgs, NEW e \in Entries
  PROVE  /\ SetEntry(s, p, e) \in States /\ SetEntry(s, p, e).phase = s.phase
         /\ SetEntry(s, p, e).attempt = s.attempt /\ SetEntry(s, p, e).blocker = s.blocker
         /\ SetEntry(s, p, e).finalizationBlocker = s.finalizationBlocker
         /\ \A q \in Pkgs : SetEntry(s, p, e).packages[q] = IF q = p THEN e ELSE s.packages[q]
<1> DEFINE f == [s.packages EXCEPT ![p] = e]
<1>1. f \in [Pkgs -> Entries] /\ \A q \in Pkgs : f[q] = IF q = p THEN e ELSE s.packages[q]
  BY DEF States
<1>2. SetEntry(s, p, e) = [s EXCEPT !.packages = f]
  BY DEF SetEntry
<1> HIDE DEF f
<1> QED BY <1>1, <1>2 DEF States

LEMMA IdleCut == Idle \in Cuts /\ Idle.op = "idle" /\ Idle.p = 0
BY Constants DEF Idle, Cuts, Ops

LEMMA Cut ==
  ASSUME NEW op \in Ops, NEW p \in Pkgs, NEW ok \in BOOLEAN
  PROVE  At(op, p, ok) \in Cuts /\ At(op, p, ok).op = op /\ At(op, p, ok).p = p /\ At(op, p, ok).ok = ok
BY Constants DEF At, Cuts

\* A state before the promotion that is in memory is saved in another phase
\* before the promotion, with new entries for selected packages.
LEMMA EarlyFromMemory ==
  ASSUME ReleaseInv, mem \in States, mem.phase \notin Promotion, validateState(manifest, mem),
         UNCHANGED Env, NEW s \in States, NEW next \in Cuts, saveState(s, next),
         s.phase \notin Promotion, s.attempt = mem.attempt,
         s.finalizationBlocker = mem.finalizationBlocker,
         \A p \in Pkgs : ~s.packages[p].latestVerified /\ ~s.packages[p].nextRemoved,
         \A p \in Pkgs \ publicationPackages(manifest) : s.packages[p] = mem.packages[p],
         EntryInv(dir, s),
         \/ next = Idle
         \/ next.op \in Publishing /\ next.p \in publicationPackages(manifest) /\ PublishReady(s, next)
  PROVE  ReleaseInv'
<1>1. Here.state # None /\ manifest # None
  BY InMemory DEF ReleaseInv, StageInv
<1>2. \A p \in Pkgs : ~(OnRecord(dir, p) /\ Early(mem))
  <2> SUFFICES ASSUME NEW p \in Pkgs, OnRecord(dir, p), Early(mem)
      PROVE  FALSE
    OBVIOUS
  <2>1. mem.packages[p].latestVerified \/ p \in {mem.attempt, mem.finalizationBlocker}
    BY InMemory
  <2> QED BY <2>1, Constants DEF Early
<1>3. PICK t : t = mem
  OBVIOUS
<1>4. Savable(s, next)
  BY <1>1, <1>2, <1>3, EarlySave
<1> QED BY <1>1, <1>4, SaveStep

LEMMA VerifyLocalStep == ASSUME ReleaseInv, verifyLocal PROVE ReleaseInv'
<1> DEFINE s == transition(mem, "VERIFIED_LOCAL")
<1>1. mem \in States /\ mem.phase = "PACKED" /\ validateState(manifest, mem)
  BY ReadyFacts DEF verifyLocal
<1>2. PICK to \in Phases : to = "VERIFIED_LOCAL"
  BY DEF Phases
<1>3. s \in States /\ s.phase = "VERIFIED_LOCAL" /\ s.packages = mem.packages /\ s.attempt = mem.attempt
      /\ s.finalizationBlocker = mem.finalizationBlocker
  BY <1>1, <1>2, Transition
<1>4. saveState(s, Idle) /\ UNCHANGED Env
  BY DEF verifyLocal
<1> HIDE DEF s
<1>5. defects[manifest.rev] = "none"
  <2>1. defects[manifest.rev] \in Defects \cup {"none"}
    BY <1>1, InMemory DEF Plans, ReleaseInv, ReleaseTypeInv
  <2> QED BY <2>1 DEF verifyLocal, verifyPackedTarballs, scanPackedManifest,
        scanShippedRuntimePaths, installConsumer, runSmokeTestsForConsumer, Defects
<1>6. EntryInv(dir, s)
  BY <1>1, <1>3, <1>5, InMemory DEF EntryInv
<1>7. Early(mem)
  BY <1>1, EarlyStates DEF Promotion
<1>8. mem.phase \notin Promotion /\ s.phase \notin Promotion
  BY <1>1, <1>3 DEF Promotion
<1>9. PICK next \in Cuts : next = Idle
  BY IdleCut
<1>10. saveState(s, next)
  BY <1>4, <1>9
<1>11. \A p \in Pkgs : ~s.packages[p].latestVerified /\ ~s.packages[p].nextRemoved
  BY <1>3, <1>7 DEF Early
<1>12. \A p \in Pkgs \ publicationPackages(manifest) : s.packages[p] = mem.packages[p]
  BY <1>3
<1>13. PICK t \in States : t = s
  BY <1>3
<1> QED BY <1>1, <1>3, <1>4, <1>6, <1>8, <1>9, <1>10, <1>11, <1>12, EarlyFromMemory

LEMMA PlanStep == ASSUME ReleaseInv, derivePublicationPlan PROVE ReleaseInv'
<1>1. pc' = pc /\ mem' = mem /\ pc = Idle /\ UNCHANGED <<checkout, defects, dir, disk, npm, restored>>
  BY DEF derivePublicationPlan
<1>2. StageInv' /\ OperationInv'
  BY <1>1, IdleCut DEF ReleaseInv, StageInv, OperationInv, Here, manifest, Publishing, Tagging
<1>3. mem' \in {None} \cup States
  BY <1>1, IdleCut DEF ReleaseInv, ReleaseTypeInv, StageInv
<1>4. mem \in States => EntryInv(dir, mem)'
  BY <1>1 DEF ReleaseInv, StatesInv, EntryInv, Supplied, Taken
<1> QED BY <1>1, <1>2, <1>3, <1>4, MemoryStep, IdleCut

LEMMA PublishPlannedStep == ASSUME ReleaseInv, NEW p \in Pkgs, publishPlannedOperation(p) PROVE ReleaseInv'
<1>1. /\ mem \in States /\ mem.phase \in {"VERIFIED_LOCAL", "PARTIAL_NEXT"}
      /\ validateState(manifest, mem)
  BY ReadyFacts DEF publishPlannedOperation
<1>2. PICK to \in Phases : to = "PUBLISHING_NEXT"
  BY DEF Phases
<1>3. PICK s \in States : s = transition(mem, "PUBLISHING_NEXT")
  BY <1>1, <1>2, Transition
<1>4. s.phase = "PUBLISHING_NEXT" /\ s.packages = mem.packages /\ s.attempt = mem.attempt
      /\ s.finalizationBlocker = mem.finalizationBlocker
  BY <1>1, <1>2, <1>3, Transition
<1>5. PICK next \in Cuts : next = At("observe", p, FALSE)
  BY Cut DEF Ops, Publishing
<1>6. next.op = "observe" /\ next.p = p
  BY <1>5 DEF At
<1>7. saveState(s, next) /\ UNCHANGED Env
  BY <1>3, <1>5 DEF publishPlannedOperation
<1>8. mem.phase \notin Promotion /\ s.phase \notin Promotion
  BY <1>1, <1>4 DEF Promotion
<1>9. \A q \in Pkgs : ~s.packages[q].latestVerified /\ ~s.packages[q].nextRemoved
  BY <1>1, <1>4, <1>8, EarlyStates DEF Early
<1>10. EntryInv(dir, s)
  BY <1>1, <1>4, InMemory DEF EntryInv
<1>11. PublishReady(s, next)
  BY <1>4, <1>6 DEF PublishReady, publishPlannedOperation
<1>12. \A q \in Pkgs \ publicationPackages(manifest) : s.packages[q] = mem.packages[q]
  BY <1>4
<1>13. next.op \in Publishing /\ next.p \in publicationPackages(manifest)
  BY <1>6 DEF publishPlannedOperation, Publishing
<1> QED BY <1>1, <1>4, <1>7, <1>8, <1>9, <1>10, <1>11, <1>12, <1>13, EarlyFromMemory

\* What is known while a publication is under way.
LEMMA Underway ==
  ASSUME ReleaseInv, pc.op \in Publishing
  PROVE  /\ mem \in States /\ mem.phase = "PUBLISHING_NEXT" /\ mem.phase \notin Promotion
         /\ validateState(manifest, mem) /\ pc.p \in publicationPackages(manifest)
         /\ pc.p \in Pkgs /\ Early(mem) /\ EntryInv(dir, mem) /\ PublishReady(mem, pc)
<1>1. mem \in States /\ mem.phase = "PUBLISHING_NEXT" /\ validateState(manifest, mem)
      /\ pc.p \in publicationPackages(manifest) /\ PublishReady(mem, pc)
  BY DEF ReleaseInv, StageInv, OperationInv, PublishReady
<1>2. mem.phase \notin Promotion
  BY <1>1 DEF Promotion
<1> QED BY <1>1, <1>2, EarlyStates, InMemory

LEMMA BlockerStep ==
  ASSUME ReleaseInv, pc.op \in Publishing, UNCHANGED Env, persistPublicationBlocker(pc.p)
  PROVE  ReleaseInv'
<1>1. PICK s : s = [mem EXCEPT !.blocker = pc.p, !.phase = "PARTIAL_NEXT"]
  OBVIOUS
<1>2. pc.p \in 0..N
  BY Underway, Constants
<1>3. s \in States /\ s.phase = "PARTIAL_NEXT" /\ s.packages = mem.packages /\ s.attempt = mem.attempt
      /\ s.finalizationBlocker = mem.finalizationBlocker
  BY <1>1, <1>2, Underway DEF States, Phases
<1>4. PICK next \in Cuts : next = Idle
  BY IdleCut
<1>5. saveState(s, next)
  BY <1>1, <1>4 DEF persistPublicationBlocker
<1>6. s.phase \notin Promotion
  BY <1>3 DEF Promotion
<1>7. \A q \in Pkgs : ~s.packages[q].latestVerified /\ ~s.packages[q].nextRemoved
  BY <1>3, Underway DEF Early
<1>8. EntryInv(dir, s)
  BY <1>3, Underway DEF EntryInv
<1>9. \A q \in Pkgs \ publicationPackages(manifest) : s.packages[q] = mem.packages[q]
  BY <1>3
<1> QED BY <1>3, <1>4, <1>5, <1>6, <1>7, <1>8, <1>9, Underway, EarlyFromMemory

LEMMA RecordStep ==
  ASSUME ReleaseInv, pc.op \in Publishing, UNCHANGED Env, Supplied(dir, pc.p), RecordPublished(pc.p)
  PROVE  ReleaseInv'
<1>1. PICK e : e = Published(manifest.bytes[pc.p])
  OBVIOUS
<1>2. /\ e \in Entries /\ e.integrity = manifest.bytes[pc.p] /\ ~e.registryVerified
      /\ ~e.latestVerified /\ ~e.nextRemoved
  BY <1>1, Underway, InMemory, EntryShapes
<1>3. PICK u : u = SetEntry(mem, pc.p, e)
  OBVIOUS
<1>4. /\ u \in States /\ u.attempt = mem.attempt /\ u.finalizationBlocker = mem.finalizationBlocker
      /\ \A q \in Pkgs : u.packages[q] = IF q = pc.p THEN e ELSE mem.packages[q]
  BY <1>2, <1>3, Underway, Entry
<1>5. PICK t : t = [u EXCEPT !.blocker = 0]
  OBVIOUS
<1>6. t \in States /\ t.packages = u.packages /\ t.attempt = u.attempt
      /\ t.finalizationBlocker = u.finalizationBlocker
  <2>1. u \in States /\ 0 \in 0..N
    BY <1>4, Constants
  <2> QED BY <1>5, <2>1 DEF States
<1>7. PICK to \in {"PUBLISHED_NEXT", "PARTIAL_NEXT"} : saveState(transition(t, to), Idle)
  BY <1>1, <1>3, <1>5 DEF RecordPublished
<1>8. PICK s : s = transition(t, to)
  OBVIOUS
<1>9. /\ s \in States /\ s.phase = to /\ s.attempt = mem.attempt
      /\ s.finalizationBlocker = mem.finalizationBlocker
      /\ \A q \in Pkgs : s.packages[q] = IF q = pc.p THEN e ELSE mem.packages[q]
  BY <1>4, <1>6, <1>7, <1>8, Transition DEF Phases
<1>10. PICK next \in Cuts : next = Idle
  BY IdleCut
<1>11. saveState(s, next)
  BY <1>7, <1>8, <1>10
<1>12. s.phase \notin Promotion
  BY <1>7, <1>9 DEF Promotion
<1>13. \A q \in Pkgs : ~s.packages[q].latestVerified /\ ~s.packages[q].nextRemoved
  BY <1>2, <1>9, Underway DEF Early
<1>14. EntryInv(dir, s)
  BY <1>2, <1>9, Underway, InMemory DEF EntryInv
<1>15. \A q \in Pkgs \ publicationPackages(manifest) : s.packages[q] = mem.packages[q]
  BY <1>9, Underway
<1> QED BY <1>9, <1>10, <1>11, <1>12, <1>13, <1>14, <1>15, Underway, EarlyFromMemory

LEMMA PublishObserveStep == ASSUME ReleaseInv, publishObserve PROVE ReleaseInv'
<1> DEFINE p == pc.p
<1>1. pc.op \in Publishing /\ UNCHANGED Env
  BY DEF publishObserve, Publishing
<1>2. PICK seen \in getRegistryVersion(p) :
        \/ seen = "same" /\ RecordPublished(pc.p)
        \/ seen \in {"undetermined", "conflict"} /\ persistPublicationBlocker(pc.p)
        \/ /\ seen = "missing"
           /\ mem' = SetEntry(mem, pc.p, Pending)
           /\ pc' = At("publish", pc.p, FALSE)
           /\ UNCHANGED <<disk, faults>>
  BY DEF publishObserve
<1>3. CASE seen = "same" /\ RecordPublished(pc.p)
  <2>1. npm.version[p] # None /\ npm.version[p] = manifest.bytes[p]
    BY <1>2, <1>3 DEF getRegistryVersion
  <2>2. Supplied(dir, p)
    BY <2>1, <1>1, Underway, InMemory DEF Supplied, Taken
  <2> QED BY <1>1, <1>3, <2>2, RecordStep
<1>4. CASE persistPublicationBlocker(pc.p)
  BY <1>1, <1>4, BlockerStep
<1>5. CASE /\ mem' = SetEntry(mem, pc.p, Pending)
           /\ pc' = At("publish", pc.p, FALSE)
           /\ UNCHANGED <<disk, faults>>
  <2>1. PICK e \in Entries : e = Pending
    BY EntryShapes
  <2>2. PICK s : s = SetEntry(mem, p, e)
    OBVIOUS
  <2>3. /\ s \in States /\ s.phase = mem.phase /\ s.attempt = mem.attempt
        /\ s.finalizationBlocker = mem.finalizationBlocker
        /\ \A q \in Pkgs : s.packages[q] = IF q = p THEN e ELSE mem.packages[q]
    BY <1>1, <2>2, Underway, Entry
  <2>4. mem' = s /\ UNCHANGED <<checkout, defects, dir, disk, npm, restored>>
    BY <1>1, <1>5, <2>1, <2>2 DEF Env
  <2>5. pc' \in Cuts /\ pc'.op = "publish" /\ pc'.p = p
    <3>1. PICK op \in Ops : op = "publish"
      BY DEF Ops, Publishing
    <3>2. PICK ok \in BOOLEAN : ok = FALSE
      OBVIOUS
    <3>3. pc' = At(op, p, ok)
      BY <1>5, <3>1, <3>2
    <3> QED BY <1>1, <3>1, <3>3, Underway, Cut
  <2>6. Early(s) /\ Selective(manifest, s)
    BY <1>1, <2>1, <2>3, Underway, EarlyStates, EntryShapes DEF Early, Selective
  <2>7. validateState(manifest, s)
    BY <1>1, <2>3, <2>6, Underway, EarlyStates
  <2>8. StageInv'
    <3>1. pc'.op \notin {"idle", "packState"}
      BY <2>5
    <3>2. /\ mem' \in States /\ pc'.p \in publicationPackages(manifest')
          /\ validateState(manifest', mem')
      <4>1. manifest' = manifest
        BY <2>4 DEF manifest, Here
      <4>2. p \in publicationPackages(manifest)
        BY <1>1, Underway
      <4> QED BY <2>3, <2>4, <2>5, <2>7, <4>1, <4>2
    <3>3. \A q \in Pkgs : s.packages[q].latestVerified <=> mem.packages[q].latestVerified
      BY <1>1, <2>6, Underway DEF Early
    <3> QED BY <1>1, <2>3, <2>4, <3>1, <3>2, <3>3, Underway DEF ReleaseInv, StageInv, Here
  <2>9. manifest' = manifest
    BY <2>4 DEF manifest, Here
  <2>10. \A q \in Predecessors(p) : q # p /\ q \in Pkgs
    BY <1>1, Underway, Constants DEF Predecessors
  <2>11. PublishReady(mem, pc)'
    BY <1>1, <2>3, <2>4, <2>5, <2>9, <2>10, Underway DEF PublishReady, Predecessors
  <2>12. OperationInv'
    BY <2>5, <2>11 DEF OperationInv, Publishing, Tagging
  <2>13. EntryInv(dir, mem)'
    BY <1>1, <2>1, <2>3, <2>4, Underway, EntryShapes DEF EntryInv, Supplied, Taken
  <2> QED BY <2>3, <2>4, <2>5, <2>8, <2>12, <2>13, MemoryStep
<1> QED BY <1>2, <1>3, <1>4, <1>5

LEMMA PublishSettleStep == ASSUME ReleaseInv, publishSettle PROVE ReleaseInv'
<1> DEFINE p == pc.p
<1>1. pc.op \in Publishing /\ pc.op = "published" /\ UNCHANGED Env
  BY DEF publishSettle, Publishing
<1>2. CASE ~manifest.selected /\ pc.ok /\ RecordPublished(pc.p)
  <2>1. Supplied(dir, p)
    BY <1>1, <1>2, Underway, InMemory DEF PublishReady, Supplied
  <2> QED BY <1>1, <1>2, <2>1, RecordStep
<1>3. CASE \E seen \in getRegistryVersion(pc.p) :
             IF seen = "same" THEN RecordPublished(pc.p) ELSE persistPublicationBlocker(pc.p)
  <2>1. PICK seen \in getRegistryVersion(pc.p) :
          IF seen = "same" THEN RecordPublished(pc.p) ELSE persistPublicationBlocker(pc.p)
    BY <1>3
  <2>2. CASE seen = "same"
    <3>1. npm.version[p] # None /\ npm.version[p] = manifest.bytes[p]
      BY <2>1, <2>2 DEF getRegistryVersion
    <3>2. Supplied(dir, p)
      BY <3>1, <1>1, Underway, InMemory DEF Supplied, Taken
    <3> QED BY <1>1, <2>1, <2>2, <3>2, RecordStep
  <2>3. CASE seen # "same"
    BY <1>1, <2>1, <2>3, BlockerStep
  <2> QED BY <2>2, <2>3
<1> QED BY <1>2, <1>3 DEF publishSettle

LEMMA PublishCallStep == ASSUME ReleaseInv, publishCall PROVE ReleaseInv'
<1> PICK p, upload : p = pc.p /\ upload = Here.tarballs[p]
  OBVIOUS
<1>1. /\ pc.op = "publish" /\ pc.op \in Publishing
      /\ UNCHANGED <<checkout, defects, dir, disk, mem, restored>>
  BY DEF publishCall, Publishing
<1>2. /\ p \in Pkgs /\ npm \in Registry /\ upload \in Optional(Tarballs)
      /\ upload # None => upload \in {manifest.bytes[p], Damaged}
  <2>1. p \in Pkgs /\ dir \in Manifests /\ manifest = disk[dir].manifest /\ disk[dir] \in Evidence
    BY <1>1, Underway, InMemory DEF ReleaseInv, ReleaseTypeInv, Manifests
  <2>2. upload \in {manifest.bytes[p], Damaged}
    BY <2>1 DEF ReleaseInv, OriginInv, ManifestInv, Here, Manifests
  <2> QED BY <2>1, <2>2 DEF Evidence, Here, ReleaseInv, ReleaseTypeInv
\* The three outcomes.
<1>3. PICK ok \in BOOLEAN :
        /\ pc' = At("published", p, ok)
        /\ npm' \in Registry /\ npm'.latest = npm.latest /\ npm'.late = npm.late
        /\ \A q \in Pkgs : q # p => npm'.version[q] = npm.version[q] /\ npm'.accepted[q] = npm.accepted[q]
        /\ \/ npm'.version[p] = npm.version[p] /\ npm'.accepted[p] = npm.accepted[p] /\ ok = FALSE
           \/ /\ npm.version[p] = None /\ npm.accepted[p] = None /\ upload # None
              /\ \/ npm'.version[p] = upload /\ npm'.accepted[p] = None
                 \/ npm'.version[p] = None /\ npm'.accepted[p] = upload
  <2>1. CASE /\ npm.version[p] = None /\ npm.accepted[p] = None /\ upload # None
             /\ npm' = [npm EXCEPT !.version[p] = upload, !.next[p] = "ours"]
             /\ \E ok \in BOOLEAN : pc' = At("published", p, ok)
    <3> DEFINE v == [npm.version EXCEPT ![p] = upload] n == [npm.next EXCEPT ![p] = "ours"]
    <3>1. /\ v \in [Pkgs -> Optional(Tarballs)] /\ v[p] = upload
          /\ \A q \in Pkgs : q # p => v[q] = npm.version[q]
      BY <1>2 DEF Registry
    <3>2. n \in [Pkgs -> {"none", "foreign", "ours"}]
      BY <1>2 DEF Registry
    <3>3. npm' = [npm EXCEPT !.version = v, !.next = n]
      BY <2>1
    <3> HIDE DEF v, n
    <3>4. npm' \in Registry /\ npm'.version = v /\ npm'.accepted = npm.accepted
          /\ npm'.latest = npm.latest /\ npm'.late = npm.late
      BY <1>2, <3>1, <3>2, <3>3 DEF Registry
    <3> QED BY <2>1, <3>1, <3>4
  <2>2. CASE /\ npm.version[p] = None /\ npm.accepted[p] = None /\ upload # None
             /\ npm' = [npm EXCEPT !.accepted[p] = upload]
             /\ \E ok \in BOOLEAN : pc' = At("published", p, ok)
    <3> DEFINE a == [npm.accepted EXCEPT ![p] = upload]
    <3>1. /\ a \in [Pkgs -> Optional(Tarballs)] /\ a[p] = upload
          /\ \A q \in Pkgs : q # p => a[q] = npm.accepted[q]
      BY <1>2 DEF Registry
    <3>2. npm' = [npm EXCEPT !.accepted = a]
      BY <2>2
    <3> HIDE DEF a
    <3>3. npm' \in Registry /\ npm'.accepted = a /\ npm'.version = npm.version
          /\ npm'.latest = npm.latest /\ npm'.late = npm.late
      BY <1>2, <3>1, <3>2 DEF Registry
    <3> QED BY <2>2, <3>1, <3>3
  <2>3. CASE UNCHANGED npm /\ pc' = At("published", p, FALSE)
    BY <1>2, <2>3
  <2> QED BY <2>1, <2>2, <2>3 DEF publishCall
<1>4. /\ \A q \in Pkgs : npm.version[q] # None => npm'.version[q] = npm.version[q]
      /\ \A q \in Pkgs : Taken(q) => Taken(q)'
      /\ ok => Taken(p)'
  <2>1. \A q \in Pkgs : npm.version[q] # None => npm'.version[q] = npm.version[q]
    BY <1>3
  <2>2. ASSUME NEW q \in Pkgs, Taken(q)
        PROVE  Taken(q)'
    <3>1. CASE q = p
      BY <1>3, <2>2, <3>1 DEF Taken
    <3>2. CASE q # p
      BY <1>3, <2>2, <3>2 DEF Taken
    <3> QED BY <3>1, <3>2
  <2>3. ok => Taken(p)'
    BY <1>1, <1>3 DEF Taken
  <2> QED BY <2>1, <2>2, <2>3
<1>5. /\ OriginInv' /\ StatesInv' /\ ValidInv' /\ Manifests' = Manifests
      /\ \A d \in Manifests, q \in Pkgs : Supplied(d, q) => Supplied(d, q)'
      /\ \A d \in Manifests : OneBuild(d) => OneBuild(d)'
      /\ \A d \in Manifests, q \in Pkgs : OnRecord(d, q) => OnRecord(d, q)'
  BY <1>1, <1>3, <1>4, RegistryStep
<1>6. pc' \in Cuts /\ pc'.op = "published" /\ pc'.p = p /\ pc'.ok = ok
  <2>1. PICK op \in Ops : op = "published"
    BY DEF Ops, Publishing
  <2>2. pc' = At(op, p, ok)
    BY <1>3, <2>1
  <2> QED BY <1>2, <2>1, <2>2, Cut
<1>7. ReleaseTypeInv'
  BY <1>1, <1>3, <1>6 DEF ReleaseInv, ReleaseTypeInv, Cuts
<1>8. PackInv'
  BY <1>6 DEF PackInv
<1>9. manifest' = manifest /\ Here' = Here
  BY <1>1 DEF manifest, Here
<1>10. StageInv'
  <2>1. pc'.op \notin {"idle", "packState"}
    BY <1>6
  <2>2. mem' \in States /\ pc'.p \in publicationPackages(manifest') /\ validateState(manifest', mem')
    BY <1>1, <1>6, <1>9, Underway
  <2> QED BY <1>1, <1>9, <2>1, <2>2 DEF ReleaseInv, StageInv
<1>11. \A q \in DependsOn[p] : Supplied(dir, q) /\ q \in Pkgs
  <2>1. \A q \in DependsOn[p] : q \in Predecessors(p)
    BY <1>1, Underway, InMemory
  <2>2. \A q \in Predecessors(p) : q \in Pkgs
    BY Constants DEF Predecessors
  <2>3. \A q \in Predecessors(p) : mem.packages[q].integrity = manifest.bytes[q]
    BY <1>1, Underway DEF PublishReady
  <2>4. \A q \in Pkgs : manifest.bytes[q] # None
    BY <1>1, Underway, InMemory, NoneIsNoRecord
  <2> QED BY <1>1, <2>1, <2>2, <2>3, <2>4, Underway DEF EntryInv
<1>12. RegistryInv'
  <2> SUFFICES ASSUME NEW q \in Pkgs
      PROVE  /\ npm'.accepted[q] # None => npm'.version[q] = None
             /\ \A d \in 1..MaxDirs : \A b \in {npm'.version[q], npm'.accepted[q]} \ {None} : b.dir = d =>
                  /\ disk'[d].manifest # None
                  /\ b = disk'[d].manifest.bytes[q] /\ q \in publicationPackages(disk'[d].manifest) =>
                       \A r \in DependsOn[q] : Supplied(d, r)'
    BY DEF RegistryInv
  <2>1. npm'.accepted[q] # None => npm'.version[q] = None
    BY <1>3 DEF ReleaseInv, RegistryInv
  <2>2. ASSUME NEW d \in 1..MaxDirs, NEW b \in {npm'.version[q], npm'.accepted[q]} \ {None}, b.dir = d
        PROVE  /\ disk[d].manifest # None
               /\ b = disk[d].manifest.bytes[q] /\ q \in publicationPackages(disk[d].manifest) =>
                       \A r \in DependsOn[q] : Supplied(d, r)
    <3>1. CASE b \in {npm.version[q], npm.accepted[q]}
      BY <2>2, <3>1 DEF ReleaseInv, RegistryInv
    <3>2. CASE q = p /\ b = upload
      <4>1. b = manifest.bytes[p]
        <5>1. Damaged.dir \notin 1..MaxDirs
          BY DEF Damaged
        <5> QED BY <1>2, <2>2, <3>2, <5>1
      <4>2. b.dir = dir /\ manifest = disk[dir].manifest /\ manifest # None
        BY <1>1, <1>2, <4>1, Underway, InMemory
      <4> QED BY <1>11, <2>2, <3>2, <4>2
    <3> QED BY <1>3, <2>2, <3>1, <3>2
  <2>3. \A r \in DependsOn[q] : r \in Pkgs
    BY Constants
  <2> QED BY <1>1, <1>5, <2>1, <2>2, <2>3 DEF Manifests
<1>13. LatestInv'
  BY <1>1, <1>3, <1>5 DEF ReleaseInv, LatestInv
<1>14. OperationInv'
  <2>1. PublishReady(mem, pc)'
    BY <1>1, <1>4, <1>6, <1>9, Underway DEF PublishReady, Predecessors
  <2> QED BY <1>6, <2>1 DEF OperationInv, Publishing, Tagging
<1> QED BY <1>5, <1>7, <1>8, <1>10, <1>12, <1>13, <1>14 DEF ReleaseInv

(***************************************************************************)
(* resume: entries are rewritten from what the registry holds.             *)
(***************************************************************************)
LEMMA ReconciledShape ==
  ASSUME ReleaseInv, manifest # None, NEW s \in States, NEW k, NEW blocker \in 0..N,
         EntryInv(dir, s), Early(s)
  PROVE  LET r == [Reconciled(s, k) EXCEPT !.blocker = blocker]
         IN /\ r \in States /\ r.phase = s.phase /\ r.attempt = s.attempt
            /\ r.finalizationBlocker = s.finalizationBlocker
            /\ \A p \in Pkgs \ publicationPackages(manifest) : r.packages[p] = s.packages[p]
            /\ \A p \in Pkgs : ~r.packages[p].latestVerified /\ ~r.packages[p].nextRemoved
            /\ EntryInv(dir, r)
<1> DEFINE
      E(p) == IF p \notin publicationPackages(manifest) \/ p >= k THEN s.packages[p]
              ELSE IF npm.version[p] = manifest.bytes[p] THEN Published(manifest.bytes[p]) ELSE Pending
      f == [p \in Pkgs |-> E(p)]
<1>1. PICK r : r = [Reconciled(s, k) EXCEPT !.blocker = blocker]
  OBVIOUS
<1>2. \A p \in Pkgs : manifest.bytes[p] \in Tarballs /\ manifest.bytes[p] # None
  BY HereFacts, NoneIsNoRecord
<1>3. \A p \in Pkgs : s.packages[p] \in Entries
  BY DEF States
<1>4. ASSUME NEW p \in Pkgs
      PROVE  /\ E(p) \in Entries /\ ~E(p).latestVerified /\ ~E(p).nextRemoved
             /\ E(p).integrity # None => E(p).integrity = manifest.bytes[p] /\ Supplied(dir, p)
             /\ E(p).registryVerified => npm.version[p] = manifest.bytes[p]
  <2>1. CASE E(p) = s.packages[p]
    BY <2>1, <1>3, HereFacts DEF Early, EntryInv
  <2>2. CASE E(p) = Pending
    BY <2>2, EntryShapes
  <2>3. CASE E(p) = Published(manifest.bytes[p]) /\ npm.version[p] = manifest.bytes[p]
    <3>1. Supplied(dir, p)
      BY <2>3, <1>2, HereFacts DEF Supplied, Taken
    <3> QED BY <2>3, <3>1, <1>2, EntryShapes
  <2> QED BY <2>1, <2>2, <2>3
<1>5. f \in [Pkgs -> Entries] /\ \A p \in Pkgs : f[p] = E(p)
  BY <1>4
<1>6. Reconciled(s, k) = [s EXCEPT !.packages = f]
  BY DEF Reconciled
<1>7. \A p \in Pkgs \ publicationPackages(manifest) : E(p) = s.packages[p]
  OBVIOUS
<1> HIDE DEF f
<1>8. /\ r \in States /\ r.phase = s.phase /\ r.attempt = s.attempt
      /\ r.finalizationBlocker = s.finalizationBlocker /\ r.packages = f
  BY <1>1, <1>5, <1>6 DEF States
<1> HIDE DEF E
<1>9. EntryInv(dir, r)
  BY <1>4, <1>5, <1>8, HereFacts DEF EntryInv
<1> QED BY <1>1, <1>4, <1>5, <1>7, <1>8, <1>9

LEMMA ResumeStep == ASSUME ReleaseInv, resume PROVE ReleaseInv'
<1>1. /\ manifest # None /\ Here.state # None /\ validateState(manifest, Here.state)
      /\ Here.state.phase = "PARTIAL_NEXT" /\ UNCHANGED Env
  BY DEF resume
<1>2. PICK t : t = Here.state
  OBVIOUS
<1>3. t \in States /\ EntryInv(dir, t) /\ t.phase \notin Promotion /\ Early(t)
  <2>1. t \in States
    BY <1>1, <1>2 DEF ReleaseInv, ReleaseTypeInv, Here, Evidence, Optional
  <2>2. EntryInv(dir, t)
    BY <1>1, <1>2, HereFacts DEF ReleaseInv, StatesInv, Here
  <2>3. t.phase \notin Promotion
    BY <1>1, <1>2 DEF Promotion
  <2> QED BY <1>1, <1>2, <2>1, <2>2, <2>3, EarlyStates
<1>4. PICK k, blocker : blocker \in 0..N /\ saveState([Reconciled(t, k) EXCEPT !.blocker = blocker], Idle)
  <2>1. \A k \in publicationPackages(manifest) : k \in 0..N
    BY <1>1, HereFacts, Constants
  <2>2. 0 \in 0..N
    BY Constants
  <2>3. \/ saveState([Reconciled(t, N + 1) EXCEPT !.blocker = 0], Idle)
        \/ \E k \in publicationPackages(manifest) :
             saveState([Reconciled(t, k) EXCEPT !.blocker = k], Idle)
    BY <1>2, Zenon DEF resume
  <2>4. CASE saveState([Reconciled(t, N + 1) EXCEPT !.blocker = 0], Idle)
    BY <2>2, <2>4
  <2>5. ASSUME NEW k \in publicationPackages(manifest),
               saveState([Reconciled(t, k) EXCEPT !.blocker = k], Idle)
        PROVE  \E j, blocker : blocker \in 0..N /\ saveState([Reconciled(t, j) EXCEPT !.blocker = blocker], Idle)
    BY <2>1, <2>5
  <2> QED BY <2>2, <2>3, <2>4, <2>5
<1>5. PICK s : s = [Reconciled(t, k) EXCEPT !.blocker = blocker]
  OBVIOUS
<1>6. /\ s \in States /\ s.phase = t.phase /\ s.attempt = t.attempt
      /\ s.finalizationBlocker = t.finalizationBlocker
      /\ \A p \in Pkgs \ publicationPackages(manifest) : s.packages[p] = t.packages[p]
      /\ \A p \in Pkgs : ~s.packages[p].latestVerified /\ ~s.packages[p].nextRemoved
      /\ EntryInv(dir, s)
  BY <1>1, <1>3, <1>4, <1>5, ReconciledShape
<1>7. PICK next \in Cuts : next = Idle
  BY IdleCut
<1>8. saveState(s, next)
  BY <1>4, <1>5, <1>7
<1>9. \A p \in Pkgs : ~(OnRecord(dir, p) /\ Early(t))
  BY <1>2, Constants DEF OnRecord, Here, Early
<1>10. Savable(s, next)
  BY <1>1, <1>2, <1>3, <1>6, <1>7, <1>9, EarlySave
<1> QED BY <1>1, <1>6, <1>8, <1>10, SaveStep

(***************************************************************************)
(* Verification of what was published, and the tags.                       *)
(***************************************************************************)
Flags == {"registryVerified", "externalInstallVerified", "latestVerified", "nextRemoved"}

\* The entry u is e with the flag raised when p is one of ps.
Raised(e, u, p, ps, flag) ==
  /\ u.status = e.status /\ u.integrity = e.integrity
  /\ u.registryVerified <=> e.registryVerified \/ (p \in ps /\ flag = "registryVerified")
  /\ u.externalInstallVerified <=>
       e.externalInstallVerified \/ (p \in ps /\ flag = "externalInstallVerified")
  /\ u.latestVerified <=> e.latestVerified \/ (p \in ps /\ flag = "latestVerified")
  /\ u.nextRemoved <=> e.nextRemoved \/ (p \in ps /\ flag = "nextRemoved")
  /\ p \notin ps => u = e

LEMMA Flagged ==
  ASSUME NEW s \in States, NEW ps \in SUBSET Pkgs, NEW flag \in Flags
  PROVE  /\ Flag(s, ps, flag) \in States /\ Flag(s, ps, flag).phase = s.phase
         /\ Flag(s, ps, flag).attempt = s.attempt /\ Flag(s, ps, flag).blocker = s.blocker
         /\ Flag(s, ps, flag).finalizationBlocker = s.finalizationBlocker
         /\ \A p \in Pkgs : Raised(s.packages[p], Flag(s, ps, flag).packages[p], p, ps, flag)
<1> DEFINE
      E(p) == IF p \in ps THEN [s.packages[p] EXCEPT ![flag] = TRUE] ELSE s.packages[p]
      f == [p \in Pkgs |-> E(p)]
<1>1. ASSUME NEW p \in Pkgs
      PROVE  LET e == s.packages[p] u == E(p)
             IN /\ u \in Entries /\ u.status = e.status /\ u.integrity = e.integrity
                /\ u.registryVerified <=> e.registryVerified \/ (p \in ps /\ flag = "registryVerified")
                /\ u.externalInstallVerified <=>
                     e.externalInstallVerified \/ (p \in ps /\ flag = "externalInstallVerified")
                /\ u.latestVerified <=> e.latestVerified \/ (p \in ps /\ flag = "latestVerified")
                /\ u.nextRemoved <=> e.nextRemoved \/ (p \in ps /\ flag = "nextRemoved")
                /\ p \notin ps => u = e
  <2>1. PICK e \in Entries : e = s.packages[p]
    BY DEF States
  <2>2. CASE p \in ps
    <3>1. PICK u : u = [e EXCEPT ![flag] = TRUE]
      OBVIOUS
    <3>2. u = E(p)
      BY <2>1, <2>2, <3>1
    <3>3. CASE flag = "registryVerified"
      <4>1. u = [e EXCEPT !.registryVerified = TRUE]
        BY <3>1, <3>3
      <4>2. /\ u \in Entries /\ u.status = e.status /\ u.integrity = e.integrity
            /\ u.registryVerified /\ u.externalInstallVerified = e.externalInstallVerified
            /\ u.latestVerified = e.latestVerified /\ u.nextRemoved = e.nextRemoved
        BY <4>1 DEF Entries
      <4> HIDE DEF E
      <4> QED BY <2>1, <2>2, <3>2, <3>3, <4>2
    <3>4. CASE flag = "externalInstallVerified"
      <4>1. u = [e EXCEPT !.externalInstallVerified = TRUE]
        BY <3>1, <3>4
      <4>2. /\ u \in Entries /\ u.status = e.status /\ u.integrity = e.integrity
            /\ u.registryVerified = e.registryVerified /\ u.externalInstallVerified
            /\ u.latestVerified = e.latestVerified /\ u.nextRemoved = e.nextRemoved
        BY <4>1 DEF Entries
      <4> HIDE DEF E
      <4> QED BY <2>1, <2>2, <3>2, <3>4, <4>2
    <3>5. CASE flag = "latestVerified"
      <4>1. u = [e EXCEPT !.latestVerified = TRUE]
        BY <3>1, <3>5
      <4>2. /\ u \in Entries /\ u.status = e.status /\ u.integrity = e.integrity
            /\ u.registryVerified = e.registryVerified
            /\ u.externalInstallVerified = e.externalInstallVerified
            /\ u.latestVerified /\ u.nextRemoved = e.nextRemoved
        BY <4>1 DEF Entries
      <4> HIDE DEF E
      <4> QED BY <2>1, <2>2, <3>2, <3>5, <4>2
    <3>6. CASE flag = "nextRemoved"
      <4>1. u = [e EXCEPT !.nextRemoved = TRUE]
        BY <3>1, <3>6
      <4>2. /\ u \in Entries /\ u.status = e.status /\ u.integrity = e.integrity
            /\ u.registryVerified = e.registryVerified
            /\ u.externalInstallVerified = e.externalInstallVerified
            /\ u.latestVerified = e.latestVerified /\ u.nextRemoved
        BY <4>1 DEF Entries
      <4> HIDE DEF E
      <4> QED BY <2>1, <2>2, <3>2, <3>6, <4>2
    <3> QED BY <3>3, <3>4, <3>5, <3>6 DEF Flags
  <2>3. CASE p \notin ps
    <3>1. E(p) = e
      BY <2>1, <2>3
    <3> HIDE DEF E
    <3> QED BY <2>1, <2>3, <3>1
  <2> QED BY <2>2, <2>3
<1>2. f \in [Pkgs -> Entries] /\ \A p \in Pkgs : f[p] = E(p)
  BY <1>1
<1>3. Flag(s, ps, flag) = [s EXCEPT !.packages = f]
  BY DEF Flag
<1> HIDE DEF f
<1>4. /\ Flag(s, ps, flag) \in States /\ Flag(s, ps, flag).packages = f
      /\ Flag(s, ps, flag).phase = s.phase
      /\ Flag(s, ps, flag).attempt = s.attempt /\ Flag(s, ps, flag).blocker = s.blocker
      /\ Flag(s, ps, flag).finalizationBlocker = s.finalizationBlocker
  BY <1>2, <1>3 DEF States
<1>5. ASSUME NEW p \in Pkgs
      PROVE  Raised(s.packages[p], f[p], p, ps, flag)
  <2> HIDE DEF E
  <2>1. f[p] = E(p)
    BY <1>2
  <2> QED BY <1>1, <2>1 DEF Raised
<1> HIDE DEF E
<1> QED BY <1>4, <1>5

LEMMA VerifyAllStep ==
  ASSUME ReleaseInv, NEW from \in Phases, NEW to \in Phases, NEW flag \in {"registryVerified", "externalInstallVerified"},
         from \notin Promotion, to \notin Promotion, from # "PACKED", to # "PACKED",
         VerifyAll(from, to, flag)
  PROVE  ReleaseInv'
<1>1. /\ mem \in States /\ mem.phase = from /\ validateState(manifest, mem) /\ pc = Idle
      /\ UNCHANGED Env
  BY ReadyFacts DEF VerifyAll
<1>2. Early(mem) /\ mem.phase \notin Promotion
  BY <1>1, EarlyStates
<1>3. PICK sel : sel = publicationPackages(manifest)
  OBVIOUS
<1>4. sel \subseteq Pkgs /\ flag \in Flags
  BY <1>3, Constants DEF Flags
<1>5. ASSUME NEW ps \in SUBSET sel, \A p \in ps : InRegistry(p), NEW u, u = Flag(mem, ps, flag)
      PROVE  /\ u \in States /\ u.phase = from /\ u.attempt = mem.attempt /\ u.packages \in [Pkgs -> Entries]
             /\ u.finalizationBlocker = mem.finalizationBlocker
             /\ \A p \in Pkgs : ~u.packages[p].latestVerified /\ ~u.packages[p].nextRemoved
             /\ \A p \in Pkgs \ sel : u.packages[p] = mem.packages[p]
             /\ \A s \in States : s.packages = u.packages /\ s.phase # "PACKED" => EntryInv(dir, s)
  <2>1. ps \in SUBSET Pkgs
    BY <1>4
  <2>2. /\ u \in States /\ u.phase = mem.phase /\ u.attempt = mem.attempt
        /\ u.finalizationBlocker = mem.finalizationBlocker
        /\ \A p \in Pkgs :
              LET e == mem.packages[p] v == u.packages[p]
              IN /\ v.integrity = e.integrity
                 /\ v.registryVerified <=> e.registryVerified \/ (p \in ps /\ flag = "registryVerified")
                 /\ v.latestVerified <=> e.latestVerified \/ (p \in ps /\ flag = "latestVerified")
                 /\ v.nextRemoved <=> e.nextRemoved \/ (p \in ps /\ flag = "nextRemoved")
                 /\ p \notin ps => v = e
    <3>1. /\ u \in States /\ u.phase = mem.phase /\ u.attempt = mem.attempt
          /\ u.finalizationBlocker = mem.finalizationBlocker
          /\ \A p \in Pkgs : Raised(mem.packages[p], u.packages[p], p, ps, flag)
      BY <1>1, <1>4, <1>5, <2>1, Flagged
    <3> QED BY <3>1 DEF Raised
  <2>3. \A p \in Pkgs : ~u.packages[p].latestVerified /\ ~u.packages[p].nextRemoved
    BY <1>2, <2>2 DEF Early
  <2>4. ASSUME NEW s \in States, s.packages = u.packages, s.phase # "PACKED"
        PROVE  EntryInv(dir, s)
    <3>1. \A p \in Pkgs : s.packages[p].integrity = mem.packages[p].integrity
      BY <2>2, <2>4
    <3>2. \A p \in Pkgs : s.packages[p].registryVerified => npm.version[p] = manifest.bytes[p]
      BY <1>1, <1>5, <2>2, <2>4, InMemory DEF EntryInv, InRegistry
    <3> QED BY <1>1, <2>4, <3>1, <3>2, InMemory DEF EntryInv
  <2> QED BY <1>1, <1>5, <2>2, <2>3, <2>4 DEF States
<1>6. CASE /\ \A p \in sel : InRegistry(p)
           /\ saveState(transition(Flag(mem, sel, flag), to), Idle)
  <2>1. PICK u : u = Flag(mem, sel, flag)
    OBVIOUS
  <2>2. PICK s : s = transition(u, to)
    OBVIOUS
  <2>3. s \in States /\ s.phase = to /\ s.packages = u.packages /\ s.attempt = u.attempt
        /\ s.finalizationBlocker = u.finalizationBlocker
    BY <1>5, <1>6, <2>1, <2>2, Transition
  <2>4. PICK next \in Cuts : next = Idle
    BY IdleCut
  <2>5. saveState(s, next)
    BY <1>6, <2>1, <2>2, <2>4
  <2>6. EntryInv(dir, s)
    BY <1>5, <1>6, <2>1, <2>3
  <2>7. /\ s.attempt = mem.attempt /\ s.finalizationBlocker = mem.finalizationBlocker
        /\ \A p \in Pkgs : ~s.packages[p].latestVerified /\ ~s.packages[p].nextRemoved
        /\ \A p \in Pkgs \ publicationPackages(manifest) : s.packages[p] = mem.packages[p]
    BY <1>3, <1>5, <1>6, <2>1, <2>3
  <2> QED BY <1>1, <1>2, <2>3, <2>4, <2>5, <2>6, <2>7, EarlyFromMemory
<1>7. ASSUME NEW k \in sel, \A p \in {q \in sel : ~InRegistry(q)} : p >= k,
             mem' = Flag(mem, {p \in sel : p < k}, flag), UNCHANGED <<disk, pc, faults>>
      PROVE  ReleaseInv'
  <2>1. PICK ps \in SUBSET sel : ps = {p \in sel : p < k}
    OBVIOUS
  <2>2. \A p \in ps : InRegistry(p)
    BY <1>4, <1>7, <2>1, Constants
  <2>3. PICK u : u = Flag(mem, ps, flag)
    OBVIOUS
  <2>4. /\ u \in States /\ u.phase = mem.phase /\ u.attempt = mem.attempt
        /\ u.finalizationBlocker = mem.finalizationBlocker
        /\ \A p \in Pkgs : ~u.packages[p].latestVerified /\ ~u.packages[p].nextRemoved
        /\ EntryInv(dir, u)
    BY <1>1, <1>5, <2>2, <2>3
  <2>5. mem' = u /\ UNCHANGED <<checkout, defects, dir, disk, npm, restored, pc>>
    BY <1>1, <1>7, <2>1, <2>3 DEF Env
  <2>6. pc' = Idle /\ pc' \in Cuts /\ pc'.op = "idle"
    BY <1>1, <2>5, IdleCut
  <2>7. \A p \in Pkgs : u.packages[p].latestVerified <=> mem.packages[p].latestVerified
    BY <1>2, <2>4 DEF Early
  <2>8. StageInv'
    BY <1>1, <2>4, <2>5, <2>6, <2>7, NoneIsNoRecord DEF ReleaseInv, StageInv, Publishing, Tagging, Here
  <2>9. OperationInv'
    BY <2>6 DEF OperationInv, Publishing, Tagging
  <2>10. EntryInv(dir, mem)'
    BY <2>4, <2>5 DEF EntryInv, Supplied, Taken
  <2> QED BY <2>4, <2>5, <2>6, <2>8, <2>9, <2>10, MemoryStep
<1> QED BY <1>3, <1>6, <1>7 DEF VerifyAll

LEMMA VerifyRegistryStep == ASSUME ReleaseInv, verifyRegistry PROVE ReleaseInv'
<1>1. PICK from \in Phases, to \in Phases : from = "PUBLISHED_NEXT" /\ to = "REGISTRY_VERIFIED"
  BY DEF Phases
<1>2. PICK flag \in {"registryVerified", "externalInstallVerified"} : flag = "registryVerified"
  OBVIOUS
<1>3. VerifyAll(from, to, flag)
  BY <1>1, <1>2 DEF verifyRegistry
<1> QED BY <1>1, <1>3, VerifyAllStep DEF Promotion

LEMMA VerifyExternalInstallStep == ASSUME ReleaseInv, verifyExternalInstall PROVE ReleaseInv'
<1>1. PICK from \in Phases, to \in Phases :
        from = "REGISTRY_VERIFIED" /\ to = "EXTERNAL_INSTALL_VERIFIED"
  BY DEF Phases
<1>2. PICK flag \in {"registryVerified", "externalInstallVerified"} : flag = "externalInstallVerified"
  OBVIOUS
<1>3. VerifyAll(from, to, flag)
  BY <1>1, <1>2 DEF verifyExternalInstall
<1> QED BY <1>1, <1>3, VerifyAllStep DEF Promotion

LEMMA ReadyToPromoteStep == ASSUME ReleaseInv, transitionToReadyToPromote PROVE ReleaseInv'
<1>1. /\ mem \in States /\ mem.phase = "EXTERNAL_INSTALL_VERIFIED" /\ validateState(manifest, mem)
      /\ UNCHANGED Env
  BY ReadyFacts DEF transitionToReadyToPromote
<1>2. mem.phase \notin Promotion
  BY <1>1 DEF Promotion
<1>3. Early(mem)
  BY <1>1, <1>2, EarlyStates
<1>4. PICK to \in Phases : to = "READY_TO_PROMOTE"
  BY DEF Phases
<1>5. PICK s : s = transition(mem, to)
  OBVIOUS
<1>6. s \in States /\ s.phase = to /\ s.packages = mem.packages /\ s.attempt = mem.attempt
      /\ s.finalizationBlocker = mem.finalizationBlocker
  BY <1>1, <1>5, Transition
<1>7. PICK next \in Cuts : next = Idle
  BY IdleCut
<1>8. saveState(s, next)
  BY <1>4, <1>5, <1>7 DEF transitionToReadyToPromote
<1>9. s.phase \notin Promotion
  BY <1>4, <1>6 DEF Promotion
<1>10. /\ \A p \in Pkgs : ~s.packages[p].latestVerified /\ ~s.packages[p].nextRemoved
       /\ \A p \in Pkgs \ publicationPackages(manifest) : s.packages[p] = mem.packages[p]
  BY <1>3, <1>6 DEF Early
<1>11. EntryInv(dir, s)
  BY <1>1, <1>6, InMemory DEF EntryInv
<1> QED BY <1>1, <1>2, <1>6, <1>7, <1>8, <1>9, <1>10, <1>11, EarlyFromMemory

(***************************************************************************)
(* A state in which a tag of package p is about to be moved, or was.       *)
(***************************************************************************)
Finalizing(s, p) ==
  /\ s.phase \in {"PROMOTING_LATEST", "REMOVING_NEXT"}
  /\ validateState(manifest, s) /\ allPackagesReady(manifest, s) /\ EntryInv(dir, s)
  /\ p \in publicationPackages(manifest)
  /\ {s.attempt, s.finalizationBlocker} \subseteq {0, p}
  /\ \A q \in Pkgs : OnRecord(dir, q) => s.packages[q].latestVerified \/ q = p

LEMMA ValidChange ==
  ASSUME NEW m, NEW s \in States, NEW t \in States, NEW p \in publicationPackages(m),
         validateState(m, s), allPackagesReady(m, s),
         t.phase = s.phase, s.phase \in {"PROMOTING_LATEST", "REMOVING_NEXT"},
         {t.attempt, t.finalizationBlocker} \subseteq {0, p},
         \A q \in Pkgs : q # p => t.packages[q] = s.packages[q],
         LET e == s.packages[p] u == t.packages[p]
         IN /\ u.status = e.status
            /\ u.registryVerified <=> e.registryVerified
            /\ u.externalInstallVerified <=> e.externalInstallVerified
            /\ e.latestVerified => u.latestVerified
            /\ u.nextRemoved => e.nextRemoved \/ s.phase = "REMOVING_NEXT"
  PROVE  validateState(m, t)
<1>1. p \in Pkgs
  BY Constants
<1>2. assertFinalizationState(m, s)
  BY DEF validateState
<1>3. ASSUME NEW q \in Pkgs, t.packages[q].latestVerified \/ t.packages[q].nextRemoved
      PROVE  LET e == t.packages[q]
             IN /\ q \in publicationPackages(m)
                /\ e.status = "published" /\ e.registryVerified /\ e.externalInstallVerified
                /\ e.nextRemoved => s.phase = "REMOVING_NEXT" /\ e.latestVerified
  <2>1. CASE q = p
    <3>1. t.packages[p].nextRemoved => s.phase = "REMOVING_NEXT"
      BY <1>1, <1>2 DEF assertFinalizationState
    <3>2. s.phase = "REMOVING_NEXT" => s.packages[p].latestVerified
      BY <1>1, <1>2 DEF assertFinalizationState
    <3>3. /\ s.packages[p].status = "published" /\ s.packages[p].registryVerified
          /\ s.packages[p].externalInstallVerified
      BY DEF allPackagesReady
    <3> QED BY <2>1, <3>1, <3>2, <3>3
  <2>2. CASE q # p
    BY <1>2, <1>3, <2>2 DEF assertFinalizationState
  <2> QED BY <2>1, <2>2
<1>4. s.phase = "REMOVING_NEXT" => \A q \in publicationPackages(m) : t.packages[q].latestVerified
  <2>1. s.phase = "REMOVING_NEXT" => \A q \in publicationPackages(m) : s.packages[q].latestVerified
    BY <1>2 DEF assertFinalizationState
  <2> QED BY <2>1, Constants
<1>5. assertFinalizationState(m, t)
  BY <1>3, <1>4 DEF assertFinalizationState
<1>6. \A q \in Pkgs \ publicationPackages(m) : m.selected => t.packages[q] = Pending
  BY DEF validateState
<1> QED BY <1>5, <1>6 DEF validateState

LEMMA AttemptStep ==
  ASSUME ReleaseInv, UNCHANGED Env, manifest # None, NEW s \in States, NEW t \in States, NEW p \in Pkgs,
         NEW next \in Cuts, Finalizing(s, p), saveState(t, next),
         t.phase = s.phase, t.packages = s.packages,
         {t.attempt, t.finalizationBlocker} \subseteq {0, p}, p \in {t.attempt, t.finalizationBlocker},
         next = Idle \/ (next.op \in Tagging /\ next.p = p /\ t.attempt = p)
  PROVE  ReleaseInv'
<1>1. validateState(manifest, t)
  BY ValidChange DEF Finalizing
<1>2. EntryInv(dir, t)
  BY DEF Finalizing, EntryInv
<1>3. allPackagesReady(manifest, t)
  BY DEF Finalizing, allPackagesReady
<1>4. next # Idle => TagReady(t, next) /\ next.op \notin Publishing
  BY <1>3 DEF Finalizing, TagReady, Publishing, Tagging
<1>5. Savable(t, next)
  BY <1>1, <1>2, <1>4 DEF Savable, Finalizing
<1> QED BY <1>5, SaveStep

LEMMA RecordTagStep ==
  ASSUME ReleaseInv, UNCHANGED Env, manifest # None, NEW s \in States, NEW p \in Pkgs, NEW flag \in Flags,
         Finalizing(s, p), RecordTag(s, p, flag),
         flag = (IF s.phase = "PROMOTING_LATEST" THEN "latestVerified" ELSE "nextRemoved")
  PROVE  ReleaseInv'
<1>1. PICK u : u = Flag(s, {p}, flag)
  OBVIOUS
<1>2. {p} \in SUBSET Pkgs
  OBVIOUS
<1>3. /\ u \in States /\ u.phase = s.phase
      /\ \A q \in Pkgs :
           LET e == s.packages[q] v == u.packages[q]
           IN /\ v.status = e.status /\ v.integrity = e.integrity
              /\ v.registryVerified <=> e.registryVerified
              /\ v.externalInstallVerified <=> e.externalInstallVerified
              /\ v.latestVerified <=> e.latestVerified \/ (q = p /\ flag = "latestVerified")
              /\ v.nextRemoved <=> e.nextRemoved \/ (q = p /\ flag = "nextRemoved")
              /\ q # p => v = e
  <2>1. flag # "registryVerified" /\ flag # "externalInstallVerified"
    OBVIOUS
  <2>2. /\ u \in States /\ u.phase = s.phase
        /\ \A q \in Pkgs : Raised(s.packages[q], u.packages[q], q, {p}, flag)
    BY <1>1, <1>2, Flagged DEF Flags
  <2> QED BY <2>1, <2>2 DEF Raised
<1>4. PICK t : t = [u EXCEPT !.attempt = 0, !.finalizationBlocker = 0]
  OBVIOUS
<1>5. t \in States /\ t.phase = s.phase /\ t.packages = u.packages /\ t.attempt = 0
      /\ t.finalizationBlocker = 0
  <2>1. u \in States /\ u.phase = s.phase
    BY <1>3
  <2>2. 0 \in 0..N
    BY Constants
  <2> QED BY <1>4, <2>1, <2>2 DEF States
<1>6. PICK next \in Cuts : next = Idle
  BY IdleCut
<1>7. saveState(t, next)
  BY <1>1, <1>4, <1>6 DEF RecordTag
<1>8. validateState(manifest, t)
  <2>1. s.phase \in {"PROMOTING_LATEST", "REMOVING_NEXT"} /\ p \in publicationPackages(manifest)
        /\ validateState(manifest, s) /\ allPackagesReady(manifest, s)
    BY DEF Finalizing
  <2>2. \A q \in Pkgs : q # p => t.packages[q] = s.packages[q]
    BY <1>3, <1>5
  <2>3. LET e == s.packages[p] w == t.packages[p]
        IN /\ w.status = e.status
           /\ w.registryVerified <=> e.registryVerified
           /\ w.externalInstallVerified <=> e.externalInstallVerified
           /\ e.latestVerified => w.latestVerified
           /\ w.nextRemoved => e.nextRemoved \/ s.phase = "REMOVING_NEXT"
    BY <1>3, <1>5, <2>1
  <2>4. {t.attempt, t.finalizationBlocker} \subseteq {0, p}
    BY <1>5
  <2> QED BY <1>5, <2>1, <2>2, <2>3, <2>4, ValidChange
<1>9. EntryInv(dir, t)
  <2>1. s.phase # "PACKED"
    BY DEF Finalizing
  <2> QED BY <1>3, <1>5, <2>1 DEF Finalizing, EntryInv
<1>10. t.packages[p].latestVerified
  <2>1. CASE s.phase = "PROMOTING_LATEST"
    BY <1>3, <1>5, <2>1
  <2>2. CASE s.phase = "REMOVING_NEXT"
    BY <1>3, <1>5, <2>2 DEF Finalizing, validateState, assertFinalizationState
  <2> QED BY <2>1, <2>2 DEF Finalizing
<1>11. \A q \in Pkgs : OnRecord(dir, q) => t.packages[q].latestVerified
  BY <1>3, <1>5, <1>10 DEF Finalizing
<1>12. Savable(t, next)
  BY <1>6, <1>8, <1>9, <1>11 DEF Savable
<1> QED BY <1>5, <1>7, <1>12, SaveStep

LEMMA BeginAttemptStep ==
  ASSUME ReleaseInv, UNCHANGED Env, manifest # None, NEW s \in States, NEW p \in Pkgs,
         Finalizing(s, p), BeginAttempt(s, p)
  PROVE  ReleaseInv'
<1>1. PICK t : t = [s EXCEPT !.attempt = p]
  OBVIOUS
<1>2. p \in 0..N
  BY Constants
<1>3. t \in States /\ t.phase = s.phase /\ t.packages = s.packages /\ t.attempt = p
      /\ t.finalizationBlocker = s.finalizationBlocker
  BY <1>1, <1>2 DEF States
<1>4. PICK op \in Ops, ok \in BOOLEAN : op = "tag" /\ ok = FALSE
  BY DEF Ops, Tagging
<1>5. PICK next : next = At(op, p, ok)
  OBVIOUS
<1>6. next \in Cuts /\ next.op \in Tagging /\ next.p = p
  BY <1>4, <1>5, Cut DEF Tagging
<1>7. saveState(t, next)
  BY <1>1, <1>4, <1>5 DEF BeginAttempt
<1>8. {t.attempt, t.finalizationBlocker} \subseteq {0, p}
  BY <1>3 DEF Finalizing
<1> QED BY <1>3, <1>6, <1>7, <1>8, AttemptStep

\* A state that leads to an attempt is as final as the one in memory.
LEMMA PreparedFacts ==
  ASSUME ReleaseInv, NEW phases, NEW p, prepare(phases, p)
  PROVE  /\ mem \in States /\ pc = Idle /\ mem.phase \in phases /\ validateState(manifest, mem)
         /\ allPackagesReady(manifest, mem) /\ manifest # None
         /\ {mem.attempt, mem.finalizationBlocker} \subseteq {0, p}
         /\ p # 0 => p \in publicationPackages(manifest) /\ p \in Pkgs
BY ReadyFacts, InMemory, Constants DEF prepare

LEMMA PromoteStep == ASSUME ReleaseInv, NEW p \in Pkgs, promoteLatest(p) PROVE ReleaseInv'
<1>1. /\ mem \in States /\ mem.phase \in {"READY_TO_PROMOTE", "PROMOTING_LATEST"}
      /\ validateState(manifest, mem) /\ allPackagesReady(manifest, mem) /\ manifest # None
      /\ {mem.attempt, mem.finalizationBlocker} \subseteq {0, p}
      /\ p \in publicationPackages(manifest) /\ UNCHANGED Env
  BY PreparedFacts, Constants DEF promoteLatest
<1>2. PICK s : s = IF mem.phase = "READY_TO_PROMOTE" THEN transition(mem, "PROMOTING_LATEST") ELSE mem
  OBVIOUS
<1>3. /\ s \in States /\ s.phase = "PROMOTING_LATEST" /\ s.packages = mem.packages
      /\ s.attempt = mem.attempt /\ s.finalizationBlocker = mem.finalizationBlocker
  <2>1. PICK to \in Phases : to = "PROMOTING_LATEST"
    BY DEF Phases
  <2>2. CASE mem.phase = "READY_TO_PROMOTE"
    <3>1. s = transition(mem, to)
      BY <1>2, <2>1, <2>2
    <3> QED BY <1>1, <2>1, <3>1, Transition
  <2>3. CASE mem.phase = "PROMOTING_LATEST"
    BY <1>1, <1>2, <2>3
  <2> QED BY <1>1, <2>2, <2>3
<1>4. validateState(manifest, s)
  <2>1. CASE mem.phase = "READY_TO_PROMOTE"
    <3>1. Early(mem) /\ Selective(manifest, mem)
      BY <1>1, <2>1, EarlyStates DEF Promotion
    <3> QED BY <1>3, <3>1 DEF Early, Selective, validateState, assertFinalizationState
  <2>2. CASE mem.phase = "PROMOTING_LATEST"
    BY <1>1, <1>2, <2>2
  <2> QED BY <1>1, <2>1, <2>2
<1>5. Finalizing(s, p)
  <2>1. allPackagesReady(manifest, s)
    BY <1>1, <1>3 DEF allPackagesReady
  <2>2. EntryInv(dir, s)
    BY <1>1, <1>3, InMemory DEF EntryInv
  <2>3. \A q \in Pkgs : OnRecord(dir, q) => s.packages[q].latestVerified \/ q = p
    BY <1>1, <1>3, InMemory, Constants
  <2> QED BY <1>1, <1>3, <1>4, <2>1, <2>2, <2>3 DEF Finalizing
<1>6. CASE RecordTag(s, p, "latestVerified")
  <2>1. PICK flag \in Flags : flag = "latestVerified"
    BY DEF Flags
  <2>2. RecordTag(s, p, flag)
    BY <1>6, <2>1
  <2> QED BY <1>1, <1>3, <1>5, <2>1, <2>2, RecordTagStep
<1>7. CASE BeginAttempt(s, p)
  BY <1>1, <1>3, <1>5, <1>7, BeginAttemptStep
<1> QED BY <1>2, <1>6, <1>7 DEF promoteLatest

LEMMA RemoveNextStep == ASSUME ReleaseInv, NEW p \in Pkgs, removeNext(p) PROVE ReleaseInv'
<1>1. /\ mem \in States /\ mem.phase \in {"PROMOTED", "REMOVING_NEXT"}
      /\ validateState(manifest, mem) /\ allPackagesReady(manifest, mem) /\ manifest # None
      /\ {mem.attempt, mem.finalizationBlocker} \subseteq {0, p}
      /\ p \in publicationPackages(manifest) /\ UNCHANGED Env
  BY PreparedFacts, Constants DEF removeNext
<1>2. PICK sel : sel = publicationPackages(manifest)
  OBVIOUS
<1>3. PICK s : s = IF mem.phase = "PROMOTED"
                   THEN transition(Flag(mem, sel, "latestVerified"), "REMOVING_NEXT")
                   ELSE mem
  OBVIOUS
<1>4. /\ s \in States /\ s.phase = "REMOVING_NEXT"
      /\ s.attempt = mem.attempt /\ s.finalizationBlocker = mem.finalizationBlocker
      /\ \A q \in Pkgs :
           LET e == mem.packages[q] v == s.packages[q]
           IN /\ v.status = e.status /\ v.integrity = e.integrity
              /\ v.registryVerified <=> e.registryVerified
              /\ v.externalInstallVerified <=> e.externalInstallVerified
              /\ v.latestVerified <=> e.latestVerified \/ (q \in sel /\ mem.phase = "PROMOTED")
              /\ v.nextRemoved <=> e.nextRemoved
              /\ q \notin sel => v = e
  <2>1. CASE mem.phase = "PROMOTED"
    <3>1. PICK to \in Phases : to = "REMOVING_NEXT"
      BY DEF Phases
    <3>2. PICK flag \in Flags : flag = "latestVerified"
      BY DEF Flags
    <3>3. PICK u : u = Flag(mem, sel, flag)
      OBVIOUS
    <3>4. sel \in SUBSET Pkgs
      BY <1>2, Constants
    <3>5. /\ u \in States /\ u.phase = mem.phase /\ u.attempt = mem.attempt
          /\ u.finalizationBlocker = mem.finalizationBlocker
          /\ \A q \in Pkgs :
               LET e == mem.packages[q] v == u.packages[q]
               IN /\ v.status = e.status /\ v.integrity = e.integrity
                  /\ v.registryVerified <=> e.registryVerified
                  /\ v.externalInstallVerified <=> e.externalInstallVerified
                  /\ v.latestVerified <=> e.latestVerified \/ q \in sel
                  /\ v.nextRemoved <=> e.nextRemoved
                  /\ q \notin sel => v = e
      <4>1. /\ u \in States /\ u.phase = mem.phase /\ u.attempt = mem.attempt
            /\ u.finalizationBlocker = mem.finalizationBlocker
            /\ \A q \in Pkgs : Raised(mem.packages[q], u.packages[q], q, sel, flag)
        BY <1>1, <3>3, <3>4, Flagged
      <4>2. flag # "registryVerified" /\ flag # "externalInstallVerified" /\ flag # "nextRemoved"
        BY <3>2
      <4> QED BY <3>2, <4>1, <4>2 DEF Raised
    <3>6. s = transition(u, to)
      BY <1>3, <2>1, <3>1, <3>2, <3>3
    <3>7. s \in States /\ s.phase = to /\ s.packages = u.packages /\ s.attempt = u.attempt
          /\ s.finalizationBlocker = u.finalizationBlocker
      BY <3>5, <3>6, Transition
    <3> QED BY <2>1, <3>1, <3>5, <3>7
  <2>2. CASE mem.phase = "REMOVING_NEXT"
    BY <1>1, <1>3, <2>2
  <2> QED BY <1>1, <2>1, <2>2
<1>5. validateState(manifest, s)
  <2>1. CASE mem.phase = "PROMOTED"
    <3>1. assertFinalizationState(manifest, mem)
      BY <1>1 DEF validateState
    <3>2. ASSUME NEW q \in Pkgs
          PROVE  LET e == s.packages[q]
                 IN e.latestVerified \/ e.nextRemoved =>
                      /\ q \in sel
                      /\ e.status = "published" /\ e.registryVerified /\ e.externalInstallVerified
                      /\ e.nextRemoved => e.latestVerified
      BY <1>1, <1>2, <1>4, <2>1, <3>1 DEF assertFinalizationState, allPackagesReady
    <3>3. \A q \in sel : s.packages[q].latestVerified
      BY <1>2, <1>4, <2>1, Constants
    <3>4. s.attempt = 0 /\ s.finalizationBlocker = 0
      BY <1>4, <2>1, <3>1 DEF assertFinalizationState
    <3>5. assertFinalizationState(manifest, s)
      BY <1>2, <1>4, <3>2, <3>3, <3>4 DEF assertFinalizationState
    <3>6. \A q \in Pkgs \ sel : manifest.selected => s.packages[q] = Pending
      BY <1>1, <1>2, <1>4 DEF validateState
    <3> QED BY <1>2, <3>5, <3>6 DEF validateState
  <2>2. CASE mem.phase = "REMOVING_NEXT"
    BY <1>1, <1>3, <2>2
  <2> QED BY <1>1, <2>1, <2>2
<1>6. Finalizing(s, p)
  <2>1. allPackagesReady(manifest, s)
    BY <1>1, <1>4, Constants DEF allPackagesReady
  <2>2. EntryInv(dir, s)
    BY <1>1, <1>4, InMemory DEF EntryInv
  <2>3. \A q \in Pkgs : OnRecord(dir, q) => s.packages[q].latestVerified \/ q = p
    BY <1>1, <1>4, InMemory, Constants
  <2> QED BY <1>1, <1>4, <1>5, <2>1, <2>2, <2>3 DEF Finalizing
<1>7. CASE RecordTag(s, p, "nextRemoved")
  <2>1. PICK flag \in Flags : flag = "nextRemoved"
    BY DEF Flags
  <2>2. RecordTag(s, p, flag)
    BY <1>7, <2>1
  <2> QED BY <1>1, <1>4, <1>6, <2>1, <2>2, RecordTagStep
<1>8. CASE BeginAttempt(s, p)
  BY <1>1, <1>4, <1>6, <1>8, BeginAttemptStep
<1> QED BY <1>2, <1>3, <1>7, <1>8 DEF removeNext

\* What is known while the outcome of an attempt is open.
LEMMA Attempted ==
  ASSUME ReleaseInv, pc.op \in Tagging
  PROVE  /\ mem \in States /\ manifest # None /\ pc.p \in Pkgs /\ Finalizing(mem, pc.p)
<1>1. /\ mem \in States /\ validateState(manifest, mem) /\ pc.p \in publicationPackages(manifest)
      /\ TagReady(mem, pc)
  BY DEF ReleaseInv, StageInv, OperationInv
<1>2. \A q \in Pkgs : OnRecord(dir, q) => mem.packages[q].latestVerified \/ q = pc.p
  BY <1>1, InMemory, Constants DEF TagReady
<1> QED BY <1>1, <1>2, InMemory, Constants DEF TagReady, Finalizing

LEMMA ObserveTagStep == ASSUME ReleaseInv, observeTag PROVE ReleaseInv'
<1>1. pc.op \in Tagging /\ UNCHANGED Env
  BY DEF observeTag, Tagging
<1>2. PICK s \in States, p \in Pkgs : s = mem /\ p = pc.p
  BY <1>1, Attempted
<1>3. Finalizing(s, p) /\ manifest # None /\ s.attempt = p
  BY <1>1, <1>2, Attempted DEF ReleaseInv, OperationInv, TagReady
<1>4. PICK next \in Cuts : next = Idle
  BY IdleCut
<1>5. p \in 0..N /\ 0 \in 0..N
  BY Constants
<1>6. CASE saveState([mem EXCEPT !.finalizationBlocker = pc.p], Idle)
  <2>1. PICK t : t = [s EXCEPT !.finalizationBlocker = p]
    OBVIOUS
  <2>2. t \in States /\ t.phase = s.phase /\ t.packages = s.packages /\ t.attempt = s.attempt
        /\ t.finalizationBlocker = p
    BY <1>5, <2>1 DEF States
  <2>3. saveState(t, next)
    BY <1>2, <1>4, <1>6, <2>1
  <2>4. /\ {t.attempt, t.finalizationBlocker} \subseteq {0, p}
        /\ p \in {t.attempt, t.finalizationBlocker}
    BY <1>3, <2>2
  <2> QED BY <1>1, <1>3, <1>4, <2>2, <2>3, <2>4, AttemptStep
<1>7. CASE saveState([mem EXCEPT !.attempt = 0, !.finalizationBlocker = pc.p], Idle)
  <2>1. PICK t : t = [s EXCEPT !.attempt = 0, !.finalizationBlocker = p]
    OBVIOUS
  <2>2. t \in States /\ t.phase = s.phase /\ t.packages = s.packages /\ t.attempt = 0
        /\ t.finalizationBlocker = p
    BY <1>5, <2>1 DEF States
  <2>3. saveState(t, next)
    BY <1>2, <1>4, <1>7, <2>1
  <2>4. /\ {t.attempt, t.finalizationBlocker} \subseteq {0, p}
        /\ p \in {t.attempt, t.finalizationBlocker}
    BY <1>3, <2>2
  <2> QED BY <1>1, <1>3, <1>4, <2>2, <2>3, <2>4, AttemptStep
<1>8. CASE RecordTag(mem, pc.p, TagFlag(Tag))
  <2>1. PICK flag : flag = TagFlag(Tag)
    OBVIOUS
  <2>2. flag = (IF s.phase = "PROMOTING_LATEST" THEN "latestVerified" ELSE "nextRemoved")
    BY <1>2, <2>1 DEF TagFlag, Tag
  <2>3. flag \in Flags
    BY <2>2 DEF Flags
  <2>4. RecordTag(s, p, flag)
    BY <1>2, <1>8, <2>1
  <2> QED BY <1>1, <1>3, <2>2, <2>3, <2>4, RecordTagStep
<1> QED BY <1>6, <1>7, <1>8 DEF observeTag

LEMMA VerifyLatestStep == ASSUME ReleaseInv, verifyLatestPromotion PROVE ReleaseInv'
<1>1. /\ mem \in States /\ mem.phase = "PROMOTING_LATEST" /\ validateState(manifest, mem)
      /\ allPackagesReady(manifest, mem) /\ manifest # None
      /\ mem.attempt = 0 /\ mem.finalizationBlocker = 0
      /\ \A p \in publicationPackages(manifest) : mem.packages[p].latestVerified
      /\ UNCHANGED Env
  <2>1. PICK phases : phases = {"PROMOTING_LATEST"} /\ prepare(phases, 0)
    BY DEF verifyLatestPromotion
  <2> QED BY <2>1, PreparedFacts DEF verifyLatestPromotion, AllFlagged
<1>2. PICK to \in Phases : to = "PROMOTED"
  BY DEF Phases
<1>3. PICK s : s = transition(mem, to)
  OBVIOUS
<1>4. s \in States /\ s.phase = to /\ s.packages = mem.packages /\ s.attempt = mem.attempt
      /\ s.finalizationBlocker = mem.finalizationBlocker
  BY <1>1, <1>3, Transition
<1>5. PICK next \in Cuts : next = Idle
  BY IdleCut
<1>6. saveState(s, next)
  BY <1>2, <1>3, <1>5 DEF verifyLatestPromotion
<1>7. validateState(manifest, s)
  <2>1. assertFinalizationState(manifest, mem)
    BY <1>1 DEF validateState
  <2>2. assertFinalizationState(manifest, s)
    BY <1>1, <1>2, <1>4, <2>1 DEF assertFinalizationState
  <2> QED BY <1>1, <1>4, <2>2 DEF validateState
<1>8. EntryInv(dir, s)
  BY <1>1, <1>4, InMemory DEF EntryInv
<1>9. \A q \in Pkgs : OnRecord(dir, q) => s.packages[q].latestVerified
  BY <1>1, <1>4, InMemory, Constants
<1>10. Savable(s, next)
  BY <1>5, <1>7, <1>8, <1>9 DEF Savable
<1> QED BY <1>1, <1>4, <1>6, <1>10, SaveStep

LEMMA VerifyFinalizationStep == ASSUME ReleaseInv, verifyFinalization PROVE ReleaseInv'
<1>1. /\ mem \in States /\ mem.phase = "REMOVING_NEXT" /\ validateState(manifest, mem)
      /\ allPackagesReady(manifest, mem) /\ manifest # None
      /\ mem.attempt = 0 /\ mem.finalizationBlocker = 0
      /\ \A p \in publicationPackages(manifest) : mem.packages[p].nextRemoved
      /\ UNCHANGED Env
  <2>1. PICK phases : phases = {"REMOVING_NEXT"} /\ prepare(phases, 0)
    BY DEF verifyFinalization
  <2> QED BY <2>1, PreparedFacts DEF verifyFinalization, AllFlagged
<1>2. PICK to \in Phases : to = "FINALIZED"
  BY DEF Phases
<1>3. PICK s : s = transition(mem, to)
  OBVIOUS
<1>4. s \in States /\ s.phase = to /\ s.packages = mem.packages /\ s.attempt = mem.attempt
      /\ s.finalizationBlocker = mem.finalizationBlocker
  BY <1>1, <1>3, Transition
<1>5. PICK next \in Cuts : next = Idle
  BY IdleCut
<1>6. saveState(s, next)
  BY <1>2, <1>3, <1>5 DEF verifyFinalization
<1>7. validateState(manifest, s)
  <2>1. assertFinalizationState(manifest, mem)
    BY <1>1 DEF validateState
  <2>2. assertFinalizationState(manifest, s)
    BY <1>1, <1>2, <1>4, <2>1 DEF assertFinalizationState
  <2> QED BY <1>1, <1>4, <2>2 DEF validateState
<1>8. EntryInv(dir, s)
  BY <1>1, <1>4, InMemory DEF EntryInv
<1>9. \A q \in Pkgs : OnRecord(dir, q) => s.packages[q].latestVerified
  BY <1>1, <1>4, InMemory, Constants
<1>10. Savable(s, next)
  BY <1>5, <1>7, <1>8, <1>9 DEF Savable
<1> QED BY <1>1, <1>4, <1>6, <1>10, SaveStep

(***************************************************************************)
(* The effect on a tag, at once, late or lost.                             *)
(***************************************************************************)
LEMMA TagMoved ==
  ASSUME npm \in Registry, NEW tag \in {"latest", "next"}, NEW p \in Pkgs
  PROVE  LET r == SetTag(tag, p)
         IN /\ r \in Registry /\ r.version = npm.version /\ r.accepted = npm.accepted
            /\ r.late = npm.late
            /\ \A q \in Pkgs : r.latest[q] = "ours" => npm.latest[q] = "ours" \/ (tag = "latest" /\ q = p)
<1>1. CASE tag = "latest"
  <2> DEFINE l == [npm.latest EXCEPT ![p] = "ours"]
  <2>1. /\ l \in [Pkgs -> {"old", "none", "foreign", "ours"}]
        /\ \A q \in Pkgs : l[q] = "ours" => npm.latest[q] = "ours" \/ q = p
    BY DEF Registry
  <2>2. SetTag(tag, p) = [npm EXCEPT !.latest = l]
    BY <1>1 DEF SetTag, TagValue
  <2> HIDE DEF l
  <2> QED BY <1>1, <2>1, <2>2 DEF Registry
<1>2. CASE tag = "next"
  <2> DEFINE n == [npm.next EXCEPT ![p] = "none"]
  <2>1. n \in [Pkgs -> {"none", "foreign", "ours"}]
    BY DEF Registry
  <2>2. SetTag(tag, p) = [npm EXCEPT !.next = n]
    BY <1>2 DEF SetTag, TagValue
  <2> HIDE DEF n
  <2> QED BY <1>2, <2>1, <2>2 DEF Registry
<1> QED BY <1>1, <1>2

LEMMA ApplyTagStep == ASSUME ReleaseInv, applyTag PROVE ReleaseInv'
<1>1. /\ pc.op = "tag" /\ pc.op \in Tagging
      /\ UNCHANGED <<checkout, defects, dir, disk, mem, restored>>
      /\ npm' \in {SetTag(Tag, pc.p), [npm EXCEPT !.late = @ \cup {<<Tag, pc.p>>}], npm}
      /\ pc' = At("reobserve", pc.p, FALSE)
  BY DEF applyTag, Tagging
<1>2. PICK p \in Pkgs, tag \in {"latest", "next"} : p = pc.p /\ tag = Tag
  BY <1>1, Attempted DEF Tag
<1>3. mem \in States /\ manifest # None /\ Finalizing(mem, p) /\ npm \in Registry /\ mem.attempt = p
  BY <1>1, <1>2, Attempted DEF ReleaseInv, ReleaseTypeInv, OperationInv, TagReady
<1>4. /\ npm' \in Registry /\ npm'.version = npm.version /\ npm'.accepted = npm.accepted
      /\ npm'.late \subseteq npm.late \cup {<<tag, p>>}
      /\ \A q \in Pkgs : npm'.latest[q] = "ours" => npm.latest[q] = "ours" \/ (tag = "latest" /\ q = p)
  <2>1. CASE npm' = SetTag(tag, p)
    BY <1>2, <1>3, <2>1, TagMoved
  <2>2. CASE npm' = [npm EXCEPT !.late = @ \cup {<<tag, p>>}]
    BY <1>2, <1>3, <2>2 DEF Registry
  <2>3. CASE npm' = npm
    BY <1>3, <2>3
  <2> QED BY <1>1, <1>2, <2>1, <2>2, <2>3
<1>5. /\ OriginInv' /\ StatesInv' /\ ValidInv' /\ Manifests' = Manifests
      /\ \A d \in Manifests, q \in Pkgs : Supplied(d, q) => Supplied(d, q)'
      /\ \A d \in Manifests : OneBuild(d) => OneBuild(d)'
      /\ \A d \in Manifests, q \in Pkgs : OnRecord(d, q) => OnRecord(d, q)'
  <2>1. \A q \in Pkgs : Taken(q) => Taken(q)'
    BY <1>4 DEF Taken
  <2>2. \A q \in Pkgs : npm.version[q] # None => npm'.version[q] = npm.version[q]
    BY <1>4
  <2> QED BY <1>1, <1>4, <2>1, <2>2, RegistryStep
<1>6. pc' \in Cuts /\ pc'.op = "reobserve" /\ pc'.p = p
  <2>1. PICK op \in Ops, ok \in BOOLEAN : op = "reobserve" /\ ok = FALSE
    BY DEF Ops, Tagging
  <2>2. pc' = At(op, p, ok)
    BY <1>1, <1>2, <2>1
  <2> QED BY <2>1, <2>2, Cut
<1>7. ReleaseTypeInv'
  BY <1>1, <1>4, <1>6 DEF ReleaseInv, ReleaseTypeInv, Cuts
<1>8. PackInv'
  BY <1>6 DEF PackInv
<1>9. manifest' = manifest /\ Here' = Here
  BY <1>1 DEF manifest, Here
<1>10. StageInv'
  <2>1. pc'.op \notin {"idle", "packState"}
    BY <1>6
  <2>2. mem' \in States /\ pc'.p \in publicationPackages(manifest') /\ validateState(manifest', mem')
    BY <1>1, <1>3, <1>6, <1>9 DEF Finalizing
  <2> QED BY <1>1, <1>9, <2>1, <2>2 DEF ReleaseInv, StageInv
<1>11. OperationInv'
  <2>1. TagReady(mem, pc)'
    BY <1>1, <1>2, <1>6, <1>9 DEF ReleaseInv, OperationInv, TagReady
  <2> QED BY <1>6, <2>1 DEF OperationInv, Publishing, Tagging
<1>12. RegistryInv'
  BY <1>1, <1>4, <1>5, Constants DEF ReleaseInv, RegistryInv, Manifests
<1>13. dir \in Manifests /\ p \in publicationPackages(disk[dir].manifest) /\ OneBuild(dir)
       /\ (tag = "latest" => OnRecord(dir, p))
  <2>1. dir \in Manifests /\ manifest = disk[dir].manifest /\ EntryInv(dir, mem)
    BY <1>3, InMemory
  <2>2. \A q \in publicationPackages(manifest) : mem.packages[q].registryVerified /\ q \in Pkgs
    BY <1>3, Constants DEF Finalizing, allPackagesReady
  <2>3. mem.phase # "PACKED"
    BY <1>3 DEF Finalizing
  <2>4. OneBuild(dir)
    BY <2>1, <2>2, <2>3 DEF OneBuild, EntryInv
  <2>5. OnRecord(dir, p)
    BY <1>3, InMemory
  <2> QED BY <1>3, <2>1, <2>4, <2>5 DEF Finalizing
<1>14. LatestInv'
  <2> SUFFICES ASSUME NEW q \in Pkgs, npm'.latest[q] = "ours" \/ <<"latest", q>> \in npm'.late
      PROVE  /\ \E d \in Manifests : q \in publicationPackages(disk'[d].manifest) /\ OneBuild(d)'
             /\ \E d \in Manifests : OnRecord(d, q)'
    BY <1>5 DEF LatestInv
  <2>1. CASE npm.latest[q] = "ours" \/ <<"latest", q>> \in npm.late
    BY <1>1, <1>5, <2>1 DEF ReleaseInv, LatestInv
  <2>2. CASE tag = "latest" /\ q = p
    BY <1>1, <1>5, <1>13, <2>2
  <2> QED BY <1>4, <2>1, <2>2
<1> QED BY <1>5, <1>7, <1>8, <1>10, <1>11, <1>12, <1>14 DEF ReleaseInv

(***************************************************************************)
(* The world around the operator.                                          *)
(***************************************************************************)
LEMMA FreshDirectoryStep == ASSUME ReleaseInv, FreshDirectory PROVE ReleaseInv'
<1>1. /\ pc = Idle /\ pc' = Idle /\ mem = None /\ mem' = None
      /\ dir' = dir + 1 /\ dir < MaxDirs
      /\ UNCHANGED <<checkout, defects, disk, npm, restored>>
  BY DEF FreshDirectory
<1>2. dir \in 1..MaxDirs /\ dir' \in 1..MaxDirs
  BY <1>1, Constants DEF ReleaseInv, ReleaseTypeInv
<1>3. ReleaseTypeInv'
  BY <1>1, <1>2 DEF ReleaseInv, ReleaseTypeInv
<1>4. OriginInv'
  <2>1. \A d \in 1..MaxDirs : d > dir' => d > dir
    BY <1>1, <1>2
  <2> QED BY <1>1, <2>1 DEF ReleaseInv, OriginInv, ManifestInv
<1>5. PackInv' /\ OperationInv' /\ StageInv'
  BY <1>1, IdleCut, NoneIsNoRecord DEF PackInv, OperationInv, StageInv, Publishing, Tagging
<1>6. RegistryInv' /\ ValidInv' /\ LatestInv'
  BY <1>1 DEF ReleaseInv, RegistryInv, ValidInv, LatestInv, Manifests, OneBuild, OnRecord, Supplied, Taken
<1>7. StatesInv'
  BY <1>1, NoneIsNoRecord DEF ReleaseInv, StatesInv, Manifests, EntryInv, Supplied, Taken
<1> QED BY <1>3, <1>4, <1>5, <1>6, <1>7 DEF ReleaseInv

\* What a change of the tree leaves as it was.
LEMMA TreeStep ==
  ASSUME ReleaseInv, manifest = None, UNCHANGED <<dir, disk, mem, pc, npm>>,
         checkout' \in [rev : 1..MaxRev, clean : BOOLEAN], checkout.rev <= checkout'.rev,
         defects' \in [1..MaxRev -> Defects \cup {"none"}],
         \A r \in 1..checkout.rev : defects'[r] = defects[r],
         restored \subseteq restored', PackInv'
  PROVE  ReleaseInv'
<1>1. ReleaseTypeInv'
  BY DEF ReleaseInv, ReleaseTypeInv
<1>2. ASSUME NEW d \in Manifests
      PROVE  disk[d].manifest.rev \in 1..checkout.rev /\ disk[d].manifest # None /\ d \in 1..MaxDirs
  <2>1. disk[d].manifest \in Plans /\ disk[d].manifest.rev <= checkout.rev
    BY DEF Manifests, ReleaseInv, ReleaseTypeInv, OriginInv, ManifestInv, Evidence, Optional
  <2>2. disk[d].manifest.rev \in 1..MaxRev
    BY <2>1 DEF Plans
  <2>3. checkout.rev \in 1..MaxRev
    BY DEF ReleaseInv, ReleaseTypeInv
  <2> QED BY <2>1, <2>2, <2>3, Constants DEF Manifests
<1>3. OriginInv'
  <2> SUFFICES ASSUME NEW d \in 1..MaxDirs
      PROVE  /\ d > dir => disk[d] = NoEvidence
             /\ disk[d].receipt # None =>
                  /\ disk[d].receipt.rev <= checkout'.rev
                  /\ validatePublishOrder /\ assertSelectionDependencies(disk[d].receipt.selected)
             /\ disk[d].manifest # None => ManifestInv(d)'
             /\ disk[d].state # None => disk[d].manifest # None
    BY DEF OriginInv
  <2>1. checkout.rev \in Nat /\ checkout'.rev \in Nat
    BY Constants DEF ReleaseInv, ReleaseTypeInv
  <2>2. disk[d].receipt # None => disk[d].receipt.rev \in Nat
    BY Constants DEF ReleaseInv, ReleaseTypeInv, Evidence, Optional, Receipts
  <2>3. disk[d].manifest # None => ManifestInv(d)'
    <3> SUFFICES ASSUME disk[d].manifest # None
        PROVE  ManifestInv(d)'
      OBVIOUS
    <3>1. ManifestInv(d) /\ disk[d].manifest.rev \in Nat
      <4>1. ManifestInv(d) /\ d \in Manifests
        BY DEF ReleaseInv, OriginInv, Manifests
      <4>2. disk[d].manifest.rev \in 1..checkout.rev
        BY <1>2, <4>1
      <4>3. 1..checkout.rev \subseteq Nat
        BY <2>1
      <4> QED BY <4>1, <4>2, <4>3
    <3>2. disk[d].manifest.rev <= checkout'.rev
      <4>1. disk[d].manifest.rev <= checkout.rev
        BY <3>1 DEF ManifestInv
      <4> QED BY <2>1, <3>1, <4>1
    <3>3. d \notin restored' => d \notin restored
      OBVIOUS
    <3> QED BY <3>1, <3>2, <3>3 DEF ManifestInv
  <2> QED BY <2>1, <2>2, <2>3 DEF ReleaseInv, OriginInv
<1>4. StageInv' /\ OperationInv' /\ RegistryInv' /\ ValidInv'
  BY DEF ReleaseInv, StageInv, OperationInv, PublishReady, TagReady, RegistryInv, ValidInv, Manifests,
         Supplied, Taken, Here, manifest, Predecessors
<1>5. mem \notin States
  BY InMemory
<1>6. \A d \in Manifests : defects'[disk[d].manifest.rev] = defects[disk[d].manifest.rev]
  BY <1>2
<1>7. StatesInv'
  BY <1>5, <1>6 DEF ReleaseInv, StatesInv, Manifests, EntryInv, Supplied, Taken
<1>8. LatestInv'
  BY <1>6 DEF ReleaseInv, LatestInv, Manifests, OneBuild, OnRecord
<1> QED BY <1>1, <1>3, <1>4, <1>7, <1>8 DEF ReleaseInv

LEMMA DeveloperStep == ASSUME ReleaseInv, Developer PROVE ReleaseInv'
<1>1. manifest = None /\ UNCHANGED <<dir, disk, mem, pc, npm, restored>>
  BY DEF Developer
<1>2. checkout \in [rev : 1..MaxRev, clean : BOOLEAN] /\ checkout.rev \in 1..MaxRev
      /\ defects \in [1..MaxRev -> Defects \cup {"none"}]
  BY DEF ReleaseInv, ReleaseTypeInv
<1>3. CASE checkout' = [checkout EXCEPT !.clean = FALSE] /\ UNCHANGED defects
  <2>1. checkout' \in [rev : 1..MaxRev, clean : BOOLEAN] /\ checkout'.rev = checkout.rev
        /\ checkout'.clean = FALSE
    BY <1>2, <1>3
  <2>2. PackInv'
    BY <1>1, <2>1 DEF ReleaseInv, PackInv, Here, manifest
  <2> QED BY <1>1, <1>2, <1>3, <2>1, <2>2, TreeStep, Constants
<1>4. CASE /\ checkout.rev < MaxRev
           /\ checkout' = [rev |-> checkout.rev + 1, clean |-> TRUE]
           /\ \E d \in Defects \cup {"none"} : defects' = [defects EXCEPT ![checkout.rev + 1] = d]
  <2>1. checkout' \in [rev : 1..MaxRev, clean : BOOLEAN] /\ checkout'.rev = checkout.rev + 1
    BY <1>2, <1>4, Constants
  <2>2. /\ defects' \in [1..MaxRev -> Defects \cup {"none"}]
        /\ \A r \in 1..checkout.rev : defects'[r] = defects[r]
    BY <1>2, <1>4, Constants
  <2>3. Here.receipt # None => Here.receipt.rev # checkout'.rev
    <3> SUFFICES ASSUME Here.receipt # None
        PROVE  Here.receipt.rev <= checkout.rev /\ Here.receipt.rev \in Nat
      BY <1>2, <2>1, Constants
    <3> QED BY Constants DEF ReleaseInv, ReleaseTypeInv, OriginInv, Here, Evidence, Optional, Receipts
  <2>4. PackInv'
    BY <1>1, <2>3 DEF ReleaseInv, PackInv, Here, manifest
  <2>5. checkout.rev <= checkout'.rev
    BY <1>2, <2>1, Constants
  <2> QED BY <1>1, <2>1, <2>2, <2>4, <2>5, TreeStep
<1> QED BY <1>3, <1>4 DEF Developer

LEMMA RestoreStep == ASSUME ReleaseInv, Restore PROVE ReleaseInv'
<1>1. /\ manifest = None /\ UNCHANGED <<defects, dir, disk, mem, pc, npm>>
      /\ checkout' = [checkout EXCEPT !.clean = TRUE]
      /\ restored' = IF pc.op = "pack" THEN restored \cup {dir} ELSE restored
  BY DEF Restore
<1>2. checkout \in [rev : 1..MaxRev, clean : BOOLEAN] /\ checkout.rev \in 1..MaxRev
      /\ defects \in [1..MaxRev -> Defects \cup {"none"}]
  BY DEF ReleaseInv, ReleaseTypeInv
<1>3. checkout' \in [rev : 1..MaxRev, clean : BOOLEAN] /\ checkout'.rev = checkout.rev
  BY <1>1, <1>2
<1>4. PackInv'
  BY <1>1 DEF ReleaseInv, PackInv, Here, manifest
<1>5. restored \subseteq restored'
  BY <1>1
<1> QED BY <1>1, <1>2, <1>3, <1>4, <1>5, TreeStep, Constants

\* A tarball of the directory in use is written or damaged.
LEMMA TarballWritten ==
  ASSUME ReleaseTypeInv, NEW p \in Pkgs, NEW b \in Optional(Tarballs),
         disk' = [disk EXCEPT ![dir].tarballs[p] = b]
  PROVE  /\ disk' \in [1..MaxDirs -> Evidence]
         /\ \A d \in 1..MaxDirs :
              /\ disk'[d].receipt = disk[d].receipt /\ disk'[d].tarballDir = disk[d].tarballDir
              /\ disk'[d].state = disk[d].state /\ disk'[d].manifest = disk[d].manifest
              /\ d # dir => disk'[d] = disk[d]
         /\ \A q \in Pkgs : disk'[dir].tarballs[q] = IF q = p THEN b ELSE disk[dir].tarballs[q]
<1>1. disk[dir] \in Evidence /\ disk \in [1..MaxDirs -> Evidence] /\ dir \in 1..MaxDirs
  BY DEF ReleaseTypeInv
<1> DEFINE f == [disk[dir].tarballs EXCEPT ![p] = b]
<1>2. /\ f \in [Pkgs -> Optional(Tarballs)]
      /\ \A q \in Pkgs : f[q] = IF q = p THEN b ELSE disk[dir].tarballs[q]
  BY <1>1 DEF Evidence
<1> DEFINE e == [disk[dir] EXCEPT !.tarballs = f]
<1>3. disk' = [disk EXCEPT ![dir] = e]
  OBVIOUS
<1> HIDE DEF f
<1>4. e \in Evidence /\ e.receipt = disk[dir].receipt /\ e.tarballDir = disk[dir].tarballDir
      /\ e.tarballs = f /\ e.manifest = disk[dir].manifest /\ e.state = disk[dir].state
  BY <1>1, <1>2 DEF Evidence
<1> HIDE DEF e
<1> QED BY <1>1, <1>2, <1>3, <1>4

\* Nothing but a tarball of this directory changed.
LEMMA TarballStep ==
  ASSUME ReleaseInv, UNCHANGED <<checkout, defects, dir, npm, restored>>,
         NEW p \in Pkgs, NEW b \in Optional(Tarballs),
         disk' = [disk EXCEPT ![dir].tarballs[p] = b],
         mem' \in {None} \cup Packing \cup States, pc' \in Cuts,
         manifest # None => b = Damaged,
         PackInv', StageInv', OperationInv', mem' \in States => mem' = mem
  PROVE  ReleaseInv'
<1>1. /\ disk' \in [1..MaxDirs -> Evidence]
      /\ \A d \in 1..MaxDirs :
           /\ disk'[d].receipt = disk[d].receipt /\ disk'[d].tarballDir = disk[d].tarballDir
           /\ disk'[d].state = disk[d].state /\ disk'[d].manifest = disk[d].manifest
           /\ d # dir => disk'[d] = disk[d]
      /\ \A q \in Pkgs : disk'[dir].tarballs[q] = IF q = p THEN b ELSE disk[dir].tarballs[q]
  BY TarballWritten DEF ReleaseInv
<1>2. dir \in 1..MaxDirs
  BY DEF ReleaseInv, ReleaseTypeInv
<1>3. ReleaseTypeInv'
  BY <1>1 DEF ReleaseInv, ReleaseTypeInv, Cuts
<1>4. OriginInv'
  <2> SUFFICES ASSUME NEW d \in 1..MaxDirs
      PROVE  /\ d > dir => disk'[d] = NoEvidence
             /\ disk'[d].receipt # None =>
                  /\ disk'[d].receipt.rev <= checkout.rev
                  /\ validatePublishOrder /\ assertSelectionDependencies(disk'[d].receipt.selected)
             /\ disk'[d].manifest # None => ManifestInv(d)'
             /\ disk'[d].state # None => disk'[d].manifest # None
    BY DEF OriginInv
  <2>1. d > dir => d # dir
    BY <1>2
  <2>2. disk[d].manifest # None => ManifestInv(d)'
    <3>1. CASE d = dir
      BY <1>1, <1>2, <3>1 DEF ReleaseInv, OriginInv, ManifestInv, manifest, Here
    <3>2. CASE d # dir
      BY <1>1, <3>2 DEF ReleaseInv, OriginInv, ManifestInv
    <3> QED BY <3>1, <3>2
  <2> QED BY <1>1, <2>1, <2>2 DEF ReleaseInv, OriginInv
<1>5. Manifests' = Manifests
  BY <1>1 DEF Manifests
<1>6. \A d \in 1..MaxDirs, q \in Pkgs : Supplied(d, q)' = Supplied(d, q)
  BY <1>1 DEF Supplied, Taken
<1>7. RegistryInv'
  BY <1>1, <1>6, Constants DEF ReleaseInv, RegistryInv
<1>8. ValidInv'
  BY <1>1, <1>5 DEF ReleaseInv, ValidInv, Manifests
<1>9. ASSUME NEW d \in Manifests
      PROVE  /\ \A s \in States : EntryInv(d, s) => EntryInv(d, s)'
             /\ OneBuild(d) => OneBuild(d)'
             /\ \A q \in Pkgs : OnRecord(d, q) => OnRecord(d, q)'
  BY <1>1, <1>6 DEF EntryInv, OneBuild, OnRecord, Manifests
<1>10. LatestInv'
  BY <1>1, <1>5, <1>9 DEF ReleaseInv, LatestInv, Manifests
<1>11. StatesInv'
  <2>1. mem' \in States => EntryInv(dir, mem)'
    <3>1. PICK s : s = mem
      OBVIOUS
    <3>2. mem' \in States => s \in States /\ dir \in Manifests /\ EntryInv(dir, s)
      BY <3>1, InMemory
    <3>3. mem' \in States => EntryInv(dir, s)'
      BY <1>9, <3>2
    <3> QED BY <3>1, <3>3 DEF EntryInv
  <2>2. ASSUME NEW d \in Manifests, disk'[d].state # None
        PROVE  EntryInv(d, disk[d].state)'
    <3>1. PICK s : s = disk[d].state
      OBVIOUS
    <3>2. s \in States /\ s = disk'[d].state
      BY <1>1, <2>2, <3>1 DEF Manifests, Evidence, Optional
    <3>3. EntryInv(d, s)'
      BY <1>9, <2>2, <3>1, <3>2 DEF ReleaseInv, StatesInv
    <3> QED BY <3>2, <3>3 DEF EntryInv
  <2> QED BY <1>5, <2>1, <2>2 DEF StatesInv
<1> QED BY <1>3, <1>4, <1>7, <1>8, <1>10, <1>11 DEF ReleaseInv

LEMMA OtherMaintainerStep == ASSUME ReleaseInv, OtherMaintainer PROVE ReleaseInv'
<1>1. /\ UNCHANGED <<checkout, defects, dir, mem, pc, plans, restored>>
      /\ npm \in Registry
  BY DEF OtherMaintainer, ReleaseInv, ReleaseTypeInv
<1>2. PICK p \in Pkgs :
        \/ npm' = [npm EXCEPT !.latest[p] = "foreign"] /\ UNCHANGED disk
        \/ npm' = [npm EXCEPT !.next[p] = "foreign"] /\ UNCHANGED disk
        \/ npm' = [npm EXCEPT !.rights = @ \ {p}] /\ UNCHANGED disk
        \/ /\ Here.tarballs[p] # None
           /\ disk' = [disk EXCEPT ![dir].tarballs[p] = Damaged] /\ UNCHANGED npm
  BY DEF OtherMaintainer
<1>3. CASE \/ npm' = [npm EXCEPT !.latest[p] = "foreign"] /\ UNCHANGED disk
           \/ npm' = [npm EXCEPT !.next[p] = "foreign"] /\ UNCHANGED disk
           \/ npm' = [npm EXCEPT !.rights = @ \ {p}] /\ UNCHANGED disk
  <2>1. /\ npm' \in Registry /\ npm'.version = npm.version /\ npm'.accepted = npm.accepted
        /\ npm'.late = npm.late
        /\ \A q \in Pkgs : npm'.latest[q] = "ours" => npm.latest[q] = "ours"
    <3>1. CASE npm' = [npm EXCEPT !.latest[p] = "foreign"]
      <4> DEFINE l == [npm.latest EXCEPT ![p] = "foreign"]
      <4>1. /\ l \in [Pkgs -> {"old", "none", "foreign", "ours"}]
            /\ \A q \in Pkgs : l[q] = "ours" => npm.latest[q] = "ours"
        BY <1>1 DEF Registry
      <4>2. npm' = [npm EXCEPT !.latest = l]
        BY <3>1
      <4> HIDE DEF l
      <4> QED BY <1>1, <4>1, <4>2 DEF Registry
    <3>2. CASE npm' = [npm EXCEPT !.next[p] = "foreign"]
      <4> DEFINE n == [npm.next EXCEPT ![p] = "foreign"]
      <4>1. n \in [Pkgs -> {"none", "foreign", "ours"}]
        BY <1>1 DEF Registry
      <4>2. npm' = [npm EXCEPT !.next = n]
        BY <3>2
      <4> HIDE DEF n
      <4> QED BY <1>1, <4>1, <4>2 DEF Registry
    <3>3. CASE npm' = [npm EXCEPT !.rights = @ \ {p}]
      BY <1>1, <3>3 DEF Registry
    <3> QED BY <1>3, <3>1, <3>2, <3>3
  <2>2. UNCHANGED <<checkout, defects, dir, disk, mem, pc, restored>>
    BY <1>1, <1>3
  <2>3. \A q \in Pkgs : Taken(q) <=> Taken(q)'
    BY <2>1 DEF Taken
  <2>4. /\ OriginInv' /\ StatesInv' /\ ValidInv' /\ Manifests' = Manifests
        /\ \A d \in Manifests, q \in Pkgs : Supplied(d, q) => Supplied(d, q)'
        /\ \A d \in Manifests : OneBuild(d) => OneBuild(d)'
        /\ \A d \in Manifests, q \in Pkgs : OnRecord(d, q) => OnRecord(d, q)'
    BY <2>1, <2>2, <2>3, RegistryStep
  <2>5. ReleaseTypeInv' /\ PackInv' /\ StageInv'
    BY <2>1, <2>2 DEF ReleaseInv, ReleaseTypeInv, PackInv, StageInv, Here, manifest
  <2>6. OperationInv'
    BY <2>1, <2>2 DEF ReleaseInv, OperationInv, PublishReady, TagReady, Taken, Here, manifest, Predecessors
  <2>7. RegistryInv'
    BY <2>1, <2>2, <2>4, Constants DEF ReleaseInv, RegistryInv, Manifests
  <2>8. LatestInv'
    BY <2>1, <2>2, <2>4 DEF ReleaseInv, LatestInv
  <2> QED BY <2>4, <2>5, <2>6, <2>7, <2>8 DEF ReleaseInv
<1>4. CASE disk' = [disk EXCEPT ![dir].tarballs[p] = Damaged] /\ UNCHANGED npm
  <2>1. Damaged \in Optional(Tarballs)
    BY Constants DEF Damaged, Optional, Tarballs
  <2>2. dir \in 1..MaxDirs
    BY DEF ReleaseInv, ReleaseTypeInv
  <2>3. /\ Here'.receipt = Here.receipt /\ Here'.state = Here.state /\ manifest' = manifest
        /\ \A q \in Pkgs : Here'.tarballs[q] = IF q = p THEN Damaged ELSE Here.tarballs[q]
    <3>1. PICK b \in Optional(Tarballs) : b = Damaged
      BY <2>1
    <3>2. ReleaseTypeInv /\ disk' = [disk EXCEPT ![dir].tarballs[p] = b]
      BY <1>4, <3>1 DEF ReleaseInv
    <3>3. /\ disk'[dir].receipt = disk[dir].receipt /\ disk'[dir].state = disk[dir].state
          /\ disk'[dir].manifest = disk[dir].manifest
          /\ \A q \in Pkgs : disk'[dir].tarballs[q] = IF q = p THEN b ELSE disk[dir].tarballs[q]
      BY <2>2, <3>2, TarballWritten
    <3> QED BY <1>1, <3>1, <3>3 DEF Here, manifest
  <2>4. PackInv'
    BY <1>1, <2>3 DEF ReleaseInv, PackInv
  <2>5. StageInv'
    BY <1>1, <2>3 DEF ReleaseInv, StageInv
  <2>6. OperationInv'
    BY <1>1, <1>4, <2>3 DEF ReleaseInv, OperationInv, PublishReady, TagReady, Taken, Predecessors
  <2>7. mem' \in {None} \cup Packing \cup States /\ pc' \in Cuts
    BY <1>1 DEF ReleaseInv, ReleaseTypeInv, Cuts
  <2>8. PICK b \in Optional(Tarballs) : b = Damaged
    BY <2>1
  <2> QED BY <1>1, <1>4, <2>4, <2>5, <2>6, <2>7, <2>8, TarballStep
<1> QED BY <1>2, <1>3, <1>4

\* A step of the registry that takes no new version and moves no tag but a
\* late one.
LEMMA OldNewsStep ==
  ASSUME ReleaseInv, UNCHANGED <<checkout, defects, dir, disk, mem, pc, restored>>,
         npm' \in Registry,
         \A p \in Pkgs : npm.version[p] # None => npm'.version[p] = npm.version[p],
         \A p \in Pkgs : Taken(p) => Taken(p)',
         \A p \in Pkgs : npm'.accepted[p] # None => npm'.version[p] = None,
         \A p \in Pkgs : {npm'.version[p], npm'.accepted[p]} \ {None}
                           \subseteq {npm.version[p], npm.accepted[p]},
         \A p \in Pkgs : npm'.latest[p] = "ours" \/ <<"latest", p>> \in npm'.late =>
                           npm.latest[p] = "ours" \/ <<"latest", p>> \in npm.late
  PROVE  ReleaseInv'
<1>1. /\ OriginInv' /\ StatesInv' /\ ValidInv' /\ Manifests' = Manifests
      /\ \A d \in Manifests, q \in Pkgs : Supplied(d, q) => Supplied(d, q)'
      /\ \A d \in Manifests : OneBuild(d) => OneBuild(d)'
      /\ \A d \in Manifests, q \in Pkgs : OnRecord(d, q) => OnRecord(d, q)'
  BY RegistryStep
<1>2. ReleaseTypeInv' /\ PackInv' /\ StageInv'
  BY DEF ReleaseInv, ReleaseTypeInv, PackInv, StageInv, Here, manifest
<1>3. OperationInv'
  <2>1. pc.op \in Publishing => pc.p \in Pkgs
    BY Underway
  <2>2. pc.op \in Publishing => PublishReady(mem, pc)'
    BY <2>1 DEF ReleaseInv, OperationInv, PublishReady, Predecessors, manifest, Here
  <2>3. pc.op \in Tagging => TagReady(mem, pc)'
    BY DEF ReleaseInv, OperationInv, TagReady, manifest, Here
  <2> QED BY <2>2, <2>3 DEF OperationInv
<1>4. RegistryInv'
  <2> SUFFICES ASSUME NEW p \in Pkgs, NEW d \in 1..MaxDirs,
                      NEW b \in {npm'.version[p], npm'.accepted[p]} \ {None}, b.dir = d
      PROVE  /\ disk'[d].manifest # None
             /\ b = disk'[d].manifest.bytes[p] /\ p \in publicationPackages(disk'[d].manifest) =>
                  \A q \in DependsOn[p] : Supplied(d, q)'
    BY DEF RegistryInv
  <2>1. b \in {npm.version[p], npm.accepted[p]} \ {None}
    OBVIOUS
  <2>2. /\ disk[d].manifest # None
        /\ b = disk[d].manifest.bytes[p] /\ p \in publicationPackages(disk[d].manifest) =>
             \A q \in DependsOn[p] : Supplied(d, q)
    BY <2>1 DEF ReleaseInv, RegistryInv
  <2> QED BY <1>1, <2>2, Constants DEF Manifests
<1>5. LatestInv'
  <2> SUFFICES ASSUME NEW p \in Pkgs, npm'.latest[p] = "ours" \/ <<"latest", p>> \in npm'.late
      PROVE  /\ \E d \in Manifests : p \in publicationPackages(disk'[d].manifest) /\ OneBuild(d)'
             /\ \E d \in Manifests : OnRecord(d, p)'
    BY <1>1 DEF LatestInv
  <2>1. npm.latest[p] = "ours" \/ <<"latest", p>> \in npm.late
    OBVIOUS
  <2> QED BY <1>1, <2>1 DEF ReleaseInv, LatestInv
<1> QED BY <1>1, <1>2, <1>3, <1>4, <1>5 DEF ReleaseInv

LEMMA CatchUpStep == ASSUME ReleaseInv, RegistryCatchesUp PROVE ReleaseInv'
<1>1. UNCHANGED <<checkout, defects, dir, disk, mem, pc, restored>> /\ npm \in Registry
  BY DEF RegistryCatchesUp, ReleaseInv, ReleaseTypeInv
<1>2. ASSUME NEW p \in Pkgs, npm.accepted[p] # None,
             npm' = [npm EXCEPT !.version[p] = npm.accepted[p], !.accepted[p] = None, !.next[p] = "ours"]
      PROVE  ReleaseInv'
  <2> DEFINE v == [npm.version EXCEPT ![p] = npm.accepted[p]]
             a == [npm.accepted EXCEPT ![p] = None]
             n == [npm.next EXCEPT ![p] = "ours"]
  <2>1. /\ v \in [Pkgs -> Optional(Tarballs)] /\ v[p] = npm.accepted[p]
        /\ \A q \in Pkgs : q # p => v[q] = npm.version[q]
    BY <1>1 DEF Registry
  <2>2. /\ a \in [Pkgs -> Optional(Tarballs)] /\ a[p] = None
        /\ \A q \in Pkgs : q # p => a[q] = npm.accepted[q]
    BY <1>1 DEF Registry, Optional
  <2>3. n \in [Pkgs -> {"none", "foreign", "ours"}]
    BY <1>1 DEF Registry
  <2>4. npm' = [npm EXCEPT !.version = v, !.accepted = a, !.next = n]
    BY <1>2
  <2> HIDE DEF v, a, n
  <2>5. /\ npm' \in Registry /\ npm'.version = v /\ npm'.accepted = a
        /\ npm'.latest = npm.latest /\ npm'.late = npm.late
    BY <1>1, <2>1, <2>2, <2>3, <2>4 DEF Registry
  <2>6. npm.version[p] = None
    BY <1>2 DEF ReleaseInv, RegistryInv
  <2>7. \A q \in Pkgs : npm.accepted[q] # None => npm.version[q] = None
    BY DEF ReleaseInv, RegistryInv
  <2>8. /\ \A q \in Pkgs : npm.version[q] # None => npm'.version[q] = npm.version[q]
        /\ \A q \in Pkgs : npm'.accepted[q] # None => npm'.version[q] = None
        /\ \A q \in Pkgs : {npm'.version[q], npm'.accepted[q]} \ {None}
                              \subseteq {npm.version[q], npm.accepted[q]}
    BY <2>1, <2>2, <2>5, <2>6, <2>7
  <2>9. \A q \in Pkgs : Taken(q) => Taken(q)'
    BY <1>2, <2>1, <2>2, <2>5 DEF Taken
  <2> QED BY <1>1, <2>5, <2>8, <2>9, OldNewsStep
<1>3. ASSUME NEW l \in npm.late, npm' = [SetTag(l[1], l[2]) EXCEPT !.late = @ \ {l}]
      PROVE  ReleaseInv'
  <2>1. PICK tag \in {"latest", "next"}, p \in Pkgs : l = <<tag, p>> /\ l[1] = tag /\ l[2] = p
    BY <1>1 DEF Registry
  <2>2. PICK r : r = SetTag(tag, p)
    OBVIOUS
  <2>3. /\ r \in Registry /\ r.version = npm.version /\ r.accepted = npm.accepted
        /\ r.late = npm.late
        /\ \A q \in Pkgs : r.latest[q] = "ours" => npm.latest[q] = "ours" \/ (tag = "latest" /\ q = p)
    BY <1>1, <2>2, TagMoved
  <2>4. npm' = [r EXCEPT !.late = r.late \ {l}]
    BY <1>3, <2>1, <2>2
  <2>5. /\ npm' \in Registry /\ npm'.version = npm.version /\ npm'.accepted = npm.accepted
        /\ npm'.late = npm.late \ {l} /\ npm'.latest = r.latest
    BY <2>3, <2>4 DEF Registry
  <2>6. \A q \in Pkgs : npm'.latest[q] = "ours" \/ <<"latest", q>> \in npm'.late =>
                           npm.latest[q] = "ours" \/ <<"latest", q>> \in npm.late
    BY <2>1, <2>3, <2>5
  <2>7. /\ \A q \in Pkgs : npm'.accepted[q] # None => npm'.version[q] = None
        /\ \A q \in Pkgs : Taken(q) => Taken(q)'
    BY <2>5 DEF ReleaseInv, RegistryInv, Taken
  <2> QED BY <1>1, <2>5, <2>6, <2>7, OldNewsStep
<1> QED BY <1>2, <1>3 DEF RegistryCatchesUp

(***************************************************************************)
(* PRECHECK and PACK.                                                      *)
(***************************************************************************)

\* The directory in use is changed, and keeps its manifest and its state.
LEMMA DirectoryStep ==
  ASSUME ReleaseInv, UNCHANGED <<checkout, defects, dir, npm, restored>>,
         NEW e \in Evidence, disk' = [disk EXCEPT ![dir] = e],
         manifest = None, e.manifest = None, e.state = None,
         e.receipt # None => /\ e.receipt.rev <= checkout.rev
                             /\ validatePublishOrder /\ assertSelectionDependencies(e.receipt.selected),
         mem' \in {None} \cup Packing, pc' \in Cuts,
         PackInv', StageInv', OperationInv'
  PROVE  ReleaseInv'
<1>1. disk \in [1..MaxDirs -> Evidence] /\ dir \in 1..MaxDirs
  BY DEF ReleaseInv, ReleaseTypeInv
<1>2. disk' \in [1..MaxDirs -> Evidence] /\ disk'[dir] = e
      /\ \A d \in 1..MaxDirs : d # dir => disk'[d] = disk[d]
  BY <1>1
<1>3. dir \notin Manifests /\ Manifests' = Manifests
  BY <1>1, <1>2 DEF Manifests, manifest, Here
<1>4. ReleaseTypeInv'
  BY <1>2 DEF ReleaseInv, ReleaseTypeInv, Cuts
<1>5. OriginInv'
  <2> SUFFICES ASSUME NEW d \in 1..MaxDirs
      PROVE  /\ d > dir => disk'[d] = NoEvidence
             /\ disk'[d].receipt # None =>
                  /\ disk'[d].receipt.rev <= checkout.rev
                  /\ validatePublishOrder /\ assertSelectionDependencies(disk'[d].receipt.selected)
             /\ disk'[d].manifest # None => ManifestInv(d)'
             /\ disk'[d].state # None => disk'[d].manifest # None
    BY DEF OriginInv
  <2>1. CASE d = dir
    BY <1>1, <1>2, <2>1
  <2>2. CASE d # dir
    BY <1>2, <2>2 DEF ReleaseInv, OriginInv, ManifestInv
  <2> QED BY <2>1, <2>2
<1>6. \A d \in Manifests : disk'[d] = disk[d] /\ d \in 1..MaxDirs
  BY <1>2, <1>3 DEF Manifests
<1>7. RegistryInv'
  <2> SUFFICES ASSUME NEW p \in Pkgs, NEW d \in 1..MaxDirs,
                      NEW b \in {npm.version[p], npm.accepted[p]} \ {None}, b.dir = d
      PROVE  /\ disk'[d].manifest # None
             /\ b = disk'[d].manifest.bytes[p] /\ p \in publicationPackages(disk'[d].manifest) =>
                  \A q \in DependsOn[p] : Supplied(d, q)'
    BY DEF ReleaseInv, RegistryInv
  <2>1. d \in Manifests
    BY DEF ReleaseInv, RegistryInv, Manifests
  <2> QED BY <1>6, <2>1 DEF ReleaseInv, RegistryInv, Supplied, Taken
<1>8. ValidInv' /\ LatestInv'
  BY <1>3, <1>6 DEF ReleaseInv, ValidInv, LatestInv, OneBuild, OnRecord
<1>9. StatesInv'
  BY <1>3, <1>6, NoneIsNoRecord DEF ReleaseInv, StatesInv, EntryInv, Supplied, Taken
<1> QED BY <1>4, <1>5, <1>7, <1>8, <1>9 DEF ReleaseInv

LEMMA PrecheckStep == ASSUME ReleaseInv, NEW selected \in BOOLEAN, NEW auth \in BOOLEAN, precheck(selected, auth) PROVE ReleaseInv'
<1>1. /\ pc = Idle /\ pc' = Idle /\ mem = None /\ mem' = None /\ Here = NoEvidence
      /\ UNCHANGED <<checkout, defects, dir, npm, restored>>
      /\ assertSelectionDependencies(selected) /\ validatePublishOrder
  BY DEF precheck, Env
<1>2. disk' = [disk EXCEPT ![dir].receipt = [rev |-> checkout.rev, selected |-> selected]]
  BY DEF precheck
<1>3. PICK r : r = [rev |-> checkout.rev, selected |-> selected]
  OBVIOUS
<1>4. r \in Receipts /\ r.rev = checkout.rev /\ r.selected = selected /\ checkout.rev \in Nat
  BY <1>3, Constants DEF ReleaseInv, ReleaseTypeInv, Receipts
<1>5. PICK e : e = [disk[dir] EXCEPT !.receipt = r]
  OBVIOUS
<1>6. e \in Evidence /\ e.receipt = r /\ e.manifest = None /\ e.state = None
  BY <1>1, <1>4, <1>5, EmptyDirectory DEF Evidence, Optional, Here
<1>7. disk' = [disk EXCEPT ![dir] = e]
  BY <1>2, <1>3, <1>5
<1>8. PackInv' /\ StageInv' /\ OperationInv'
  BY <1>1, IdleCut, NoneIsNoRecord DEF PackInv, StageInv, OperationInv, Publishing, Tagging
<1>9. manifest = None
  BY <1>1, EmptyDirectory DEF manifest
<1>10. e.receipt # None => /\ e.receipt.rev <= checkout.rev
                           /\ validatePublishOrder /\ assertSelectionDependencies(e.receipt.selected)
  BY <1>1, <1>4, <1>6
<1> QED BY <1>1, <1>6, <1>7, <1>8, <1>9, <1>10, DirectoryStep, IdleCut

LEMMA PackBeginStep == ASSUME ReleaseInv, packBegin PROVE ReleaseInv'
<1>1. /\ manifest = None /\ Here.state = None /\ Here.receipt # None
      /\ UNCHANGED <<checkout, defects, dir, npm, restored>>
      /\ disk' = [disk EXCEPT ![dir].tarballDir = TRUE]
      /\ mem' = [bytes |-> [p \in Pkgs |-> None]] /\ pc' = At("pack", 1, FALSE)
  BY DEF packBegin, Env, assertReceiptMatchesPack
<1>2. disk \in [1..MaxDirs -> Evidence] /\ dir \in 1..MaxDirs /\ disk[dir] \in Evidence
  BY DEF ReleaseInv, ReleaseTypeInv
<1>3. PICK e : e = [disk[dir] EXCEPT !.tarballDir = TRUE]
  OBVIOUS
<1>4. /\ e \in Evidence /\ e.receipt = disk[dir].receipt /\ e.manifest = disk[dir].manifest
      /\ e.state = disk[dir].state
  BY <1>2, <1>3 DEF Evidence
<1>5. disk' = [disk EXCEPT ![dir] = e] /\ disk'[dir] = e
  BY <1>1, <1>2, <1>3
<1>6. mem' \in Packing /\ mem' \notin States
  BY <1>1, NoneIsNoRecord DEF Packing, Optional
<1>7. pc' \in Cuts /\ pc'.op = "pack" /\ pc'.p = 1
  <2>1. 1 \in 0..(N + 1)
    BY Constants
  <2> QED BY <1>1, <2>1 DEF At, Cuts, Ops
<1>8. Here' = e
  BY <1>1, <1>5 DEF Here
<1>9. PackInv'
  <2>1. Here'.receipt # None /\ manifest' = None /\ Here'.state = None
    BY <1>1, <1>4, <1>8 DEF manifest, Here
  <2>2. 1 \in 1..(N + 1) /\ \A p \in Pkgs : ~(p < 1)
    BY Constants
  <2> QED BY <1>6, <1>7, <2>1, <2>2 DEF PackInv
<1>10. StageInv' /\ OperationInv'
  BY <1>6, <1>7 DEF StageInv, OperationInv, Publishing, Tagging
<1>11. e.receipt # None => /\ e.receipt.rev <= checkout.rev
                           /\ validatePublishOrder /\ assertSelectionDependencies(e.receipt.selected)
  BY <1>2, <1>4 DEF ReleaseInv, OriginInv
<1> QED BY <1>1, <1>4, <1>5, <1>6, <1>7, <1>9, <1>10, <1>11, DirectoryStep DEF manifest, Here

LEMMA PackWithoutOverwriteStep == ASSUME ReleaseInv, packWithoutOverwrite PROVE ReleaseInv'
<1>1. PICK p : p = pc.p
  OBVIOUS
<1>2. PICK b : b = Bytes(checkout.rev, checkout.clean)
  OBVIOUS
<1>3. PICK m : m = mem
  OBVIOUS
<1>4. /\ pc.op = "pack" /\ p <= N /\ pc' = At("pack", p + 1, FALSE)
      /\ disk' = [disk EXCEPT ![dir].tarballs[p] = b] /\ mem' = [m EXCEPT !.bytes[p] = b]
      /\ UNCHANGED <<checkout, defects, dir, npm, restored>>
  BY <1>1, <1>2, <1>3 DEF packWithoutOverwrite, Env
<1>5. /\ m \in Packing /\ p \in Pkgs /\ p + 1 \in 1..(N + 1)
      /\ Here.receipt # None /\ manifest = None /\ Here.state = None
      /\ \A q \in Pkgs : q < p =>
           /\ m.bytes[q] # None /\ m.bytes[q].dir = dir
           /\ Here.tarballs[q] \in {m.bytes[q], Damaged}
           /\ dir \notin restored /\ checkout = [rev |-> Here.receipt.rev, clean |-> TRUE] =>
                m.bytes[q] = [rev |-> Here.receipt.rev, clean |-> TRUE, dir |-> dir]
  <2>1. pc.p \in 1..(N + 1) /\ pc.p = p /\ mem = m
    BY <1>1, <1>3, <1>4 DEF ReleaseInv, PackInv
  <2>2. p \in Pkgs /\ p + 1 \in 1..(N + 1)
    BY <1>4, <2>1, Constants
  <2>3. mem \in Packing /\ Here.receipt # None /\ manifest = None /\ Here.state = None
    BY <1>4 DEF ReleaseInv, PackInv
  <2> QED BY <1>4, <2>1, <2>2, <2>3 DEF ReleaseInv, PackInv
<1>6. checkout.rev \in 1..MaxRev /\ checkout.clean \in BOOLEAN /\ dir \in 1..MaxDirs
  BY DEF ReleaseInv, ReleaseTypeInv
<1>7. b \in Tarballs /\ b # None /\ b.dir = dir /\ b.rev = checkout.rev /\ b.clean = checkout.clean
  BY <1>2, <1>6, Constants, NoneIsNoRecord DEF Bytes, Tarballs
<1>8. PICK f : f = [m.bytes EXCEPT ![p] = b]
  OBVIOUS
<1>9. /\ f \in [Pkgs -> Optional(Tarballs)]
      /\ \A q \in Pkgs : f[q] = IF q = p THEN b ELSE m.bytes[q]
  BY <1>5, <1>7, <1>8 DEF Packing, Optional
<1>10. mem' = [m EXCEPT !.bytes = f]
  BY <1>4, <1>8
<1>11. mem'.bytes = f /\ mem' \in Packing /\ mem' \notin States
  BY <1>5, <1>9, <1>10, NoneIsNoRecord DEF Packing
<1>12. pc' \in Cuts /\ pc'.op = "pack" /\ pc'.p = p + 1
  BY <1>4, <1>5, Constants DEF At, Cuts, Ops
<1>13. /\ \A d \in 1..MaxDirs :
            /\ disk'[d].receipt = disk[d].receipt
            /\ disk'[d].state = disk[d].state /\ disk'[d].manifest = disk[d].manifest
       /\ \A q \in Pkgs : disk'[dir].tarballs[q] = IF q = p THEN b ELSE disk[dir].tarballs[q]
  <2>1. ReleaseTypeInv /\ b \in Optional(Tarballs)
    BY <1>7 DEF ReleaseInv, Optional
  <2> QED BY <1>4, <1>5, <2>1, TarballWritten
<1>14. /\ Here'.receipt = Here.receipt /\ manifest' = manifest /\ Here'.state = Here.state
       /\ \A q \in Pkgs : Here'.tarballs[q] = IF q = p THEN b ELSE Here.tarballs[q]
  BY <1>4, <1>6, <1>13 DEF Here, manifest
<1>15. ASSUME NEW q \in Pkgs, q < p + 1
       PROVE  /\ f[q] # None /\ f[q].dir = dir
              /\ Here'.tarballs[q] \in {f[q], Damaged}
              /\ dir \notin restored /\ checkout = [rev |-> Here.receipt.rev, clean |-> TRUE] =>
                   f[q] = [rev |-> Here.receipt.rev, clean |-> TRUE, dir |-> dir]
  <2>1. CASE q = p
    <3>1. f[q] = b /\ Here'.tarballs[q] = b
      BY <2>1, <1>5, <1>9, <1>14
    <3>2. checkout = [rev |-> Here.receipt.rev, clean |-> TRUE] =>
            b = [rev |-> Here.receipt.rev, clean |-> TRUE, dir |-> dir]
      BY <1>2 DEF Bytes
    <3> QED BY <3>1, <3>2, <1>7
  <2>2. CASE q # p
    <3>1. q < p
      BY <1>5, <1>15, <2>2, Constants
    <3> QED BY <2>2, <3>1, <1>5, <1>9, <1>14
  <2> QED BY <2>1, <2>2
<1>16. PackInv'
  <2>1. dir' = dir /\ checkout' = checkout /\ restored' = restored
    BY <1>4
  <2>2. mem' \in Packing /\ pc'.p = p + 1 /\ p + 1 \in 1..(N + 1) /\ mem'.bytes = f
    BY <1>5, <1>11, <1>12
  <2>3. Here'.receipt = Here.receipt /\ Here.receipt # None /\ manifest' = None /\ Here'.state = None
    BY <1>5, <1>14
  <2> QED BY <1>15, <2>1, <2>2, <2>3 DEF PackInv
<1>17. StageInv' /\ OperationInv'
  BY <1>11, <1>12 DEF StageInv, OperationInv, Publishing, Tagging
<1> QED BY <1>4, <1>5, <1>7, <1>11, <1>12, <1>16, <1>17, TarballStep DEF Optional

LEMMA PackStateStep == ASSUME ReleaseInv, packState PROVE ReleaseInv'
<1> DEFINE s == [ phase |-> "PACKED", packages |-> [p \in Pkgs |-> Pending], blocker |-> 0,
                  attempt |-> 0, finalizationBlocker |-> 0 ]
<1>1. saveState(s, Idle) /\ UNCHANGED Env /\ manifest # None /\ Here.state = None
  BY DEF packState, ReleaseInv, StageInv
<1>2. s \in States /\ s.phase = "PACKED" /\ \A p \in Pkgs : s.packages[p] = Pending
  BY Constants, EntryShapes DEF States, Phases
<1>3. s.attempt = 0 /\ s.finalizationBlocker = 0
  OBVIOUS
<1> HIDE DEF s
<1>4. Early(s) /\ Selective(manifest, s) /\ s.phase \notin Promotion
  BY <1>2, <1>3, EntryShapes, Constants DEF Early, Selective, Promotion
<1>5. validateState(manifest, s)
  BY <1>2, <1>4, EarlyStates
<1>6. EntryInv(dir, s)
  BY <1>2, EntryShapes DEF EntryInv
<1>7. \A p \in Pkgs : ~OnRecord(dir, p)
  BY <1>1 DEF OnRecord, Here
<1>8. Savable(s, Idle)
  BY <1>5, <1>6, <1>7 DEF Savable
<1> QED BY <1>1, <1>2, <1>8, SaveStep, IdleCut

\* A pack that stops leaves what it wrote, without a manifest.
LEMMA GiveUpStep ==
  ASSUME ReleaseInv, UNCHANGED disk, UNCHANGED Env, mem' = None, pc' = Idle
  PROVE  ReleaseInv'
<1>1. StageInv' /\ OperationInv'
  BY IdleCut, NoneIsNoRecord DEF StageInv, OperationInv, Publishing, Tagging
<1> QED BY <1>1, IdleCut, MemoryStep, NoneIsNoRecord DEF Env

\* A manifest is written for the directory in use, which had none.
LEMMA ManifestWrittenStep ==
  ASSUME ReleaseInv, UNCHANGED Env, NEW m \in Plans, manifest = None, Here.state = None,
         disk' = [disk EXCEPT ![dir].manifest = m],
         m.rev <= checkout.rev, validatePublishOrder, assertSelectionDependencies(m.selected),
         \A p \in Pkgs :
           /\ m.bytes[p] # None /\ m.bytes[p].dir = dir
           /\ Here.tarballs[p] \in {m.bytes[p], Damaged}
           /\ dir \notin restored => m.bytes[p] = [rev |-> m.rev, clean |-> TRUE, dir |-> dir],
         mem' = None, pc' \in {Idle, At("packState", 0, FALSE)}
  PROVE  ReleaseInv'
<1> USE DEF Env
<1>1. disk \in [1..MaxDirs -> Evidence] /\ dir \in 1..MaxDirs /\ disk[dir] \in Evidence
  BY DEF ReleaseInv, ReleaseTypeInv
<1>2. PICK e : e = [disk[dir] EXCEPT !.manifest = m]
  OBVIOUS
<1>3. /\ e \in Evidence /\ e.receipt = disk[dir].receipt /\ e.tarballs = disk[dir].tarballs
      /\ e.manifest = m /\ e.state = None
  BY <1>1, <1>2 DEF Evidence, Optional, Here
<1>4. /\ disk' \in [1..MaxDirs -> Evidence] /\ disk'[dir] = e
      /\ \A d \in 1..MaxDirs : d # dir => disk'[d] = disk[d]
  BY <1>1, <1>2, <1>3
<1>5. dir \notin Manifests /\ Manifests \subseteq Manifests' /\ Manifests' \subseteq Manifests \cup {dir}
  BY <1>3, <1>4 DEF Manifests, manifest, Here
<1>6. \A d \in Manifests : disk'[d] = disk[d] /\ d \in 1..MaxDirs
  BY <1>4, <1>5 DEF Manifests
<1>7. pc' \in Cuts /\ pc'.op \in {"idle", "packState"}
  <2>1. 0 \in 0..(N + 1)
    BY Constants
  <2>2. At("packState", 0, FALSE) \in Cuts /\ At("packState", 0, FALSE).op = "packState"
    BY <2>1 DEF At, Cuts, Ops
  <2> QED BY <2>2, IdleCut
<1>8. ReleaseTypeInv'
  BY <1>4, <1>7 DEF ReleaseInv, ReleaseTypeInv, Cuts
<1>9. m # None
  BY NoneIsNoRecord
<1>10. OriginInv'
  <2> SUFFICES ASSUME NEW d \in 1..MaxDirs
      PROVE  /\ d > dir => disk'[d] = NoEvidence
             /\ disk'[d].receipt # None =>
                  /\ disk'[d].receipt.rev <= checkout.rev
                  /\ validatePublishOrder /\ assertSelectionDependencies(disk'[d].receipt.selected)
             /\ disk'[d].manifest # None => ManifestInv(d)'
             /\ disk'[d].state # None => disk'[d].manifest # None
    BY DEF OriginInv
  <2>1. CASE d = dir
    <3>1. disk'[dir].manifest = m /\ disk'[dir].tarballs = Here.tarballs
          /\ disk'[dir].receipt = Here.receipt /\ disk'[dir].state = None
      BY <1>3, <1>4 DEF Here
    <3>2. ManifestInv(dir)'
      BY <3>1 DEF ManifestInv, validatePublishOrder, assertSelectionDependencies
    <3>3. Here.receipt # None =>
            /\ Here.receipt.rev <= checkout.rev
            /\ validatePublishOrder /\ assertSelectionDependencies(Here.receipt.selected)
      BY <1>1 DEF ReleaseInv, OriginInv, Here
    <3>4. ~(dir > dir)
      BY <1>1
    <3> QED BY <2>1, <3>1, <3>2, <3>3, <3>4
  <2>2. CASE d # dir
    BY <1>4, <2>2 DEF ReleaseInv, OriginInv, ManifestInv
  <2> QED BY <2>1, <2>2
<1>11. StageInv' /\ OperationInv' /\ PackInv'
  <2>1. Here' = e /\ manifest' = m
    BY <1>3, <1>4 DEF Here, manifest
  <2> QED BY <1>3, <1>7, <1>9, <2>1, NoneIsNoRecord DEF StageInv, OperationInv, PackInv, Publishing, Tagging
<1>12. RegistryInv'
  <2> SUFFICES ASSUME NEW p \in Pkgs, NEW d \in 1..MaxDirs,
                      NEW b \in {npm.version[p], npm.accepted[p]} \ {None}, b.dir = d
      PROVE  /\ disk'[d].manifest # None
             /\ b = disk'[d].manifest.bytes[p] /\ p \in publicationPackages(disk'[d].manifest) =>
                  \A q \in DependsOn[p] : Supplied(d, q)'
    BY DEF ReleaseInv, RegistryInv
  <2>1. d \in Manifests
    BY DEF ReleaseInv, RegistryInv, Manifests
  <2>2. disk'[d] = disk[d] /\ \A q \in Pkgs : Supplied(d, q)' = Supplied(d, q)
    BY <1>6, <2>1 DEF Supplied, Taken
  <2>3. disk[d].manifest # None
    BY <2>1 DEF Manifests
  <2>4. b = disk[d].manifest.bytes[p] /\ p \in publicationPackages(disk[d].manifest) =>
          \A q \in DependsOn[p] : Supplied(d, q)
    BY DEF ReleaseInv, RegistryInv
  <2> QED BY <2>2, <2>3, <2>4, Constants
<1>13. ValidInv'
  BY <1>3, <1>4, <1>5, <1>6 DEF ReleaseInv, ValidInv
<1>14. LatestInv'
  BY <1>5, <1>6 DEF ReleaseInv, LatestInv, OneBuild, OnRecord
<1>15. StatesInv'
  <2>1. mem' \notin States /\ disk'[dir].state = None
    BY <1>3, <1>4, NoneIsNoRecord
  <2>2. ASSUME NEW d \in Manifests, disk'[d].state # None
        PROVE  EntryInv(d, disk[d].state)'
    <3>1. disk'[d] = disk[d] /\ \A q \in Pkgs : Supplied(d, q)' = Supplied(d, q)
      BY <1>6 DEF Supplied, Taken
    <3>2. EntryInv(d, disk[d].state)
      BY <2>2, <3>1 DEF ReleaseInv, StatesInv
    <3>3. disk[d].manifest = disk'[d].manifest /\ npm' = npm /\ defects' = defects
      BY <3>1
    <3> QED BY <3>1, <3>2, <3>3 DEF EntryInv
  <2> QED BY <1>5, <2>1, <2>2 DEF StatesInv
<1> QED BY <1>8, <1>10, <1>11, <1>12, <1>13, <1>14, <1>15 DEF ReleaseInv

LEMMA PackEndStep == ASSUME ReleaseInv, packEnd PROVE ReleaseInv'
<1>1. /\ pc.op = "pack" /\ pc.p = N + 1 /\ mem' = None /\ UNCHANGED Env
  BY DEF packEnd
<1>2. PICK m : m = [ rev |-> Here.receipt.rev, selected |-> Here.receipt.selected, bytes |-> mem.bytes ]
  OBVIOUS
<1>3. \/ UNCHANGED disk /\ pc' = Idle
      \/ /\ assertReceiptMatchesPack(Here.receipt)
         /\ disk' = [disk EXCEPT ![dir].manifest = m]
         /\ pc' \in {Idle, At("packState", 0, FALSE)}
  BY <1>2 DEF packEnd, writeJsonAtomic
<1>4. CASE UNCHANGED disk /\ pc' = Idle
  BY <1>1, <1>4, GiveUpStep
<1>5. CASE /\ assertReceiptMatchesPack(Here.receipt)
           /\ disk' = [disk EXCEPT ![dir].manifest = m]
           /\ pc' \in {Idle, At("packState", 0, FALSE)}
  <2>1. dir \in 1..MaxDirs /\ disk[dir] \in Evidence
    BY DEF ReleaseInv, ReleaseTypeInv
  <2>2. /\ mem \in Packing /\ Here.receipt # None /\ manifest = None /\ Here.state = None
        /\ checkout = [rev |-> Here.receipt.rev, clean |-> TRUE]
    BY <1>1, <1>5 DEF ReleaseInv, PackInv, assertReceiptMatchesPack, observePackSource
  <2>3. Here.receipt \in Receipts
    BY <2>1, <2>2 DEF Here, Evidence, Optional
  <2>4. m \in Plans /\ m.rev = Here.receipt.rev /\ m.selected = Here.receipt.selected /\ m.bytes = mem.bytes
    BY <1>2, <2>2, <2>3 DEF Plans, Packing, Receipts
  <2>5. /\ Here.receipt.rev <= checkout.rev
        /\ validatePublishOrder /\ assertSelectionDependencies(Here.receipt.selected)
    BY <2>1, <2>2 DEF ReleaseInv, OriginInv, Here
  <2>6. ASSUME NEW p \in Pkgs
        PROVE  /\ m.bytes[p] # None /\ m.bytes[p].dir = dir
               /\ Here.tarballs[p] \in {m.bytes[p], Damaged}
               /\ dir \notin restored => m.bytes[p] = [rev |-> m.rev, clean |-> TRUE, dir |-> dir]
    <3>1. p < pc.p
      BY <1>1, Constants
    <3> QED BY <1>1, <2>2, <2>4, <3>1 DEF ReleaseInv, PackInv
  <2> QED BY <1>1, <1>5, <2>2, <2>4, <2>5, <2>6, ManifestWrittenStep
<1> QED BY <1>3, <1>4, <1>5

(***************************************************************************)
(* The invariant.                                                          *)
(***************************************************************************)
LEMMA ReleaseInitInv == ReleaseInit => ReleaseInv
<1> SUFFICES ASSUME ReleaseInit
    PROVE  ReleaseInv
  OBVIOUS
<1>1. /\ dir = 1 /\ mem = None /\ pc = Idle /\ checkout = [rev |-> 1, clean |-> TRUE]
      /\ disk = [d \in 1..MaxDirs |-> NoEvidence]
      /\ npm.version = [p \in Pkgs |-> None] /\ npm.accepted = [p \in Pkgs |-> None]
      /\ npm.latest = [p \in Pkgs |-> "old"] /\ npm.late = {}
  BY DEF ReleaseInit
<1>2. 1 \in 1..MaxDirs /\ 1 \in 1..MaxRev
  BY Constants
<1>3. npm \in Registry
  BY DEF ReleaseInit, Registry, Optional
<1>4. ReleaseTypeInv
  BY <1>1, <1>2, <1>3, EmptyDirectory, IdleCut DEF ReleaseInit, ReleaseTypeInv, Cuts
<1>5. Manifests = {} /\ \A d \in 1..MaxDirs : disk[d].manifest = None /\ disk[d].state = None /\ disk[d].receipt = None
  BY <1>1, EmptyDirectory DEF Manifests
<1>6. OriginInv
  BY <1>1, <1>5 DEF OriginInv
<1>7. PackInv /\ StageInv /\ OperationInv
  BY <1>1, IdleCut, NoneIsNoRecord DEF PackInv, StageInv, OperationInv, Publishing, Tagging
<1>8. RegistryInv
  BY <1>1 DEF RegistryInv
<1>9. StatesInv /\ ValidInv
  BY <1>1, <1>5, NoneIsNoRecord DEF StatesInv, ValidInv
<1>10. LatestInv
  BY <1>1 DEF LatestInv
<1> QED BY <1>4, <1>6, <1>7, <1>8, <1>9, <1>10 DEF ReleaseInv

LEMMA ReleaseStutterStep == ASSUME ReleaseInv, UNCHANGED releaseVars PROVE ReleaseInv'
<1> USE DEF releaseVars
<1>1. ReleaseTypeInv' /\ OriginInv'
  BY DEF ReleaseInv, ReleaseTypeInv, OriginInv, ManifestInv
<1>4. PackInv' /\ StageInv'
  BY DEF ReleaseInv, PackInv, StageInv, Here, manifest
<1>2. RegistryInv' /\ StatesInv' /\ OperationInv'
  BY DEF ReleaseInv, RegistryInv, Supplied, Taken, StatesInv, EntryInv, Manifests, OperationInv,
         PublishReady, TagReady, Predecessors, Here, manifest
<1>3. LatestInv' /\ ValidInv'
  BY DEF ReleaseInv, LatestInv, OneBuild, OnRecord, ValidInv, Manifests
<1> QED BY <1>1, <1>2, <1>3, <1>4 DEF ReleaseInv

LEMMA ReleaseNextInv == ReleaseInv /\ [ReleaseNext]_releaseVars => ReleaseInv'
<1> SUFFICES ASSUME ReleaseInv, [ReleaseNext]_releaseVars
    PROVE  ReleaseInv'
  OBVIOUS
<1>1. CASE \E selected, auth \in BOOLEAN : precheck(selected, auth)
  BY <1>1, PrecheckStep
<1>2. CASE packBegin \/ packWithoutOverwrite \/ packEnd \/ packState
  BY <1>2, PackBeginStep, PackWithoutOverwriteStep, PackEndStep, PackStateStep
<1>3. CASE loadValidatedState \/ verifyLocal \/ derivePublicationPlan
  BY <1>3, LoadStep, VerifyLocalStep, PlanStep
<1>4. CASE \E p \in Pkgs : publishPlannedOperation(p)
  BY <1>4, PublishPlannedStep
<1>5. CASE publishObserve \/ publishCall \/ publishSettle \/ resume
  BY <1>5, PublishObserveStep, PublishCallStep, PublishSettleStep, ResumeStep
<1>6. CASE verifyRegistry \/ verifyExternalInstall \/ transitionToReadyToPromote
  BY <1>6, VerifyRegistryStep, VerifyExternalInstallStep, ReadyToPromoteStep
<1>7. CASE \E p \in Pkgs : promoteLatest(p) \/ removeNext(p)
  BY <1>7, PromoteStep, RemoveNextStep
<1>8. CASE applyTag \/ observeTag \/ verifyLatestPromotion \/ verifyFinalization
  BY <1>8, ApplyTagStep, ObserveTagStep, VerifyLatestStep, VerifyFinalizationStep
<1>9. CASE OperatorDies \/ FreshDirectory \/ Developer \/ Restore \/ OtherMaintainer \/ RegistryCatchesUp
  BY <1>9, OperatorDiesStep, FreshDirectoryStep, DeveloperStep, RestoreStep, OtherMaintainerStep, CatchUpStep
<1>10. CASE UNCHANGED releaseVars
  BY <1>10, ReleaseStutterStep
<1> QED BY <1>1, <1>2, <1>3, <1>4, <1>5, <1>6, <1>7, <1>8, <1>9, <1>10 DEF ReleaseNext, Operator

LEMMA ReleaseSpecInv == ReleaseSpec => []ReleaseInv
BY ReleaseInitInv, ReleaseNextInv, PTL DEF ReleaseSpec

(***************************************************************************)
(* The theorems.                                                           *)
(***************************************************************************)

\* Every reachable state has the types of the release files, of the
\* operator's memory and of the registry, and the records of the directories,
\* the memory and the registry agree (release-state.mjs, release-publication.mjs,
\* release-finalization.mjs).
THEOREM ReleaseStateIsTyped == ReleaseSpec => []ReleaseTypeInv
<1>1. ReleaseInv => ReleaseTypeInv
  BY DEF ReleaseInv
<1> QED BY <1>1, ReleaseSpecInv, PTL

\* The order of the plan, which publishPlannedOperation enforces on what the
\* state file says of the predecessors, is kept in the registry: a package of
\* a release is never there before the packages it depends on.
THEOREM DependenciesArePublishedFirst == ReleaseSpec => []DependenciesPublishFirst
<1>1. ASSUME ReleaseInv
      PROVE  DependenciesPublishFirst
  <2> SUFFICES ASSUME NEW d \in Manifests, NEW p \in publicationPackages(disk[d].manifest),
                      npm.version[p] = disk[d].manifest.bytes[p], NEW q \in DependsOn[p]
      PROVE  Supplied(d, q)
    BY DEF DependenciesPublishFirst, Supplied, Taken
  <2>1. d \in 1..MaxDirs /\ disk[d].manifest # None /\ p \in Pkgs
    BY Constants DEF Manifests
  <2>2. npm.version[p] # None /\ npm.version[p].dir = d
    <3>1. ManifestInv(d)
      BY <1>1, <2>1 DEF ReleaseInv, OriginInv
    <3> QED BY <2>1, <3>1 DEF ManifestInv
  <2>3. npm.version[p] \in {npm.version[p], npm.accepted[p]} \ {None}
    BY <2>2
  <2> QED BY <1>1, <2>1, <2>2, <2>3 DEF ReleaseInv, RegistryInv
<1> QED BY <1>1, ReleaseSpecInv, PTL

\* latest is moved only to a package of a manifest whose packages are all in
\* the registry with the bytes of that manifest, of a revision the packed
\* artifact gate found nothing wrong with (verifyRegistry,
\* verifyExternalInstall and promoteLatest), whatever crashed or was damaged.
THEOREM LatestIsOneBuild == ReleaseSpec => []PromotedSetIsOneBuild
<1>1. ASSUME ReleaseInv
      PROVE  PromotedSetIsOneBuild
  <2> SUFFICES ASSUME NEW p \in Pkgs, npm.latest[p] = "ours"
      PROVE  \E d \in Manifests :
               /\ p \in publicationPackages(disk[d].manifest)
               /\ defects[disk[d].manifest.rev] = "none"
               /\ \A q \in publicationPackages(disk[d].manifest) :
                    LET b == disk[d].manifest.bytes[q]
                    IN /\ npm.version[q] = b
                       /\ d \notin restored => b = [rev |-> disk[d].manifest.rev, clean |-> TRUE, dir |-> d]
    BY DEF PromotedSetIsOneBuild
  <2>1. PICK d \in Manifests : p \in publicationPackages(disk[d].manifest) /\ OneBuild(d)
    BY <1>1 DEF ReleaseInv, LatestInv
  <2>2. ManifestInv(d)
    BY <1>1 DEF ReleaseInv, OriginInv, Manifests
  <2> QED BY <2>1, <2>2, Constants DEF OneBuild, ManifestInv
<1> QED BY <1>1, ReleaseSpecInv, PTL

\* An effect on latest is recorded on disk before it is applied, and every
\* save leaves a state that loadValidatedState accepts: applyAndObserve after
\* a crash finds the attempt, and recovery is never closed.
THEOREM EffectsStayOnRecord == ReleaseSpec => []EffectsAreOnRecord
<1>1. ASSUME ReleaseInv
      PROVE  EffectsAreOnRecord
  BY <1>1 DEF ReleaseInv, LatestInv, ValidInv, OnRecord, EffectsAreOnRecord
<1> QED BY <1>1, ReleaseSpecInv, PTL

=============================================================================
