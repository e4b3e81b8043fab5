------------------------- MODULE SecureGuardProofs -------------------------
(***************************************************************************)
(* Proofs about the secure guard, for every set of guards, calls, stores,  *)
(* configurations and delegations, and any number of changes around it;    *)
(* and, below, about the key revocation of the guard's delegation path,    *)
(* for any number of publishers, lists, keys and concurrent evaluations.   *)
(* The two modules share no state: each theorem is about one of them.      *)
(***************************************************************************)
EXTENDS SecureGuard, Revocation, FiniteSetTheorems, WellFoundedInduction, TLAPS

----------------------------------------------------------------------------
(***************************************************************************)
(* The inductive invariant.                                                *)
(*                                                                         *)
(* A template keeps what its guard was built from.                         *)
(***************************************************************************)
Declared(c) == c.replayStore \cup UNION {p.store : p \in c.replayProtection}

StoreFrom(store, b, g) ==
  \/ Declared(b.config) = {} /\ store = ProcessLocal(g)
  \/ \E s \in Stores : Declared(b.config) = {s} /\ store = [store |-> s, method |-> b.methods[s]]

From(t, b, g) ==
  /\ ConfigShape(b.config)
  /\ t.tenancy = b.config.tenancy /\ t.required = b.config.required
  /\ t.signers = b.config.signers /\ t.authorities = b.config.authorities
  /\ t.revocation = b.config.revocation
  /\ t.check = {b.methods[p] : p \in b.config.provider}
  /\ StoreFrom(t.replayStore, b, g)
  /\ \A p \in b.config.replayProtection :
       p.mode = "shared" => \A s \in p.store : KindOf[s] # "builtin"

BuiltInv ==
  \A g \in Guards : template[g] # {} =>
    built[g] # {} /\ \A t \in template[g], b \in built[g] : From(t, b, g)

TypeInv ==
  /\ DOMAIN template = Guards /\ DOMAIN built = Guards
  /\ DOMAIN consumed = Stores \cup Guards
  /\ DOMAIN pc = Requests /\ DOMAIN events = Requests /\ DOMAIN decisions = Requests
  /\ DOMAIN thrown = Requests /\ emitted \subseteq SharedErrors
  /\ DOMAIN req = Requests /\ \A r \in Requests : DOMAIN req[r] = DOMAIN Idle
  /\ ConfigShape(config)

\* What a call that passed its verifications owes to the template.
PastChecks ==
  {"checking", "confirming", "consume_delegation", "consume_auth", "commit", "gate", "executing", "returned", "failed"}

KeyOf(q) == IF q.delegated THEN q.snapshot.key ELSE EngineKey

Enforced(q, t) ==
  /\ q.delegated =>
       /\ \E allowed \in t.authorities : q.snapshot.issuer \in allowed
       /\ \A allowed \in t.signers : q.snapshot.signer \in allowed
       /\ t.required => t.check # {}
  /\ \A krlKeys \in t.revocation : KeyOf(q) \notin krlKeys

Trusted(q, t) ==
  /\ q.ctx.branded /\ q.ctx.agent_id # Undefined
  /\ t.tenancy = "multi-tenant" => q.ctx.tenant_id # Undefined

Stage(r) ==
  /\ req[r].genuine
  /\ pc[r] = "idle" => req[r] = Idle
  /\ pc[r] # "idle" => req[r].guard \in Guards /\ template[req[r].guard] # {}
  /\ pc[r] \notin {"idle", "rejected"} => Trusted(req[r], T(r))
  /\ pc[r] \in PastChecks => Enforced(req[r], T(r))
  /\ pc[r] \in PastChecks \ {"checking"} /\ req[r].delegated /\ T(r).check = {"genuine"} => req[r].active

StageInv == \A r \in Requests : Stage(r)

\* What a call spent is in its store, and nobody else in a store spent it.
SpentAuth == {"commit", "gate", "executing", "returned", "failed"}
SpentDelegationId == SpentAuth \cup {"consume_auth"}

KeepsIds(r) == T(r).replayStore.method = "genuine"

SpentBy(r, kind) ==
  \/ kind = "auth" /\ pc[r] \in SpentAuth /\ KeepsIds(r)
  \/ /\ kind = "delegation" /\ pc[r] \in SpentDelegationId /\ KeepsIds(r)
     /\ req[r].delegated /\ HasDelegationIds(T(r).replayStore.store)

IdSpent(r, kind) == IF kind = "auth" THEN req[r].auth ELSE req[r].snapshot.id

SpentInv ==
  \A r \in Requests, kind \in {"auth", "delegation"} : SpentBy(r, kind) =>
    /\ <<kind, IdSpent(r, kind)>> \in consumed[T(r).replayStore.store]
    /\ \A r2 \in Requests \ {r} :
         SpentBy(r2, kind) /\ T(r2).replayStore.store = T(r).replayStore.store =>
           IdSpent(r2, kind) # IdSpent(r, kind)

\* What is evaluated was reconciled with the trusted context.
Agrees(q) ==
  /\ q.ctx.branded
  /\ \A f \in Fields : q.ctx[f] # Undefined =>
       /\ q.action.claims[f] \in {Undefined, q.ctx[f]}
       /\ f \in DOMAIN q.intent => q.intent[f] = q.ctx[f]
  /\ (q.provenance.agent_id = "matched") = (q.action.claims.agent_id = q.ctx.agent_id)
  /\ \A f \in Fields : q.action.claims[f] # Undefined =>
       q.provenance[f] = IF q.ctx[f] = Undefined THEN "unverified" ELSE "matched"

Hook(g) == \E t \in template[g] : t.onBoundaryEvent

Throwable == {Fresh, Primitive, DenyError} \cup SharedErrors

\* One event at most, of a rejection the stream is for; none only of an
\* object that is in EMITTED.
Told(r) ==
  /\ IF pc[r] \in {"rejected", "denied", "failed"}
     THEN \E err \in Throwable : thrown[r] = {err} ELSE thrown[r] = {}
  /\ pc[r] = "denied" => thrown[r] = {DenyError}
  /\ events[r] = <<>> \/ events[r] = <<events[r][1]>>
  /\ events[r] # <<>> => Reportable(r)
  /\ Reportable(r) => events[r] # <<>> \/ thrown[r] \subseteq emitted

Report(r) ==
  /\ req[r].evaluated => Agrees(req[r])
  /\ Told(r)
  /\ IF pc[r] \in {"returned", "denied"}
     THEN decisions[r] = <<<<decisions[r][1][1], req[r].provenance>>>> ELSE decisions[r] = <<>>

ReportInv == \A r \in Requests : Report(r)

\* EMITTED holds the shared objects that calls accounted for, and of the calls
\* that threw one object at most one was reported.
EmittedInv ==
  /\ \A err \in SharedErrors : err \in emitted <=> \E q \in Requests : Accounted(q, err)
  /\ \A err \in SharedErrors, r, q \in Requests :
       r # q /\ thrown[r] = {err} /\ thrown[q] = {err} => events[r] = <<>> \/ events[q] = <<>>

Inv == TypeInv /\ BuiltInv /\ StageInv /\ SpentInv /\ ReportInv /\ EmittedInv

----------------------------------------------------------------------------
(* What the invariant says of the three properties. *)

\* The record BuiltFrom chooses, and the template T does, are related.
LEMMA ChosenFrom ==
  ASSUME Inv, NEW r \in Requests, pc[r] # "idle"
  PROVE  From(T(r), BuiltFrom(r), req[r].guard) /\ req[r].guard \in Guards
<1>1. req[r].guard \in Guards /\ template[req[r].guard] # {}
  BY DEF Inv, StageInv, Stage
<1>2. T(r) \in template[req[r].guard]
  BY <1>1 DEF T
<1>3. BuiltFrom(r) \in built[req[r].guard]
  BY <1>1 DEF BuiltFrom, Inv, BuiltInv
<1> QED BY <1>1, <1>2, <1>3 DEF Inv, BuiltInv

LEMMA EnforcedByInv == Inv => EnforcedAsConstructed
<1> SUFFICES ASSUME Inv, NEW r \in Executed
             PROVE  LET b == BuiltFrom(r) c == b.config
                    IN /\ req[r].genuine
                       /\ c.tenancy = "multi-tenant" => req[r].ctx.tenant_id # Undefined
                       /\ req[r].delegated =>
                            /\ \E allowed \in c.authorities : req[r].snapshot.issuer \in allowed
                            /\ \A allowed \in c.signers : req[r].snapshot.signer \in allowed
                            /\ c.provider # {} /\ b.methods["provider"] = "genuine" => req[r].active
                            /\ c.required => c.provider # {}
                       /\ \A krlKeys \in c.revocation :
                            (IF req[r].delegated THEN req[r].snapshot.key ELSE EngineKey) \notin krlKeys
  BY DEF EnforcedAsConstructed
<1> DEFINE b == BuiltFrom(r)
           t == T(r)
           q == req[r]
<1>1. r \in Requests /\ pc[r] \in {"executing", "returned", "failed"}
  BY DEF Executed
<1>2. From(t, b, q.guard)
  BY <1>1, ChosenFrom
<1>3. /\ q.genuine
      /\ Trusted(q, t) /\ Enforced(q, t)
      /\ q.delegated /\ t.check = {"genuine"} => q.active
  BY <1>1 DEF Inv, StageInv, Stage, PastChecks
<1> HIDE DEF b, t, q
<1>4. b.config.provider # {} => t.check = {b.methods["provider"]} /\ b.config.provider = {"provider"}
  BY <1>2 DEF From, ConfigShape, Optional
<1>5. t.check # {} => b.config.provider # {}
  BY <1>2 DEF From
<1>6. /\ b.config.tenancy = "multi-tenant" => q.ctx.tenant_id # Undefined
      /\ \A krlKeys \in b.config.revocation : KeyOf(q) \notin krlKeys
  BY <1>2, <1>3 DEF From, Trusted, Enforced
<1>7. q.delegated =>
        /\ \E allowed \in b.config.authorities : q.snapshot.issuer \in allowed
        /\ \A allowed \in b.config.signers : q.snapshot.signer \in allowed
        /\ b.config.required => b.config.provider # {}
  BY <1>2, <1>3, <1>5 DEF From, Enforced
<1>8. q.delegated /\ b.config.provider # {} /\ b.methods["provider"] = "genuine" => q.active
  BY <1>3, <1>4
<1> QED BY <1>3, <1>6, <1>7, <1>8 DEF b, q, KeyOf

\* The one store of a replay domain.
LEMMA DomainIsStore ==
  ASSUME Inv, NEW r \in Requests, pc[r] # "idle"
  PROVE  /\ Domain(r) = {T(r).replayStore.store}
         /\ T(r).replayStore.store \in Stores \cup Guards
         /\ GenuineStore(r) => KeepsIds(r)
<1> DEFINE b == BuiltFrom(r)
           g == req[r].guard
           store == T(r).replayStore
<1>1. StoreFrom(store, b, g) /\ g \in Guards
  BY ChosenFrom DEF From
<1>2. Domain(r) = IF Declared(b.config) = {} THEN {g} ELSE Declared(b.config)
  BY DEF Domain, Declared
<1>3. GenuineStore(r) => \A s \in Domain(r) : s \in Stores => b.methods[s] = "genuine"
  BY DEF GenuineStore
<1>4. store.method = "genuine" => KeepsIds(r)
  BY DEF KeepsIds
<1> SUFFICES /\ Domain(r) = {store.store} /\ store.store \in Stores \cup Guards
             /\ GenuineStore(r) => store.method = "genuine"
  BY <1>4
<1> HIDE DEF b, g, store
<1>5. CASE Declared(b.config) = {} /\ store = ProcessLocal(g)
  BY <1>5, <1>1, <1>2 DEF ProcessLocal
<1>6. ASSUME NEW s \in Stores, Declared(b.config) = {s}, store = [store |-> s, method |-> b.methods[s]]
      PROVE  /\ Domain(r) = {store.store} /\ store.store \in Stores \cup Guards
             /\ GenuineStore(r) => store.method = "genuine"
  <2>1. Domain(r) = {s} /\ store.store = s /\ store.method = b.methods[s]
    BY <1>6, <1>2
  <2> QED BY <2>1, <1>3
<1> QED BY <1>1, <1>5, <1>6 DEF StoreFrom

LEMMA OneUseByInv == Inv => OneUsePerReplayDomain
<1> SUFFICES ASSUME Inv PROVE OneUsePerReplayDomain
  OBVIOUS
<1>1. ASSUME NEW r1 \in Executed, NEW r2 \in Executed,
             r1 # r2, Domain(r1) = Domain(r2), GenuineStore(r1), GenuineStore(r2)
      PROVE  /\ req[r1].auth # req[r2].auth
             /\ req[r1].delegated /\ req[r2].delegated /\ (\A s \in Domain(r1) : HasDelegationIds(s)) =>
                  req[r1].snapshot.id # req[r2].snapshot.id
  <2>1. /\ r1 \in Requests /\ pc[r1] \in SpentAuth /\ pc[r1] # "idle"
        /\ r2 \in Requests /\ pc[r2] \in SpentAuth /\ pc[r2] # "idle"
    BY DEF Executed, SpentAuth
  <2>2. /\ KeepsIds(r1) /\ KeepsIds(r2)
        /\ T(r1).replayStore.store = T(r2).replayStore.store
        /\ T(r1).replayStore.store \in Domain(r1)
    BY <1>1, <2>1, DomainIsStore
  <2>3. SpentBy(r1, "auth") /\ SpentBy(r2, "auth")
    BY <2>1, <2>2 DEF SpentBy
  <2>4. \A kind \in {"auth", "delegation"} :
          SpentBy(r1, kind) /\ SpentBy(r2, kind) => IdSpent(r2, kind) # IdSpent(r1, kind)
    BY <1>1, <2>1, <2>2 DEF Inv, SpentInv
  <2>5. req[r1].auth # req[r2].auth
    BY <2>3, <2>4 DEF IdSpent
  <2>6. ASSUME req[r1].delegated, req[r2].delegated, \A s \in Domain(r1) : HasDelegationIds(s)
        PROVE  req[r1].snapshot.id # req[r2].snapshot.id
    <3>1. SpentBy(r1, "delegation") /\ SpentBy(r2, "delegation")
      BY <2>6, <2>1, <2>2 DEF SpentBy, SpentDelegationId
    <3> QED BY <3>1, <2>4 DEF IdSpent
  <2> QED BY <2>5, <2>6
<1>2. ASSUME NEW r \in Executed, NEW p \in BuiltFrom(r).config.replayProtection, p.mode = "shared"
      PROVE  \A s \in p.store : KindOf[s] # "builtin"
  <2>1. r \in Requests /\ pc[r] # "idle"
    BY DEF Executed
  <2> QED BY <1>2, <2>1, ChosenFrom DEF From
<1> QED BY <1>1, <1>2 DEF OneUsePerReplayDomain

LEMMA ReportsByInv == Inv => ReportsAreTrue
<1> SUFFICES ASSUME Inv PROVE ReportsAreTrue
  OBVIOUS
<1>1. ASSUME NEW r \in Evaluated, NEW f \in Fields, req[r].ctx[f] # Undefined
      PROVE  /\ req[r].action.claims[f] \in {Undefined, req[r].ctx[f]}
             /\ f \in DOMAIN req[r].intent => req[r].intent[f] = req[r].ctx[f]
  BY <1>1 DEF Evaluated, Inv, ReportInv, Report, Agrees
<1>2. ASSUME NEW r \in Evaluated PROVE isTrustedExecutionContext(req[r].ctx)
  BY DEF Evaluated, Inv, ReportInv, Report, Agrees, isTrustedExecutionContext
<1>3. ASSUME NEW r \in Evaluated, NEW i \in DOMAIN decisions[r]
      PROVE  LET record == decisions[r][i][2] IN
             /\ (record.agent_id = "matched") = (req[r].action.claims.agent_id = req[r].ctx.agent_id)
             /\ \A f \in Fields : req[r].action.claims[f] # Undefined =>
                  record[f] = IF req[r].ctx[f] = Undefined THEN "unverified" ELSE "matched"
  <2>1. r \in Requests /\ Agrees(req[r]) /\ Report(r)
    BY DEF Evaluated, Inv, ReportInv, Report
  <2>2. decisions[r] = <<<<decisions[r][1][1], req[r].provenance>>>> \/ decisions[r] = <<>>
    BY <2>1 DEF Report
  <2>3. decisions[r][i][2] = req[r].provenance
    BY <2>2
  <2> QED BY <2>1, <2>3 DEF Agrees
<1> USE DEF Inv
<1>4. ASSUME NEW r \in Requests
      PROVE  Len(decisions[r]) = IF pc[r] \in {"returned", "denied"} THEN 1 ELSE 0
  <2>1. /\ pc[r] \in {"returned", "denied"} => decisions[r] = <<<<decisions[r][1][1], req[r].provenance>>>>
        /\ pc[r] \notin {"returned", "denied"} => decisions[r] = <<>>
    BY DEF ReportInv, Report
  <2>2. (\A e : Len(<<e>>) = 1) /\ Len(<< >>) = 0
    OBVIOUS
  <2> QED BY <2>1, <2>2
<1>5. ASSUME NEW r \in Requests, events[r] # <<>>
      PROVE  Reportable(r) /\ Len(events[r]) = 1
  <2>1. Told(r)
    BY DEF ReportInv, Report
  <2>2. Reportable(r) /\ events[r] = <<events[r][1]>>
    BY <2>1, <1>5 DEF Told
  <2>3. \A e : Len(<<e>>) = 1
    OBVIOUS
  <2> QED BY <2>2, <2>3
<1>6. ASSUME NEW r \in Requests, Reportable(r), events[r] = <<>>
      PROVE  \E err \in SharedErrors :
               thrown[r] = {err} /\ \E q \in Requests \ {r} : Accounted(q, err)
  <2>1. Told(r) /\ pc[r] = "rejected"
    BY <1>6 DEF ReportInv, Report, Reportable
  <2>2. PICK err \in Throwable : thrown[r] = {err}
    BY <2>1 DEF Told
  <2>3. err \in emitted /\ err \in SharedErrors
    BY <1>6, <2>1, <2>2 DEF Told, TypeInv
  <2>4. PICK q \in Requests : Accounted(q, err)
    BY <2>3 DEF EmittedInv
  <2>5. q # r
    BY <1>6, <2>1, <2>4 DEF Accounted
  <2> QED BY <2>2, <2>3, <2>4, <2>5
<1>7. \A err \in SharedErrors, r, q \in Requests :
        r # q /\ thrown[r] = {err} /\ thrown[q] = {err} => events[r] = <<>> \/ events[q] = <<>>
  BY DEF EmittedInv
<1> QED BY <1>1, <1>2, <1>3, <1>4, <1>5, <1>6, <1>7 DEF ReportsAreTrue


----------------------------------------------------------------------------
(* Steps that leave most of the state alone. *)

LEMMA InitInv == Init => Inv
<1> SUFFICES ASSUME Init PROVE Inv
  OBVIOUS
<1> USE DEF Init
<1>1. TypeInv
  <2>1. ConfigShape(config)
    BY SecureGuardConfig
  <2> QED BY <2>1 DEF TypeInv
<1>2. BuiltInv
  BY DEF BuiltInv
<1>3. StageInv
  BY DEF StageInv, Stage, Idle, PastChecks
<1>4. SpentInv
  BY DEF SpentInv, SpentBy, SpentAuth, SpentDelegationId
<1>5. ReportInv
  <2>1. ASSUME NEW r \in Requests PROVE ~req[r].evaluated
    BY DEF Idle
  <2> QED BY <2>1 DEF ReportInv, Report, Told, Reportable
<1>6. EmittedInv
  BY DEF EmittedInv, Accounted, Hooked
<1> QED BY <1>1, <1>2, <1>3, <1>4, <1>5, <1>6 DEF Inv

\* The world around the guards changes; no call moves.
LEMMA OutsideStep ==
  ASSUME Inv, InsideOnly, ConfigShape(config')
  PROVE  Inv'
<1> USE DEF InsideOnly, audit, boundary
<1>1. TypeInv'
  BY DEF Inv, TypeInv
<1>2. BuiltInv'
  BY DEF Inv, BuiltInv, From, StoreFrom, ConfigShape
<1>3. \A r : T(r)' = T(r)
  BY DEF T
<1>4. StageInv'
  BY <1>3 DEF Inv, StageInv, Stage
<1>5. \A r, kind : SpentBy(r, kind)' = SpentBy(r, kind) /\ IdSpent(r, kind)' = IdSpent(r, kind)
  BY <1>3 DEF SpentBy, IdSpent, KeepsIds
<1>6. SpentInv'
  BY <1>3, <1>5 DEF Inv, SpentInv
<1>7. \A r : Hooked(r)' = Hooked(r)
  BY DEF Hooked
<1>8. ReportInv'
  BY <1>7 DEF Inv, ReportInv, Report, Told, Reportable
<1>9. EmittedInv'
  BY <1>7 DEF Inv, EmittedInv, Accounted
<1> QED BY <1>1, <1>2, <1>4, <1>6, <1>8, <1>9 DEF Inv

(***************************************************************************)
(* One call moves: the guards and the other calls stay as they are, and    *)
(* the stores only grow.                                                   *)
(***************************************************************************)
OnlyMoves(r) ==
  /\ config' = config /\ template' = template /\ built' = built
  /\ \A q \in Requests \ {r} :
       /\ pc'[q] = pc[q] /\ req'[q] = req[q] /\ events'[q] = events[q] /\ decisions'[q] = decisions[q]
       /\ thrown'[q] = thrown[q]
  /\ DOMAIN pc' = Requests /\ DOMAIN events' = Requests /\ DOMAIN decisions' = Requests
  /\ DOMAIN thrown' = Requests
  /\ DOMAIN req' = Requests /\ DOMAIN req'[r] = DOMAIN Idle
  /\ DOMAIN consumed' = Stores \cup Guards
  /\ \A s \in Stores \cup Guards : consumed[s] \subseteq consumed'[s]

\* What a call has spent after its step: what it had, or one identifier more.
SpendsOnce(r) ==
  \A kind \in {"auth", "delegation"} : SpentBy(r, kind)' =>
    \/ SpentBy(r, kind) /\ IdSpent(r, kind)' = IdSpent(r, kind) /\ T(r)' = T(r)
    \/ /\ <<kind, IdSpent(r, kind)'>> \in consumed'[T(r)'.replayStore.store]
       /\ <<kind, IdSpent(r, kind)'>> \notin consumed[T(r)'.replayStore.store]

\* What a call does to EMITTED: it adds at most the object it throws, does so
\* exactly when it accounts for it, and reports nothing that was there.
Accounts(r) ==
  /\ emitted \subseteq emitted' /\ emitted' \subseteq SharedErrors
  /\ \A err \in SharedErrors :
       /\ ~Accounted(r, err)
       /\ err \in emitted' \ emitted => Accounted(r, err)'
       /\ Accounted(r, err)' => err \in emitted'
       /\ err \in emitted /\ thrown'[r] = {err} => events'[r] = <<>>

LEMMA CallStep ==
  ASSUME Inv, NEW r \in Requests, OnlyMoves(r), Stage(r)', Report(r)', SpendsOnce(r), Accounts(r)
  PROVE  Inv'
<1> USE DEF OnlyMoves
<1>1. TypeInv'
  <2>1. \A q \in Requests : DOMAIN req'[q] = DOMAIN Idle
    BY DEF Inv, TypeInv
  <2>2. (DOMAIN Idle)' = DOMAIN Idle
    BY DEF Idle
  <2> QED BY <2>1, <2>2 DEF Inv, TypeInv, ConfigShape, Accounts
<1>2. BuiltInv'
  BY DEF Inv, BuiltInv, From, StoreFrom, ConfigShape
<1>3. \A q \in Requests \ {r} : T(q)' = T(q)
  BY DEF T
<1>4. StageInv'
  <2>1. ASSUME NEW q \in Requests \ {r} PROVE Stage(q)'
    <3>1. pc'[q] = pc[q] /\ req'[q] = req[q] /\ template' = template
      OBVIOUS
    <3>2. Stage(q) /\ T(q)' = T(q)
      BY <1>3 DEF Inv, StageInv
    <3> HIDE DEF OnlyMoves
    <3> QED BY <3>1, <3>2 DEF Stage
  <2> QED BY <2>1 DEF StageInv
<1>5. SpentInv'
  <2>1. \A q \in Requests \ {r} : \A kind :
          SpentBy(q, kind)' = SpentBy(q, kind) /\ IdSpent(q, kind)' = IdSpent(q, kind)
    BY <1>3 DEF SpentBy, IdSpent, KeepsIds
  <2> SUFFICES ASSUME NEW kind \in {"auth", "delegation"}
               PROVE  \A q \in Requests : SpentBy(q, kind)' =>
                        /\ <<kind, IdSpent(q, kind)'>> \in consumed'[T(q)'.replayStore.store]
                        /\ \A q2 \in Requests \ {q} :
                             SpentBy(q2, kind)' /\ T(q2)'.replayStore.store = T(q)'.replayStore.store =>
                               IdSpent(q2, kind)' # IdSpent(q, kind)'
    BY DEF SpentInv
  <2>2. \A q \in Requests : SpentBy(q, kind) =>
          /\ <<kind, IdSpent(q, kind)>> \in consumed[T(q).replayStore.store]
          /\ \A q2 \in Requests \ {q} :
               SpentBy(q2, kind) /\ T(q2).replayStore.store = T(q).replayStore.store =>
                 IdSpent(q2, kind) # IdSpent(q, kind)
    BY DEF Inv, SpentInv
  <2>3. ASSUME SpentBy(r, kind)'
        PROVE  /\ <<kind, IdSpent(r, kind)'>> \in consumed'[T(r)'.replayStore.store]
               /\ \A q \in Requests \ {r} :
                    SpentBy(q, kind) /\ T(q).replayStore.store = T(r)'.replayStore.store =>
                      IdSpent(q, kind) # IdSpent(r, kind)'
    <3>1. CASE SpentBy(r, kind) /\ IdSpent(r, kind)' = IdSpent(r, kind) /\ T(r)' = T(r)
      <4>1. pc[r] # "idle"
        BY <3>1 DEF SpentBy, SpentAuth, SpentDelegationId
      <4>2. T(r).replayStore.store \in Stores \cup Guards
        BY <4>1, DomainIsStore
      <4> QED BY <3>1, <4>2, <2>2
    <3>2. CASE /\ <<kind, IdSpent(r, kind)'>> \in consumed'[T(r)'.replayStore.store]
               /\ <<kind, IdSpent(r, kind)'>> \notin consumed[T(r)'.replayStore.store]
      BY <3>2, <2>2
    <3> QED BY <2>3, <3>1, <3>2 DEF SpendsOnce
  <2>4. ASSUME NEW q \in Requests \ {r}, SpentBy(q, kind)'
        PROVE  /\ <<kind, IdSpent(q, kind)'>> \in consumed'[T(q)'.replayStore.store]
               /\ \A q2 \in Requests \ {q} :
                    SpentBy(q2, kind)' /\ T(q2)'.replayStore.store = T(q)'.replayStore.store =>
                      IdSpent(q2, kind)' # IdSpent(q, kind)'
    <3>1. SpentBy(q, kind) /\ IdSpent(q, kind)' = IdSpent(q, kind) /\ T(q)' = T(q)
      BY <2>4, <2>1, <1>3
    <3>2. <<kind, IdSpent(q, kind)'>> \in consumed'[T(q)'.replayStore.store]
      <4>1. pc[q] # "idle"
        BY <3>1 DEF SpentBy, SpentAuth, SpentDelegationId
      <4>2. T(q).replayStore.store \in Stores \cup Guards
        BY <4>1, DomainIsStore
      <4> QED BY <3>1, <4>2, <2>2
    <3>3. ASSUME NEW q2 \in Requests \ {q}, SpentBy(q2, kind)', T(q2)'.replayStore.store = T(q)'.replayStore.store
          PROVE  IdSpent(q2, kind)' # IdSpent(q, kind)'
      <4>1. CASE q2 = r
        BY <4>1, <3>1, <3>3, <2>3
      <4>2. CASE q2 # r
        <5>1. SpentBy(q2, kind) /\ IdSpent(q2, kind)' = IdSpent(q2, kind) /\ T(q2)' = T(q2)
          BY <4>2, <3>3, <2>1, <1>3
        <5> QED BY <5>1, <3>1, <3>3, <2>2
      <4> QED BY <4>1, <4>2
    <3> QED BY <3>2, <3>3
  <2>5. ASSUME SpentBy(r, kind)', NEW q2 \in Requests \ {r}, SpentBy(q2, kind)',
               T(q2)'.replayStore.store = T(r)'.replayStore.store
        PROVE  IdSpent(q2, kind)' # IdSpent(r, kind)'
    BY <2>5, <2>1, <2>3, <1>3
  <2> QED BY <2>3, <2>4, <2>5
<1>6. \A q \in Requests \ {r} : Hooked(q)' = Hooked(q)
  BY DEF Hooked
<1>7. ReportInv'
  <2>1. ASSUME NEW q \in Requests \ {r} PROVE Report(q)'
    <3>1. Report(q) /\ Reportable(q)' = Reportable(q)
      BY <1>6 DEF Inv, ReportInv, Reportable
    <3>2. Told(q)'
      BY <3>1 DEF Report, Told, Accounts
    <3>3. (req[q].evaluated => Agrees(req[q]))'
      BY <3>1 DEF Report, Agrees
    <3> QED BY <3>1, <3>2, <3>3 DEF Report
  <2> QED BY <2>1 DEF ReportInv
<1>8. EmittedInv'
  <2>1. \A q \in Requests \ {r} : \A err : Accounted(q, err)' = Accounted(q, err)
    BY <1>6 DEF Accounted
  <2>2. ASSUME NEW err \in SharedErrors
        PROVE  err \in emitted' <=> \E q \in Requests : Accounted(q, err)'
    <3>1. err \in emitted <=> \E q \in Requests : Accounted(q, err)
      BY DEF Inv, EmittedInv
    <3>2. /\ emitted \subseteq emitted' /\ ~Accounted(r, err)
          /\ (err \in emitted' \ emitted => Accounted(r, err)') /\ (Accounted(r, err)' => err \in emitted')
      BY DEF Accounts
    <3> QED BY <2>1, <3>1, <3>2
  <2>3. ASSUME NEW err \in SharedErrors, NEW q \in Requests \ {r}, thrown'[q] = {err}, thrown'[r] = {err}
        PROVE  events'[q] = <<>> \/ events'[r] = <<>>
    <3>1. SUFFICES ASSUME events[q] # <<>> PROVE events'[r] = <<>>
      OBVIOUS
    <3>2. Accounted(q, err)
      BY <2>3, <3>1 DEF Inv, ReportInv, Report, Told, Reportable, Accounted
    <3>3. err \in emitted
      BY <3>2 DEF Inv, EmittedInv
    <3> QED BY <2>3, <3>3 DEF Accounts
  <2>4. ASSUME NEW err \in SharedErrors, NEW q \in Requests, NEW q2 \in Requests,
               q # q2, thrown'[q] = {err}, thrown'[q2] = {err}
        PROVE  events'[q] = <<>> \/ events'[q2] = <<>>
    <3>1. CASE q # r /\ q2 # r
      BY <2>4, <3>1 DEF Inv, EmittedInv
    <3> QED BY <2>3, <2>4, <3>1
  <2> QED BY <2>2, <2>4 DEF EmittedInv
<1> QED BY <1>1, <1>2, <1>4, <1>5, <1>7, <1>8 DEF Inv

\* A call that throws nothing leaves EMITTED as it is.
LEMMA QuietAccounts ==
  ASSUME Inv, NEW r \in Requests, thrown[r] = {}, UNCHANGED <<emitted, thrown>>
  PROVE  Accounts(r)
<1>1. \A err : thrown[r] # {err}
  OBVIOUS
<1> QED BY <1>1 DEF Accounts, Accounted, Inv, TypeInv

(***************************************************************************)
(* A thrown value: what the two nested catches leave in the event log.     *)
(***************************************************************************)
Leaves(r, g, err, event, outcome) ==
  /\ pc' = [pc EXCEPT ![r] = outcome] /\ thrown' = [thrown EXCEPT ![r] = {err}]
  /\ \A q \in Requests \ {r} : events'[q] = events[q]
  /\ DOMAIN events' = Requests
  /\ events'[r] = IF Hook(g) /\ err # DenyError /\ outcome # "failed" /\ err \notin emitted
                  THEN <<event>> ELSE <<>>
  /\ emitted' = IF Hook(g) /\ err # DenyError THEN emitted \cup ({err} \cap SharedErrors)
                ELSE emitted

LEMMA ThrowReports ==
  ASSUME Inv, NEW r \in Requests, NEW g, NEW layer \in {"prelude", "body"}, NEW err \in Throwable,
         NEW event, NEW outcome, ThrowAs(r, g, layer, err, event, outcome), events[r] = <<>>,
         layer = "prelude" => outcome # "failed"
  PROVE  Leaves(r, g, err, event, outcome)
<1> DEFINE hook == \E t \in template[g] : t.onBoundaryEvent
           start == [events |-> events[r], emitted |-> emitted]
           body == emitBoundaryEvent(hook, err, outcome = "failed", FALSE, event, start)
           inner == IF layer = "body" THEN body ELSE start
           entered == EnteredBody(layer)
           outer == emitBoundaryEvent(hook, err, FALSE, entered, event, inner)
           marked == MarkEmitted(start, err)
           told == MarkEmitted([start EXCEPT !.events = Append(@, event)], err)
           result == IF ~hook \/ err = DenyError THEN start
                     ELSE IF outcome = "failed" THEN marked
                     ELSE IF err \in emitted THEN start ELSE told
<1>1. /\ events' = [events EXCEPT ![r] = outer.events] /\ emitted' = outer.emitted \ {Fresh}
      /\ thrown' = [thrown EXCEPT ![r] = {err}] /\ pc' = [pc EXCEPT ![r] = outcome]
  BY DEF ThrowAs
<1>2. /\ start.events = <<>> /\ start.emitted = emitted
      /\ marked.events = <<>> /\ marked.emitted = emitted \cup ({err} \ {Primitive})
      /\ told.events = <<event>> /\ told.emitted = emitted \cup ({err} \ {Primitive})
  <2>1. Append(<<>>, event) = <<event>>
    OBVIOUS
  <2> QED BY <2>1 DEF MarkEmitted
<1>3. hook <=> Hook(g)
  BY DEF Hook
<1>4. entered <=> layer = "body"
  BY DEF EnteredBody
<1> HIDE DEF hook, start, marked, told, entered
<1>5. body = result
  BY <1>2, Zenon DEF emitBoundaryEvent, marked, told
<1>6. outer = result
  <2>1. CASE layer = "body"
    <3>1. inner = result
      BY <1>5, <2>1, Zenon
    <3> HIDE DEF inner, result
    <3>2. ~hook \/ err = DenyError => outer = inner
      BY Zenon DEF emitBoundaryEvent
    <3>3. outer = inner
      BY <1>4, <2>1, <3>2, Zenon DEF emitBoundaryEvent
    <3> QED BY <3>1, <3>3
  <2>2. CASE layer = "prelude"
    <3>1. inner = start /\ ~entered /\ outcome # "failed"
      BY <1>4, <2>2
    <3> HIDE DEF inner
    <3> QED BY <3>1, <1>2, Zenon DEF emitBoundaryEvent, told
  <2> QED BY <2>1, <2>2
<1> HIDE DEF outer, body, inner
<1>7. /\ result.events = IF hook /\ err # DenyError /\ outcome # "failed" /\ err \notin emitted
                          THEN <<event>> ELSE <<>>
      /\ result.emitted = IF hook /\ err # DenyError
                          THEN emitted \cup ({err} \ {Primitive}) ELSE emitted
  <2>1. err \in emitted => err # Primitive /\ emitted \cup ({err} \ {Primitive}) = emitted
    BY SecureGuardConfig DEF Inv, TypeInv
  <2> QED BY <1>2, <2>1
<1> HIDE DEF result
<1>8. emitted \subseteq SharedErrors /\ Fresh \notin SharedErrors /\ Primitive \notin SharedErrors
  BY SecureGuardConfig DEF Inv, TypeInv
<1>9. err # DenyError => (emitted \cup ({err} \ {Primitive})) \ {Fresh} = emitted \cup ({err} \cap SharedErrors)
  BY <1>8 DEF Throwable
<1>10. emitted \ {Fresh} = emitted
  BY <1>8
<1>11. DOMAIN events = Requests
  BY DEF Inv, TypeInv
<1> QED BY <1>1, <1>3, <1>6, <1>7, <1>9, <1>10, <1>11 DEF Leaves

\* What the two catches of one call leave of the books.
LEMMA ThrowAccounts ==
  ASSUME Inv, NEW r \in Requests, NEW g, NEW layer \in {"prelude", "body"}, NEW err \in Throwable,
         NEW event, NEW outcome \in {"rejected", "denied", "failed"},
         ThrowAs(r, g, layer, err, event, outcome), events[r] = <<>>, thrown[r] = {},
         layer = "prelude" => outcome # "failed",
         outcome = "denied" => err = DenyError,
         template' = template, req'[r].guard = g
  PROVE  /\ pc'[r] = outcome /\ DOMAIN pc' = Requests /\ DOMAIN thrown' = Requests
         /\ DOMAIN events' = Requests
         /\ \A q \in Requests \ {r} : pc'[q] = pc[q] /\ events'[q] = events[q] /\ thrown'[q] = thrown[q]
         /\ Told(r)' /\ Accounts(r)
<1>1. /\ pc' = [pc EXCEPT ![r] = outcome] /\ thrown' = [thrown EXCEPT ![r] = {err}]
      /\ \A q \in Requests \ {r} : events'[q] = events[q]
      /\ DOMAIN events' = Requests
      /\ events'[r] = IF Hook(g) /\ err # DenyError /\ outcome # "failed" /\ err \notin emitted
                      THEN <<event>> ELSE <<>>
      /\ emitted' = IF Hook(g) /\ err # DenyError THEN emitted \cup ({err} \cap SharedErrors)
                    ELSE emitted
  <2>1. Leaves(r, g, err, event, outcome)
    BY ThrowReports
  <2> QED BY <2>1 DEF Leaves
<1>2. /\ pc'[r] = outcome /\ DOMAIN pc' = Requests /\ DOMAIN thrown' = Requests /\ thrown'[r] = {err}
      /\ \A q \in Requests \ {r} : pc'[q] = pc[q] /\ thrown'[q] = thrown[q]
  BY <1>1 DEF Inv, TypeInv
<1>3. Hooked(r)' <=> Hook(g)
  BY <1>2 DEF Hooked, Hook
<1>4. <<event>> # <<>> /\ (<<event>>)[1] = event
  OBVIOUS
<1>5. Reportable(r)' <=> outcome = "rejected" /\ Hook(g) /\ err # DenyError
  BY <1>2, <1>3 DEF Reportable
<1>6. Told(r)'
  <2>1. Throwable' = Throwable
    BY DEF Throwable
  <2>2. Reportable(r)' => events'[r] # <<>> \/ thrown'[r] \subseteq emitted'
    BY <1>1, <1>2, <1>4, <1>5
  <2>3. events'[r] # <<>> => Reportable(r)'
    BY <1>1, <1>5
  <2>4. events'[r] = <<>> \/ events'[r] = <<events'[r][1]>>
    BY <1>1, <1>4
  <2> QED BY <1>2, <2>1, <2>2, <2>3, <2>4 DEF Told
<1>7. Accounts(r)
  <2>1. emitted \subseteq SharedErrors /\ DenyError \notin SharedErrors
    BY SecureGuardConfig DEF Inv, TypeInv
  <2>2. ASSUME NEW e \in SharedErrors
        PROVE  Accounted(r, e)' <=> Hook(g) /\ err = e /\ (events'[r] # <<>> \/ outcome = "failed")
    BY <1>2, <1>3 DEF Accounted
  <2>3. ASSUME NEW e \in SharedErrors
        PROVE  /\ ~Accounted(r, e)
               /\ e \in emitted' \ emitted => Accounted(r, e)'
               /\ Accounted(r, e)' => e \in emitted'
               /\ e \in emitted /\ thrown'[r] = {e} => events'[r] = <<>>
    <3>1. ~Accounted(r, e)
      <4>1. thrown[r] # {e}
        OBVIOUS
      <4> QED BY <4>1 DEF Accounted
    <3>2. e \in emitted' \ emitted => Accounted(r, e)'
      BY <1>1, <1>4, <2>2
    <3>3. Accounted(r, e)' => e \in emitted'
      BY <1>1, <2>1, <2>2
    <3>4. e \in emitted /\ thrown'[r] = {e} => events'[r] = <<>>
      BY <1>1, <1>2
    <3> QED BY <3>1, <3>2, <3>3, <3>4
  <2>4. emitted \subseteq emitted' /\ emitted' \subseteq SharedErrors
    BY <1>1, <2>1
  <2> QED BY <2>3, <2>4 DEF Accounts
<1> QED BY <1>1, <1>2, <1>6, <1>7

----------------------------------------------------------------------------
(* Construction. *)

\* With nothing polluted, the captured options are the deployer's own.
LEMMA CapturedConfig ==
  ASSUME NEW c, "option" \notin prototype
  PROVE  LET raw == captureSecureGuardConfig(c)
         IN /\ raw.tenancy = c.tenancy /\ raw.required = c.required /\ raw.signers = c.signers
            /\ raw.authorities = c.authorities /\ raw.revocation = c.revocation
            /\ raw.check = {methods[p] : p \in c.provider}
            /\ raw.replayStore = {captureReplayStore(s) : s \in c.replayStore}
            /\ raw.replayProtection = captureReplayProtection(c.replayProtection)
<1>1. \A option : read(c, option) = c[option]
  BY DEF read
<1> QED BY <1>1 DEF captureSecureGuardConfig

\* The store resolved is the one declared, or the guard's own when none is.
LEMMA ResolvedStore ==
  ASSUME NEW c, ConfigShape(c), NEW raw, NEW strict, NEW g, NEW b, b.config = c, b.methods = methods,
         raw.replayStore = {captureReplayStore(s) : s \in c.replayStore},
         raw.replayProtection = captureReplayProtection(c.replayProtection),
         NEW store \in resolveReplayProtection(raw, strict, g)
  PROVE  /\ StoreFrom(store, b, g)
         /\ \A p \in c.replayProtection : p.mode = "shared" => \A s \in p.store : KindOf[s] # "builtin"
<1>1. CASE c.replayProtection = {} /\ c.replayStore = {}
  <2>1. raw.replayProtection = {} /\ raw.replayStore = {} /\ Declared(c) = {}
    BY <1>1 DEF captureReplayProtection, Declared
  <2>2. store = ProcessLocal(g)
    BY <2>1 DEF resolveReplayProtection
  <2> QED BY <1>1, <2>1, <2>2 DEF StoreFrom
<1>2. CASE c.replayProtection = {} /\ c.replayStore # {}
  <2>1. PICK s \in Stores : c.replayStore = {s}
    BY <1>2 DEF ConfigShape, Optional
  <2>2. raw.replayProtection = {} /\ raw.replayStore = {captureReplayStore(s)} /\ Declared(c) = {s}
    BY <1>2, <2>1 DEF captureReplayProtection, Declared
  <2>3. store = [store |-> s, method |-> methods[s]]
    BY <2>2 DEF resolveReplayProtection, captureReplayStore
  <2> QED BY <1>2, <2>2, <2>3 DEF StoreFrom
<1>3. CASE c.replayProtection # {}
  <2>1. PICK p \in c.replayProtection : c.replayProtection = {p}
    BY <1>3 DEF ConfigShape
  <2> DEFINE captured == [mode |-> p.mode, store |-> {captureReplayStore(s) : s \in p.store}]
  <2>2. raw.replayProtection = {captured}
    BY <2>1 DEF captureReplayProtection
  <2>3. raw.replayStore = {} /\ c.replayStore = {}
    BY <2>2 DEF resolveReplayProtection
  <2>4. store \in resolvePosture(captured, g)
    BY <2>2, <2>3 DEF resolveReplayProtection
  <2>5. Declared(c) = p.store
    BY <2>1, <2>3 DEF Declared
  <2>6. p.store \in Optional(Stores)
    BY DEF ConfigShape
  <2>7. captured.mode = p.mode /\ captured.store = {captureReplayStore(s) : s \in p.store}
    OBVIOUS
  <2> HIDE DEF captured
  <2>8. CASE p.mode = "process-local"
    <3>1. store = ProcessLocal(g) /\ captured.store = {}
      BY <2>4, <2>7, <2>8 DEF resolvePosture
    <3>2. p.store = {}
      BY <3>1, <2>7
    <3> QED BY <3>1, <3>2, <2>1, <2>5 DEF StoreFrom
  <2>9. CASE p.mode = "shared"
    <3>1. /\ store \in captured.store /\ KindOf[store.store] # "broken"
          /\ ~isCapturedEphemeralReplayStore(store)
      BY <2>4, <2>7, <2>9 DEF resolvePosture
    <3>2. PICK s \in p.store : store = captureReplayStore(s)
      BY <3>1, <2>7
    <3>3. p.store = {s} /\ s \in Stores
      BY <2>6, <3>2 DEF Optional
    <3>4. store = [store |-> s, method |-> methods[s]] /\ KindOf[s] # "builtin"
      BY <3>1, <3>2 DEF captureReplayStore, isCapturedEphemeralReplayStore
    <3> QED BY <2>1, <2>5, <3>3, <3>4 DEF StoreFrom
  <2>10. CASE p.mode \notin {"process-local", "shared"}
    BY <2>4, <2>7, <2>10 DEF resolvePosture
  <2> QED BY <2>8, <2>9, <2>10
<1> QED BY <1>1, <1>2, <1>3

LEMMA CreatedFrom ==
  ASSUME NEW g, NEW b, b.config = config, b.methods = methods, ConfigShape(config),
         NEW t \in createSecureGuard(config, g)
  PROVE  From(t, b, g)
<1> DEFINE raw == captureSecureGuardConfig(config)
           stores == UNION {resolveReplayProtection(raw, strict, g) : strict \in strictFromConfig(raw)}
<1>1. Constructs(config, raw)
  BY DEF createSecureGuard
<1>2. "option" \notin prototype
  BY <1>1 DEF Constructs, captureSucceeds, assertIntrinsicsUnpolluted
<1>3. /\ raw.tenancy = config.tenancy /\ raw.required = config.required /\ raw.signers = config.signers
      /\ raw.authorities = config.authorities /\ raw.revocation = config.revocation
      /\ raw.check = {methods[p] : p \in config.provider}
      /\ raw.replayStore = {captureReplayStore(s) : s \in config.replayStore}
      /\ raw.replayProtection = captureReplayProtection(config.replayProtection)
  BY <1>2, CapturedConfig
<1>4. PICK store \in stores, signers \in resolveDelegationSigners(raw), r \in resolveDelegationRevocation(raw) :
        t = [ tenancy |-> raw.tenancy, mapActionToIntent |-> raw.mapActionToIntent,
              onBoundaryEvent |-> raw.onBoundaryEvent, replayStore |-> store,
              signers |-> signers, authorities |-> raw.authorities,
              check |-> r.check, required |-> r.required, revocation |-> raw.revocation ]
  BY <1>1 DEF createSecureGuard
<1> HIDE DEF raw
<1>5. signers = raw.signers /\ r.check = raw.check /\ r.required = raw.required
  BY DEF resolveDelegationSigners, resolveDelegationRevocation
<1>6. PICK strict \in strictFromConfig(raw) : store \in resolveReplayProtection(raw, strict, g)
  OBVIOUS
<1>7. /\ StoreFrom(store, b, g)
      /\ \A p \in config.replayProtection : p.mode = "shared" => \A s \in p.store : KindOf[s] # "builtin"
  BY <1>3, <1>6, ResolvedStore
<1> QED BY <1>3, <1>4, <1>5, <1>7 DEF From

LEMMA ConstructStep ==
  ASSUME Inv, NEW g \in Guards, Construct(g)
  PROVE  Inv'
<1> DEFINE b == [config |-> config, methods |-> methods]
<1>1. /\ template' = [template EXCEPT ![g] = createSecureGuard(config, g)]
      /\ built' = [built EXCEPT ![g] = {b}]
      /\ UNCHANGED <<config, consumed, pc, req, events, emitted, thrown, decisions>>
  BY DEF Construct, audit, boundary
<1>2. template[g] = {}
  BY DEF Construct, Inv, BuiltInv
<1>3. TypeInv'
  BY <1>1 DEF Inv, TypeInv, ConfigShape
<1>4. BuiltInv'
  <2>1. \A t \in createSecureGuard(config, g) : From(t, b, g)
    BY CreatedFrom DEF Inv, TypeInv
  <2>2. template'[g] = createSecureGuard(config, g) /\ built'[g] = {b}
    BY <1>1 DEF Inv, TypeInv
  <2>3. \A g2 \in Guards \ {g} : template'[g2] = template[g2] /\ built'[g2] = built[g2]
    BY <1>1 DEF Inv, TypeInv
  <2>4. \A t, b2, g2 : From(t, b2, g2)' = From(t, b2, g2)
    BY DEF From, StoreFrom, ConfigShape
  <2> HIDE DEF b
  <2> QED BY <2>1, <2>2, <2>3, <2>4 DEF Inv, BuiltInv
<1>5. \A r \in Requests : pc[r] # "idle" =>
        /\ template'[req[r].guard] = template[req[r].guard]
        /\ T(r)' = T(r)
  <2> TAKE r \in Requests
  <2> HAVE pc[r] # "idle"
  <2>1. req[r].guard # g
    BY <1>2 DEF Inv, StageInv, Stage
  <2>2. template'[req[r].guard] = template[req[r].guard]
    BY <1>1, <2>1 DEF Inv, TypeInv
  <2> QED BY <1>1, <2>2 DEF T
<1>6. StageInv'
  BY <1>1, <1>5 DEF Inv, StageInv, Stage, PastChecks
<1>7. SpentInv'
  <2>1. ASSUME NEW r \in Requests, NEW kind
        PROVE  (SpentBy(r, kind)' <=> SpentBy(r, kind)) /\ IdSpent(r, kind)' = IdSpent(r, kind)
    <3>1. CASE pc[r] = "idle"
      BY <1>1, <3>1 DEF SpentBy, IdSpent, SpentAuth, SpentDelegationId
    <3>2. CASE pc[r] # "idle"
      <4>1. T(r)' = T(r) /\ req' = req /\ pc' = pc
        BY <1>1, <1>5, <3>2
      <4>2. KeepsIds(r)' <=> KeepsIds(r)
        BY <4>1 DEF KeepsIds
      <4>3. HasDelegationIds(T(r).replayStore.store)' <=> HasDelegationIds(T(r).replayStore.store)
        BY <4>1 DEF HasDelegationIds
      <4>4. SpentBy(r, kind)' <=> SpentBy(r, kind)
        BY <4>1, <4>2, <4>3 DEF SpentBy
      <4> QED BY <4>1, <4>4 DEF IdSpent
    <3> QED BY <3>1, <3>2
  <2>2. ASSUME NEW r \in Requests, NEW kind, SpentBy(r, kind) PROVE T(r)' = T(r)
    <3>1. pc[r] # "idle"
      BY <2>2 DEF SpentBy, SpentAuth, SpentDelegationId
    <3> QED BY <3>1, <1>5
  <2>3. ASSUME NEW r \in Requests, NEW kind \in {"auth", "delegation"}, SpentBy(r, kind)'
        PROVE  /\ <<kind, IdSpent(r, kind)'>> \in consumed'[T(r)'.replayStore.store]
               /\ \A r2 \in Requests \ {r} :
                    SpentBy(r2, kind)' /\ T(r2)'.replayStore.store = T(r)'.replayStore.store =>
                      IdSpent(r2, kind)' # IdSpent(r, kind)'
    <3>1. /\ SpentBy(r, kind) /\ IdSpent(r, kind)' = IdSpent(r, kind) /\ T(r)' = T(r)
          /\ consumed' = consumed
      BY <1>1, <2>1, <2>2, <2>3
    <3>2. /\ <<kind, IdSpent(r, kind)>> \in consumed[T(r).replayStore.store]
          /\ \A r2 \in Requests \ {r} :
               SpentBy(r2, kind) /\ T(r2).replayStore.store = T(r).replayStore.store =>
                 IdSpent(r2, kind) # IdSpent(r, kind)
      BY <3>1 DEF Inv, SpentInv
    <3>3. ASSUME NEW r2 \in Requests \ {r}, SpentBy(r2, kind)', T(r2)'.replayStore.store = T(r)'.replayStore.store
          PROVE  IdSpent(r2, kind)' # IdSpent(r, kind)'
      <4>1. SpentBy(r2, kind) /\ IdSpent(r2, kind)' = IdSpent(r2, kind) /\ T(r2)' = T(r2)
        BY <2>1, <2>2, <3>3
      <4> QED BY <4>1, <3>1, <3>2, <3>3
    <3> QED BY <3>1, <3>2, <3>3
  <2> QED BY <2>3 DEF SpentInv
<1>8. \A r \in Requests : Hooked(r)' = Hooked(r)
  BY <1>1, <1>5 DEF Hooked
<1>9. ReportInv'
  BY <1>1, <1>8 DEF Inv, ReportInv, Report, Told, Reportable
<1>10. EmittedInv'
  BY <1>1, <1>8 DEF Inv, EmittedInv, Accounted
<1> QED BY <1>3, <1>4, <1>6, <1>7, <1>9, <1>10 DEF Inv

LEMMA ChangeOptionStep ==
  ASSUME Inv, ChangeOption
  PROVE  Inv'
<1>1. PICK c \in Configs, option \in Assignable : config' = [config EXCEPT ![option] = c[option]]
  BY DEF ChangeOption
<1>2. ConfigShape(c) /\ ConfigShape(config)
  BY SecureGuardConfig DEF Inv, TypeInv
<1>3. /\ DOMAIN config' = DOMAIN config
      /\ \A o \in {"provider", "replayStore", "replayProtection"} : config'[o] \in {config[o], c[o]}
  BY <1>1, <1>2 DEF ConfigShape
<1>4. ConfigShape(config')
  BY <1>2, <1>3 DEF ConfigShape
<1> QED BY <1>4, OutsideStep DEF ChangeOption

LEMMA EnvironmentStep ==
  ASSUME Inv,
         ReplaceMethod \/ RotateKeys \/ Revoke \/ Pollute \/ \E r \in Requests : ChangeDelegation(r)
  PROVE  Inv'
<1>1. InsideOnly /\ config' = config
  BY DEF ReplaceMethod, RotateKeys, Revoke, Pollute, ChangeDelegation
<1>2. ConfigShape(config')
  BY <1>1 DEF Inv, TypeInv
<1> QED BY <1>1, <1>2, OutsideStep


----------------------------------------------------------------------------
(* Reconciliation. *)

\* Without a conflict, nobody claimed otherwise than the trusted context.
LEMMA ReconciledAgrees ==
  ASSUME NEW q, q.ctx.branded, q.ctx.agent_id # Undefined, NEW intent,
         NEW q2, q2.ctx = q.ctx, q2.action = q.action,
         LET result == reconcileWithTrustedContext(intent, q.ctx, q.action)
         IN /\ Conflicts(result.provenance) = {}
            /\ q2.intent = result.intent /\ q2.provenance = result.provenance
  PROVE  Agrees(q2)
<1> DEFINE ctx == q.ctx
           claims == q.action.claims
           record == q2.provenance
<1>1. record = [f \in Fields |-> Provenance(f, intent, ctx, q.action)]
  BY DEF reconcileWithTrustedContext
<1>2. q2.intent = [f \in DOMAIN intent |-> IF ctx[f] # Undefined THEN ctx[f] ELSE intent[f]]
  BY DEF reconcileWithTrustedContext
<1>3. Conflicts(record) = {}
  OBVIOUS
<1> HIDE DEF record
<1>4. \A f \in Fields : record[f] # "conflict"
  BY <1>3 DEF Conflicts
<1>5. ASSUME NEW f \in Fields, claims[f] # Undefined
      PROVE  IF ctx[f] = Undefined THEN record[f] = "unverified"
             ELSE claims[f] = ctx[f] /\ record[f] = "matched"
  <2>1. claims[f] \in ClaimsOf(f, intent, q.action)
    BY <1>5 DEF ClaimsOf
  <2>2. f \notin Synthesized(q.action)
    BY <1>5 DEF Synthesized
  <2>3. record[f] = Provenance(f, intent, ctx, q.action) /\ record[f] # "conflict"
    BY <1>1, <1>4
  <2>4. CASE ctx[f] = Undefined
    BY <2>1, <2>3, <2>4 DEF Provenance
  <2>5. CASE ctx[f] # Undefined
    <3>1. ClaimsOf(f, intent, q.action) = {ctx[f]} /\ record[f] = "matched"
      BY <2>1, <2>2, <2>3, <2>5 DEF Provenance
    <3> QED BY <3>1, <2>1, <2>5
  <2> QED BY <2>4, <2>5
<1>6. "agent_id" \in Fields
  BY DEF Fields
<1>7. claims.agent_id = Undefined => record.agent_id # "matched"
  <2>1. CASE claims.agent_id = Undefined
    <3>1. "agent_id" \in Synthesized(q.action)
      BY <2>1 DEF Synthesized
    <3>2. record.agent_id = Provenance("agent_id", intent, ctx, q.action)
      BY <1>1, <1>6
    <3> QED BY <3>1, <3>2 DEF Provenance
  <2> QED BY <2>1
<1>8. (record.agent_id = "matched") <=> (claims.agent_id = ctx.agent_id)
  BY <1>5, <1>6, <1>7
<1>9. \A f \in Fields : ctx[f] # Undefined =>
        /\ claims[f] \in {Undefined, ctx[f]}
        /\ f \in DOMAIN q2.intent => q2.intent[f] = ctx[f]
  BY <1>2, <1>5
<1>10. \A f \in Fields : claims[f] # Undefined =>
         record[f] = IF ctx[f] = Undefined THEN "unverified" ELSE "matched"
  BY <1>5
<1> QED BY <1>8, <1>9, <1>10 DEF Agrees, record


----------------------------------------------------------------------------
(* The steps of one call. *)

Underway == ({"loading"} \cup PastChecks) \ {"returned", "failed"}

\* What the invariant says of a call that is underway.
LEMMA UnderwayFacts ==
  ASSUME Inv, NEW r \in Requests, pc[r] \in Underway
  PROVE  /\ Stage(r) /\ Trusted(req[r], T(r))
         /\ req[r].genuine /\ req[r].guard \in Guards /\ template[req[r].guard] # {}
         /\ req[r].evaluated => Agrees(req[r])
         /\ events[r] = <<>> /\ decisions[r] = <<>> /\ thrown[r] = {}
         /\ T(r).replayStore.store \in Stores \cup Guards
<1>1. pc[r] \notin {"idle", "rejected", "returned", "denied", "failed"}
  BY DEF Underway, PastChecks
<1>2. Stage(r) /\ Report(r)
  BY DEF Inv, StageInv, ReportInv
<1>3. T(r).replayStore.store \in Stores \cup Guards
  BY <1>1, DomainIsStore
<1> QED BY <1>1, <1>2, <1>3 DEF Stage, Report, Told, Reportable

\* A step of call r keeps every hook, and r's template while r keeps its guard.
LEMMA Frame ==
  ASSUME NEW r \in Requests, OnlyMoves(r), req'[r].guard = req[r].guard
  PROVE  T(r)' = T(r) /\ \A g : Hook(g)' = Hook(g)
BY DEF OnlyMoves, T, Hook

\* The record of call r becomes q; the others keep theirs.
Records(r, q) ==
  /\ DOMAIN req' = Requests /\ DOMAIN q = DOMAIN Idle /\ req'[r] = q
  /\ \A r2 \in Requests \ {r} : req'[r2] = req[r2]

\* A call that ends by a thrown value, denied, failed or rejected.
LEMMA EndStep ==
  ASSUME Inv, NEW r \in Requests, pc[r] \in Underway,
         UNCHANGED <<config, template, built>>,
         NEW q, Records(r, q),
         q.guard = req[r].guard, q.genuine, q.evaluated => Agrees(q),
         DOMAIN consumed' = Stores \cup Guards, \A s \in Stores \cup Guards : consumed[s] \subseteq consumed'[s],
         NEW err \in Throwable, NEW event, NEW outcome \in {"rejected", "denied"},
         ThrowAs(r, req[r].guard, "body", err, event, outcome),
         outcome = "denied" => err = DenyError,
         IF outcome = "denied"
         THEN \E d : decisions' = [decisions EXCEPT ![r] = Append(@, <<d, q.provenance>>)]
         ELSE decisions' = decisions,
         outcome = "denied" => Trusted(q, T(r))
  PROVE  Inv'
<1>1. /\ events[r] = <<>> /\ decisions[r] = <<>> /\ thrown[r] = {}
      /\ req[r].guard \in Guards /\ template[req[r].guard] # {}
  BY UnderwayFacts
<1>2. /\ pc'[r] = outcome /\ DOMAIN pc' = Requests /\ DOMAIN thrown' = Requests
      /\ DOMAIN events' = Requests
      /\ \A r2 \in Requests \ {r} :
           pc'[r2] = pc[r2] /\ events'[r2] = events[r2] /\ thrown'[r2] = thrown[r2]
      /\ Told(r)' /\ Accounts(r)
  <2>1. PICK g, layer, result :
          /\ layer \in {"prelude", "body"} /\ result \in {"rejected", "denied", "failed"}
          /\ g = req[r].guard /\ layer = "body" /\ result = outcome
    OBVIOUS
  <2>2. ThrowAs(r, g, layer, err, event, result)
    BY <2>1 DEF ThrowAs
  <2>3. /\ req'[r].guard = g /\ template' = template
        /\ (layer = "prelude" => result # "failed") /\ (result = "denied" => err = DenyError)
    BY <2>1 DEF Records
  <2> QED BY <1>1, <2>1, <2>2, <2>3, ThrowAccounts
<1>3. DOMAIN decisions = Requests
  BY DEF Inv, TypeInv
<1>4. /\ \A r2 \in Requests \ {r} : decisions'[r2] = decisions[r2]
      /\ DOMAIN decisions' = Requests
      /\ outcome = "denied" => \E d : decisions'[r] = <<<<d, q.provenance>>>>
      /\ outcome # "denied" => decisions'[r] = <<>>
  <2>1. CASE outcome = "denied"
    <3>1. PICK d : decisions' = [decisions EXCEPT ![r] = Append(@, <<d, q.provenance>>)]
      BY <2>1
    <3>2. decisions'[r] = Append(<<>>, <<d, q.provenance>>)
      BY <3>1, <1>1, <1>3
    <3>3. decisions'[r] = <<<<d, q.provenance>>>>
      BY <3>2
    <3> QED BY <3>1, <3>3, <1>3, <2>1
  <2>2. CASE outcome # "denied"
    BY <2>2, <1>1, <1>3
  <2> QED BY <2>1, <2>2
<1>5. OnlyMoves(r) /\ pc'[r] = outcome /\ req'[r] = q
  BY <1>2, <1>4 DEF OnlyMoves, Records, Inv, TypeInv
<1>6. T(r)' = T(r) /\ \A g : Hook(g)' = Hook(g)
  BY <1>5, Frame
<1>7. Stage(r)'
  BY <1>1, <1>5, <1>6 DEF Stage, PastChecks, Trusted
<1>8. Report(r)'
  <2>1. (req[r].evaluated => Agrees(req[r]))'
    BY <1>5 DEF Agrees
  <2>3. IF outcome = "denied"
        THEN decisions'[r] = <<<<decisions'[r][1][1], q.provenance>>>> ELSE decisions'[r] = <<>>
    BY <1>4
  <2> QED BY <2>1, <2>3, <1>2, <1>5, <1>6 DEF Report
<1>9. SpendsOnce(r)
  BY <1>5 DEF SpendsOnce, SpentBy, SpentAuth, SpentDelegationId
<1> QED BY <1>2, <1>5, <1>7, <1>8, <1>9, CallStep


LEMMA RejectStep ==
  ASSUME Inv, NEW r \in Requests, pc[r] \in Underway,
         UNCHANGED <<config, template, built, req, decisions>>,
         DOMAIN consumed' = Stores \cup Guards, \A s \in Stores \cup Guards : consumed[s] \subseteq consumed'[s],
         NEW err \in Throwable, NEW event, ThrowAs(r, req[r].guard, "body", err, event, "rejected")
  PROVE  Inv'
<1>1. PICK q : q = req[r]
  OBVIOUS
<1>2. Records(r, q)
  BY <1>1 DEF Records, Inv, TypeInv
<1>3. q.guard = req[r].guard /\ q.genuine /\ (q.evaluated => Agrees(q))
  BY <1>1, UnderwayFacts
<1>4. PICK outcome : outcome = "rejected"
  OBVIOUS
<1>5. ThrowAs(r, req[r].guard, "body", err, event, outcome)
  BY <1>4
<1>6. /\ outcome \in {"rejected", "denied"} /\ (outcome = "denied" => err = DenyError)
      /\ IF outcome = "denied"
         THEN \E d : decisions' = [decisions EXCEPT ![r] = Append(@, <<d, q.provenance>>)]
         ELSE decisions' = decisions
      /\ (outcome = "denied" => Trusted(q, T(r)))
  BY <1>4
<1>7. UNCHANGED <<config, template, built>>
  OBVIOUS
<1>8. UNCHANGED <<config, template, built>> /\ req' = req /\ decisions' = decisions
  OBVIOUS
<1> QED BY <1>2, <1>3, <1>4, <1>5, <1>6, <1>7, <1>8, EndStep

\* A call that passes a check, with what it then owes and what it has spent.
LEMMA ProceedStep ==
  ASSUME Inv, NEW r \in Requests, pc[r] \in Underway,
         UNCHANGED <<config, template, built, events, emitted, thrown, decisions>>,
         NEW nxt \in PastChecks \ {"returned", "failed"}, pc' = [pc EXCEPT ![r] = nxt],
         NEW q, Records(r, q),
         q.guard = req[r].guard, q.genuine, q.evaluated => Agrees(q),
         Trusted(q, T(r)), Enforced(q, T(r)),
         nxt # "checking" /\ q.delegated /\ T(r).check = {"genuine"} => q.active,
         DOMAIN consumed' = Stores \cup Guards, \A s \in Stores \cup Guards : consumed[s] \subseteq consumed'[s],
         nxt \in SpentAuth /\ KeepsIds(r) =>
           \/ pc[r] \in SpentAuth /\ q.auth = req[r].auth
           \/ /\ <<"auth", q.auth>> \in consumed'[T(r).replayStore.store]
              /\ <<"auth", q.auth>> \notin consumed[T(r).replayStore.store],
         nxt \in SpentDelegationId /\ KeepsIds(r) /\ q.delegated
             /\ HasDelegationIds(T(r).replayStore.store) =>
           \/ pc[r] \in SpentDelegationId /\ req[r].delegated /\ q.snapshot.id = req[r].snapshot.id
           \/ /\ <<"delegation", q.snapshot.id>> \in consumed'[T(r).replayStore.store]
              /\ <<"delegation", q.snapshot.id>> \notin consumed[T(r).replayStore.store]
  PROVE  Inv'
<1>1. /\ events[r] = <<>> /\ decisions[r] = <<>> /\ thrown[r] = {}
      /\ req[r].guard \in Guards /\ template[req[r].guard] # {}
  BY UnderwayFacts
<1>2. OnlyMoves(r) /\ pc'[r] = nxt /\ req'[r] = q
  BY DEF OnlyMoves, Records, Inv, TypeInv
<1>3. T(r)' = T(r) /\ \A g : Hook(g)' = Hook(g)
  BY <1>2, Frame
<1>4. nxt \notin {"idle", "rejected", "returned", "denied", "failed"}
  BY DEF PastChecks
<1>5. Stage(r)'
  <2>1. Trusted(req[r], T(r))' /\ Enforced(req[r], T(r))'
    BY <1>2, <1>3 DEF Trusted, Enforced, KeyOf, EngineKey
  <2> QED BY <2>1, <1>1, <1>2, <1>3, <1>4 DEF Stage
<1>6. Report(r)'
  <2>1. (req[r].evaluated => Agrees(req[r]))'
    BY <1>2 DEF Agrees
  <2> QED BY <2>1, <1>1, <1>2, <1>4 DEF Report, Told, Reportable
<1>7. SpendsOnce(r)
  <2>1. KeepsIds(r)' = KeepsIds(r)
    BY <1>3 DEF KeepsIds
  <2>2. HasDelegationIds(T(r).replayStore.store)' = HasDelegationIds(T(r).replayStore.store)
    BY <1>3 DEF HasDelegationIds
  <2>3. IdSpent(r, "auth")' = q.auth /\ IdSpent(r, "auth") = req[r].auth
    BY <1>2 DEF IdSpent
  <2>4. IdSpent(r, "delegation")' = q.snapshot.id /\ IdSpent(r, "delegation") = req[r].snapshot.id
    BY <1>2 DEF IdSpent
  <2>5. ASSUME SpentBy(r, "auth")'
        PROVE  \/ SpentBy(r, "auth") /\ q.auth = req[r].auth
               \/ /\ <<"auth", q.auth>> \in consumed'[T(r).replayStore.store]
                  /\ <<"auth", q.auth>> \notin consumed[T(r).replayStore.store]
    BY <2>5, <2>1, <1>2 DEF SpentBy
  <2>6. ASSUME SpentBy(r, "delegation")'
        PROVE  \/ SpentBy(r, "delegation") /\ q.snapshot.id = req[r].snapshot.id
               \/ /\ <<"delegation", q.snapshot.id>> \in consumed'[T(r).replayStore.store]
                  /\ <<"delegation", q.snapshot.id>> \notin consumed[T(r).replayStore.store]
    BY <2>6, <2>1, <2>2, <1>2 DEF SpentBy
  <2> QED BY <2>3, <2>4, <2>5, <2>6, <1>3 DEF SpendsOnce
<1>8. Accounts(r)
  BY <1>1, QuietAccounts
<1> QED BY <1>2, <1>5, <1>6, <1>7, <1>8, CallStep

----------------------------------------------------------------------------
\* What runSecure does once a route called guard g.
Admits(r, g, call, t, ctx) ==
  /\ req' = [req EXCEPT ![r] = [Idle EXCEPT !.guard = g, !.ctx = ctx, !.action = call.action,
                                            !.auth = call.auth,
                                            !.delegated = call.delegation # NoDelegation]]
  /\ passed' = [passed EXCEPT ![r] = call.delegation]
  /\ UNCHANGED decisions
  /\ LET failure == SecurePreludeFailure(t, ctx)
     IN \/ \E f \in failure :
             ThrowAs(r, g, "prelude", Fresh, <<"TRUSTED_CONTEXT", f>>, "rejected")
        \/ /\ failure = {} /\ ~settleCallback
           /\ ThrowAs(r, g, "body", Fresh, <<"STATE_LOAD", "UNCLASSIFIED">>, "rejected")
        \/ /\ failure = {} /\ settleCallback
           /\ pc' = [pc EXCEPT ![r] = "loading"] /\ UNCHANGED boundary

LEMMA runSecureStep ==
  ASSUME Inv, NEW r \in Requests, runSecure(r)
  PROVE  Inv'
<1>1. PICK g \in Guards, call \in Calls :
        \E t \in template[g], ctx \in HandedOver(call.context) : Admits(r, g, call, t, ctx)
  BY Zenon DEF runSecure, Admits
<1>2. PICK t, ctx : t \in template[g] /\ ctx \in HandedOver(call.context) /\ Admits(r, g, call, t, ctx)
  BY <1>1
<1>3. /\ pc[r] = "idle" /\ UNCHANGED <<config, template, built, consumed>>
      /\ events[r] = <<>> /\ decisions[r] = <<>> /\ thrown[r] = {}
  BY DEF runSecure, world, Inv, ReportInv, Report, Told, Reportable
<1> DEFINE q == [Idle EXCEPT !.guard = g, !.ctx = ctx, !.action = call.action, !.auth = call.auth,
                             !.delegated = call.delegation # NoDelegation]
<1>4. /\ DOMAIN q = DOMAIN Idle /\ q.guard = g /\ q.ctx = ctx /\ q.genuine /\ ~q.evaluated
      /\ req' = [req EXCEPT ![r] = q] /\ decisions' = decisions
  <2>1. req' = [req EXCEPT ![r] = q] /\ decisions' = decisions
    BY <1>2, Zenon DEF Admits
  <2> QED BY <2>1 DEF Idle
<1> HIDE DEF q
<1>5. DOMAIN req = Requests /\ DOMAIN pc = Requests
  BY DEF Inv, TypeInv
<1>6. CASE pc' = [pc EXCEPT ![r] = "loading"] /\ UNCHANGED boundary /\ SecurePreludeFailure(t, ctx) = {}
  <2>1. OnlyMoves(r) /\ pc'[r] = "loading" /\ req'[r] = q
    BY <1>2, <1>3, <1>4, <1>5, <1>6 DEF OnlyMoves, Inv, TypeInv, boundary
  <2>2. template'[q.guard] # {} /\ T(r)' \in template[g]
    BY <2>1, <1>2, <1>3, <1>4 DEF T
  <2>3. t.tenancy = T(r)'.tenancy
    <3>1. PICK b : b \in built[g]
      BY <1>2 DEF Inv, BuiltInv
    <3>2. t.tenancy = b.config.tenancy
      BY <3>1, <1>2 DEF Inv, BuiltInv, From
    <3>3. T(r)'.tenancy = b.config.tenancy
      BY <3>1, <2>2 DEF Inv, BuiltInv, From
    <3> QED BY <3>2, <3>3
  <2>4. Trusted(q, t)
    <3>1. isTrustedExecutionContext(ctx) /\ ~(t.tenancy = "multi-tenant" /\ ctx.tenant_id = Undefined)
      BY <1>6 DEF SecurePreludeFailure
    <3>2. ctx \in createTrustedExecutionContext(call.context)
      BY <3>1, <1>2 DEF HandedOver, isTrustedExecutionContext
    <3>3. ctx.agent_id # Undefined
      BY <3>2 DEF createTrustedExecutionContext, ValidContext
    <3> QED BY <3>1, <3>3, <1>4 DEF Trusted, isTrustedExecutionContext
  <2>5. Stage(r)'
    BY <2>1, <2>2, <2>3, <2>4, <1>4 DEF Stage, PastChecks, Trusted
  <2>6. Report(r)'
    BY <2>1, <1>2, <1>3, <1>4, <1>6 DEF Report, Told, Reportable, boundary
  <2>7. SpendsOnce(r)
    BY <2>1 DEF SpendsOnce, SpentBy, SpentAuth, SpentDelegationId
  <2>8. Accounts(r)
    BY <1>3, <1>6, QuietAccounts DEF boundary
  <2> QED BY <2>1, <2>5, <2>6, <2>7, <2>8, CallStep
<1>7. ASSUME NEW layer \in {"prelude", "body"}, NEW event,
             ThrowAs(r, g, layer, Fresh, event, "rejected")
      PROVE  Inv'
  <2>1. /\ pc'[r] = "rejected" /\ DOMAIN pc' = Requests /\ DOMAIN thrown' = Requests
        /\ DOMAIN events' = Requests
        /\ \A r2 \in Requests \ {r} :
             pc'[r2] = pc[r2] /\ events'[r2] = events[r2] /\ thrown'[r2] = thrown[r2]
        /\ Told(r)' /\ Accounts(r)
    <3>1. PICK err \in Throwable, outcome \in {"rejected", "denied", "failed"} :
            err = Fresh /\ outcome = "rejected"
      BY DEF Throwable
    <3>2. ThrowAs(r, g, layer, err, event, outcome)
      BY <1>7, <3>1
    <3>3. /\ req'[r].guard = g /\ template' = template
          /\ layer = "prelude" => outcome # "failed"
          /\ outcome = "denied" => err = DenyError
      BY <1>3, <1>4, <1>5, <3>1
    <3> QED BY <1>3, <3>1, <3>2, <3>3, ThrowAccounts
  <2>2. OnlyMoves(r) /\ pc'[r] = "rejected" /\ req'[r] = q
    BY <2>1, <1>2, <1>3, <1>4, <1>5 DEF OnlyMoves, Inv, TypeInv
  <2>3. Stage(r)'
    BY <2>2, <1>2, <1>3, <1>4 DEF Stage, PastChecks
  <2>4. Report(r)'
    BY <2>1, <2>2, <1>2, <1>3, <1>4 DEF Report
  <2>5. SpendsOnce(r)
    BY <2>2 DEF SpendsOnce, SpentBy, SpentAuth, SpentDelegationId
  <2> QED BY <2>1, <2>2, <2>3, <2>4, <2>5, CallStep
<1>8. CASE \E f \in SecurePreludeFailure(t, ctx) :
             ThrowAs(r, g, "prelude", Fresh, <<"TRUSTED_CONTEXT", f>>, "rejected")
  BY <1>7, <1>8
<1>9. CASE ThrowAs(r, g, "body", Fresh, <<"STATE_LOAD", "UNCLASSIFIED">>, "rejected")
  BY <1>7, <1>9
<1> QED BY <1>2, <1>6, <1>8, <1>9 DEF Admits

----------------------------------------------------------------------------
(* Evaluation. *)

LEMMA RecordedFacts ==
  ASSUME Inv, NEW r \in Requests, pc[r] \in Underway, NEW result \in Reconciled(r)
  PROVE  LET q == Recorded(r, result)[r]
         IN /\ DOMAIN Recorded(r, result) = Requests
            /\ \A r2 \in Requests \ {r} : Recorded(r, result)[r2] = req[r2]
            /\ DOMAIN q = DOMAIN Idle /\ Agrees(q) /\ q.genuine
            /\ q.guard = req[r].guard /\ q.delegated = req[r].delegated /\ q.ctx = req[r].ctx
            /\ q.intent = result.intent /\ q.provenance = result.provenance /\ q.action = req[r].action
<1> DEFINE e == [req[r] EXCEPT !.evaluated = TRUE]
           i == [e EXCEPT !.intent = result.intent]
           q == [i EXCEPT !.provenance = result.provenance]
<1>1. r \in DOMAIN req /\ DOMAIN req = Requests
  BY DEF Inv, TypeInv
<1>2. Recorded(r, result) = [req EXCEPT ![r] = q]
  BY <1>1 DEF Recorded
<1>3. DOMAIN req[r] = DOMAIN Idle
  BY DEF Inv, TypeInv
<1>4. /\ DOMAIN e = DOMAIN Idle
      /\ \A f \in {"genuine", "guard", "delegated", "ctx", "action"} : e[f] = req[r][f]
  BY <1>3 DEF Idle
<1> HIDE DEF e
<1>5. /\ DOMAIN i = DOMAIN Idle /\ i.intent = result.intent
      /\ \A f \in {"genuine", "guard", "delegated", "ctx", "action"} : i[f] = req[r][f]
  BY <1>4 DEF Idle
<1> HIDE DEF i
<1>6. /\ DOMAIN q = DOMAIN Idle /\ q.intent = result.intent /\ q.provenance = result.provenance
      /\ \A f \in {"genuine", "guard", "delegated", "ctx", "action"} : q[f] = req[r][f]
  BY <1>5 DEF Idle
<1> HIDE DEF q
<1>7. PICK intent \in Normalized(r) :
        /\ result = reconcileWithTrustedContext(intent, req[r].ctx, req[r].action)
        /\ Conflicts(result.provenance) = {}
  BY DEF Reconciled
<1>8. req[r].ctx.branded /\ req[r].ctx.agent_id # Undefined /\ req[r].genuine
  BY UnderwayFacts DEF Trusted
<1>9. Agrees(q)
  BY <1>6, <1>7, <1>8, ReconciledAgrees
<1>10. Recorded(r, result)[r] = q /\ DOMAIN Recorded(r, result) = Requests
  BY <1>1, <1>2
<1> QED BY <1>1, <1>2, <1>6, <1>8, <1>9, <1>10

LEMMA EvaluateDenyStep ==
  ASSUME Inv, NEW r \in Requests, EvaluateDeny(r)
  PROVE  Inv'
<1>1. pc[r] \in Underway /\ UNCHANGED <<config, template, built, consumed>>
  BY DEF EvaluateDeny, Underway, world
<1>2. PICK result \in Reconciled(r) :
        /\ req' = Recorded(r, result)
        /\ decisions' = [decisions EXCEPT ![r] = Append(@, <<"DENY", result.provenance>>)]
        /\ ThrowAs(r, req[r].guard, "body", DenyError, <<>>, "denied")
  BY DEF EvaluateDeny
<1>3. PICK q : q = Recorded(r, result)[r]
  OBVIOUS
<1>4. /\ Records(r, q) /\ Agrees(q) /\ q.genuine /\ q.guard = req[r].guard
      /\ q.provenance = result.provenance /\ q.ctx = req[r].ctx
  BY <1>1, <1>2, <1>3, RecordedFacts DEF Records
<1>5. PICK outcome : outcome = "denied"
  OBVIOUS
<1>6. PICK err \in Throwable : err = DenyError
  BY DEF Throwable
<1>7. PICK event : event = <<>>
  OBVIOUS
<1>8. ThrowAs(r, req[r].guard, "body", err, event, outcome)
  BY <1>2, <1>5, <1>6, <1>7
<1>9. /\ outcome \in {"rejected", "denied"} /\ (outcome = "denied" => err = DenyError)
      /\ IF outcome = "denied"
         THEN \E d : decisions' = [decisions EXCEPT ![r] = Append(@, <<d, q.provenance>>)]
         ELSE decisions' = decisions
  BY <1>2, <1>4, <1>5, <1>6
<1>10. outcome = "denied" => Trusted(q, T(r))
  BY <1>1, <1>4, UnderwayFacts DEF Trusted
<1>11. UNCHANGED <<config, template, built>> /\ consumed' = consumed
  BY <1>1
<1>12. DOMAIN consumed' = Stores \cup Guards /\ \A s \in Stores \cup Guards : consumed[s] \subseteq consumed'[s]
  BY <1>1 DEF Inv, TypeInv
<1> QED BY <1>1, <1>4, <1>8, <1>9, <1>10, <1>11, <1>12, EndStep

\* The stores, when a step leaves them alone.
LEMMA SameStores ==
  ASSUME Inv, consumed' = consumed
  PROVE  DOMAIN consumed' = Stores \cup Guards /\ \A s \in Stores \cup Guards : consumed[s] \subseteq consumed'[s]
BY DEF Inv, TypeInv

\* A call rejected after it was evaluated: its record says what it was.
LEMMA RejectRecorded ==
  ASSUME Inv, NEW r \in Requests, pc[r] \in Underway,
         UNCHANGED <<config, template, built, consumed, decisions>>,
         NEW q, Records(r, q), q.guard = req[r].guard, q.genuine, Agrees(q),
         NEW stage, NEW failure, reject(r, req[r].guard, stage, failure)
  PROVE  Inv'
<1>1. PICK outcome : outcome = "rejected"
  OBVIOUS
<1>2. PICK err \in Throwable : err = Fresh
  BY DEF Throwable
<1>3. PICK event : event = <<stage, failure>>
  OBVIOUS
<1>4. ThrowAs(r, req[r].guard, "body", err, event, outcome)
  BY <1>1, <1>2, <1>3 DEF reject
<1>5. /\ outcome \in {"rejected", "denied"} /\ (outcome = "denied" => err = DenyError)
      /\ IF outcome = "denied"
         THEN \E d : decisions' = [decisions EXCEPT ![r] = Append(@, <<d, q.provenance>>)]
         ELSE decisions' = decisions
      /\ (outcome = "denied" => Trusted(q, T(r)))
  BY <1>1, <1>2
<1>6. UNCHANGED <<config, template, built>>
  OBVIOUS
<1>7. DOMAIN consumed' = Stores \cup Guards /\ \A s \in Stores \cup Guards : consumed[s] \subseteq consumed'[s]
  BY SameStores
<1> QED BY <1>4, <1>5, <1>6, <1>7, EndStep

LEMMA EvaluateAllowStep ==
  ASSUME Inv, NEW r \in Requests, EvaluateAllow(r)
  PROVE  Inv'
<1>1. /\ pc[r] \in Underway /\ ~req[r].delegated /\ settleCallback
      /\ UNCHANGED <<config, template, built, consumed, decisions>>
  BY DEF EvaluateAllow, Underway, world
<1>2. PICK result \in Reconciled(r) :
        req' = [Recorded(r, result) EXCEPT ![r].genuine = @ /\ "then" \notin prototype]
  BY DEF EvaluateAllow
<1>3. PICK p : p = Recorded(r, result)[r]
  OBVIOUS
<1>4. /\ DOMAIN Recorded(r, result) = Requests
      /\ \A r2 \in Requests \ {r} : Recorded(r, result)[r2] = req[r2]
      /\ DOMAIN p = DOMAIN Idle /\ Agrees(p) /\ p.genuine
      /\ p.guard = req[r].guard /\ p.delegated = req[r].delegated /\ p.ctx = req[r].ctx
  BY <1>1, <1>3, RecordedFacts
<1>5. PICK q : q = req'[r]
  OBVIOUS
<1>6. PICK g : g = (p.genuine /\ "then" \notin prototype)
  OBVIOUS
<1>7. q = [p EXCEPT !.genuine = g] /\ g
  <2>1. g
    BY <1>1, <1>4, <1>6, Zenon DEF settleCallback
  <2>2. req' = [Recorded(r, result) EXCEPT ![r] = [p EXCEPT !.genuine = p.genuine /\ "then" \notin prototype]]
    BY <1>2, <1>3, Zenon
  <2>3. req' = [Recorded(r, result) EXCEPT ![r] = [p EXCEPT !.genuine = g]]
    BY <2>2, <1>6, Zenon
  <2> QED BY <2>1, <2>3, <1>4, <1>5
<1>8. /\ Records(r, q) /\ q.genuine /\ q.guard = req[r].guard /\ q.delegated = req[r].delegated
      /\ q.ctx = req[r].ctx
      /\ \A f \in {"ctx", "action", "intent", "provenance"} : q[f] = p[f]
  BY <1>2, <1>4, <1>5, <1>7 DEF Records, Idle
<1>9. Agrees(q)
  BY <1>4, <1>8 DEF Agrees
<1>10. CASE reject(r, req[r].guard, "AUTHORIZATION_VERIFICATION", "AUTHORIZATION_VERIFICATION_FAILED")
  BY <1>1, <1>8, <1>9, <1>10, RejectRecorded
<1>11. CASE /\ validatedTrust(T(r).revocation) /\ EngineKey \in trustedKeys
            /\ pc' = [pc EXCEPT ![r] = "consume_auth"] /\ UNCHANGED boundary
  <2>1. Trusted(q, T(r))
    BY <1>1, <1>8, UnderwayFacts DEF Trusted
  <2>2. Enforced(q, T(r))
    BY <1>1, <1>8, <1>11 DEF Enforced, KeyOf, validatedTrust, validatedTrustSnapshot
  <2>3. PICK nxt : nxt = "consume_auth"
    OBVIOUS
  <2>4. /\ pc' = [pc EXCEPT ![r] = nxt] /\ nxt \in PastChecks \ {"returned", "failed"}
        /\ nxt \notin SpentAuth /\ ~q.delegated
    BY <1>1, <1>8, <1>11, <2>3 DEF PastChecks, SpentAuth
  <2>5. DOMAIN consumed' = Stores \cup Guards /\ \A s \in Stores \cup Guards : consumed[s] \subseteq consumed'[s]
    BY <1>1, SameStores
  <2>6. UNCHANGED <<config, template, built, events, emitted, thrown, decisions>>
    BY <1>1, <1>11 DEF boundary
  <2> QED BY <1>1, <1>8, <1>9, <2>1, <2>2, <2>4, <2>5, <2>6, ProceedStep
<1> QED BY <1>10, <1>11 DEF EvaluateAllow


----------------------------------------------------------------------------
(* The delegation path. *)

\* A delegation that fails no check is one the template trusts.
LEMMA DelegationTrusted ==
  ASSUME NEW r, NEW intent, DelegationFailure(r, intent) = {}
  PROVE  /\ \E allowed \in T(r).authorities : passed[r].issuer \in allowed
         /\ \A allowed \in T(r).signers : passed[r].signer \in allowed
         /\ T(r).required => T(r).check # {}
         /\ \A krlKeys \in T(r).revocation : passed[r].key \notin krlKeys
<1>1. /\ T(r).authorities # {}
      /\ validatedTrust(T(r).revocation) /\ passed[r].key \in trustedKeys
      /\ ~\E allowed \in T(r).authorities : passed[r].issuer \notin allowed
      /\ ~\E allowed \in TrustedSigners(r) : passed[r].signer \notin allowed
      /\ ~(T(r).check = {} /\ T(r).required)
  BY DEF DelegationFailure
<1>2. \A krlKeys \in T(r).revocation : passed[r].key \notin krlKeys
  BY <1>1 DEF validatedTrust, validatedTrustSnapshot
<1> QED BY <1>1, <1>2 DEF TrustedSigners

LEMMA VerifyDelegationStep ==
  ASSUME Inv, NEW r \in Requests, VerifyDelegation(r)
  PROVE  Inv'
<1>1. /\ pc[r] \in Underway /\ req[r].delegated /\ settleCallback
      /\ UNCHANGED <<config, template, built, consumed>>
  BY DEF VerifyDelegation, Underway, world
<1>2. PICK result \in Reconciled(r) :
        LET failure == DelegationFailure(r, result.intent)
        IN /\ req' = [Recorded(r, result) EXCEPT
                        ![r].snapshot = passed[r], ![r].auth = passed[r].auth,
                        ![r].genuine = @ /\ "then" \notin prototype]
           /\ UNCHANGED decisions
           /\ \/ \E f \in failure : reject(r, req[r].guard, f[1], f[2])
              \/ /\ failure = {}
                 /\ pc' = [pc EXCEPT ![r] = IF T(r).check = {} THEN AfterProvider(r) ELSE "checking"]
                 /\ UNCHANGED boundary
  BY DEF VerifyDelegation
<1>3. PICK p : p = Recorded(r, result)[r]
  OBVIOUS
<1>4. /\ DOMAIN Recorded(r, result) = Requests
      /\ \A r2 \in Requests \ {r} : Recorded(r, result)[r2] = req[r2]
      /\ DOMAIN p = DOMAIN Idle /\ Agrees(p) /\ p.genuine
      /\ p.guard = req[r].guard /\ p.delegated = req[r].delegated /\ p.ctx = req[r].ctx
  BY <1>1, <1>3, RecordedFacts
<1>5. PICK q : q = req'[r]
  OBVIOUS
<1>6. PICK g : g = (p.genuine /\ "then" \notin prototype)
  OBVIOUS
<1> DEFINE p1 == [p EXCEPT !.snapshot = passed[r]]
           p2 == [p1 EXCEPT !.auth = passed[r].auth]
<1>7. q = [p2 EXCEPT !.genuine = g] /\ g
  <2>1. g
    BY <1>1, <1>4, <1>6, Zenon DEF settleCallback
  <2>2. p.genuine = p2.genuine
    <3>1. p1.genuine = p.genuine /\ DOMAIN p1 = DOMAIN p
      BY <1>4 DEF Idle
    <3> HIDE DEF p1
    <3> QED BY <3>1, <1>4 DEF Idle
  <2> DEFINE rec == Recorded(r, result)
             step == [rec EXCEPT ![r].snapshot = passed[r], ![r].auth = passed[r].auth]
  <2>3. r \in DOMAIN rec /\ rec[r] = p
    BY <1>3, <1>4
  <2>4. step[r] = p2 /\ r \in DOMAIN step
    <3> HIDE DEF rec
    <3> QED BY <2>3
  <2>5. req' = [step EXCEPT ![r].genuine = @ /\ "then" \notin prototype]
    BY <1>2
  <2> HIDE DEF step
  <2>6. req' = [step EXCEPT ![r] = [p2 EXCEPT !.genuine = p2.genuine /\ "then" \notin prototype]]
    BY <2>4, <2>5, Zenon
  <2>7. req' = [step EXCEPT ![r] = [p2 EXCEPT !.genuine = g]]
    BY <2>6, <2>2, <1>6, Zenon
  <2> QED BY <2>1, <2>4, <2>7, <1>5
<1>8. /\ DOMAIN p1 = DOMAIN Idle /\ p1.snapshot = passed[r]
      /\ \A f \in {"guard", "delegated", "ctx", "action", "intent", "provenance"} : p1[f] = p[f]
  BY <1>4 DEF Idle
<1> HIDE DEF p1
<1>9. /\ DOMAIN p2 = DOMAIN Idle /\ p2.snapshot = passed[r]
      /\ \A f \in {"guard", "delegated", "ctx", "action", "intent", "provenance"} : p2[f] = p[f]
  BY <1>8 DEF Idle
<1> HIDE DEF p2
<1>10. /\ DOMAIN q = DOMAIN Idle /\ q.genuine /\ q.snapshot = passed[r]
       /\ \A f \in {"guard", "delegated", "ctx", "action", "intent", "provenance"} : q[f] = p[f]
  BY <1>7, <1>9 DEF Idle
<1>11. Records(r, q) /\ q.guard = req[r].guard /\ q.delegated /\ q.ctx = req[r].ctx
  BY <1>1, <1>2, <1>4, <1>5, <1>10 DEF Records
<1>12. Agrees(q)
  BY <1>4, <1>10 DEF Agrees
<1>13. decisions' = decisions
  BY <1>2
<1>14. CASE \E f \in DelegationFailure(r, result.intent) : reject(r, req[r].guard, f[1], f[2])
  <2>1. PICK f \in DelegationFailure(r, result.intent) : reject(r, req[r].guard, f[1], f[2])
    BY <1>14
  <2>2. PICK stage, failure : stage = f[1] /\ failure = f[2]
    OBVIOUS
  <2>3. reject(r, req[r].guard, stage, failure)
    BY <2>1, <2>2
  <2> QED BY <1>1, <1>10, <1>11, <1>12, <1>13, <2>3, RejectRecorded
<1>15. CASE /\ DelegationFailure(r, result.intent) = {}
            /\ pc' = [pc EXCEPT ![r] = IF T(r).check = {} THEN AfterProvider(r) ELSE "checking"]
            /\ UNCHANGED boundary
  <2>1. Trusted(q, T(r))
    BY <1>1, <1>11, UnderwayFacts DEF Trusted
  <2>2. Enforced(q, T(r))
    <3>1. KeyOf(q) = passed[r].key
      BY <1>10, <1>11 DEF KeyOf
    <3> QED BY <3>1, <1>10, <1>15, DelegationTrusted DEF Enforced
  <2>3. PICK nxt : nxt = IF T(r).check = {} THEN AfterProvider(r) ELSE "checking"
    OBVIOUS
  <2>4. /\ pc' = [pc EXCEPT ![r] = nxt] /\ nxt \in PastChecks \ {"returned", "failed"}
        /\ nxt \notin SpentDelegationId /\ nxt \notin SpentAuth
        /\ nxt # "checking" => T(r).check # {"genuine"}
    BY <1>15, <2>3 DEF PastChecks, SpentAuth, SpentDelegationId, AfterProvider
  <2>5. DOMAIN consumed' = Stores \cup Guards /\ \A s \in Stores \cup Guards : consumed[s] \subseteq consumed'[s]
    BY <1>1, SameStores
  <2>6. UNCHANGED <<config, template, built, events, emitted, thrown, decisions>>
    BY <1>1, <1>13, <1>15 DEF boundary
  <2> QED BY <1>1, <1>10, <1>11, <1>12, <2>1, <2>2, <2>4, <2>5, <2>6, ProceedStep
<1> QED BY <1>2, <1>14, <1>15

LEMMA CheckRevocationStep ==
  ASSUME Inv, NEW r \in Requests, CheckRevocation(r)
  PROVE  Inv'
<1>1. /\ pc[r] \in Underway /\ settleCallback /\ pc[r] \in PastChecks /\ pc[r] # "idle"
      /\ UNCHANGED <<config, template, built, consumed, events, emitted, thrown, decisions>>
  BY DEF CheckRevocation, Underway, PastChecks, world, audit, boundary
<1>2. PICK a : a = ~(req[r].snapshot.id \in revoked)
  OBVIOUS
<1>3. T(r).check = {"genuine"} => a
  BY <1>2 DEF CheckRevocation, SaysActive
<1>4. PICK p : p = req[r]
  OBVIOUS
<1>5. PICK g : g = (p.genuine /\ "then" \notin prototype)
  OBVIOUS
<1>6. PICK q : q = req'[r]
  OBVIOUS
<1>7. /\ DOMAIN req = Requests /\ DOMAIN p = DOMAIN Idle /\ p.genuine
      /\ Trusted(p, T(r)) /\ Enforced(p, T(r)) /\ (p.evaluated => Agrees(p))
  <2>1. DOMAIN req = Requests /\ DOMAIN p = DOMAIN Idle
    BY <1>4 DEF Inv, TypeInv
  <2>2. p.genuine /\ Trusted(p, T(r)) /\ (p.evaluated => Agrees(p)) /\ Stage(r)
    BY <1>1, <1>4, UnderwayFacts
  <2>3. Enforced(p, T(r))
    BY <1>1, <1>4, <2>2 DEF Stage
  <2> QED BY <2>1, <2>2, <2>3
<1> DEFINE p1 == [p EXCEPT !.active = a]
<1>8. q = [p1 EXCEPT !.genuine = g] /\ g /\ \A r2 \in Requests \ {r} : req'[r2] = req[r2]
  <2>1. g
    BY <1>1, <1>5, <1>7, Zenon DEF settleCallback
  <2> DEFINE step == [req EXCEPT ![r].active = ~(req[r].snapshot.id \in revoked)]
             step2 == [req EXCEPT ![r] = p1]
  <2>2. step = step2
    BY <1>2, <1>4, Zenon
  <2>3. step2[r] = p1 /\ DOMAIN step2 = Requests /\ \A r2 \in Requests \ {r} : step2[r2] = req[r2]
    BY <1>7
  <2>4. p1.genuine = p.genuine
    BY <1>7 DEF Idle
  <2>5. req' = [step EXCEPT ![r].genuine = @ /\ "then" \notin prototype]
    BY Zenon DEF CheckRevocation
  <2> HIDE DEF step, step2, p1
  <2>6. req' = [step2 EXCEPT ![r] = [p1 EXCEPT !.genuine = p1.genuine /\ "then" \notin prototype]]
    BY <2>2, <2>3, <2>5, Zenon
  <2>7. req' = [step2 EXCEPT ![r] = [p1 EXCEPT !.genuine = g]]
    BY <2>6, <2>4, <1>5, Zenon
  <2> QED BY <2>1, <2>3, <2>7, <1>6
<1>9. /\ DOMAIN p1 = DOMAIN Idle /\ p1.active = a
      /\ \A f \in DOMAIN Idle \ {"active"} : p1[f] = p[f]
  BY <1>7 DEF Idle
<1> HIDE DEF p1
<1>10. /\ DOMAIN q = DOMAIN Idle /\ q.genuine /\ q.active = a
       /\ \A f \in DOMAIN Idle \ {"active", "genuine"} : q[f] = p[f]
  BY <1>8, <1>9 DEF Idle
<1>11. \A f \in {"guard", "delegated", "snapshot", "ctx", "action", "intent", "provenance", "evaluated"} :
         q[f] = p[f]
  BY <1>10 DEF Idle
<1>12. DOMAIN req' = Requests
  BY <1>7 DEF CheckRevocation
<1>13. Records(r, q) /\ q.guard = req[r].guard
  BY <1>4, <1>6, <1>8, <1>10, <1>11, <1>12 DEF Records
<1>14. q.evaluated => Agrees(q)
  BY <1>7, <1>11 DEF Agrees
<1>15. Trusted(q, T(r)) /\ Enforced(q, T(r))
  BY <1>7, <1>11 DEF Trusted, Enforced, KeyOf
<1>16. PICK nxt : nxt = AfterProvider(r)
  OBVIOUS
<1>17. /\ pc' = [pc EXCEPT ![r] = nxt] /\ nxt \in PastChecks \ {"returned", "failed"}
       /\ nxt \notin SpentDelegationId /\ nxt \notin SpentAuth
  BY <1>16 DEF CheckRevocation, PastChecks, SpentAuth, SpentDelegationId, AfterProvider
<1>18. T(r).check = {"genuine"} => q.active
  BY <1>3, <1>10
<1>19. DOMAIN consumed' = Stores \cup Guards /\ \A s \in Stores \cup Guards : consumed[s] \subseteq consumed'[s]
  BY <1>1, SameStores
<1>20. UNCHANGED <<config, template, built, events, emitted, thrown, decisions>>
  BY <1>1
<1> QED BY <1>1, <1>10, <1>13, <1>14, <1>15, <1>17, <1>18, <1>19, <1>20, ProceedStep


----------------------------------------------------------------------------
(* The rejections that leave the call's record alone, and the last steps. *)

LEMMA RejectSame ==
  ASSUME Inv, NEW r \in Requests, pc[r] \in Underway, UNCHANGED <<config, template, built, req>>,
         DOMAIN consumed' = Stores \cup Guards, \A s \in Stores \cup Guards : consumed[s] \subseteq consumed'[s],
         NEW stage, NEW failure, reject(r, req[r].guard, stage, failure)
  PROVE  Inv'
<1>1. PICK err, event : err \in Throwable /\ err = Fresh /\ event = <<stage, failure>>
  BY DEF Throwable
<1>2. /\ ThrowAs(r, req[r].guard, "body", err, event, "rejected")
      /\ UNCHANGED <<config, template, built, req, decisions>>
  BY <1>1 DEF reject
<1> QED BY <1>1, <1>2, RejectStep

\* A call rejected with what a callback threw.
LEMMA RejectThrown ==
  ASSUME Inv, NEW r \in Requests, pc[r] \in Underway,
         UNCHANGED <<config, template, built, req, decisions, consumed>>,
         NEW err \in Thrown \cup {Fresh}, NEW stage, NEW failure,
         ThrowAs(r, req[r].guard, "body", err, <<stage, failure>>, "rejected")
  PROVE  Inv'
<1>1. err \in Throwable
  BY SecureGuardConfig DEF Throwable
<1>2. PICK event : event = <<stage, failure>>
  OBVIOUS
<1>3. ThrowAs(r, req[r].guard, "body", err, event, "rejected")
  BY <1>2
<1>4. DOMAIN consumed' = Stores \cup Guards /\ \A s \in Stores \cup Guards : consumed[s] \subseteq consumed'[s]
  BY SameStores
<1>5. UNCHANGED <<config, template, built, req, decisions>>
  OBVIOUS
<1> QED BY <1>1, <1>3, <1>4, <1>5, RejectStep

LEMMA LoadFailsStep ==
  ASSUME Inv, NEW r \in Requests, LoadFails(r)
  PROVE  Inv'
<1>1. /\ pc[r] \in Underway /\ UNCHANGED <<config, template, built, req, decisions, consumed>>
  BY DEF LoadFails, Underway
<1>2. PICK err \in Thrown \cup {Fresh} :
        ThrowAs(r, req[r].guard, "body", err, <<"STATE_LOAD", "UNCLASSIFIED">>, "rejected")
  BY DEF LoadFails
<1> QED BY <1>1, <1>2, RejectThrown

LEMMA NormalizeFailsStep ==
  ASSUME Inv, NEW r \in Requests, NormalizeFails(r)
  PROVE  Inv'
<1>1. /\ pc[r] \in Underway /\ UNCHANGED <<config, template, built, req>> /\ consumed' = consumed
      /\ decisions' = decisions
  BY DEF NormalizeFails, Underway, world, reject
<1>2. DOMAIN consumed' = Stores \cup Guards /\ \A s \in Stores \cup Guards : consumed[s] \subseteq consumed'[s]
  BY <1>1, SameStores
<1>3. ASSUME NEW err \in NormalizationErrors(r),
             ThrowAs(r, req[r].guard, "body", err, <<"NORMALIZATION", "NORMALIZATION_FAILURE">>, "rejected")
      PROVE  Inv'
  <2>1. err \in Thrown \cup {Fresh}
    BY DEF NormalizationErrors
  <2> QED BY <1>1, <1>3, <2>1, RejectThrown
<1>4. ASSUME NEW record, ThrowAs(r, req[r].guard, "body", Fresh, <<"PROVENANCE", "PROVENANCE_CONFLICT", record>>, "rejected")
      PROVE  Inv'
  <2>1. PICK err, event : err \in Throwable /\ err = Fresh /\ event = <<"PROVENANCE", "PROVENANCE_CONFLICT", record>>
    BY DEF Throwable
  <2>2. ThrowAs(r, req[r].guard, "body", err, event, "rejected")
    BY <1>4, <2>1
  <2> QED BY <1>1, <1>2, <2>1, <2>2, RejectStep
<1> QED BY <1>3, <1>4 DEF NormalizeFails

LEMMA CheckRevocationFailsStep ==
  ASSUME Inv, NEW r \in Requests, CheckRevocationFails(r)
  PROVE  Inv'
<1>1. /\ pc[r] \in Underway /\ UNCHANGED <<config, template, built, req>> /\ consumed' = consumed
  BY DEF CheckRevocationFails, Underway, PastChecks
<1>2. DOMAIN consumed' = Stores \cup Guards /\ \A s \in Stores \cup Guards : consumed[s] \subseteq consumed'[s]
  BY <1>1, SameStores
<1>3. PICK stage, failure : reject(r, req[r].guard, stage, failure)
  BY DEF CheckRevocationFails
<1> QED BY <1>1, <1>2, <1>3, RejectSame

\* A step of consumption, taken: the identifier was not there, and now is.
LEMMA SpendFacts ==
  ASSUME Inv, NEW r \in Requests, pc[r] \in Underway, NEW kind, NEW id, NEW nxt, Spend(r, kind, id, nxt)
  PROVE  /\ UNCHANGED <<config, template, built, req, events, emitted, thrown, decisions>>
         /\ pc' = [pc EXCEPT ![r] = nxt]
         /\ DOMAIN consumed' = Stores \cup Guards /\ \A s \in Stores \cup Guards : consumed[s] \subseteq consumed'[s]
         /\ KeepsIds(r) =>
              /\ <<kind, id>> \in consumed'[T(r).replayStore.store]
              /\ <<kind, id>> \notin consumed[T(r).replayStore.store]
<1> DEFINE s == T(r).replayStore.store
<1>1. s \in DOMAIN consumed /\ DOMAIN consumed = Stores \cup Guards
  BY UnderwayFacts DEF Inv, TypeInv
<1>2. /\ UNCHANGED <<config, template, built, req, events, emitted, thrown, decisions>>
      /\ pc' = [pc EXCEPT ![r] = nxt]
  BY DEF Spend, world, audit, boundary
<1>3. /\ KeepsIds(r) => <<kind, id>> \notin consumed[s]
      /\ KeepsIds(r) => consumed' = [consumed EXCEPT ![s] = consumed[s] \cup {<<kind, id>>}]
      /\ ~KeepsIds(r) => consumed' = consumed
  BY DEF Spend, ReplayStoreOf, KeepsIds
<1> HIDE DEF s
<1>4. DOMAIN consumed' = Stores \cup Guards /\ \A x \in Stores \cup Guards : consumed[x] \subseteq consumed'[x]
  BY <1>1, <1>3
<1> QED BY <1>1, <1>2, <1>3, <1>4 DEF s

LEMMA SpendFailsStep ==
  ASSUME Inv, NEW r \in Requests, pc[r] \in Underway, NEW kind, NEW id, SpendFails(r, kind, id)
  PROVE  Inv'
<1>1. UNCHANGED <<config, template, built, req>>
  BY DEF SpendFails
<1>2. PICK stage, failure : reject(r, req[r].guard, stage, failure)
  BY DEF SpendFails
<1>3. \/ consumed' = consumed
      \/ \E s, x : consumed' = [consumed EXCEPT ![s] = @ \cup {x}]
  BY DEF SpendFails
<1>4. DOMAIN consumed' = Stores \cup Guards /\ \A s \in Stores \cup Guards : consumed[s] \subseteq consumed'[s]
  <2>1. DOMAIN consumed = Stores \cup Guards
    BY DEF Inv, TypeInv
  <2> QED BY <2>1, <1>3
<1> QED BY <1>1, <1>2, <1>4, RejectSame

\* A step that keeps the record of the call and what it owes.
LEMMA AdvanceStep ==
  ASSUME Inv, NEW r \in Requests, pc[r] \in Underway, pc[r] \in PastChecks \ {"checking"},
         UNCHANGED <<config, template, built, req, events, emitted, thrown, decisions>>,
         NEW nxt \in PastChecks \ {"returned", "failed", "checking"}, pc' = [pc EXCEPT ![r] = nxt],
         DOMAIN consumed' = Stores \cup Guards, \A s \in Stores \cup Guards : consumed[s] \subseteq consumed'[s],
         nxt \in SpentAuth /\ KeepsIds(r) =>
           \/ pc[r] \in SpentAuth
           \/ /\ <<"auth", req[r].auth>> \in consumed'[T(r).replayStore.store]
              /\ <<"auth", req[r].auth>> \notin consumed[T(r).replayStore.store],
         nxt \in SpentDelegationId /\ KeepsIds(r) /\ HasDelegationIds(T(r).replayStore.store) =>
           \/ pc[r] \in SpentDelegationId
           \/ /\ <<"delegation", req[r].snapshot.id>> \in consumed'[T(r).replayStore.store]
              /\ <<"delegation", req[r].snapshot.id>> \notin consumed[T(r).replayStore.store]
  PROVE  Inv'
<1>1. PICK q : q = req[r]
  OBVIOUS
<1>2. Records(r, q) /\ q.guard = req[r].guard
  BY <1>1 DEF Records, Inv, TypeInv
<1>3. /\ q.genuine /\ (q.evaluated => Agrees(q)) /\ Trusted(q, T(r)) /\ Enforced(q, T(r))
      /\ q.delegated /\ T(r).check = {"genuine"} => q.active
  BY <1>1, UnderwayFacts DEF Stage
<1>4. UNCHANGED <<config, template, built, events, emitted, thrown, decisions>> /\ nxt \in PastChecks \ {"returned", "failed"}
  OBVIOUS
<1>5. nxt \in SpentAuth /\ KeepsIds(r) =>
           \/ pc[r] \in SpentAuth /\ q.auth = req[r].auth
           \/ /\ <<"auth", q.auth>> \in consumed'[T(r).replayStore.store]
              /\ <<"auth", q.auth>> \notin consumed[T(r).replayStore.store]
  BY <1>1
<1>6. nxt \in SpentDelegationId /\ KeepsIds(r) /\ q.delegated
             /\ HasDelegationIds(T(r).replayStore.store) =>
           \/ pc[r] \in SpentDelegationId /\ req[r].delegated /\ q.snapshot.id = req[r].snapshot.id
           \/ /\ <<"delegation", q.snapshot.id>> \in consumed'[T(r).replayStore.store]
              /\ <<"delegation", q.snapshot.id>> \notin consumed[T(r).replayStore.store]
  BY <1>1
<1> QED BY <1>2, <1>3, <1>4, <1>5, <1>6, ProceedStep

LEMMA ConfirmKeysStep ==
  ASSUME Inv, NEW r \in Requests, ConfirmKeys(r)
  PROVE  Inv'
<1>1. /\ pc[r] \in Underway /\ pc[r] \in PastChecks \ {"checking"}
      /\ UNCHANGED <<config, template, built, req>> /\ consumed' = consumed
  BY DEF ConfirmKeys, Underway, PastChecks
<1>2. DOMAIN consumed' = Stores \cup Guards /\ \A s \in Stores \cup Guards : consumed[s] \subseteq consumed'[s]
  BY <1>1, SameStores
<1>3. CASE pc' = [pc EXCEPT ![r] = "consume_delegation"] /\ UNCHANGED <<audit, changes>>
  <2>1. PICK nxt : nxt = "consume_delegation"
    OBVIOUS
  <2>2. /\ nxt \in PastChecks \ {"returned", "failed", "checking"} /\ pc' = [pc EXCEPT ![r] = nxt]
        /\ UNCHANGED <<config, template, built, req, events, emitted, thrown, decisions>>
        /\ nxt \notin SpentAuth /\ nxt \notin SpentDelegationId
    BY <1>1, <1>3, <2>1 DEF PastChecks, SpentAuth, SpentDelegationId, audit, boundary
  <2> QED BY <1>1, <1>2, <2>2, AdvanceStep
<1>4. ASSUME NEW failure, reject(r, req[r].guard, "DELEGATION", failure)
      PROVE  Inv'
  BY <1>1, <1>2, <1>4, RejectSame
<1> QED BY <1>3, <1>4 DEF ConfirmKeys

LEMMA ConsumeDelegationIdStep ==
  ASSUME Inv, NEW r \in Requests, ConsumeDelegationId(r)
  PROVE  Inv'
<1>1. pc[r] \in Underway /\ pc[r] \in PastChecks \ {"checking"}
  BY DEF ConsumeDelegationId, Underway, PastChecks
<1>2. PICK id : id = req[r].snapshot.id
  OBVIOUS
<1>3. PICK nxt : nxt = "consume_auth"
  OBVIOUS
<1>4. nxt \in PastChecks \ {"returned", "failed", "checking"} /\ nxt \notin SpentAuth
  BY <1>3 DEF PastChecks, SpentAuth
<1>5. PICK kind : kind = "delegation"
  OBVIOUS
<1>6. CASE Spend(r, "delegation", SpentDelegation(r), "consume_auth")
  <2>1. Spend(r, kind, id, nxt)
    BY <1>2, <1>3, <1>5, <1>6 DEF SpentDelegation, Spend
  <2>2. /\ UNCHANGED <<config, template, built, req, events, emitted, thrown, decisions>>
        /\ pc' = [pc EXCEPT ![r] = nxt]
        /\ DOMAIN consumed' = Stores \cup Guards /\ \A s \in Stores \cup Guards : consumed[s] \subseteq consumed'[s]
        /\ KeepsIds(r) =>
             /\ <<kind, id>> \in consumed'[T(r).replayStore.store]
             /\ <<kind, id>> \notin consumed[T(r).replayStore.store]
    BY <1>1, <2>1, SpendFacts
  <2>3. KeepsIds(r) =>
          /\ <<"delegation", req[r].snapshot.id>> \in consumed'[T(r).replayStore.store]
          /\ <<"delegation", req[r].snapshot.id>> \notin consumed[T(r).replayStore.store]
    BY <2>2, <1>2, <1>5
  <2> QED BY <1>1, <1>4, <2>2, <2>3, AdvanceStep
<1>7. CASE SpendFails(r, "delegation", SpentDelegation(r))
  <2>1. SpendFails(r, kind, id)
    BY <1>2, <1>5, <1>7 DEF SpentDelegation, SpendFails
  <2> QED BY <1>1, <2>1, SpendFailsStep
<1>8. CASE /\ ~HasDelegationIds(T(r).replayStore.store) /\ pc' = [pc EXCEPT ![r] = "consume_auth"]
           /\ UNCHANGED <<world, template, built, consumed, req, passed, audit>>
  <2>1. /\ UNCHANGED <<config, template, built, req, events, emitted, thrown, decisions>> /\ consumed' = consumed
        /\ pc' = [pc EXCEPT ![r] = nxt]
    BY <1>3, <1>8 DEF world, audit, boundary
  <2>2. DOMAIN consumed' = Stores \cup Guards /\ \A s \in Stores \cup Guards : consumed[s] \subseteq consumed'[s]
    BY <2>1, SameStores
  <2> QED BY <1>1, <1>4, <1>8, <2>1, <2>2, AdvanceStep
<1> QED BY <1>6, <1>7, <1>8 DEF ConsumeDelegationId

LEMMA ConsumeAuthIdStep ==
  ASSUME Inv, NEW r \in Requests, ConsumeAuthId(r)
  PROVE  Inv'
<1>1. pc[r] \in Underway /\ pc[r] \in PastChecks \ {"checking"} /\ pc[r] \in SpentDelegationId
  BY DEF ConsumeAuthId, Underway, PastChecks, SpentDelegationId
<1>2. PICK id : id = req[r].auth
  OBVIOUS
<1>3. PICK nxt : nxt = IF req[r].delegated THEN "gate" ELSE "commit"
  OBVIOUS
<1>4. nxt \in PastChecks \ {"returned", "failed", "checking"}
  BY <1>3 DEF PastChecks
<1>5. PICK kind : kind = "auth"
  OBVIOUS
<1>6. CASE Spend(r, "auth", req[r].auth, IF req[r].delegated THEN "gate" ELSE "commit")
  <2>1. Spend(r, kind, id, nxt)
    BY <1>2, <1>3, <1>5, <1>6 DEF Spend
  <2>2. /\ UNCHANGED <<config, template, built, req, events, emitted, thrown, decisions>>
        /\ pc' = [pc EXCEPT ![r] = nxt]
        /\ DOMAIN consumed' = Stores \cup Guards /\ \A s \in Stores \cup Guards : consumed[s] \subseteq consumed'[s]
        /\ KeepsIds(r) =>
             /\ <<kind, id>> \in consumed'[T(r).replayStore.store]
             /\ <<kind, id>> \notin consumed[T(r).replayStore.store]
    BY <1>1, <2>1, SpendFacts
  <2>3. KeepsIds(r) =>
          /\ <<"auth", req[r].auth>> \in consumed'[T(r).replayStore.store]
          /\ <<"auth", req[r].auth>> \notin consumed[T(r).replayStore.store]
    BY <2>2, <1>2, <1>5
  <2> QED BY <1>1, <1>4, <2>2, <2>3, AdvanceStep
<1>7. CASE SpendFails(r, "auth", req[r].auth)
  <2>1. SpendFails(r, kind, id)
    BY <1>2, <1>5, <1>7 DEF SpendFails
  <2> QED BY <1>1, <2>1, SpendFailsStep
<1>8. CASE /\ reject(r, req[r].guard, "REPLAY", "REPLAY_STORE_UNAVAILABLE")
           /\ UNCHANGED <<world, template, built, consumed, req, passed>>
  <2>1. UNCHANGED <<config, template, built, req>> /\ consumed' = consumed
    BY <1>8 DEF world
  <2>2. DOMAIN consumed' = Stores \cup Guards /\ \A s \in Stores \cup Guards : consumed[s] \subseteq consumed'[s]
    BY <2>1, SameStores
  <2> QED BY <1>1, <1>8, <2>1, <2>2, RejectSame
<1> QED BY <1>6, <1>7, <1>8 DEF ConsumeAuthId

LEMMA CommitStep ==
  ASSUME Inv, NEW r \in Requests, Commit(r)
  PROVE  Inv'
<1>1. /\ pc[r] \in Underway /\ pc[r] \in PastChecks \ {"checking"}
      /\ pc[r] \in SpentAuth /\ pc[r] \in SpentDelegationId
      /\ UNCHANGED <<config, template, built, req>> /\ consumed' = consumed
  BY DEF Commit, Underway, PastChecks, SpentAuth, SpentDelegationId
<1>2. DOMAIN consumed' = Stores \cup Guards /\ \A s \in Stores \cup Guards : consumed[s] \subseteq consumed'[s]
  BY <1>1, SameStores
<1>3. CASE pc' = [pc EXCEPT ![r] = "gate"] /\ UNCHANGED <<audit, changes>>
  <2>1. PICK nxt : nxt = "gate"
    OBVIOUS
  <2>2. /\ nxt \in PastChecks \ {"returned", "failed", "checking"} /\ pc' = [pc EXCEPT ![r] = nxt]
        /\ UNCHANGED <<config, template, built, req, events, emitted, thrown, decisions>>
    BY <1>1, <1>3, <2>1 DEF PastChecks, audit, boundary
  <2> QED BY <1>1, <1>2, <2>2, AdvanceStep
<1>4. CASE reject(r, req[r].guard, "STATE_COMMIT", "CAS_CONFLICT")
  BY <1>1, <1>2, <1>4, RejectSame
<1>5. CASE /\ decisions' = decisions
           /\ \E err \in Thrown :
                ThrowAs(r, req[r].guard, "body", err, <<"STATE_COMMIT", "UNCLASSIFIED">>, "rejected")
  BY <1>1, <1>5, RejectThrown
<1> QED BY <1>3, <1>4, <1>5 DEF Commit

LEMMA GateStep ==
  ASSUME Inv, NEW r \in Requests, Gate(r)
  PROVE  Inv'
<1>1. /\ pc[r] \in Underway /\ pc[r] \in PastChecks \ {"checking"}
      /\ pc[r] \in SpentAuth /\ pc[r] \in SpentDelegationId
      /\ UNCHANGED <<config, template, built, req>> /\ consumed' = consumed
  BY DEF Gate, Underway, PastChecks, SpentAuth, SpentDelegationId
<1>2. DOMAIN consumed' = Stores \cup Guards /\ \A s \in Stores \cup Guards : consumed[s] \subseteq consumed'[s]
  BY <1>1, SameStores
<1>3. CASE pc' = [pc EXCEPT ![r] = "executing"] /\ UNCHANGED <<audit, changes>>
  <2>1. PICK nxt : nxt = "executing"
    OBVIOUS
  <2>2. /\ nxt \in PastChecks \ {"returned", "failed", "checking"} /\ pc' = [pc EXCEPT ![r] = nxt]
        /\ UNCHANGED <<config, template, built, req, events, emitted, thrown, decisions>>
    BY <1>1, <1>3, <2>1 DEF PastChecks, audit, boundary
  <2> QED BY <1>1, <1>2, <2>2, AdvanceStep
<1>4. CASE /\ decisions' = decisions
           /\ \E err \in Thrown :
                ThrowAs(r, req[r].guard, "body", err, <<"EXECUTION_GATE", "UNCLASSIFIED">>, "rejected")
  BY <1>1, <1>4, RejectThrown
<1> QED BY <1>3, <1>4 DEF Gate


LEMMA ExecuteReturnsStep ==
  ASSUME Inv, NEW r \in Requests, ExecuteReturns(r)
  PROVE  Inv'
<1>1. /\ pc[r] \in Underway /\ pc[r] \in SpentAuth /\ pc[r] \in SpentDelegationId
      /\ pc[r] \in PastChecks \ {"checking"}
      /\ UNCHANGED <<config, template, built, req, events, emitted, thrown>> /\ consumed' = consumed
      /\ pc' = [pc EXCEPT ![r] = "returned"]
      /\ decisions' = [decisions EXCEPT ![r] = Append(@, <<"ALLOW", req[r].provenance>>)]
  BY DEF ExecuteReturns, fireDecision, Underway, PastChecks, SpentAuth, SpentDelegationId, world, boundary
<1>2. /\ Stage(r) /\ Trusted(req[r], T(r)) /\ events[r] = <<>> /\ decisions[r] = <<>> /\ thrown[r] = {}
      /\ (req[r].evaluated => Agrees(req[r]))
  BY <1>1, UnderwayFacts
<1>3. DOMAIN pc = Requests /\ DOMAIN decisions = Requests
  BY DEF Inv, TypeInv
<1>4. OnlyMoves(r) /\ pc'[r] = "returned" /\ req'[r] = req[r]
  BY <1>1, <1>3, SameStores DEF OnlyMoves, Inv, TypeInv
<1>5. T(r)' = T(r) /\ \A g : Hook(g)' = Hook(g)
  BY <1>4, Frame
<1>6. Stage(r)'
  BY <1>1, <1>2, <1>4, <1>5 DEF Stage, Trusted, Enforced, KeyOf, EngineKey, PastChecks, OnlyMoves
<1>7. Report(r)'
  <2>1. decisions'[r] = Append(<<>>, <<"ALLOW", req[r].provenance>>)
    BY <1>1, <1>2, <1>3
  <2>2. decisions'[r] = <<<<"ALLOW", req[r].provenance>>>>
    BY <2>1
  <2>3. (req[r].evaluated => Agrees(req[r]))'
    BY <1>2, <1>4 DEF Agrees
  <2> QED BY <2>2, <2>3, <1>1, <1>2, <1>4 DEF Report, Told, Reportable
<1>8. SpendsOnce(r)
  <2>1. KeepsIds(r)' <=> KeepsIds(r)
    BY <1>5 DEF KeepsIds
  <2>2. HasDelegationIds(T(r).replayStore.store)' <=> HasDelegationIds(T(r).replayStore.store)
    BY <1>5 DEF HasDelegationIds
  <2>3. \A kind : SpentBy(r, kind)' => SpentBy(r, kind)
    BY <2>1, <2>2, <1>1, <1>4 DEF SpentBy
  <2> QED BY <2>3, <1>4, <1>5 DEF SpendsOnce, IdSpent
<1>9. Accounts(r)
  BY <1>1, <1>2, QuietAccounts
<1> QED BY <1>4, <1>6, <1>7, <1>8, <1>9, CallStep

LEMMA ExecuteFailsStep ==
  ASSUME Inv, NEW r \in Requests, ExecuteFails(r)
  PROVE  Inv'
<1>1. /\ pc[r] \in Underway /\ pc[r] \in SpentAuth /\ pc[r] \in SpentDelegationId
      /\ pc[r] \in PastChecks \ {"checking"}
      /\ UNCHANGED <<config, template, built, req, decisions>> /\ consumed' = consumed
  BY DEF ExecuteFails, Underway, PastChecks, SpentAuth, SpentDelegationId, world
<1>2. /\ Stage(r) /\ Trusted(req[r], T(r)) /\ events[r] = <<>> /\ decisions[r] = <<>> /\ thrown[r] = {}
      /\ (req[r].evaluated => Agrees(req[r]))
  BY <1>1, UnderwayFacts
<1>3. /\ pc'[r] = "failed" /\ DOMAIN pc' = Requests /\ DOMAIN thrown' = Requests
      /\ DOMAIN events' = Requests
      /\ \A r2 \in Requests \ {r} :
           pc'[r2] = pc[r2] /\ events'[r2] = events[r2] /\ thrown'[r2] = thrown[r2]
      /\ Told(r)' /\ Accounts(r)
  <2>1. PICK err \in Thrown : ThrowAs(r, req[r].guard, "body", err, <<>>, "failed")
    BY DEF ExecuteFails
  <2>2. PICK g, event, layer, outcome :
          /\ layer \in {"prelude", "body"} /\ outcome \in {"rejected", "denied", "failed"}
          /\ g = req[r].guard /\ event = <<>> /\ layer = "body" /\ outcome = "failed"
    OBVIOUS
  <2>3. ThrowAs(r, g, layer, err, event, outcome)
    BY <2>1, <2>2 DEF ThrowAs
  <2>4. /\ err \in Throwable /\ req'[r].guard = g /\ template' = template
        /\ (layer = "prelude" => outcome # "failed") /\ (outcome = "denied" => err = DenyError)
    BY <1>1, <2>2, SecureGuardConfig DEF Throwable
  <2> QED BY <1>2, <2>2, <2>3, <2>4, ThrowAccounts
<1>4. DOMAIN pc = Requests /\ DOMAIN decisions = Requests
  BY DEF Inv, TypeInv
<1>5. OnlyMoves(r) /\ pc'[r] = "failed" /\ req'[r] = req[r]
  BY <1>1, <1>3, <1>4, SameStores DEF OnlyMoves, Inv, TypeInv
<1>6. T(r)' = T(r) /\ \A g : Hook(g)' = Hook(g)
  BY <1>5, Frame
<1>7. Stage(r)'
  BY <1>1, <1>2, <1>5, <1>6 DEF Stage, Trusted, Enforced, KeyOf, EngineKey, PastChecks, OnlyMoves
<1>8. Report(r)'
  <2>1. (req[r].evaluated => Agrees(req[r]))'
    BY <1>2, <1>5 DEF Agrees
  <2> QED BY <2>1, <1>1, <1>2, <1>3, <1>5 DEF Report
<1>9. SpendsOnce(r)
  <2>1. KeepsIds(r)' <=> KeepsIds(r)
    BY <1>6 DEF KeepsIds
  <2>2. HasDelegationIds(T(r).replayStore.store)' <=> HasDelegationIds(T(r).replayStore.store)
    BY <1>6 DEF HasDelegationIds
  <2>3. \A kind : SpentBy(r, kind)' => SpentBy(r, kind)
    BY <2>1, <2>2, <1>1, <1>5 DEF SpentBy
  <2> QED BY <2>3, <1>5, <1>6 DEF SpendsOnce, IdSpent
<1> QED BY <1>3, <1>5, <1>7, <1>8, <1>9, CallStep

----------------------------------------------------------------------------
LEMMA StutterInv ==
  ASSUME Inv, UNCHANGED vars
  PROVE  Inv'
<1>1. InsideOnly /\ config' = config
  BY DEF vars, world, audit, boundary, InsideOnly
<1>2. ConfigShape(config')
  BY <1>1 DEF Inv, TypeInv
<1> QED BY <1>1, <1>2, OutsideStep

LEMMA NextInv ==
  ASSUME Inv, [Next]_vars
  PROVE  Inv'
<1>1. CASE ChangeOption
  BY <1>1, ChangeOptionStep
<1>2. CASE ReplaceMethod \/ RotateKeys \/ Revoke \/ Pollute \/ \E r \in Requests : ChangeDelegation(r)
  BY <1>2, EnvironmentStep
<1>3. CASE \E g \in Guards : Construct(g)
  BY <1>3, ConstructStep
<1>4. ASSUME NEW r \in Requests,
             \/ runSecure(r) \/ LoadFails(r) \/ NormalizeFails(r) \/ EvaluateDeny(r) \/ EvaluateAllow(r)
             \/ VerifyDelegation(r) \/ CheckRevocation(r) \/ CheckRevocationFails(r) \/ ConfirmKeys(r)
             \/ ConsumeDelegationId(r) \/ ConsumeAuthId(r) \/ Commit(r) \/ Gate(r)
             \/ ExecuteReturns(r) \/ ExecuteFails(r)
      PROVE  Inv'
  <2>1. CASE runSecure(r) \/ LoadFails(r) \/ NormalizeFails(r)
    BY <2>1, runSecureStep, LoadFailsStep, NormalizeFailsStep
  <2>2. CASE EvaluateDeny(r) \/ EvaluateAllow(r) \/ VerifyDelegation(r)
    BY <2>2, EvaluateDenyStep, EvaluateAllowStep, VerifyDelegationStep
  <2>3. CASE CheckRevocation(r) \/ CheckRevocationFails(r) \/ ConfirmKeys(r)
    BY <2>3, CheckRevocationStep, CheckRevocationFailsStep, ConfirmKeysStep
  <2>4. CASE ConsumeDelegationId(r) \/ ConsumeAuthId(r) \/ Commit(r) \/ Gate(r)
    BY <2>4, ConsumeDelegationIdStep, ConsumeAuthIdStep, CommitStep, GateStep
  <2>5. CASE ExecuteReturns(r) \/ ExecuteFails(r)
    BY <2>5, ExecuteReturnsStep, ExecuteFailsStep
  <2> QED BY <1>4, <2>1, <2>2, <2>3, <2>4, <2>5
<1>5. CASE UNCHANGED vars
  BY <1>5, StutterInv
<1> QED BY <1>1, <1>2, <1>3, <1>4, <1>5 DEF Next

\* The inductive invariant holds in every reachable state.
LEMMA SpecInv == Spec => []Inv
BY InitInv, NextInv, PTL DEF Spec

(***************************************************************************)
(* Nothing runs that the configuration the guard was built from would have *)
(* stopped, whatever createSecureGuard's inputs become after it captured   *)
(* them (secureConfig.ts, secureGuard.ts).                                 *)
(***************************************************************************)
THEOREM SecureGuardsEnforceWhatTheyWereBuiltFrom == Spec => []EnforcedAsConstructed
BY SpecInv, EnforcedByInv, PTL

(***************************************************************************)
(* Within one replay domain an authorization, and a delegation where the   *)
(* store keeps delegations, is executed at most once (replayProtection.ts).*)
(***************************************************************************)
THEOREM SecureReplayDomainsAdmitOnce == Spec => []OneUsePerReplayDomain
BY SpecInv, OneUseByInv, PTL

(***************************************************************************)
(* Every outcome is reported once, on one stream, and with the provenance  *)
(* of its own call (boundaryEvent.ts, provenance.ts).                      *)
(***************************************************************************)
THEOREM SecureReportsAreTrue == Spec => []ReportsAreTrue
BY SpecInv, ReportsByInv, PTL

----------------------------------------------------------------------------
(***************************************************************************)
(* Key revocation (module Revocation).                                     *)
(***************************************************************************)
(* The inductive invariant of the evaluations. *)

Labels == {"idle", "provider", "accept"} \cup Settled

Marks == {NoMark} \cup {Watermark(l) : l \in Krls}

RevocationTypeInv ==
  /\ now \in Nat /\ crashes \in Nat
  /\ marks \in [Issuers -> Marks]
  /\ phase \in [Evaluations -> Labels]
  /\ DOMAIN at = Evaluations
  /\ evidence \in [Evaluations -> [Issuers -> Krls \cup {NoList}]]
  /\ next \in [Evaluations -> 1 .. Len(Scopes)]
  /\ floor \in [Evaluations -> [Issuers -> Marks]]
  /\ before \in [Evaluations -> SUBSET Evaluations]

\* The store has kept every watermark it was given.
Persistent == Durable \/ crashes = 0

Judged == {"ok", "REVOKED"}

\* The evaluations whose list of the publisher the store has accepted.
Accepted(e, i) ==
  \/ phase[e] \in Judged
  \/ phase[e] = "accept" /\ \E k \in 1 .. (next[e] - 1) : Scopes[k] = i

\* The lists an evaluation works with are one for each publisher, verified
\* at the time the evaluation read.
EvidenceInv ==
  \A e \in Evaluations : phase[e] \in Judged \cup {"accept"} =>
    \A i \in Issuers :
      /\ evidence[e][i] \in Krls /\ evidence[e][i].issuer = i
      /\ Verified(evidence[e][i], at[e])

\* The verdict is the lists' one.
VerdictInv ==
  \A e \in Evaluations : phase[e] \in Judged => (phase[e] = "REVOKED" <=> Revoked(e))

\* Watermarks are offered from the first one on.
OfferInv ==
  \A e \in Evaluations : phase[e] \in {"idle", "provider"} => next[e] = 1

\* Evaluations that had settled when another began are settled still.
BeforeInv ==
  \A f \in Evaluations :
    /\ phase[f] = "idle" => before[f] = {}
    /\ \A e \in before[f] : phase[e] \in Settled

\* The store holds nothing older than what it held when an evaluation began.
FloorInv ==
  Persistent =>
    \A e \in Evaluations, i \in Issuers : phase[e] # "idle" => Acceptable(marks[i], floor[e][i])

\* An accepted list lies between what the store held when the evaluation
\* began and what it holds now.
AcceptedInv ==
  Persistent =>
    \A e \in Evaluations, i \in Issuers : Accepted(e, i) =>
      /\ Acceptable(marks[i], Watermark(evidence[e][i]))
      /\ Acceptable(Watermark(evidence[e][i]), floor[e][i])

\* Any two accepted lists of a publisher are ordered, whatever has been
\* accepted since.
OrderedInv ==
  Persistent =>
    \A e, f \in Evaluations, i \in Issuers : (Accepted(e, i) /\ Accepted(f, i)) =>
      \/ Acceptable(Watermark(evidence[e][i]), Watermark(evidence[f][i]))
      \/ Acceptable(Watermark(evidence[f][i]), Watermark(evidence[e][i]))

\* An evaluation begins with the watermarks of all that were evaluated before.
BeganAfterInv ==
  Persistent =>
    \A e, f \in Evaluations, i \in Issuers : (phase[e] \in Judged /\ e \in before[f]) =>
      Acceptable(floor[f][i], Watermark(evidence[e][i]))

RevocationInv ==
  /\ RevocationTypeInv /\ EvidenceInv /\ VerdictInv /\ OfferInv /\ BeforeInv
  /\ FloorInv /\ AcceptedInv /\ OrderedInv /\ BeganAfterInv

----------------------------------------------------------------------------
(* Operators *)

(***************************************************************************)
(* Every non-empty set of naturals has a least element: here, the first    *)
(* publisher that blocks.                                                  *)
(***************************************************************************)
LEMMA LeastNatural ==
  ASSUME NEW S \in SUBSET Nat, S # {}
  PROVE  \E k \in S : \A j \in S : k <= j
<1>1. PICK x \in S : \A y \in S : ~ (<<y, x>> \in OpToRel(<, Nat))
  BY NatLessThanWellFounded, WFMin
<1>2. \A y \in S : ~ (y < x)
  BY <1>1 DEF OpToRel
<1> QED
  BY <1>2

----------------------------------------------------------------------------
(* The three verifiers of signed lists. *)

StrictOrder(S, R) ==
  /\ R \in SUBSET (S \X S)
  /\ \A x \in S : <<x, x>> \notin R
  /\ \A x, y, z \in S : <<x, y>> \in R /\ <<y, z>> \in R => <<x, z>> \in R
  /\ \A x, y \in S : x # y => <<x, y>> \in R \/ <<y, x>> \in R

Under(S, R, x) == {y \in S : <<y, x>> \in R}

Ranked(S, R) ==
  /\ \A x \in S : Cardinality(Under(S, R, x)) \in 0..(Cardinality(S) - 1)
  /\ \A x, y \in S : Cardinality(Under(S, R, x)) = Cardinality(Under(S, R, y)) => x = y
  /\ \A k \in 1..Cardinality(S) : \E x \in S : Cardinality(Under(S, R, x)) = k - 1

\* In a finite strict order every rank is taken, and by one element (also in
\* EntryPointProofs).
LEMMA Ranking ==
  ASSUME NEW S, IsFiniteSet(S), NEW R, StrictOrder(S, R)
  PROVE  Ranked(S, R)
<1> USE DEF StrictOrder, Under, Ranked
<1> DEFINE Below(x) == Under(S, R, x)
           rank == [x \in S |-> Cardinality(Below(x)) + 1]
           n == Cardinality(S)
<1>1. n \in Nat
  BY FS_CardinalityType
<1>2. ASSUME NEW x \in S
      PROVE  /\ IsFiniteSet(Below(x)) /\ Cardinality(Below(x)) \in 0..(n - 1)
  <2>1. x \notin Below(x) /\ Below(x) \in SUBSET S
    OBVIOUS
  <2>2. IsFiniteSet(Below(x)) /\ Cardinality(Below(x)) <= n /\ (n = Cardinality(Below(x)) => S = Below(x))
    BY <2>1, FS_Subset, Zenon
  <2>3. Cardinality(Below(x)) \in Nat
    BY <2>2, FS_CardinalityType
  <2> HIDE DEF Below, n
  <2> QED BY <2>1, <2>2, <2>3, <1>1
<1>3. ASSUME NEW x \in S, NEW y \in S, <<x, y>> \in R
      PROVE  Cardinality(Below(x)) < Cardinality(Below(y))
  <2>1. Below(x) \in SUBSET Below(y) /\ x \in Below(y) /\ x \notin Below(x)
    BY <1>3
  <2>2. Cardinality(Below(x)) <= Cardinality(Below(y)) /\ Cardinality(Below(x)) # Cardinality(Below(y))
    BY <2>1, <1>2, FS_Subset, Zenon
  <2> HIDE DEF Below
  <2> QED BY <2>2, <1>2, <1>1
<1>4. ASSUME NEW x \in S, NEW y \in S, Cardinality(Below(x)) = Cardinality(Below(y))
      PROVE  x = y
  <2>1. CASE <<x, y>> \in R
    <3> HIDE DEF Below, n
    <3> QED BY <2>1, <1>4, <1>3, <1>2, <1>1
  <2>2. CASE <<y, x>> \in R
    <3> HIDE DEF Below, n
    <3> QED BY <2>2, <1>4, <1>3, <1>2, <1>1
  <2> QED BY <2>1, <2>2
<1>5. rank \in Injection(S, 1..n)
  <2> HIDE DEF Below, n
  <2>1. \A x \in S : rank[x] \in 1..n
    BY <1>2, <1>1
  <2>2. \A x, y \in S : rank[x] = rank[y] => x = y
    BY <1>2, <1>4, <1>1
  <2> QED BY <2>1, <2>2 DEF Injection, IsInjective
<1>6. IsFiniteSet(1..n) /\ Cardinality(1..n) = n
  BY <1>1, FS_Interval
<1>7. rank \in Surjection(S, 1..n)
  BY <1>5, <1>6, FS_Injection
<1>8. ASSUME NEW k \in 1..n
      PROVE  \E x \in S : Cardinality(Below(x)) = k - 1
  <2>1. PICK x \in S : rank[x] = k
    BY <1>7 DEF Surjection
  <2> HIDE DEF Below, n
  <2> QED BY <2>1, <1>2, <1>1
<1> HIDE DEF n
<1> QED BY <1>2, <1>4, <1>8 DEF n

RankCodes == DOMAIN Rank
Says(s, c) == \E i \in DOMAIN s : s[i] = c

\* Two lists of codes, one behind the other.
LEMMA JoinedCodes ==
  ASSUME NEW S, NEW a \in Seq(S), NEW b \in Seq(S)
  PROVE  /\ a \o b \in Seq(S) /\ (a \o b = <<>> <=> a = <<>> /\ b = <<>>)
         /\ \A x : Says(a, x) \/ Says(b, x) => Says(a \o b, x)
<1>1. a \o b \in Seq(S) /\ (a \o b = <<>> <=> a = <<>> /\ b = <<>>)
  OBVIOUS
<1>2. /\ DOMAIN a = 1..Len(a) /\ DOMAIN b = 1..Len(b) /\ DOMAIN (a \o b) = 1..(Len(a) + Len(b))
      /\ Len(a) \in Nat /\ Len(b) \in Nat
  OBVIOUS
<1>3. ASSUME NEW x, Says(a, x)
      PROVE  Says(a \o b, x)
  <2>1. PICK i \in 1..Len(a) : a[i] = x
    BY <1>2, <1>3 DEF Says
  <2>2. (a \o b)[i] = x /\ i \in DOMAIN (a \o b)
    BY <1>2, <2>1
  <2> QED BY <2>2 DEF Says
<1>4. ASSUME NEW x, Says(b, x)
      PROVE  Says(a \o b, x)
  <2>1. PICK i \in 1..Len(b) : b[i] = x
    BY <1>2, <1>4 DEF Says
  <2>2. (a \o b)[Len(a) + i] = x /\ Len(a) + i \in DOMAIN (a \o b)
    BY <1>2, <2>1
  <2> QED BY <2>2 DEF Says
<1> QED BY <1>1, <1>3, <1>4

\* Sorting keeps the codes.
LEMMA SortedCodes ==
  ASSUME NEW codes \in Seq(RankCodes)
  PROVE  /\ sortViolations(codes) \in Seq(RankCodes) /\ Len(sortViolations(codes)) = Len(codes)
         /\ \A c : Says(sortViolations(codes), c) <=> Says(codes, c)
<1> DEFINE n == Len(codes)
           D == 1..n
           R == {r \in D \X D : Behind(codes, r[2], r[1])}
           B(i) == Under(D, R, i)
           place == [k \in D |-> CHOOSE i \in D : Cardinality({j \in D : Behind(codes, i, j)}) = k - 1]
<1>1. n \in Nat /\ DOMAIN codes = D /\ IsFiniteSet(D) /\ Cardinality(D) = n /\ codes \in [D -> RankCodes]
  <2>1. n \in Nat /\ DOMAIN codes = D /\ codes \in [D -> RankCodes]
    OBVIOUS
  <2>2. IsFiniteSet(D) /\ Cardinality(D) = n
    BY <2>1, FS_Interval
  <2> QED BY <2>1, <2>2
<1>2. \A i \in D : B(i) = {j \in D : Behind(codes, i, j)}
  BY DEF Under
<1>3. StrictOrder(D, R)
  <2>1. \A c \in RankCodes : Rank[c] \in Int
    BY DEF RankCodes, Rank
  <2>2. \A i \in D : Rank[codes[i]] \in Int /\ i \in Int
    <3>1. \A i \in D : codes[i] \in RankCodes /\ i \in Int
      BY <1>1
    <3> QED BY <2>1, <3>1
  <2> HIDE DEF D
  <2>3. /\ \A i \in D : ~Behind(codes, i, i)
        /\ \A i, j, k \in D : Behind(codes, j, i) /\ Behind(codes, k, j) => Behind(codes, k, i)
        /\ \A i, j \in D : i # j => Behind(codes, j, i) \/ Behind(codes, i, j)
    BY <2>2 DEF Behind
  <2> QED BY <2>3 DEF StrictOrder
<1>4. /\ \A i \in D : Cardinality(B(i)) \in 0..(n - 1)
      /\ \A i, j \in D : Cardinality(B(i)) = Cardinality(B(j)) => i = j
      /\ \A k \in D : \E i \in D : Cardinality(B(i)) = k - 1
  <2>1. Ranked(D, R)
    <3> HIDE DEF D, R
    <3> QED BY <1>1, <1>3, Ranking
  <2> QED BY <2>1, <1>1 DEF Ranked
<1>5. \A k \in D : place[k] \in D /\ Cardinality(B(place[k])) = k - 1
  <2> HIDE DEF D, B
  <2>1. ASSUME NEW k \in D
        PROVE  \E i \in D : Cardinality({j \in D : Behind(codes, i, j)}) = k - 1
    BY <1>4, <1>2
  <2>2. ASSUME NEW k \in D
        PROVE  place[k] \in D /\ Cardinality({j \in D : Behind(codes, place[k], j)}) = k - 1
    BY <2>1
  <2> QED BY <2>2, <1>2
<1>6. \A i \in D : \E k \in D : place[k] = i
  <2> TAKE i \in D
  <2> DEFINE k == Cardinality(B(i)) + 1
  <2>1. k \in D /\ Cardinality(B(i)) = k - 1
    <3>1. Cardinality(B(i)) \in 0..(n - 1)
      BY <1>4
    <3> HIDE DEF B, n
    <3> QED BY <3>1, <1>1
  <2> HIDE DEF k, D, B
  <2>2. Cardinality(B(place[k])) = k - 1 /\ place[k] \in D
    BY <2>1, <1>5
  <2>3. place[k] = i
    BY <2>1, <2>2, <1>4
  <2> QED BY <2>1, <2>3
<1>7. sortViolations(codes) = [k \in D |-> codes[place[k]]]
  BY <1>1 DEF sortViolations
<1> HIDE DEF place
<1>8. sortViolations(codes) \in [D -> RankCodes]
  BY <1>7, <1>5, <1>1
<1>9. \A c : Says(sortViolations(codes), c) <=> Says(codes, c)
  <2> HIDE DEF D
  <2>1. DOMAIN sortViolations(codes) = D /\ \A k \in D : sortViolations(codes)[k] = codes[place[k]]
    BY <1>7
  <2>2. \A c : Says(sortViolations(codes), c) <=> \E k \in D : codes[place[k]] = c
    BY <2>1 DEF Says
  <2>3. \A c : Says(codes, c) <=> \E i \in D : codes[i] = c
    BY <1>1 DEF Says
  <2>4. \A k \in D : place[k] \in D
    BY <1>5
  <2> QED BY <2>2, <2>3, <2>4, <1>6, Zenon
<1> QED BY <1>1, <1>8, <1>9

(***************************************************************************)
(* The core.  Its violations are lists joined from one list for each       *)
(* requirement.                                                            *)
(***************************************************************************)

\* Each requirement of the form, and those of the signature.
FormHolds(e) ==
  /\ e.version = "SignedKRLV1" /\ hasText(e.issuer)
  /\ isSafeInteger(e.krl_version) /\ e.krl_version.n >= 0
  /\ isInteger(e.issued_at) /\ isInteger(e.not_after)
  /\ e.kids_array /\ (\A k \in DOMAIN e.revoked_kids : e.revoked_kids[k] # NotText) /\ ~Repeats(e.revoked_kids)
  /\ e.nonce # NotText

\* The form has no violation but KRL_MALFORMED, and none when it holds.
LEMMA FormCodes ==
  ASSUME NEW e
  PROVE  /\ FormViolations(e) \in Seq({"KRL_MALFORMED"})
         /\ FormViolations(e) = <<>> <=> FormHolds(e)
<1> DEFINE m(holds) == Demand(holds, "KRL_MALFORMED")
           S == {"KRL_MALFORMED"}
           kids == e.revoked_kids
           d1 == m(e.version = "SignedKRLV1")
           d2 == m(hasText(e.issuer))
           d3 == m(isSafeInteger(e.krl_version) /\ e.krl_version.n >= 0)
           d4 == m(isInteger(e.issued_at))
           d5 == m(isInteger(e.not_after))
           d6 == m(e.kids_array /\ \A k \in DOMAIN kids : kids[k] # NotText)
           d7 == m(e.kids_array /\ (\A k \in DOMAIN kids : kids[k] # NotText) => ~Repeats(kids))
           d8 == m(e.nonce # NotText)
<1>1. <<>> \in Seq(S) /\ <<"KRL_MALFORMED">> \in Seq(S) /\ <<"KRL_MALFORMED">> # <<>>
  OBVIOUS
<1>2. /\ d1 \in Seq(S) /\ (d1 = <<>> <=> e.version = "SignedKRLV1")
      /\ d2 \in Seq(S) /\ (d2 = <<>> <=> hasText(e.issuer))
      /\ d3 \in Seq(S) /\ (d3 = <<>> <=> isSafeInteger(e.krl_version) /\ e.krl_version.n >= 0)
      /\ d4 \in Seq(S) /\ (d4 = <<>> <=> isInteger(e.issued_at))
      /\ d5 \in Seq(S) /\ (d5 = <<>> <=> isInteger(e.not_after))
      /\ d6 \in Seq(S) /\ (d6 = <<>> <=> e.kids_array /\ \A k \in DOMAIN kids : kids[k] # NotText)
      /\ d7 \in Seq(S) /\ (d7 = <<>> <=> (e.kids_array /\ (\A k \in DOMAIN kids : kids[k] # NotText) => ~Repeats(kids)))
      /\ d8 \in Seq(S) /\ (d8 = <<>> <=> e.nonce # NotText)
  <2> HIDE DEF S
  <2> QED BY <1>1, Zenon DEF Demand
<1>3. FormViolations(e) = d1 \o d2 \o d3 \o d4 \o d5 \o d6 \o d7 \o d8
  BY DEF FormViolations
<1> HIDE DEF d1, d2, d3, d4, d5, d6, d7, d8, S
<1>4. /\ FormViolations(e) \in Seq(S)
      /\ FormViolations(e) = <<>> <=>
           d1 = <<>> /\ d2 = <<>> /\ d3 = <<>> /\ d4 = <<>> /\ d5 = <<>> /\ d6 = <<>> /\ d7 = <<>> /\ d8 = <<>>
  <2>1. \A a, b \in Seq(S) : a \o b \in Seq(S) /\ (a \o b = <<>> <=> a = <<>> /\ b = <<>>)
    BY JoinedCodes
  <2> DEFINE c2 == d1 \o d2  c3 == c2 \o d3  c4 == c3 \o d4  c5 == c4 \o d5  c6 == c5 \o d6  c7 == c6 \o d7
  <2>2. /\ c2 = d1 \o d2 /\ c3 = c2 \o d3 /\ c4 = c3 \o d4 /\ c5 = c4 \o d5 /\ c6 = c5 \o d6 /\ c7 = c6 \o d7
        /\ FormViolations(e) = c7 \o d8
    BY <1>3
  <2> HIDE DEF c2, c3, c4, c5, c6, c7
  <2>3. c2 \in Seq(S) /\ (c2 = <<>> <=> d1 = <<>> /\ d2 = <<>>)
    BY <1>2, <2>1, <2>2
  <2>4. c3 \in Seq(S) /\ (c3 = <<>> <=> c2 = <<>> /\ d3 = <<>>)
    BY <1>2, <2>1, <2>2, <2>3
  <2>5. c4 \in Seq(S) /\ (c4 = <<>> <=> c3 = <<>> /\ d4 = <<>>)
    BY <1>2, <2>1, <2>2, <2>4
  <2>6. c5 \in Seq(S) /\ (c5 = <<>> <=> c4 = <<>> /\ d5 = <<>>)
    BY <1>2, <2>1, <2>2, <2>5
  <2>7. c6 \in Seq(S) /\ (c6 = <<>> <=> c5 = <<>> /\ d6 = <<>>)
    BY <1>2, <2>1, <2>2, <2>6
  <2>8. c7 \in Seq(S) /\ (c7 = <<>> <=> c6 = <<>> /\ d7 = <<>>)
    BY <1>2, <2>1, <2>2, <2>7
  <2>9. FormViolations(e) \in Seq(S) /\ (FormViolations(e) = <<>> <=> c7 = <<>> /\ d8 = <<>>)
    BY <1>2, <2>1, <2>2, <2>8
  <2> QED BY <2>3, <2>4, <2>5, <2>6, <2>7, <2>8, <2>9
<1> QED BY <1>2, <1>4 DEF FormHolds, S

\* A signature in the form the core asks for.
SignatureHolds(sig) == sig.object /\ hasText(sig.alg) /\ sig.alg = "Ed25519" /\ hasText(sig.kid) /\ hasText(sig.sig.enc)

\* What is wrong with the signature is said.
LEMMA SignatureCodesSay ==
  ASSUME NEW sig
  PROVE  /\ SignatureViolations(sig) \in Seq(RankCodes)
         /\ SignatureViolations(sig) = <<>> <=> SignatureHolds(sig)
         /\ ~sig.object \/ ~hasText(sig.alg) \/ ~hasText(sig.kid) \/ ~hasText(sig.sig.enc)
              => Says(SignatureViolations(sig), "KRL_MALFORMED")
         /\ sig.object /\ hasText(sig.alg) /\ sig.alg # "Ed25519"
              => Says(SignatureViolations(sig), "KRL_UNSUPPORTED_ALG")
<1> DEFINE m(holds) == Demand(holds, "KRL_MALFORMED")
           S == RankCodes
           a == IF hasText(sig.alg) THEN Demand(sig.alg = "Ed25519", "KRL_UNSUPPORTED_ALG") ELSE m(FALSE)
           b == m(hasText(sig.kid))
           c == m(hasText(sig.sig.enc))
           all == a \o b \o c
<1>1. /\ <<>> \in Seq(S) /\ <<"KRL_MALFORMED">> \in Seq(S) /\ <<"KRL_MALFORMED">> # <<>>
      /\ <<"KRL_UNSUPPORTED_ALG">> \in Seq(S) /\ <<"KRL_UNSUPPORTED_ALG">> # <<>>
      /\ Says(<<"KRL_MALFORMED">>, "KRL_MALFORMED") /\ Says(<<"KRL_UNSUPPORTED_ALG">>, "KRL_UNSUPPORTED_ALG")
  BY DEF RankCodes, Rank, Says
<1>2. /\ a \in Seq(S) /\ (a = <<>> <=> hasText(sig.alg) /\ sig.alg = "Ed25519")
      /\ ~hasText(sig.alg) => Says(a, "KRL_MALFORMED")
      /\ hasText(sig.alg) /\ sig.alg # "Ed25519" => Says(a, "KRL_UNSUPPORTED_ALG")
      /\ b \in Seq(S) /\ (b = <<>> <=> hasText(sig.kid)) /\ (~hasText(sig.kid) => Says(b, "KRL_MALFORMED"))
      /\ c \in Seq(S) /\ (c = <<>> <=> hasText(sig.sig.enc)) /\ (~hasText(sig.sig.enc) => Says(c, "KRL_MALFORMED"))
  <2> HIDE DEF S
  <2> QED BY <1>1, Zenon DEF Demand
<1>3. SignatureViolations(sig) = IF ~sig.object THEN <<"KRL_MALFORMED">> ELSE all
  BY DEF SignatureViolations, Demand
<1> HIDE DEF a, b, c, S
<1>4. /\ all \in Seq(S) /\ (all = <<>> <=> a = <<>> /\ b = <<>> /\ c = <<>>)
      /\ \A x : Says(a, x) \/ Says(b, x) \/ Says(c, x) => Says(all, x)
  <2>1. /\ a \o b \in Seq(S) /\ (a \o b = <<>> <=> a = <<>> /\ b = <<>>)
        /\ \A x : Says(a, x) \/ Says(b, x) => Says(a \o b, x)
    BY <1>2, JoinedCodes
  <2>2. /\ all \in Seq(S) /\ (all = <<>> <=> a \o b = <<>> /\ c = <<>>)
        /\ \A x : Says(a \o b, x) \/ Says(c, x) => Says(all, x)
    BY <1>2, <2>1, JoinedCodes
  <2> QED BY <2>1, <2>2
<1> HIDE DEF all
<1>5. CASE ~sig.object
  BY <1>1, <1>3, <1>5, Zenon DEF SignatureHolds, S
<1>6. CASE sig.object
  <2>1. SignatureViolations(sig) = all
    BY <1>3, <1>6
  <2> QED BY <1>2, <1>4, <1>6, <2>1, Zenon DEF SignatureHolds, S
<1> QED BY <1>5, <1>6

(***************************************************************************)
(* What the core accepts, and the codes it owes when it refuses: those of  *)
(* the form, and of the contents only if the form holds.                   *)
(***************************************************************************)

Active(found, t) == \A key \in found : keyIsActiveAt(key, t)

Accepts(e, t, sets, prev) ==
  LET found == findKeyInKeySets(sets, e.issuer, e.signature.kid)
  IN /\ FormHolds(e) /\ SignatureHolds(e.signature)
     /\ ~Regresses(e, prev) /\ t < e.not_after.n
     /\ found # {} /\ Active(found, t) /\ \A key \in found : verifyEd25519(e, key)

Blames(e, t, sets, prev, code) ==
  LET found == findKeyInKeySets(sets, e.issuer, e.signature.kid)
      sig == e.signature
  IN \/ /\ code = "KRL_MALFORMED"
        /\ ~FormHolds(e) \/ ~sig.object \/ ~hasText(sig.alg) \/ ~hasText(sig.kid) \/ ~hasText(sig.sig.enc)
     \/ code = "KRL_UNSUPPORTED_ALG" /\ sig.object /\ hasText(sig.alg) /\ sig.alg # "Ed25519"
     \/ /\ FormHolds(e) /\ SignatureHolds(sig)
        /\ \/ code = "KRL_VERSION_REGRESSION" /\ Regresses(e, prev)
           \/ code = "KRL_EXPIRED" /\ ~(t < e.not_after.n)
           \/ code = "KRL_UNKNOWN_SIGNING_KID" /\ found = {}
           \/ code = "KRL_SIGNING_KEY_INACTIVE" /\ found # {} /\ ~Active(found, t)
           \/ /\ code = "KRL_SIG_INVALID" /\ found # {} /\ Active(found, t)
              /\ ~ \A key \in found : verifyEd25519(e, key)

\* A list of good form is accepted, or refused with each reason there is.
LEMMA ContentsSay ==
  ASSUME NEW e, NEW t, NEW sets, NEW prev, FormHolds(e), SignatureHolds(e.signature)
  PROVE  LET all == Demand(~Regresses(e, prev), "KRL_VERSION_REGRESSION")
                      \o Demand(t < e.not_after.n, "KRL_EXPIRED")
                      \o KeyViolations(e, t, sets)
         IN /\ all \in Seq(RankCodes)
            /\ all = <<>> <=> Accepts(e, t, sets, prev)
            /\ \A code : Blames(e, t, sets, prev, code) => Says(all, code)
<1> DEFINE S == RankCodes
           found == findKeyInKeySets(sets, e.issuer, e.signature.kid)
           valid == \A key \in found : verifyEd25519(e, key)
           a == Demand(~Regresses(e, prev), "KRL_VERSION_REGRESSION")
           b == Demand(t < e.not_after.n, "KRL_EXPIRED")
           c == KeyViolations(e, t, sets)
           all == a \o b \o c
<1>1. /\ <<>> \in Seq(S)
      /\ \A code \in S : <<code>> \in Seq(S) /\ <<code>> # <<>> /\ Says(<<code>>, code)
      /\ "KRL_VERSION_REGRESSION" \in S /\ "KRL_EXPIRED" \in S /\ "KRL_UNKNOWN_SIGNING_KID" \in S
      /\ "KRL_SIGNING_KEY_INACTIVE" \in S /\ "KRL_SIG_INVALID" \in S
  <2>1. \A X : \A code \in X : <<code>> \in Seq(X) /\ <<code>> # <<>>
    OBVIOUS
  <2>2. \A code : Says(<<code>>, code)
    BY DEF Says
  <2> QED BY <2>1, <2>2 DEF RankCodes, Rank
<1> HIDE DEF S
<1>2. /\ a \in Seq(S) /\ (a = <<>> <=> ~Regresses(e, prev))
      /\ Regresses(e, prev) => Says(a, "KRL_VERSION_REGRESSION")
      /\ b \in Seq(S) /\ (b = <<>> <=> t < e.not_after.n) /\ (~(t < e.not_after.n) => Says(b, "KRL_EXPIRED"))
  BY <1>1, Zenon DEF Demand
<1>3. /\ c = IF found = {} THEN <<"KRL_UNKNOWN_SIGNING_KID">>
            ELSE IF ~Active(found, t) THEN <<"KRL_SIGNING_KEY_INACTIVE">>
            ELSE IF valid THEN <<>> ELSE <<"KRL_SIG_INVALID">>
  BY Zenon DEF KeyViolations, Demand, Active
<1> HIDE DEF found, valid
<1>4. /\ c \in Seq(S) /\ (c = <<>> <=> found # {} /\ Active(found, t) /\ valid)
      /\ found = {} => Says(c, "KRL_UNKNOWN_SIGNING_KID")
      /\ found # {} /\ ~Active(found, t) => Says(c, "KRL_SIGNING_KEY_INACTIVE")
      /\ found # {} /\ Active(found, t) /\ ~valid => Says(c, "KRL_SIG_INVALID")
  BY <1>1, <1>3, Zenon
<1> HIDE DEF a, b, c
<1>5. /\ all \in Seq(S) /\ (all = <<>> <=> a = <<>> /\ b = <<>> /\ c = <<>>)
      /\ \A x : Says(a, x) \/ Says(b, x) \/ Says(c, x) => Says(all, x)
  <2>1. /\ a \o b \in Seq(S) /\ (a \o b = <<>> <=> a = <<>> /\ b = <<>>)
        /\ \A x : Says(a, x) \/ Says(b, x) => Says(a \o b, x)
    BY <1>2, JoinedCodes
  <2>2. /\ all \in Seq(S) /\ (all = <<>> <=> a \o b = <<>> /\ c = <<>>)
        /\ \A x : Says(a \o b, x) \/ Says(c, x) => Says(all, x)
    BY <1>4, <2>1, JoinedCodes
  <2> QED BY <2>1, <2>2
<1> HIDE DEF all
<1>6. all = <<>> <=> Accepts(e, t, sets, prev)
  BY <1>2, <1>4, <1>5, Zenon DEF Accepts, found, valid
<1>7. ASSUME NEW code, Blames(e, t, sets, prev, code)
      PROVE  Says(all, code)
  <2>1. \/ code = "KRL_VERSION_REGRESSION" /\ Regresses(e, prev)
        \/ code = "KRL_EXPIRED" /\ ~(t < e.not_after.n)
        \/ code = "KRL_UNKNOWN_SIGNING_KID" /\ found = {}
        \/ code = "KRL_SIGNING_KEY_INACTIVE" /\ found # {} /\ ~Active(found, t)
        \/ code = "KRL_SIG_INVALID" /\ found # {} /\ Active(found, t) /\ ~valid
    BY <1>7, Zenon DEF Blames, SignatureHolds, found, valid
  <2> QED BY <1>2, <1>4, <1>5, <2>1, Zenon
<1> QED BY <1>5, <1>6, <1>7 DEF a, b, c, all, S

\* The core accepts, or refuses with at least the codes that apply.
LEMMA CoreSays ==
  ASSUME NEW e, NEW t, NEW sets, NEW prev
  PROVE  LET core == verifySignedKrl(e, t, sets, prev)
         IN /\ Accepts(e, t, sets, prev) => core = Ok
            /\ ~Accepts(e, t, sets, prev) =>
                 /\ core.status = "invalid" /\ core.violations \in Seq(RankCodes)
                 /\ \A code : Blames(e, t, sets, prev, code) => Says(core.violations, code)
<1> DEFINE f == FormViolations(e)
           g == SignatureViolations(e.signature)
           contents == Demand(~Regresses(e, prev), "KRL_VERSION_REGRESSION")
                         \o Demand(t < e.not_after.n, "KRL_EXPIRED")
                         \o KeyViolations(e, t, sets)
           codes == IF f \o g # <<>> THEN f \o g ELSE contents
           core == verifySignedKrl(e, t, sets, prev)
<1>1. core = IF codes = <<>> THEN Ok ELSE Invalid(sortViolations(codes))
  BY DEF verifySignedKrl
<1>2. /\ f \in Seq(RankCodes) /\ (f = <<>> <=> FormHolds(e)) /\ (~FormHolds(e) => Says(f, "KRL_MALFORMED"))
  <2>1. f \in Seq({"KRL_MALFORMED"}) /\ (f = <<>> <=> FormHolds(e))
    BY FormCodes
  <2>2. "KRL_MALFORMED" \in RankCodes
    BY DEF RankCodes, Rank
  <2> HIDE DEF f
  <2>3. f \in Seq(RankCodes)
    BY <2>1, <2>2
  <2>4. f # <<>> => 1 \in DOMAIN f /\ f[1] = "KRL_MALFORMED"
    BY <2>1
  <2> QED BY <2>1, <2>3, <2>4 DEF Says
<1>3. /\ g \in Seq(RankCodes) /\ (g = <<>> <=> SignatureHolds(e.signature))
      /\ LET sig == e.signature
         IN /\ ~sig.object \/ ~hasText(sig.alg) \/ ~hasText(sig.kid) \/ ~hasText(sig.sig.enc) => Says(g, "KRL_MALFORMED")
            /\ sig.object /\ hasText(sig.alg) /\ sig.alg # "Ed25519" => Says(g, "KRL_UNSUPPORTED_ALG")
  BY SignatureCodesSay, Zenon
<1> HIDE DEF f, g
<1>4. /\ f \o g \in Seq(RankCodes) /\ (f \o g = <<>> <=> f = <<>> /\ g = <<>>)
      /\ \A x : Says(f, x) \/ Says(g, x) => Says(f \o g, x)
  BY <1>2, <1>3, JoinedCodes
<1>5. /\ codes \in Seq(RankCodes) /\ (codes = <<>> <=> Accepts(e, t, sets, prev))
      /\ \A code : Blames(e, t, sets, prev, code) => Says(codes, code)
  <2>1. CASE FormHolds(e) /\ SignatureHolds(e.signature)
    <3>1. codes = contents
      BY <1>2, <1>3, <1>4, <2>1
    <3> HIDE DEF codes
    <3> QED BY <2>1, <3>1, ContentsSay
  <2>2. CASE ~(FormHolds(e) /\ SignatureHolds(e.signature))
    <3>1. codes = f \o g /\ f \o g # <<>>
      BY <1>2, <1>3, <1>4, <2>2
    <3>2. ~Accepts(e, t, sets, prev)
      BY <2>2 DEF Accepts
    <3>3. ASSUME NEW code, Blames(e, t, sets, prev, code)
          PROVE  Says(f \o g, code)
      BY <1>2, <1>3, <1>4, <2>2, <3>3, Zenon DEF Blames
    <3> HIDE DEF codes
    <3> QED BY <1>4, <3>1, <3>2, <3>3
  <2> QED BY <2>1, <2>2
<1> HIDE DEF codes, core
<1>6. /\ sortViolations(codes) \in Seq(RankCodes)
      /\ \A code : Says(sortViolations(codes), code) <=> Says(codes, code)
  BY <1>5, SortedCodes
<1> QED BY <1>1, <1>5, <1>6 DEF Invalid, core

(***************************************************************************)
(* The harnesses.  Their rules come in an order of their own, and only the *)
(* first that is broken is named.                                          *)
(***************************************************************************)

\* A harness accepts when every rule holds, and names the first that does not.
LEMMA FirstBrokenSays ==
  ASSUME NEW n \in Nat, NEW gates, DOMAIN gates = 1..n
  PROVE  \/ FirstBroken(gates) = Ok /\ \A k \in 1..n : gates[k].holds
         \/ \E k \in 1..n :
              /\ ~gates[k].holds /\ \A j \in 1..(k - 1) : gates[j].holds
              /\ FirstBroken(gates) = IF gates[k].code = "fatal" THEN Fatal ELSE Invalid(<<gates[k].code>>)
<1> DEFINE broken == {k \in DOMAIN gates : ~gates[k].holds}
           first == CHOOSE k \in broken : k \in First(broken)
<1>1. CASE broken = {}
  <2>1. FirstBroken(gates) = Ok
    BY <1>1, Zenon DEF FirstBroken
  <2>2. \A k \in DOMAIN gates : gates[k].holds
    BY <1>1, Zenon
  <2> QED BY <2>1, <2>2, Zenon
<1>2. CASE broken # {}
  <2>1. broken \in SUBSET Nat
    <3>1. broken \subseteq DOMAIN gates
      BY Zenon
    <3> HIDE DEF broken
    <3> QED BY <3>1
  <2>2. \E k \in broken : k \in First(broken)
    <3> HIDE DEF broken
    <3> QED BY <1>2, <2>1, LeastNatural DEF First
  <2>3. first \in broken /\ first \in First(broken)
    BY <2>2, Zenon
  <2>4. FirstBroken(gates) = IF gates[first].code = "fatal" THEN Fatal ELSE Invalid(<<gates[first].code>>)
    BY <1>2, Zenon DEF FirstBroken
  <2>5. first \in 1..n /\ ~gates[first].holds
    BY <2>3, Zenon
  <2>6. \A j \in broken : first <= j
    BY <2>3, Zenon DEF First
  <2> HIDE DEF first
  <2>7. \A j \in 1..(first - 1) : j \notin broken /\ j \in 1..n
    <3> HIDE DEF broken
    <3> QED BY <2>5, <2>6
  <2>8. \A j \in 1..(first - 1) : gates[j].holds
    BY <2>7, Zenon
  <2> QED BY <2>4, <2>5, <2>8, Zenon
<1> QED BY <1>1, <1>2

\* Key lists whose times are numbers.
KeySetsShape(sets) ==
  /\ DOMAIN sets \subseteq Int
  /\ \A s \in DOMAIN sets : \A k \in DOMAIN sets[s].keys :
       sets[s].keys[k].not_before \in Int /\ sets[s].keys[k].not_after \in Int

\* With one key set for an issuer it does not matter how many are searched.
LEMMA SameKey ==
  ASSUME NEW e, NEW sets, KeySetsShape(sets), Portable(e, sets), NEW issuer, NEW kid, NEW t \in Int
  PROVE  LET found == findKeyInKeySets(sets, issuer, kid)
         IN /\ findKrlKey(sets, issuer, kid) = found /\ find_krl_key(sets, issuer, kid) = found
            /\ \A key \in found :
                 /\ key.public_key # Unreadable
                 /\ goKeyIsActiveAt(key, t) <=> keyIsActiveAt(key, t)
                 /\ key_is_active_at(key, t) <=> keyIsActiveAt(key, t)
<1> DEFINE found == findKeyInKeySets(sets, issuer, kid)
           all == {j \in DOMAIN sets : sets[j].issuer = issuer}
           own == {j \in DOMAIN sets : sets[j].issuer = issuer /\ KeyIn(sets[j].keys, kid) # {}}
<1>1. First(all) = all /\ First(own) = own
  <2>1. \A j, k \in all : j = k /\ j \in Int
    BY DEF Portable, KeySetsShape
  <2>2. \A X : (\A j, k \in X : j = k /\ j \in Int) => First(X) = X
    BY DEF First
  <2>3. \A j, k \in own : j = k /\ j \in Int
    BY <2>1
  <2> HIDE DEF all, own
  <2> QED BY <2>1, <2>2, <2>3
<1>2. found = UNION {KeyIn(sets[s].keys, kid) : s \in all}
  BY <1>1 DEF findKeyInKeySets
<1>3. findKrlKey(sets, issuer, kid) = UNION {KeyIn(sets[s].keys, kid) : s \in own}
  BY <1>1 DEF findKrlKey
<1>4. find_krl_key(sets, issuer, kid) = UNION {KeyIn(sets[s].keys, kid) : s \in own}
  BY <1>1 DEF find_krl_key
<1>5. UNION {KeyIn(sets[s].keys, kid) : s \in own} = UNION {KeyIn(sets[s].keys, kid) : s \in all}
  OBVIOUS
<1>6. ASSUME NEW key \in found
      PROVE  key.public_key # Unreadable /\ key.not_before \in Int /\ key.not_after \in Int
  <2>1. PICK s \in DOMAIN sets : key \in KeyIn(sets[s].keys, kid)
    BY <1>2
  <2>2. PICK k \in DOMAIN sets[s].keys : key = sets[s].keys[k]
    BY <2>1 DEF KeyIn, First
  <2> QED BY <2>2 DEF Portable, KeySetsShape
<1>7. \A key : key.not_before \in Int /\ key.not_after \in Int =>
        /\ goKeyIsActiveAt(key, t) <=> keyIsActiveAt(key, t)
        /\ key_is_active_at(key, t) <=> keyIsActiveAt(key, t)
  BY DEF goKeyIsActiveAt, key_is_active_at, keyIsActiveAt
<1> HIDE DEF found
<1> QED BY <1>2, <1>3, <1>4, <1>5, <1>6, <1>7 DEF found

\* The Go harness accepts what the core does, and names a reason the core owes.
LEMMA GoSays ==
  ASSUME NEW e, NEW t \in Int, NEW sets, KeySetsShape(sets), Portable(e, sets), NEW prev
  PROVE  LET v == goVerifySignedKrl(e, t, sets, prev)
         IN \/ v = Ok /\ Accepts(e, t, sets, prev)
            \/ \E code : v = Invalid(<<code>>) /\ Blames(e, t, sets, prev, code)
<1> DEFINE sig == e.signature
           found == findKrlKey(sets, e.issuer, sig.kid)
           h1 == e.version = "SignedKRLV1" /\ hasText(e.issuer)
           h2 == Int64(e.krl_version) /\ e.krl_version.n >= 0
           h3 == isJsonNumber(e.issued_at) /\ Int64(e.not_after)
           h4 == e.kids_array /\ (\A k \in DOMAIN e.revoked_kids : e.revoked_kids[k] # NotText) /\ ~Repeats(e.revoked_kids)
           h5 == sig.object /\ hasText(sig.alg)
           h6 == sig.alg = "Ed25519"
           h7 == hasText(sig.kid) /\ hasText(sig.sig.enc)
           h8 == found # {}
           h9 == \A key \in found : goKeyIsActiveAt(key, t)
           h10 == t < e.not_after.n
           h11 == ~Regresses(e, prev)
           h12 == (\A key \in found : key.public_key # Unreadable) /\ goCanonical(e)
           h13 == goDecodes(sig.sig)
           h14 == \A key \in found : Ed25519(key, "OXDEAI_KRL_V1", buildKrlSigningPayload(e), sig.sig)
           gates == <<Rule(h1, "KRL_MALFORMED"), Rule(h2, "KRL_MALFORMED"),
                      Rule(h3, "KRL_MALFORMED"), Rule(h4, "KRL_MALFORMED"),
                      Rule(h5, "KRL_MALFORMED"), Rule(h6, "KRL_UNSUPPORTED_ALG"),
                      Rule(h7, "KRL_MALFORMED"), Rule(h8, "KRL_UNKNOWN_SIGNING_KID"),
                      Rule(h9, "KRL_SIGNING_KEY_INACTIVE"), Rule(h10, "KRL_EXPIRED"),
                      Rule(h11, "KRL_VERSION_REGRESSION"), Rule(h12, "fatal"),
                      Rule(h13, "KRL_SIG_INVALID"), Rule(h14, "KRL_SIG_INVALID")>>
           v == goVerifySignedKrl(e, t, sets, prev)
<1>1. v = FirstBroken(gates)
  BY Zenon DEF goVerifySignedKrl
<1>2. sig = e.signature /\ found = findKeyInKeySets(sets, e.issuer, sig.kid)
  BY SameKey
<1>3. /\ DOMAIN gates = 1..14
      /\ (gates[1].holds <=> h1) /\ gates[1].code = "KRL_MALFORMED"
      /\ (gates[2].holds <=> h2) /\ gates[2].code = "KRL_MALFORMED"
      /\ (gates[3].holds <=> h3) /\ gates[3].code = "KRL_MALFORMED"
      /\ (gates[4].holds <=> h4) /\ gates[4].code = "KRL_MALFORMED"
      /\ (gates[5].holds <=> h5) /\ gates[5].code = "KRL_MALFORMED"
      /\ (gates[6].holds <=> h6) /\ gates[6].code = "KRL_UNSUPPORTED_ALG"
      /\ (gates[7].holds <=> h7) /\ gates[7].code = "KRL_MALFORMED"
      /\ (gates[8].holds <=> h8) /\ gates[8].code = "KRL_UNKNOWN_SIGNING_KID"
      /\ (gates[9].holds <=> h9) /\ gates[9].code = "KRL_SIGNING_KEY_INACTIVE"
      /\ (gates[10].holds <=> h10) /\ gates[10].code = "KRL_EXPIRED"
      /\ (gates[11].holds <=> h11) /\ gates[11].code = "KRL_VERSION_REGRESSION"
      /\ (gates[12].holds <=> h12) /\ gates[12].code = "fatal"
      /\ (gates[13].holds <=> h13) /\ gates[13].code = "KRL_SIG_INVALID"
      /\ (gates[14].holds <=> h14) /\ gates[14].code = "KRL_SIG_INVALID"
  <2> HIDE DEF sig, found, h1, h2, h3, h4, h5, h6, h7, h8, h9, h10, h11, h12, h13, h14
  <2> QED BY DEF Rule
<1> HIDE DEF gates
<1>4. \/ v = Ok /\ \A k \in 1..14 : gates[k].holds
      \/ \E k \in 1..14 :
           /\ ~gates[k].holds /\ \A j \in 1..(k - 1) : gates[j].holds
           /\ v = IF gates[k].code = "fatal" THEN Fatal ELSE Invalid(<<gates[k].code>>)
  <2>1. 14 \in Nat /\ DOMAIN gates = 1..14
    BY <1>3
  <2> QED BY <1>1, <2>1, FirstBrokenSays, Zenon
<1>5. /\ (h1 /\ h2 /\ h3 /\ h4) <=> FormHolds(e)
      /\ (h5 /\ h6 /\ h7) <=> SignatureHolds(sig)
  BY DEF FormHolds, SignatureHolds, Portable, Int64, isJsonNumber, isInteger, isSafeInteger
<1>6. /\ h8 <=> found # {}
      /\ h9 <=> Active(found, t)
      /\ h1 /\ h2 /\ h3 /\ h4 => h12
      /\ h1 /\ h2 /\ h3 /\ h4 /\ h8 => (h13 /\ h14 <=> \A key \in found : verifyEd25519(e, key))
  <2>1. \A key \in found : key.public_key # Unreadable /\ (goKeyIsActiveAt(key, t) <=> keyIsActiveAt(key, t))
    BY SameKey
  <2>2. h9 <=> Active(found, t)
    BY <2>1 DEF Active
  <2>3. h1 /\ h2 /\ h3 /\ h4 => isSafeInteger(e.issued_at) /\ isSafeInteger(e.not_after) /\ goCanonical(e)
    BY DEF Portable, goCanonical, Int64, isJsonNumber, isInteger, isSafeInteger, isSafeInteger
  <2>4. goDecodes(sig.sig) <=> sig.sig.enc = "base64"
    BY DEF Portable, goDecodes
  <2>5. signedKrlSigningPayload(e) = buildKrlSigningPayload(e)
    BY DEF signedKrlSigningPayload, buildKrlSigningPayload
  <2> QED BY <2>1, <2>2, <2>3, <2>4, <2>5, Zenon DEF verifyEd25519
<1> HIDE DEF found, h1, h2, h3, h4, h5, h6, h7, h8, h9, h10, h11, h12, h13, h14
<1>7. CASE v = Ok /\ \A k \in 1..14 : gates[k].holds
  <2>1. h1 /\ h2 /\ h3 /\ h4 /\ h5 /\ h6 /\ h7 /\ h8 /\ h9 /\ h10 /\ h11 /\ h12 /\ h13 /\ h14
    BY <1>3, <1>7
  <2> QED BY <1>2, <1>5, <1>6, <1>7, <2>1 DEF Accepts, h10, h11
<1>8. ASSUME NEW k \in 1..14, ~gates[k].holds, \A j \in 1..(k - 1) : gates[j].holds,
             v = IF gates[k].code = "fatal" THEN Fatal ELSE Invalid(<<gates[k].code>>)
      PROVE  \E code : v = Invalid(<<code>>) /\ Blames(e, t, sets, prev, code)
  <2>1. k > 7 => h1 /\ h2 /\ h3 /\ h4 /\ h5 /\ h6 /\ h7
    BY <1>3, <1>8
  <2>2. k > 7 => FormHolds(e) /\ SignatureHolds(sig)
    BY <1>5, <2>1
  <2>3. CASE k \in {1, 2, 3, 4, 5, 7}
    <3>1. ~FormHolds(e) \/ ~sig.object \/ ~hasText(sig.alg) \/ ~hasText(sig.kid) \/ ~hasText(sig.sig.enc)
      BY <1>3, <1>5, <1>8, <2>3 DEF h5, h7
    <3>2. v = Invalid(<<"KRL_MALFORMED">>)
      BY <1>3, <1>8, <2>3
    <3> QED BY <3>1, <3>2, Zenon DEF Blames
  <2>4. CASE k = 6
    <3>1. sig.object /\ hasText(sig.alg) /\ sig.alg # "Ed25519" /\ v = Invalid(<<"KRL_UNSUPPORTED_ALG">>)
      BY <1>3, <1>8, <2>4 DEF h5, h6
    <3> QED BY <3>1, Zenon DEF Blames
  <2>5. CASE k = 8
    <3>1. found = {} /\ FormHolds(e) /\ SignatureHolds(sig) /\ v = Invalid(<<"KRL_UNKNOWN_SIGNING_KID">>)
      BY <1>3, <1>6, <1>8, <2>2, <2>5
    <3> QED BY <1>2, <3>1, Zenon DEF Blames
  <2>6. CASE k = 9
    <3>1. /\ found # {} /\ ~Active(found, t) /\ FormHolds(e) /\ SignatureHolds(sig)
          /\ v = Invalid(<<"KRL_SIGNING_KEY_INACTIVE">>)
      BY <1>3, <1>6, <1>8, <2>2, <2>6
    <3> QED BY <1>2, <3>1, Zenon DEF Blames
  <2>7. CASE k = 10
    <3>1. ~(t < e.not_after.n) /\ FormHolds(e) /\ SignatureHolds(sig) /\ v = Invalid(<<"KRL_EXPIRED">>)
      BY <1>3, <1>8, <2>2, <2>7 DEF h10
    <3> QED BY <3>1, Zenon DEF Blames
  <2>8. CASE k = 11
    <3>1. Regresses(e, prev) /\ FormHolds(e) /\ SignatureHolds(sig) /\ v = Invalid(<<"KRL_VERSION_REGRESSION">>)
      BY <1>3, <1>8, <2>2, <2>8 DEF h11
    <3> QED BY <3>1, Zenon DEF Blames
  <2>9. CASE k = 12
    BY <1>3, <1>6, <1>8, <2>1, <2>9
  <2>10. CASE k \in {13, 14}
    <3>1. h8 /\ h9
      BY <1>3, <1>8, <2>10
    <3>2. /\ found # {} /\ Active(found, t) /\ (~ \A key \in found : verifyEd25519(e, key))
          /\ FormHolds(e) /\ SignatureHolds(sig) /\ v = Invalid(<<"KRL_SIG_INVALID">>)
      BY <1>3, <1>6, <1>8, <2>1, <2>2, <2>10, <3>1
    <3> QED BY <1>2, <3>2, Zenon DEF Blames
  <2>11. k \in {1, 2, 3, 4, 5, 7} \/ k = 6 \/ k = 8 \/ k = 9 \/ k = 10 \/ k = 11 \/ k = 12 \/ k \in {13, 14}
    OBVIOUS
  <2> QED BY <2>3, <2>4, <2>5, <2>6, <2>7, <2>8, <2>9, <2>10, <2>11, Zenon
<1> QED BY <1>4, <1>7, <1>8

\* So does the Python harness.
LEMMA PythonSays ==
  ASSUME NEW e, NEW t \in Int, NEW sets, KeySetsShape(sets), Portable(e, sets), NEW prev
  PROVE  LET v == py_verify_signed_krl(e, t, sets, prev)
         IN \/ v = Ok /\ Accepts(e, t, sets, prev)
            \/ \E code : v = Invalid(<<code>>) /\ Blames(e, t, sets, prev, code)
<1> DEFINE sig == e.signature
           found == find_krl_key(sets, e.issuer, sig.kid)
           h1 == e.version = "SignedKRLV1"
           h2 == hasText(e.issuer)
           h3 == is_int(e.krl_version) /\ e.krl_version.n >= 0
           h4 == is_int(e.issued_at)
           h5 == is_int(e.not_after)
           h6 == e.kids_array
           h7 == NotText \notin {e.revoked_kids[k] : k \in DOMAIN e.revoked_kids} /\ ~Repeats(e.revoked_kids)
           h8 == sig.object
           h9 == hasText(sig.alg)
           h10 == sig.alg = "Ed25519"
           h11 == hasText(sig.kid)
           h12 == hasText(sig.sig.enc)
           h13 == found # {}
           h14 == \A key \in found : key_is_active_at(key, t)
           h15 == t < e.not_after.n
           h16 == ~Regresses(e, prev)
           h17 == (\A key \in found : key.public_key # Unreadable) /\ py_canonical(e)
           h18 == py_decodes(sig.sig)
           h19 == \A key \in found : Ed25519(key, "OXDEAI_KRL_V1", build_krl_signing_payload(e), sig.sig)
           gates == <<Rule(h1, "KRL_MALFORMED"), Rule(h2, "KRL_MALFORMED"),
                      Rule(h3, "KRL_MALFORMED"), Rule(h4, "KRL_MALFORMED"),
                      Rule(h5, "KRL_MALFORMED"), Rule(h6, "KRL_MALFORMED"),
                      Rule(h7, "KRL_MALFORMED"), Rule(h8, "KRL_MALFORMED"),
                      Rule(h9, "KRL_MALFORMED"), Rule(h10, "KRL_UNSUPPORTED_ALG"),
                      Rule(h11, "KRL_MALFORMED"), Rule(h12, "KRL_MALFORMED"),
                      Rule(h13, "KRL_UNKNOWN_SIGNING_KID"), Rule(h14, "KRL_SIGNING_KEY_INACTIVE"),
                      Rule(h15, "KRL_EXPIRED"), Rule(h16, "KRL_VERSION_REGRESSION"),
                      Rule(h17, "fatal"), Rule(h18, "KRL_SIG_INVALID"),
                      Rule(h19, "KRL_SIG_INVALID")>>
           v == py_verify_signed_krl(e, t, sets, prev)
<1>1. v = FirstBroken(gates)
  BY Zenon DEF py_verify_signed_krl
<1>2. sig = e.signature /\ found = findKeyInKeySets(sets, e.issuer, sig.kid)
  BY SameKey
<1>3. /\ DOMAIN gates = 1..19
      /\ (gates[1].holds <=> h1) /\ gates[1].code = "KRL_MALFORMED"
      /\ (gates[2].holds <=> h2) /\ gates[2].code = "KRL_MALFORMED"
      /\ (gates[3].holds <=> h3) /\ gates[3].code = "KRL_MALFORMED"
      /\ (gates[4].holds <=> h4) /\ gates[4].code = "KRL_MALFORMED"
      /\ (gates[5].holds <=> h5) /\ gates[5].code = "KRL_MALFORMED"
      /\ (gates[6].holds <=> h6) /\ gates[6].code = "KRL_MALFORMED"
      /\ (gates[7].holds <=> h7) /\ gates[7].code = "KRL_MALFORMED"
      /\ (gates[8].holds <=> h8) /\ gates[8].code = "KRL_MALFORMED"
      /\ (gates[9].holds <=> h9) /\ gates[9].code = "KRL_MALFORMED"
      /\ (gates[10].holds <=> h10) /\ gates[10].code = "KRL_UNSUPPORTED_ALG"
      /\ (gates[11].holds <=> h11) /\ gates[11].code = "KRL_MALFORMED"
      /\ (gates[12].holds <=> h12) /\ gates[12].code = "KRL_MALFORMED"
      /\ (gates[13].holds <=> h13) /\ gates[13].code = "KRL_UNKNOWN_SIGNING_KID"
      /\ (gates[14].holds <=> h14) /\ gates[14].code = "KRL_SIGNING_KEY_INACTIVE"
      /\ (gates[15].holds <=> h15) /\ gates[15].code = "KRL_EXPIRED"
      /\ (gates[16].holds <=> h16) /\ gates[16].code = "KRL_VERSION_REGRESSION"
      /\ (gates[17].holds <=> h17) /\ gates[17].code = "fatal"
      /\ (gates[18].holds <=> h18) /\ gates[18].code = "KRL_SIG_INVALID"
      /\ (gates[19].holds <=> h19) /\ gates[19].code = "KRL_SIG_INVALID"
  <2> HIDE DEF sig, found, h1, h2, h3, h4, h5, h6, h7, h8, h9, h10, h11, h12, h13, h14, h15, h16, h17, h18, h19
  <2> QED BY DEF Rule
<1> HIDE DEF gates
<1>4. \/ v = Ok /\ \A k \in 1..19 : gates[k].holds
      \/ \E k \in 1..19 :
           /\ ~gates[k].holds /\ \A j \in 1..(k - 1) : gates[j].holds
           /\ v = IF gates[k].code = "fatal" THEN Fatal ELSE Invalid(<<gates[k].code>>)
  <2>1. 19 \in Nat /\ DOMAIN gates = 1..19
    BY <1>3
  <2> QED BY <1>1, <2>1, FirstBrokenSays, Zenon
<1>5. /\ (h1 /\ h2 /\ h3 /\ h4 /\ h5 /\ h6 /\ h7) <=> FormHolds(e)
      /\ (h8 /\ h9 /\ h10 /\ h11 /\ h12) <=> SignatureHolds(sig)
  BY DEF FormHolds, SignatureHolds, Portable, is_int, isInteger, isSafeInteger
<1>6. /\ h13 <=> found # {}
      /\ h14 <=> Active(found, t)
      /\ h1 /\ h2 /\ h3 /\ h4 /\ h5 /\ h6 /\ h7 => h17
      /\ h1 /\ h2 /\ h3 /\ h4 /\ h5 /\ h6 /\ h7 /\ h13 => (h18 /\ h19 <=> \A key \in found : verifyEd25519(e, key))
  <2>1. \A key \in found : key.public_key # Unreadable /\ (key_is_active_at(key, t) <=> keyIsActiveAt(key, t))
    BY SameKey
  <2>2. h14 <=> Active(found, t)
    BY <2>1 DEF Active
  <2>3. h1 /\ h2 /\ h3 /\ h4 /\ h5 /\ h6 /\ h7 => isSafeInteger(e.issued_at) /\ isSafeInteger(e.not_after) /\ py_canonical(e)
    BY DEF Portable, py_canonical, is_int, isInteger, isSafeInteger, isSafeInteger
  <2>4. py_decodes(sig.sig) <=> sig.sig.enc = "base64"
    BY DEF Portable, py_decodes
  <2>5. signedKrlSigningPayload(e) = build_krl_signing_payload(e)
    BY DEF signedKrlSigningPayload, build_krl_signing_payload
  <2> QED BY <2>1, <2>2, <2>3, <2>4, <2>5, Zenon DEF verifyEd25519
<1> HIDE DEF found, h1, h2, h3, h4, h5, h6, h7, h8, h9, h10, h11, h12, h13, h14, h15, h16, h17, h18, h19
<1>7. CASE v = Ok /\ \A k \in 1..19 : gates[k].holds
  <2>1. h1 /\ h2 /\ h3 /\ h4 /\ h5 /\ h6 /\ h7 /\ h8 /\ h9 /\ h10 /\ h11 /\ h12 /\ h13 /\ h14 /\ h15 /\ h16 /\ h17 /\ h18 /\ h19
    BY <1>3, <1>7
  <2> QED BY <1>2, <1>5, <1>6, <1>7, <2>1 DEF Accepts, h15, h16
<1>8. ASSUME NEW k \in 1..19, ~gates[k].holds, \A j \in 1..(k - 1) : gates[j].holds,
             v = IF gates[k].code = "fatal" THEN Fatal ELSE Invalid(<<gates[k].code>>)
      PROVE  \E code : v = Invalid(<<code>>) /\ Blames(e, t, sets, prev, code)
  <2>1. k > 12 => h1 /\ h2 /\ h3 /\ h4 /\ h5 /\ h6 /\ h7 /\ h8 /\ h9 /\ h10 /\ h11 /\ h12
    BY <1>3, <1>8
  <2>2. k > 12 => FormHolds(e) /\ SignatureHolds(sig)
    BY <1>5, <2>1
  <2>3. CASE k \in {1, 2, 3, 4, 5, 6, 7, 8, 9, 11, 12}
    <3>1. ~FormHolds(e) \/ ~sig.object \/ ~hasText(sig.alg) \/ ~hasText(sig.kid) \/ ~hasText(sig.sig.enc)
      BY <1>3, <1>5, <1>8, <2>3 DEF h8, h9, h11, h12
    <3>2. v = Invalid(<<"KRL_MALFORMED">>)
      BY <1>3, <1>8, <2>3
    <3> QED BY <3>1, <3>2, Zenon DEF Blames
  <2>4. CASE k = 10
    <3>1. sig.object /\ hasText(sig.alg) /\ sig.alg # "Ed25519" /\ v = Invalid(<<"KRL_UNSUPPORTED_ALG">>)
      BY <1>3, <1>8, <2>4 DEF h8, h9, h10
    <3> QED BY <3>1, Zenon DEF Blames
  <2>5. CASE k = 13
    <3>1. found = {} /\ FormHolds(e) /\ SignatureHolds(sig) /\ v = Invalid(<<"KRL_UNKNOWN_SIGNING_KID">>)
      BY <1>3, <1>6, <1>8, <2>2, <2>5
    <3> QED BY <1>2, <3>1, Zenon DEF Blames
  <2>6. CASE k = 14
    <3>1. /\ found # {} /\ ~Active(found, t) /\ FormHolds(e) /\ SignatureHolds(sig)
          /\ v = Invalid(<<"KRL_SIGNING_KEY_INACTIVE">>)
      BY <1>3, <1>6, <1>8, <2>2, <2>6
    <3> QED BY <1>2, <3>1, Zenon DEF Blames
  <2>7. CASE k = 15
    <3>1. ~(t < e.not_after.n) /\ FormHolds(e) /\ SignatureHolds(sig) /\ v = Invalid(<<"KRL_EXPIRED">>)
      BY <1>3, <1>8, <2>2, <2>7 DEF h15
    <3> QED BY <3>1, Zenon DEF Blames
  <2>8. CASE k = 16
    <3>1. Regresses(e, prev) /\ FormHolds(e) /\ SignatureHolds(sig) /\ v = Invalid(<<"KRL_VERSION_REGRESSION">>)
      BY <1>3, <1>8, <2>2, <2>8 DEF h16
    <3> QED BY <3>1, Zenon DEF Blames
  <2>9. CASE k = 17
    BY <1>3, <1>6, <1>8, <2>1, <2>9
  <2>10. CASE k \in {18, 19}
    <3>1. h13 /\ h14
      BY <1>3, <1>8, <2>10
    <3>2. /\ found # {} /\ Active(found, t) /\ (~ \A key \in found : verifyEd25519(e, key))
          /\ FormHolds(e) /\ SignatureHolds(sig) /\ v = Invalid(<<"KRL_SIG_INVALID">>)
      BY <1>3, <1>6, <1>8, <2>1, <2>2, <2>10, <3>1
    <3> QED BY <1>2, <3>2, Zenon DEF Blames
  <2>11. k \in {1, 2, 3, 4, 5, 6, 7, 8, 9, 11, 12} \/ k = 10 \/ k = 13 \/ k = 14 \/ k = 15 \/ k = 16 \/ k = 17 \/ k \in {18, 19}
    OBVIOUS
  <2> QED BY <2>3, <2>4, <2>5, <2>6, <2>7, <2>8, <2>9, <2>10, <2>11, Zenon
<1> QED BY <1>4, <1>7, <1>8

\* A verdict with the core's status, reasons of the core's, and no fewer when
\* the core has one at most.
Confirms(v, core) ==
  /\ v.status = core.status
  /\ \A j \in DOMAIN v.violations : \E i \in DOMAIN core.violations : core.violations[i] = v.violations[j]
  /\ Len(core.violations) <= 1 => v.violations = core.violations

\* Such a verdict confirms the core's.
LEMMA AgreeingVerdicts ==
  ASSUME NEW e, NEW t, NEW sets, NEW prev, NEW v,
         \/ v = Ok /\ Accepts(e, t, sets, prev)
         \/ \E code : v = Invalid(<<code>>) /\ Blames(e, t, sets, prev, code)
  PROVE  Confirms(v, verifySignedKrl(e, t, sets, prev))
<1> DEFINE core == verifySignedKrl(e, t, sets, prev)
<1>1. /\ Accepts(e, t, sets, prev) => core = Ok
      /\ ~Accepts(e, t, sets, prev) =>
           /\ core.status = "invalid" /\ core.violations \in Seq(RankCodes)
           /\ \A code : Blames(e, t, sets, prev, code) => Says(core.violations, code)
  BY CoreSays, Zenon
<1>2. CASE v = Ok /\ Accepts(e, t, sets, prev)
  <2>1. core = Ok /\ v = Ok
    BY <1>1, <1>2
  <2> HIDE DEF core
  <2>2. Confirms(v, core)
    BY <2>1 DEF Confirms, Ok
  <2> QED BY <2>2 DEF core
<1>3. ASSUME NEW code, v = Invalid(<<code>>), Blames(e, t, sets, prev, code)
      PROVE  Confirms(v, core)
  <2>1. ~Accepts(e, t, sets, prev)
    BY <1>3, Zenon DEF Accepts, Blames, SignatureHolds
  <2>2. core.status = "invalid" /\ core.violations \in Seq(RankCodes) /\ Says(core.violations, code)
    BY <1>1, <1>3, <2>1, Zenon
  <2> DEFINE w == core.violations
  <2>3. v.status = "invalid" /\ v.violations = <<code>>
    BY <1>3 DEF Invalid
  <2> HIDE DEF core, w
  <2>4. w \in Seq(RankCodes) /\ \E i \in DOMAIN w : w[i] = code
    BY <2>2 DEF Says, w
  <2>5. Len(w) <= 1 => w = <<code>>
    <3>1. DOMAIN w = 1..Len(w) /\ Len(w) \in Nat
      BY <2>4
    <3>2. Len(w) <= 1 => Len(w) = 1 /\ w[1] = code
      BY <2>4, <3>1
    <3>3. \A x \in Seq(RankCodes) : Len(x) = 1 => x = <<x[1]>>
      OBVIOUS
    <3> QED BY <2>4, <3>2, <3>3
  <2>6. \A j \in DOMAIN v.violations : v.violations[j] = code
    BY <2>3
  <2> QED BY <2>2, <2>3, <2>4, <2>5, <2>6 DEF Confirms, w
<1> QED BY <1>2, <1>3

\* On every portable list, at every time, against any earlier versions.
LEMMA HarnessesAgree ==
  ASSUME NEW e, NEW t \in Int, Portable(e, KrlKeySets), NEW prev
  PROVE  LET core == verifySignedKrl(e, t, KrlKeySets, prev)
         IN /\ Confirms(goVerifySignedKrl(e, t, KrlKeySets, prev), core)
            /\ Confirms(py_verify_signed_krl(e, t, KrlKeySets, prev), core)
<1>1. KeySetsShape(KrlKeySets)
  <2>1. DOMAIN KrlKeySets = 1..Len(KrlKeySets)
    BY RevocationConfig
  <2>2. \A k \in 1..Len(KrlKeySets) : k \in Int
    OBVIOUS
  <2> QED BY <2>1, <2>2, RevocationConfig DEF KeySetsShape
<1>2. Confirms(goVerifySignedKrl(e, t, KrlKeySets, prev), verifySignedKrl(e, t, KrlKeySets, prev))
  BY <1>1, GoSays, AgreeingVerdicts, Zenon
<1>3. Confirms(py_verify_signed_krl(e, t, KrlKeySets, prev), verifySignedKrl(e, t, KrlKeySets, prev))
  BY <1>1, PythonSays, AgreeingVerdicts, Zenon
<1> QED BY <1>2, <1>3

\* The property speaks of those that circulate, altered in up to two places.
LEMMA ConfirmationIsSeen ==
  ASSUME now \in Int
  PROVE  HarnessesConfirmCore
<1>1. ASSUME NEW l, Portable(l, KrlKeySets), NEW prev
      PROVE  LET core == verifySignedKrl(l, now, KrlKeySets, prev)
                 go == goVerifySignedKrl(l, now, KrlKeySets, prev)
                 py == py_verify_signed_krl(l, now, KrlKeySets, prev)
             IN /\ core.status = go.status /\ core.status = py.status
                /\ \A h \in {go, py} : \A j \in DOMAIN h.violations :
                     \E i \in DOMAIN core.violations : core.violations[i] = h.violations[j]
                /\ Len(core.violations) <= 1 => verifySignedKrlVectors(go, core) /\ pyMain(py, core)
  <2> DEFINE core == verifySignedKrl(l, now, KrlKeySets, prev)
             go == goVerifySignedKrl(l, now, KrlKeySets, prev)
             py == py_verify_signed_krl(l, now, KrlKeySets, prev)
  <2>1. Confirms(go, core) /\ Confirms(py, core)
    BY <1>1, HarnessesAgree
  <2> HIDE DEF core, go, py
  <2>2. core.status = go.status /\ core.status = py.status
    BY <2>1 DEF Confirms
  <2>3. \A h \in {go, py} : \A j \in DOMAIN h.violations :
          \E i \in DOMAIN core.violations : core.violations[i] = h.violations[j]
    BY <2>1, Zenon DEF Confirms
  <2>4. Len(core.violations) <= 1 => verifySignedKrlVectors(go, core) /\ pyMain(py, core)
    BY <2>1, <2>2 DEF Confirms, verifySignedKrlVectors, pyMain
  <2> QED BY <2>2, <2>3, <2>4 DEF core, go, py
<1> QED BY <1>1 DEF HarnessesConfirmCore

----------------------------------------------------------------------------
(* The evidence of an evaluation. *)

(***************************************************************************)
(* A list that verifySignedKrl takes has not expired and carries what a    *)
(* trusted key of its issuer signed for this purpose.                      *)
(***************************************************************************)
LEMMA VerifiedIsGenuine ==
  ASSUME NEW l, NEW t, Verified(l, t)
  PROVE  Genuine(l) /\ t < l.not_after.n
<1>1. Accepts(l, t, KrlKeySets, <<>>)
  BY CoreSays DEF Verified
<1>2. t < l.not_after.n
  BY <1>1 DEF Accepts
<1>3. PICK k \in findKeyInKeySets(KrlKeySets, l.issuer, l.signature.kid) : verifyEd25519(l, k)
  BY <1>1 DEF Accepts
<1>4. \E s \in DOMAIN KrlKeySets : \E j \in DOMAIN KrlKeySets[s].keys :
        KrlKeySets[s].issuer = l.issuer /\ KrlKeySets[s].keys[j] = k
  BY <1>3 DEF findKeyInKeySets, KeyIn, First
<1>5. /\ l.signature.sig.by = k.public_key /\ l.signature.sig.domain = "OXDEAI_KRL_V1"
      /\ l.signature.sig.over = signedKrlSigningPayload(l)
  BY <1>3 DEF verifyEd25519, Ed25519
<1>6. Genuine(l)
  BY <1>4, <1>5 DEF Genuine, signedKrlSigningPayload
<1> QED
  BY <1>2, <1>6

(***************************************************************************)
(* An answer of the provider that is not refused has a verified list for   *)
(* every configured publisher.                                             *)
(***************************************************************************)
LEMMA AnswersAreComplete ==
  ASSUME NEW lists, NEW t, NEW keys, EvidenceDenial(lists, t, keys) = "none", NEW i \in Issuers
  PROVE  ListOf(lists, i) # {} /\ \A l \in ListOf(lists, i) : Verified(l, t)
<1> DEFINE failing == {k \in DOMAIN Scopes : ScopeDenial(lists, Scopes[k], t) # "none"}
<1>1. failing = {}
  <2> SUFFICES ASSUME failing # {} PROVE FALSE
    OBVIOUS
  <2>1. failing \in SUBSET Nat
    BY RevocationConfig
  <2>2. \E k \in failing : \A j \in failing : k <= j
    BY <2>1, LeastNatural
  <2>3. (CHOOSE k \in failing : \A j \in failing : k <= j) \in failing
    BY <2>2
  <2>4. ScopeDenial(lists, Scopes[CHOOSE k \in failing : \A j \in failing : k <= j], t) = "none"
    BY DEF EvidenceDenial
  <2> QED
    BY <2>3, <2>4
<1>2. ScopeDenial(lists, i, t) = "none"
  BY <1>1 DEF Issuers
<1> QED
  BY <1>2 DEF ScopeDenial

(***************************************************************************)
(* What the store accepts is at least as new as what it holds: a relation  *)
(* in which watermarks may be chained.                                     *)
(***************************************************************************)
LEMMA MarksAreOrdered ==
  /\ NoMark \in Marks /\ \A l \in Krls : Watermark(l) \in Marks
  /\ \A m \in Marks : m.krlVersion \in Int /\ Acceptable(m, m)
  /\ \A a, b, c \in Marks : Acceptable(a, b) /\ Acceptable(b, c) => Acceptable(a, c)
<1>1. \A m \in Marks : m.krlVersion \in Int
  BY RevocationConfig DEF Marks, NoMark, Watermark
<1> QED
  BY <1>1 DEF Marks, Acceptable

(***************************************************************************)
(* Of two lists of one watermark, the second revokes what the first does.  *)
(***************************************************************************)
LEMMA SameMarkSameKids ==
  ASSUME NEW k, NEW l, Watermark(k) = Watermark(l)
  PROVE  RevokedBy(k) = RevokedBy(l)
<1>1. signedKrlSigningPayload(k) = signedKrlSigningPayload(l)
  BY DEF Watermark
<1>2. k.revoked_kids = l.revoked_kids
  BY <1>1 DEF signedKrlSigningPayload
<1> QED
  BY <1>2 DEF RevokedBy

----------------------------------------------------------------------------
(* The steps *)

(***************************************************************************)
(* In the initial state nobody has begun.                                  *)
(***************************************************************************)
LEMMA RevocationInitInv ==
  RevocationInit => RevocationInv
<1> SUFFICES ASSUME RevocationInit PROVE RevocationInv
  OBVIOUS
<1> USE DEF RevocationInit
<1>1. RevocationTypeInv
  BY RevocationConfig, MarksAreOrdered DEF RevocationTypeInv, Labels
<1>2. EvidenceInv /\ VerdictInv /\ OfferInv /\ BeforeInv /\ FloorInv /\ BeganAfterInv
  BY DEF EvidenceInv, VerdictInv, Judged, OfferInv, BeforeInv, FloorInv, BeganAfterInv
<1>3. AcceptedInv /\ OrderedInv
  BY DEF AcceptedInv, OrderedInv, Accepted, Judged
<1> QED
  BY <1>1, <1>2, <1>3 DEF RevocationInv

(***************************************************************************)
(* An evaluation begins: the watermarks it sees are the ones stored now,   *)
(* which are at least as new as every list evaluated so far.               *)
(***************************************************************************)
LEMMA StartInv ==
  ASSUME RevocationInv, NEW x \in Evaluations, Start(x)
  PROVE  RevocationInv'
<1> USE DEF Start, Goto
<1>0. RevocationTypeInv /\ Settled \cap {"idle", "provider", "accept"} = {} /\ Judged \subseteq Settled
  BY DEF RevocationInv, Settled, Denied, Judged
<1>1. RevocationTypeInv'
  BY <1>0 DEF RevocationTypeInv, Labels
<1>2. \A e \in Evaluations, i \in Issuers :
        /\ phase'[e] \in Judged \cup {"accept"} => phase[e] = phase'[e] /\ at'[e] = at[e] /\ floor'[e] = floor[e]
        /\ Accepted(e, i)' <=> Accepted(e, i)
  BY <1>0 DEF RevocationTypeInv, Accepted, Judged
<1>3. EvidenceInv' /\ VerdictInv' /\ OfferInv'
  BY <1>0, <1>2 DEF RevocationInv, RevocationTypeInv, EvidenceInv, VerdictInv, OfferInv, Revoked, Judged
<1>4. BeforeInv'
  BY <1>0 DEF RevocationInv, RevocationTypeInv, BeforeInv
<1>5. FloorInv'
  BY <1>0, MarksAreOrdered DEF RevocationInv, RevocationTypeInv, FloorInv, Persistent
<1>6. AcceptedInv' /\ OrderedInv'
  BY <1>0, <1>2 DEF RevocationInv, AcceptedInv, OrderedInv, Accepted, Persistent, Judged
<1>7. BeganAfterInv'
  <2> SUFFICES ASSUME Persistent, NEW e \in Evaluations, NEW f \in Evaluations, NEW i \in Issuers,
                      phase'[e] \in Judged, e \in before'[f]
               PROVE  Acceptable(floor'[f][i], Watermark(evidence[e][i]))
    BY DEF BeganAfterInv, Persistent
  <2>1. phase[e] \in Judged
    BY <1>0, <1>2
  <2>2. CASE f = x
    <3>1. Acceptable(marks[i], Watermark(evidence[e][i]))
      BY <2>1 DEF RevocationInv, AcceptedInv, Accepted
    <3> QED
      BY <3>1, <2>2, <1>0 DEF RevocationTypeInv
  <2>3. CASE f # x
    BY <2>1, <2>3, <1>0 DEF RevocationInv, RevocationTypeInv, BeganAfterInv
  <2> QED
    BY <2>2, <2>3
<1> QED
  BY <1>1, <1>3, <1>4, <1>5, <1>6, <1>7 DEF RevocationInv

(***************************************************************************)
(* The provider's answer is taken: nothing of it is accepted yet.          *)
(***************************************************************************)
LEMMA ProviderAnswersInv ==
  ASSUME RevocationInv, NEW x \in Evaluations, NEW lists \in SUBSET Krls, ProviderAnswers(x, lists)
  PROVE  RevocationInv'
<1> USE DEF ProviderAnswers, Goto
<1>0. /\ RevocationTypeInv /\ Settled \cap {"idle", "provider", "accept"} = {}
      /\ Judged \subseteq Settled /\ next[x] = 1
  BY DEF RevocationInv, OfferInv, Settled, Denied, Judged
<1>1. \A i \in Issuers :
        /\ evidence'[x][i] \in Krls /\ evidence'[x][i].issuer = i
        /\ Verified(evidence'[x][i], at[x])
  <2> TAKE i \in Issuers
  <2>1. ListOf(lists, i) # {} /\ \A l \in ListOf(lists, i) : Verified(l, at[x])
    BY AnswersAreComplete
  <2>2. evidence'[x][i] = CHOOSE l \in ListOf(lists, i) : TRUE
    BY <1>0 DEF RevocationTypeInv
  <2>3. evidence'[x][i] \in ListOf(lists, i)
    BY <2>1, <2>2
  <2> QED
    BY <2>1, <2>3 DEF ListOf
<1>2. RevocationTypeInv'
  BY <1>0, <1>1 DEF RevocationTypeInv, Labels
<1>3. \A e \in Evaluations \ {x} : phase'[e] = phase[e] /\ evidence'[e] = evidence[e]
  BY <1>0 DEF RevocationTypeInv
<1>4. phase'[x] = "accept" /\ phase[x] = "provider"
  BY <1>0 DEF RevocationTypeInv
<1>5. \A e \in Evaluations, i \in Issuers :
        /\ Accepted(e, i)' <=> Accepted(e, i)
        /\ Accepted(e, i) => e # x
  BY <1>0, <1>3, <1>4 DEF Accepted, Judged
<1>6. EvidenceInv' /\ VerdictInv' /\ OfferInv' /\ BeforeInv'
  <2>1. EvidenceInv'
    <3>1. at' = at
      OBVIOUS
    <3> HIDE DEF ProviderAnswers, Goto
    <3> SUFFICES ASSUME NEW e \in Evaluations, phase'[e] \in Judged \cup {"accept"}, NEW i \in Issuers
                 PROVE  /\ evidence'[e][i] \in Krls /\ evidence'[e][i].issuer = i
                        /\ Verified(evidence'[e][i], at[e])
      BY <3>1 DEF EvidenceInv
    <3>2. CASE e = x
      BY <3>2, <1>1
    <3>3. CASE e # x
      BY <3>3, <1>3 DEF RevocationInv, EvidenceInv
    <3> QED
      BY <3>2, <3>3
  <2>2. VerdictInv' /\ OfferInv' /\ BeforeInv'
    BY <1>0, <1>3, <1>4 DEF RevocationInv, VerdictInv, OfferInv, BeforeInv, Revoked, Judged
  <2> QED
    BY <2>1, <2>2
<1>7. FloorInv'
  BY <1>3, <1>4 DEF RevocationInv, FloorInv, Persistent
<1>8. AcceptedInv' /\ OrderedInv'
  BY <1>5, <1>3 DEF RevocationInv, AcceptedInv, OrderedInv, Persistent
<1>9. BeganAfterInv'
  BY <1>0, <1>3, <1>4 DEF RevocationInv, BeganAfterInv, Persistent, Judged
<1> QED
  BY <1>2, <1>6, <1>7, <1>8, <1>9 DEF RevocationInv

(***************************************************************************)
(* An evaluation is denied, or dies, before its lists are evaluated; the   *)
(* store may have moved to a watermark it accepts.                         *)
(***************************************************************************)
LEMMA DropInv ==
  ASSUME RevocationInv,
         phase' \in [Evaluations -> Labels],
         \A e \in Evaluations : phase'[e] = phase[e] \/ (phase[e] \in {"provider", "accept"} /\ phase'[e] \in Settled \ Judged),
         marks' \in [Issuers -> Marks],
         Persistent' => Persistent /\ \A i \in Issuers : Acceptable(marks'[i], marks[i]),
         crashes' \in Nat,
         UNCHANGED <<now, at, evidence, next, floor, before>>
  PROVE  RevocationInv'
<1>0. RevocationTypeInv /\ Settled \cap {"idle", "provider", "accept"} = {} /\ Judged \subseteq Settled
  BY DEF RevocationInv, Settled, Denied, Judged
<1>1. RevocationTypeInv'
  BY <1>0 DEF RevocationTypeInv
<1>2. \A e \in Evaluations :
        /\ phase'[e] \in Judged \cup {"idle", "provider", "accept"} => phase'[e] = phase[e]
        /\ phase[e] \in Settled \cup {"idle"} => phase'[e] = phase[e]
        /\ \A i \in Issuers : Accepted(e, i)' => Accepted(e, i)
  BY <1>0 DEF Accepted
<1>3. \A i \in Issuers : \A m \in Marks :
        Persistent' /\ Acceptable(marks[i], m) => Acceptable(marks'[i], m)
  BY <1>0, MarksAreOrdered DEF RevocationTypeInv
<1>4. EvidenceInv' /\ VerdictInv' /\ OfferInv'
  BY <1>0, <1>2 DEF RevocationInv, EvidenceInv, VerdictInv, OfferInv, Revoked, Verified
<1>5. BeforeInv'
  BY <1>0, <1>2 DEF RevocationInv, RevocationTypeInv, BeforeInv
<1>6. FloorInv'
  BY <1>0, <1>2, <1>3 DEF RevocationInv, RevocationTypeInv, FloorInv
<1>7. \A e \in Evaluations, i \in Issuers : Accepted(e, i) => Watermark(evidence[e][i]) \in Marks
  BY MarksAreOrdered DEF RevocationInv, EvidenceInv, Accepted
<1>8. AcceptedInv' /\ OrderedInv'
  BY <1>0, <1>2, <1>3, <1>7 DEF RevocationInv, AcceptedInv, OrderedInv
<1>9. BeganAfterInv'
  BY <1>0, <1>2 DEF RevocationInv, BeganAfterInv
<1> QED
  BY <1>1, <1>4, <1>5, <1>6, <1>8, <1>9 DEF RevocationInv

(***************************************************************************)
(* The store accepts an evaluation's list of one publisher, and after the  *)
(* last one the evaluation takes the lists' verdict.                       *)
(***************************************************************************)
LEMMA AcceptInv ==
  ASSUME RevocationInv, NEW x \in Evaluations, Accept(x)
  PROVE  RevocationInv'
<1> DEFINE j == Scopes[next[x]]
           w == Watermark(evidence[x][j])
<1> USE DEF Accept, Goto, Mark, MoreScopes, Offered
<1>0. /\ RevocationTypeInv /\ Settled \cap {"idle", "provider", "accept"} = {}
      /\ Judged \subseteq Settled /\ phase[x] = "accept" /\ x \in DOMAIN phase /\ x \in DOMAIN next
  BY DEF RevocationInv, RevocationTypeInv, Settled, Denied, Judged
<1>1. j \in Issuers
  BY <1>0, RevocationConfig DEF RevocationTypeInv, Issuers
<1>2. /\ marks[j] \in Marks /\ w \in Marks /\ Acceptable(w, marks[j])
      /\ marks' = [marks EXCEPT ![j] = w]
  BY <1>0, <1>1, MarksAreOrdered DEF RevocationInv, RevocationTypeInv, EvidenceInv
<1>3. /\ \A e \in Evaluations \ {x} : phase'[e] = phase[e] /\ next'[e] = next[e]
      /\ phase'[x] \in {"accept"} \cup Judged
      /\ phase'[x] \in Judged => (phase'[x] = "REVOKED" <=> Revoked(x))
  BY <1>0 DEF RevocationTypeInv, Judged
<1>4. RevocationTypeInv'
  <2>1. phase' \in [Evaluations -> Labels]
    BY <1>0 DEF RevocationTypeInv, Labels, Settled, Denied
  <2>2. next' \in [Evaluations -> 1 .. Len(Scopes)]
    <3>1. Len(Scopes) \in Nat /\ next[x] \in 1 .. Len(Scopes)
      BY <1>0, RevocationConfig DEF RevocationTypeInv
    <3>2. next' = [next EXCEPT ![x] = next[x] + 1] \/ next' = next
      OBVIOUS
    <3>3. next' = [next EXCEPT ![x] = next[x] + 1] => next[x] < Len(Scopes)
      BY <1>0, <3>1 DEF RevocationTypeInv
    <3> HIDE DEF Accept, MoreScopes
    <3>4. next[x] < Len(Scopes) => next[x] + 1 \in 1 .. Len(Scopes)
      BY <3>1
    <3> QED
      BY <1>0, <3>1, <3>2, <3>3, <3>4 DEF RevocationTypeInv
  <2>3. marks' \in [Issuers -> Marks]
    BY <1>0, <1>1, <1>2 DEF RevocationTypeInv
  <2> QED
    BY <1>0, <2>1, <2>2, <2>3 DEF RevocationTypeInv
<1>5. \A i \in Issuers : Acceptable(marks'[i], marks[i])
  BY <1>0, <1>1, <1>2, MarksAreOrdered DEF RevocationTypeInv
<1>6. \A i \in Issuers : \A m \in Marks : Acceptable(marks[i], m) => Acceptable(marks'[i], m)
  BY <1>0, <1>4, <1>5, MarksAreOrdered DEF RevocationTypeInv
<1>7. \A e \in Evaluations, i \in Issuers :
        Accepted(e, i)' => Accepted(e, i) \/ (e = x /\ i = j)
  <2> SUFFICES ASSUME NEW i \in Issuers, Accepted(x, i)'
               PROVE  Accepted(x, i) \/ i = j
    BY <1>3 DEF Accepted
  <2>1. CASE MoreScopes(x)
    <3>1. phase'[x] = "accept" /\ next'[x] = next[x] + 1 /\ next[x] \in Nat
      BY <1>0, <2>1 DEF RevocationTypeInv
    <3>2. PICK k \in 1 .. next[x] : Scopes[k] = i
      BY <3>1 DEF Accepted, Judged
    <3> QED
      BY <1>0, <3>1, <3>2 DEF Accepted
  <2>2. CASE ~MoreScopes(x)
    <3>1. PICK k \in DOMAIN Scopes : Scopes[k] = i
      BY DEF Issuers
    <3>2. next[x] = Len(Scopes) /\ DOMAIN Scopes = 1 .. Len(Scopes) /\ Len(Scopes) \in Nat
      BY <1>0, <2>2, RevocationConfig DEF RevocationTypeInv
    <3> QED
      BY <1>0, <3>1, <3>2 DEF Accepted
  <2> QED
    BY <2>1, <2>2
<1>8. \A e \in Evaluations, i \in Issuers : Accepted(e, i) => Watermark(evidence[e][i]) \in Marks
  BY MarksAreOrdered DEF RevocationInv, EvidenceInv, Accepted
<1>9. EvidenceInv'
  BY <1>0, <1>3 DEF RevocationInv, EvidenceInv
<1>10. VerdictInv' /\ OfferInv' /\ BeforeInv'
  <2>1. Revoked(x)' <=> Revoked(x)
    BY DEF Revoked
  <2>2. VerdictInv'
    BY <1>3, <2>1 DEF RevocationInv, VerdictInv, Revoked
  <2>3. OfferInv' /\ BeforeInv'
    BY <1>0, <1>3 DEF RevocationInv, RevocationTypeInv, OfferInv, BeforeInv, Judged
  <2> QED
    BY <2>2, <2>3
<1>11. FloorInv'
  BY <1>0, <1>3, <1>6 DEF RevocationInv, RevocationTypeInv, FloorInv, Persistent
<1>12. AcceptedInv'
  <2> SUFFICES ASSUME Persistent, NEW e \in Evaluations, NEW i \in Issuers, Accepted(e, i)'
               PROVE  /\ Acceptable(marks'[i], Watermark(evidence[e][i]))
                      /\ Acceptable(Watermark(evidence[e][i]), floor[e][i])
    BY DEF AcceptedInv, Persistent
  <2>1. CASE Accepted(e, i)
    BY <2>1, <1>6, <1>8 DEF RevocationInv, AcceptedInv
  <2>2. CASE e = x /\ i = j
    <3>1. Acceptable(marks[j], floor[x][j]) /\ floor[x][j] \in Marks
      <4> HIDE DEF j, Accept, Goto, Mark, MoreScopes, Offered
      <4> QED
        BY <1>0, <1>1 DEF RevocationInv, RevocationTypeInv, FloorInv
    <3>2. marks'[j] = w /\ Acceptable(w, w)
      BY <1>0, <1>1, <1>2, MarksAreOrdered DEF RevocationTypeInv
    <3>3. Acceptable(w, floor[x][j])
      BY <1>2, <3>1, MarksAreOrdered
    <3> QED
      BY <2>2, <3>2, <3>3
  <2> QED
    BY <2>1, <2>2, <1>7
<1>13. OrderedInv'
  <2>1. ASSUME Persistent, NEW e \in Evaluations, Accepted(e, j)
        PROVE  Acceptable(w, Watermark(evidence[e][j]))
    <3>1. Acceptable(marks[j], Watermark(evidence[e][j])) /\ Watermark(evidence[e][j]) \in Marks
      BY <1>1, <1>8, <2>1 DEF RevocationInv, AcceptedInv
    <3> QED
      BY <1>2, <3>1, MarksAreOrdered
  <2>2. Acceptable(w, w)
    BY <1>2, MarksAreOrdered
  <2> QED
    BY <1>1, <1>7, <2>1, <2>2 DEF RevocationInv, OrderedInv, Persistent
<1>14. BeganAfterInv'
  <2> SUFFICES ASSUME Persistent, NEW e \in Evaluations, NEW f \in Evaluations, NEW i \in Issuers,
                      phase'[e] \in Judged, e \in before[f]
               PROVE  Acceptable(floor[f][i], Watermark(evidence[e][i]))
    BY DEF BeganAfterInv, Persistent
  <2>1. e # x
    BY <1>0 DEF RevocationInv, BeforeInv
  <2> QED
    BY <2>1, <1>3 DEF RevocationInv, BeganAfterInv
<1> QED
  BY <1>4, <1>9, <1>10, <1>11, <1>12, <1>13, <1>14 DEF RevocationInv

(***************************************************************************)
(* Every step of an evaluation, the clock or a restart keeps the           *)
(* invariant.                                                              *)
(***************************************************************************)
LEMMA RevocationNextInv ==
  RevocationInv /\ [RevocationNext]_revocationVars => RevocationInv'
<1> SUFFICES ASSUME RevocationInv, [RevocationNext]_revocationVars PROVE RevocationInv'
  OBVIOUS
<1>0. RevocationTypeInv /\ \A m \in Marks : Acceptable(m, m)
  BY MarksAreOrdered DEF RevocationInv
<1>d. Denied \ {"REVOKED"} \subseteq Settled \ Judged /\ "crashed" \in Settled \ Judged /\ Settled \subseteq Labels
  BY DEF Denied, Settled, Judged, Labels
<1>1. ASSUME NEW x \in Evaluations, NEW label \in {"UNAVAILABLE", "INVALID"},
             phase[x] \in {"provider", "accept"}, Goto(x, label),
             UNCHANGED <<now, crashes, at, evidence, next, floor, before>>,
             marks' \in [Issuers -> Marks], \A i \in Issuers : Acceptable(marks'[i], marks[i])
      PROVE  RevocationInv'
  <2>1. label \in Settled \ Judged /\ label \in Labels
    BY <1>d DEF Denied
  <2>2. phase' = [phase EXCEPT ![x] = label] /\ phase' \in [Evaluations -> Labels]
    BY <1>0, <1>1, <2>1 DEF Goto, RevocationTypeInv
  <2> QED
    BY <1>0, <1>1, <2>1, <2>2, DropInv DEF RevocationTypeInv, Persistent
<1>2. ASSUME NEW x \in Evaluations, ProviderFails(x)
      PROVE  RevocationInv'
  BY <1>0, <1>1, <1>2 DEF ProviderFails, RevocationTypeInv
<1>3. ASSUME NEW x \in Evaluations, NEW lists \in SUBSET Krls, ProviderRefused(x, lists)
      PROVE  RevocationInv'
  <2>1. EvidenceDenial(lists, at[x], KeysOf[x]) \in {"UNAVAILABLE", "INVALID"}
    BY <1>3 DEF ProviderRefused, EvidenceDenial, ScopeDenial
  <2> QED
    BY <1>0, <1>1, <1>3, <2>1 DEF ProviderRefused, RevocationTypeInv
<1>4. ASSUME NEW x \in Evaluations, AcceptRejected(x)
      PROVE  RevocationInv'
  BY <1>0, <1>1, <1>4 DEF AcceptRejected, RevocationTypeInv
<1>5. ASSUME NEW x \in Evaluations, AcceptFails(x)
      PROVE  RevocationInv'
  <2>1. Scopes[next[x]] \in Issuers
    BY <1>0, RevocationConfig DEF RevocationTypeInv, Issuers
  <2>2. Offered(x) \in Marks
    BY <1>5, <2>1, MarksAreOrdered DEF RevocationInv, EvidenceInv, AcceptFails, Offered
  <2>3. marks' \in [Issuers -> Marks] /\ \A i \in Issuers : Acceptable(marks'[i], marks[i])
    BY <1>0, <1>5, <2>1, <2>2 DEF AcceptFails, Mark, RevocationTypeInv
  <2> QED
    BY <1>1, <1>5, <2>3 DEF AcceptFails
<1>6. CASE Tick
  BY <1>0, <1>6, DropInv DEF Tick, RevocationTypeInv, RevocationInv, EvidenceInv, VerdictInv, OfferInv, BeforeInv, FloorInv,
     AcceptedInv, OrderedInv, BeganAfterInv, Accepted, Persistent, Revoked
<1>7. CASE Crash
  <2>1. phase' \in [Evaluations -> Labels] /\ marks' \in [Issuers -> Marks] /\ crashes' \in Nat
    BY <1>0, <1>7, <1>d, MarksAreOrdered DEF Crash, RevocationTypeInv
  <2>2. \A e \in Evaluations :
          phase'[e] = phase[e] \/ (phase[e] \in {"provider", "accept"} /\ phase'[e] \in Settled \ Judged)
    BY <1>7, <1>d DEF Crash
  <2>3. Persistent' => Persistent /\ \A i \in Issuers : Acceptable(marks'[i], marks[i])
    BY <1>0, <1>7 DEF Crash, Persistent, RevocationTypeInv
  <2> QED
    BY <1>7, <2>1, <2>2, <2>3, DropInv DEF Crash
<1>8. CASE UNCHANGED revocationVars
  BY <1>0, <1>8 DEF revocationVars, RevocationTypeInv, RevocationInv, EvidenceInv, VerdictInv, OfferInv, BeforeInv, FloorInv,
     AcceptedInv, OrderedInv, BeganAfterInv, Accepted, Persistent, Revoked
<1> QED
  BY <1>2, <1>3, <1>4, <1>5, <1>6, <1>7, <1>8, StartInv, ProviderAnswersInv, AcceptInv DEF RevocationNext

----------------------------------------------------------------------------
(* The theorems *)

(***************************************************************************)
(* The invariant holds throughout.                                         *)
(***************************************************************************)
THEOREM InvariantHolds ==
  RevocationSpec => []RevocationInv
  BY RevocationInitInv, RevocationNextInv, PTL DEF RevocationSpec

(***************************************************************************)
(* No key passes on stale or forged evidence, for any publishers and lists *)
(* and any interleaving of evaluations, restarts and store failures: every *)
(* list behind a passed evaluation is genuine, valid when the guard read   *)
(* its clock, and no older than what had been accepted before; a second    *)
(* list of the same version never passes too.                              *)
(***************************************************************************)
THEOREM RevocationPassesOnCurrentEvidence ==
  RevocationSpec => []PassesOnlyOnCurrentEvidence
<1>1. RevocationInv => PassesOnlyOnCurrentEvidence
  <2> SUFFICES ASSUME RevocationInv, NEW e \in Evaluations, phase[e] = "ok", NEW i \in Issuers
               PROVE  /\ evidence[e][i] \in Krls /\ evidence[e][i].issuer = i
                      /\ Genuine(evidence[e][i]) /\ at[e] < evidence[e][i].not_after.n
                      /\ Persistent =>
                           /\ evidence[e][i].krl_version.n >= floor[e][i].krlVersion
                           /\ \A f \in Evaluations :
                                (phase[f] = "ok" /\ evidence[f][i].krl_version = evidence[e][i].krl_version)
                                  => RevokedBy(evidence[f][i]) = RevokedBy(evidence[e][i])
    BY DEF PassesOnlyOnCurrentEvidence, Persistent
  <2>1. \A f \in Evaluations : phase[f] = "ok" =>
          /\ Accepted(f, i) /\ evidence[f][i] \in Krls /\ evidence[f][i].issuer = i
          /\ Verified(evidence[f][i], at[f])
    BY DEF RevocationInv, EvidenceInv, Accepted, Judged
  <2>2. Genuine(evidence[e][i]) /\ at[e] < evidence[e][i].not_after.n
    BY <2>1, VerifiedIsGenuine
  <2>3. ASSUME Persistent
        PROVE  evidence[e][i].krl_version.n >= floor[e][i].krlVersion
    <3>1. Acceptable(Watermark(evidence[e][i]), floor[e][i])
      BY <2>1, <2>3 DEF RevocationInv, AcceptedInv
    <3>2. floor[e][i].krlVersion \in Int /\ evidence[e][i].krl_version.n \in Int
      BY <2>1, MarksAreOrdered, RevocationConfig DEF RevocationInv, RevocationTypeInv
    <3> QED
      BY <3>1, <3>2 DEF Acceptable, Watermark
  <2>4. ASSUME Persistent, NEW f \in Evaluations, phase[f] = "ok",
               evidence[f][i].krl_version = evidence[e][i].krl_version
        PROVE  RevokedBy(evidence[f][i]) = RevokedBy(evidence[e][i])
    <3> DEFINE v == Watermark(evidence[e][i])
               w == Watermark(evidence[f][i])
    <3>1. Acceptable(v, w) \/ Acceptable(w, v)
      BY <2>1, <2>4 DEF RevocationInv, OrderedInv
    <3>2. v.krlVersion = w.krlVersion /\ v.krlVersion \in Int
      BY <2>1, <2>4, RevocationConfig DEF Watermark
    <3>3. v = w
      <4> HIDE DEF v, w
      <4> QED
        BY <3>1, <3>2 DEF Acceptable
    <3> QED
      BY <3>3, SameMarkSameKids
  <2> QED
    BY <2>1, <2>2, <2>3, <2>4
<1> QED
  BY <1>1, InvariantHolds, PTL

(***************************************************************************)
(* As long as publishers only add kids and the store keeps what it was     *)
(* given, a key that an evaluation has found revoked is never let pass by  *)
(* one that begins later, whichever lists the provider serves it.          *)
(***************************************************************************)
THEOREM RevocationIsPermanent ==
  RevocationSpec => []RevokedStaysRevoked
<1>1. RevocationInv => RevokedStaysRevoked
  <2> SUFFICES ASSUME RevocationInv, KidsOnlyGrow, Persistent, NEW e \in Evaluations, NEW f \in Evaluations,
                      phase[e] = "REVOKED", e \in before[f], KeysOf[e] \subseteq KeysOf[f], phase[f] = "ok"
               PROVE  FALSE
    BY DEF RevokedStaysRevoked, Persistent
  <2>1. Revoked(e) /\ ~Revoked(f)
    BY DEF RevocationInv, VerdictInv, Judged
  <2>2. PICK key \in KeysOf[e], i \in Issuers :
          key.issuer \in KeyIssuersOf[i] /\ key.kid \in RevokedBy(evidence[e][i])
    BY <2>1 DEF Revoked
  <2> DEFINE v == evidence[e][i]
             w == evidence[f][i]
  <2>3. /\ v \in Krls /\ v.issuer = i /\ Genuine(v)
        /\ w \in Krls /\ w.issuer = i /\ Genuine(w)
    BY VerifiedIsGenuine DEF RevocationInv, EvidenceInv, Judged
  <2>4. Acceptable(Watermark(w), Watermark(v))
    <3>1. Acceptable(Watermark(w), floor[f][i]) /\ floor[f][i] \in Marks
      BY DEF RevocationInv, RevocationTypeInv, AcceptedInv, Accepted, Judged
    <3>2. Acceptable(floor[f][i], Watermark(v))
      BY DEF RevocationInv, BeganAfterInv, Judged
    <3> QED
      BY <2>3, <3>1, <3>2, MarksAreOrdered
  <2>5. RevokedBy(v) \subseteq RevokedBy(w)
    <3>1. CASE Watermark(w) = Watermark(v)
      BY <3>1, SameMarkSameKids
    <3>2. CASE Watermark(w) # Watermark(v)
      <4>1. v.krl_version.n < w.krl_version.n
        BY <2>3, <2>4, <3>2, RevocationConfig DEF Acceptable, Watermark
      <4> QED
        BY <2>3, <4>1 DEF KidsOnlyGrow
    <3> QED
      BY <3>1, <3>2
  <2>6. Revoked(f)
    BY <2>2, <2>5 DEF Revoked
  <2> QED
    BY <2>1, <2>6
<1> QED
  BY <1>1, InvariantHolds, PTL

(***************************************************************************)
(* HarnessesConfirmCore: of every list that is written portably the Go and *)
(* the Python verifier judge as verifySignedKrl does, whatever the key     *)
(* sets, the time and the earlier versions; the rules are written three    *)
(* times, in three orders, and meet in what Accepts and Blames say.        *)
(***************************************************************************)
THEOREM RevocationHarnessesConfirm ==
  RevocationSpec => []HarnessesConfirmCore
<1>1. RevocationInv => HarnessesConfirmCore
  BY ConfirmationIsSeen DEF RevocationInv, RevocationTypeInv
<1> QED
  BY <1>1, InvariantHolds, PTL

=============================================================================
