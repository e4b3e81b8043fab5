-------------------------- MODULE MCSecureGuard --------------------------
(* SecureGuard for TLC: two guards built from one configuration object.     *)
EXTENDS SecureGuard, TLC

CONSTANTS g1, g2, r1, r2, shared, partial, memory, broken

MCGuards == {g1, g2}
MCRequests == {r1, r2}
MCStores == {shared, partial, memory, broken}
MCKindOf == (shared :> "external") @@ (partial :> "no_delegations")
              @@ (memory :> "builtin") @@ (broken :> "broken")
Interchangeable == Permutations(MCRequests) \cup Permutations(MCGuards)

Plain ==
  [ tenancy |-> "single-tenant", mapActionToIntent |-> "default", onBoundaryEvent |-> TRUE,
    replayProtection |-> {}, replayStore |-> {}, strict |-> FALSE, signers |-> {},
    authorities |-> {{"root"}}, provider |-> {}, required |-> FALSE, revocation |-> {},
    unreadable |-> {}, malformed |-> {}, pollutes |-> {} ]

Posture(mode, store) == {[mode |-> mode, store |-> store]}

MCConfigs ==
  { Plain,
    [Plain EXCEPT !.replayProtection = Posture("shared", {shared}), !.signers = {{"lead"}},
                  !.provider = {"provider"}, !.required = TRUE],
    [Plain EXCEPT !.replayStore = {partial}, !.tenancy = "multi-tenant", !.revocation = {{"krl"}},
                  !.provider = {"provider"}, !.mapActionToIntent = "routes"],
    [Plain EXCEPT !.replayProtection = Posture("process-local", {}), !.strict = TRUE,
                  !.mapActionToIntent = "substitutes"],
    [Plain EXCEPT !.replayProtection = Posture("shared", {memory})],
    [Plain EXCEPT !.replayStore = {broken}, !.mapActionToIntent = "omits", !.onBoundaryEvent = FALSE],
    [Plain EXCEPT !.replayStore = {memory}, !.authorities = {}, !.required = TRUE],
    [Plain EXCEPT !.mapActionToIntent = "throws"],
    [Plain EXCEPT !.replayProtection = Posture("none", {}), !.tenancy = "undeclared",
                  !.pollutes = {"option"}, !.unreadable = {"provider"}] }
  \cup {[Plain EXCEPT !.malformed = {option}] :
           option \in {"engine", "strict", "signers", "provider", "required"}}

\* What a polluted Object.prototype would supply.
MCInjected ==
  [ replayProtection |-> {}, replayStore |-> {memory}, signers |-> {}, provider |-> {},
    authorities |-> {{"root", "stranger"}}, revocation |-> {} ]

MCKeySets == {{"k1"}, {"k1", "krl"}, {"k1", "alias"}, {"k2"}, {}}

None == [id |-> "none", auth |-> "none", issuer |-> "none", signer |-> "none",
         delegatee |-> "none", key |-> "k1", shape |-> "plain"]
D1 == [id |-> "d1", auth |-> "p1", issuer |-> "root", signer |-> "lead",
       delegatee |-> "alice", key |-> "k1", shape |-> "plain"]
MCDelegations ==
  { None, D1,
    [D1 EXCEPT !.id = "d2", !.auth = "p2", !.signer = "peer"],
    [D1 EXCEPT !.auth = "p2"],
    [D1 EXCEPT !.key = "krl"],
    [D1 EXCEPT !.issuer = "stranger"],
    [D1 EXCEPT !.shape = "accessor"], [D1 EXCEPT !.shape = "bad_scope"] }

Context == [branded |-> TRUE, agent_id |-> "alice", tool |-> Undefined, depth |-> "0",
            tenant_id |-> "acme"]
Act == [wellFormed |-> TRUE, claims |-> [f \in Fields |-> Undefined]]
Claiming(f, v) == [Act EXCEPT !.claims[f] = v]

Call == [context |-> Context, action |-> Act, delegation |-> None, auth |-> "a1"]
MCCalls ==
  { Call,
    [Call EXCEPT !.context.tool = "pay", !.action = Claiming("agent_id", "alice")],
    [Call EXCEPT !.context.tenant_id = Undefined, !.action = Claiming("tenant_id", "acme"), !.auth = "a2"],
    [Call EXCEPT !.action = Claiming("tenant_id", "other")],
    [Call EXCEPT !.context.agent_id = "bob", !.action.wellFormed = FALSE],
    [Call EXCEPT !.context.branded = FALSE],
    [Call EXCEPT !.context.depth = "-1"],
    [Call EXCEPT !.context.agent_id = "bob", !.delegation = D1] }
  \cup {[Call EXCEPT !.delegation = d, !.action = Claiming("depth", "0")] : d \in {e \in MCDelegations : e # None /\ e.shape = "plain"}}

============================================================================
