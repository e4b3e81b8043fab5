---------------------------- MODULE Revocation ----------------------------
(***************************************************************************)
(* Key revocation on the guard's delegation path                           *)
(* (packages/guard/src/revocation.ts): concurrent evaluations that fetch   *)
(* signed revocation lists (SignedKRLV1) from a provider, verify them, and *)
(* push their versions through a shared watermark store, one publisher     *)
(* after the other, before they look at what the lists revoke.             *)
(*                                                                         *)
(* The provider is external: it answers with any lists it ever saw, stale, *)
(* altered or forged ones included.  The clock is read once, before the    *)
(* first await (guard.ts passes it in).  Module SignedKrl gives the lists  *)
(* and their verification.                                                 *)
(***************************************************************************)
EXTENDS SignedKrl

CONSTANTS
  Scopes,         \* config.revocation.scopes: KRL issuers, in order
  KeyIssuersOf,   \* the key issuers each of them may revoke keys of
  Krls,           \* the lists in circulation
  KrlKeySets,     \* config.revocation.trustedKrlKeySets
  Evaluations,    \* calls of evaluateRevocation, each made once
  KeysOf,         \* the keys each call asks about, as [issuer, kid]
  Durable,        \* the watermark store survives a restart
  StoreFails,     \* the watermark store may fail or answer nonsense
  MaxTime, MaxCrashes

Issuers == {Scopes[k] : k \in DOMAIN Scopes}

ASSUME RevocationConfig ==
  /\ Scopes \in Seq(Issuers) /\ Len(Scopes) > 0
  /\ \A j, k \in DOMAIN Scopes : Scopes[j] = Scopes[k] => j = k
  /\ Len(KrlKeySets) > 0 /\ DOMAIN KrlKeySets = 1..Len(KrlKeySets)
  /\ \A s \in DOMAIN KrlKeySets :
       /\ Len(KrlKeySets[s].keys) > 0
       /\ \A k \in DOMAIN KrlKeySets[s].keys :
            {KrlKeySets[s].keys[k].not_before, KrlKeySets[s].keys[k].not_after} \subseteq Int
  /\ \A l \in Krls : l.krl_version.n \in Int
  /\ {Durable, StoreFails} \subseteq BOOLEAN
  /\ MaxTime \in Nat /\ MaxCrashes \in Nat

VARIABLES
  now, crashes,
  marks,      \* the watermark store: the watermark last accepted of each issuer
  phase,      \* where each evaluation is
  at,         \* the clock reading each evaluation works with
  evidence,   \* the list each evaluation holds of each issuer
  next,       \* the scope whose watermark is offered next
  floor,      \* history: the watermarks when the evaluation began
  before      \* history: the evaluations that had settled when it began

revocationVars == <<now, crashes, marks, phase, at, evidence, next, floor, before>>

NoList == [krl_version |-> Whole(-1)]
NoMark == [krlVersion |-> -1, digest |-> {}]

\* What is stored of a list: its version and the hash of its signing payload.
Watermark(l) == [krlVersion |-> l.krl_version.n, digest |-> {signedKrlSigningPayload(l)}]
Denied == {"UNAVAILABLE", "INVALID", "REVOKED"}
Settled == Denied \cup {"ok", "crashed"}

RevocationInit ==
  /\ now = 0 /\ crashes = 0
  /\ marks = [i \in Issuers |-> NoMark]
  /\ phase = [e \in Evaluations |-> "idle"]
  /\ at = [e \in Evaluations |-> 0]
  /\ evidence = [e \in Evaluations |-> [i \in Issuers |-> NoList]]
  /\ next = [e \in Evaluations |-> 1]
  /\ floor = [e \in Evaluations |-> [i \in Issuers |-> NoMark]]
  /\ before = [e \in Evaluations |-> {}]

Goto(e, label) == phase' = [phase EXCEPT ![e] = label]

----------------------------------------------------------------------------
Start(e) ==
  /\ phase[e] = "idle"
  /\ at' = [at EXCEPT ![e] = now]
  /\ floor' = [floor EXCEPT ![e] = marks]
  /\ before' = [before EXCEPT ![e] = {f \in Evaluations : phase[f] \in Settled}]
  /\ Goto(e, "provider")
  /\ UNCHANGED <<now, crashes, marks, evidence, next>>

\* The guard gives the verifier no earlier versions: its watermarks decide.
Verified(l, t) == verifySignedKrl(l, t, KrlKeySets, <<>>).status = "ok"

ListOf(lists, i) == {l \in lists : l.issuer = i}

(***************************************************************************)
(* What an answer of the provider leads to before any watermark is moved:  *)
(* one list for each configured issuer and no other, in the order of the   *)
(* scopes, and somebody in charge of every key's issuer.                   *)
(***************************************************************************)
ScopeDenial(lists, i, t) ==
  IF ListOf(lists, i) = {}
  THEN "UNAVAILABLE"
  ELSE IF \A l \in ListOf(lists, i) : Verified(l, t) THEN "none" ELSE "INVALID"

Covered(key) == \E i \in Issuers : key.issuer \in KeyIssuersOf[i]

EvidenceDenial(lists, t, keys) ==
  LET failing == {k \in DOMAIN Scopes : ScopeDenial(lists, Scopes[k], t) # "none"}
  IN IF \E l \in lists : l.issuer \notin Issuers \/ Cardinality(ListOf(lists, l.issuer)) > 1
     THEN "INVALID"
     ELSE IF failing # {}
     THEN ScopeDenial(lists, Scopes[CHOOSE k \in failing : \A j \in failing : k <= j], t)
     ELSE IF \E key \in keys : ~Covered(key) THEN "UNAVAILABLE" ELSE "none"

ProviderAnswers(e, lists) ==
  /\ phase[e] = "provider"
  /\ EvidenceDenial(lists, at[e], KeysOf[e]) = "none"
  /\ evidence' = [evidence EXCEPT ![e] =
                    [i \in Issuers |-> CHOOSE l \in ListOf(lists, i) : TRUE]]
  /\ Goto(e, "accept")
  /\ UNCHANGED <<now, crashes, marks, at, next, floor, before>>

ProviderRefused(e, lists) ==
  /\ phase[e] = "provider"
  /\ EvidenceDenial(lists, at[e], KeysOf[e]) # "none"
  /\ Goto(e, EvidenceDenial(lists, at[e], KeysOf[e]))
  /\ UNCHANGED <<now, crashes, marks, at, evidence, next, floor, before>>

ProviderFails(e) ==
  /\ phase[e] = "provider"
  /\ Goto(e, "UNAVAILABLE")
  /\ UNCHANGED <<now, crashes, marks, at, evidence, next, floor, before>>

----------------------------------------------------------------------------
(***************************************************************************)
(* The watermark store: never a lower version, never a second list of the  *)
(* same version.                                                           *)
(***************************************************************************)
\* Mutant: any list of the stored version is taken.
Acceptable_SameVersion(w, mark) == w.krlVersion >= mark.krlVersion

\* Mutant: whatever is signed and fresh is taken.
Acceptable_Always(w, mark) == TRUE

Acceptable(w, mark) == w.krlVersion > mark.krlVersion \/ w = mark

Offered(e) == Watermark(evidence[e][Scopes[next[e]]])

MoreScopes(e) == next[e] < Len(Scopes)

Mark(e) == marks' = [marks EXCEPT ![Scopes[next[e]]] = Offered(e)]

RevokedBy(l) == {l.revoked_kids[k] : k \in DOMAIN l.revoked_kids}

Revoked(e) ==
  \E key \in KeysOf[e], i \in Issuers :
    key.issuer \in KeyIssuersOf[i] /\ key.kid \in RevokedBy(evidence[e][i])

(***************************************************************************)
(* One accept, and after the last one the lists' verdict on the keys.      *)
(* What was accepted of earlier publishers stays accepted.                 *)
(***************************************************************************)
Accept(e) ==
  /\ phase[e] = "accept"
  /\ Acceptable(Offered(e), marks[Scopes[next[e]]])
  /\ Mark(e)
  /\ IF MoreScopes(e)
     THEN next' = [next EXCEPT ![e] = @ + 1] /\ UNCHANGED phase
     ELSE Goto(e, IF Revoked(e) THEN "REVOKED" ELSE "ok") /\ UNCHANGED next
  /\ UNCHANGED <<now, crashes, at, evidence, floor, before>>

AcceptRejected(e) ==
  /\ phase[e] = "accept"
  /\ ~Acceptable(Offered(e), marks[Scopes[next[e]]])
  /\ Goto(e, "INVALID")
  /\ UNCHANGED <<now, crashes, marks, at, evidence, next, floor, before>>

\* The store fails, with the watermark moved or not.
AcceptFails(e) ==
  /\ phase[e] = "accept" /\ StoreFails
  /\ \/ UNCHANGED marks
     \/ Acceptable(Offered(e), marks[Scopes[next[e]]]) /\ Mark(e)
  /\ Goto(e, "UNAVAILABLE")
  /\ UNCHANGED <<now, crashes, at, evidence, next, floor, before>>

----------------------------------------------------------------------------
Tick ==
  /\ now < MaxTime
  /\ now' = now + 1
  /\ UNCHANGED <<crashes, marks, phase, at, evidence, next, floor, before>>

Crash ==
  /\ crashes < MaxCrashes
  /\ crashes' = crashes + 1
  /\ phase' = [e \in Evaluations |-> IF phase[e] \in {"provider", "accept"} THEN "crashed" ELSE phase[e]]
  /\ marks' = IF Durable THEN marks ELSE [i \in Issuers |-> NoMark]
  /\ UNCHANGED <<now, at, evidence, next, floor, before>>

RevocationNext ==
  \/ \E e \in Evaluations :
       \/ Start(e) \/ ProviderFails(e) \/ Accept(e) \/ AcceptRejected(e) \/ AcceptFails(e)
       \/ \E lists \in SUBSET Krls : ProviderAnswers(e, lists) \/ ProviderRefused(e, lists)
  \/ Tick \/ Crash

RevocationSpec == RevocationInit /\ [][RevocationNext]_revocationVars

----------------------------------------------------------------------------
\* What is in the list is what a trusted key of its issuer signed.
Genuine(l) ==
  /\ l.signature.sig.domain = "OXDEAI_KRL_V1"
  /\ \E s \in DOMAIN KrlKeySets : \E k \in DOMAIN KrlKeySets[s].keys :
       KrlKeySets[s].issuer = l.issuer /\ KrlKeySets[s].keys[k].public_key = l.signature.sig.by
  /\ \A f \in {"issuer", "revoked_kids", "nonce"} : l.signature.sig.over[f] = l[f]
  /\ \A f \in {"krl_version", "not_after"} : l.signature.sig.over[f] = l[f].n

(***************************************************************************)
(* No key passes on stale evidence: every list behind a passed evaluation  *)
(* is its publisher's own, was valid at the time the guard read, and is at *)
(* least as new as what any evaluation had established before this one     *)
(* began, however the watermark updates of several publishers interleave;  *)
(* and no two passed evaluations rest on different lists of one version,   *)
(* so that a publisher that signs two is caught by the digest              *)
(* (evaluateRevocation, phases 1 to 4, and the watermark store).           *)
(***************************************************************************)
PassesOnlyOnCurrentEvidence ==
  \A e \in Evaluations : phase[e] = "ok" =>
    \A i \in Issuers :
      /\ evidence[e][i] \in Krls /\ evidence[e][i].issuer = i
      /\ Genuine(evidence[e][i]) /\ at[e] < evidence[e][i].not_after.n
      /\ (Durable \/ crashes = 0) =>
           /\ evidence[e][i].krl_version.n >= floor[e][i].krlVersion
           /\ \A f \in Evaluations :
                (phase[f] = "ok" /\ evidence[f][i].krl_version = evidence[e][i].krl_version)
                  => RevokedBy(evidence[f][i]) = RevokedBy(evidence[e][i])

(***************************************************************************)
(* One thing that happens to a list between its signing and a verifier.    *)
(***************************************************************************)
Altered(l) ==
  LET numbers == {Whole(-1), Whole(0), Whole(9)} \cup {Number(1, form) : form \in NumberForms}
      texts == {"", Absent, NotText, "other"}
  IN {l}
     \cup {[l EXCEPT ![f] = x] : f \in {"krl_version", "issued_at", "not_after"}, x \in numbers}
     \cup {[l EXCEPT ![f] = x] : f \in {"version", "issuer", "nonce"}, x \in texts}
     \cup {[l EXCEPT !.revoked_kids = x] : x \in {<<>>, <<NotText>>, <<"k", "k">>}}
     \cup {[l EXCEPT !.kids_array = FALSE], [l EXCEPT !.signature.object = FALSE],
           [l EXCEPT !.signature.sig.domain = "other"]}
     \cup {[l EXCEPT !.signature[f] = x] : f \in {"alg", "kid"}, x \in texts}
     \cup {[l EXCEPT !.signature.kid = k.signature.kid] : k \in Krls}
     \cup {[l EXCEPT !.signature.sig.enc = x] : x \in {"", Absent, "loose", "url", "junk"}}

(***************************************************************************)
(* The Go and the Python verifier confirm the core's: of every list in     *)
(* circulation, altered in up to two places, at every time and against     *)
(* every earlier version, and as long as it is written portably, the three *)
(* accept the same ones; a harness that refuses names one of the core's    *)
(* reasons; and a test vector made of a list for which the core has no     *)
(* more than one reason passes in both.  A verdict depends on the list and *)
(* the clock alone, so it is enough to look before the first evaluation.   *)
(* No key here has small order: such a key only the core refuses           *)
(* (signatures.ts:122-123).                                                *)
(***************************************************************************)
HarnessesConfirmCore ==
  (\A e \in Evaluations : phase[e] = "idle") =>
    \A k \in Krls : \A l \in {x \in UNION {Altered(m) : m \in Altered(k)} : Portable(x, KrlKeySets)} :
      \A prev \in {<<>>, [i \in {l.issuer} |-> 2]} :
        LET core == verifySignedKrl(l, now, KrlKeySets, prev)
            go == goVerifySignedKrl(l, now, KrlKeySets, prev)
            py == py_verify_signed_krl(l, now, KrlKeySets, prev)
        IN /\ core.status = go.status /\ core.status = py.status
           /\ \A h \in {go, py} : \A j \in DOMAIN h.violations :
                \E i \in DOMAIN core.violations : core.violations[i] = h.violations[j]
           /\ Len(core.violations) <= 1 => verifySignedKrlVectors(go, core) /\ pyMain(py, core)

(***************************************************************************)
(* If publishers only ever add kids as versions grow, a key found revoked  *)
(* stays revoked: no evaluation that begins afterwards lets it pass, even  *)
(* one whose provider serves an older list.                                *)
(***************************************************************************)
KidsOnlyGrow ==
  \A k, l \in Krls :
    (k.issuer = l.issuer /\ k.krl_version.n < l.krl_version.n /\ Genuine(k) /\ Genuine(l))
      => RevokedBy(k) \subseteq RevokedBy(l)

RevokedStaysRevoked ==
  (KidsOnlyGrow /\ (Durable \/ crashes = 0)) =>
    \A e, f \in Evaluations :
      (phase[e] = "REVOKED" /\ e \in before[f] /\ KeysOf[e] \subseteq KeysOf[f]) => phase[f] # "ok"

=============================================================================
