-------------------------- MODULE KeyStoreProofs --------------------------
(***************************************************************************)
(* Proofs about the Sift key store of module KeyStore, for any number of   *)
(* overlapping refreshes and receipts, any lists and any failures.         *)
(***************************************************************************)
EXTENDS KeyStore, TLAPS

----------------------------------------------------------------------------
(* The inductive invariant *)

Labels == {"idle", "check", "lookup", "recheck", "lookup_again"} \cup Refreshing \cup Settled

Versions == [Issuers -> Int]

Sources == {"signed", "unsigned_fallback", "unsigned_legacy"}

InForce == {Empty} \cup [krl : Krls, source : Sources, by : Calls, lkg : BOOLEAN]

TypeInv ==
  /\ krlMode \in Modes /\ kind \in Stores /\ verifyKrl \in BOOLEAN
  /\ now \in Nat /\ crashes \in Nat
  /\ active \in InForce /\ versions \in Versions
  /\ status \in [integrity : Sources \cup {"none", "failed"}, unsigned : BOOLEAN, lkg : BOOLEAN]
  /\ marks \in Versions /\ tmp \in Versions /\ cache \in Krls \cup {NoList}
  /\ pc \in [Calls -> Labels]
  /\ job \in [Calls -> [at : Nat, keys : KeySets \cup {{}}, krl : Krls \cup {NoList},
                        listed : Versions, seen : InForce]]
  /\ floor \in [Calls -> Versions]

AtMost(v, w) == \A i \in Issuers : v[i] <= w[i]

Recorded(l) == Persistent => l.version <= marks[l.issuer]

\* What is on record is at least what any call has seen of it.
RecordInv ==
  /\ AtMost(NoMarks, marks) /\ (~Persistent => marks = NoMarks)
  /\ Persistent => AtMost(versions, marks)
  /\ cache # NoList => cache.form = "signed" /\ Recorded(cache)
  /\ \A c \in Calls : AtMost(job[c].listed, marks) /\ AtMost(floor[c], marks)

Persisting == {"persist", "open", "write", "rename", "swap"}

\* What a call knows at each of its awaits.
CallInv(c) ==
  /\ pc[c] \in {"idle", "check", "lookup"} => job[c].krl = NoList
  /\ pc[c] \in {"list", "verify", "fallback_verify", "cache"} \cup Persisting => job[c].krl \in Krls
  /\ pc[c] = "verify" /\ Persistent /\ krlMode # "unsigned_legacy" => AtMost(floor[c], job[c].listed)
  /\ pc[c] \in Persisting => Persistent
  /\ pc[c] \in Persisting \cup {"cache"} =>
       /\ job[c].krl.form = "signed" /\ job[c].at < job[c].krl.not_after
       /\ job[c].krl.version >= floor[c][job[c].krl.issuer]
  /\ pc[c] \in {"swap", "cache", "fallback_verify"} => Recorded(job[c].krl)
  /\ pc[c] \in {"cache", "recheck"} => active # Empty
  /\ pc[c] \in {"lookup_again", "accepted"} /\ job[c].krl # NoList =>
       /\ job[c].seen # Empty /\ KidOf[c] \notin job[c].seen.krl.revoked
       /\ krlMode = "signed_required" => job[c].seen.source = "signed"

\* The file-backed store has a single writer, and nobody moves the record
\* between that writer's reading it and renaming over it, nor the versions
\* in memory between its merging them and using them.
SingleWriter ==
  kind = "file" => \A c, d \in Calls : pc[c] \in Refreshing /\ pc[d] \in Refreshing => c = d

WriterInv(c) ==
  /\ pc[c] \in {"open", "write", "rename"} => kind = "file"
  /\ kind = "file" =>
       /\ pc[c] \in {"open", "write", "rename"} => job[c].listed = marks
       /\ pc[c] = "rename" => tmp = Raised(c, marks)
       /\ pc[c] = "fallback_get" => AtMost(floor[c], job[c].listed)
       /\ pc[c] = "fallback_verify" => AtMost(floor[c], versions)

\* Where a call is that has put a list in force.
Installed == {"cache", "recheck", "lookup_again"} \cup Settled

\* The list in force, and the call that put it there.
ActiveInv ==
  /\ active # Empty => pc[active.by] \in Installed
  /\ InForceAsReported
  /\ active.source = "signed" =>
       Recorded(active.krl) /\ active.krl.version <= versions[active.krl.issuer]

Inv ==
  /\ TypeInv /\ RecordInv /\ (\A c \in Calls : CallInv(c))
  /\ SingleWriter /\ (\A c \in Calls : WriterInv(c)) /\ ActiveInv

----------------------------------------------------------------------------
(* Operators *)

(***************************************************************************)
(* No list that is served is the absent one, and nothing in force has the  *)
(* source of nothing.                                                      *)
(***************************************************************************)
LEMMA Constants ==
  /\ NoList \notin Krls /\ NoMarks \in Versions /\ NoFile \in Versions /\ Torn \in Versions
  /\ \A l \in Krls : l.issuer \in Issuers /\ l.version \in Nat
  /\ \A a \in InForce : a = Empty <=> a.source = "none"
  /\ \A a \in InForce \ {Empty} : a.krl \in Krls /\ a.by \in Calls
  /\ Idle \in [at : Nat, keys : KeySets \cup {{}}, krl : Krls \cup {NoList}, listed : Versions, seen : InForce]
<1>1. /\ NoList \notin Krls /\ NoMarks \in Versions /\ NoFile \in Versions /\ Torn \in Versions
      /\ \A l \in Krls : l.issuer \in Issuers /\ l.version \in Nat
  BY KeyStoreConfig DEF NoList, NoMarks, NoVersion, NoFile, Torn, Versions
<1>2. /\ \A a \in InForce : a = Empty <=> a.source = "none"
      /\ \A a \in InForce \ {Empty} : a.krl \in Krls /\ a.by \in Calls
  BY DEF InForce, Empty, Sources
<1>3. Empty \in InForce
  BY DEF InForce
<1> QED
  BY <1>1, <1>2, <1>3 DEF Idle

(***************************************************************************)
(* The merged watermarks cover both parts and never exceed the record.     *)
(***************************************************************************)
LEMMA Merged ==
  ASSUME TypeInv, RecordInv, NEW c \in Calls
  PROVE  /\ mergeWatermarks(c) \in Versions
         /\ AtMost(job[c].listed, mergeWatermarks(c)) /\ AtMost(versions, mergeWatermarks(c))
         /\ Persistent => AtMost(mergeWatermarks(c), marks)
<1>1. versions \in Versions /\ job[c].listed \in Versions /\ marks \in Versions
  BY DEF TypeInv
<1>2. AtMost(job[c].listed, marks) /\ (Persistent => AtMost(versions, marks))
  BY DEF RecordInv
<1> QED
  BY <1>1, <1>2 DEF mergeWatermarks, Max2, AtMost, Versions

(***************************************************************************)
(* What a list was accepted for.                                           *)
(***************************************************************************)
LEMMA Verdicts ==
  ASSUME NEW l, NEW t, NEW previous
  PROVE  /\ processKrlForMode(l, t, previous) \in Sources \cup {"failed"}
         /\ krlMode = "signed_required" => processKrlForMode(l, t, previous) \in {"signed", "failed"}
         /\ processKrlForMode(l, t, previous) = "signed" =>
              /\ l.form = "signed" /\ t < l.not_after /\ l.version >= previous[l.issuer]
              /\ krlMode # "unsigned_legacy"
         /\ runVerifyKrl(l, t, previous) \in {"signed", "failed"}
         /\ runVerifyKrl(l, t, previous) = "signed" =>
              l.form = "signed" /\ t < l.not_after /\ l.version >= previous[l.issuer]
<1> DEFINE run == runVerifyKrl(l, t, previous)
           verdict == processKrlForMode(l, t, previous)
<1>1. /\ run \in {"signed", "failed"}
      /\ run = "signed" => l.form = "signed" /\ t < l.not_after /\ l.version >= previous[l.issuer]
  BY DEF runVerifyKrl
<1> HIDE DEF run
<1>2. verdict = IF l.form = "malformed" THEN "failed"
                ELSE IF krlMode = "unsigned_legacy" THEN "unsigned_legacy"
                ELSE IF l.form \in {"signed", "forged"} THEN run
                ELSE IF krlMode = "signed_required" THEN "failed" ELSE "unsigned_fallback"
  BY DEF processKrlForMode, run
<1> HIDE DEF verdict
<1>3. /\ verdict \in Sources \cup {"failed"}
      /\ krlMode = "signed_required" => verdict \in {"signed", "failed"}
      /\ verdict = "signed" => run = "signed" /\ krlMode # "unsigned_legacy"
  BY <1>1, <1>2 DEF Sources
<1> QED
  BY <1>1, <1>3 DEF run, verdict

(***************************************************************************)
(* Raising a watermark.                                                    *)
(***************************************************************************)
LEMMA Raising ==
  ASSUME NEW c, NEW old \in Versions, job[c].krl \in Krls
  PROVE  /\ Raised(c, old) \in Versions /\ AtMost(old, Raised(c, old))
         /\ job[c].krl.version <= Raised(c, old)[job[c].krl.issuer]
  BY Constants DEF Raised, Max2, AtMost, Versions

LEMMA AtMostTransitive ==
  ASSUME NEW u \in Versions, NEW v \in Versions, NEW w \in Versions, AtMost(u, v), AtMost(v, w)
  PROVE  AtMost(u, w)
  BY DEF AtMost, Versions

----------------------------------------------------------------------------
(* The steps *)

(***************************************************************************)
(* A step of one call that leaves the list in force alone keeps what is    *)
(* known of the other calls and of the list.                               *)
(***************************************************************************)
LEMMA QuietInv ==
  ASSUME Inv, NEW x \in Calls, TypeInv', UNCHANGED <<config, active, cache>>,
         \A d \in Calls \ {x} : pc'[d] = pc[d] /\ job'[d] = job[d] /\ floor'[d] = floor[d],
         AtMost(marks, marks'), ~Persistent => marks' = marks,
         AtMost(versions, versions'), Persistent => AtMost(versions', marks'),
         AtMost(job'[x].listed, marks'), AtMost(floor'[x], marks'),
         pc'[x] \in Refreshing => pc[x] \in Refreshing \/ MayRefresh,
         UNCHANGED <<versions, marks, tmp>> \/ pc[x] \in Refreshing,
         status'.integrity \in {"failed", status.integrity},
         status'.unsigned => status.unsigned, status'.lkg => status.lkg,
         pc[x] \in Installed => pc'[x] \in Installed /\ job'[x].at = job[x].at /\ floor'[x] = floor[x],
         CallInv(x)', WriterInv(x)'
  PROVE  Inv'
<1> USE DEF config
<1>0. TypeInv /\ RecordInv /\ ActiveInv
  BY DEF Inv
<1>1. /\ marks \in Versions /\ marks' \in Versions /\ NoMarks \in Versions
      /\ \A d \in Calls : job[d].listed \in Versions /\ floor[d] \in Versions
  BY <1>0, Constants DEF TypeInv
<1>2. \A v \in Versions : AtMost(v, marks) => AtMost(v, marks')
  BY <1>1, AtMostTransitive
<1>3. \A l \in Krls : Recorded(l) => Recorded(l)'
  BY <1>1, Constants DEF Recorded, Persistent, AtMost, Versions
<1>4. RecordInv'
  <2>1. cache' # NoList => cache'.form = "signed" /\ Recorded(cache)'
    BY <1>0, <1>3 DEF TypeInv, RecordInv, Recorded
  <2>2. \A d \in Calls : AtMost(job'[d].listed, marks') /\ AtMost(floor'[d], marks')
    BY <1>0, <1>1, <1>2 DEF RecordInv
  <2> QED
    BY <1>0, <1>1, <1>2, <2>1, <2>2 DEF RecordInv, Persistent
<1>5. \A d \in Calls : CallInv(d)'
  <2> SUFFICES ASSUME NEW d \in Calls \ {x} PROVE CallInv(d)'
    OBVIOUS
  <2>1. CallInv(d) /\ pc'[d] = pc[d] /\ job'[d] = job[d] /\ floor'[d] = floor[d]
    BY DEF Inv
  <2>2. pc[d] \in {"swap", "cache", "fallback_verify"} => job[d].krl \in Krls /\ Recorded(job[d].krl)'
    BY <2>1, <1>3 DEF CallInv, Persisting
  <2> QED
    BY <2>1, <2>2 DEF CallInv, Persistent, Recorded
<1>6. \A d \in Calls \ {x} : kind = "file" /\ pc[x] \in Refreshing => pc[d] \notin Refreshing
  BY DEF Inv, SingleWriter
<1>7. SingleWriter'
  BY <1>6 DEF Inv, SingleWriter, MayRefresh
<1>8. \A d \in Calls : WriterInv(d)'
  <2> SUFFICES ASSUME NEW d \in Calls \ {x} PROVE WriterInv(d)'
    OBVIOUS
  <2>1. WriterInv(d) /\ pc'[d] = pc[d] /\ job'[d] = job[d] /\ floor'[d] = floor[d]
    BY DEF Inv
  <2>2. {"open", "write", "rename", "fallback_get", "fallback_verify"} \subseteq Refreshing
    BY DEF Refreshing
  <2>3. CASE kind = "file" /\ pc[x] \in Refreshing
    BY <1>6, <2>1, <2>2, <2>3 DEF WriterInv
  <2>4. CASE kind # "file"
    BY <2>1, <2>4 DEF WriterInv
  <2>5. CASE UNCHANGED <<versions, marks, tmp>>
    BY <2>1, <2>5 DEF WriterInv, Raised
  <2> QED
    BY <2>3, <2>4, <2>5
<1>9. ActiveInv'
  <2>1. active # Empty => /\ active.by \in Calls /\ active.krl \in Krls
                          /\ pc'[active.by] \in Installed
                          /\ job'[active.by].at = job[active.by].at /\ floor'[active.by] = floor[active.by]
    BY <1>0, Constants DEF TypeInv, ActiveInv
  <2>2. active.source = "signed" => active # Empty /\ Recorded(active.krl)'
    BY <1>0, <1>3, <2>1, Constants DEF TypeInv, ActiveInv
  <2>4. active.source = "signed" => active.krl.version <= versions'[active.krl.issuer]
    BY <1>0, <2>1, <2>2, Constants DEF TypeInv, ActiveInv, AtMost, Versions
  <2>3. InForceAsReported'
    BY <1>0, <2>1, <2>2 DEF ActiveInv, InForceAsReported, getKrlStatus
  <2> QED
    BY <2>1, <2>2, <2>3, <2>4 DEF ActiveInv, Recorded, Persistent
<1> QED
  BY <1>4, <1>5, <1>7, <1>8, <1>9 DEF Inv

----------------------------------------------------------------------------
(* The calls' steps that leave the list in force alone *)

(***************************************************************************)
(* A call begins: what is on record then is the floor it is held to.       *)
(***************************************************************************)
LEMMA BeginInv ==
  ASSUME Inv, NEW x \in Calls, Begin(x)
  PROVE  Inv'
<1> USE DEF Begin, Receipt, Set, Goto, config, memory, disk
<1>0. TypeInv /\ RecordInv /\ ActiveInv /\ CallInv(x) /\ WriterInv(x)
  BY DEF Inv
<1>j. /\ job' = job \/ job' = [job EXCEPT ![x].at = now]
      /\ \A d \in Calls : job'[d].listed = job[d].listed
  BY <1>0 DEF TypeInv
<1>1. TypeInv'
  <2>1. pc' \in [Calls -> Labels]
    BY <1>0 DEF TypeInv, Labels, Refreshing, Settled
  <2>2. job' \in [Calls -> [at : Nat, keys : KeySets \cup {{}}, krl : Krls \cup {NoList}, listed : Versions, seen : InForce]]
    <3> HIDE DEF Begin
    <3> QED
      BY <1>0, <1>j DEF TypeInv
  <2> QED
    BY <1>0, <2>1, <2>2 DEF TypeInv
<1>2. \A d \in Calls \ {x} : pc'[d] = pc[d] /\ job'[d] = job[d] /\ floor'[d] = floor[d]
  BY <1>0 DEF TypeInv
<1>3. CallInv(x)'
  BY <1>0, Constants DEF TypeInv, CallInv, ActiveInv, InForceAsReported, Persisting, Recorded, Persistent
<1>4. WriterInv(x)'
  BY <1>0 DEF TypeInv, WriterInv, Raised
<1>5. /\ AtMost(marks, marks') /\ AtMost(job'[x].listed, marks') /\ AtMost(floor'[x], marks')
      /\ AtMost(versions, versions') /\ (Persistent => AtMost(versions', marks'))
  BY <1>0, <1>j DEF TypeInv, RecordInv, AtMost, Versions
<1>6. /\ pc'[x] \in Refreshing => pc[x] \in Refreshing \/ MayRefresh
      /\ UNCHANGED <<versions, marks, tmp>> \/ pc[x] \in Refreshing
      /\ pc[x] \in Installed => pc'[x] \in Installed /\ job'[x].at = job[x].at /\ floor'[x] = floor[x]
  BY <1>0 DEF TypeInv, Refreshing, Settled, Installed
<1>7. /\ status'.integrity \in {"failed", status.integrity}
      /\ (status'.unsigned => status.unsigned) /\ (status'.lkg => status.lkg)
  BY <1>0 DEF TypeInv
<1> QED
  BY <1>1, <1>2, <1>3, <1>4, <1>5, <1>6, <1>7, QuietInv

(***************************************************************************)
(* The first look at the list.                                             *)
(***************************************************************************)
LEMMA CheckRevokedInv ==
  ASSUME Inv, NEW x \in Calls, CheckRevoked(x)
  PROVE  Inv'
<1> USE DEF CheckRevoked, isKidRevoked, Set, Goto, config, memory, disk
<1>0. TypeInv /\ RecordInv /\ ActiveInv /\ CallInv(x) /\ WriterInv(x)
  BY DEF Inv
<1>1. TypeInv'
  BY <1>0, Constants, Raising DEF TypeInv, CallInv, Labels, Refreshing, Settled, Persisting
<1>2. \A d \in Calls \ {x} : pc'[d] = pc[d] /\ job'[d] = job[d] /\ floor'[d] = floor[d]
  BY <1>0 DEF TypeInv
<1>3. CallInv(x)'
  BY <1>0, Constants DEF TypeInv, CallInv, ActiveInv, InForceAsReported, Persisting, Recorded, Persistent
<1>4. WriterInv(x)'
  BY <1>0 DEF TypeInv, WriterInv, Raised
<1>5. /\ AtMost(marks, marks') /\ AtMost(job'[x].listed, marks') /\ AtMost(floor'[x], marks')
      /\ AtMost(versions, versions') /\ (Persistent => AtMost(versions', marks'))
  BY <1>0 DEF TypeInv, RecordInv, AtMost, Versions
<1>6. /\ pc'[x] \in Refreshing => pc[x] \in Refreshing \/ MayRefresh
      /\ UNCHANGED <<versions, marks, tmp>> \/ pc[x] \in Refreshing
      /\ pc[x] \in Installed => pc'[x] \in Installed /\ job'[x].at = job[x].at /\ floor'[x] = floor[x]
  BY <1>0 DEF TypeInv, Refreshing, Settled, Installed
<1>7. /\ status'.integrity \in {"failed", status.integrity}
      /\ (status'.unsigned => status.unsigned) /\ (status'.lkg => status.lkg)
  BY <1>0 DEF TypeInv
<1> QED
  BY <1>1, <1>2, <1>3, <1>4, <1>5, <1>6, <1>7, QuietInv

(***************************************************************************)
(* The look at the list after a refresh: there is one in force.            *)
(***************************************************************************)
LEMMA RecheckRevokedInv ==
  ASSUME Inv, NEW x \in Calls, RecheckRevoked(x)
  PROVE  Inv'
<1> USE DEF RecheckRevoked, isKidRevoked, Set, Goto, config, memory, disk
<1>0. TypeInv /\ RecordInv /\ ActiveInv /\ CallInv(x) /\ WriterInv(x)
  BY DEF Inv
<1>1. TypeInv'
  BY <1>0, Constants, Raising, SMTT(60) DEF TypeInv, CallInv, Labels, Refreshing, Settled, Persisting
<1>2. \A d \in Calls \ {x} : pc'[d] = pc[d] /\ job'[d] = job[d] /\ floor'[d] = floor[d]
  BY <1>0 DEF TypeInv
<1>3. CallInv(x)'
  BY <1>0, Constants DEF TypeInv, CallInv, ActiveInv, InForceAsReported, Persisting, Recorded, Persistent
<1>4. WriterInv(x)'
  BY <1>0 DEF TypeInv, WriterInv, Raised
<1>5. /\ AtMost(marks, marks') /\ AtMost(job'[x].listed, marks') /\ AtMost(floor'[x], marks')
      /\ AtMost(versions, versions') /\ (Persistent => AtMost(versions', marks'))
  BY <1>0 DEF TypeInv, RecordInv, AtMost, Versions
<1>6. /\ pc'[x] \in Refreshing => pc[x] \in Refreshing \/ MayRefresh
      /\ UNCHANGED <<versions, marks, tmp>> \/ pc[x] \in Refreshing
      /\ pc[x] \in Installed => pc'[x] \in Installed /\ job'[x].at = job[x].at /\ floor'[x] = floor[x]
  BY <1>0 DEF TypeInv, Refreshing, Settled, Installed
<1>7. /\ status'.integrity \in {"failed", status.integrity}
      /\ (status'.unsigned => status.unsigned) /\ (status'.lkg => status.lkg)
  BY <1>0 DEF TypeInv
<1> QED
  BY <1>1, <1>2, <1>3, <1>4, <1>5, <1>6, <1>7, QuietInv

(***************************************************************************)
(* A key is found, or a refresh begins.                                    *)
(***************************************************************************)
LEMMA LookupInv ==
  ASSUME Inv, NEW x \in Calls, Lookup(x)
  PROVE  Inv'
<1> USE DEF Lookup, Set, Goto, config, memory, disk
<1>0. TypeInv /\ RecordInv /\ ActiveInv /\ CallInv(x) /\ WriterInv(x)
  BY DEF Inv
<1>j. /\ job' = job \/ job' = [job EXCEPT ![x].at = now]
      /\ \A d \in Calls : job'[d].listed = job[d].listed
  BY <1>0 DEF TypeInv
<1>1. TypeInv'
  <2>1. pc' \in [Calls -> Labels]
    BY <1>0 DEF TypeInv, Labels, Refreshing, Settled
  <2>2. job' \in [Calls -> [at : Nat, keys : KeySets \cup {{}}, krl : Krls \cup {NoList}, listed : Versions, seen : InForce]]
    <3> HIDE DEF Lookup
    <3> QED
      BY <1>0, <1>j DEF TypeInv
  <2> QED
    BY <1>0, <2>1, <2>2 DEF TypeInv
<1>2. \A d \in Calls \ {x} : pc'[d] = pc[d] /\ job'[d] = job[d] /\ floor'[d] = floor[d]
  BY <1>0 DEF TypeInv
<1>3. CallInv(x)'
  BY <1>0, Constants DEF TypeInv, CallInv, ActiveInv, InForceAsReported, Persisting, Recorded, Persistent
<1>4. WriterInv(x)'
  BY <1>0 DEF TypeInv, WriterInv, Raised
<1>5. /\ AtMost(marks, marks') /\ AtMost(job'[x].listed, marks') /\ AtMost(floor'[x], marks')
      /\ AtMost(versions, versions') /\ (Persistent => AtMost(versions', marks'))
  BY <1>0, <1>j DEF TypeInv, RecordInv, AtMost, Versions
<1>6. /\ pc'[x] \in Refreshing => pc[x] \in Refreshing \/ MayRefresh
      /\ UNCHANGED <<versions, marks, tmp>> \/ pc[x] \in Refreshing
      /\ pc[x] \in Installed => pc'[x] \in Installed /\ job'[x].at = job[x].at /\ floor'[x] = floor[x]
  BY <1>0 DEF TypeInv, Refreshing, Settled, Installed
<1>7. /\ status'.integrity \in {"failed", status.integrity}
      /\ (status'.unsigned => status.unsigned) /\ (status'.lkg => status.lkg)
  BY <1>0 DEF TypeInv
<1> QED
  BY <1>1, <1>2, <1>3, <1>4, <1>5, <1>6, <1>7, QuietInv

(***************************************************************************)
(* The key is looked up in the refreshed set.                              *)
(***************************************************************************)
LEMMA LookupAgainInv ==
  ASSUME Inv, NEW x \in Calls, LookupAgain(x)
  PROVE  Inv'
<1> USE DEF LookupAgain, Goto, config, memory, disk
<1>0. TypeInv /\ RecordInv /\ ActiveInv /\ CallInv(x) /\ WriterInv(x)
  BY DEF Inv
<1>1. TypeInv'
  BY <1>0, Constants, Raising DEF TypeInv, CallInv, Labels, Refreshing, Settled, Persisting
<1>2. \A d \in Calls \ {x} : pc'[d] = pc[d] /\ job'[d] = job[d] /\ floor'[d] = floor[d]
  BY <1>0 DEF TypeInv
<1>3. CallInv(x)'
  BY <1>0, Constants DEF TypeInv, CallInv, ActiveInv, InForceAsReported, Persisting, Recorded, Persistent
<1>4. WriterInv(x)'
  BY <1>0 DEF TypeInv, WriterInv, Raised
<1>5. /\ AtMost(marks, marks') /\ AtMost(job'[x].listed, marks') /\ AtMost(floor'[x], marks')
      /\ AtMost(versions, versions') /\ (Persistent => AtMost(versions', marks'))
  BY <1>0 DEF TypeInv, RecordInv, AtMost, Versions
<1>6. /\ pc'[x] \in Refreshing => pc[x] \in Refreshing \/ MayRefresh
      /\ UNCHANGED <<versions, marks, tmp>> \/ pc[x] \in Refreshing
      /\ pc[x] \in Installed => pc'[x] \in Installed /\ job'[x].at = job[x].at /\ floor'[x] = floor[x]
  BY <1>0 DEF TypeInv, Refreshing, Settled, Installed
<1>7. /\ status'.integrity \in {"failed", status.integrity}
      /\ (status'.unsigned => status.unsigned) /\ (status'.lkg => status.lkg)
  BY <1>0 DEF TypeInv
<1> QED
  BY <1>1, <1>2, <1>3, <1>4, <1>5, <1>6, <1>7, QuietInv

(***************************************************************************)
(* Keys and a list are fetched.                                            *)
(***************************************************************************)
LEMMA FetchInv ==
  ASSUME Inv, NEW x \in Calls, NEW keys \in KeySets, NEW krl \in Krls, Fetch(x, keys, krl)
  PROVE  Inv'
<1> USE DEF Fetch, Goto, config, memory, disk
<1>0. TypeInv /\ RecordInv /\ ActiveInv /\ CallInv(x) /\ WriterInv(x)
  BY DEF Inv
<1>1. TypeInv'
  BY <1>0, Constants, Raising, ZenonT(60) DEF TypeInv, CallInv, Labels, Refreshing, Settled, Persisting
<1>2. \A d \in Calls \ {x} : pc'[d] = pc[d] /\ job'[d] = job[d] /\ floor'[d] = floor[d]
  BY <1>0 DEF TypeInv
<1>3. CallInv(x)'
  BY <1>0, Constants DEF TypeInv, CallInv, ActiveInv, InForceAsReported, Persisting, Recorded, Persistent
<1>4. WriterInv(x)'
  BY <1>0 DEF TypeInv, WriterInv, Raised
<1>5. /\ AtMost(marks, marks') /\ AtMost(job'[x].listed, marks') /\ AtMost(floor'[x], marks')
      /\ AtMost(versions, versions') /\ (Persistent => AtMost(versions', marks'))
  BY <1>0 DEF TypeInv, RecordInv, AtMost, Versions
<1>6. /\ pc'[x] \in Refreshing => pc[x] \in Refreshing \/ MayRefresh
      /\ UNCHANGED <<versions, marks, tmp>> \/ pc[x] \in Refreshing
      /\ pc[x] \in Installed => pc'[x] \in Installed /\ job'[x].at = job[x].at /\ floor'[x] = floor[x]
  BY <1>0 DEF TypeInv, Refreshing, Settled, Installed
<1>7. /\ status'.integrity \in {"failed", status.integrity}
      /\ (status'.unsigned => status.unsigned) /\ (status'.lkg => status.lkg)
  BY <1>0 DEF TypeInv
<1> QED
  BY <1>1, <1>2, <1>3, <1>4, <1>5, <1>6, <1>7, QuietInv

(***************************************************************************)
(* The record is read before a fetched list is verified.                   *)
(***************************************************************************)
LEMMA ListInv ==
  ASSUME Inv, NEW x \in Calls, List(x, "list", "verify")
  PROVE  Inv'
<1> USE DEF List, Set, Goto, config, memory, disk
<1>0. TypeInv /\ RecordInv /\ ActiveInv /\ CallInv(x) /\ WriterInv(x)
  BY DEF Inv
<1>1. TypeInv'
  BY <1>0, Constants, Raising DEF TypeInv, CallInv, Labels, Refreshing, Settled, Persisting
<1>2. \A d \in Calls \ {x} : pc'[d] = pc[d] /\ job'[d] = job[d] /\ floor'[d] = floor[d]
  BY <1>0 DEF TypeInv
<1>3. CallInv(x)'
  BY <1>0, Constants DEF TypeInv, RecordInv, CallInv, ActiveInv, InForceAsReported, Persisting, Recorded, Persistent
<1>4. WriterInv(x)'
  BY <1>0 DEF TypeInv, RecordInv, WriterInv, Raised
<1>5. /\ AtMost(marks, marks') /\ AtMost(job'[x].listed, marks') /\ AtMost(floor'[x], marks')
      /\ AtMost(versions, versions') /\ (Persistent => AtMost(versions', marks'))
  BY <1>0 DEF TypeInv, RecordInv, AtMost, Versions
<1>6. /\ pc'[x] \in Refreshing => pc[x] \in Refreshing \/ MayRefresh
      /\ UNCHANGED <<versions, marks, tmp>> \/ pc[x] \in Refreshing
      /\ pc[x] \in Installed => pc'[x] \in Installed /\ job'[x].at = job[x].at /\ floor'[x] = floor[x]
  BY <1>0 DEF TypeInv, Refreshing, Settled, Installed
<1>7. /\ status'.integrity \in {"failed", status.integrity}
      /\ (status'.unsigned => status.unsigned) /\ (status'.lkg => status.lkg)
  BY <1>0 DEF TypeInv
<1> QED
  BY <1>1, <1>2, <1>3, <1>4, <1>5, <1>6, <1>7, QuietInv

(***************************************************************************)
(* The record is read before the cached list is.                           *)
(***************************************************************************)
LEMMA FallbackListInv ==
  ASSUME Inv, NEW x \in Calls, List(x, "fallback", "fallback_get")
  PROVE  Inv'
<1> USE DEF List, Set, Goto, config, memory, disk
<1>0. TypeInv /\ RecordInv /\ ActiveInv /\ CallInv(x) /\ WriterInv(x)
  BY DEF Inv
<1>1. TypeInv'
  BY <1>0, Constants, Raising, SMTT(60) DEF TypeInv, CallInv, Labels, Refreshing, Settled, Persisting
<1>2. \A d \in Calls \ {x} : pc'[d] = pc[d] /\ job'[d] = job[d] /\ floor'[d] = floor[d]
  BY <1>0 DEF TypeInv
<1>3. CallInv(x)'
  BY <1>0, Constants DEF TypeInv, RecordInv, CallInv, ActiveInv, InForceAsReported, Persisting, Recorded, Persistent
<1>4. WriterInv(x)'
  BY <1>0 DEF TypeInv, RecordInv, WriterInv, Raised
<1>5. /\ AtMost(marks, marks') /\ AtMost(job'[x].listed, marks') /\ AtMost(floor'[x], marks')
      /\ AtMost(versions, versions') /\ (Persistent => AtMost(versions', marks'))
  BY <1>0 DEF TypeInv, RecordInv, AtMost, Versions
<1>6. /\ pc'[x] \in Refreshing => pc[x] \in Refreshing \/ MayRefresh
      /\ UNCHANGED <<versions, marks, tmp>> \/ pc[x] \in Refreshing
      /\ pc[x] \in Installed => pc'[x] \in Installed /\ job'[x].at = job[x].at /\ floor'[x] = floor[x]
  BY <1>0 DEF TypeInv, Refreshing, Settled, Installed
<1>7. /\ status'.integrity \in {"failed", status.integrity}
      /\ (status'.unsigned => status.unsigned) /\ (status'.lkg => status.lkg)
  BY <1>0 DEF TypeInv
<1> QED
  BY <1>1, <1>2, <1>3, <1>4, <1>5, <1>6, <1>7, QuietInv

(***************************************************************************)
(* A fetched list verifies against the merged record and is to be          *)
(* recorded.                                                               *)
(***************************************************************************)
LEMMA VerifyMarksInv ==
  ASSUME Inv, NEW x \in Calls, Verify(x), NeedsMark(Verdict(x))
  PROVE  Inv'
<1> USE DEF Verify, Goto, config, memory, disk
<1>0. TypeInv /\ RecordInv /\ ActiveInv /\ CallInv(x) /\ WriterInv(x)
  BY DEF Inv
<1>m. /\ versions' = mergeWatermarks(x) /\ versions' \in Versions
      /\ AtMost(job[x].listed, versions') /\ AtMost(versions, versions')
      /\ Persistent => AtMost(versions', marks)
  BY <1>0, Merged
<1>1. TypeInv'
  BY <1>0, <1>m, Constants, Raising DEF TypeInv, CallInv, Labels, Refreshing, Settled, Persisting
<1>2. \A d \in Calls \ {x} : pc'[d] = pc[d] /\ job'[d] = job[d] /\ floor'[d] = floor[d]
  BY <1>0 DEF TypeInv
<1>3. CallInv(x)'
  <2>1. pc'[x] = "persist" /\ job' = job /\ floor' = floor /\ Persistent
    BY <1>0 DEF TypeInv, NeedsMark
  <2>2. job[x].krl \in Krls /\ floor[x] \in Versions /\ job[x].listed \in Versions
    BY <1>0 DEF TypeInv, CallInv
  <2>3. /\ job[x].krl.form = "signed" /\ job[x].at < job[x].krl.not_after
        /\ job[x].krl.version >= mergeWatermarks(x)[job[x].krl.issuer] /\ krlMode # "unsigned_legacy"
    BY Verdicts DEF NeedsMark, Verdict
  <2>4. AtMost(floor[x], mergeWatermarks(x))
    BY <1>0, <1>m, <2>1, <2>2, <2>3, AtMostTransitive DEF CallInv
  <2>5. job[x].krl.version >= floor[x][job[x].krl.issuer]
    BY <1>m, <2>2, <2>3, <2>4, Constants DEF AtMost, Versions
  <2> QED
    BY <2>1, <2>2, <2>3, <2>5 DEF CallInv, Persistent, Persisting
<1>4. WriterInv(x)'
  BY <1>0, <1>m DEF TypeInv, WriterInv, Raised
<1>5. /\ AtMost(marks, marks') /\ AtMost(job'[x].listed, marks') /\ AtMost(floor'[x], marks')
      /\ AtMost(versions, versions') /\ (Persistent => AtMost(versions', marks'))
  BY <1>0, <1>m DEF TypeInv, RecordInv, AtMost, Versions
<1>6. /\ pc'[x] \in Refreshing => pc[x] \in Refreshing \/ MayRefresh
      /\ UNCHANGED <<versions, marks, tmp>> \/ pc[x] \in Refreshing
      /\ pc[x] \in Installed => pc'[x] \in Installed /\ job'[x].at = job[x].at /\ floor'[x] = floor[x]
  BY <1>0 DEF TypeInv, Refreshing, Settled, Installed
<1>7. /\ status'.integrity \in {"failed", status.integrity}
      /\ (status'.unsigned => status.unsigned) /\ (status'.lkg => status.lkg)
  BY <1>0 DEF TypeInv
<1> QED
  BY <1>m, <1>1, <1>2, <1>3, <1>4, <1>5, <1>6, <1>7, QuietInv

(***************************************************************************)
(* A fetched list is refused; the record is merged all the same.           *)
(***************************************************************************)
LEMMA VerifyFailsInv ==
  ASSUME Inv, NEW x \in Calls, VerifyFails(x)
  PROVE  Inv'
<1> USE DEF VerifyFails, FreshFails, Goto, config, memory, disk
<1>0. TypeInv /\ RecordInv /\ ActiveInv /\ CallInv(x) /\ WriterInv(x)
  BY DEF Inv
<1>m. /\ versions' = mergeWatermarks(x) /\ versions' \in Versions
      /\ AtMost(job[x].listed, versions') /\ AtMost(versions, versions')
      /\ Persistent => AtMost(versions', marks)
  BY <1>0, Merged
<1>1. TypeInv'
  BY <1>0, <1>m, Constants, Raising DEF TypeInv, CallInv, Labels, Refreshing, Settled, Persisting
<1>2. \A d \in Calls \ {x} : pc'[d] = pc[d] /\ job'[d] = job[d] /\ floor'[d] = floor[d]
  BY <1>0 DEF TypeInv
<1>3. CallInv(x)'
  BY <1>0, <1>m, Constants DEF TypeInv, CallInv, ActiveInv, InForceAsReported, Persisting, Recorded, Persistent
<1>4. WriterInv(x)'
  BY <1>0, <1>m DEF TypeInv, WriterInv, Raised
<1>5. /\ AtMost(marks, marks') /\ AtMost(job'[x].listed, marks') /\ AtMost(floor'[x], marks')
      /\ AtMost(versions, versions') /\ (Persistent => AtMost(versions', marks'))
  BY <1>0, <1>m DEF TypeInv, RecordInv, AtMost, Versions
<1>6. /\ pc'[x] \in Refreshing => pc[x] \in Refreshing \/ MayRefresh
      /\ UNCHANGED <<versions, marks, tmp>> \/ pc[x] \in Refreshing
      /\ pc[x] \in Installed => pc'[x] \in Installed /\ job'[x].at = job[x].at /\ floor'[x] = floor[x]
  BY <1>0 DEF TypeInv, Refreshing, Settled, Installed
<1>7. /\ status'.integrity \in {"failed", status.integrity}
      /\ (status'.unsigned => status.unsigned) /\ (status'.lkg => status.lkg)
  BY <1>0 DEF TypeInv
<1> QED
  BY <1>m, <1>1, <1>2, <1>3, <1>4, <1>5, <1>6, <1>7, QuietInv

(***************************************************************************)
(* The record is merged and the cached list is read.                       *)
(***************************************************************************)
LEMMA FallbackGetInv ==
  ASSUME Inv, NEW x \in Calls, FallbackGet(x)
  PROVE  Inv'
<1> USE DEF FallbackGet, Set, Goto, config, memory, disk
<1>0. TypeInv /\ RecordInv /\ ActiveInv /\ CallInv(x) /\ WriterInv(x)
  BY DEF Inv
<1>m. /\ versions' = mergeWatermarks(x) /\ versions' \in Versions
      /\ AtMost(job[x].listed, versions') /\ AtMost(versions, versions')
      /\ Persistent => AtMost(versions', marks)
  BY <1>0, Merged
<1>1. TypeInv'
  BY <1>0, <1>m, Constants, Raising, SMTT(60) DEF TypeInv, CallInv, Labels, Refreshing, Settled, Persisting
<1>2. \A d \in Calls \ {x} : pc'[d] = pc[d] /\ job'[d] = job[d] /\ floor'[d] = floor[d]
  BY <1>0 DEF TypeInv
<1>3. CallInv(x)'
  BY <1>0, <1>m, Constants DEF TypeInv, RecordInv, CallInv, ActiveInv, InForceAsReported, Persisting, Recorded, Persistent
<1>4. WriterInv(x)'
  <2>1. floor[x] \in Versions /\ job[x].listed \in Versions
    BY <1>0 DEF TypeInv
  <2>2. kind = "file" => AtMost(floor[x], versions')
    BY <1>0, <1>m, <2>1, AtMostTransitive DEF WriterInv
  <2>3. pc'[x] \in {"failed", "fallback_verify"}
    BY <1>0 DEF TypeInv
  <2> QED
    BY <2>2, <2>3 DEF WriterInv
<1>5. /\ AtMost(marks, marks') /\ AtMost(job'[x].listed, marks') /\ AtMost(floor'[x], marks')
      /\ AtMost(versions, versions') /\ (Persistent => AtMost(versions', marks'))
  BY <1>0, <1>m DEF TypeInv, RecordInv, AtMost, Versions
<1>6. /\ pc'[x] \in Refreshing => pc[x] \in Refreshing \/ MayRefresh
      /\ UNCHANGED <<versions, marks, tmp>> \/ pc[x] \in Refreshing
      /\ pc[x] \in Installed => pc'[x] \in Installed /\ job'[x].at = job[x].at /\ floor'[x] = floor[x]
  BY <1>0 DEF TypeInv, Refreshing, Settled, Installed
<1>7. /\ status'.integrity \in {"failed", status.integrity}
      /\ (status'.unsigned => status.unsigned) /\ (status'.lkg => status.lkg)
  BY <1>0 DEF TypeInv
<1> QED
  BY <1>m, <1>1, <1>2, <1>3, <1>4, <1>5, <1>6, <1>7, QuietInv

(***************************************************************************)
(* The cache cannot be read.                                               *)
(***************************************************************************)
LEMMA FallbackGetFailsInv ==
  ASSUME Inv, NEW x \in Calls, FallbackGetFails(x)
  PROVE  Inv'
<1> USE DEF FallbackGetFails, Goto, config, memory, disk
<1>0. TypeInv /\ RecordInv /\ ActiveInv /\ CallInv(x) /\ WriterInv(x)
  BY DEF Inv
<1>m. /\ versions' = mergeWatermarks(x) /\ versions' \in Versions
      /\ AtMost(job[x].listed, versions') /\ AtMost(versions, versions')
      /\ Persistent => AtMost(versions', marks)
  BY <1>0, Merged
<1>1. TypeInv'
  BY <1>0, <1>m, Constants, Raising DEF TypeInv, CallInv, Labels, Refreshing, Settled, Persisting
<1>2. \A d \in Calls \ {x} : pc'[d] = pc[d] /\ job'[d] = job[d] /\ floor'[d] = floor[d]
  BY <1>0 DEF TypeInv
<1>3. CallInv(x)'
  BY <1>0, <1>m, Constants DEF TypeInv, CallInv, ActiveInv, InForceAsReported, Persisting, Recorded, Persistent
<1>4. WriterInv(x)'
  BY <1>0, <1>m DEF TypeInv, WriterInv, Raised
<1>5. /\ AtMost(marks, marks') /\ AtMost(job'[x].listed, marks') /\ AtMost(floor'[x], marks')
      /\ AtMost(versions, versions') /\ (Persistent => AtMost(versions', marks'))
  BY <1>0, <1>m DEF TypeInv, RecordInv, AtMost, Versions
<1>6. /\ pc'[x] \in Refreshing => pc[x] \in Refreshing \/ MayRefresh
      /\ UNCHANGED <<versions, marks, tmp>> \/ pc[x] \in Refreshing
      /\ pc[x] \in Installed => pc'[x] \in Installed /\ job'[x].at = job[x].at /\ floor'[x] = floor[x]
  BY <1>0 DEF TypeInv, Refreshing, Settled, Installed
<1>7. /\ status'.integrity \in {"failed", status.integrity}
      /\ (status'.unsigned => status.unsigned) /\ (status'.lkg => status.lkg)
  BY <1>0 DEF TypeInv
<1> QED
  BY <1>m, <1>1, <1>2, <1>3, <1>4, <1>5, <1>6, <1>7, QuietInv

(***************************************************************************)
(* The version of a verified list is put on record.                        *)
(***************************************************************************)
LEMMA SetMarkInv ==
  ASSUME Inv, NEW x \in Calls, SetMark(x)
  PROVE  Inv'
<1> USE DEF SetMark, Goto, config, memory, disk
<1>0. TypeInv /\ RecordInv /\ ActiveInv /\ CallInv(x) /\ WriterInv(x)
  BY DEF Inv
<1>m. /\ marks' = Raised(x, marks) /\ marks' \in Versions /\ marks \in Versions /\ AtMost(marks, marks')
      /\ pc[x] \in Persisting /\ Persistent /\ job[x].krl.version <= marks'[job[x].krl.issuer]
  BY <1>0, Raising DEF TypeInv, CallInv, Persisting
<1>n. \A v \in Versions : AtMost(v, marks) => AtMost(v, marks')
  BY <1>m, AtMostTransitive
<1>1. TypeInv'
  BY <1>0, <1>m, Constants, Raising DEF TypeInv, CallInv, Labels, Refreshing, Settled, Persisting
<1>2. \A d \in Calls \ {x} : pc'[d] = pc[d] /\ job'[d] = job[d] /\ floor'[d] = floor[d]
  BY <1>0 DEF TypeInv
<1>3. CallInv(x)'
  BY <1>0, <1>m, Constants DEF TypeInv, RecordInv, CallInv, ActiveInv, InForceAsReported, Persisting, Recorded, Persistent
<1>4. WriterInv(x)'
  BY <1>0, <1>m DEF TypeInv, RecordInv, WriterInv, Raised
<1>5. /\ AtMost(marks, marks') /\ AtMost(job'[x].listed, marks') /\ AtMost(floor'[x], marks')
      /\ AtMost(versions, versions') /\ (Persistent => AtMost(versions', marks'))
  BY <1>0, <1>m, <1>n DEF TypeInv, RecordInv, AtMost, Versions
<1>6. /\ pc'[x] \in Refreshing => pc[x] \in Refreshing \/ MayRefresh
      /\ UNCHANGED <<versions, marks, tmp>> \/ pc[x] \in Refreshing
      /\ pc[x] \in Installed => pc'[x] \in Installed /\ job'[x].at = job[x].at /\ floor'[x] = floor[x]
  BY <1>0 DEF TypeInv, Refreshing, Settled, Installed
<1>7. /\ status'.integrity \in {"failed", status.integrity}
      /\ (status'.unsigned => status.unsigned) /\ (status'.lkg => status.lkg)
  BY <1>0 DEF TypeInv
<1> QED
  BY <1>m, <1>1, <1>2, <1>3, <1>4, <1>5, <1>6, <1>7, QuietInv

(***************************************************************************)
(* The record cannot be written, or was and does not say so.               *)
(***************************************************************************)
LEMMA SetFailsInv ==
  ASSUME Inv, NEW x \in Calls, SetFails(x)
  PROVE  Inv'
<1> USE DEF SetFails, FreshFails, Goto, config, memory, disk
<1>0. TypeInv /\ RecordInv /\ ActiveInv /\ CallInv(x) /\ WriterInv(x)
  BY DEF Inv
<1>m. /\ marks' \in {marks, Raised(x, marks)} /\ marks' \in Versions /\ marks \in Versions /\ AtMost(marks, marks')
      /\ pc[x] \in Persisting /\ Persistent
  <2>1. pc[x] \in Persisting /\ Persistent /\ job[x].krl \in Krls /\ marks \in Versions
    BY <1>0 DEF TypeInv, CallInv, Persisting
  <2>2. AtMost(marks, marks)
    BY <2>1 DEF AtMost, Versions
  <2>3. Raised(x, marks) \in Versions /\ AtMost(marks, Raised(x, marks))
    BY <2>1, Raising
  <2> QED
    BY <2>1, <2>2, <2>3
<1>n. \A v \in Versions : AtMost(v, marks) => AtMost(v, marks')
  BY <1>m, AtMostTransitive
<1>1. TypeInv'
  BY <1>0, <1>m, Constants, Raising DEF TypeInv, CallInv, Labels, Refreshing, Settled, Persisting
<1>2. \A d \in Calls \ {x} : pc'[d] = pc[d] /\ job'[d] = job[d] /\ floor'[d] = floor[d]
  BY <1>0 DEF TypeInv
<1>3. CallInv(x)'
  BY <1>0, <1>m, Constants DEF TypeInv, CallInv, ActiveInv, InForceAsReported, Persisting, Recorded, Persistent
<1>4. WriterInv(x)'
  BY <1>0, <1>m DEF TypeInv, WriterInv, Raised
<1>5. /\ AtMost(marks, marks') /\ AtMost(job'[x].listed, marks') /\ AtMost(floor'[x], marks')
      /\ AtMost(versions, versions') /\ (Persistent => AtMost(versions', marks'))
  BY <1>0, <1>m, <1>n DEF TypeInv, RecordInv, AtMost, Versions
<1>6. /\ pc'[x] \in Refreshing => pc[x] \in Refreshing \/ MayRefresh
      /\ UNCHANGED <<versions, marks, tmp>> \/ pc[x] \in Refreshing
      /\ pc[x] \in Installed => pc'[x] \in Installed /\ job'[x].at = job[x].at /\ floor'[x] = floor[x]
  BY <1>0 DEF TypeInv, Refreshing, Settled, Installed
<1>7. /\ status'.integrity \in {"failed", status.integrity}
      /\ (status'.unsigned => status.unsigned) /\ (status'.lkg => status.lkg)
  BY <1>0 DEF TypeInv
<1> QED
  BY <1>m, <1>1, <1>2, <1>3, <1>4, <1>5, <1>6, <1>7, QuietInv

(***************************************************************************)
(* The rewritten record replaces the old one.                              *)
(***************************************************************************)
LEMMA RenameTmpInv ==
  ASSUME Inv, NEW x \in Calls, RenameTmp(x)
  PROVE  Inv'
<1> USE DEF RenameTmp, Goto, config, memory, disk
<1>0. TypeInv /\ RecordInv /\ ActiveInv /\ CallInv(x) /\ WriterInv(x)
  BY DEF Inv
<1>m. /\ marks' = Raised(x, marks) /\ marks' \in Versions /\ marks \in Versions /\ AtMost(marks, marks')
      /\ pc[x] \in Persisting /\ Persistent /\ job[x].krl.version <= marks'[job[x].krl.issuer]
  BY <1>0, Raising DEF TypeInv, CallInv, WriterInv, Persisting
<1>n. \A v \in Versions : AtMost(v, marks) => AtMost(v, marks')
  BY <1>m, AtMostTransitive
<1>1. TypeInv'
  BY <1>0, <1>m, Constants, Raising DEF TypeInv, CallInv, Labels, Refreshing, Settled, Persisting
<1>2. \A d \in Calls \ {x} : pc'[d] = pc[d] /\ job'[d] = job[d] /\ floor'[d] = floor[d]
  BY <1>0 DEF TypeInv
<1>3. CallInv(x)'
  BY <1>0, <1>m, Constants DEF TypeInv, RecordInv, CallInv, ActiveInv, InForceAsReported, Persisting, Recorded, Persistent
<1>4. WriterInv(x)'
  BY <1>0, <1>m DEF TypeInv, RecordInv, WriterInv, Raised
<1>5. /\ AtMost(marks, marks') /\ AtMost(job'[x].listed, marks') /\ AtMost(floor'[x], marks')
      /\ AtMost(versions, versions') /\ (Persistent => AtMost(versions', marks'))
  BY <1>0, <1>m, <1>n DEF TypeInv, RecordInv, AtMost, Versions
<1>6. /\ pc'[x] \in Refreshing => pc[x] \in Refreshing \/ MayRefresh
      /\ UNCHANGED <<versions, marks, tmp>> \/ pc[x] \in Refreshing
      /\ pc[x] \in Installed => pc'[x] \in Installed /\ job'[x].at = job[x].at /\ floor'[x] = floor[x]
  BY <1>0 DEF TypeInv, Refreshing, Settled, Installed
<1>7. /\ status'.integrity \in {"failed", status.integrity}
      /\ (status'.unsigned => status.unsigned) /\ (status'.lkg => status.lkg)
  BY <1>0 DEF TypeInv
<1> QED
  BY <1>m, <1>1, <1>2, <1>3, <1>4, <1>5, <1>6, <1>7, QuietInv

(***************************************************************************)
(* The endpoints fail.                                                     *)
(***************************************************************************)
LEMMA FetchFailsInv ==
  ASSUME Inv, NEW x \in Calls, FetchFails(x)
  PROVE  Inv'
<1> USE DEF FetchFails, FreshFails, Goto, config, memory, disk
<1>0. TypeInv /\ RecordInv /\ ActiveInv /\ CallInv(x) /\ WriterInv(x)
  BY DEF Inv
<1>1. TypeInv'
  BY <1>0, Constants, Raising DEF TypeInv, CallInv, Labels, Refreshing, Settled, Persisting
<1>2. \A d \in Calls \ {x} : pc'[d] = pc[d] /\ job'[d] = job[d] /\ floor'[d] = floor[d]
  BY <1>0 DEF TypeInv
<1>3. CallInv(x)'
  BY <1>0, Constants DEF TypeInv, CallInv, ActiveInv, InForceAsReported, Persisting, Recorded, Persistent
<1>4. WriterInv(x)'
  BY <1>0 DEF TypeInv, WriterInv, Raised
<1>5. /\ AtMost(marks, marks') /\ AtMost(job'[x].listed, marks') /\ AtMost(floor'[x], marks')
      /\ AtMost(versions, versions') /\ (Persistent => AtMost(versions', marks'))
  BY <1>0 DEF TypeInv, RecordInv, AtMost, Versions
<1>6. /\ pc'[x] \in Refreshing => pc[x] \in Refreshing \/ MayRefresh
      /\ UNCHANGED <<versions, marks, tmp>> \/ pc[x] \in Refreshing
      /\ pc[x] \in Installed => pc'[x] \in Installed /\ job'[x].at = job[x].at /\ floor'[x] = floor[x]
  BY <1>0 DEF TypeInv, Refreshing, Settled, Installed
<1>7. /\ status'.integrity \in {"failed", status.integrity}
      /\ (status'.unsigned => status.unsigned) /\ (status'.lkg => status.lkg)
  BY <1>0 DEF TypeInv
<1> QED
  BY <1>1, <1>2, <1>3, <1>4, <1>5, <1>6, <1>7, QuietInv

(***************************************************************************)
(* The record cannot be read.                                              *)
(***************************************************************************)
LEMMA ListFailsInv ==
  ASSUME Inv, NEW x \in Calls, ListFails(x)
  PROVE  Inv'
<1> USE DEF ListFails, FreshFails, Goto, config, memory, disk
<1>0. TypeInv /\ RecordInv /\ ActiveInv /\ CallInv(x) /\ WriterInv(x)
  BY DEF Inv
<1>1. TypeInv'
  BY <1>0, Constants, Raising DEF TypeInv, CallInv, Labels, Refreshing, Settled, Persisting
<1>2. \A d \in Calls \ {x} : pc'[d] = pc[d] /\ job'[d] = job[d] /\ floor'[d] = floor[d]
  BY <1>0 DEF TypeInv
<1>3. CallInv(x)'
  BY <1>0, Constants DEF TypeInv, CallInv, ActiveInv, InForceAsReported, Persisting, Recorded, Persistent
<1>4. WriterInv(x)'
  BY <1>0 DEF TypeInv, WriterInv, Raised
<1>5. /\ AtMost(marks, marks') /\ AtMost(job'[x].listed, marks') /\ AtMost(floor'[x], marks')
      /\ AtMost(versions, versions') /\ (Persistent => AtMost(versions', marks'))
  BY <1>0 DEF TypeInv, RecordInv, AtMost, Versions
<1>6. /\ pc'[x] \in Refreshing => pc[x] \in Refreshing \/ MayRefresh
      /\ UNCHANGED <<versions, marks, tmp>> \/ pc[x] \in Refreshing
      /\ pc[x] \in Installed => pc'[x] \in Installed /\ job'[x].at = job[x].at /\ floor'[x] = floor[x]
  BY <1>0 DEF TypeInv, Refreshing, Settled, Installed
<1>7. /\ status'.integrity \in {"failed", status.integrity}
      /\ (status'.unsigned => status.unsigned) /\ (status'.lkg => status.lkg)
  BY <1>0 DEF TypeInv
<1> QED
  BY <1>1, <1>2, <1>3, <1>4, <1>5, <1>6, <1>7, QuietInv

(***************************************************************************)
(* The file is read before it is rewritten.                                *)
(***************************************************************************)
LEMMA ReadWatermarksInv ==
  ASSUME Inv, NEW x \in Calls, ReadWatermarks(x)
  PROVE  Inv'
<1> USE DEF ReadWatermarks, Set, Goto, config, memory, disk
<1>0. TypeInv /\ RecordInv /\ ActiveInv /\ CallInv(x) /\ WriterInv(x)
  BY DEF Inv
<1>1. TypeInv'
  BY <1>0, Constants, Raising DEF TypeInv, CallInv, Labels, Refreshing, Settled, Persisting
<1>2. \A d \in Calls \ {x} : pc'[d] = pc[d] /\ job'[d] = job[d] /\ floor'[d] = floor[d]
  BY <1>0 DEF TypeInv
<1>3. CallInv(x)'
  BY <1>0, Constants DEF TypeInv, CallInv, ActiveInv, InForceAsReported, Persisting, Recorded, Persistent
<1>4. WriterInv(x)'
  BY <1>0 DEF TypeInv, WriterInv, Raised
<1>5. /\ AtMost(marks, marks') /\ AtMost(job'[x].listed, marks') /\ AtMost(floor'[x], marks')
      /\ AtMost(versions, versions') /\ (Persistent => AtMost(versions', marks'))
  BY <1>0 DEF TypeInv, RecordInv, AtMost, Versions
<1>6. /\ pc'[x] \in Refreshing => pc[x] \in Refreshing \/ MayRefresh
      /\ UNCHANGED <<versions, marks, tmp>> \/ pc[x] \in Refreshing
      /\ pc[x] \in Installed => pc'[x] \in Installed /\ job'[x].at = job[x].at /\ floor'[x] = floor[x]
  BY <1>0 DEF TypeInv, Refreshing, Settled, Installed
<1>7. /\ status'.integrity \in {"failed", status.integrity}
      /\ (status'.unsigned => status.unsigned) /\ (status'.lkg => status.lkg)
  BY <1>0 DEF TypeInv
<1> QED
  BY <1>1, <1>2, <1>3, <1>4, <1>5, <1>6, <1>7, QuietInv

(***************************************************************************)
(* The temporary file is truncated.                                        *)
(***************************************************************************)
LEMMA OpenTmpInv ==
  ASSUME Inv, NEW x \in Calls, OpenTmp(x)
  PROVE  Inv'
<1> USE DEF OpenTmp, Goto, config, memory, disk
<1>0. TypeInv /\ RecordInv /\ ActiveInv /\ CallInv(x) /\ WriterInv(x)
  BY DEF Inv
<1>1. TypeInv'
  BY <1>0, Constants, Raising DEF TypeInv, CallInv, Labels, Refreshing, Settled, Persisting
<1>2. \A d \in Calls \ {x} : pc'[d] = pc[d] /\ job'[d] = job[d] /\ floor'[d] = floor[d]
  BY <1>0 DEF TypeInv
<1>3. CallInv(x)'
  BY <1>0, Constants DEF TypeInv, CallInv, ActiveInv, InForceAsReported, Persisting, Recorded, Persistent
<1>4. WriterInv(x)'
  BY <1>0 DEF TypeInv, WriterInv, Raised
<1>5. /\ AtMost(marks, marks') /\ AtMost(job'[x].listed, marks') /\ AtMost(floor'[x], marks')
      /\ AtMost(versions, versions') /\ (Persistent => AtMost(versions', marks'))
  BY <1>0 DEF TypeInv, RecordInv, AtMost, Versions
<1>6. /\ pc'[x] \in Refreshing => pc[x] \in Refreshing \/ MayRefresh
      /\ UNCHANGED <<versions, marks, tmp>> \/ pc[x] \in Refreshing
      /\ pc[x] \in Installed => pc'[x] \in Installed /\ job'[x].at = job[x].at /\ floor'[x] = floor[x]
  BY <1>0 DEF TypeInv, Refreshing, Settled, Installed
<1>7. /\ status'.integrity \in {"failed", status.integrity}
      /\ (status'.unsigned => status.unsigned) /\ (status'.lkg => status.lkg)
  BY <1>0 DEF TypeInv
<1> QED
  BY <1>1, <1>2, <1>3, <1>4, <1>5, <1>6, <1>7, QuietInv

(***************************************************************************)
(* The raised record is written to the temporary file.                     *)
(***************************************************************************)
LEMMA WriteTmpInv ==
  ASSUME Inv, NEW x \in Calls, WriteTmp(x)
  PROVE  Inv'
<1> USE DEF WriteTmp, Goto, config, memory, disk
<1>0. TypeInv /\ RecordInv /\ ActiveInv /\ CallInv(x) /\ WriterInv(x)
  BY DEF Inv
<1>1. TypeInv'
  BY <1>0, Constants, Raising DEF TypeInv, CallInv, Labels, Refreshing, Settled, Persisting
<1>2. \A d \in Calls \ {x} : pc'[d] = pc[d] /\ job'[d] = job[d] /\ floor'[d] = floor[d]
  BY <1>0 DEF TypeInv
<1>3. CallInv(x)'
  BY <1>0, Constants DEF TypeInv, CallInv, ActiveInv, InForceAsReported, Persisting, Recorded, Persistent
<1>4. WriterInv(x)'
  BY <1>0 DEF TypeInv, WriterInv, Raised
<1>5. /\ AtMost(marks, marks') /\ AtMost(job'[x].listed, marks') /\ AtMost(floor'[x], marks')
      /\ AtMost(versions, versions') /\ (Persistent => AtMost(versions', marks'))
  BY <1>0 DEF TypeInv, RecordInv, AtMost, Versions
<1>6. /\ pc'[x] \in Refreshing => pc[x] \in Refreshing \/ MayRefresh
      /\ UNCHANGED <<versions, marks, tmp>> \/ pc[x] \in Refreshing
      /\ pc[x] \in Installed => pc'[x] \in Installed /\ job'[x].at = job[x].at /\ floor'[x] = floor[x]
  BY <1>0 DEF TypeInv, Refreshing, Settled, Installed
<1>7. /\ status'.integrity \in {"failed", status.integrity}
      /\ (status'.unsigned => status.unsigned) /\ (status'.lkg => status.lkg)
  BY <1>0 DEF TypeInv
<1> QED
  BY <1>1, <1>2, <1>3, <1>4, <1>5, <1>6, <1>7, QuietInv

(***************************************************************************)
(* There is nothing to verify a cached list with.                          *)
(***************************************************************************)
LEMMA NoVerifierInv ==
  ASSUME Inv, NEW x \in Calls, NoVerifier(x)
  PROVE  Inv'
<1> USE DEF NoVerifier, Goto, config, memory, disk
<1>0. TypeInv /\ RecordInv /\ ActiveInv /\ CallInv(x) /\ WriterInv(x)
  BY DEF Inv
<1>1. TypeInv'
  BY <1>0, Constants, Raising DEF TypeInv, CallInv, Labels, Refreshing, Settled, Persisting
<1>2. \A d \in Calls \ {x} : pc'[d] = pc[d] /\ job'[d] = job[d] /\ floor'[d] = floor[d]
  BY <1>0 DEF TypeInv
<1>3. CallInv(x)'
  BY <1>0, Constants DEF TypeInv, CallInv, ActiveInv, InForceAsReported, Persisting, Recorded, Persistent
<1>4. WriterInv(x)'
  BY <1>0 DEF TypeInv, WriterInv, Raised
<1>5. /\ AtMost(marks, marks') /\ AtMost(job'[x].listed, marks') /\ AtMost(floor'[x], marks')
      /\ AtMost(versions, versions') /\ (Persistent => AtMost(versions', marks'))
  BY <1>0 DEF TypeInv, RecordInv, AtMost, Versions
<1>6. /\ pc'[x] \in Refreshing => pc[x] \in Refreshing \/ MayRefresh
      /\ UNCHANGED <<versions, marks, tmp>> \/ pc[x] \in Refreshing
      /\ pc[x] \in Installed => pc'[x] \in Installed /\ job'[x].at = job[x].at /\ floor'[x] = floor[x]
  BY <1>0 DEF TypeInv, Refreshing, Settled, Installed
<1>7. /\ status'.integrity \in {"failed", status.integrity}
      /\ (status'.unsigned => status.unsigned) /\ (status'.lkg => status.lkg)
  BY <1>0 DEF TypeInv
<1> QED
  BY <1>1, <1>2, <1>3, <1>4, <1>5, <1>6, <1>7, QuietInv

(***************************************************************************)
(* The cached list does not verify.                                        *)
(***************************************************************************)
LEMMA FallbackRefusedInv ==
  ASSUME Inv, NEW x \in Calls, FallbackRefused(x)
  PROVE  Inv'
<1> USE DEF FallbackRefused, NoStatus, Goto, config, memory, disk
<1>0. TypeInv /\ RecordInv /\ ActiveInv /\ CallInv(x) /\ WriterInv(x)
  BY DEF Inv
<1>1. TypeInv'
  BY <1>0, Constants, Raising DEF TypeInv, CallInv, Labels, Refreshing, Settled, Persisting
<1>2. \A d \in Calls \ {x} : pc'[d] = pc[d] /\ job'[d] = job[d] /\ floor'[d] = floor[d]
  BY <1>0 DEF TypeInv
<1>3. CallInv(x)'
  BY <1>0, Constants DEF TypeInv, CallInv, ActiveInv, InForceAsReported, Persisting, Recorded, Persistent
<1>4. WriterInv(x)'
  BY <1>0 DEF TypeInv, WriterInv, Raised
<1>5. /\ AtMost(marks, marks') /\ AtMost(job'[x].listed, marks') /\ AtMost(floor'[x], marks')
      /\ AtMost(versions, versions') /\ (Persistent => AtMost(versions', marks'))
  BY <1>0 DEF TypeInv, RecordInv, AtMost, Versions
<1>6. /\ pc'[x] \in Refreshing => pc[x] \in Refreshing \/ MayRefresh
      /\ UNCHANGED <<versions, marks, tmp>> \/ pc[x] \in Refreshing
      /\ pc[x] \in Installed => pc'[x] \in Installed /\ job'[x].at = job[x].at /\ floor'[x] = floor[x]
  BY <1>0 DEF TypeInv, Refreshing, Settled, Installed
<1>7. /\ status'.integrity \in {"failed", status.integrity}
      /\ (status'.unsigned => status.unsigned) /\ (status'.lkg => status.lkg)
  BY <1>0 DEF TypeInv
<1> QED
  BY <1>1, <1>2, <1>3, <1>4, <1>5, <1>6, <1>7, QuietInv

----------------------------------------------------------------------------
(* The steps that put a list in force, and the rest *)

(***************************************************************************)
(* A step that puts a list in force keeps the invariant if what it reports *)
(* of the list is so.                                                      *)
(***************************************************************************)
LEMMA InstallInv ==
  ASSUME Inv, NEW x \in Calls, TypeInv', UNCHANGED <<config, disk, job, floor>>,
         \A d \in Calls \ {x} : pc'[d] = pc[d],
         pc[x] \in Refreshing, pc'[x] \in {"cache", "recheck", "done"},
         active' # Empty, active'.by = x, InForceAsReported',
         active'.source = "signed" =>
           Recorded(active.krl)' /\ active'.krl.version <= versions'[active'.krl.issuer],
         Persistent => AtMost(versions', marks),
         CallInv(x)'
  PROVE  Inv'
<1> USE DEF config, disk
<1>1. RecordInv'
  BY DEF Inv, RecordInv, Recorded, Persistent
<1>2. \A d \in Calls : CallInv(d)'
  BY DEF Inv, CallInv, Recorded, Persistent
<1>3. \A d \in Calls \ {x} : kind = "file" => pc[d] \notin Refreshing
  BY DEF Inv, SingleWriter
<1>4. SingleWriter'
  BY <1>3 DEF SingleWriter, Refreshing
<1>5. \A d \in Calls : WriterInv(d)'
  <2>1. WriterInv(x)'
    BY DEF WriterInv
  <2>2. {"open", "write", "rename", "fallback_get", "fallback_verify"} \subseteq Refreshing
    BY DEF Refreshing
  <2> QED
    BY <1>3, <2>1, <2>2 DEF Inv, WriterInv
<1>6. ActiveInv'
  BY DEF ActiveInv, Installed, Settled
<1> QED
  BY <1>1, <1>2, <1>4, <1>5, <1>6 DEF Inv

(***************************************************************************)
(* What a fresh refresh puts in force, recorded or with no need to be.     *)
(***************************************************************************)
LEMMA FreshInstallInv ==
  ASSUME Inv, NEW x \in Calls, NEW verdict \in Sources, NEW merged \in Versions,
         Install(x, verdict, merged), UNCHANGED <<config, now, crashes, disk, job, floor>>,
         pc[x] \in Refreshing, job[x].krl \in Krls,
         krlMode = "signed_required" => verdict = "signed",
         Persistent => AtMost(merged, marks),
         verdict = "signed" =>
           /\ job[x].krl.form = "signed" /\ job[x].at < job[x].krl.not_after
           /\ job[x].krl.version >= floor[x][job[x].krl.issuer] /\ Recorded(job[x].krl)
  PROVE  Inv'
<1> USE DEF Install, Finish, Goto, config, disk
<1>0. TypeInv /\ RecordInv /\ job[x].krl.issuer \in Issuers /\ job[x].krl.version \in Nat
  BY Constants DEF Inv
<1>1. /\ active' \in InForce /\ active' # Empty /\ active'.by = x /\ active'.krl = job[x].krl
      /\ active'.source = verdict /\ active'.lkg = FALSE
  BY DEF InForce, Empty, Sources
<1>2. versions' \in Versions /\ (Persistent => AtMost(versions', marks))
  BY <1>0 DEF Versions, AtMost, Recorded
<1>3. pc'[x] \in {"cache", "recheck", "done"} /\ \A d \in Calls \ {x} : pc'[d] = pc[d]
  BY <1>0 DEF TypeInv
<1>4. /\ status' \in [integrity : Sources \cup {"none", "failed"}, unsigned : BOOLEAN, lkg : BOOLEAN]
      /\ status'.integrity = verdict /\ status'.lkg = FALSE
      /\ status'.unsigned => verdict = "unsigned_fallback"
  BY DEF FreshStatus
<1>5. TypeInv'
  <2>1. pc' \in [Calls -> Labels]
    BY <1>0 DEF TypeInv, Labels, Refreshing, Settled
  <2> QED
    BY <1>0, <1>1, <1>2, <1>4, <2>1 DEF TypeInv
<1>6. InForceAsReported'
  BY <1>0, <1>1, <1>4 DEF RecordInv, InForceAsReported, getKrlStatus
<1>7. CallInv(x)'
  <2>1. pc'[x] = "cache" => verdict = "signed"
    BY <1>0 DEF TypeInv
  <2> QED
    BY <1>1, <1>3, <2>1 DEF CallInv, Persisting, Recorded, Persistent
<1>8. active'.source = "signed" =>
        Recorded(active.krl)' /\ active'.krl.version <= versions'[active'.krl.issuer]
  BY <1>0, <1>1 DEF Recorded, Persistent, Versions
<1> QED
  BY <1>1, <1>2, <1>3, <1>5, <1>6, <1>7, <1>8, InstallInv

(***************************************************************************)
(* A list with no need to be recorded is put in force at once.             *)
(***************************************************************************)
LEMMA VerifyInstallsInv ==
  ASSUME Inv, NEW x \in Calls, Verify(x), ~NeedsMark(Verdict(x))
  PROVE  Inv'
<1> DEFINE l == job[x].krl
<1>0. /\ TypeInv /\ RecordInv /\ CallInv(x) /\ pc[x] = "verify"
      /\ l \in Krls /\ l.issuer \in Issuers /\ l.version \in Nat
  BY Constants DEF Inv, CallInv, Verify
<1>1. /\ Verdict(x) \in Sources /\ (krlMode = "signed_required" => Verdict(x) = "signed")
      /\ Verdict(x) = "signed" => l.form = "signed" /\ job[x].at < l.not_after
  BY Verdicts DEF Verify, Verdict
<1>2. Verdict(x) = "signed" => ~Persistent
  BY DEF NeedsMark
<1>3. ~Persistent => l.version >= floor[x][l.issuer]
  <2> SUFFICES ASSUME ~Persistent PROVE l.version >= floor[x][l.issuer]
    OBVIOUS
  <2>1. AtMost(floor[x], NoMarks) /\ floor[x] \in Versions
    BY <1>0 DEF TypeInv, RecordInv
  <2> QED
    BY <1>0, <2>1 DEF AtMost, NoMarks, NoVersion, Versions
<1>4. mergeWatermarks(x) \in Versions /\ (Persistent => AtMost(mergeWatermarks(x), marks))
  BY <1>0, Merged
<1>5. pc[x] \in Refreshing
  BY <1>0 DEF Refreshing
<1>6. Install(x, Verdict(x), mergeWatermarks(x)) /\ UNCHANGED <<config, now, crashes, disk, job, floor>>
  BY DEF Verify
<1> QED
  BY <1>0, <1>1, <1>2, <1>3, <1>4, <1>5, <1>6, FreshInstallInv DEF Recorded

(***************************************************************************)
(* A recorded list is put in force.                                        *)
(***************************************************************************)
LEMMA SwapInv ==
  ASSUME Inv, NEW x \in Calls, Swap(x)
  PROVE  Inv'
<1>1. pc[x] = "swap" /\ pc[x] \in Refreshing /\ pc[x] \in Persisting
  BY DEF Swap, Refreshing, Persisting
<1>2. /\ job[x].krl \in Krls /\ Persistent /\ Recorded(job[x].krl)
      /\ job[x].krl.form = "signed" /\ job[x].at < job[x].krl.not_after
      /\ job[x].krl.version >= floor[x][job[x].krl.issuer]
  BY <1>1 DEF Inv, CallInv
<1>3. "signed" \in Sources /\ versions \in Versions /\ AtMost(versions, marks)
  BY <1>2 DEF Inv, TypeInv, RecordInv, Sources
<1> QED
  BY <1>1, <1>2, <1>3, FreshInstallInv DEF Swap

(***************************************************************************)
(* The cached list is put in force; with a single writer it is held to the *)
(* record too.                                                             *)
(***************************************************************************)
LEMMA FallbackVerifyInv ==
  ASSUME Inv, NEW x \in Calls, FallbackVerify(x)
  PROVE  Inv'
<1> USE DEF FallbackVerify, Finish, Goto, config, disk
<1> DEFINE l == job[x].krl
<1>0. /\ TypeInv /\ RecordInv /\ CallInv(x) /\ WriterInv(x) /\ pc[x] = "fallback_verify"
      /\ l \in Krls /\ l.issuer \in Issuers /\ l.version \in Nat /\ Recorded(l)
  BY Constants DEF Inv, CallInv
<1>1. l.form = "signed" /\ job[x].at < l.not_after /\ l.version >= versions[l.issuer]
  BY Verdicts DEF LkgVerdict
<1>2. /\ active' \in InForce /\ active' # Empty /\ active'.by = x /\ active'.krl = l
      /\ active'.source = "signed" /\ active'.lkg = TRUE
  BY <1>0 DEF InForce, Empty, Sources
<1>3. versions' \in Versions /\ (Persistent => AtMost(versions', marks))
  BY <1>0 DEF TypeInv, RecordInv, Versions, AtMost, Recorded
<1>4. kind # "atomic" => l.version >= floor[x][l.issuer]
  <2>1. CASE kind = "file"
    BY <1>0, <1>1, <2>1 DEF TypeInv, WriterInv, AtMost, Versions
  <2>2. CASE kind = "none"
    <3>1. AtMost(floor[x], NoMarks) /\ floor[x] \in Versions
      BY <1>0, <2>2 DEF TypeInv, RecordInv, Persistent
    <3> QED
      BY <1>0, <3>1 DEF AtMost, NoMarks, NoVersion, Versions
  <2> QED
    BY <1>0, <2>1, <2>2, KeyStoreConfig DEF TypeInv
<1>5. /\ pc'[x] \in {"recheck", "done"} /\ pc[x] \in Refreshing
      /\ \A d \in Calls \ {x} : pc'[d] = pc[d]
  BY <1>0 DEF TypeInv, Refreshing
<1>6. TypeInv'
  <2>1. pc' \in [Calls -> Labels]
    BY <1>0 DEF TypeInv, Labels, Refreshing, Settled
  <2> QED
    BY <1>0, <1>2, <1>3, <2>1 DEF TypeInv, Sources
<1>7. InForceAsReported'
  BY <1>0, <1>1, <1>2, <1>4 DEF RecordInv, InForceAsReported, getKrlStatus
<1>8. CallInv(x)' /\ Recorded(active.krl)' /\ active'.krl.version <= versions'[active'.krl.issuer]
  BY <1>0, <1>2, <1>5 DEF TypeInv, CallInv, Persisting, Recorded, Persistent, Versions
<1> QED
  BY <1>2, <1>3, <1>5, <1>6, <1>7, <1>8, InstallInv

(***************************************************************************)
(* The list that was put in force is kept as the last known good one.      *)
(***************************************************************************)
LEMMA CacheSetInv ==
  ASSUME Inv, NEW x \in Calls, CacheSet(x)
  PROVE  Inv'
<1> USE DEF CacheSet, Finish, Goto, config, memory
<1>0. /\ TypeInv /\ RecordInv /\ CallInv(x) /\ ActiveInv /\ pc[x] = "cache"
      /\ job[x].krl \in Krls /\ job[x].krl.form = "signed" /\ Recorded(job[x].krl) /\ active # Empty
  BY DEF Inv, CallInv
<1>1. TypeInv'
  BY <1>0 DEF TypeInv, Labels, Refreshing, Settled
<1>2. pc'[x] \in {"recheck", "done"} /\ \A d \in Calls \ {x} : pc'[d] = pc[d]
  BY <1>0 DEF TypeInv
<1>3. RecordInv'
  BY <1>0 DEF RecordInv, Recorded, Persistent
<1>4. \A d \in Calls : CallInv(d)' /\ WriterInv(d)'
  BY <1>0, <1>2 DEF Inv, CallInv, WriterInv, Persisting, Recorded, Persistent, Raised
<1>5. SingleWriter'
  BY <1>2 DEF Inv, SingleWriter, Refreshing
<1>6. ActiveInv'
  BY <1>0, <1>2 DEF ActiveInv, Installed, Settled, InForceAsReported, getKrlStatus, Recorded, Persistent
<1> QED
  BY <1>1, <1>3, <1>4, <1>5, <1>6 DEF Inv

(***************************************************************************)
(* A restart loses what is in memory and every call that is under way.     *)
(***************************************************************************)
LEMMA CrashInv ==
  ASSUME Inv, Crash
  PROVE  Inv'
<1> USE DEF Crash, config, disk
<1>0. TypeInv /\ RecordInv
  BY DEF Inv
<1>1. TypeInv'
  BY <1>0, Constants DEF TypeInv, Labels, Settled, InForce, NoStatus
<1>2. \A d \in Calls : pc'[d] = "idle" \/ pc'[d] \in Settled
  BY DEF Settled
<1>3. RecordInv'
  BY <1>0 DEF RecordInv, Recorded, Persistent
<1>4. \A d \in Calls : CallInv(d)'
  <2> SUFFICES ASSUME NEW d \in Calls PROVE CallInv(d)'
    OBVIOUS
  <2>1. pc'[d] = pc[d] \/ pc'[d] = "crashed"
    OBVIOUS
  <2> QED
    BY <1>2, <2>1 DEF Inv, CallInv, Settled, Persisting
<1>5. SingleWriter' /\ \A d \in Calls : WriterInv(d)'
  BY <1>2 DEF SingleWriter, WriterInv, Refreshing, Settled
<1>6. ActiveInv'
  BY <1>0 DEF ActiveInv, InForceAsReported, getKrlStatus, Empty, NoStatus, RecordInv
<1> QED
  BY <1>1, <1>3, <1>4, <1>5, <1>6 DEF Inv

(***************************************************************************)
(* Every step keeps the invariant.                                         *)
(***************************************************************************)
LEMMA InitInv ==
  Init => Inv
<1> SUFFICES ASSUME Init PROVE Inv
  OBVIOUS
<1> USE DEF Init
<1>1. cache # NoList => cache \in Krls /\ cache.form = "signed"
  OBVIOUS
<1>2. marks \in Versions /\ AtMost(NoMarks, marks) /\ (~Persistent => marks = NoMarks)
  BY <1>1, Constants DEF Versions, AtMost, NoMarks, NoVersion
<1>3. TypeInv
  BY <1>2, Constants DEF TypeInv, Labels, InForce, NoStatus
<1>4. cache # NoList => Recorded(cache)
  BY <1>1, Constants DEF Recorded, Versions
<1>5. RecordInv
  BY <1>1, <1>2, <1>4 DEF RecordInv, Idle
<1>6. (\A c \in Calls : CallInv(c) /\ WriterInv(c)) /\ SingleWriter
  BY DEF CallInv, WriterInv, SingleWriter, Refreshing, Persisting, Idle
<1>7. ActiveInv
  BY <1>1 DEF ActiveInv, InForceAsReported, getKrlStatus, Empty, NoStatus
<1> QED
  BY <1>3, <1>5, <1>6, <1>7 DEF Inv

LEMMA NextInv ==
  Inv /\ [Next]_vars => Inv'
<1> SUFFICES ASSUME Inv, [Next]_vars PROVE Inv'
  OBVIOUS
<1>1. CASE Tick \/ UNCHANGED vars
  <2>1. UNCHANGED <<config, crashes, memory, disk, pc, job, floor>> /\ now' \in Nat
    BY <1>1 DEF Tick, vars, Inv, TypeInv
  <2> QED
    BY <2>1 DEF Inv, TypeInv, RecordInv, CallInv, SingleWriter, WriterInv, ActiveInv, InForceAsReported,
       getKrlStatus, Recorded, Persistent, Raised, config, memory, disk
<1>2. ASSUME NEW x \in Calls, Refresh(x) PROVE Inv'
  BY <1>2, FetchInv, FetchFailsInv, ListInv, ListFailsInv, VerifyMarksInv, VerifyInstallsInv, VerifyFailsInv,
     SetMarkInv, SetFailsInv, ReadWatermarksInv, OpenTmpInv, WriteTmpInv, RenameTmpInv, SwapInv, CacheSetInv,
     NoVerifierInv, FallbackListInv, FallbackGetInv, FallbackGetFailsInv, FallbackVerifyInv, FallbackRefusedInv
  DEF Refresh
<1>3. ASSUME NEW x \in Calls, Begin(x) \/ VerifyReceipt(x) PROVE Inv'
  BY <1>3, BeginInv, CheckRevokedInv, LookupInv, RecheckRevokedInv, LookupAgainInv DEF VerifyReceipt
<1> QED
  BY <1>1, <1>2, <1>3, CrashInv DEF Next

----------------------------------------------------------------------------
(* The theorems *)

(***************************************************************************)
(* The invariant holds throughout.                                         *)
(***************************************************************************)
THEOREM InvariantHolds ==
  Spec => []Inv
  BY InitInv, NextInv, PTL DEF Spec

(***************************************************************************)
(* Whatever lists the endpoint serves and however refreshes overlap, fail  *)
(* and restart: a list counts as signed only if it verified, in time and   *)
(* at least as new as the record when its refresh began (a cached one:     *)
(* where refreshes do not overlap), and getKrlStatus never claims more of  *)
(* the list in force than is so.                                           *)
(***************************************************************************)
THEOREM KeyStoreReportsWhatIsInForce ==
  Spec => []InForceAsReported
<1>1. Inv => InForceAsReported
  BY DEF Inv, ActiveInv
<1> QED
  BY <1>1, InvariantHolds, PTL

(***************************************************************************)
(* The persistent record is never behind the versions in memory or a       *)
(* signed list in force, so that a restart at any await forgets neither.   *)
(***************************************************************************)
THEOREM KeyStoreRecordsFirst ==
  Spec => []RecordedBeforeAccepted
<1>1. Inv => RecordedBeforeAccepted
  BY DEF Inv, RecordInv, ActiveInv, Recorded, AtMost, RecordedBeforeAccepted
<1> QED
  BY <1>1, InvariantHolds, PTL

(***************************************************************************)
(* A receipt whose key was fetched is accepted only on a list looked at    *)
(* after the fetch.                                                        *)
(***************************************************************************)
THEOREM KeyStoreChecksAgain ==
  Spec => []FetchedKeysAreCheckedAgain
<1>1. Inv => FetchedKeysAreCheckedAgain
  BY DEF Inv, CallInv, FetchedKeysAreCheckedAgain
<1> QED
  BY <1>1, InvariantHolds, PTL

(***************************************************************************)
(* What the cached list does not guarantee against the record it does      *)
(* against the list in force: the fallback never puts an older signed list *)
(* of a publisher in the place of a newer one.                             *)
(***************************************************************************)
FallbackNeverDowngrades ==
  (active' # active /\ active'.lkg /\ active.source = "signed" /\ active'.krl.issuer = active.krl.issuer)
    => active'.krl.version >= active.krl.version

(***************************************************************************)
(* Of all the steps that change the list in force, the fallback's is held  *)
(* to FallbackNeverDowngrades by the versions in memory.                   *)
(***************************************************************************)
THEOREM KeyStoreFallbackNeverDowngrades ==
  Spec => [][FallbackNeverDowngrades]_vars
<1>1. Inv /\ [Next]_vars => [FallbackNeverDowngrades]_vars
  <2> SUFFICES ASSUME Inv, Next, active' # active, active'.lkg, active.source = "signed",
                      active'.krl.issuer = active.krl.issuer
               PROVE  active'.krl.version >= active.krl.version
    BY DEF FallbackNeverDowngrades
  <2>1. \E x \in Calls : FallbackVerify(x)
    <3>1. ~Tick /\ ~Crash
      BY DEF Tick, Crash, memory, Empty
    <3>2. ASSUME NEW x \in Calls, Begin(x) \/ VerifyReceipt(x) PROVE FALSE
      BY <3>2 DEF Begin, VerifyReceipt, CheckRevoked, RecheckRevoked, isKidRevoked, Lookup, LookupAgain, memory
    <3>3. ASSUME NEW x \in Calls, Refresh(x), ~FallbackVerify(x) PROVE FALSE
      <4>1. ~Verify(x) /\ ~Swap(x)
        BY DEF Verify, Swap, Install
      <4>2. ~FetchFails(x) /\ ~(\E keys \in KeySets, krl \in Krls : Fetch(x, keys, krl))
        BY DEF FetchFails, Fetch, memory
      <4>3. ~List(x, "list", "verify") /\ ~List(x, "fallback", "fallback_get") /\ ~ListFails(x) /\ ~VerifyFails(x)
        BY DEF List, ListFails, VerifyFails, memory
      <4>4. ~SetMark(x) /\ ~SetFails(x) /\ ~ReadWatermarks(x) /\ ~OpenTmp(x) /\ ~WriteTmp(x) /\ ~RenameTmp(x)
        BY DEF SetMark, SetFails, ReadWatermarks, OpenTmp, WriteTmp, RenameTmp, memory
      <4>5. ~CacheSet(x) /\ ~NoVerifier(x) /\ ~FallbackGet(x) /\ ~FallbackGetFails(x) /\ ~FallbackRefused(x)
        BY DEF CacheSet, NoVerifier, FallbackGet, FallbackGetFails, FallbackRefused, memory
      <4> QED
        BY <3>3, <4>1, <4>2, <4>3, <4>4, <4>5 DEF Refresh
    <3> QED
      BY <3>1, <3>2, <3>3 DEF Next
  <2> PICK x \in Calls : FallbackVerify(x)
    BY <2>1
  <2>2. active'.krl = job[x].krl /\ job[x].krl.version >= versions[job[x].krl.issuer] /\ job[x].krl \in Krls
    BY Verdicts DEF FallbackVerify, LkgVerdict, Inv, CallInv
  <2>3. active.krl.version <= versions[active.krl.issuer] /\ active.krl \in Krls /\ versions \in Versions
    BY Constants DEF Inv, TypeInv, ActiveInv
  <2> QED
    BY <2>2, <2>3, Constants DEF Versions
<1> QED
  BY <1>1, InvariantHolds, PTL DEF Spec

=============================================================================
