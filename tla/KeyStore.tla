----------------------------- MODULE KeyStore -----------------------------
(***************************************************************************)
(* The Sift key store (packages/sift/src/siftKeyStore.ts): refresh() calls *)
(* that fetch signing keys and a key revocation list (KRL), check the list *)
(* against a version watermark, record the watermark, swap the in-memory   *)
(* caches and keep the list as a last-known-good (LKG) fallback; and       *)
(* receipt verifications (verifyReceipt.ts) that read those caches and     *)
(* refresh on an unknown key.                                              *)
(*                                                                         *)
(* Nothing serializes refreshes, so calls are cut at every await.  The     *)
(* watermark store is one whose set() is atomic ("atomic": the in-process  *)
(* map, or a database of the caller's), or the file-backed one ("file"),   *)
(* which is documented for a single writer and gets one here.              *)
(*                                                                         *)
(* External: the endpoints, which may serve any list they ever had, and    *)
(* the verifyKrl callback, which is wired to verifySignedKrl or absent.    *)
(***************************************************************************)
EXTENDS Integers, FiniteSets

CONSTANTS
  Calls,        \* calls made to the store, each once
  KidOf,        \* the kid a call verifies a receipt of; NoKid: a bare refresh()
  NoKid,
  Issuers,      \* KRL issuers
  Krls,         \* the lists the endpoint may serve
  KeySets,      \* the key sets the JWKS endpoint may serve
  Modes,        \* the krlMode values considered
  Stores,       \* the watermark stores considered
  HasCache,     \* a signedKrlCache is configured, and survives a restart
  Fails,        \* what may fail
  MaxTime, MaxCrashes

Forms == {"signed", "forged", "unsigned", "malformed"}

ASSUME KeyStoreConfig ==
  /\ KidOf \in [Calls -> STRING \cup {NoKid}]
  /\ \A l \in Krls : l.issuer \in Issuers /\ l.version \in Nat /\ l.not_after \in Nat
                     /\ l.form \in Forms
  /\ Modes \subseteq {"signed_required", "signed_preferred", "unsigned_legacy"}
  /\ Stores \subseteq {"none", "atomic", "file"}
  /\ Fails \subseteq {"fetch", "list", "set", "cacheSet", "cacheGet"}
  /\ HasCache \in BOOLEAN /\ MaxTime \in Nat /\ MaxCrashes \in Nat

VARIABLES
  krlMode, kind,  \* the configuration, fixed at construction
  verifyKrl,      \* a verifyKrl callback is configured
  now, crashes,
  keyCache,       \* kids with a public key
  active,         \* the list revokedKids was taken from, its source and its refresh;
                  \* lkg: it is the cached one
  versions,       \* krlVersionByIssuer
  status,         \* _krlStatus: lastIntegrity, unsignedFallbackActive, lkgCacheActive
  marks,          \* the watermark store's contents
  tmp,            \* the file-backed store's temporary file
  cache,          \* the last-known-good list
  pc,             \* where each call is
  job,            \* each call's local variables
  floor           \* history: the recorded watermarks when the call began

config == <<krlMode, kind, verifyKrl>>
memory == <<keyCache, active, versions, status>>
disk == <<marks, tmp, cache>>
vars == <<config, now, crashes, memory, disk, pc, job, floor>>

NoVersion == -1
NoMarks == [i \in Issuers |-> NoVersion]
NoFile == [i \in Issuers |-> -2]
Torn == [i \in Issuers |-> -3]          \* truncated, not yet written
NoList == [issuer |-> "none", version |-> NoVersion, revoked |-> {}, not_after |-> 0,
           form |-> "malformed"]
Empty == [krl |-> NoList, source |-> "none", by |-> "none", lkg |-> FALSE]
NoStatus == [integrity |-> "none", unsigned |-> FALSE, lkg |-> FALSE]

Idle == [at |-> 0, keys |-> {}, krl |-> NoList, listed |-> NoMarks, seen |-> Empty]

Refreshing == {"fetch", "list", "verify", "persist", "open", "write", "rename", "swap", "cache",
               "fallback", "fallback_get", "fallback_verify"}
Settled == {"done", "failed", "denied", "accepted", "crashed"}

Persistent == kind # "none"

\* A new process: an earlier one may have left a list in the cache, and its
\* version on record.
Init ==
  /\ krlMode \in Modes /\ kind \in Stores /\ verifyKrl \in BOOLEAN
  /\ krlMode = "signed_required" => verifyKrl
  /\ now = 0 /\ crashes = 0
  /\ keyCache = {} /\ active = Empty /\ versions = NoMarks
  /\ status = NoStatus
  /\ cache \in {NoList} \cup {l \in Krls : HasCache /\ l.form = "signed"}
  /\ marks = IF Persistent /\ cache # NoList THEN [NoMarks EXCEPT ![cache.issuer] = cache.version]
             ELSE NoMarks
  /\ tmp = NoFile
  /\ pc = [c \in Calls |-> "idle"]
  /\ job = [c \in Calls |-> Idle]
  /\ floor = [c \in Calls |-> NoMarks]

Goto(c, label) == pc' = [pc EXCEPT ![c] = label]

Set(c, field, value) == job' = [job EXCEPT ![c][field] = value]

Receipt(c) == KidOf[c] # NoKid

\* A single-writer store gets a single writer.
MayRefresh == kind = "file" => \A c \in Calls : pc[c] \notin Refreshing

\* A refresh that succeeded: its receipt goes on.
Finish(c) == Goto(c, IF Receipt(c) THEN "recheck" ELSE "done")

Max2(a, b) == IF a >= b THEN a ELSE b

----------------------------------------------------------------------------
(***************************************************************************)
(* verifyReceiptWithKeyStore.                                              *)
(***************************************************************************)
Begin(c) ==
  /\ pc[c] = "idle"
  /\ floor' = [floor EXCEPT ![c] = marks]
  /\ \/ /\ Receipt(c) /\ Goto(c, "check") /\ UNCHANGED job
     \/ /\ ~Receipt(c) /\ MayRefresh /\ Goto(c, "fetch") /\ Set(c, "at", now)
  /\ UNCHANGED <<config, now, crashes, memory, disk>>

isKidRevoked(c, label) ==
  /\ Set(c, "seen", active)
  /\ Goto(c, IF KidOf[c] \in active.krl.revoked THEN "denied" ELSE label)
  /\ UNCHANGED <<config, now, crashes, memory, disk, floor>>

CheckRevoked(c) == pc[c] = "check" /\ isKidRevoked(c, "lookup")

\* Mutant: the list is not looked at again after the refresh.
RecheckRevoked_Skipped(c) ==
  /\ pc[c] = "recheck"
  /\ Goto(c, "lookup_again")
  /\ UNCHANGED <<config, now, crashes, memory, disk, job, floor>>

RecheckRevoked(c) == pc[c] = "recheck" /\ isKidRevoked(c, "lookup_again")

Lookup(c) ==
  /\ pc[c] = "lookup"
  /\ \/ /\ KidOf[c] \in keyCache /\ Goto(c, "accepted") /\ UNCHANGED job
     \/ /\ KidOf[c] \notin keyCache /\ MayRefresh /\ Goto(c, "fetch") /\ Set(c, "at", now)
  /\ UNCHANGED <<config, now, crashes, memory, disk, floor>>

LookupAgain(c) ==
  /\ pc[c] = "lookup_again"
  /\ Goto(c, IF KidOf[c] \in keyCache THEN "accepted" ELSE "denied")
  /\ UNCHANGED <<config, now, crashes, memory, disk, job, floor>>

----------------------------------------------------------------------------
(***************************************************************************)
(* refresh: the fresh path.  A failure leads to the LKG fallback, if any.  *)
(***************************************************************************)
FreshFails(c) ==
  Goto(c, IF HasCache /\ krlMode # "unsigned_legacy" THEN "fallback" ELSE "failed")

Fetch(c, keys, krl) ==
  /\ pc[c] = "fetch"
  /\ job' = [job EXCEPT ![c].keys = keys, ![c].krl = krl]
  /\ Goto(c, IF Persistent /\ krlMode # "unsigned_legacy" THEN "list" ELSE "verify")
  /\ UNCHANGED <<config, now, crashes, memory, disk, floor>>

\* Network, HTTP status, JSON or JWKS shape.
FetchFails(c) ==
  /\ pc[c] = "fetch" /\ "fetch" \in Fails
  /\ FreshFails(c)
  /\ UNCHANGED <<config, now, crashes, memory, disk, job, floor>>

(***************************************************************************)
(* mergeWatermarks: list() answers, and later the answer is merged.       *)
(***************************************************************************)
List(c, from, to) ==
  /\ pc[c] = from /\ (from = "fallback" => verifyKrl)
  /\ Set(c, "listed", marks)
  /\ Goto(c, to)
  /\ UNCHANGED <<config, now, crashes, memory, disk, floor>>

ListFails(c) ==
  /\ pc[c] \in {"list", "fallback"} /\ Persistent /\ "list" \in Fails
  /\ pc[c] = "fallback" => verifyKrl
  /\ status' = [status EXCEPT !.integrity = "failed"]
  /\ IF pc[c] = "list" THEN FreshFails(c) ELSE Goto(c, "failed")
  /\ UNCHANGED <<config, now, crashes, keyCache, active, versions, disk, job, floor>>

\* Mutant: the floor on disk is not looked at.
mergeWatermarks_MemoryOnly(c) == versions

mergeWatermarks(c) == [i \in Issuers |-> Max2(versions[i], job[c].listed[i])]

(***************************************************************************)
(* processKrlForMode and runVerifyKrl: the integrity a list is accepted    *)
(* with, or "failed".                                                      *)
(***************************************************************************)
runVerifyKrl(l, t, previous) ==
  IF verifyKrl /\ l.form = "signed" /\ t < l.not_after /\ l.version >= previous[l.issuer]
  THEN "signed" ELSE "failed"

processKrlForMode(l, t, previous) ==
  IF l.form = "malformed" THEN "failed"
  ELSE IF krlMode = "unsigned_legacy" THEN "unsigned_legacy"
  ELSE IF l.form \in {"signed", "forged"} THEN runVerifyKrl(l, t, previous)
  ELSE IF krlMode = "signed_required" THEN "failed" ELSE "unsigned_fallback"

Verdict(c) == processKrlForMode(job[c].krl, job[c].at, mergeWatermarks(c))

\* Mutant: the list is put in force before its version is recorded.
NeedsMark_Never(verdict) == FALSE

NeedsMark(verdict) == Persistent /\ verdict = "signed"

(***************************************************************************)
(* The cache swap.  The recorded version overwrites the one in memory.     *)
(***************************************************************************)
FreshStatus(verdict) ==
  [integrity |-> verdict, unsigned |-> verdict = "unsigned_fallback", lkg |-> FALSE]

Install(c, verdict, merged) ==
  /\ keyCache' = job[c].keys
  /\ active' = [krl |-> job[c].krl, source |-> verdict, by |-> c, lkg |-> FALSE]
  /\ versions' = IF verdict = "signed"
                 THEN [merged EXCEPT ![job[c].krl.issuer] = job[c].krl.version]
                 ELSE merged
  /\ status' = FreshStatus(verdict)
  /\ IF HasCache /\ verdict = "signed" THEN Goto(c, "cache") ELSE Finish(c)

Verify(c) ==
  /\ pc[c] = "verify" /\ Verdict(c) # "failed"
  /\ IF NeedsMark(Verdict(c))
     THEN /\ versions' = mergeWatermarks(c)
          /\ Goto(c, "persist")
          /\ UNCHANGED <<keyCache, active, status>>
     ELSE Install(c, Verdict(c), mergeWatermarks(c))
  /\ UNCHANGED <<config, now, crashes, disk, job, floor>>

VerifyFails(c) ==
  /\ pc[c] = "verify" /\ Verdict(c) = "failed"
  /\ versions' = mergeWatermarks(c)
  /\ status' = [status EXCEPT !.integrity = "failed"]
  /\ FreshFails(c)
  /\ UNCHANGED <<config, now, crashes, keyCache, active, disk, job, floor>>

----------------------------------------------------------------------------
(***************************************************************************)
(* krlWatermarkStore.set.  The file-backed store reads the file, writes a  *)
(* temporary file and renames it over the old one.                         *)
(***************************************************************************)
Raised(c, old) == [old EXCEPT ![job[c].krl.issuer] = Max2(@, job[c].krl.version)]

SetMark(c) ==
  /\ pc[c] = "persist" /\ kind = "atomic"
  /\ marks' = Raised(c, marks)
  /\ Goto(c, "swap")
  /\ UNCHANGED <<config, now, crashes, memory, tmp, cache, job, floor>>

SetFails(c) ==
  /\ pc[c] \in {"persist", "open", "write", "rename"} /\ "set" \in Fails
  /\ \/ UNCHANGED marks
     \/ pc[c] = "persist" /\ kind = "atomic" /\ marks' = Raised(c, marks)
  /\ status' = [status EXCEPT !.integrity = "failed"]
  /\ FreshFails(c)
  /\ UNCHANGED <<config, now, crashes, keyCache, active, versions, tmp, cache, job, floor>>

ReadWatermarks(c) ==
  /\ pc[c] = "persist" /\ kind = "file"
  /\ Set(c, "listed", marks)
  /\ Goto(c, "open")
  /\ UNCHANGED <<config, now, crashes, memory, disk, floor>>

OpenTmp(c) ==
  /\ pc[c] = "open"
  /\ tmp' = Torn
  /\ Goto(c, "write")
  /\ UNCHANGED <<config, now, crashes, memory, marks, cache, job, floor>>

WriteTmp(c) ==
  /\ pc[c] = "write"
  /\ tmp' = Raised(c, job[c].listed)
  /\ Goto(c, "rename")
  /\ UNCHANGED <<config, now, crashes, memory, marks, cache, job, floor>>

RenameTmp(c) ==
  /\ pc[c] = "rename"
  /\ marks' = tmp
  /\ tmp' = NoFile
  /\ Goto(c, "swap")
  /\ UNCHANGED <<config, now, crashes, memory, cache, job, floor>>

Swap(c) ==
  /\ pc[c] = "swap"
  /\ Install(c, "signed", versions)
  /\ UNCHANGED <<config, now, crashes, disk, job, floor>>

\* A failing cache is logged and forgotten.
CacheSet(c) ==
  /\ pc[c] = "cache"
  /\ cache' = job[c].krl \/ ("cacheSet" \in Fails /\ UNCHANGED cache)
  /\ Finish(c)
  /\ UNCHANGED <<config, now, crashes, memory, marks, tmp, job, floor>>

----------------------------------------------------------------------------
(***************************************************************************)
(* _doLkgFallback: the cached list is verified again; the keys stay.       *)
(***************************************************************************)
\* Nothing could verify the cached list.
NoVerifier(c) ==
  /\ pc[c] = "fallback" /\ ~verifyKrl
  /\ status' = [status EXCEPT !.integrity = "failed"]
  /\ Goto(c, "failed")
  /\ UNCHANGED <<config, now, crashes, keyCache, active, versions, disk, job, floor>>

FallbackGet(c) ==
  /\ pc[c] = "fallback_get"
  /\ versions' = mergeWatermarks(c)
  /\ Set(c, "krl", cache)
  /\ Goto(c, IF cache = NoList THEN "failed" ELSE "fallback_verify")
  /\ UNCHANGED <<config, now, crashes, keyCache, active, status, disk, floor>>

FallbackGetFails(c) ==
  /\ pc[c] = "fallback_get" /\ "cacheGet" \in Fails
  /\ versions' = mergeWatermarks(c)
  /\ status' = [status EXCEPT !.integrity = "failed", !.lkg = FALSE]
  /\ Goto(c, "failed")
  /\ UNCHANGED <<config, now, crashes, keyCache, active, disk, job, floor>>

LkgVerdict(c) == runVerifyKrl(job[c].krl, job[c].at, versions)

FallbackVerify(c) ==
  /\ pc[c] = "fallback_verify" /\ LkgVerdict(c) = "signed"
  /\ active' = [krl |-> job[c].krl, source |-> "signed", by |-> c, lkg |-> TRUE]
  /\ versions' = [versions EXCEPT ![job[c].krl.issuer] = job[c].krl.version]
  /\ status' = [integrity |-> "signed", unsigned |-> FALSE, lkg |-> TRUE]
  /\ Finish(c)
  /\ UNCHANGED <<config, now, crashes, keyCache, disk, job, floor>>

FallbackRefused(c) ==
  /\ pc[c] = "fallback_verify" /\ LkgVerdict(c) = "failed"
  /\ status' = [NoStatus EXCEPT !.integrity = "failed"]
  /\ Goto(c, "failed")
  /\ UNCHANGED <<config, now, crashes, keyCache, active, versions, disk, job, floor>>

----------------------------------------------------------------------------
Tick ==
  /\ now < MaxTime
  /\ now' = now + 1
  /\ UNCHANGED <<config, crashes, memory, disk, pc, job, floor>>

\* The process restarts with what is on disk; an orphaned .tmp stays there.
Crash ==
  /\ crashes < MaxCrashes
  /\ crashes' = crashes + 1
  /\ keyCache' = {} /\ active' = Empty /\ versions' = NoMarks
  /\ status' = NoStatus
  /\ pc' = [c \in Calls |-> IF pc[c] = "idle" \/ pc[c] \in Settled THEN pc[c] ELSE "crashed"]
  /\ UNCHANGED <<config, now, disk, job, floor>>

Refresh(c) ==
  \/ FetchFails(c)
  \/ \E keys \in KeySets, krl \in Krls : Fetch(c, keys, krl)
  \/ List(c, "list", "verify") \/ ListFails(c)
  \/ Verify(c) \/ VerifyFails(c)
  \/ SetMark(c) \/ SetFails(c)
  \/ ReadWatermarks(c) \/ OpenTmp(c) \/ WriteTmp(c) \/ RenameTmp(c)
  \/ Swap(c) \/ CacheSet(c)
  \/ NoVerifier(c) \/ List(c, "fallback", "fallback_get") \/ FallbackGet(c) \/ FallbackGetFails(c)
  \/ FallbackVerify(c) \/ FallbackRefused(c)

VerifyReceipt(c) == CheckRevoked(c) \/ Lookup(c) \/ RecheckRevoked(c) \/ LookupAgain(c)

Next ==
  \/ \E c \in Calls : Begin(c) \/ VerifyReceipt(c) \/ Refresh(c)
  \/ Tick \/ Crash

Spec == Init /\ [][Next]_vars

----------------------------------------------------------------------------
\* What a caller can ask of the list in force.
getKrlStatus ==
  [ lastIntegrity |-> status.integrity, unsignedFallbackActive |-> status.unsigned,
    lkgCacheActive |-> status.lkg ]

(***************************************************************************)
(* A list counts as signed only if its signature verified, it had not      *)
(* expired when its refresh began, and it is no older than the version on  *)
(* record then, through restarts, overlapping refreshes and a failing      *)
(* store; signed_required has no other.  The cached list is held to the    *)
(* record only where refreshes do not overlap: while the cache is awaited, *)
(* after the record was merged, another refresh may write its older        *)
(* version over the one in memory that the cached list is compared with.   *)
(* And getKrlStatus claims nothing of the list in force that is not so: an *)
(* integrity other than "failed" is that of the list, and neither flag is  *)
(* left over from an earlier one (_mergeWatermarks and the nine updates of *)
(* the status).                                                            *)
(***************************************************************************)
InForceAsReported ==
  /\ active.source = "signed" =>
       /\ active.krl.form = "signed" /\ job[active.by].at < active.krl.not_after
       /\ ~(active.lkg /\ kind = "atomic") => active.krl.version >= floor[active.by][active.krl.issuer]
  /\ krlMode = "signed_required" => active.source \in {"none", "signed"}
  /\ cache # NoList => cache.form = "signed"
  /\ getKrlStatus.lastIntegrity \in {"failed", active.source}
  /\ getKrlStatus.unsignedFallbackActive => active.source = "unsigned_fallback"
  /\ getKrlStatus.lkgCacheActive => active.lkg

(***************************************************************************)
(* A signed list is in force only if its version was recorded first, and   *)
(* the watermark in memory is never ahead of the one on record, also when  *)
(* the process dies between the two (persist before cache swap).           *)
(***************************************************************************)
RecordedBeforeAccepted ==
  Persistent =>
    /\ \A i \in Issuers : versions[i] <= marks[i]
    /\ active.source = "signed" => active.krl.version <= marks[active.krl.issuer]

(***************************************************************************)
(* A receipt whose key had to be fetched is accepted only on a revocation  *)
(* check made after the fetch, against a list in force, whatever other     *)
(* refreshes do meanwhile (verifyReceiptWithKeyStore, step 4b).            *)
(***************************************************************************)
FetchedKeysAreCheckedAgain ==
  \A c \in Calls :
    (pc[c] = "accepted" /\ job[c].krl # NoList) =>
      /\ job[c].seen # Empty /\ KidOf[c] \notin job[c].seen.krl.revoked
      /\ krlMode = "signed_required" => job[c].seen.source = "signed"

=============================================================================
