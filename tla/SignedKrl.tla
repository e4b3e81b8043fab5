----------------------------- MODULE SignedKrl -----------------------------
(***************************************************************************)
(* SignedKRLV1, the signed list of revoked keys, and its three verifiers:  *)
(* the core's verifySignedKrl, which the guard and the Sift key store use, *)
(* and the ones written again in Go and Python (go-harness/,               *)
(* python-harness/) to confirm it from outside.                            *)
(*                                                                         *)
(* A text is a string; `Absent`, `NotText` and "" stand for a missing      *)
(* field, a value of another type and the empty text.  A number is its     *)
(* value and the way it is written in JSON.  Canonicalization is           *)
(* injective: a signature is the payload it was made over, the domain, the *)
(* key, and how the bytes are encoded.  Signature algorithms are external. *)
(***************************************************************************)
EXTENDS Integers, FiniteSets, SequencesExt

Absent == "absent"
NotText == "not text"

Number(n, form) == [n |-> n, form |-> form]
Whole(n) == Number(n, "integer")

\* integer: 1; pointed: 1.0; unsafe: beyond 2^53 - 1; huge: beyond 2^63 - 1.
NumberForms == {"integer", "pointed", "fraction", "unsafe", "huge", "not a number"}

hasText(v) == v \notin {"", Absent, NotText}

Repeats(s) == \E j, k \in DOMAIN s : j < k /\ s[j] = s[k]

Ok == [status |-> "ok", violations |-> <<>>]
Invalid(codes) == [status |-> "invalid", violations |-> codes]

\* A harness that stops with an error instead of a verdict.
Fatal == [status |-> "fatal", violations |-> <<>>]

\* External: one Ed25519 verification of decoded signature bytes.
Ed25519(key, domain, payload, sig) ==
  sig.by = key.public_key /\ sig.domain = domain /\ sig.over = payload

----------------------------------------------------------------------------
(* packages/core/src/verification/verifySignedKrl.ts *)

isInteger(x) == x.form \in {"integer", "pointed", "unsafe", "huge"}
isSafeInteger(x) == x.form \in {"integer", "pointed"}

signedKrlSigningPayload(e) ==
  [version |-> e.version, issuer |-> e.issuer, krl_version |-> e.krl_version.n,
   issued_at |-> e.issued_at.n, not_after |-> e.not_after.n, revoked_kids |-> e.revoked_kids,
   nonce |-> e.nonce, alg |-> e.signature.alg, kid |-> e.signature.kid]

\* Array.find: the first index of a set of them, as a set; empty if there is none.
First(hits) == {k \in hits : \A j \in hits : k <= j}

\* The first key of a key set with this kid, as a set.
KeyIn(keys, kid) == {keys[k] : k \in First({j \in DOMAIN keys : keys[j].kid = kid /\ keys[j].alg = "Ed25519"})}

\* Only the first key set of the issuer is searched.
findKeyInKeySets(sets, issuer, kid) ==
  UNION {KeyIn(sets[s].keys, kid) : s \in First({j \in DOMAIN sets : sets[j].issuer = issuer})}

NoTime == -1
Unreadable == "unreadable"

keyIsActiveAt(key, now) ==
  /\ key.status # "revoked"
  /\ key.not_before # NoTime => now >= key.not_before
  /\ key.not_after # NoTime => now <= key.not_after

\* Canonicalization refuses integers that are not safe, and only the standard
\* encoding of the bytes is taken.
verifyEd25519(e, key) ==
  /\ e.signature.sig.enc = "base64" /\ key.public_key # Unreadable
  /\ isSafeInteger(e.issued_at) /\ isSafeInteger(e.not_after)
  /\ Ed25519(key, "OXDEAI_KRL_V1", signedKrlSigningPayload(e), e.signature.sig)

Rank == [KRL_EXPIRED |-> 1, KRL_MALFORMED |-> 2, KRL_SIGNING_KEY_INACTIVE |-> 3, KRL_SIG_INVALID |-> 4,
         KRL_UNKNOWN_SIGNING_KID |-> 5, KRL_UNSUPPORTED_ALG |-> 6, KRL_VERSION_REGRESSION |-> 7]

\* Code i comes behind code j; equal ones keep their places.
Behind(codes, i, j) ==
  LET a == Rank[codes[j]]  b == Rank[codes[i]] IN a < b \/ (a = b /\ j < i)

sortViolations(codes) ==
  LET At(k) == CHOOSE i \in DOMAIN codes : Cardinality({j \in DOMAIN codes : Behind(codes, i, j)}) = k - 1
  IN [k \in DOMAIN codes |-> codes[At(k)]]

Demand(holds, code) == IF holds THEN <<>> ELSE <<code>>

FormViolations(e) ==
  LET m(holds) == Demand(holds, "KRL_MALFORMED")
      kids == e.revoked_kids
  IN m(e.version = "SignedKRLV1") \o m(hasText(e.issuer))
       \o m(isSafeInteger(e.krl_version) /\ e.krl_version.n >= 0)
       \o m(isInteger(e.issued_at)) \o m(isInteger(e.not_after))
       \o m(e.kids_array /\ \A k \in DOMAIN kids : kids[k] # NotText)
       \o m(e.kids_array /\ (\A k \in DOMAIN kids : kids[k] # NotText) => ~Repeats(kids))
       \o m(e.nonce # NotText)

SignatureViolations(sig) ==
  LET m(holds) == Demand(holds, "KRL_MALFORMED")
  IN IF ~sig.object THEN m(FALSE)
     ELSE (IF hasText(sig.alg) THEN Demand(sig.alg = "Ed25519", "KRL_UNSUPPORTED_ALG") ELSE m(FALSE))
            \o m(hasText(sig.kid)) \o m(hasText(sig.sig.enc))

KeyViolations(e, now, sets) ==
  LET found == findKeyInKeySets(sets, e.issuer, e.signature.kid)
  IN IF found = {} THEN <<"KRL_UNKNOWN_SIGNING_KID">>
     ELSE IF \E key \in found : ~keyIsActiveAt(key, now) THEN <<"KRL_SIGNING_KEY_INACTIVE">>
     ELSE Demand(\A key \in found : verifyEd25519(e, key), "KRL_SIG_INVALID")

\* prev is previousKrlVersionByIssuer, a function on the issuers it knows.
Regresses(e, prev) == e.issuer \in DOMAIN prev /\ e.krl_version.n < prev[e.issuer]

\* Every violation of the form is reported, and only then of the contents.
verifySignedKrl(e, now, sets, prev) ==
  LET form == FormViolations(e) \o SignatureViolations(e.signature)
      contents == Demand(~Regresses(e, prev), "KRL_VERSION_REGRESSION")
                    \o Demand(now < e.not_after.n, "KRL_EXPIRED")
                    \o KeyViolations(e, now, sets)
      codes == IF form # <<>> THEN form ELSE contents
  IN IF codes = <<>> THEN Ok ELSE Invalid(sortViolations(codes))

----------------------------------------------------------------------------
(* The harnesses report the first rule that is broken. *)

Rule(holds, code) == [holds |-> holds, code |-> code]

FirstBroken(gates) ==
  LET broken == {k \in DOMAIN gates : ~gates[k].holds}
      code == gates[CHOOSE k \in broken : k \in First(broken)].code
  IN IF broken = {} THEN Ok ELSE IF code = "fatal" THEN Fatal ELSE Invalid(<<code>>)

(* go-harness/signed_krl_verify.go *)

\* The key sets of the issuer are searched until one has the key.
findKrlKey(sets, issuer, kid) ==
  LET own == {j \in DOMAIN sets : sets[j].issuer = issuer /\ KeyIn(sets[j].keys, kid) # {}}
  IN UNION {KeyIn(sets[s].keys, kid) : s \in First(own)}

\* Mutant: a key is taken as active before its time.
goKeyIsActiveAt_NoLowerBound(key, nowSec) ==
  ~(key.status = "revoked" \/ (key.not_after # NoTime /\ nowSec > key.not_after))

goKeyIsActiveAt(key, nowSec) ==
  ~ \/ key.status = "revoked"
    \/ key.not_before # NoTime /\ nowSec < key.not_before
    \/ key.not_after # NoTime /\ nowSec > key.not_after

buildKrlSigningPayload(e) ==
  [version |-> e.version, issuer |-> e.issuer, krl_version |-> e.krl_version.n,
   issued_at |-> e.issued_at.n, not_after |-> e.not_after.n, revoked_kids |-> e.revoked_kids,
   nonce |-> e.nonce, alg |-> e.signature.alg, kid |-> e.signature.kid]

isJsonNumber(x) == x.form # "not a number"
Int64(x) == x.form \in {"integer", "unsafe"}

\* canonicalize ends the run on a fraction and on an integer that is not safe.
goCanonical(e) == {e.krl_version.form, e.issued_at.form, e.not_after.form} \subseteq {"integer", "pointed"}

\* Line breaks and unused bits do not matter to DecodeString.
goDecodes(sig) == sig.enc \in {"base64", "loose"}

goVerifySignedKrl(e, nowSec, sets, prevVersions) ==
  LET sig == e.signature
      kids == e.revoked_kids
      found == findKrlKey(sets, e.issuer, sig.kid)
  IN FirstBroken(<<
       Rule(e.version = "SignedKRLV1" /\ hasText(e.issuer), "KRL_MALFORMED"),
       Rule(Int64(e.krl_version) /\ e.krl_version.n >= 0, "KRL_MALFORMED"),
       Rule(isJsonNumber(e.issued_at) /\ Int64(e.not_after), "KRL_MALFORMED"),
       Rule(e.kids_array /\ (\A k \in DOMAIN kids : kids[k] # NotText) /\ ~Repeats(kids), "KRL_MALFORMED"),
       Rule(sig.object /\ hasText(sig.alg), "KRL_MALFORMED"),
       Rule(sig.alg = "Ed25519", "KRL_UNSUPPORTED_ALG"),
       Rule(hasText(sig.kid) /\ hasText(sig.sig.enc), "KRL_MALFORMED"),
       Rule(found # {}, "KRL_UNKNOWN_SIGNING_KID"),
       Rule(\A key \in found : goKeyIsActiveAt(key, nowSec), "KRL_SIGNING_KEY_INACTIVE"),
       Rule(nowSec < e.not_after.n, "KRL_EXPIRED"),
       Rule(~Regresses(e, prevVersions), "KRL_VERSION_REGRESSION"),
       Rule((\A key \in found : key.public_key # Unreadable) /\ goCanonical(e), "fatal"),
       Rule(goDecodes(sig.sig), "KRL_SIG_INVALID"),
       Rule(\A key \in found : Ed25519(key, "OXDEAI_KRL_V1", buildKrlSigningPayload(e), sig.sig), "KRL_SIG_INVALID") >>)

\* A vector passes when the verdict is the expected one, code by code.
verifySignedKrlVectors(result, expected) ==
  /\ result.status = expected.status
  /\ Len(result.violations) = Len(expected.violations)
  /\ \A i \in DOMAIN expected.violations : result.violations[i] = expected.violations[i]

(* python-harness/verify_signed_krl_vectors.py *)

find_krl_key(sets, issuer, kid) ==
  LET own == {j \in DOMAIN sets : sets[j].issuer = issuer /\ KeyIn(sets[j].keys, kid) # {}}
  IN UNION {KeyIn(sets[s].keys, kid) : s \in First(own)}

key_is_active_at(key, now_sec) ==
  IF key.status = "revoked" THEN FALSE
  ELSE IF key.not_before # NoTime /\ now_sec < key.not_before THEN FALSE
  ELSE ~(key.not_after # NoTime /\ now_sec > key.not_after)

build_krl_signing_payload(e) ==
  [version |-> e.version, issuer |-> e.issuer, revoked_kids |-> e.revoked_kids, nonce |-> e.nonce,
   krl_version |-> e.krl_version.n, issued_at |-> e.issued_at.n, not_after |-> e.not_after.n,
   alg |-> e.signature.alg, kid |-> e.signature.kid]

is_int(x) == x.form \in {"integer", "unsafe", "huge"}

\* An integer that is not safe raises what nobody catches.
py_canonical(e) == "integer" = e.krl_version.form /\ "integer" = e.issued_at.form /\ "integer" = e.not_after.form

\* b64decode skips what is not in its alphabet.
py_decodes(sig) == sig.enc \in {"base64", "loose"}

py_verify_signed_krl(e, now_sec, sets, prev_versions) ==
  LET sig == e.signature
      found == find_krl_key(sets, e.issuer, sig.kid)
      kids == e.revoked_kids
  IN FirstBroken(<<
       Rule(e.version = "SignedKRLV1", "KRL_MALFORMED"),
       Rule(hasText(e.issuer), "KRL_MALFORMED"),
       Rule(is_int(e.krl_version) /\ e.krl_version.n >= 0, "KRL_MALFORMED"),
       Rule(is_int(e.issued_at), "KRL_MALFORMED"),
       Rule(is_int(e.not_after), "KRL_MALFORMED"),
       Rule(e.kids_array, "KRL_MALFORMED"),
       Rule(NotText \notin {kids[k] : k \in DOMAIN kids} /\ ~Repeats(kids), "KRL_MALFORMED"),
       Rule(sig.object, "KRL_MALFORMED"),
       Rule(hasText(sig.alg), "KRL_MALFORMED"),
       Rule(sig.alg = "Ed25519", "KRL_UNSUPPORTED_ALG"),
       Rule(hasText(sig.kid), "KRL_MALFORMED"),
       Rule(hasText(sig.sig.enc), "KRL_MALFORMED"),
       Rule(found # {}, "KRL_UNKNOWN_SIGNING_KID"),
       Rule(\A key_entry \in found : key_is_active_at(key_entry, now_sec), "KRL_SIGNING_KEY_INACTIVE"),
       Rule(now_sec < e.not_after.n, "KRL_EXPIRED"),
       Rule(~Regresses(e, prev_versions), "KRL_VERSION_REGRESSION"),
       Rule((\A key_entry \in found : key_entry.public_key # Unreadable) /\ py_canonical(e), "fatal"),
       Rule(py_decodes(sig.sig), "KRL_SIG_INVALID"),
       Rule(\A key_entry \in found : Ed25519(key_entry, "OXDEAI_KRL_V1", build_krl_signing_payload(e), sig.sig),
            "KRL_SIG_INVALID") >>)

pyMain(result, expected) ==
  result.status = expected.status /\ result.violations = expected.violations

----------------------------------------------------------------------------
(***************************************************************************)
(* Where the three are meant to agree: numbers written as plain integers   *)
(* that are safe, a nonce that is a text, a signature in the standard      *)
(* encoding or in none, one key set for an issuer, and readable keys.      *)
(* Outside of it they do not: the harnesses take a nonce of any type and a *)
(* loosely encoded signature, find a key in an issuer's second key set,    *)
(* refuse 1.0 where the core takes it for 1, and stop on an unsafe number. *)
(***************************************************************************)
Portable(e, sets) ==
  /\ {e.krl_version.form, e.issued_at.form, e.not_after.form} \subseteq {"integer", "not a number"}
  /\ e.nonce # NotText /\ e.signature.sig.enc # "loose"
  /\ \A j, k \in DOMAIN sets : sets[j].issuer = sets[k].issuer => j = k
  /\ \A s \in DOMAIN sets : \A k \in DOMAIN sets[s].keys : sets[s].keys[k].public_key # Unreadable
=============================================================================
