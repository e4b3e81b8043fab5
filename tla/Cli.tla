-------------------------------- MODULE Cli --------------------------------
(***************************************************************************)
(* The command line tool (packages/cli/src/main.ts, store.ts): every       *)
(* command is a process of its own on the same few files, none of which is *)
(* locked, and a process may be killed between any two of its awaits.      *)
(* Module Evidence gives the snapshots, logs and envelopes it handles.     *)
(*                                                                         *)
(* writeFile truncates and then fills.  An append is one write; killed in  *)
(* the middle it leaves part of a line.  The engine's decision is that of  *)
(* module PolicyEngine with windows that outlast the model's clock: a      *)
(* launch spends one unit and is told apart by its nonce.                  *)
(* One module of proofs extends this module and Gateway, so the two share  *)
(* no name: hence clock, Continue, CliInit, CliNext and CliSpec.           *)
(***************************************************************************)
EXTENDS Evidence

CONSTANTS
  Procs,        \* processes that can be alive at the same time
  Policies,     \* contents of policy.json, files that need not be tidy
  Nonces,       \* --nonce
  Ttls,         \* values of OXDEAI_AUTH_TTL_SECONDS
  Launches,     \* the nonces and lifetimes that launches are given together
  Holders,      \* issuers that sign envelopes, each with a key of its name
  VerifyFlags,  \* --mode, --trusted-keyset, --require-signature, ...
  Commands,     \* the commands with several awaits that are run
  Inspections,  \* the commands with one read
  MaxRuns, MaxNow,
  MaxFaults     \* processes killed and files altered

ASSUME CliConfig ==
  /\ {MaxRuns, MaxNow, MaxFaults} \subseteq Nat
  /\ Launches \subseteq Nonces \X Ttls /\ Nonces \subseteq Int
  /\ \A q \in Policies : WellShaped(q)
  /\ Commands \subseteq {"init", "examples init", "launch", "build", "make-envelope", "verify all"}

VARIABLES
  clock,     \* the wall clock when it was last read
  file,      \* state.json, audit.ndjson, snapshot.bin, envelope.bin
  proc,      \* the running processes
  exit,      \* the exit code of the last one that ended
  budget,    \* runs and faults left
  signed,    \* history: envelopes as a holder signed them
  printed,   \* history: nonces that launches since the last init printed ALLOW for
  overlap    \* history: init has overlapped a command ("init"), or launches each other

cliVars == <<clock, file, proc, exit, budget, signed, printed, overlap>>

Missing == [kind |-> "missing"]
Torn == [kind |-> "torn"]
Holds(content) == [kind |-> "whole", content |-> content]
Parses(f) == f.kind = "whole"

TornLine == Event("torn", NoInt, NoPolicy, NoInt)

None == [none |-> TRUE]
Idle == [cmd |-> "none", pc |-> "idle", ttl |-> 0, nonce |-> 0, flags |-> None,
         st |-> None, ev |-> <<>>, out |-> None, status |-> {}]

EXIT_CODE_OK == 0
EXIT_CODE_INVALID == 1
EXIT_CODE_USAGE == 2
EXIT_CODE_INCONCLUSIVE == 3

----------------------------------------------------------------------------
(* the engine as the commands use it *)

policyIdOf(p, s) == computePolicyId(s.version, proc[p].ttl)

\* The leaves evaluatePure requires for the agent; only their presence counts.
StateInvalid(s) ==
  NoInt \in {s.mods["BudgetModule"].limit, s.mods["BudgetModule"].cap, s.mods["ConcurrencyModule"].max,
             s.mods["RecursionDepthModule"].depth, s.mods["ToolAmplificationModule"].max,
             s.mods["ToolAmplificationModule"].window}

OrZero(n) == IF n = NoInt THEN 0 ELSE n

\* The verdicts of EXECUTE_MODULES in their order; the first denial decides.
ModuleVerdicts(s, nonce, amount) ==
  LET m == s.mods
      deny(c) == IF c THEN "DENY" ELSE "ALLOW"
  IN << deny(m["KillSwitchModule"].global),
        deny(m["AllowlistModule"].listed # <<>> /\ 1 \notin Elements(m["AllowlistModule"].listed)),
        deny(\E k \in DOMAIN m["ReplayModule"].nonces : m["ReplayModule"].nonces[k].id = nonce),
        deny(m["RecursionDepthModule"].depth < 0),
        IF OrZero(m["ConcurrencyModule"].active) < Cardinality(m["ConcurrencyModule"].auths) THEN "STATE_INVALID"
        ELSE deny(OrZero(m["ConcurrencyModule"].active) >= m["ConcurrencyModule"].max),
        deny(OrZero(m["BudgetModule"].spent) + amount > m["BudgetModule"].limit \/ amount > m["BudgetModule"].cap),
        IF m["VelocityModule"].window <= 0 \/ m["VelocityModule"].max < 0 THEN "STATE_INVALID"
        ELSE deny(OrZero(m["VelocityModule"].count) >= m["VelocityModule"].max) >>

runDecisionModules(s, nonce, amount) ==
  LET verdicts == ModuleVerdicts(s, nonce, amount)
      denials == {k \in DOMAIN verdicts : verdicts[k] # "ALLOW"}
  IN IF denials = {} THEN "ALLOW" ELSE verdicts[CHOOSE k \in denials : \A j \in denials : k <= j]

NextState(s, nonce, t) ==
  [s EXCEPT !.mods =
    [s.mods EXCEPT
      !["BudgetModule"].spent = OrZero(@) + 1,
      !["VelocityModule"].count = OrZero(@) + 1,
      !["ReplayModule"].nonces = Append(@, [id |-> nonce, ts |-> t]),
      !["ConcurrencyModule"].active = OrZero(@) + 1,
      !["ConcurrencyModule"].auths = @ \cup {nonce}]]

\* A state that cannot be hashed ends the evaluation with INTERNAL_ERROR
\* after INTENT_RECEIVED has been logged.
evaluatePure(s, nonce, amount, t, policyId) ==
  LET log(types) == [k \in DOMAIN types |-> Event(types[k], t, policyId, nonce)]
      verdict == runDecisionModules(s, nonce, amount)
  IN IF StateInvalid(s) THEN [decision |-> "STATE_INVALID", events |-> <<>>]
     ELSE IF verdict # "ALLOW" THEN [decision |-> verdict, events |-> log(<<"INTENT_RECEIVED", "DECISION">>)]
     ELSE IF exportThrows(s) THEN [decision |-> "INTERNAL_ERROR", events |-> log(<<"INTENT_RECEIVED">>)]
     ELSE [decision |-> "ALLOW", events |-> log(<<"INTENT_RECEIVED", "DECISION", "AUTH_EMITTED">>)]

\* init probes the policy with an intent that asks for nothing.
validateStateStructure(s) == evaluatePure(s, 0, 0, 0, NoPolicy).decision # "STATE_INVALID"

\* sampleState(): what examples init writes.
SampleState ==
  [version |-> "v1",
   mods |-> [id \in ModuleIds |->
     CASE id = "AllowlistModule" -> [listed |-> <<1>>]
       [] id = "BudgetModule" -> [limit |-> 9, spent |-> 0, cap |-> 9]
       [] id = "VelocityModule" -> [window |-> 60, max |-> 10, count |-> NoInt]
       [] id = "ReplayModule" -> [window |-> 3600, max |-> 256, nonces |-> <<>>]
       [] id = "ConcurrencyModule" -> [max |-> 4, active |-> NoInt, auths |-> {}]
       [] id = "RecursionDepthModule" -> [depth |-> 5]
       [] id = "ToolAmplificationModule" -> [window |-> 60, max |-> 100, calls |-> <<>>]
       [] id = "KillSwitchModule" -> [global |-> FALSE]]]

----------------------------------------------------------------------------
(* running a command *)

\* An empty directory, or one in which init has run.
CliInit ==
  /\ clock = 0
  /\ \E setup \in Policies \cup {None} :
       file = [f \in {"state", "audit", "snapshot", "envelope"} |->
                 CASE f = "state" /\ setup # None /\ validateStateStructure(setup) -> Holds(setup)
                   [] f = "audit" /\ setup # None /\ validateStateStructure(setup) -> Holds(<<>>)
                   [] OTHER -> Missing]
  /\ proc = [p \in Procs |-> Idle] /\ exit = EXIT_CODE_OK
  /\ budget = [runs |-> MaxRuns, faults |-> MaxFaults]
  /\ signed = {} /\ printed = <<>> /\ overlap = {}

Alive(p) == proc[p].pc # "idle"
NobodyRuns == \A p \in Procs : ~Alive(p)
Setup == {"init", "examples init"}
Running(cmds) == {p \in Procs : Alive(p) /\ proc[p].cmd \in cmds}

\* Which commands of the past this one may have disturbed or been disturbed by.
Overlaps(cmd) ==
  If(cmd \in Setup /\ \E p \in Procs : Alive(p), "init")
    \cup If(Running(Setup) # {}, "init")
    \cup If(cmd = "launch" /\ Running({"launch"}) # {}, "launch")

\* The first await of the commands that have more than one.
FirstStep(cmd) ==
  CASE cmd = "init" -> "policy"
    [] cmd = "examples init" -> "sample"
    [] cmd \in {"launch", "build", "make-envelope"} -> "state"
    [] cmd = "verify all" -> "snapshot"

\* A flag matters to some commands only; the others run with any one value.
Matters(S, v, relevant) == relevant \/ v = CHOOSE x \in S : TRUE

\* parseFlags and the dispatch of runCli.
Start(p) ==
  /\ ~Alive(p) /\ budget.runs > 0
  /\ \E cmd \in Commands, launch \in Launches, flags \in VerifyFlags :
       /\ Matters(Launches, launch, cmd = "launch")
       /\ Matters(VerifyFlags, flags, cmd = "verify all")
       /\ proc' = [proc EXCEPT ![p] = [Idle EXCEPT !.cmd = cmd, !.pc = FirstStep(cmd), !.nonce = launch[1],
                                                   !.ttl = launch[2], !.flags = flags]]
       /\ overlap' = overlap \cup Overlaps(cmd)
  /\ budget' = [budget EXCEPT !.runs = @ - 1]
  /\ UNCHANGED <<clock, file, exit, signed, printed>>

history == <<signed, printed, overlap>>

Continue(p, pc) == proc' = [proc EXCEPT ![p].pc = pc] /\ UNCHANGED exit
Exit(p, code) == proc' = [proc EXCEPT ![p] = Idle] /\ exit' = code
At(p, pc) == proc[p].pc = pc
Reads == UNCHANGED <<clock, file, budget, history>>

\* init reads policy.json and refuses it before it has touched a file.
ReadPolicy(p) ==
  /\ At(p, "policy")
  /\ \E policy \in Policies :
       IF validateStateStructure(policy)
       THEN proc' = [proc EXCEPT ![p].pc = "truncate", ![p].out = policy] /\ UNCHANGED exit
       ELSE Exit(p, EXIT_CODE_INVALID)
  /\ Reads

UseSample(p) ==
  /\ At(p, "sample")
  /\ proc' = [proc EXCEPT ![p].pc = "truncate", ![p].out = SampleState]
  /\ UNCHANGED exit /\ Reads

\* Mutant: the state that is written back is the one that was read.
Launch_KeepsState(p, s) ==
  LET r == evaluatePure(s, proc[p].nonce, 1, clock', policyIdOf(p, s))
  IN /\ proc' = [proc EXCEPT ![p].pc = "append", ![p].ev = r.events, ![p].status = {r.decision}, ![p].out = s]
     /\ UNCHANGED exit

Launch(p, s) ==
  LET n == proc[p].nonce
      r == evaluatePure(s, n, 1, clock', policyIdOf(p, s))
  IN /\ proc' = [proc EXCEPT ![p].pc = "append", ![p].ev = r.events, ![p].status = {r.decision},
                             ![p].out = IF r.decision = "ALLOW" THEN NextState(s, n, clock') ELSE None]
     /\ UNCHANGED exit

Build(p, s) ==
  IF exportThrows(s) THEN Exit(p, EXIT_CODE_INVALID)
  ELSE proc' = [proc EXCEPT ![p].pc = "truncate", ![p].out = exportState(s, policyIdOf(p, s))] /\ UNCHANGED exit

\* The state of a command is what one read of the file gave it.  Only a launch
\* looks at the clock, and only here: time passes when it does.
ReadState(p) ==
  /\ At(p, "state")
  /\ UNCHANGED <<file, budget, history>>
  /\ clock' \in IF proc[p].cmd = "launch" THEN clock..MaxNow ELSE {clock}
  /\ LET f == file["state"]
         s == f.content
         cmd == proc[p].cmd
     IN IF ~Parses(f) THEN Exit(p, EXIT_CODE_INVALID)
        ELSE CASE cmd = "launch" -> Launch(p, s)
               [] cmd = "build" -> Build(p, s)
               [] cmd = "make-envelope" -> proc' = [proc EXCEPT ![p].pc = "events", ![p].st = s] /\ UNCHANGED exit

AuditLines == IF file["audit"] = Missing THEN <<>> ELSE file["audit"].content
HasTornLine(lines) == \E k \in DOMAIN lines : lines[k].type = "torn"

\* What is appended after part of a line becomes the rest of that line.
AppendLines(lines, new) ==
  IF lines # <<>> /\ lines[Len(lines)].type = "torn" /\ new # <<>> THEN lines \o Tail(new) ELSE lines \o new

\* Mutant: the append is not awaited and the process may end before it is done.
AppendAudit_NotAwaited(p) ==
  /\ At(p, "append")
  /\ file' \in {file, [file EXCEPT !["audit"] = Holds(AppendLines(AuditLines, proc[p].ev))]}
  /\ IF proc[p].status = {"ALLOW"} THEN Continue(p, "truncate") ELSE Exit(p, EXIT_CODE_OK)
  /\ UNCHANGED <<clock, budget, history>>

\* Only an ALLOW goes on to write the state.
AppendAudit(p) ==
  /\ At(p, "append")
  /\ file' = IF proc[p].ev = <<>> THEN file
             ELSE [file EXCEPT !["audit"] = Holds(AppendLines(AuditLines, proc[p].ev))]
  /\ IF proc[p].status = {"ALLOW"} THEN Continue(p, "truncate") ELSE Exit(p, EXIT_CODE_OK)
  /\ UNCHANGED <<clock, budget, history>>

\* make-envelope reads the audit log after it has read the state.
ReadEvents(p) ==
  /\ At(p, "events") /\ Reads
  /\ LET s == proc[p].st
     IN IF HasTornLine(AuditLines) \/ exportThrows(s) THEN Exit(p, EXIT_CODE_INVALID)
        ELSE /\ proc' = [proc EXCEPT ![p].pc = "truncate", ![p].st = None,
                                     ![p].out = Envelope(exportState(s, policyIdOf(p, s)), AuditLines)]
             /\ UNCHANGED exit

Target(cmd) ==
  CASE cmd \in Setup \cup {"launch"} -> "state"
    [] cmd = "build" -> "snapshot"
    [] cmd = "make-envelope" -> "envelope"

\* writeFile, first half.
Truncate(p) ==
  /\ At(p, "truncate")
  /\ file' = [file EXCEPT ![Target(proc[p].cmd)] = Torn]
  /\ Continue(p, "fill")
  /\ UNCHANGED <<clock, budget, history>>

\* writeFile, second half, and what the command does once it is written.
Fill(p) ==
  /\ At(p, "fill")
  /\ file' = [file EXCEPT ![Target(proc[p].cmd)] = Holds(proc[p].out)]
  /\ IF proc[p].cmd \in Setup THEN Continue(p, "reset") ELSE Exit(p, EXIT_CODE_OK)
  /\ printed' = CASE proc[p].cmd \in Setup -> <<>>
                  [] proc[p].cmd = "launch" -> Append(printed, proc[p].nonce)
                  [] OTHER -> printed
  /\ UNCHANGED <<clock, budget, signed, overlap>>

ResetAudit(p) ==
  /\ At(p, "reset")
  /\ file' = [file EXCEPT !["audit"] = Holds(<<>>)]
  /\ Exit(p, EXIT_CODE_OK)
  /\ UNCHANGED <<clock, budget, history>>

verificationExitCode(status) ==
  CASE status = "ok" -> EXIT_CODE_OK
    [] status = "inconclusive" -> EXIT_CODE_INCONCLUSIVE
    [] OTHER -> EXIT_CODE_INVALID

aggregateVerificationExit(statuses) ==
  IF "invalid" \in statuses THEN EXIT_CODE_INVALID
  ELSE IF "inconclusive" \in statuses THEN EXIT_CODE_INCONCLUSIVE
  ELSE EXIT_CODE_OK

NeedsKeySet(flags) == flags.mode = "strict" /\ flags.trusted = {}

Bytes(f) == IF Parses(f) THEN f.content ELSE Garbage

\* What reading an artifact leads to; "throws" ends the command at once.
SnapshotStatus(flags) ==
  IF file["snapshot"] = Missing THEN "throws"
  ELSE verifySnapshot(Bytes(file["snapshot"]), flags.expectedPolicyId).status

AuditStatus(flags, mode) ==
  IF HasTornLine(AuditLines) THEN "throws" ELSE verifyAuditEvents(AuditLines, mode, flags.expectedPolicyId).status

EnvelopeStatus(flags) ==
  IF file["envelope"] = Missing THEN "throws"
  ELSE verifyEnvelope(Bytes(file["envelope"]), flags).status

\* verify all reads the three artifacts one after the other.
VerifyAllReads(p, next, status) ==
  IF status = "throws" \/ NeedsKeySet(proc[p].flags) THEN Exit(p, EXIT_CODE_INVALID)
  ELSE proc' = [proc EXCEPT ![p].pc = next, ![p].status = @ \cup {status}] /\ UNCHANGED exit

VerifyAllSnapshot(p) ==
  At(p, "snapshot") /\ VerifyAllReads(p, "audit", SnapshotStatus(proc[p].flags)) /\ Reads

VerifyAllAudit(p) ==
  /\ At(p, "audit") /\ Reads
  /\ VerifyAllReads(p, "envelope",
       IF file["audit"] = Missing THEN "throws" ELSE AuditStatus(proc[p].flags, proc[p].flags.mode))

VerifyAllEnvelope(p) ==
  /\ At(p, "envelope")
  /\ LET status == EnvelopeStatus(proc[p].flags)
     IN Exit(p, IF status = "throws" THEN EXIT_CODE_INVALID ELSE aggregateVerificationExit(proc[p].status \cup {status}))
  /\ Reads

\* Commands with one read end with an exit code and leave nothing behind:
\* launch dry-run, state and snapshot-hash read the state, and so does auth
\* create, whose authorization goes to a file no command here reads while the
\* state and the audit log stay as they are; verify-audit takes a missing log
\* for an empty one, verify audit does not; verify-envelope does not pass
\* --require-signature on.
ReadOnlyCode(cmd, flags) ==
  LET readable == Parses(file["state"])
      code(ok) == IF ok THEN EXIT_CODE_OK ELSE EXIT_CODE_INVALID
  IN CASE cmd \in {"state", "launch dry-run", "auth create"} -> code(readable)
       [] cmd = "snapshot-hash" -> code(readable /\ ~exportThrows(file["state"].content))
       [] cmd = "audit" -> code(~HasTornLine(AuditLines))
       [] cmd = "verify-audit" -> verificationExitCode(AuditStatus(flags, "strict"))
       [] cmd = "verify audit" ->
            IF file["audit"] = Missing THEN EXIT_CODE_INVALID ELSE verificationExitCode(AuditStatus(flags, flags.mode))
       [] cmd = "verify snapshot" -> verificationExitCode(SnapshotStatus(flags))
       [] cmd \in {"verify envelope", "verify-envelope"} ->
            IF NeedsKeySet(flags) THEN EXIT_CODE_INVALID
            ELSE verificationExitCode(EnvelopeStatus(IF cmd = "verify envelope" THEN flags
                                                     ELSE [flags EXCEPT !.requireSig = FALSE]))
       [] cmd = "inspect snapshot" -> code(assertCanonicalState(Bytes(file["snapshot"])))
       [] cmd = "inspect audit" -> code(file["audit"] # Missing /\ ~HasTornLine(AuditLines))
       [] cmd = "inspect envelope" ->
            LET env == Bytes(file["envelope"]) IN code(assertEnvelope(env) /\ assertCanonicalState(env.snapshot))

\* What they report depends on the files alone.
ReadOnly ==
  /\ NobodyRuns
  /\ exit' \in {ReadOnlyCode(cmd, flags) : cmd \in Inspections, flags \in VerifyFlags}
  /\ UNCHANGED <<clock, file, proc, budget, history>>

\* help, paths, doctor and replay touch nothing; neither does a command line
\* with an unknown flag or command or a flag without its value.
NoFiles ==
  /\ NobodyRuns
  /\ exit' \in {EXIT_CODE_OK, EXIT_CODE_USAGE}
  /\ UNCHANGED <<clock, file, proc, budget, history>>

----------------------------------------------------------------------------
(* what happens around the commands *)

\* A process is killed between two awaits, or while it appends; one that has
\* only read so far leaves nothing behind.
Kill(p) ==
  /\ proc[p].pc \in {"append", "truncate", "fill", "reset"} /\ budget.faults > 0
  /\ proc' = [proc EXCEPT ![p] = Idle]
  /\ budget' = [budget EXCEPT !.faults = @ - 1]
  /\ \/ UNCHANGED file
     \/ /\ At(p, "append")
        /\ \E n \in 1..Len(proc[p].ev) :
             file' = [file EXCEPT !["audit"] = Holds(AppendLines(AuditLines, SubSeq(proc[p].ev, 1, n - 1) \o <<TornLine>>))]
  /\ UNCHANGED <<clock, exit, history>>

\* A holder signs the envelope, with the library or a tool of its own.
Sign(h) ==
  /\ NobodyRuns /\ Parses(file["envelope"]) /\ ~hasSignature(file["envelope"].content)
  /\ LET env == signEnvelopeEd25519(file["envelope"].content, h)
     IN file' = [file EXCEPT !["envelope"] = Holds(env)] /\ signed' = signed \cup {env}
  /\ UNCHANGED <<clock, proc, exit, budget, printed, overlap>>

\* An editor adds a field to a line, drops it or swaps it with the next.
Edits(events) ==
  {[events EXCEPT ![k].extra = TRUE] : k \in DOMAIN events}
    \cup {[events EXCEPT ![k] = events[k + 1], ![k + 1] = events[k]] : k \in 1..(Len(events) - 1)}
    \cup {SubSeq(events, 1, k - 1) \o SubSeq(events, k + 1, Len(events)) : k \in DOMAIN events}

\* Or empties a policyId, or adds a checkpoint after the lines there are, whose
\* hash need not look like one.
Rewordings(events) ==
  {[events EXCEPT ![k].policyId = EmptyPolicy] : k \in DOMAIN events}
    \cup {Append(events, Event("STATE_CHECKPOINT", clock, NoPolicy, hash)) :
            hash \in {h \in {0, Bad} : events # <<>>}}

\* Files are edited by hand, mixed up or damaged on the way to the verifier.
Alter ==
  /\ NobodyRuns
  /\ budget.faults > 0 /\ budget' = [budget EXCEPT !.faults = @ - 1]
  /\ \/ /\ Parses(file["envelope"])
        /\ LET env == file["envelope"].content
           IN \/ \E events \in Edits(env.events) : file' = [file EXCEPT !["envelope"].content.events = events]
              \/ Parses(file["snapshot"]) /\ file' = [file EXCEPT !["envelope"].content.snapshot = file["snapshot"].content]
              \/ file' = [file EXCEPT !["envelope"].content.signature = Unsigned]
        /\ UNCHANGED overlap
     \/ /\ file["audit"] # Missing
        /\ \E lines \in Edits(AuditLines) \cup Rewordings(AuditLines) : file' = [file EXCEPT !["audit"].content = lines]
        /\ overlap' = overlap \cup {"altered"}
  /\ UNCHANGED <<clock, proc, exit, signed, printed>>

CliNext ==
  \/ Alter \/ ReadOnly \/ NoFiles
  \/ \E h \in Holders : Sign(h)
  \/ \E p \in Procs :
       \/ Start(p) \/ Kill(p)
       \/ ReadPolicy(p) \/ UseSample(p) \/ ReadState(p) \/ ReadEvents(p)
       \/ AppendAudit(p) \/ Truncate(p) \/ Fill(p) \/ ResetAudit(p)
       \/ VerifyAllSnapshot(p) \/ VerifyAllAudit(p) \/ VerifyAllEnvelope(p)

CliSpec == CliInit /\ [][CliNext]_cliVars

----------------------------------------------------------------------------
(* properties *)

Blank == [version |-> "v1", mods |-> [id \in ModuleIds |-> Default(id)]]
SeededNonces == UNION {{q.mods["ReplayModule"].nonces[k].id : k \in DOMAIN q.mods["ReplayModule"].nonces} : q \in Policies}

\* make-envelope reads the state and then the log, and a launch appends to the
\* log before it writes the state: whatever runs at the same time and whoever
\* is killed, every admission that an envelope's snapshot contains is recorded
\* among the envelope's events, as long as no init ran beside another command.
EnvelopeCoversSnapshot ==
  [][ \A p \in Procs :
        (Fill(p) /\ proc[p].cmd = "make-envelope" /\ overlap \subseteq {"launch"}) =>
          LET env == proc[p].out
              nonces == env.snapshot.modules["ReplayModule"].part.nonces
          IN \A k \in DOMAIN nonces :
               \/ nonces[k].id \in SeededNonces
               \/ \E j \in DOMAIN env.events : env.events[j].type = "AUTH_EMITTED" /\ env.events[j].ref = nonces[k].id ]_cliVars

\* When launches do not overlap, ALLOW is printed at most once for a nonce
\* until the next init: a launch writes the state that knows the nonce before
\* it prints, so neither a kill between its steps nor a retry repeats it.
AllowPrintedOncePerNonce ==
  overlap = {} => Cardinality(Elements(printed)) = Len(printed)

\* What the schema leaves open and only the replay verifier looks at.
PlainlyWritten(events) ==
  \A k \in DOMAIN events :
    /\ events[k].policyId # EmptyPolicy
    /\ events[k].type = "STATE_CHECKPOINT" => stateHashRe(events[k].ref)

\* Of a well formed log, in both modes and whatever overlapping launches or an
\* editor did to the file: what the replay verifier does not object to,
\* verifyAuditEvents judges the same; the two may differ, the replay verifier
\* being the one that objects, only where a checkpoint's hash is not 64 lowercase
\* hexadecimal digits or a policyId is empty (replay/verify.ts:54,64,71-73 against
\* validate.ts:225 and verifyAuditEvents.ts:106).  And an envelope that verifies
\* with a required signature is, snapshot and events, one that a trusted holder
\* signed, whatever was edited, dropped, reordered or swapped between the
\* signing and the verification.
VerdictsHold ==
  /\ validateAuditLogJson(AuditLines) =>
       \A mode \in {"strict", "best-effort"} :
         LET audit == verifyAuditEvents(AuditLines, mode, NoPolicy)
             replay == verifyReplayEvents(AuditLines, mode, NoPolicy)
         IN /\ replay.status # "violation" => audit.status = replay.status
            /\ replay.status = "violation" /\ PlainlyWritten(AuditLines) => audit.status = "invalid"
  /\ \A flags \in VerifyFlags :
       (flags.requireSig /\ EnvelopeStatus(flags) \in {"ok", "inconclusive"})
         => file["envelope"].content \in signed

Restorable(s, id) ==
  LET snap == exportState(s, id)
      hash == computeStateHash(s, id)
      r == importState(Blank, Blank, snap, id)
      damaged(m) == importState(s, Blank, [snap EXCEPT !.modules[m].form = "text"], id)
      refused(import) == ~import.ok /\ import.current = s
      lacking(m) == [snap EXCEPT !.modules = [k \in ModuleIds \ {m} |-> snap.modules[k]]]
  IN /\ r.ok /\ computeStateHash(r.current, id) = hash
     /\ verifySnapshot(snap, id).hash = hash
     /\ \A n \in Nonces : evaluatePure(r.current, n, 1, clock, id) = evaluatePure(s, n, 1, clock, id)
     /\ \A m \in ModuleIds :
          refused(damaged(m)) /\ verifySnapshot(lacking(m), id).hash # hash

\* Every state the tool writes that can be exported is restored by importState
\* to one with the same hash, the hash verifySnapshot computes, that decides
\* every launch alike.  A snapshot with a damaged module is refused and leaves
\* the engine's state alone; one that lacks a module never verifies with the
\* hash of the whole.
RestoresWhatItExported ==
  [][ LET f == file'["state"]
      IN (f # file["state"] /\ Parses(f) /\ ~exportThrows(f.content)) =>
           Restorable(f.content, computePolicyId(f.content.version, 0)) ]_cliVars
=============================================================================
