------------------------------- MODULE MCCli -------------------------------
(* Policy files, flags and bounds for the command line tool. *)
EXTENDS Cli

Launchings == {<<1, 60>>, <<2, 120>>}

\* A policy an operator wrote by hand: an allowlist with repetitions, a nonce
\* and calls out of order, entries left out.
Untidy ==
  [SampleState EXCEPT !.mods =
    [SampleState.mods EXCEPT
      !["AllowlistModule"].listed = <<2, 1, 2>>,
      !["BudgetModule"] = [limit |-> 2, spent |-> NoInt, cap |-> 1],
      !["ReplayModule"].nonces = <<[id |-> 8, ts |-> 1], [id |-> 9, ts |-> 0]>>,
      !["ToolAmplificationModule"].calls = <<[id |-> 1, ts |-> 1], [id |-> 1, ts |-> 0], [id |-> 1, ts |-> 0]>>]]

\* Accepted by init, but no snapshot of it can be made.
NoToolWindow == [SampleState EXCEPT !.mods["ToolAmplificationModule"].window = 0]

\* Refused by init.
NoVelocityWindow == [SampleState EXCEPT !.mods["VelocityModule"].window = 0]

PolicyFiles == {Untidy, NoToolWindow, NoVelocityWindow}

Flag(mode, trusted, active, requireSig, issuer, policyId) ==
  [mode |-> mode, trusted |-> trusted, active |-> active, requireSig |-> requireSig,
   expectedIssuer |-> issuer, expectedPolicyId |-> policyId]

Flags ==
  {Flag("best-effort", {"h"}, {"h"}, TRUE, Absent, NoPolicy),
   Flag("strict", {"h"}, {"h"}, TRUE, "h", computePolicyId("v1", 60)),
   Flag("strict", {}, {}, FALSE, Absent, NoPolicy)}

SeveralAwaits == {"init", "examples init", "launch", "build", "make-envelope", "verify all"}

OneRead == {"launch dry-run", "auth create", "snapshot-hash", "state", "audit", "verify-audit", "verify snapshot", "verify audit",
            "verify envelope", "verify-envelope", "inspect snapshot", "inspect audit", "inspect envelope"}

\* The last exit code decides nothing.
WithoutExit == <<clock, file, proc, budget, history>>
=============================================================================
