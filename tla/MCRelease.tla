----------------------------- MODULE MCRelease -----------------------------
(* Two packages, selected explicitly or by default, in two directories.     *)
EXTENDS Release

MCDependsOn == [p \in Pkgs |-> {q \in Pkgs : q < p}]
============================================================================
