-------------------------- MODULE MCOptimizeMutation --------------------------
(***************************************************************************)
(* OptimizeMutation for TLC: every command but the dry run of a restore,   *)
(* which differs from the dry run of an apply only in its checks.          *)
(***************************************************************************)
EXTENDS OptimizeMutation, TLC

MCCommand == {k \in Key : k.op = "restore" => k.flags \notin DryRun}

\* Providers that no run recommends play the same part.
Symmetry == Permutations(Provider \ Run)
===============================================================================
