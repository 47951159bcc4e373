---- MODULE MCSandboxPool ----
(* SandboxPool for TLC: which handlers, workers and containers are alike.   *)
EXTENDS SandboxPool, TLC

MCSymmetry == Permutations(Workers) \union Permutations(Requests)
                \union Permutations(Containers)
====
