----------------------------- MODULE MCRunStore -----------------------------
(* Small instances of RunStore: the sets are model values of the .cfg.  No *)
(* id is special, and no property is a liveness property, so that states   *)
(* that differ in the names of ids need to be explored once.               *)
EXTENDS RunStore, TLC

IdSymmetry == UNION {Permutations(S) : S \in {Task, Run, Key, Agent}}
=============================================================================
