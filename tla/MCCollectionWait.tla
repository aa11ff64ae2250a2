-------------------------- MODULE MCCollectionWait --------------------------
(* Small instances of CollectionWait.                                      *)
EXTENDS CollectionWait, TLC
CONSTANTS t1, t2, k1, k2, p1, p2, a1, a2, s1, s2, r1, r2

\* Both tasks want the same series / each its own series.
SameKey == [t \in Task |-> <<k1>>]
OwnKey == (t1 :> <<k1>>) @@ (t2 :> <<k2>>)

OnePlatform == [k \in Key |-> p1]

OneAgentPool == [p \in Platform |-> <<a1>>]
NoPool == [p \in Platform |-> <<>>]

Service == [p \in Platform |-> IF p = p1 THEN s1 ELSE s2]

RunSymmetry == Permutations(Run)
=============================================================================
