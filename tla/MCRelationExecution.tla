------------------------ MODULE MCRelationExecution ------------------------
(* Small instances of RelationExecution.  Workers and tokens are alike.     *)
EXTENDS RelationExecution, TLC

CONSTANTS w1, w2, j1, j2, k1, k2, t1, t2, t3, t4

Alike == Permutations(Workers) \cup Permutations(Tokens)
=============================================================================
