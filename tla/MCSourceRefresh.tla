-------------------------- MODULE MCSourceRefresh --------------------------
(* Small instances of SourceRefresh.  Its workers are alike.                *)
EXTENDS SourceRefresh, TLC

CONSTANTS w1, w2

Alike == Permutations(Workers)
=============================================================================
