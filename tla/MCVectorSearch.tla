--------------------------- MODULE MCVectorSearch ---------------------------
(* Model-checking instance of VectorSearch: three similarity levels.      *)
EXTENDS VectorSearch

MCLevels == {-1, 0, 1}

=============================================================================
