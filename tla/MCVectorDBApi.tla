---------------------------- MODULE MCVectorDBApi ----------------------------
(* Model-checking instance of VectorDBApi: three texts, matching dims.    *)
EXTENDS VectorDBApi

MCTexts == {"a", "b", "c"}

=============================================================================
