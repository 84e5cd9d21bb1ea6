--------------------------- MODULE MCSchemaUpgrade --------------------------
(* SchemaUpgrade for TLC: two processes over the databases there are. *)
EXTENDS SchemaUpgrade
=============================================================================
