----------------------------- MODULE MCSchemaArc -----------------------------
(* Every combination of the twelve bits the masks look at, with and        *)
(* without a bit that no mask covers.                                      *)
EXTENDS SchemaArc

MCWords == SUBSET (0..12)
=============================================================================
