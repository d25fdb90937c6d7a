----------------------------- MODULE MCRowLease -----------------------------
(* Model-checking instance of RowLease.  No symmetry: the run checks        *)
(* liveness as well.                                                        *)
EXTENDS RowLease
=============================================================================
