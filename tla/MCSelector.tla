----------------------------- MODULE MCSelector -----------------------------
(* Selector on a table of two descriptors and two worker threads; symmetry *)
(* is not used, since the run checks liveness.                             *)
EXTENDS Selector
=============================================================================
