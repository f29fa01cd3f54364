----------------------------- MODULE MCDispatch -----------------------------
(* Instantiates Dispatch for TLC.  The cfgs start the counters at the     *)
(* int32 maximum (a value a long-running sensor reaches), so the first    *)
(* item handled in a category wraps it.                                   *)
EXTENDS Dispatch


=============================================================================
