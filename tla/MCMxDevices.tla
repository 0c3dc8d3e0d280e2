---------------------------- MODULE MCMxDevices -----------------------------
(* Two SRAM cells and one datum: enough for a transfer that is cut short, a  *)
(* pointer at the end and a cell that differs from both fills.               *)
EXTENDS MxDevices

CONSTANTS d1, ff, zz, uu

MCData == {d1}
=============================================================================
