----------------------------- MODULE MCGpioSysfs -----------------------------
(***************************************************************************)
(* Instances of GpioSysfs for TLC.                                         *)
(***************************************************************************)
EXTENDS GpioSysfs, TLC

Symmetry == Permutations(Handles)

=============================================================================
