-------------------------------- MODULE MCPwm --------------------------------
(***************************************************************************)
(* Instances of Pwm for TLC.                                               *)
(***************************************************************************)
EXTENDS Pwm, TLC

(* Nothing, one half, everything, and more than everything. *)
MCRatios == {<<0, 1>>, <<1, 2>>, <<1, 1>>, <<3, 2>>}

=============================================================================
