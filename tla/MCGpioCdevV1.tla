---------------------------- MODULE MCGpioCdevV1 ----------------------------
(***************************************************************************)
(* An instance of GpioCdevV1 for TLC: headers with biases and without      *)
(* drives.                                                                 *)
(***************************************************************************)
EXTENDS GpioCdevV1, TLC

MCNameOf == [l \in Lines |-> "shared"]

Symmetry == Permutations(Fds) \cup Permutations(Handles)

Base == [ZeroConfig EXCEPT !.event_clock = "realtime"]

(* One per check of gpio_open_advanced(), and one each way of requesting. *)
MCOpenConfigs ==
  {[Base EXCEPT !.edge = "rising"],
   [Base EXCEPT !.direction = "out_high", !.inverted = TRUE],
   [Base EXCEPT !.direction = "out", !.drive = "open_drain"],
   [Base EXCEPT !.event_clock = "monotonic"],
   [Base EXCEPT !.debounce_us = 1]}

=============================================================================
