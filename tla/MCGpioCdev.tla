----------------------------- MODULE MCGpioCdev -----------------------------
(***************************************************************************)
(* Instances of GpioCdev for TLC.                                          *)
(***************************************************************************)
EXTENDS GpioCdev, TLC

(* Two lines of the chip share the name callers look up; a third name has none. *)
MCNameOf == [l \in Lines |-> "shared"]

Symmetry == Permutations(Fds) \cup Permutations(Handles)

Base == [ZeroConfig EXCEPT !.event_clock = "realtime"]

(* One of each kind gpio_open_advanced() tells apart: accepted inputs and
   outputs, and one refused by each of its checks across two fields. *)
ConfigOpenConfigs ==
  {Base,
   [Base EXCEPT !.edge = "both", !.event_clock = "hte", !.debounce_us = 1],
   [Base EXCEPT !.direction = "out_high", !.inverted = TRUE],
   [Base EXCEPT !.direction = "out", !.edge = "rising"],
   [Base EXCEPT !.direction = "out", !.debounce_us = 1],
   [Base EXCEPT !.drive = "open_drain"],
   [Base EXCEPT !.bias = "bogus"]}

ShareOpenConfigs ==
  {[Base EXCEPT !.edge = "rising"],
   [Base EXCEPT !.direction = "out"],
   [Base EXCEPT !.event_clock = "hte"],
   [Base EXCEPT !.edge = "bogus"]}

=============================================================================
