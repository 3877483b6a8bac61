---------------------------- MODULE MCPeripherals ----------------------------
(***************************************************************************)
(* An instance of Peripherals for TLC: two SPI handles on one device and   *)
(* an I2C handle; one LED handle and two LEDs; one MMIO handle; a poll of  *)
(* a character device GPIO between two of sysfs.                           *)
(***************************************************************************)
EXTENDS Peripherals, TLC

Symmetry == Permutations(Fds)

(* One open of each outcome: 8-bit, 32-bit, and an invalid mode and bit order. *)
Default == [mode |-> 0, order |-> "msb", flags |-> {}, speed |-> 1, bits |-> 8]

MCSpiOpenArgs ==
  {Default,
   [Default EXCEPT !.mode = 3, !.flags = {"cs_high", "tx_dual"}],
   [Default EXCEPT !.mode = 4],
   [Default EXCEPT !.order = "none"]}

MCSpiFlags8  == {{"cs_high"}}
MCSpiFlags32 == {{"tx_dual"}}

(* The LEDs of the instance differ in their maximum. *)
MCMaxOf    == [n \in Leds |-> IF n = "lamp" THEN 1 ELSE 3]
MCTriggers == <<"none", "timer", "disk">>

(* Pages of 4 bytes in an address space of 16: windows that begin and end at,
   before and after the boundaries of pages, the empty one and ones whose end wraps. *)
MCBases   == {0, 3, 4, 6, 11, 15}
MCSizes   == {0, 1, 4, 5, 8, 15}
MCOffsets == 0 .. 15
MCLens    == {0, 1, 2, 4, 8}

=============================================================================
