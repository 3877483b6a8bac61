----------------------------- MODULE Peripherals -----------------------------
(***************************************************************************)
(* A process with handles of the smaller libraries, and its calls of       *)
(* gpio_poll_multiple().  SPI and I2C handles share the descriptors of the *)
(* process; the others share nothing with them or with each other, so a    *)
(* behaviour is one of the bus, of LEDs, of MMIO or of polling.            *)
(***************************************************************************)
EXTENDS Bus, Led, Mmio, GpioPoll

VARIABLE part   (* what this behaviour is about *)

vars == <<part, busVars, ledVars, mmioVars, pollVars>>

Init ==
  /\ part \in {"bus", "led", "mmio", "poll"}
  /\ BusInit /\ LedInit /\ MmioInit /\ PollInit
  /\ part # "bus" => mode32_build = (TRUE \in Mode32Builds)   (* which they ignore *)

BusPart ==
  part = "bus" /\ BusNext /\ UNCHANGED <<part, ledVars, mmioVars, pollVars>>

LedPart ==
  part = "led" /\ LedNext /\ UNCHANGED <<part, busVars, mmioVars, pollVars>>

MmioPart ==
  part = "mmio" /\ MmioNext /\ UNCHANGED <<part, busVars, ledVars, pollVars>>

PollPart ==
  part = "poll" /\ PollNext /\ UNCHANGED <<part, busVars, ledVars, mmioVars>>

Next == BusPart \/ LedPart \/ MmioPart \/ PollPart

Spec == Init /\ [][Next]_vars

=============================================================================
