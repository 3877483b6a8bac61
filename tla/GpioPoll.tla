------------------------------ MODULE GpioPoll ------------------------------
(***************************************************************************)
(* gpio_poll_multiple(), gpio.c: one poll() over an array of GPIOs of      *)
(* either back end, then a pass over the array that can fail half way.     *)
(* Every GPIO has an edge set: a line handle of the v1 ABI, which has none, *)
(* is always ready.                                                        *)
(***************************************************************************)
EXTENDS Integers, FiniteSets

CONSTANTS
  Count,          (* the length of the array                               *)
  SysfsOnes       (* the indices in it of sysfs GPIOs                      *)

ASSUME CountAssumption == Count \in Nat /\ SysfsOnes \subseteq 1 .. Count

VARIABLES
  event,          (* kernel: the GPIOs with an event nobody consumed       *)
  lineless,       (* GPIOs whose descriptor is -1                          *)
  poll_pc,        (* where the call is: "idle", "blocked" in poll(), "pass" *)
  poll_forever,   (* its timeout is negative                               *)
  revents,        (* what poll() reported, in its local fds                *)
  poll_at,        (* the index i of the pass                               *)
  gpios_ready,    (* the GPIOs its output argument says are ready          *)
  poll_ret,       (* what it returned                                      *)
  had             (* history: GPIOs with an event at some time in the call *)

pollVars == <<event, lineless, poll_pc, poll_forever, revents, poll_at, gpios_ready, poll_ret, had>>

IoError == -1     (* GPIO_ERROR_IO; other results count GPIOs *)

-----------------------------------------------------------------------------

PollReturn(r) ==
  /\ poll_pc' = "idle"
  /\ poll_ret' = r
  /\ UNCHANGED <<event, lineless, poll_forever, revents, poll_at, had>>

(* Mutant: the output argument is not cleared first. *)
PollStartUncleared(forever) ==
  /\ poll_pc = "idle"
  /\ poll_forever' = forever
  /\ had' = event
  /\ poll_pc' = "blocked"
  /\ UNCHANGED <<event, lineless, revents, poll_at, gpios_ready, poll_ret>>

PollStart(forever) ==
  /\ poll_pc = "idle"
  /\ gpios_ready' = {}
  /\ poll_forever' = forever
  /\ had' = event
  /\ poll_pc' = "blocked"
  /\ UNCHANGED <<event, lineless, revents, poll_at, poll_ret>>

(* poll() passes over the descriptor -1. *)
PollWakes ==
  /\ poll_pc = "blocked" /\ event \ lineless # {}
  /\ revents' = event \ lineless
  /\ poll_at' = 1
  /\ poll_pc' = "pass"
  /\ UNCHANGED <<event, lineless, poll_forever, gpios_ready, poll_ret, had>>

PollTimesOut ==
  /\ poll_pc = "blocked" /\ event \ lineless = {} /\ ~poll_forever
  /\ PollReturn(0) /\ UNCHANGED gpios_ready

PollFails == poll_pc = "blocked" /\ PollReturn(IoError) /\ UNCHANGED gpios_ready

(* The pass at one index: its flag, and the rewinding of a sysfs GPIO, ready or not,
   which can fail and leave the flags that follow unset. *)
PollPass ==
  /\ poll_pc = "pass"
  /\ gpios_ready' = IF poll_at \in revents THEN gpios_ready \cup {poll_at}
                                           ELSE gpios_ready \ {poll_at}
  /\ \/ poll_at \in SysfsOnes /\ PollReturn(IoError)
     \/ poll_at = Count /\ PollReturn(Cardinality(revents))
     \/ /\ poll_at < Count
        /\ poll_at' = poll_at + 1
        /\ UNCHANGED <<event, lineless, poll_pc, poll_forever, revents, poll_ret, had>>

-----------------------------------------------------------------------------
(* Edges occur, and other threads consume them, at any time; a character device
   GPIO loses its line, or gets one again, between calls. *)

Edge(i) ==
  /\ event' = event \cup {i}
  /\ had' = had \cup {i}
  /\ UNCHANGED <<lineless, poll_pc, poll_forever, revents, poll_at, gpios_ready, poll_ret>>

ConsumeEdge(i) ==
  /\ event' = event \ {i}
  /\ UNCHANGED <<lineless, poll_pc, poll_forever, revents, poll_at, gpios_ready, poll_ret, had>>

Reopened(i) ==
  /\ poll_pc = "idle" /\ i \notin SysfsOnes
  /\ lineless' = (lineless \ {i}) \cup ({i} \ lineless)
  /\ UNCHANGED <<event, poll_pc, poll_forever, revents, poll_at, gpios_ready, poll_ret, had>>

-----------------------------------------------------------------------------

PollInit ==
  /\ event = {} /\ lineless = {} /\ revents = {} /\ gpios_ready = {} /\ had = {}
  /\ poll_pc = "idle" /\ poll_forever = FALSE /\ poll_at = 1 /\ poll_ret = 0

PollNext ==
  \/ \E forever \in BOOLEAN : PollStart(forever)
  \/ PollWakes \/ PollTimesOut \/ PollFails \/ PollPass
  \/ \E i \in 1 .. Count : Edge(i) \/ ConsumeEdge(i) \/ Reopened(i)

PollSpec == PollInit /\ [][PollNext]_pollVars

-----------------------------------------------------------------------------

(* docs/gpio.md: gpios_ready is "true for the corresponding GPIO in the `gpios` array
   if an edge event occurred", and the call returns the "number of GPIOs for which an
   edge event occurred, 0 on timeout".  The two agree, whatever occurs or is consumed
   by others meanwhile, and no call, a failed one included, reports a GPIO without
   an event since it began. *)
PollHonest ==
  poll_pc = "idle" =>
    /\ gpios_ready \subseteq had
    /\ poll_ret # IoError => poll_ret = Cardinality(gpios_ready)

=============================================================================
