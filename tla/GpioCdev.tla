------------------------------ MODULE GpioCdev ------------------------------
(***************************************************************************)
(* The character device GPIO back end, gpio_cdev_v2.c.                     *)
(*                                                                         *)
(* Every thread of one process works on a handle of its own.  A handle     *)
(* records a chip descriptor, a line descriptor and a copy of the line's   *)
(* configuration; the kernel keeps the real one with the open line.  Every *)
(* reconfiguration closes the line and requests it again, and between the  *)
(* close and the request other threads and other processes run.            *)
(***************************************************************************)
EXTENDS Naturals, Sequences, FiniteSets

CONSTANTS
  Handles,        (* gpio_t handles, each used by one thread               *)
  Fds,            (* descriptors of the process                            *)
  NoFd,           (* -1                                                    *)
  NLines,         (* lines of the chip                                     *)
  NameOf,         (* name of each line: several lines may share one        *)
  NameArgs,       (* names callers look up                                 *)
  OpenConfigs,    (* gpio_config_t values callers open with                *)
  DirectionArgs, EdgeArgs, ClockArgs, DebounceArgs, BiasArgs, DriveArgs, InvertedArgs,
                  (* arguments of the setters, invalid ones included       *)
  EventBuffer,    (* events the kernel keeps for a line (bound)            *)
  HteBuild,       (* built against headers of Linux 5.19 or later          *)
  HteKernel       (* the kernel has a hardware timestamping engine         *)

ASSUME FdAssumption == NoFd \notin Fds
ASSUME LineAssumption == NLines \in Nat \ {0} /\ EventBuffer \in Nat \ {0}
ASSUME NameAssumption == DOMAIN NameOf = 0 .. (NLines - 1)
ASSUME BuildAssumption == HteBuild \in BOOLEAN /\ HteKernel \in BOOLEAN
ASSUME ArgAssumption ==
  /\ DebounceArgs \subseteq Nat /\ InvertedArgs \subseteq BOOLEAN
  /\ OpenConfigs \subseteq
       [direction : STRING, edge : STRING, event_clock : STRING, debounce_us : Nat,
        bias : STRING, drive : STRING, inverted : BOOLEAN]

VARIABLES
  fdt,      (* kernel: the process's descriptor table                      *)
  level,    (* kernel: physical level of each line                         *)
  ext,      (* kernel: lines other processes hold                          *)
  chip_fd, line_fd, line, cfg,    (* the fields of each gpio_t             *)
  pc,       (* where the handle's thread is between two system calls       *)
  req,      (* the configuration the call in progress requests             *)
  tmp_fd,   (* gpio_open_name_advanced(): its own chip descriptor          *)
  want,     (* gpio_open_name_advanced(): the line its loop stops at       *)
  ret       (* what the handle's last call returned or delivered           *)

world  == <<level, ext>>
handle == <<chip_fd, line_fd, line, cfg>>
vars   == <<fdt, level, ext, chip_fd, line_fd, line, cfg, pc, req, tmp_fd, want, ret>>

-----------------------------------------------------------------------------
(* Types *)

Lines      == 0 .. (NLines - 1)
NoLine     == NLines                \* the loop's counter when no name matches
Directions == {"in", "out", "out_low", "out_high"}
Edges      == {"none", "rising", "falling", "both"}
Clocks     == {"realtime", "monotonic", "hte"}
Biases     == {"default", "pull_up", "pull_down", "disable"}
Drives     == {"default", "open_drain", "open_source"}
Events     == {"rising", "falling"}

Config ==
  [direction : Directions, edge : Edges, event_clock : Clocks, debounce_us : Nat,
   bias : Biases, drive : Drives, inverted : BOOLEAN]

(* What a handle caches: a direction without its initial level. *)
CachedConfigs == {c \in Config : c.direction \in {"in", "out"}}

(* memset(gpio, 0, sizeof(gpio_t)) *)
ZeroConfig ==
  [direction |-> "in", edge |-> "none", event_clock |-> "realtime", debounce_us |-> 0,
   bias |-> "default", drive |-> "default", inverted |-> FALSE]

Errors  == {"ARG", "OPEN", "NOT_FOUND", "QUERY", "UNSUPPORTED", "INVALID_OPERATION", "IO"}
Results == Errors \cup {"none", "ok", "low", "high", "ready", "timeout"} \cup Events

-----------------------------------------------------------------------------
(* The kernel: descriptors, line requests, line events *)

Free == [kind |-> "free"]
Chip == [kind |-> "chip"]
LineFile(l, attrs) == [kind |-> "line", line |-> l, attrs |-> attrs, events |-> <<>>]

FreeFds == {fd \in Fds : fdt[fd].kind = "free"}
Holds(fd, l) == fdt[fd].kind = "line" /\ fdt[fd].line = l

LineBusy(l) == l \in ext \/ \E fd \in Fds : Holds(fd, l)

(* gpio_v2_line_config validation: a drive needs an output, a clock its engine *)
KernelAccepts(attrs) ==
  /\ attrs.drive # "default" => attrs.direction = "out"
  /\ attrs.event_clock = "hte" => HteKernel

(* The physical level a logical value stands for on an active-low line, and back. *)
Physical(value, inverted) == IF inverted THEN 1 - value ELSE value

Enqueue(queue, event) ==
  Append(IF Len(queue) = EventBuffer THEN Tail(queue) ELSE queue, event)

(* The line moved to level v: the kernel reports logical edges of the kind requested. *)
Notify(file, v) ==
  LET event == IF Physical(v, file.attrs.inverted) = 1 THEN "rising" ELSE "falling" IN
  IF file.attrs.edge \in {event, "both"}
    THEN [file EXCEPT !.events = Enqueue(@, event)]
    ELSE file

-----------------------------------------------------------------------------
(* Requests: what _gpio_cdev_reopen() asks the kernel for and what it caches *)

(* The line flags and attributes of a request.  An input carries its edges, a
   clock only with an edge, and a debounce period; an output none of them. *)
RequestOf(c) ==
  IF c.direction = "in"
    THEN [c EXCEPT !.event_clock = IF c.edge = "none" THEN "monotonic" ELSE @]
    ELSE [c EXCEPT !.direction = "out", !.edge = "none",
                   !.event_clock = "monotonic", !.debounce_us = 0]

(* Mutant: the requested level is taken as a logical value. *)
InitialValueLogical(c) == IF c.direction = "out_high" THEN 1 ELSE 0

(* initial_value = (direction == GPIO_DIR_OUT_HIGH) ^ inverted *)
InitialValue(c) ==
  IF (c.direction = "out_high") # c.inverted THEN 1 ELSE 0

(* Mutant: the direction is cached as it was asked for. *)
CachedAsAsked(c) == c

(* The fields set after a successful request. *)
CachedConfig(c) == [c EXCEPT !.direction = IF @ = "in" THEN "in" ELSE "out"]

-----------------------------------------------------------------------------
(* Calls *)

Opened(h) == pc[h] = "idle" /\ chip_fd[h] # NoFd
Closed(h) == pc[h] = "idle" /\ chip_fd[h] = NoFd

(* The call of h goes on at step p with request c. *)
Continue(h, p, c) ==
  /\ pc' = [pc EXCEPT ![h] = p]
  /\ req' = [req EXCEPT ![h] = c]
  /\ ret' = [ret EXCEPT ![h] = "none"]

(* The call of h returns r. *)
Return(h, r) ==
  /\ pc' = [pc EXCEPT ![h] = "idle"]
  /\ req' = [req EXCEPT ![h] = ZeroConfig]
  /\ want' = [want EXCEPT ![h] = NoLine]
  /\ ret' = [ret EXCEPT ![h] = r]

ReturnOnly(h, r) == Return(h, r) /\ UNCHANGED <<fdt, tmp_fd, world, handle>>

(* close() of every descriptor in S: whatever object is there is released. *)
Release(S) == [fd \in Fds |-> IF fd \in S THEN Free ELSE fdt[fd]]

-----------------------------------------------------------------------------
(* _gpio_cdev_reopen(), first half: the build check and the close *)

(* Mutant: line_fd keeps the number of the closed descriptor. *)
CloseLineStale(h) == fdt' = Release({line_fd[h]}) /\ UNCHANGED line_fd

CloseLine(h) ==
  /\ fdt' = Release({line_fd[h]})
  /\ line_fd' = [line_fd EXCEPT ![h] = NoFd]

(* Mutant: the open line is reconfigured in place, as the comment at the close
   proposes, and keeps the events it queued. *)
ReopenInPlace(h, c) ==
  /\ line_fd[h] # NoFd
  /\ fdt' = [fdt EXCEPT ![line_fd[h]].attrs = RequestOf(c)]
  /\ cfg' = [cfg EXCEPT ![h] = CachedConfig(c)]
  /\ Return(h, "ok")
  /\ UNCHANGED <<line_fd, chip_fd, line, tmp_fd, world>>

(* Mutant: the handle caches the configuration before it has the line. *)
ReopenCachingFirst(h, c) ==
  /\ CloseLine(h)
  /\ cfg' = [cfg EXCEPT ![h] = CachedConfig(c)]
  /\ Continue(h, "setting", c)
  /\ UNCHANGED <<chip_fd, line, tmp_fd, want, world>>

(* The line goes; the request follows while others run. *)
ReopenLine(h, c) ==
  /\ CloseLine(h)
  /\ Continue(h, "setting", c)
  /\ UNCHANGED <<chip_fd, line, cfg, tmp_fd, want, world>>

BuildSupports(c) == c.event_clock = "hte" => HteBuild

Reopen(h, c) ==
  \/ ~BuildSupports(c) /\ ReturnOnly(h, "UNSUPPORTED")
  \/ BuildSupports(c) /\ ReopenLine(h, c)

-----------------------------------------------------------------------------
(* _gpio_cdev_reopen(), second half: the line request *)

(* The kernel grants the line: a new descriptor, an output driven to its
   initial value, and only now the cached configuration. *)
RequestGranted(h) ==
  LET c == req[h] IN
  /\ pc[h] \in {"opening", "setting"}
  /\ line[h] \in Lines /\ ~LineBusy(line[h]) /\ KernelAccepts(RequestOf(c))
  /\ \E fd \in FreeFds :
       /\ fdt' = [fdt EXCEPT ![fd] = LineFile(line[h], RequestOf(c))]
       /\ line_fd' = [line_fd EXCEPT ![h] = fd]
  /\ level' = IF c.direction = "in" THEN level
              ELSE [level EXCEPT ![line[h]] = Physical(InitialValue(c), c.inverted)]
  /\ cfg' = [cfg EXCEPT ![h] = CachedConfig(c)]
  /\ Return(h, "ok")
  /\ UNCHANGED <<ext, chip_fd, line, tmp_fd>>

(* Mutant: the chip is closed and stays recorded in the handle. *)
AbandonOpenStale(h) == fdt' = Release({chip_fd[h]}) /\ UNCHANGED chip_fd

(* gpio_open_advanced() without a line: the chip is closed again. *)
AbandonOpen(h) ==
  /\ fdt' = Release({chip_fd[h]})
  /\ chip_fd' = [chip_fd EXCEPT ![h] = NoFd]

(* The kernel refuses.  It may do so for any valid request (no memory, no
   descriptor, a driver without the bias asked for) and does so for an invalid
   one.  A setter leaves the handle without a line. *)
RequestRefused(h) ==
  /\ \/ pc[h] = "setting" /\ UNCHANGED <<fdt, chip_fd>>
     \/ pc[h] = "opening" /\ AbandonOpen(h)
  /\ Return(h, "OPEN")
  /\ UNCHANGED <<world, line_fd, line, cfg, tmp_fd>>

-----------------------------------------------------------------------------
(* gpio_open_advanced() *)

OpenArgsValid(c) ==
  /\ c.direction \in Directions /\ c.edge \in Edges /\ c.event_clock \in Clocks
  /\ c.bias \in Biases /\ c.drive \in Drives
  /\ c.direction # "in" => c.edge = "none" /\ c.debounce_us = 0
  /\ c.direction = "in" => c.drive = "default"

(* The handle after memset() and the assignments that follow it. *)
ClearHandle(h, l) ==
  /\ line_fd' = [line_fd EXCEPT ![h] = NoFd]
  /\ line' = [line EXCEPT ![h] = l]
  /\ cfg' = [cfg EXCEPT ![h] = ZeroConfig]
  /\ UNCHANGED <<tmp_fd, world>>

(* The chip is opened, the handle cleared, the build check fails and the chip is
   closed again. *)
OpenUnsupported(h, l) ==
  /\ FreeFds # {}
  /\ ClearHandle(h, l)
  /\ Return(h, "UNSUPPORTED")
  /\ UNCHANGED <<fdt, chip_fd>>

(* The chip is opened, the handle cleared, the line request follows. *)
OpenStarted(h, l, c) ==
  /\ \E fd \in FreeFds :
       /\ fdt' = [fdt EXCEPT ![fd] = Chip]
       /\ chip_fd' = [chip_fd EXCEPT ![h] = fd]
  /\ ClearHandle(h, l)
  /\ Continue(h, "opening", c)
  /\ want' = [want EXCEPT ![h] = NoLine]

(* The arguments are refused, the chip cannot be opened, or it is. *)
OpenChip(h, l, c) ==
  \/ ~OpenArgsValid(c) /\ ReturnOnly(h, "ARG")
  \/ OpenArgsValid(c) /\ ReturnOnly(h, "OPEN")
  \/ OpenArgsValid(c) /\ ~BuildSupports(c) /\ OpenUnsupported(h, l)
  \/ OpenArgsValid(c) /\ BuildSupports(c) /\ OpenStarted(h, l, c)

(* A caller opens a handle it has not opened or has closed. *)
OpenAdvanced(h, l, c) == Closed(h) /\ OpenChip(h, l, c)

-----------------------------------------------------------------------------
(* gpio_open_name_advanced() *)

(* The loop over the lines stops at the first with the name, or at their count. *)
FirstNamed(name, l) ==
  /\ l \in Lines => NameOf[l] = name
  /\ \A k \in Lines : k < l => NameOf[k] # name

ScanStarted(h, name, c) ==
  /\ \E fd \in FreeFds :
       /\ fdt' = [fdt EXCEPT ![fd] = Chip]
       /\ tmp_fd' = [tmp_fd EXCEPT ![h] = fd]
  /\ \E l \in 0 .. NLines : FirstNamed(name, l) /\ want' = [want EXCEPT ![h] = l]
  /\ Continue(h, "scanning", c)
  /\ UNCHANGED <<handle, world>>

OpenName(h, name, c) ==
  /\ Closed(h)
  /\ ReturnOnly(h, "OPEN") \/ ScanStarted(h, name, c)

(* Mutant: an unsuccessful lookup returns with its chip descriptor open. *)
ScanFailsOpen(h, r) == Return(h, r) /\ tmp_fd' = [tmp_fd EXCEPT ![h] = NoFd] /\ UNCHANGED fdt

CloseTmp(h) ==
  /\ fdt' = Release({tmp_fd[h]})
  /\ tmp_fd' = [tmp_fd EXCEPT ![h] = NoFd]

ScanFails(h, r) == Return(h, r) /\ CloseTmp(h)

(* An information query fails, no line has the name, or one is found: the
   descriptor is closed in each case. *)
Scan(h) ==
  /\ pc[h] = "scanning"
  /\ \/ ScanFails(h, "QUERY")
     \/ want[h] = NoLine /\ ScanFails(h, "NOT_FOUND")
     \/ want[h] # NoLine /\ CloseTmp(h) /\ Continue(h, "found", req[h]) /\ UNCHANGED want
  /\ UNCHANGED <<handle, world>>

OpenFound(h) == pc[h] = "found" /\ OpenChip(h, want[h], req[h])

-----------------------------------------------------------------------------
(* gpio_cdev_set_*() *)

(* A setter refuses an invalid value, then one the direction does not allow, is
   done when the cached value is the new one, and else reconfigures the line. *)
Setter(h, valid, allowed, same, new) ==
  /\ Opened(h)
  /\ \/ ~valid /\ ReturnOnly(h, "ARG")
     \/ valid /\ ~allowed /\ ReturnOnly(h, "INVALID_OPERATION")
     \/ valid /\ allowed /\ same /\ ReturnOnly(h, "ok")
     \/ valid /\ allowed /\ ~same /\ Reopen(h, new)

(* Mutant: the edge survives the change of direction. *)
DirectedKeepingEdge(c, d) == [c EXCEPT !.direction = d]

(* A change of direction drops the edge. *)
Directed(c, d) == [c EXCEPT !.direction = d, !.edge = "none"]

SetDirection(h, d) ==
  Setter(h, d \in Directions, TRUE, cfg[h].direction = d, Directed(cfg[h], d))

SetEdge(h, e) ==
  Setter(h, e \in Edges, cfg[h].direction = "in", cfg[h].edge = e,
         [cfg[h] EXCEPT !.edge = e])

SetEventClock(h, c) ==
  Setter(h, c \in Clocks, cfg[h].direction = "in", cfg[h].event_clock = c,
         [cfg[h] EXCEPT !.event_clock = c])

SetDebounce(h, us) ==
  Setter(h, TRUE, cfg[h].direction = "in", cfg[h].debounce_us = us,
         [cfg[h] EXCEPT !.debounce_us = us])

SetBias(h, b) ==
  Setter(h, b \in Biases, TRUE, cfg[h].bias = b, [cfg[h] EXCEPT !.bias = b])

SetDrive(h, d) ==
  Setter(h, d \in Drives, cfg[h].direction = "out" \/ d = "default", cfg[h].drive = d,
         [cfg[h] EXCEPT !.drive = d])

SetInverted(h, i) ==
  Setter(h, TRUE, TRUE, cfg[h].inverted = i, [cfg[h] EXCEPT !.inverted = i])

-----------------------------------------------------------------------------
(* gpio_cdev_read(), _write(), _read_event(), _poll(), _close() *)

(* A call on the line descriptor fails for a device that has gone or a signal, and
   always, with EBADF, when the handle has no line. *)
Read(h) ==
  /\ Opened(h)
  /\ \/ ReturnOnly(h, "IO")
     \/ /\ line_fd[h] # NoFd
        /\ ReturnOnly(h, IF Physical(level[line[h]], fdt[line_fd[h]].attrs.inverted) = 1
                         THEN "high" ELSE "low")

WriteLine(h, value) ==
  /\ level' = [level EXCEPT
                 ![line[h]] = Physical(value, fdt[line_fd[h]].attrs.inverted)]
  /\ Return(h, "ok")
  /\ UNCHANGED <<fdt, ext, handle, tmp_fd>>

Write(h, value) ==
  /\ Opened(h)
  /\ \/ cfg[h].direction # "out" /\ ReturnOnly(h, "INVALID_OPERATION")
     \/ cfg[h].direction = "out" /\ ReturnOnly(h, "IO")
     \/ cfg[h].direction = "out" /\ line_fd[h] # NoFd /\ WriteLine(h, value)

(* The read() blocks while no event is queued: the action is its completion. *)
TakeEvent(h) ==
  LET queue == fdt[line_fd[h]].events IN
  /\ queue # <<>>
  /\ fdt' = [fdt EXCEPT ![line_fd[h]].events = Tail(queue)]
  /\ Return(h, Head(queue))
  /\ UNCHANGED <<world, handle, tmp_fd>>

HasEdge(h) == cfg[h].direction = "in" /\ cfg[h].edge # "none"

ReadEvent(h) ==
  /\ Opened(h)
  /\ \/ ~HasEdge(h) /\ ReturnOnly(h, "INVALID_OPERATION")
     \/ HasEdge(h) /\ ReturnOnly(h, "IO")
     \/ HasEdge(h) /\ line_fd[h] # NoFd /\ TakeEvent(h)

(* poll() passes over a negative descriptor: a handle without a line times out.  A
   signal interrupts it. *)
Poll(h) ==
  /\ Opened(h)
  /\ \/ cfg[h].direction # "in" /\ ReturnOnly(h, "INVALID_OPERATION")
     \/ cfg[h].direction = "in" /\ ReturnOnly(h, "IO")
     \/ /\ cfg[h].direction = "in"
        /\ ReturnOnly(h, IF line_fd[h] = NoFd THEN "timeout"
                         ELSE IF fdt[line_fd[h]].events = <<>> THEN "timeout" ELSE "ready")

(* Closing is allowed on a handle that is not open; the edge and the direction
   are reset, the rest of the configuration stays. *)
Close(h) ==
  /\ pc[h] = "idle"
  /\ fdt' = Release({line_fd[h], chip_fd[h]})
  /\ line_fd' = [line_fd EXCEPT ![h] = NoFd]
  /\ chip_fd' = [chip_fd EXCEPT ![h] = NoFd]
  /\ cfg' = [cfg EXCEPT ![h].edge = "none", ![h].direction = "in"]
  /\ Return(h, "ok")
  /\ UNCHANGED <<world, line, tmp_fd>>

-----------------------------------------------------------------------------
(* The outside: other processes, and what drives the lines *)

ExtRequest(l) ==
  /\ ~LineBusy(l)
  /\ ext' = ext \cup {l}
  /\ UNCHANGED <<fdt, level, handle, pc, req, tmp_fd, want, ret>>

ExtRelease(l) ==
  /\ ext' = ext \ {l}
  /\ UNCHANGED <<fdt, level, handle, pc, req, tmp_fd, want, ret>>

Driven(l) == \E fd \in Fds : Holds(fd, l) /\ fdt[fd].attrs.direction = "out"

Toggle(l) ==
  /\ ~Driven(l)
  /\ level' = [level EXCEPT ![l] = 1 - @]
  /\ fdt' = [fd \in Fds |-> IF Holds(fd, l) THEN Notify(fdt[fd], 1 - level[l]) ELSE fdt[fd]]
  /\ UNCHANGED <<ext, handle, pc, req, tmp_fd, want, ret>>

-----------------------------------------------------------------------------
(* Specification *)

Init ==
  /\ fdt = [fd \in Fds |-> Free]
  /\ level = [l \in Lines |-> 0]
  /\ ext = {}
  /\ chip_fd = [h \in Handles |-> NoFd]
  /\ line_fd = [h \in Handles |-> NoFd]
  /\ line = [h \in Handles |-> 0]
  /\ cfg = [h \in Handles |-> ZeroConfig]
  /\ pc = [h \in Handles |-> "idle"]
  /\ req = [h \in Handles |-> ZeroConfig]
  /\ tmp_fd = [h \in Handles |-> NoFd]
  /\ want = [h \in Handles |-> NoLine]
  /\ ret = [h \in Handles |-> "none"]

(* A line offset of NLines is one the chip does not have. *)
OpenCalls(h) ==
  \/ \E l \in 0 .. NLines, c \in OpenConfigs : OpenAdvanced(h, l, c)
  \/ \E name \in NameArgs, c \in OpenConfigs : OpenName(h, name, c)
  \/ Scan(h) \/ OpenFound(h)
  \/ RequestGranted(h) \/ RequestRefused(h)

SetCalls(h) ==
  \/ \E d \in DirectionArgs : SetDirection(h, d)
  \/ \E e \in EdgeArgs : SetEdge(h, e)
  \/ \E c \in ClockArgs : SetEventClock(h, c)
  \/ \E us \in DebounceArgs : SetDebounce(h, us)
  \/ \E b \in BiasArgs : SetBias(h, b)
  \/ \E d \in DriveArgs : SetDrive(h, d)
  \/ \E i \in InvertedArgs : SetInverted(h, i)

IoCalls(h) ==
  \/ Read(h) \/ (\E v \in {0, 1} : Write(h, v))
  \/ ReadEvent(h) \/ Poll(h) \/ Close(h)

Outside == \E l \in Lines : ExtRequest(l) \/ ExtRelease(l) \/ Toggle(l)

Next ==
  \/ \E h \in Handles : OpenCalls(h) \/ SetCalls(h) \/ IoCalls(h)
  \/ Outside

Spec == Init /\ [][Next]_vars

-----------------------------------------------------------------------------
(* Properties *)

(* Every variable keeps its type: the handle caches only directions without an
   initial level, the kernel never holds more events than its buffer takes. *)
Attrs == {a \in Config : a.direction \in {"in", "out"}}
Files ==
  {Free, Chip} \cup
  [kind : {"line"}, line : Lines, attrs : Attrs, events : Seq(Events)]

TypeOK ==
  /\ fdt \in [Fds -> Files]
  /\ level \in [Lines -> {0, 1}]
  /\ ext \subseteq Lines
  /\ chip_fd \in [Handles -> Fds \cup {NoFd}]
  /\ line_fd \in [Handles -> Fds \cup {NoFd}]
  /\ tmp_fd \in [Handles -> Fds \cup {NoFd}]
  /\ line \in [Handles -> 0 .. NLines]
  /\ want \in [Handles -> 0 .. NLines]
  /\ cfg \in [Handles -> CachedConfigs]
  /\ pc \in [Handles -> {"idle", "scanning", "found", "opening", "setting"}]
  /\ req \in [Handles -> Config \cup OpenConfigs]
  /\ ret \in [Handles -> Results]

(* h, or its call in progress, records fd to use and close it. *)
Owns(h, fd) ==
  fd \in {chip_fd[h], line_fd[h]} \/ (pc[h] = "scanning" /\ fd = tmp_fd[h])

(* No spurious close: a recorded descriptor is the open chip, or the open line
   of this handle's offset, and no other handle records it.  Hence no close()
   of the library meets EBADF or hits an object of another owner. *)
FdOwned ==
  /\ \A h \in Handles :
       /\ line_fd[h] # NoFd => Holds(line_fd[h], line[h])
       /\ chip_fd[h] # NoFd => fdt[chip_fd[h]].kind = "chip"
       /\ pc[h] = "scanning" => tmp_fd[h] # NoFd /\ fdt[tmp_fd[h]].kind = "chip"
  /\ \A fd \in Fds : \A g, h \in Handles : Owns(g, fd) /\ Owns(h, fd) => g = h

(* No leak: on every path of every call, an open descriptor is one that some
   handle or some call in progress still records. *)
NoLeak == \A fd \in Fds \ FreeFds : \E h \in Handles : Owns(h, fd)

(* gpio_open*() is all or nothing: it returns 0 with both descriptors, or an
   error and a handle that records none, whichever step failed. *)
OpenReturns(h) == pc[h] \notin {"idle", "setting"} /\ pc'[h] = "idle"
OpenAllOrNothing ==
  [][\A h \in Handles : OpenReturns(h) =>
       IF ret'[h] = "ok" THEN NoFd \notin {chip_fd'[h], line_fd'[h]}
                         ELSE {chip_fd'[h], line_fd'[h]} = {NoFd}]_vars

(* The getters tell the truth: whatever sequence of setters succeeded or failed,
   the cached configuration of a handle that has its line is the kernel's.  An
   output has no debounce period and a line without edges no clock to compare. *)
ConfigApplied ==
  \A h \in Handles : line_fd[h] # NoFd =>
    LET kernel == fdt[line_fd[h]].attrs IN
    /\ kernel.direction = cfg[h].direction /\ kernel.edge = cfg[h].edge
    /\ kernel.bias = cfg[h].bias /\ kernel.drive = cfg[h].drive
    /\ kernel.inverted = cfg[h].inverted
    /\ kernel.direction = "in" => kernel.debounce_us = cfg[h].debounce_us
    /\ kernel.edge # "none" => kernel.event_clock = cfg[h].event_clock

(* No stale event: what gpio_read_event() and gpio_poll() find queued was raised
   under the edge configured now, never under one a setter has replaced. *)
EventsMatchEdge ==
  \A h \in Handles : line_fd[h] # NoFd =>
    LET queue == fdt[line_fd[h]].events IN
    \A i \in DOMAIN queue : cfg[h].edge \in {queue[i], "both"}

(* GPIO_DIR_OUT_HIGH and GPIO_DIR_OUT_LOW name physical levels: a request for an
   output leaves the line at the level asked for, inverted or not. *)
InitialLevelApplied ==
  [][\A h \in Handles :
       pc[h] \in {"opening", "setting"} /\ ret'[h] = "ok" /\ req[h].direction # "in" =>
         level'[line[h]] = IF req[h].direction = "out_high" THEN 1 ELSE 0]_vars

(* What reaches the kernel: an edge only with an input. *)
Requestable == {c \in Config : c.direction # "in" => c.edge = "none"}

(* What a call in progress relies on: a request that went through the argument
   checks, a chip to request from, no line that the request would replace, no
   result yet; a handle without a chip has no line, an output no edge. *)
CallOK ==
  \A h \in Handles :
    /\ pc[h] \in {"opening", "setting"} =>
         req[h] \in Requestable /\ chip_fd[h] # NoFd /\ line_fd[h] = NoFd
    /\ pc[h] \in {"scanning", "found"} => req[h] \in OpenConfigs /\ chip_fd[h] = NoFd
    /\ pc[h] # "idle" => ret[h] = "none"
    /\ chip_fd[h] = NoFd => line_fd[h] = NoFd
    /\ cfg[h] \in Requestable

(* The inductive invariant of the proofs. *)
IInv == TypeOK /\ CallOK /\ FdOwned /\ NoLeak /\ ConfigApplied /\ EventsMatchEdge

-----------------------------------------------------------------------------
(* The abstract specification *)

(* A handle as GpioLine knows it: closed until an open has its line, without its
   line while a setter requests it anew and after a request was refused. *)
GpioOf(h) ==
  IF chip_fd[h] = NoFd \/ pc[h] = "opening"
    THEN [status |-> "closed"]
  ELSE IF line_fd[h] = NoFd
    THEN [status |-> "lost", line |-> line[h], conf |-> cfg[h]]
    ELSE [status |-> "held", line |-> line[h], conf |-> cfg[h],
          events |-> fdt[line_fd[h]].events]

Abstract == INSTANCE GpioLine WITH
  Configs <- CachedConfigs,
  others <- ext,
  gpio <- [h \in Handles |-> GpioOf(h)],
  answer <- ret

(* The descriptors, the chips and the two halves of a reconfiguration stay
   hidden: to its callers, and with any other thread or process running in
   between, a gpio_t is the line of GpioLine. *)
LinePromise == Abstract!Spec

-----------------------------------------------------------------------------
(* What the documentation says *)

(* docs/gpio.md: a setter "Returns 0 on success".  It would hold a line then. *)
SetterHoldsLine ==
  [][\A h \in Handles : SetCalls(h) /\ ret'[h] = "ok" => line_fd[h] # NoFd]_vars

(* gpio.h: GPIO_DIR_OUT is "Output, initialized to low".  Setting it would leave
   the line low. *)
DirOutIsLow ==
  [][\A h \in Handles : SetDirection(h, "out") /\ ret'[h] = "ok" => level'[line[h]] = 0]_vars

=============================================================================
