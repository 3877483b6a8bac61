----------------------------- MODULE GpioCdevV1 -----------------------------
(***************************************************************************)
(* The character device GPIO back end for kernels before 5.10,             *)
(* gpio_cdev_v1.c.  It keeps the handle of GpioCdev and shares with it the *)
(* calls on the descriptors; its requests carry neither a clock nor a      *)
(* debounce period, and its headers may lack biases and drives.            *)
(***************************************************************************)
EXTENDS GpioCdev

CONSTANTS
  BiasBuild,      (* built against headers with GPIOHANDLE_REQUEST_BIAS_*  *)
  DriveBuild      (* built against headers with GPIOHANDLE_REQUEST_OPEN_*  *)

ASSUME BuildV1Assumption == BiasBuild \in BOOLEAN /\ DriveBuild \in BOOLEAN

-----------------------------------------------------------------------------
(* _gpio_cdev_reopen() *)

(* What reopening takes of a configuration: it caches the clock as realtime and
   leaves the debounce period at 0. *)
RequestV1(c) == [c EXCEPT !.event_clock = "realtime", !.debounce_us = 0]

BuildSupportsV1(c) ==
  /\ c.bias # "default" => BiasBuild
  /\ c.drive # "default" => DriveBuild

(* Mutant: the line is closed before the build is found not to support c. *)
ReopenV1ClosingFirst(h, c) ==
  \/ /\ ~BuildSupportsV1(c)
     /\ CloseLine(h) /\ Return(h, "UNSUPPORTED")
     /\ UNCHANGED <<chip_fd, line, cfg, tmp_fd, world>>
  \/ BuildSupportsV1(c) /\ ReopenLine(h, RequestV1(c))

ReopenV1(h, c) ==
  \/ ~BuildSupportsV1(c) /\ ReturnOnly(h, "UNSUPPORTED")
  \/ BuildSupportsV1(c) /\ ReopenLine(h, RequestV1(c))

(* A line handle for an input, an event handle for an input with edges, a line
   handle with a default value for an output: the three requests ask for what
   RequestOf() and InitialValue() say of the one request of v2, but for the clock and
   the debounce period, which they do not carry.  The open and the setters refuse any
   other clock than "realtime" and any period, so that RequestOf() asks for none; that
   such a request has the clock "realtime" is what _gpio_cdev_reopen() itself caches. *)
RequestGrantedV1(h) == RequestGranted(h)
RequestRefusedV1(h) == RequestRefused(h)

-----------------------------------------------------------------------------
(* gpio_open_advanced(), gpio_open_name_advanced() *)

OpenArgsValidV1(c) ==
  /\ c.direction \in Directions /\ c.edge \in Edges
  /\ c.bias \in Biases /\ c.drive \in Drives
  /\ c.direction # "in" => c.edge = "none"
  /\ c.direction = "in" => c.drive = "default"
  /\ c.event_clock = "realtime"

(* Mutant: a debounce period is accepted, and dropped by the request. *)
OpenSupportedAnyDebounce(c) == TRUE

OpenSupported(c) == c.debounce_us = 0

OpenChipV1(h, l, c) ==
  \/ ~OpenArgsValidV1(c) /\ ReturnOnly(h, "ARG")
  \/ OpenArgsValidV1(c) /\ ~OpenSupported(c) /\ ReturnOnly(h, "UNSUPPORTED")
  \/ /\ OpenArgsValidV1(c) /\ OpenSupported(c)
     /\ \/ ReturnOnly(h, "OPEN")
        \/ ~BuildSupportsV1(c) /\ OpenUnsupported(h, l)
        \/ BuildSupportsV1(c) /\ OpenStarted(h, l, RequestV1(c))

OpenAdvancedV1(h, l, c) == Closed(h) /\ OpenChipV1(h, l, c)

(* The lookup by name is the one of v2, over the line information of v1. *)
OpenNameV1(h, name, c) == OpenName(h, name, c) \/ Scan(h)

OpenFoundV1(h) == pc[h] = "found" /\ OpenChipV1(h, want[h], req[h])

-----------------------------------------------------------------------------
(* gpio_cdev_set_*() *)

SetterV1(h, valid, allowed, same, new) ==
  /\ Opened(h)
  /\ \/ ~valid /\ ReturnOnly(h, "ARG")
     \/ valid /\ ~allowed /\ ReturnOnly(h, "INVALID_OPERATION")
     \/ valid /\ allowed /\ same /\ ReturnOnly(h, "ok")
     \/ valid /\ allowed /\ ~same /\ ReopenV1(h, new)

SetDirectionV1(h, d) ==
  SetterV1(h, d \in Directions, TRUE, cfg[h].direction = d, Directed(cfg[h], d))

SetEdgeV1(h, e) ==
  SetterV1(h, e \in Edges, cfg[h].direction = "in", cfg[h].edge = e,
           [cfg[h] EXCEPT !.edge = e])

SetBiasV1(h, b) ==
  SetterV1(h, b \in Biases, TRUE, cfg[h].bias = b, [cfg[h] EXCEPT !.bias = b])

SetDriveV1(h, d) ==
  SetterV1(h, d \in Drives, cfg[h].direction = "out" \/ d = "default", cfg[h].drive = d,
           [cfg[h] EXCEPT !.drive = d])

SetInvertedV1(h, i) ==
  SetterV1(h, TRUE, TRUE, cfg[h].inverted = i, [cfg[h] EXCEPT !.inverted = i])

(* Realtime is accepted on an output too; a debounce period never is, not even
   the present one of 0. *)
SetEventClockV1(h, c) ==
  Opened(h) /\ ReturnOnly(h, IF c = "realtime" THEN "ok" ELSE "UNSUPPORTED")

SetDebounceV1(h, us) == Opened(h) /\ ReturnOnly(h, "UNSUPPORTED")

-----------------------------------------------------------------------------
(* gpio_cdev_poll() and the calls that are those of v2 *)

(* A line handle has no events of its own to poll for: the kernel reports its
   descriptor ready at once. *)
PollReady(h) ==
  line_fd[h] # NoFd /\ (fdt[line_fd[h]].attrs.edge = "none" \/ fdt[line_fd[h]].events # <<>>)

PollV1(h) ==
  /\ Opened(h)
  /\ \/ cfg[h].direction # "in" /\ ReturnOnly(h, "INVALID_OPERATION")
     \/ cfg[h].direction = "in" /\ ReturnOnly(h, "IO")
     \/ cfg[h].direction = "in" /\ ReturnOnly(h, IF PollReady(h) THEN "ready" ELSE "timeout")

ReadWriteV1(h) == Read(h) \/ (\E v \in {0, 1} : Write(h, v)) \/ ReadEvent(h)
CloseV1(h) == Close(h)

-----------------------------------------------------------------------------
(* Specification *)

OpenCallsV1(h) ==
  \/ \E l \in 0 .. NLines, c \in OpenConfigs : OpenAdvancedV1(h, l, c)
  \/ \E name \in NameArgs, c \in OpenConfigs : OpenNameV1(h, name, c)
  \/ OpenFoundV1(h)
  \/ RequestGrantedV1(h) \/ RequestRefusedV1(h)

SetCallsV1(h) ==
  \/ \E d \in DirectionArgs : SetDirectionV1(h, d)
  \/ \E e \in EdgeArgs : SetEdgeV1(h, e)
  \/ \E c \in ClockArgs : SetEventClockV1(h, c)
  \/ \E us \in DebounceArgs : SetDebounceV1(h, us)
  \/ \E b \in BiasArgs : SetBiasV1(h, b)
  \/ \E d \in DriveArgs : SetDriveV1(h, d)
  \/ \E i \in InvertedArgs : SetInvertedV1(h, i)

IoCallsV1(h) == ReadWriteV1(h) \/ PollV1(h) \/ CloseV1(h)

NextV1 ==
  \/ \E h \in Handles : OpenCallsV1(h) \/ SetCallsV1(h) \/ IoCallsV1(h)
  \/ Outside

SpecV1 == Init /\ [][NextV1]_vars

-----------------------------------------------------------------------------
(* Properties, with those of GpioCdev *)

(* h is asked to open a line with c, directly or for a line found by name. *)
AskedToOpen(h, c) ==
  \/ \E l \in 0 .. NLines : OpenAdvancedV1(h, l, c)
  \/ pc[h] = "found" /\ req[h] = c

(* v1 cannot apply every gpio_config_t.  What it cannot apply it refuses: an open
   that goes on to its request requests the configuration it was given, and not
   what is left of it. *)
NothingDropped ==
  [][\A h \in Handles, c \in OpenConfigs :
       AskedToOpen(h, c) /\ pc'[h] = "opening" => req'[h] = c]_vars

=============================================================================
