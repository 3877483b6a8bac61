--------------------------- MODULE GpioCdevProofs ---------------------------
(***************************************************************************)
(* Theorems about GpioCdev, for any number of handles, descriptors and     *)
(* lines, any buffer size and any arguments.                               *)
(*                                                                         *)
(* Every step of Next is one of the few forms StepForms lists: most calls  *)
(* only return.  Each part of the inductive invariant IInv has a lemma     *)
(* with one step per form.                                                 *)
(***************************************************************************)
EXTENDS GpioCdev, TLAPS

-----------------------------------------------------------------------------
(* Requests and files *)

(* A configuration accepted by the argument checks of gpio_open_advanced(). *)
LEMMA ValidIsConfig ==
  ASSUME NEW c \in OpenConfigs, OpenArgsValid(c)
  PROVE  c \in Requestable
  BY ArgAssumption DEF OpenArgsValid, Requestable, Config

(* What a request turns into in the kernel and in the handle is well typed. *)
LEMMA RequestTypes ==
  ASSUME NEW c \in Config
  PROVE  RequestOf(c) \in Attrs /\ CachedConfig(c) \in CachedConfigs
  BY DEF RequestOf, CachedConfig, Attrs, CachedConfigs, Config, Directions, Edges, Clocks

(* The three kinds of file are told apart by their kind. *)
LEMMA FileKinds ==
  ASSUME NEW f \in Files
  PROVE  /\ f.kind \in {"free", "chip", "line"}
         /\ f.kind = "line" => /\ f \in [kind : {"line"}, line : Lines, attrs : Attrs, events : Seq(Events)]
                               /\ f.line \in Lines /\ f.attrs \in Attrs /\ f.events \in Seq(Events)
         /\ f.kind = "chip" => f = Chip
         /\ f.kind = "free" => f = Free
  BY DEF Files, Free, Chip

(* close() keeps the table well typed. *)
LEMMA ReleaseType ==
  ASSUME fdt \in [Fds -> Files], NEW S
  PROVE  Release(S) \in [Fds -> Files]
  BY DEF Release, Files

(* An event reported on a line file leaves everything but its queue. *)
LEMMA NotifyType ==
  ASSUME NEW f \in Files, f.kind = "line", NEW v \in {0, 1}
  PROVE  /\ Notify(f, v) \in Files
         /\ Notify(f, v).kind = "line" /\ Notify(f, v).line = f.line
         /\ Notify(f, v).attrs = f.attrs
<1> DEFINE event == IF Physical(v, f.attrs.inverted) = 1 THEN "rising" ELSE "falling"
           kept  == IF Len(f.events) = EventBuffer THEN Tail(f.events) ELSE f.events
<1>1. f \in [kind : {"line"}, line : Lines, attrs : Attrs, events : Seq(Events)]
  BY FileKinds
<1>2. event \in Events
  BY DEF Events
<1>3. kept \in Seq(Events)
  <2>1. f.events \in Seq(Events)
    BY <1>1
  <2>2. Len(f.events) = EventBuffer => f.events # <<>>
    BY <2>1, LineAssumption
  <2> QED BY <2>1, <2>2
<1>4. Enqueue(f.events, event) \in Seq(Events)
  BY <1>2, <1>3 DEF Enqueue
<1> QED BY <1>1, <1>4 DEF Notify, Files

-----------------------------------------------------------------------------
(* Steps *)

(* The handle has no descriptor and its thread is about to open the chip. *)
AboutToOpen(h) == pc[h] \in {"idle", "found"} /\ chip_fd[h] = NoFd

(* The step forms: what the calls of Next come down to. *)
ReturnStep(h)   == \E r \in Results : /\ pc[h] = "idle" \/ (pc[h] = "found" /\ r \in Errors)
                                      /\ ReturnOnly(h, r)
ReopenStep(h)   == \E c \in Requestable : Opened(h) /\ ReopenLine(h, c)
RefuseStep(h)   == \E l \in 0 .. NLines : AboutToOpen(h) /\ OpenUnsupported(h, l)
OpenStep(h)     == \E l \in 0 .. NLines, c \in Requestable : AboutToOpen(h) /\ OpenStarted(h, l, c)
NameStep(h)     == \E name \in NameArgs, c \in OpenConfigs : Closed(h) /\ ScanStarted(h, name, c)
WriteStep(h)    == \E v \in {0, 1} : /\ Opened(h) /\ cfg[h].direction = "out"
                                      /\ line_fd[h] # NoFd /\ WriteLine(h, v)
TakeStep(h)     == Opened(h) /\ HasEdge(h) /\ line_fd[h] # NoFd /\ TakeEvent(h)

(* One call of a handle, sorted by form. *)
CallForms(h) ==
  \/ ReturnStep(h) \/ ReopenStep(h) \/ RefuseStep(h) \/ OpenStep(h) \/ NameStep(h)
  \/ Scan(h) \/ RequestGranted(h) \/ RequestRefused(h)
  \/ WriteStep(h) \/ TakeStep(h) \/ Close(h)

(* A setter only returns, or closes the line and goes on to request a
   configuration of the right type. *)
LEMMA SetForms ==
  ASSUME IInv, NEW h \in Handles, SetCalls(h)
  PROVE  ReturnStep(h) \/ ReopenStep(h)
<1> USE DEF Setter, Opened, Reopen, ReturnStep, ReopenStep, Results, Errors
<1>0. cfg[h] \in Requestable /\ cfg[h] \in Config /\ cfg[h].direction \in {"in", "out"}
  BY DEF IInv, TypeOK, CallOK, CachedConfigs
<1>1. ASSUME NEW d \in DirectionArgs, SetDirection(h, d) PROVE ReturnStep(h) \/ ReopenStep(h)
  <2>1. d \in Directions => Directed(cfg[h], d) \in Requestable
    BY <1>0 DEF Directed, Requestable, Config, Edges
  <2> QED BY <1>1, <2>1 DEF SetDirection
<1>2. ASSUME NEW e \in EdgeArgs, SetEdge(h, e) PROVE ReturnStep(h) \/ ReopenStep(h)
  <2>1. e \in Edges /\ cfg[h].direction = "in" => [cfg[h] EXCEPT !.edge = e] \in Requestable
    BY <1>0 DEF Requestable, Config
  <2> QED BY <1>2, <2>1 DEF SetEdge
<1>3. ASSUME NEW c \in ClockArgs, SetEventClock(h, c) PROVE ReturnStep(h) \/ ReopenStep(h)
  <2>1. c \in Clocks => [cfg[h] EXCEPT !.event_clock = c] \in Requestable
    BY <1>0 DEF Requestable, Config
  <2> QED BY <1>3, <2>1 DEF SetEventClock
<1>4. ASSUME NEW us \in DebounceArgs, SetDebounce(h, us) PROVE ReturnStep(h) \/ ReopenStep(h)
  <2>1. [cfg[h] EXCEPT !.debounce_us = us] \in Requestable
    BY <1>0, ArgAssumption DEF Requestable, Config
  <2> QED BY <1>4, <2>1 DEF SetDebounce
<1>5. ASSUME NEW b \in BiasArgs, SetBias(h, b) PROVE ReturnStep(h) \/ ReopenStep(h)
  <2>1. b \in Biases => [cfg[h] EXCEPT !.bias = b] \in Requestable
    BY <1>0 DEF Requestable, Config
  <2> QED BY <1>5, <2>1 DEF SetBias
<1>6. ASSUME NEW d \in DriveArgs, SetDrive(h, d) PROVE ReturnStep(h) \/ ReopenStep(h)
  <2>1. d \in Drives => [cfg[h] EXCEPT !.drive = d] \in Requestable
    BY <1>0 DEF Requestable, Config
  <2> QED BY <1>6, <2>1 DEF SetDrive
<1>7. ASSUME NEW i \in InvertedArgs, SetInverted(h, i) PROVE ReturnStep(h) \/ ReopenStep(h)
  <2>1. [cfg[h] EXCEPT !.inverted = i] \in Requestable
    BY <1>0, ArgAssumption DEF Requestable, Config
  <2> QED BY <1>7, <2>1 DEF SetInverted
<1> QED BY <1>1, <1>2, <1>3, <1>4, <1>5, <1>6, <1>7 DEF SetCalls

(* Opening the chip, for gpio_open_advanced() and for a line found by name. *)
LEMMA OpenForms ==
  ASSUME NEW h \in Handles, AboutToOpen(h), NEW l \in 0 .. NLines, NEW c \in OpenConfigs,
         OpenChip(h, l, c)
  PROVE  ReturnStep(h) \/ RefuseStep(h) \/ OpenStep(h)
  BY ValidIsConfig
  DEF OpenChip, AboutToOpen, ReturnStep, RefuseStep, OpenStep, Results, Errors

(* Reading, writing, polling. *)
LEMMA IoForms ==
  ASSUME TypeOK, NEW h \in Handles, IoCalls(h)
  PROVE  ReturnStep(h) \/ WriteStep(h) \/ TakeStep(h) \/ Close(h)
<1> USE DEF ReturnStep, Opened, Results, Errors
<1>1. Read(h) => ReturnStep(h)
  BY DEF Read
<1>2. ASSUME NEW v \in {0, 1}, Write(h, v) PROVE ReturnStep(h) \/ WriteStep(h)
  BY <1>2 DEF Write, WriteStep
<1>3. ReadEvent(h) => ReturnStep(h) \/ TakeStep(h)
  BY DEF ReadEvent, TakeStep
<1>4. Poll(h) => ReturnStep(h)
  BY DEF Poll
<1> QED BY <1>1, <1>2, <1>3, <1>4 DEF IoCalls

(* Every call is of one of the forms. *)
LEMMA StepForms ==
  ASSUME IInv, NEW h \in Handles, OpenCalls(h) \/ SetCalls(h) \/ IoCalls(h)
  PROVE  CallForms(h)
<1> USE DEF CallForms
<1>1. ASSUME NEW l \in 0 .. NLines, NEW c \in OpenConfigs, OpenAdvanced(h, l, c) PROVE CallForms(h)
  BY <1>1, OpenForms DEF OpenAdvanced, Closed, AboutToOpen
<1>2. ASSUME NEW name \in NameArgs, NEW c \in OpenConfigs, OpenName(h, name, c) PROVE CallForms(h)
  BY <1>2 DEF OpenName, Closed, ReturnStep, NameStep, Results, Errors
<1>3. ASSUME OpenFound(h) PROVE CallForms(h)
  <2>1. req[h] \in OpenConfigs /\ want[h] \in 0 .. NLines /\ AboutToOpen(h)
    BY <1>3 DEF OpenFound, IInv, CallOK, TypeOK, AboutToOpen
  <2> QED BY <1>3, <2>1, OpenForms DEF OpenFound
<1>4. SetCalls(h) => CallForms(h)
  BY SetForms DEF IInv
<1>5. IoCalls(h) => CallForms(h)
  BY IoForms DEF IInv
<1> QED BY <1>1, <1>2, <1>3, <1>4, <1>5 DEF OpenCalls

-----------------------------------------------------------------------------
(* The parts of the invariant *)

(* A returning call leaves the bookkeeping of the calls well typed. *)
LEMMA ReturnTypes ==
  ASSUME TypeOK, NEW h \in Handles, NEW r \in Results, Return(h, r)
  PROVE  /\ pc' \in [Handles -> {"idle", "scanning", "found", "opening", "setting"}]
         /\ req' \in [Handles -> Config \cup OpenConfigs]
         /\ want' \in [Handles -> 0 .. NLines]
         /\ ret' \in [Handles -> Results]
<1>1. ZeroConfig \in Config
  BY DEF ZeroConfig, Config, Directions, Edges, Clocks, Biases, Drives
<1>2. NoLine \in 0 .. NLines
  BY LineAssumption DEF NoLine
<1> QED BY <1>1, <1>2 DEF TypeOK, Return

(* So does a call that goes on. *)
LEMMA ContinueTypes ==
  ASSUME TypeOK, NEW h \in Handles, NEW p \in {"scanning", "found", "opening", "setting"},
         NEW c \in Config \cup OpenConfigs, Continue(h, p, c)
  PROVE  /\ pc' \in [Handles -> {"idle", "scanning", "found", "opening", "setting"}]
         /\ req' \in [Handles -> Config \cup OpenConfigs]
         /\ ret' \in [Handles -> Results]
  BY DEF TypeOK, Continue, Results, Errors

(* Type correctness is preserved by every form of call. *)
LEMMA TypeOKCall ==
  ASSUME IInv, NEW h \in Handles, CallForms(h)
  PROVE  TypeOK'
<1> USE DEF IInv, world, handle
<1>0. TypeOK /\ CallOK /\ FdOwned
  OBVIOUS
<1>z. ZeroConfig \in CachedConfigs
  BY DEF ZeroConfig, CachedConfigs, Config, Directions, Edges, Clocks, Biases, Drives
<1>r. \A S : Release(S) \in [Fds -> Files]
  BY <1>0, ReleaseType DEF TypeOK
<1>c. Chip \in Files
  BY DEF Files
<1>n. NoLine \in 0 .. NLines
  BY LineAssumption DEF NoLine
<1>1. ASSUME NEW r \in Results, ReturnOnly(h, r) PROVE TypeOK'
  BY <1>0, <1>1, ReturnTypes DEF TypeOK, ReturnOnly
<1>2. ASSUME NEW c \in Requestable, ReopenLine(h, c) PROVE TypeOK'
  BY <1>0, <1>2, <1>r, ContinueTypes DEF TypeOK, ReopenLine, Requestable, CloseLine
<1>3. ASSUME NEW l \in 0 .. NLines, OpenUnsupported(h, l) PROVE TypeOK'
  BY <1>0, <1>3, <1>z, ReturnTypes DEF TypeOK, OpenUnsupported, ClearHandle, Results, Errors
<1>4. ASSUME NEW l \in 0 .. NLines, NEW c \in Requestable, OpenStarted(h, l, c) PROVE TypeOK'
  BY <1>0, <1>4, <1>z, <1>c, <1>n, ContinueTypes DEF TypeOK, OpenStarted, Requestable, ClearHandle, FreeFds
<1>5. ASSUME NEW name \in NameArgs, NEW c \in OpenConfigs, ScanStarted(h, name, c) PROVE TypeOK'
  BY <1>0, <1>5, <1>c, ContinueTypes DEF TypeOK, ScanStarted, FreeFds
<1>6. Scan(h) => TypeOK'
  BY <1>0, <1>r, ReturnTypes, ContinueTypes
  DEF TypeOK, Scan, ScanFails, CloseTmp, Results, Errors
<1>7. ASSUME RequestGranted(h) PROVE TypeOK'
  <2>1. req[h] \in Config /\ line[h] \in Lines
    BY <1>0, <1>7 DEF RequestGranted, CallOK, Requestable
  <2>2. LineFile(line[h], RequestOf(req[h])) \in Files /\ CachedConfig(req[h]) \in CachedConfigs
    BY <2>1, RequestTypes DEF LineFile, Files
  <2>3. Physical(InitialValue(req[h]), req[h].inverted) \in {0, 1}
    BY DEF Physical, InitialValue
  <2> QED BY <1>0, <1>7, <2>1, <2>2, <2>3, ReturnTypes DEF TypeOK, RequestGranted, FreeFds, Results
<1>8. RequestRefused(h) => TypeOK'
  BY <1>0, <1>r, ReturnTypes DEF TypeOK, RequestRefused, AbandonOpen, Results, Errors
<1>9. ASSUME NEW v \in {0, 1}, WriteLine(h, v) PROVE TypeOK'
  <2>1. Physical(v, fdt[line_fd[h]].attrs.inverted) \in {0, 1}
    BY DEF Physical
  <2> QED BY <1>0, <1>9, <2>1, ReturnTypes DEF TypeOK, WriteLine, Results
<1>10. ASSUME TakeStep(h) PROVE TypeOK'
  <2> DEFINE f == fdt[line_fd[h]]
  <2>1. line_fd[h] \in Fds /\ f \in Files /\ f.kind = "line"
    BY <1>0, <1>10 DEF TakeStep, TypeOK, FdOwned, Holds
  <2>2. f \in [kind : {"line"}, line : Lines, attrs : Attrs, events : Seq(Events)] /\ f.events # <<>>
    BY <1>10, <2>1, FileKinds DEF TakeStep, TakeEvent
  <2>3. Head(f.events) \in Results /\ Tail(f.events) \in Seq(Events)
    BY <2>2 DEF Results
  <2>4. [f EXCEPT !.events = Tail(f.events)] \in Files
    BY <2>2, <2>3 DEF Files
  <2>5. fdt' \in [Fds -> Files]
    BY <1>0, <1>10, <2>1, <2>4 DEF TakeStep, TakeEvent, TypeOK
  <2> QED BY <1>0, <1>10, <2>3, <2>5, ReturnTypes DEF TypeOK, TakeStep, TakeEvent
<1>11. Close(h) => TypeOK'
  <2>0. cfg[h] \in Config
    BY <1>0 DEF TypeOK, CachedConfigs
  <2>1. [cfg[h] EXCEPT !.edge = "none", !.direction = "in"] \in CachedConfigs
    BY <2>0 DEF CachedConfigs, Config, Edges, Directions
  <2> QED BY <1>0, <1>r, <2>1, ReturnTypes DEF TypeOK, Close, Results
<1> QED BY <1>1, <1>2, <1>3, <1>4, <1>5, <1>6, <1>7, <1>8, <1>9, <1>10, <1>11
        DEF CallForms, ReturnStep, ReopenStep, RefuseStep, OpenStep, NameStep, WriteStep

(* The calls in progress keep what they rely on, by every form of call. *)
LEMMA CallOKCall ==
  ASSUME IInv, TypeOK', NEW h \in Handles, CallForms(h)
  PROVE  CallOK'
<1> USE DEF IInv, TypeOK, CallOK, world, handle, Return, Continue
<1>z. ZeroConfig \in Requestable
  BY DEF ZeroConfig, Requestable, Config, Directions, Edges, Clocks, Biases, Drives
<1>1. ASSUME NEW r \in Results, ReturnOnly(h, r) PROVE CallOK'
  BY <1>1 DEF ReturnOnly
<1>2. ASSUME NEW c \in Requestable, Opened(h), ReopenLine(h, c) PROVE CallOK'
  BY <1>2 DEF Opened, ReopenLine, CloseLine
<1>3. ASSUME NEW l \in 0 .. NLines, AboutToOpen(h), OpenUnsupported(h, l) PROVE CallOK'
  BY <1>3, <1>z DEF AboutToOpen, OpenUnsupported, ClearHandle
<1>4. ASSUME NEW l \in 0 .. NLines, NEW c \in Requestable, AboutToOpen(h), OpenStarted(h, l, c)
      PROVE  CallOK'
  BY <1>4, <1>z, FdAssumption DEF AboutToOpen, OpenStarted, ClearHandle, FreeFds
<1>5. ASSUME NEW name \in NameArgs, NEW c \in OpenConfigs, Closed(h), ScanStarted(h, name, c)
      PROVE  CallOK'
  BY <1>5 DEF Closed, ScanStarted
<1>6. Scan(h) => CallOK'
  BY DEF Scan, ScanFails, CloseTmp
<1>7. ASSUME RequestGranted(h) PROVE CallOK'
  <2>1. req[h] \in Requestable
    BY <1>7 DEF RequestGranted
  <2>2. CachedConfig(req[h]) \in Requestable
    BY <2>1 DEF Requestable, CachedConfig, Config, Directions
  <2> QED BY <1>7, <2>2 DEF RequestGranted
<1>8. RequestRefused(h) => CallOK'
  BY DEF RequestRefused, AbandonOpen
<1>9. ASSUME NEW v \in {0, 1}, WriteLine(h, v) PROVE CallOK'
  BY <1>9 DEF WriteLine
<1>10. TakeStep(h) => CallOK'
  BY DEF TakeStep, TakeEvent
<1>11. ASSUME Close(h) PROVE CallOK'
  <2>0. cfg[h] \in Config
    BY DEF Requestable
  <2>1. [cfg[h] EXCEPT !.edge = "none", !.direction = "in"] \in Requestable
    BY <2>0 DEF Requestable, Config, Directions, Edges
  <2> QED BY <1>11, <2>1 DEF Close
<1> QED BY <1>1, <1>2, <1>3, <1>4, <1>5, <1>6, <1>7, <1>8, <1>9, <1>10, <1>11
        DEF CallForms, ReturnStep, ReopenStep, RefuseStep, OpenStep, NameStep, WriteStep

(* No call closes or takes over a descriptor of another, by every form of call. *)
LEMMA FdOwnedCall ==
  ASSUME IInv, TypeOK', NEW h \in Handles, CallForms(h)
  PROVE  FdOwned'
<1>0. /\ fdt \in [Fds -> Files]
      /\ chip_fd \in [Handles -> Fds \cup {NoFd}]
      /\ line_fd \in [Handles -> Fds \cup {NoFd}]
      /\ tmp_fd \in [Handles -> Fds \cup {NoFd}]
      /\ line \in [Handles -> 0 .. NLines]
      /\ pc \in [Handles -> {"idle", "scanning", "found", "opening", "setting"}]
      /\ CallOK /\ FdOwned /\ NoLeak
  BY DEF IInv, TypeOK
<1> USE <1>0, FdAssumption DEF CallOK, FdOwned, Owns, Holds, world, handle, Return, Continue, Release, FreeFds, Free, Chip, LineFile
<1>1. ASSUME NEW r \in Results, pc[h] \in {"idle", "found"}, ReturnOnly(h, r) PROVE FdOwned'
  BY <1>1 DEF ReturnOnly
<1>2. ASSUME NEW c \in Requestable, Opened(h), ReopenLine(h, c) PROVE FdOwned'
  BY <1>2 DEF Opened, ReopenLine, CloseLine
<1>3. ASSUME NEW l \in 0 .. NLines, AboutToOpen(h), OpenUnsupported(h, l) PROVE FdOwned'
  BY <1>3 DEF AboutToOpen, OpenUnsupported, ClearHandle
<1>4. ASSUME NEW l \in 0 .. NLines, NEW c \in Requestable, AboutToOpen(h), OpenStarted(h, l, c)
      PROVE  FdOwned'
  BY <1>4 DEF AboutToOpen, OpenStarted, ClearHandle
<1>5. ASSUME NEW name \in NameArgs, NEW c \in OpenConfigs, Closed(h), ScanStarted(h, name, c)
      PROVE  FdOwned'
  BY <1>5 DEF Closed, ScanStarted
<1>6. ASSUME Scan(h) PROVE FdOwned'
  <2>1. /\ pc[h] = "scanning" /\ pc'[h] # "scanning"
        /\ \A g \in Handles \ {h} : pc'[g] = pc[g] /\ tmp_fd'[g] = tmp_fd[g]
        /\ fdt' = Release({tmp_fd[h]}) /\ UNCHANGED handle
    BY <1>6 DEF Scan, ScanFails, CloseTmp
  <2>2. tmp_fd[h] \in Fds /\ fdt'[tmp_fd[h]].kind = "free"
        /\ \A fd \in Fds : fd # tmp_fd[h] => fdt'[fd] = fdt[fd]
    BY <2>1
  <2>3. \A g \in Handles, fd \in Fds : Owns(g, fd)' => Owns(g, fd) /\ fd # tmp_fd[h]
    BY <2>1
  <2>4. \A fd \in Fds : \A f, g \in Handles : (Owns(f, fd) /\ Owns(g, fd) => f = g)'
    BY ONLY <2>3, FdOwned DEF FdOwned
  <2>5. \A g \in Handles : /\ line_fd[g] # NoFd => line_fd[g] # tmp_fd[h]
                           /\ chip_fd[g] # NoFd => chip_fd[g] # tmp_fd[h]
    BY <2>1
  <2>6. \A g \in Handles \ {h} : pc[g] = "scanning" => tmp_fd[g] # tmp_fd[h]
    BY <2>1
  <2> QED BY <2>1, <2>2, <2>4, <2>5, <2>6
<1>7. RequestGranted(h) => FdOwned'
  BY DEF RequestGranted
<1>8. RequestRefused(h) => FdOwned'
  BY DEF RequestRefused, AbandonOpen
<1>9. ASSUME NEW v \in {0, 1}, Opened(h), WriteLine(h, v) PROVE FdOwned'
  BY <1>9 DEF Opened, WriteLine
<1>10. TakeStep(h) => FdOwned'
  BY DEF TakeStep, TakeEvent, Opened
<1>11. Close(h) => FdOwned'
  BY DEF Close
<1> QED BY ONLY CallForms(h), <1>1, <1>2, <1>3, <1>4, <1>5, <1>6, <1>7, <1>8, <1>9, <1>10, <1>11
        DEF CallForms, ReturnStep, ReopenStep, RefuseStep, OpenStep, NameStep, WriteStep

(* No call forgets a descriptor, by every form of call. *)
LEMMA NoLeakCall ==
  ASSUME IInv, TypeOK', NEW h \in Handles, CallForms(h)
  PROVE  NoLeak'
<1>0. /\ fdt \in [Fds -> Files]
      /\ chip_fd \in [Handles -> Fds \cup {NoFd}]
      /\ line_fd \in [Handles -> Fds \cup {NoFd}]
      /\ tmp_fd \in [Handles -> Fds \cup {NoFd}]
      /\ line \in [Handles -> 0 .. NLines]
      /\ pc \in [Handles -> {"idle", "scanning", "found", "opening", "setting"}]
      /\ CallOK /\ FdOwned /\ NoLeak
  BY DEF IInv, TypeOK
<1> USE <1>0, FdAssumption DEF CallOK, FdOwned, Owns, Holds, world, handle, Return, Continue, Release, FreeFds, Free, Chip, LineFile, NoLeak
<1>1. ASSUME NEW r \in Results, pc[h] \in {"idle", "found"}, ReturnOnly(h, r) PROVE NoLeak'
  BY <1>1 DEF ReturnOnly
<1>2. ASSUME NEW c \in Requestable, Opened(h), ReopenLine(h, c) PROVE NoLeak'
  BY <1>2 DEF Opened, ReopenLine, CloseLine
<1>3. ASSUME NEW l \in 0 .. NLines, AboutToOpen(h), OpenUnsupported(h, l) PROVE NoLeak'
  BY <1>3 DEF AboutToOpen, OpenUnsupported, ClearHandle
<1>4. ASSUME NEW l \in 0 .. NLines, NEW c \in Requestable, AboutToOpen(h), OpenStarted(h, l, c)
      PROVE  NoLeak'
  BY <1>4 DEF AboutToOpen, OpenStarted, ClearHandle
<1>5. ASSUME NEW name \in NameArgs, NEW c \in OpenConfigs, Closed(h), ScanStarted(h, name, c)
      PROVE  NoLeak'
  BY <1>5 DEF Closed, ScanStarted
<1>6. ASSUME Scan(h) PROVE NoLeak'
  <2>1. /\ pc[h] = "scanning" /\ pc'[h] # "scanning"
        /\ \A g \in Handles \ {h} : pc'[g] = pc[g] /\ tmp_fd'[g] = tmp_fd[g]
        /\ fdt' = Release({tmp_fd[h]}) /\ UNCHANGED handle
    BY <1>6 DEF Scan, ScanFails, CloseTmp
  <2> QED BY <2>1
<1>7. RequestGranted(h) => NoLeak'
  BY DEF RequestGranted
<1>8. RequestRefused(h) => NoLeak'
  BY DEF RequestRefused, AbandonOpen
<1>9. ASSUME NEW v \in {0, 1}, Opened(h), WriteLine(h, v) PROVE NoLeak'
  BY <1>9 DEF Opened, WriteLine
<1>10. TakeStep(h) => NoLeak'
  BY DEF TakeStep, TakeEvent, Opened
<1>11. Close(h) => NoLeak'
  BY DEF Close
<1> QED BY <1>1, <1>2, <1>3, <1>4, <1>5, <1>6, <1>7, <1>8, <1>9, <1>10, <1>11
        DEF CallForms, ReturnStep, ReopenStep, RefuseStep, OpenStep, NameStep, WriteStep

(* A line's file changes only when its handle closes it, requests it or takes an
   event from it; elsewhere it is another handle's, and stays. *)
LEMMA OthersKeepLine ==
  ASSUME IInv, NEW h \in Handles, CallForms(h), NEW g \in Handles \ {h}
  PROVE  /\ line_fd'[g] = line_fd[g] /\ cfg'[g] = cfg[g]
         /\ line_fd[g] # NoFd => fdt'[line_fd[g]] = fdt[line_fd[g]]
<1>0. /\ fdt \in [Fds -> Files]
      /\ chip_fd \in [Handles -> Fds \cup {NoFd}]
      /\ line_fd \in [Handles -> Fds \cup {NoFd}]
      /\ tmp_fd \in [Handles -> Fds \cup {NoFd}]
      /\ cfg \in [Handles -> CachedConfigs]
      /\ CallOK /\ FdOwned
  BY DEF IInv, TypeOK
<1>1. line_fd[g] # NoFd => /\ line_fd[g] \in Fds /\ fdt[line_fd[g]].kind = "line"
                           /\ ~Owns(h, line_fd[g])
  BY <1>0 DEF FdOwned, Owns, Holds
<1> USE <1>0, <1>1 DEF Owns, world, handle, Return, Continue, Release, FreeFds
<1>2. ReturnStep(h) \/ RefuseStep(h) \/ WriteStep(h) => UNCHANGED fdt /\ line_fd'[g] = line_fd[g] /\ cfg'[g] = cfg[g]
  BY DEF ReturnStep, ReturnOnly, RefuseStep, OpenUnsupported, ClearHandle, WriteStep, WriteLine
<1>3. ReopenStep(h) \/ OpenStep(h) \/ NameStep(h) \/ Scan(h) =>
        /\ line_fd'[g] = line_fd[g] /\ cfg'[g] = cfg[g]
        /\ line_fd[g] # NoFd => fdt'[line_fd[g]] = fdt[line_fd[g]]
  BY DEF ReopenStep, ReopenLine, CloseLine, OpenStep, OpenStarted, ClearHandle, NameStep, ScanStarted,
         Scan, ScanFails, CloseTmp
<1>4. RequestGranted(h) \/ RequestRefused(h) \/ TakeStep(h) \/ Close(h) =>
        /\ line_fd'[g] = line_fd[g] /\ cfg'[g] = cfg[g]
        /\ line_fd[g] # NoFd => fdt'[line_fd[g]] = fdt[line_fd[g]]
  BY DEF RequestGranted, RequestRefused, AbandonOpen, TakeStep, TakeEvent, Close
<1> QED BY <1>2, <1>3, <1>4 DEF CallForms

(* What the calling handle itself is left with: no line, the line it had with
   the same attributes, or a fresh one for the configuration it now caches. *)
LEMMA OwnLine ==
  ASSUME IInv, NEW h \in Handles, CallForms(h), line_fd'[h] # NoFd
  PROVE  \/ /\ line_fd'[h] = line_fd[h] /\ cfg'[h] = cfg[h]
            /\ fdt'[line_fd[h]].attrs = fdt[line_fd[h]].attrs
            /\ \/ fdt'[line_fd[h]].events = fdt[line_fd[h]].events
               \/ /\ fdt[line_fd[h]].events \in Seq(Events) /\ fdt[line_fd[h]].events # <<>>
                  /\ fdt'[line_fd[h]].events = Tail(fdt[line_fd[h]].events)
         \/ /\ req[h] \in Requestable
            /\ fdt'[line_fd'[h]] = LineFile(line[h], RequestOf(req[h]))
            /\ cfg'[h] = CachedConfig(req[h])
<1>0. /\ fdt \in [Fds -> Files]
      /\ chip_fd \in [Handles -> Fds \cup {NoFd}]
      /\ line_fd \in [Handles -> Fds \cup {NoFd}]
      /\ cfg \in [Handles -> CachedConfigs]
      /\ CallOK /\ FdOwned
  BY DEF IInv, TypeOK
<1>1. line_fd[h] # NoFd => /\ line_fd[h] \in Fds /\ fdt[line_fd[h]].kind = "line"
                           /\ line_fd[h] # tmp_fd[h] \/ pc[h] # "scanning"
                           /\ line_fd[h] # chip_fd[h]
  BY <1>0 DEF FdOwned, Holds
<1> USE <1>0, <1>1 DEF world, handle, Return, Continue, Release, FreeFds, CallOK
<1>2. ReturnStep(h) \/ WriteStep(h) =>
        UNCHANGED fdt /\ line_fd'[h] = line_fd[h] /\ cfg'[h] = cfg[h]
  BY DEF ReturnStep, ReturnOnly, WriteStep, WriteLine
<1>3. ~(ReopenStep(h) \/ OpenStep(h) \/ RefuseStep(h) \/ RequestRefused(h) \/ Close(h))
  BY DEF ReopenStep, ReopenLine, CloseLine, OpenStep, OpenStarted, RefuseStep, OpenUnsupported, ClearHandle,
         RequestRefused, Close
<1>4. Scan(h) \/ NameStep(h) => FALSE
  BY DEF Scan, ScanFails, CloseTmp, NameStep, ScanStarted, Closed
<1>5. ASSUME RequestGranted(h)
      PROVE  /\ req[h] \in Requestable
             /\ fdt'[line_fd'[h]] = LineFile(line[h], RequestOf(req[h]))
             /\ cfg'[h] = CachedConfig(req[h])
  BY <1>5 DEF RequestGranted
<1>6. ASSUME TakeStep(h)
      PROVE  /\ line_fd'[h] = line_fd[h] /\ cfg'[h] = cfg[h]
             /\ fdt'[line_fd[h]].attrs = fdt[line_fd[h]].attrs
             /\ fdt[line_fd[h]].events \in Seq(Events) /\ fdt[line_fd[h]].events # <<>>
             /\ fdt'[line_fd[h]].events = Tail(fdt[line_fd[h]].events)
  <2>1. fdt[line_fd[h]] \in [kind : {"line"}, line : Lines, attrs : Attrs, events : Seq(Events)]
    BY <1>6, FileKinds DEF TakeStep
  <2> QED BY <1>6, <2>1 DEF TakeStep, TakeEvent
<1> QED BY <1>2, <1>3, <1>4, <1>5, <1>6 DEF CallForms

(* The cached configuration of a fresh line is the one its request carried. *)
LEMMA FreshApplied ==
  ASSUME NEW c \in Requestable
  PROVE  LET kernel == RequestOf(c)  cached == CachedConfig(c) IN
         /\ kernel.direction = cached.direction /\ kernel.edge = cached.edge
         /\ kernel.bias = cached.bias /\ kernel.drive = cached.drive
         /\ kernel.inverted = cached.inverted
         /\ kernel.direction = "in" => kernel.debounce_us = cached.debounce_us
         /\ kernel.edge # "none" => kernel.event_clock = cached.event_clock
<1>1. c \in Config /\ (c.direction # "in" => c.edge = "none")
  BY DEF Requestable
<1>2. CASE c.direction = "in"
  <2>1. CachedConfig(c) = c
    BY <1>1, <1>2 DEF CachedConfig, Config
  <2>2. CASE c.edge = "none"
    BY <1>1, <1>2, <2>1, <2>2 DEF RequestOf, Config
  <2>3. CASE c.edge # "none"
    BY <1>1, <1>2, <2>1, <2>3 DEF RequestOf, Config
  <2> QED BY <2>2, <2>3
<1>3. CASE c.direction # "in"
  BY <1>1, <1>3 DEF RequestOf, CachedConfig, Config
<1> QED BY <1>2, <1>3

(* The caches stay true, by the lemmas on lines. *)
LEMMA ConfigAppliedCall ==
  ASSUME IInv, TypeOK', NEW h \in Handles, CallForms(h)
  PROVE  ConfigApplied'
<1> DEFINE Agree(kernel, cached) ==
      /\ kernel.direction = cached.direction /\ kernel.edge = cached.edge
      /\ kernel.bias = cached.bias /\ kernel.drive = cached.drive
      /\ kernel.inverted = cached.inverted
      /\ kernel.direction = "in" => kernel.debounce_us = cached.debounce_us
      /\ kernel.edge # "none" => kernel.event_clock = cached.event_clock
<1>1. \A g \in Handles : line_fd[g] # NoFd => Agree(fdt[line_fd[g]].attrs, cfg[g])
  BY DEF IInv, ConfigApplied
<1>2. ASSUME NEW c \in Requestable PROVE Agree(RequestOf(c), CachedConfig(c))
  BY FreshApplied
<1> HIDE DEF Agree
<1>3. ASSUME NEW g \in Handles \ {h}, line_fd'[g] # NoFd
      PROVE  Agree(fdt'[line_fd'[g]].attrs, cfg'[g])
  <2>1. fdt'[line_fd'[g]] = fdt[line_fd[g]] /\ cfg'[g] = cfg[g] /\ line_fd[g] # NoFd
    BY <1>3, OthersKeepLine
  <2> QED BY <1>1, <2>1
<1>4. ASSUME line_fd'[h] # NoFd
      PROVE  Agree(fdt'[line_fd'[h]].attrs, cfg'[h])
  <2>1. CASE /\ line_fd'[h] = line_fd[h] /\ cfg'[h] = cfg[h]
             /\ fdt'[line_fd[h]].attrs = fdt[line_fd[h]].attrs
    BY <1>1, <1>4, <2>1
  <2>2. CASE /\ req[h] \in Requestable
             /\ fdt'[line_fd'[h]] = LineFile(line[h], RequestOf(req[h]))
             /\ cfg'[h] = CachedConfig(req[h])
    <3>1. fdt'[line_fd'[h]].attrs = RequestOf(req[h])
      BY <2>2 DEF LineFile
    <3> QED BY <1>2, <2>2, <3>1
  <2> QED BY <1>4, <2>1, <2>2, OwnLine
<1>5. \A g \in Handles : line_fd'[g] # NoFd => Agree(fdt'[line_fd'[g]].attrs, cfg'[g])
  BY <1>3, <1>4
<1> QED BY <1>5 DEF ConfigApplied, Agree

(* No event outlives the edge it was raised under. *)
LEMMA EventsMatchEdgeCall ==
  ASSUME IInv, TypeOK', NEW h \in Handles, CallForms(h)
  PROVE  EventsMatchEdge'
<1>1. ASSUME NEW g \in Handles \ {h}, line_fd'[g] # NoFd
      PROVE  fdt'[line_fd'[g]] = fdt[line_fd[g]] /\ cfg'[g] = cfg[g] /\ line_fd[g] # NoFd
  BY <1>1, OthersKeepLine
<1>2. CASE line_fd'[h] = NoFd
  BY <1>1, <1>2 DEF IInv, EventsMatchEdge
<1>3. CASE /\ line_fd'[h] # NoFd
           /\ line_fd'[h] = line_fd[h] /\ cfg'[h] = cfg[h]
           /\ fdt'[line_fd[h]].events = fdt[line_fd[h]].events
  BY <1>1, <1>3 DEF IInv, EventsMatchEdge
<1>4. CASE /\ line_fd'[h] # NoFd
           /\ line_fd'[h] = line_fd[h] /\ cfg'[h] = cfg[h]
           /\ fdt[line_fd[h]].events \in Seq(Events) /\ fdt[line_fd[h]].events # <<>>
           /\ fdt'[line_fd[h]].events = Tail(fdt[line_fd[h]].events)
  <2> DEFINE q == fdt[line_fd[h]].events
  <2>1. \A i \in DOMAIN Tail(q) : i + 1 \in DOMAIN q /\ Tail(q)[i] = q[i + 1]
    BY <1>4
  <2>2. \A i \in DOMAIN q : cfg[h].edge \in {q[i], "both"}
    BY <1>4 DEF IInv, EventsMatchEdge
  <2>3. \A i \in DOMAIN fdt'[line_fd'[h]].events : cfg'[h].edge \in {fdt'[line_fd'[h]].events[i], "both"}
    BY <1>4, <2>1, <2>2
  <2> QED BY <1>1, <2>3 DEF IInv, EventsMatchEdge
<1>5. CASE fdt'[line_fd'[h]] = LineFile(line[h], RequestOf(req[h]))
  <2>1. DOMAIN fdt'[line_fd'[h]].events = {}
    BY <1>5 DEF LineFile
  <2> QED BY <1>1, <2>1 DEF IInv, EventsMatchEdge
<1> QED BY <1>2, <1>3, <1>4, <1>5, OwnLine

-----------------------------------------------------------------------------
(* Steps of the outside *)

(* Other processes and the signals on the lines change line files only by
   reporting events, each of an edge the line was requested with. *)
LEMMA OutsideFiles ==
  ASSUME IInv, Outside
  PROVE  /\ fdt' \in [Fds -> Files]
         /\ \A fd \in Fds :
              /\ fdt'[fd].kind = fdt[fd].kind
              /\ fdt[fd].kind = "line" =>
                   /\ fdt'[fd].line = fdt[fd].line /\ fdt'[fd].attrs = fdt[fd].attrs
                   /\ \A i \in DOMAIN fdt'[fd].events :
                        \/ fdt[fd].attrs.edge \in {fdt'[fd].events[i], "both"}
                        \/ \E k \in DOMAIN fdt[fd].events : fdt'[fd].events[i] = fdt[fd].events[k]
<1>0. fdt \in [Fds -> Files] /\ level \in [Lines -> {0, 1}]
  BY DEF IInv, TypeOK
<1>1. CASE UNCHANGED fdt
  BY <1>0, <1>1
<1>2. ASSUME NEW l \in Lines, Toggle(l)
      PROVE  /\ fdt' \in [Fds -> Files]
             /\ \A fd \in Fds :
                  /\ fdt'[fd].kind = fdt[fd].kind
                  /\ fdt[fd].kind = "line" =>
                       /\ fdt'[fd].line = fdt[fd].line /\ fdt'[fd].attrs = fdt[fd].attrs
                       /\ \A i \in DOMAIN fdt'[fd].events :
                            \/ fdt[fd].attrs.edge \in {fdt'[fd].events[i], "both"}
                            \/ \E k \in DOMAIN fdt[fd].events : fdt'[fd].events[i] = fdt[fd].events[k]
  <2> DEFINE v == 1 - level[l]
  <2>0. v \in {0, 1}
    BY <1>0
  <2>1. ASSUME NEW fd \in Fds
        PROVE  /\ fdt'[fd] \in Files /\ fdt'[fd].kind = fdt[fd].kind
               /\ fdt[fd].kind = "line" =>
                    fdt'[fd].line = fdt[fd].line /\ fdt'[fd].attrs = fdt[fd].attrs
    <3>1. CASE Holds(fd, l)
      <4>1. fdt'[fd] = Notify(fdt[fd], v)
        BY <1>2, <3>1 DEF Toggle
      <4> QED BY <1>0, <2>0, <3>1, <4>1, NotifyType DEF Holds
    <3>2. CASE ~Holds(fd, l)
      BY <1>0, <1>2, <3>2 DEF Toggle
    <3> QED BY <3>1, <3>2
  <2>2. ASSUME NEW fd \in Fds, fdt[fd].kind = "line", NEW i \in DOMAIN fdt'[fd].events
        PROVE  \/ fdt[fd].attrs.edge \in {fdt'[fd].events[i], "both"}
               \/ \E k \in DOMAIN fdt[fd].events : fdt'[fd].events[i] = fdt[fd].events[k]
    <3> DEFINE f == fdt[fd]
               event == IF Physical(v, f.attrs.inverted) = 1 THEN "rising" ELSE "falling"
               kept == IF Len(f.events) = EventBuffer THEN Tail(f.events) ELSE f.events
    <3>0. f \in Files /\ f \in [kind : {"line"}, line : Lines, attrs : Attrs, events : Seq(Events)]
      BY <1>0, <2>2, FileKinds
    <3>1. CASE fdt'[fd].events = f.events
      BY <2>2, <3>1
    <3>2. CASE /\ f.attrs.edge \in {event, "both"}
               /\ fdt'[fd].events = Append(kept, event)
      <4>1. Len(f.events) = EventBuffer => f.events # <<>>
        BY <3>0, LineAssumption
      <4>2. /\ kept \in Seq(Events)
            /\ \A k \in DOMAIN kept : \E j \in DOMAIN f.events : kept[k] = f.events[j]
        BY <3>0, <4>1
      <4>3. \A k \in DOMAIN Append(kept, event) :
              Append(kept, event)[k] = event \/ (k \in DOMAIN kept /\ Append(kept, event)[k] = kept[k])
        BY <4>2
      <4>4. i \in DOMAIN Append(kept, event) /\ fdt'[fd].events[i] = Append(kept, event)[i]
        BY <2>2, <3>2
      <4> DEFINE e == fdt'[fd].events[i]
      <4>5. e = event \/ (i \in DOMAIN kept /\ e = kept[i])
        BY ONLY <4>3, <4>4
      <4>6. e = event => f.attrs.edge \in {e, "both"}
        BY ONLY <3>2
      <4>7. i \in DOMAIN kept /\ e = kept[i] => \E k \in DOMAIN f.events : e = f.events[k]
        BY ONLY <4>2
      <4> QED BY ONLY <4>5, <4>6, <4>7
    <3>3. fdt'[fd].events = f.events \/ (/\ f.attrs.edge \in {event, "both"}
                                          /\ fdt'[fd].events = Append(kept, event))
      <4>1. fdt'[fd] = f \/ fdt'[fd] = Notify(f, v)
        BY <1>2 DEF Toggle
      <4>2. Notify(f, v) = IF f.attrs.edge \in {event, "both"}
                             THEN [f EXCEPT !.events = Append(kept, event)] ELSE f
        BY DEF Notify, Enqueue
      <4> QED BY <3>0, <4>1, <4>2
    <3> QED BY <3>1, <3>2, <3>3
  <2>3. fdt' \in [Fds -> Files]
    BY <1>2, <2>1 DEF Toggle
  <2> QED BY <2>1, <2>2, <2>3
<1> QED BY <1>1, <1>2 DEF Outside, ExtRequest, ExtRelease

(* The outside preserves the invariant. *)
LEMMA OutsideStep ==
  ASSUME IInv, Outside
  PROVE  IInv'
<1>0. UNCHANGED <<handle, pc, req, tmp_fd, want, ret>>
  BY DEF Outside, ExtRequest, ExtRelease, Toggle
<1>1. TypeOK'
  <2>1. level' \in [Lines -> {0, 1}] /\ ext' \subseteq Lines
    BY DEF Outside, ExtRequest, ExtRelease, Toggle, IInv, TypeOK
  <2> QED BY <1>0, <2>1, OutsideFiles DEF IInv, TypeOK, handle
<1>2. CallOK'
  BY <1>0 DEF IInv, CallOK, handle
<1>3. FdOwned' /\ NoLeak'
  <2>1. /\ chip_fd \in [Handles -> Fds \cup {NoFd}] /\ line_fd \in [Handles -> Fds \cup {NoFd}]
        /\ tmp_fd \in [Handles -> Fds \cup {NoFd}]
        /\ FdOwned /\ NoLeak
    BY DEF IInv, TypeOK
  <2>2. \A h \in Handles, fd \in Fds : Owns(h, fd)' <=> Owns(h, fd)
    BY <1>0 DEF Owns, handle
  <2>3. FreeFds' = FreeFds
    BY OutsideFiles DEF FreeFds
  <2>4. FdOwned'
    BY <1>0, <2>1, <2>2, OutsideFiles DEF FdOwned, Holds, handle
  <2>5. NoLeak'
    BY <2>1, <2>2, <2>3 DEF NoLeak
  <2> QED BY <2>4, <2>5
<1>4. \A h \in Handles : line_fd[h] # NoFd => line_fd[h] \in Fds /\ fdt[line_fd[h]].kind = "line"
  BY DEF IInv, TypeOK, FdOwned, Holds
<1>5. ConfigApplied'
  BY <1>0, <1>4, OutsideFiles DEF IInv, ConfigApplied, handle
<1>6. EventsMatchEdge'
  <2> SUFFICES ASSUME NEW h \in Handles, line_fd[h] # NoFd,
                      NEW i \in DOMAIN fdt'[line_fd[h]].events
               PROVE  cfg[h].edge \in {fdt'[line_fd[h]].events[i], "both"}
    BY <1>0 DEF EventsMatchEdge, handle
  <2>1. fdt[line_fd[h]].attrs.edge = cfg[h].edge
    BY DEF IInv, ConfigApplied
  <2>2. \A k \in DOMAIN fdt[line_fd[h]].events : cfg[h].edge \in {fdt[line_fd[h]].events[k], "both"}
    BY DEF IInv, EventsMatchEdge
  <2> QED BY <1>4, <2>1, <2>2, OutsideFiles
<1> QED BY <1>1, <1>2, <1>3, <1>5, <1>6 DEF IInv

-----------------------------------------------------------------------------
(* Theorems *)

(* The invariant holds at first. *)
LEMMA InitIInv == Init => IInv
<1> SUFFICES ASSUME Init PROVE IInv
  OBVIOUS
<1>1. ZeroConfig \in CachedConfigs /\ ZeroConfig \in Requestable
  BY DEF ZeroConfig, CachedConfigs, Requestable, Config, Directions, Edges, Clocks, Biases, Drives
<1>2. NoLine \in 0 .. NLines /\ 0 \in 0 .. NLines
  BY LineAssumption DEF NoLine
<1>3. TypeOK
  BY <1>1, <1>2 DEF Init, TypeOK, Files, Free, CachedConfigs, Results
<1>4. CallOK
  BY <1>1 DEF Init, CallOK
<1>5. FdOwned /\ NoLeak
  BY FdAssumption DEF Init, FdOwned, NoLeak, Owns, FreeFds, Free
<1>6. ConfigApplied /\ EventsMatchEdge
  BY DEF Init, ConfigApplied, EventsMatchEdge
<1> QED BY <1>3, <1>4, <1>5, <1>6 DEF IInv

(* Every step preserves it. *)
LEMMA NextIInv == IInv /\ [Next]_vars => IInv'
<1> SUFFICES ASSUME IInv, [Next]_vars PROVE IInv'
  OBVIOUS
<1>1. ASSUME NEW h \in Handles, OpenCalls(h) \/ SetCalls(h) \/ IoCalls(h) PROVE IInv'
  <2>1. CallForms(h)
    BY <1>1, StepForms
  <2>2. TypeOK'
    BY <2>1, TypeOKCall
  <2> QED BY <2>1, <2>2, CallOKCall, FdOwnedCall, NoLeakCall, ConfigAppliedCall, EventsMatchEdgeCall
          DEF IInv
<1>2. CASE UNCHANGED vars
  BY <1>2 DEF vars, IInv, TypeOK, CallOK, FdOwned, NoLeak, ConfigApplied, EventsMatchEdge,
              Owns, Holds, FreeFds
<1> QED BY <1>1, <1>2, OutsideStep DEF Next

(* The inductive invariant holds in every reachable state. *)
THEOREM Invariance == Spec => []IInv
  BY InitIInv, NextIInv, PTL DEF Spec

(* Every variable keeps its type: no setter caches an initial level. *)
THEOREM TypeCorrect == Spec => []TypeOK
<1>1. IInv => TypeOK
  BY DEF IInv
<1> QED BY Invariance, <1>1, PTL

(* No close() of the library meets a descriptor that is not the caller's. *)
THEOREM NoSpuriousClose == Spec => []FdOwned
<1>1. IInv => FdOwned
  BY DEF IInv
<1> QED BY Invariance, <1>1, PTL

(* No call leaves a descriptor open that nothing records. *)
THEOREM NothingLeaks == Spec => []NoLeak
<1>1. IInv => NoLeak
  BY DEF IInv
<1> QED BY Invariance, <1>1, PTL

(* The getters of a handle with a line tell what the kernel applied. *)
THEOREM CacheTruthful == Spec => []ConfigApplied
<1>1. IInv => ConfigApplied
  BY DEF IInv
<1> QED BY Invariance, <1>1, PTL

(* No event is delivered that was raised under a replaced edge. *)
THEOREM NoStaleEvent == Spec => []EventsMatchEdge
<1>1. IInv => EventsMatchEdge
  BY DEF IInv
<1> QED BY Invariance, <1>1, PTL

-----------------------------------------------------------------------------
(* The steps of Next, by their forms *)

FormStep == (\E h \in Handles : CallForms(h)) \/ Outside

LEMMA NextIsFormed ==
  ASSUME IInv, [Next]_vars
  PROVE  [FormStep]_vars
  BY StepForms DEF FormStep, Next

(* A call moves the program counter of its own handle alone, and answers it alone. *)
LEMMA OthersKeepCall ==
  ASSUME IInv, NEW h \in Handles, CallForms(h), NEW g \in Handles \ {h}
  PROVE  pc'[g] = pc[g] /\ ret'[g] = ret[g]
<1> USE DEF Return, Continue, IInv, TypeOK
<1>1. ReturnStep(h) \/ ReopenStep(h) \/ RefuseStep(h) \/ OpenStep(h) =>
        pc'[g] = pc[g] /\ ret'[g] = ret[g]
  BY DEF ReturnStep, ReturnOnly, ReopenStep, ReopenLine, RefuseStep, OpenUnsupported,
         OpenStep, OpenStarted
<1>2. NameStep(h) \/ Scan(h) \/ RequestGranted(h) \/ RequestRefused(h) =>
        pc'[g] = pc[g] /\ ret'[g] = ret[g]
  BY DEF NameStep, ScanStarted, Scan, ScanFails, RequestGranted, RequestRefused
<1>3. WriteStep(h) \/ TakeStep(h) \/ Close(h) => pc'[g] = pc[g] /\ ret'[g] = ret[g]
  BY DEF WriteStep, WriteLine, TakeStep, TakeEvent, Close
<1> QED BY <1>1, <1>2, <1>3 DEF CallForms

(* What the returning steps of an open leave: both descriptors or none. *)
LEMMA OpenOutcome ==
  ASSUME IInv, [FormStep]_vars, NEW h \in Handles, OpenReturns(h)
  PROVE  IF ret'[h] = "ok" THEN NoFd \notin {chip_fd'[h], line_fd'[h]}
                           ELSE {chip_fd'[h], line_fd'[h]} = {NoFd}
<1>0. /\ pc \in [Handles -> {"idle", "scanning", "found", "opening", "setting"}]
      /\ ret \in [Handles -> Results]
      /\ chip_fd \in [Handles -> Fds \cup {NoFd}]
      /\ line_fd \in [Handles -> Fds \cup {NoFd}]
      /\ NoFd \notin Fds /\ CallOK
  BY FdAssumption DEF IInv, TypeOK
<1>1. pc[h] \in {"scanning", "found", "opening"} /\ pc'[h] = "idle"
  BY <1>0 DEF OpenReturns
<1>2. ~Outside /\ vars' # vars
  BY <1>1 DEF Outside, ExtRequest, ExtRelease, Toggle, vars
<1>4. PICK g \in Handles : CallForms(g)
  BY <1>2 DEF FormStep
<1>5. g = h
  BY <1>1, <1>4, OthersKeepCall
<1> USE <1>0, <1>1 DEF Return, Continue, handle, CallOK
<1>6. ~(ReopenStep(h) \/ OpenStep(h) \/ NameStep(h) \/ WriteStep(h) \/ TakeStep(h) \/ Close(h))
  BY DEF ReopenStep, OpenStep, OpenStarted, NameStep, WriteStep, TakeStep, Close, Opened, Closed
<1>7. ASSUME ReturnStep(h) \/ RefuseStep(h)
      PROVE  ret'[h] # "ok" /\ {chip_fd'[h], line_fd'[h]} = {NoFd}
  BY <1>7 DEF ReturnStep, ReturnOnly, RefuseStep, OpenUnsupported, ClearHandle, AboutToOpen, Errors
<1>8. ASSUME Scan(h)
      PROVE  ret'[h] # "ok" /\ {chip_fd'[h], line_fd'[h]} = {NoFd}
  BY <1>8 DEF Scan, ScanFails
<1>9. ASSUME RequestRefused(h)
      PROVE  ret'[h] # "ok" /\ {chip_fd'[h], line_fd'[h]} = {NoFd}
  BY <1>9 DEF RequestRefused, AbandonOpen
<1>10. ASSUME RequestGranted(h)
       PROVE  ret'[h] = "ok" /\ NoFd \notin {chip_fd'[h], line_fd'[h]}
  BY <1>10 DEF RequestGranted, FreeFds
<1> QED BY <1>4, <1>5, <1>6, <1>7, <1>8, <1>9, <1>10 DEF CallForms

(* A request that returns 0 leaves an output at the level it asked for. *)
LEMMA LevelOutcome ==
  ASSUME IInv, [FormStep]_vars, NEW h \in Handles,
         pc[h] \in {"opening", "setting"}, ret'[h] = "ok", req[h].direction # "in"
  PROVE  level'[line[h]] = IF req[h].direction = "out_high" THEN 1 ELSE 0
<1>0. /\ pc \in [Handles -> {"idle", "scanning", "found", "opening", "setting"}]
      /\ ret \in [Handles -> Results]
      /\ level \in [Lines -> {0, 1}]
      /\ ret[h] = "none" /\ req[h] \in Config /\ CallOK
  BY DEF IInv, TypeOK, CallOK, Requestable
<1>1. ~Outside /\ vars' # vars
  BY <1>0 DEF Outside, ExtRequest, ExtRelease, Toggle, vars
<1>3. PICK g \in Handles : CallForms(g)
  BY <1>1 DEF FormStep
<1>4. g = h
  BY <1>0, <1>3, OthersKeepCall
<1>5. ~(ReturnStep(h) \/ ReopenStep(h) \/ RefuseStep(h) \/ OpenStep(h) \/ NameStep(h)
        \/ Scan(h) \/ WriteStep(h) \/ TakeStep(h) \/ Close(h))
  BY DEF ReturnStep, ReopenStep, RefuseStep, OpenStep, NameStep, AboutToOpen, Scan,
         WriteStep, TakeStep, Close, Opened, Closed
<1>6. ~RequestRefused(h)
  BY <1>0 DEF RequestRefused, Return
<1>7. ASSUME RequestGranted(h)
      PROVE  level'[line[h]] = Physical(InitialValue(req[h]), req[h].inverted)
  BY <1>0, <1>7 DEF RequestGranted
<1>8. Physical(InitialValue(req[h]), req[h].inverted) = IF req[h].direction = "out_high" THEN 1 ELSE 0
  BY <1>0 DEF Physical, InitialValue, Config
<1> QED BY <1>3, <1>4, <1>5, <1>6, <1>7, <1>8 DEF CallForms

(* An open holds both descriptors or none when it returns. *)
THEOREM OpenIsAllOrNothing == Spec => OpenAllOrNothing
<1>1. IInv /\ [Next]_vars =>
        [\A h \in Handles : OpenReturns(h) =>
           IF ret'[h] = "ok" THEN NoFd \notin {chip_fd'[h], line_fd'[h]}
                             ELSE {chip_fd'[h], line_fd'[h]} = {NoFd}]_vars
  BY OpenOutcome, NextIsFormed
<1> QED BY Invariance, <1>1, PTL DEF Spec, OpenAllOrNothing

(* An output requested high or low is physically so, inverted or not. *)
THEOREM OutputLevels == Spec => InitialLevelApplied
<1>1. IInv /\ [Next]_vars =>
        [\A h \in Handles :
           pc[h] \in {"opening", "setting"} /\ ret'[h] = "ok" /\ req[h].direction # "in" =>
             level'[line[h]] = IF req[h].direction = "out_high" THEN 1 ELSE 0]_vars
  BY LevelOutcome, NextIsFormed
<1> QED BY Invariance, <1>1, PTL DEF Spec, InitialLevelApplied

=============================================================================
