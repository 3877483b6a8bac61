-------------------------- MODULE GpioCdevRefines --------------------------
(***************************************************************************)
(* GpioCdev implements GpioLine, for any number of handles, descriptors    *)
(* and lines: initial states map to initial states, and every step of      *)
(* Next to a step of GpioLine or to none.                                  *)
(***************************************************************************)
EXTENDS GpioCdevProofs

Gpio == [h \in Handles |-> GpioOf(h)]

(* What an open, a setter or a call under way has answered. *)
Plain == Errors \cup {"ok", "none"}

-----------------------------------------------------------------------------
(* Handles as GpioLine sees them *)

(* What GpioOf() depends on. *)
LEMMA SameGpio ==
  ASSUME NEW h \in Handles,
         chip_fd'[h] = chip_fd[h], line_fd'[h] = line_fd[h],
         line'[h] = line[h], cfg'[h] = cfg[h],
         pc'[h] = "opening" <=> pc[h] = "opening",
         line_fd[h] # NoFd => fdt'[line_fd[h]].events = fdt[line_fd[h]].events
  PROVE  GpioOf(h)' = GpioOf(h)
  BY DEF GpioOf

(* A handle that holds its line has a line file with the configuration it
   reports where values and events are concerned. *)
LEMMA HoldingFile ==
  ASSUME IInv, NEW h \in Handles, Gpio[h].status = "held"
  PROVE  /\ line_fd[h] \in Fds /\ Holds(line_fd[h], line[h]) /\ chip_fd[h] # NoFd
         /\ fdt[line_fd[h]] \in [kind : {"line"}, line : Lines, attrs : Attrs, events : Seq(Events)]
         /\ fdt[line_fd[h]].attrs.inverted = cfg[h].inverted
         /\ fdt[line_fd[h]].attrs.edge = cfg[h].edge
         /\ fdt[line_fd[h]].attrs.direction = cfg[h].direction
         /\ Gpio[h] = [status |-> "held", line |-> line[h], conf |-> cfg[h],
                       events |-> fdt[line_fd[h]].events]
         /\ Gpio[h].line = line[h] /\ Gpio[h].conf = cfg[h]
         /\ Gpio[h].events = fdt[line_fd[h]].events
<1>1. GpioOf(h).status = "held"
  BY DEF Gpio
<1>2. chip_fd[h] # NoFd /\ line_fd[h] # NoFd
  BY <1>1 DEF GpioOf
<1>3. Gpio[h] = [status |-> "held", line |-> line[h], conf |-> cfg[h],
                 events |-> fdt[line_fd[h]].events]
  BY <1>1, <1>2 DEF GpioOf, Gpio
<1>4. line_fd[h] \in Fds /\ fdt[line_fd[h]] \in Files /\ Holds(line_fd[h], line[h])
  BY <1>2 DEF IInv, TypeOK, FdOwned
<1>5. fdt[line_fd[h]] \in [kind : {"line"}, line : Lines, attrs : Attrs, events : Seq(Events)]
  BY <1>4, FileKinds DEF Holds
<1>6. /\ Gpio[h].line = line[h] /\ Gpio[h].conf = cfg[h]
      /\ Gpio[h].events = fdt[line_fd[h]].events
  BY ONLY <1>3
<1> QED BY <1>2, <1>3, <1>4, <1>5, <1>6 DEF IInv, ConfigApplied

(* The converse, with the call that opens the handle. *)
LEMMA LineIsHeld ==
  ASSUME IInv, NEW h \in Handles, line_fd[h] # NoFd
  PROVE  /\ Gpio[h].status = "held" /\ chip_fd[h] # NoFd
         /\ pc[h] \notin {"opening", "setting"}
  BY DEF IInv, CallOK, Gpio, GpioOf

(* A line no descriptor of the process and no other process holds is unheld. *)
LEMMA FreeIsUnheld ==
  ASSUME IInv, NEW l \in Lines
  PROVE  /\ ~LineBusy(l) => Abstract!Unheld(l)
         /\ \A h \in Handles : Abstract!HoldsLine(h, l) => Gpio[h].status = "held" /\ line[h] = l
<1>1. \A h \in Handles : Abstract!HoldsLine(h, l) <=> Gpio[h].status = "held" /\ Gpio[h].line = l
  BY DEF Abstract!HoldsLine, Abstract!Holding, Gpio
<1>2. ASSUME NEW h \in Handles, Abstract!HoldsLine(h, l)
      PROVE  line_fd[h] \in Fds /\ Holds(line_fd[h], line[h]) /\ line[h] = l
  <2>1. Gpio[h].line = line[h]
    BY <1>1, <1>2, HoldingFile
  <2> QED BY <1>1, <1>2, <2>1, HoldingFile
<1> QED BY <1>1, <1>2 DEF Abstract!Unheld, LineBusy

(* The other handles see nothing of a call. *)
LEMMA OthersKeepGpio ==
  ASSUME IInv, NEW h \in Handles, CallForms(h), NEW g \in Handles \ {h}
  PROVE  GpioOf(g)' = GpioOf(g)
<1>0. /\ chip_fd \in [Handles -> Fds \cup {NoFd}]
      /\ line \in [Handles -> 0 .. NLines]
      /\ pc \in [Handles -> {"idle", "scanning", "found", "opening", "setting"}]
  BY DEF IInv, TypeOK
<1> USE <1>0 DEF Return, Continue, handle
<1>1. ReturnStep(h) \/ ReopenStep(h) \/ RefuseStep(h) \/ OpenStep(h) =>
        chip_fd'[g] = chip_fd[g] /\ line'[g] = line[g] /\ pc'[g] = pc[g]
  BY DEF ReturnStep, ReturnOnly, ReopenStep, ReopenLine, RefuseStep, OpenUnsupported,
         OpenStep, OpenStarted, ClearHandle
<1>2. NameStep(h) \/ Scan(h) \/ RequestGranted(h) \/ RequestRefused(h) =>
        chip_fd'[g] = chip_fd[g] /\ line'[g] = line[g] /\ pc'[g] = pc[g]
  BY DEF NameStep, ScanStarted, Scan, ScanFails, RequestGranted, RequestRefused, AbandonOpen
<1>3. WriteStep(h) \/ TakeStep(h) \/ Close(h) =>
        chip_fd'[g] = chip_fd[g] /\ line'[g] = line[g] /\ pc'[g] = pc[g]
  BY DEF WriteStep, WriteLine, TakeStep, TakeEvent, Close
<1>4. chip_fd'[g] = chip_fd[g] /\ line'[g] = line[g] /\ pc'[g] = pc[g]
  BY <1>1, <1>2, <1>3 DEF CallForms
<1> QED BY <1>4, OthersKeepLine, SameGpio

(* Hence a call is a step of its own handle. *)
LEMMA OwnStep ==
  ASSUME IInv, NEW h \in Handles, CallForms(h), UNCHANGED ext,
         NEW s, GpioOf(h)' = s, NEW r, ret' = [ret EXCEPT ![h] = r]
  PROVE  Abstract!StepOf(h, s, r)
<1>1. Gpio' = [Gpio EXCEPT ![h] = s]
  BY OthersKeepGpio DEF Gpio
<1> QED BY <1>1 DEF Abstract!StepOf, Gpio

-----------------------------------------------------------------------------
(* Answers *)

(* An error, a success without a value and a call under way claim nothing. *)
LEMMA PlainIsTruthful ==
  ASSUME NEW h \in Handles, NEW r \in Plain
  PROVE  Abstract!Truthful(h, r)
  BY DEF Plain, Errors, Abstract!Truthful

(* A value read is the logical value under the configuration the handle reports. *)
LEMMA ReadIsTruthful ==
  ASSUME IInv, NEW h \in Handles, Read(h)
  PROVE  Abstract!Truthful(h, ret'[h])
<1>0. ret \in [Handles -> Results] /\ level \in [Lines -> {0, 1}]
  BY DEF IInv, TypeOK
<1>1. CASE ret'[h] = "IO"
  BY <1>1, PlainIsTruthful DEF Plain, Errors
<1>2. CASE line_fd[h] # NoFd /\ ret'[h] # "IO"
  <2> DEFINE v == Physical(level[line[h]], fdt[line_fd[h]].attrs.inverted)
  <2>1. ret'[h] = IF v = 1 THEN "high" ELSE "low"
    BY <1>0, <1>2 DEF Read, ReturnOnly, Return
  <2>2. Gpio[h].status = "held"
    BY <1>2, LineIsHeld
  <2>3. Gpio[h].conf = cfg[h] /\ Gpio[h].line = line[h] /\ fdt[line_fd[h]].attrs.inverted = cfg[h].inverted
    BY <2>2, HoldingFile
  <2>4. Abstract!Value(h) = v
    BY <2>3 DEF Abstract!Value, Physical, Gpio
  <2>5. Abstract!Holding(h)
    BY <2>2 DEF Abstract!Holding, Gpio
  <2> QED BY <2>1, <2>4, <2>5 DEF Abstract!Truthful
<1> QED BY <1>0, <1>1, <1>2 DEF Read, ReturnOnly, Return

(* What polling says of the events. *)
LEMMA PollIsTruthful ==
  ASSUME IInv, NEW h \in Handles, Poll(h)
  PROVE  Abstract!Truthful(h, ret'[h])
<1>0. ret \in [Handles -> Results] /\ Opened(h)
  BY DEF IInv, TypeOK, Poll
<1>1. CASE ret'[h] \in {"INVALID_OPERATION", "IO"}
  BY <1>1, PlainIsTruthful DEF Plain, Errors
<1>2. CASE line_fd[h] = NoFd /\ ret'[h] = "timeout"
  <2>1. GpioOf(h).status # "held"
    BY <1>2 DEF GpioOf
  <2>2. ~Abstract!Holding(h)
    BY <2>1 DEF Abstract!Holding
  <2> QED BY <1>2, <2>2 DEF Abstract!Truthful
<1>3. CASE /\ line_fd[h] # NoFd
           /\ ret'[h] = IF fdt[line_fd[h]].events = <<>> THEN "timeout" ELSE "ready"
  <2>1. Gpio[h].status = "held"
    BY <1>3, LineIsHeld
  <2>2. Gpio[h].events = fdt[line_fd[h]].events
    BY <2>1, HoldingFile
  <2>3. Abstract!Holding(h)
    BY <2>1 DEF Abstract!Holding, Gpio
  <2> QED BY <1>3, <2>2, <2>3 DEF Abstract!Truthful, Gpio
<1> QED BY <1>0, <1>1, <1>2, <1>3 DEF Poll, ReturnOnly, Return

(* Taking an event leaves a shorter queue. *)
LEMMA TakeChangesFdt ==
  ASSUME IInv, NEW h \in Handles, line_fd[h] # NoFd, TakeEvent(h)
  PROVE  fdt' # fdt
<1> DEFINE q == fdt[line_fd[h]].events
<1>1. Gpio[h].status = "held"
  BY LineIsHeld
<1>2. /\ fdt[line_fd[h]] \in [kind : {"line"}, line : Lines, attrs : Attrs, events : Seq(Events)]
      /\ line_fd[h] \in Fds
  BY <1>1, HoldingFile
<1>3. fdt'[line_fd[h]].events = Tail(q)
  BY <1>2 DEF TakeEvent, IInv, TypeOK
<1>4. q \in Seq(Events) /\ q # <<>>
  BY <1>2 DEF TakeEvent
<1>5. Tail(q) # q
  <2>1. Len(q) \in Nat /\ Len(q) # 0
    BY <1>4
  <2>2. Len(Tail(q)) = Len(q) - 1
    BY <1>4, <2>1
  <2>3. Tail(q) = q => Len(Tail(q)) = Len(q)
    OBVIOUS
  <2>4. Len(q) \in Nat => Len(q) - 1 # Len(q)
    BY SMT
  <2> HIDE DEF q
  <2> QED BY ONLY <2>1, <2>2, <2>3, <2>4
<1> QED BY <1>3, <1>5

(* Opens and setters answer with an error or with success alone. *)
LEMMA SetAnswers ==
  ASSUME IInv, NEW h \in Handles, SetCalls(h)
  PROVE  ret'[h] \in Plain
<1>0. ret \in [Handles -> Results]
  BY DEF IInv, TypeOK
<1>1. ASSUME NEW valid, NEW allowed, NEW same, NEW new, Setter(h, valid, allowed, same, new)
      PROVE  ret'[h] \in Plain
  BY <1>0, <1>1 DEF Setter, Reopen, ReopenLine, ReturnOnly, Return, Continue, Plain, Errors
<1> QED BY <1>1 DEF SetCalls, SetDirection, SetEdge, SetEventClock, SetDebounce, SetBias, SetDrive,
                    SetInverted

LEMMA OpenAnswers ==
  ASSUME IInv, NEW h \in Handles, OpenCalls(h)
  PROVE  ret'[h] \in Plain
<1>0. ret \in [Handles -> Results]
  BY DEF IInv, TypeOK
<1> USE <1>0 DEF ReturnOnly, Return, Continue, Plain, Errors
<1>1. ASSUME NEW l, NEW c, OpenChip(h, l, c) PROVE ret'[h] \in Plain
  BY <1>1 DEF OpenChip, OpenUnsupported, OpenStarted
<1>2. ASSUME NEW name, NEW c, OpenName(h, name, c) PROVE ret'[h] \in Plain
  BY <1>2 DEF OpenName, ScanStarted
<1>3. Scan(h) \/ RequestGranted(h) \/ RequestRefused(h) => ret'[h] \in Plain
  BY DEF Scan, ScanFails, RequestGranted, RequestRefused
<1> QED BY <1>1, <1>2, <1>3 DEF OpenCalls, OpenAdvanced, OpenFound

-----------------------------------------------------------------------------
(* Calls *)

(* A call that leaves the handle as GpioLine sees it only answers. *)
LEMMA AnswerStep ==
  ASSUME IInv, NEW h \in Handles, CallForms(h), UNCHANGED <<ext, level>>,
         GpioOf(h)' = GpioOf(h), NEW r, ret' = [ret EXCEPT ![h] = r], Abstract!Truthful(h, r)
  PROVE  Abstract!Answer(h)
<1>1. Abstract!StepOf(h, GpioOf(h), r)
  BY OwnStep
<1>2. ret'[h] = r
  BY DEF IInv, TypeOK
<1> QED BY <1>1, <1>2 DEF Abstract!Answer, Gpio

(* The steps of an open before its line is requested: closed all along. *)
LEMMA OpeningRefines ==
  ASSUME IInv, NEW h \in Handles, CallForms(h),
         RefuseStep(h) \/ OpenStep(h) \/ NameStep(h) \/ Scan(h)
  PROVE  Abstract!Answer(h)
<1>0. /\ chip_fd \in [Handles -> Fds \cup {NoFd}]
      /\ pc \in [Handles -> {"idle", "scanning", "found", "opening", "setting"}]
      /\ CallOK
  BY DEF IInv, TypeOK
<1> USE <1>0 DEF Return, Continue, handle, world
<1>1. chip_fd[h] = NoFd
  BY DEF RefuseStep, OpenStep, NameStep, Scan, AboutToOpen, Closed, CallOK
<1>2. UNCHANGED <<ext, level>>
  BY DEF RefuseStep, OpenUnsupported, OpenStep, OpenStarted, ClearHandle, NameStep, ScanStarted, Scan
<1>3. chip_fd'[h] = NoFd \/ pc'[h] = "opening"
  BY <1>1 DEF RefuseStep, OpenUnsupported, OpenStep, OpenStarted, NameStep, ScanStarted, Scan
<1>4. GpioOf(h)' = GpioOf(h)
  BY <1>1, <1>3 DEF GpioOf
<1>5. \E r \in Plain : ret' = [ret EXCEPT ![h] = r]
  BY DEF RefuseStep, OpenUnsupported, OpenStep, OpenStarted, NameStep, ScanStarted, Scan, ScanFails,
         Plain, Errors
<1> QED BY <1>2, <1>4, <1>5, AnswerStep, PlainIsTruthful

(* A request refused: an open closes its chip, a setter stays without a line. *)
LEMMA RefusedRefines ==
  ASSUME IInv, NEW h \in Handles, CallForms(h), RequestRefused(h)
  PROVE  Abstract!Answer(h)
<1>0. /\ chip_fd \in [Handles -> Fds \cup {NoFd}]
      /\ pc \in [Handles -> {"idle", "scanning", "found", "opening", "setting"}]
      /\ CallOK
  BY DEF IInv, TypeOK
<1>1. UNCHANGED <<ext, level>> /\ ret' = [ret EXCEPT ![h] = "OPEN"] /\ pc'[h] = "idle"
      /\ UNCHANGED <<line_fd, line, cfg>>
  BY <1>0 DEF RequestRefused, Return, world
<1>2. CASE pc[h] = "setting"
  <2>1. chip_fd'[h] = chip_fd[h] /\ line_fd[h] = NoFd
    BY <1>0, <1>2 DEF RequestRefused, CallOK
  <2>2. GpioOf(h)' = GpioOf(h)
    BY <1>1, <1>2, <2>1 DEF GpioOf
  <2> QED BY <1>1, <2>2, AnswerStep, PlainIsTruthful DEF Plain, Errors
<1>3. CASE pc[h] = "opening"
  <2>1. chip_fd'[h] = NoFd
    BY <1>0, <1>3 DEF RequestRefused, AbandonOpen
  <2>2. GpioOf(h)' = GpioOf(h)
    BY <1>3, <2>1 DEF GpioOf
  <2> QED BY <1>1, <2>2, AnswerStep, PlainIsTruthful DEF Plain, Errors
<1> QED BY <1>2, <1>3 DEF RequestRefused

(* A request granted: the line is acquired, free until now, with no event. *)
LEMMA GrantedRefines ==
  ASSUME IInv, NEW h \in Handles, CallForms(h), RequestGranted(h)
  PROVE  Abstract!Acquire(h)
<1>0. /\ fdt \in [Fds -> Files] /\ NoFd \notin Fds
      /\ line_fd \in [Handles -> Fds \cup {NoFd}]
      /\ cfg \in [Handles -> CachedConfigs]
      /\ pc \in [Handles -> {"idle", "scanning", "found", "opening", "setting"}]
      /\ CallOK
  BY FdAssumption DEF IInv, TypeOK
<1> DEFINE c == req[h]
           s == [status |-> "held", line |-> line[h], conf |-> CachedConfig(c), events |-> <<>>]
<1>1. /\ pc[h] \in {"opening", "setting"} /\ c \in Requestable /\ c \in Config
      /\ chip_fd[h] # NoFd /\ line_fd[h] = NoFd
      /\ line[h] \in Lines /\ ~LineBusy(line[h])
  BY <1>0 DEF RequestGranted, CallOK, Requestable
<1>2. /\ pc'[h] = "idle" /\ chip_fd' = chip_fd /\ line' = line /\ ext' = ext
      /\ ret' = [ret EXCEPT ![h] = "ok"]
      /\ cfg'[h] = CachedConfig(c)
  BY <1>0 DEF RequestGranted, Return
<1>3. PICK fd \in Fds : fdt' = [fdt EXCEPT ![fd] = LineFile(line[h], RequestOf(c))]
                         /\ line_fd' = [line_fd EXCEPT ![h] = fd]
  BY DEF RequestGranted, FreeFds
<1>4. line_fd'[h] # NoFd /\ fdt'[line_fd'[h]].events = <<>>
  BY <1>0, <1>3 DEF LineFile
<1>5. GpioOf(h)' = s
  BY <1>1, <1>2, <1>4 DEF GpioOf
<1> HIDE DEF s
<1>6. Abstract!StepOf(h, s, "ok")
  BY <1>2, <1>5, OwnStep
<1>7. s.line = line[h] /\ s.conf = CachedConfig(c) /\ s.status = "held"
      /\ s = Abstract!Held(s.line, s.conf, <<>>)
  BY DEF s, Abstract!Held
<1>8. Gpio'[h] = s
  BY <1>5 DEF Gpio
<1>9. ~Abstract!Holding(h) /\ Abstract!Holding(h)'
  BY <1>1, <1>7, <1>8 DEF Abstract!Holding, GpioOf, Gpio
<1>10. Abstract!Unheld(s.line) /\ s.line \in Lines
  BY <1>1, <1>7, FreeIsUnheld
<1>11. Gpio[h].status = "lost" => s.line = Gpio[h].line
  <2>1. Gpio[h] = GpioOf(h)
    BY DEF Gpio
  <2> QED BY <1>1, <1>7, <2>1 DEF GpioOf
<1>12. s.conf \in CachedConfigs
  BY <1>1, <1>7, RequestTypes
<1>13. \/ s.conf.direction = "in" /\ UNCHANGED level
       \/ s.conf.direction = "out" /\ \E v \in {0, 1} : level' = [level EXCEPT ![s.line] = v]
  <2>1. CASE c.direction = "in"
    <3>1. UNCHANGED level
      BY <2>1 DEF RequestGranted
    <3>2. CachedConfig(c).direction = "in"
      BY <1>1, <2>1 DEF CachedConfig, Config
    <3> QED BY <1>7, <3>1, <3>2
  <2>2. CASE c.direction # "in"
    <3>1. level' = [level EXCEPT ![line[h]] = Physical(InitialValue(c), c.inverted)]
      BY <2>2 DEF RequestGranted
    <3>2. Physical(InitialValue(c), c.inverted) \in {0, 1}
      BY DEF Physical, InitialValue
    <3>3. CachedConfig(c).direction = "out"
      BY <1>1, <2>2 DEF CachedConfig, Config
    <3> QED BY <1>7, <3>1, <3>2, <3>3
  <2> QED BY <2>1, <2>2
<1> HIDE DEF c
<1>14. Abstract!Holding(h)' /\ Gpio'[h].line = s.line /\ Gpio'[h].conf = s.conf
  BY <1>8, <1>9
<1> QED BY <1>6, <1>7, <1>9, <1>10, <1>11, <1>12, <1>13, <1>14 DEF Abstract!Acquire, Gpio

(* The first half of a reconfiguration loses the line, if the handle has it. *)
LEMMA ReopenRefines ==
  ASSUME IInv, NEW h \in Handles, CallForms(h), ReopenStep(h)
  PROVE  Abstract!Lose(h) \/ Abstract!Answer(h)
<1>0. /\ line_fd \in [Handles -> Fds \cup {NoFd}]
      /\ pc \in [Handles -> {"idle", "scanning", "found", "opening", "setting"}]
  BY DEF IInv, TypeOK
<1>1. /\ UNCHANGED <<ext, level>> /\ ret' = [ret EXCEPT ![h] = "none"]
      /\ pc[h] = "idle" /\ pc'[h] = "setting" /\ chip_fd[h] # NoFd
      /\ UNCHANGED <<chip_fd, line, cfg>> /\ line_fd'[h] = NoFd
  BY <1>0 DEF ReopenStep, ReopenLine, CloseLine, Continue, Opened, world
<1>2. CASE line_fd[h] = NoFd
  <2>1. GpioOf(h)' = GpioOf(h)
    BY <1>1, <1>2 DEF GpioOf
  <2> QED BY <1>1, <2>1, AnswerStep, PlainIsTruthful DEF Plain
<1>3. CASE line_fd[h] # NoFd
  <2> DEFINE s == [status |-> "lost", line |-> line[h], conf |-> cfg[h]]
  <2>1. GpioOf(h)' = s
    BY <1>1 DEF GpioOf
  <2>2. Gpio[h].status = "held"
    BY <1>3, LineIsHeld
  <2>3. Gpio[h].line = line[h] /\ Gpio[h].conf = cfg[h]
    BY <2>2, HoldingFile
  <2>4. s = Abstract!Lost(Gpio[h].line, Gpio[h].conf)
    BY <2>3 DEF Abstract!Lost
  <2> HIDE DEF s
  <2>5. Abstract!StepOf(h, s, "none")
    BY <1>1, <2>1, OwnStep
  <2> QED BY <1>1, <2>2, <2>4, <2>5 DEF Abstract!Lose, Abstract!Holding, Gpio
<1> QED BY <1>2, <1>3

(* Closing, whatever the handle was. *)
LEMMA CloseRefines ==
  ASSUME IInv, NEW h \in Handles, CallForms(h), Close(h)
  PROVE  Abstract!Close(h)
<1>1. chip_fd'[h] = NoFd /\ UNCHANGED <<ext, level>> /\ ret' = [ret EXCEPT ![h] = "ok"]
  BY DEF Close, Return, world, IInv, TypeOK
<1>2. GpioOf(h)' = [status |-> "closed"]
  BY <1>1 DEF GpioOf
<1>3. Abstract!StepOf(h, [status |-> "closed"], "ok")
  BY <1>1, <1>2, OwnStep
<1> QED BY <1>1, <1>3 DEF Abstract!Close, Abstract!Closed

(* A write moves the level of a line held as an output, and nothing else. *)
LEMMA WriteRefines ==
  ASSUME IInv, NEW h \in Handles, CallForms(h), WriteStep(h)
  PROVE  Abstract!Write(h)
<1>0. /\ level \in [Lines -> {0, 1}]
      /\ pc \in [Handles -> {"idle", "scanning", "found", "opening", "setting"}]
  BY DEF IInv, TypeOK
<1>1. /\ pc[h] = "idle" /\ pc'[h] = "idle" /\ cfg[h].direction = "out" /\ line_fd[h] # NoFd
      /\ UNCHANGED <<ext, fdt, chip_fd, line_fd, line, cfg>> /\ ret' = [ret EXCEPT ![h] = "ok"]
  BY <1>0 DEF WriteStep, WriteLine, Opened, Return, handle
<1>2. \E v \in {0, 1} : level' = [level EXCEPT ![line[h]] = v]
  <2>1. PICK v \in {0, 1} : WriteLine(h, v)
    BY DEF WriteStep
  <2>2. Physical(v, fdt[line_fd[h]].attrs.inverted) \in {0, 1}
    BY DEF Physical
  <2> QED BY <2>1, <2>2 DEF WriteLine
<1>3. Gpio[h].status = "held"
  BY <1>1, LineIsHeld
<1>4. Gpio[h].line = line[h] /\ Gpio[h].conf = cfg[h]
  BY <1>3, HoldingFile
<1>5. GpioOf(h)' = GpioOf(h)
  BY <1>1, SameGpio
<1>6. Abstract!StepOf(h, GpioOf(h), "ok")
  BY <1>1, <1>5, OwnStep
<1> QED BY <1>1, <1>2, <1>3, <1>4, <1>6 DEF Abstract!Write, Abstract!Holding, Gpio

(* An event is taken from the front of the queue. *)
LEMMA TakeRefines ==
  ASSUME IInv, NEW h \in Handles, CallForms(h), TakeStep(h)
  PROVE  Abstract!TakeEvent(h)
<1>0. /\ line_fd \in [Handles -> Fds \cup {NoFd}] /\ fdt \in [Fds -> Files]
      /\ pc \in [Handles -> {"idle", "scanning", "found", "opening", "setting"}]
  BY DEF IInv, TypeOK
<1> DEFINE q == fdt[line_fd[h]].events
           s == [status |-> "held", line |-> line[h], conf |-> cfg[h], events |-> Tail(q)]
<1>1. /\ pc[h] = "idle" /\ pc'[h] = "idle" /\ chip_fd[h] # NoFd /\ line_fd[h] # NoFd
      /\ cfg[h].edge # "none" /\ q # <<>>
      /\ UNCHANGED <<ext, level, chip_fd, line_fd, line, cfg>>
      /\ ret' = [ret EXCEPT ![h] = Head(q)]
      /\ fdt' = [fdt EXCEPT ![line_fd[h]].events = Tail(q)]
  BY <1>0 DEF TakeStep, TakeEvent, HasEdge, Opened, Return, handle, world
<1>2. Gpio[h].status = "held"
  BY <1>1, LineIsHeld
<1>3. /\ Gpio[h].line = line[h] /\ Gpio[h].conf = cfg[h] /\ Gpio[h].events = q
      /\ fdt[line_fd[h]] \in [kind : {"line"}, line : Lines, attrs : Attrs, events : Seq(Events)]
      /\ line_fd[h] \in Fds
  BY <1>2, HoldingFile
<1>4. fdt'[line_fd[h]].events = Tail(q)
  BY <1>0, <1>1, <1>3
<1>5. GpioOf(h)' = s
  BY <1>1, <1>4 DEF GpioOf
<1>6. s = Abstract!Held(Gpio[h].line, Gpio[h].conf, Tail(Gpio[h].events))
  BY <1>3 DEF Abstract!Held
<1> HIDE DEF s
<1>7. Abstract!StepOf(h, s, Head(q))
  BY <1>1, <1>5, OwnStep
<1> QED BY <1>1, <1>2, <1>3, <1>6, <1>7 DEF Abstract!TakeEvent, Abstract!Holding, Gpio

(* A call is a step of GpioLine when what it returns is true. *)
LEMMA CallRefines ==
  ASSUME IInv, NEW h \in Handles, CallForms(h),
         ReturnStep(h) => Abstract!Truthful(h, ret'[h])
  PROVE  Abstract!Next
<1>1. CASE ReturnStep(h)
  <2>1. /\ UNCHANGED <<ext, level, fdt, chip_fd, line_fd, line, cfg>>
        /\ pc[h] \in {"idle", "found"} /\ pc'[h] = "idle"
        /\ ret' = [ret EXCEPT ![h] = ret'[h]]
    BY <1>1 DEF ReturnStep, ReturnOnly, Return, handle, world, IInv, TypeOK
  <2>2. GpioOf(h)' = GpioOf(h)
    BY <2>1, SameGpio
  <2>3. Abstract!Answer(h)
    BY <1>1, <2>1, <2>2, AnswerStep
  <2> QED BY <2>3 DEF Abstract!Next
<1>2. CASE RefuseStep(h) \/ OpenStep(h) \/ NameStep(h) \/ Scan(h)
  BY <1>2, OpeningRefines DEF Abstract!Next
<1>3. CASE RequestGranted(h) \/ RequestRefused(h)
  BY <1>3, GrantedRefines, RefusedRefines DEF Abstract!Next
<1>4. CASE ReopenStep(h) \/ Close(h)
  BY <1>4, ReopenRefines, CloseRefines DEF Abstract!Next
<1>5. CASE WriteStep(h) \/ TakeStep(h)
  BY <1>5, WriteRefines, TakeRefines DEF Abstract!Next
<1> QED BY <1>1, <1>2, <1>3, <1>4, <1>5 DEF CallForms

-----------------------------------------------------------------------------
(* The outside *)

(* Other processes move their own lines only. *)
LEMMA OthersRefine ==
  ASSUME IInv, NEW l \in Lines, ExtRequest(l) \/ ExtRelease(l)
  PROVE  Abstract!OthersMove(l) \/ UNCHANGED Abstract!vars
<1>1. UNCHANGED <<level, ret>> /\ UNCHANGED Gpio
  BY DEF ExtRequest, ExtRelease, handle, Gpio, GpioOf
<1>2. CASE ExtRequest(l)
  <2>1. Abstract!Unheld(l)
    BY <1>2, FreeIsUnheld DEF ExtRequest
  <2> QED BY <1>1, <1>2, <2>1 DEF ExtRequest, Abstract!OthersMove, Gpio
<1>3. CASE ExtRelease(l) /\ l \in ext
  BY <1>1, <1>3 DEF ExtRelease, Abstract!OthersMove, Gpio
<1>4. CASE ExtRelease(l) /\ l \notin ext
  BY <1>1, <1>4 DEF ExtRelease, Abstract!vars, Gpio
<1> QED BY <1>2, <1>3, <1>4

(* The edge of a line reaches its holder and nobody else. *)
LEMMA ToggleRefines ==
  ASSUME IInv, NEW l \in Lines, Toggle(l)
  PROVE  Abstract!Toggle(l)
<1>0. fdt \in [Fds -> Files] /\ level \in [Lines -> {0, 1}]
  BY DEF IInv, TypeOK
<1>1. UNCHANGED <<ext, ret, chip_fd, line_fd, line, cfg, pc>>
      /\ level' = [level EXCEPT ![l] = 1 - @]
  BY DEF Toggle, handle
<1> DEFINE v == 1 - level[l]
<1>2. v \in {0, 1}
  BY <1>0
<1>3. ASSUME NEW h \in Handles
      PROVE  GpioOf(h)' = IF Abstract!HoldsLine(h, l)
                            THEN Abstract!Held(l, Gpio[h].conf, Abstract!Seen(Gpio[h], v))
                            ELSE Gpio[h]
  <2>1. CASE Gpio[h].status # "held"
    <3>1. line_fd[h] = NoFd
      BY <2>1, LineIsHeld
    <3>2. GpioOf(h)' = GpioOf(h)
      BY <1>1, <3>1, SameGpio
    <3> QED BY <2>1, <3>2 DEF Abstract!HoldsLine, Abstract!Holding, Gpio
  <2>2. CASE Gpio[h].status = "held"
    <3> DEFINE f == fdt[line_fd[h]]
    <3>1. /\ line_fd[h] \in Fds /\ f.kind = "line" /\ f.line = line[h] /\ chip_fd[h] # NoFd
          /\ f \in [kind : {"line"}, line : Lines, attrs : Attrs, events : Seq(Events)]
          /\ f.attrs.inverted = cfg[h].inverted /\ f.attrs.edge = cfg[h].edge
          /\ Gpio[h].line = line[h] /\ Gpio[h].conf = cfg[h] /\ Gpio[h].events = f.events
      BY <2>2, HoldingFile DEF Holds
    <3>2. line_fd[h] # NoFd /\ pc[h] # "opening"
      <4>1. line_fd[h] # NoFd
        BY <3>1, FdAssumption
      <4> QED BY <4>1, LineIsHeld
    <3>3. CASE line[h] # l
      <4>1. fdt'[line_fd[h]] = f
        BY <3>1, <3>3 DEF Toggle, Holds
      <4>2. GpioOf(h)' = GpioOf(h)
        BY <1>1, <4>1, SameGpio
      <4> QED BY <3>1, <3>3, <4>2 DEF Abstract!HoldsLine, Gpio
    <3>4. CASE line[h] = l
      <4>1. fdt'[line_fd[h]] = Notify(f, v)
        BY <3>1, <3>4 DEF Toggle, Holds
      <4>2. Notify(f, v).events = Abstract!Seen(Gpio[h], v)
        <5>1. f.attrs.inverted \in BOOLEAN
          BY <3>1 DEF Attrs, Config
        <5>2. Physical(v, f.attrs.inverted) = 1 <=> (v = 1) # f.attrs.inverted
          BY <1>2, <5>1 DEF Physical
        <5> DEFINE event == IF (v = 1) # f.attrs.inverted THEN "rising" ELSE "falling"
                   kept == IF Len(f.events) = EventBuffer THEN Tail(f.events) ELSE f.events
        <5>3. Notify(f, v) = IF f.attrs.edge \in {event, "both"}
                               THEN [f EXCEPT !.events = Append(kept, event)] ELSE f
          BY <5>2 DEF Notify, Enqueue
        <5>4. Abstract!Seen(Gpio[h], v) =
                IF f.attrs.edge \in {event, "both"} THEN Append(kept, event) ELSE f.events
          BY <3>1 DEF Abstract!Seen
        <5> HIDE DEF event, kept
        <5> QED BY <3>1, <5>3, <5>4
      <4>3. GpioOf(h)' = [status |-> "held", line |-> line[h], conf |-> cfg[h],
                          events |-> Notify(f, v).events]
        BY <1>1, <3>1, <3>2, <4>1 DEF GpioOf
      <4>4. Abstract!HoldsLine(h, l)
        BY <2>2, <3>1, <3>4 DEF Abstract!HoldsLine, Abstract!Holding, Gpio
      <4> QED BY <3>1, <3>4, <4>2, <4>3, <4>4 DEF Abstract!Held
    <3> QED BY <3>3, <3>4
  <2> QED BY <2>1, <2>2
<1>4. ASSUME NEW h \in Handles, Abstract!HoldsLine(h, l)
      PROVE  Gpio[h].conf.direction = "in"
  <2>1. Gpio[h].status = "held" /\ line[h] = l
    BY <1>4, FreeIsUnheld
  <2>2. /\ line_fd[h] \in Fds /\ Holds(line_fd[h], l) /\ Gpio[h].conf = cfg[h]
        /\ fdt[line_fd[h]].attrs.direction = cfg[h].direction
    BY <2>1, HoldingFile
  <2>3. cfg[h].direction \in {"in", "out"}
    BY DEF IInv, TypeOK, CachedConfigs
  <2> QED BY <2>2, <2>3 DEF Toggle, Driven
<1>5. Gpio' = [h \in Handles |-> IF Abstract!HoldsLine(h, l)
                                   THEN Abstract!Held(l, Gpio[h].conf, Abstract!Seen(Gpio[h], v))
                                   ELSE Gpio[h]]
  BY <1>3 DEF Gpio
<1> QED BY <1>1, <1>4, <1>5 DEF Abstract!Toggle, Gpio

(* The outside takes the outside's steps. *)
LEMMA OutsideRefines ==
  ASSUME IInv, Outside
  PROVE  [Abstract!Next]_(Abstract!vars)
  BY OthersRefine, ToggleRefines DEF Outside, Abstract!Next

-----------------------------------------------------------------------------
(* The refinement *)

(* Nothing is open at first. *)
LEMMA InitRefines == Init => Abstract!Init
  BY DEF Init, Abstract!Init, Abstract!Closed, GpioOf

(* Every step is one of GpioLine or changes nothing its callers see. *)
LEMMA NextRefines == IInv /\ [Next]_vars => [Abstract!Next]_(Abstract!vars)
<1> SUFFICES ASSUME IInv, [Next]_vars PROVE [Abstract!Next]_(Abstract!vars)
  OBVIOUS
<1>1. ASSUME NEW h \in Handles, OpenCalls(h) \/ SetCalls(h) \/ IoCalls(h) PROVE Abstract!Next
  <2>1. CallForms(h)
    BY <1>1, StepForms
  <2>2. ReturnStep(h) => Abstract!Truthful(h, ret'[h])
    <3>1. OpenCalls(h) \/ SetCalls(h) => Abstract!Truthful(h, ret'[h])
      BY OpenAnswers, SetAnswers, PlainIsTruthful
    <3>2. Read(h) \/ Poll(h) => Abstract!Truthful(h, ret'[h])
      BY ReadIsTruthful, PollIsTruthful
    <3>3. ASSUME Close(h) \/ (\E v \in {0, 1} : Write(h, v)) PROVE ret'[h] \in Plain
      BY <3>3 DEF Close, Write, WriteLine, ReturnOnly, Return, Plain, Errors, IInv, TypeOK
    <3>4. ASSUME ReadEvent(h), ReturnStep(h) PROVE ret'[h] \in Plain
      <4>1. ~(line_fd[h] # NoFd /\ TakeEvent(h))
        BY <3>4, TakeChangesFdt DEF ReturnStep, ReturnOnly
      <4> QED BY <3>4, <4>1 DEF ReadEvent, ReturnOnly, Return, Plain, Errors, IInv, TypeOK
    <3> QED BY <1>1, <3>1, <3>2, <3>3, <3>4, PlainIsTruthful DEF IoCalls
  <2> QED BY <2>1, <2>2, CallRefines
<1>2. CASE UNCHANGED vars
  BY <1>2 DEF vars, Abstract!vars, GpioOf
<1> QED BY <1>1, <1>2, OutsideRefines DEF Next

(* The back end implements the abstract line. *)
THEOREM Refinement == Spec => LinePromise
<1>1. Spec => []IInv
  BY Invariance
<1> QED BY <1>1, InitRefines, NextRefines, PTL DEF Spec, LinePromise, Abstract!Spec

-----------------------------------------------------------------------------
(* What callers may conclude from GpioLine alone *)

(* A line is held by one handle, or by another process. *)
OneHolder ==
  \A h \in Handles : Abstract!Holding(h) =>
    /\ Gpio[h].line \notin ext
    /\ \A g \in Handles \ {h} : ~Abstract!HoldsLine(g, Gpio[h].line)

LEMMA HolderInit == Abstract!Init => OneHolder
  BY DEF Abstract!Init, Abstract!Closed, Abstract!Holding, OneHolder

(* A step of h that keeps, gives up or takes the line it had keeps the others apart. *)
LEMMA HolderStep ==
  ASSUME OneHolder, NEW h \in Handles, NEW s, NEW r, Abstract!StepOf(h, s, r),
         s.status = "held" =>
           \/ Abstract!HoldsLine(h, s.line)
           \/ Abstract!Unheld(s.line)
  PROVE  OneHolder'
<1>1. Gpio' = [Gpio EXCEPT ![h] = s] /\ UNCHANGED ext
  BY DEF Abstract!StepOf, Gpio
<1>2. Gpio'[h] = s /\ \A g \in Handles \ {h} : Gpio'[g] = Gpio[g]
  BY <1>1 DEF Gpio
<1> HIDE DEF Gpio
<1>a. \A g \in Handles : Abstract!Holding(g) <=> Gpio[g].status = "held"
  BY DEF Abstract!Holding, Gpio
<1>b. \A l : \A g \in Handles :
        Abstract!HoldsLine(g, l) <=> Gpio[g].status = "held" /\ Gpio[g].line = l
  BY DEF Abstract!HoldsLine, Abstract!Holding, Gpio
<1>c. \A g \in Handles : Abstract!Holding(g)' <=> Gpio'[g].status = "held"
  BY DEF Abstract!Holding, Gpio
<1>d. \A l : \A g \in Handles :
        Abstract!HoldsLine(g, l)' <=> Gpio'[g].status = "held" /\ Gpio'[g].line = l
  BY DEF Abstract!HoldsLine, Abstract!Holding, Gpio
<1>3. s.status = "held" =>
        s.line \notin ext /\ \A g \in Handles \ {h} : ~Abstract!HoldsLine(g, s.line)
  BY <1>a, <1>b DEF OneHolder, Abstract!Unheld
<1>4. SUFFICES ASSUME NEW f \in Handles, Gpio'[f].status = "held"
               PROVE  /\ Gpio'[f].line \notin ext
                      /\ \A g \in Handles \ {f} :
                           ~(Gpio'[g].status = "held" /\ Gpio'[g].line = Gpio'[f].line)
  BY <1>1, <1>c, <1>d DEF OneHolder, Gpio
<1>5. CASE f = h
  BY <1>2, <1>3, <1>4, <1>5, <1>b
<1>6. CASE f # h
  BY <1>2, <1>3, <1>4, <1>6, <1>a, <1>b DEF OneHolder
<1> QED
  BY <1>5, <1>6

(* The line of every handle and its being held stay. *)
LEMMA HolderStays ==
  ASSUME OneHolder, \A h \in Handles : /\ Gpio'[h].status = "held" <=> Gpio[h].status = "held"
                                       /\ Gpio[h].status = "held" => Gpio'[h].line = Gpio[h].line,
         \A h \in Handles : Gpio[h].status = "held" => Gpio[h].line \notin ext'
  PROVE  OneHolder'
  BY DEF OneHolder, Abstract!HoldsLine, Abstract!Holding, Gpio

LEMMA HolderNext ==
  ASSUME OneHolder, [Abstract!Next]_(Abstract!vars)
  PROVE  OneHolder'
<1>h. \A h \in Handles : Abstract!Holding(h) => Abstract!HoldsLine(h, Gpio[h].line)
  BY DEF Abstract!HoldsLine, Gpio
<1>1. ASSUME NEW h \in Handles,
             Abstract!Answer(h) \/ Abstract!Lose(h) \/ Abstract!Close(h) \/ Abstract!Write(h)
               \/ Abstract!TakeEvent(h)
      PROVE  OneHolder'
  <2>1. \E s, r : /\ Abstract!StepOf(h, s, r)
                  /\ s.status = "held" => Abstract!HoldsLine(h, s.line)
    BY <1>1 DEF Abstract!Answer, Abstract!Lose, Abstract!Close, Abstract!Write, Abstract!TakeEvent,
                Abstract!Lost, Abstract!Closed, Abstract!Held, Abstract!HoldsLine, Abstract!Holding
  <2> QED
    BY <2>1, HolderStep
<1>2. ASSUME NEW h \in Handles, Abstract!Acquire(h) PROVE OneHolder'
  <2>1. \E l, c : /\ Abstract!StepOf(h, Abstract!Held(l, c, <<>>), "ok")
                  /\ Abstract!Unheld(l)
    BY <1>2 DEF Abstract!Acquire
  <2> QED
    BY <2>1, HolderStep DEF Abstract!Held
<1>3. ASSUME NEW l \in Lines, Abstract!OthersMove(l) PROVE OneHolder'
  <2>1. UNCHANGED Gpio /\ ext' \in {ext \cup {l}, ext \ {l}} /\ (Abstract!Unheld(l) \/ l \in ext)
    BY <1>3 DEF Abstract!OthersMove, Gpio
  <2>2. \A h \in Handles : Gpio[h].status = "held" => Gpio[h].line \notin ext'
    BY <2>1, <1>h DEF OneHolder, Abstract!Unheld, Abstract!Holding, Gpio
  <2> QED
    BY <2>1, <2>2, HolderStays
<1>4. ASSUME NEW l \in Lines, Abstract!Toggle(l) PROVE OneHolder'
  <2>1. \A h \in Handles : /\ Gpio'[h].status = "held" <=> Gpio[h].status = "held"
                           /\ Gpio[h].status = "held" => Gpio'[h].line = Gpio[h].line
    BY <1>4 DEF Abstract!Toggle, Abstract!HoldsLine, Abstract!Holding, Abstract!Held, Gpio
  <2>2. \A h \in Handles : Gpio[h].status = "held" => Gpio[h].line \notin ext'
    BY <1>4 DEF OneHolder, Abstract!Toggle, Abstract!Holding, Gpio
  <2> QED
    BY <2>1, <2>2, HolderStays
<1>5. CASE UNCHANGED Abstract!vars
  <2>1. UNCHANGED <<Gpio, ext>>
    BY <1>5 DEF Abstract!vars, Gpio
  <2> QED
    BY <2>1, HolderStays DEF OneHolder, Abstract!Holding, Gpio
<1> QED
  BY <1>1, <1>2, <1>3, <1>4, <1>5 DEF Abstract!Next

(* Whatever implements GpioLine never has two handles on one line, nor a handle on a
   line of another process: not even between the steps of a call. *)
THEOREM PromiseIsExclusive == LinePromise => []OneHolder
  BY HolderInit, HolderNext, PTL DEF LinePromise, Abstract!Spec

THEOREM LinesAreExclusive == Spec => []OneHolder
  BY PromiseIsExclusive, Refinement, PTL

=============================================================================
