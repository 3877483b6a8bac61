-------------------------- MODULE GpioCdevV1Proofs --------------------------
(***************************************************************************)
(* Theorems about GpioCdevV1.  Every step of NextV1 has one of the forms   *)
(* of the steps of GpioCdev, so the invariant of GpioCdev and the          *)
(* refinement of GpioLine hold by the lemmas on these forms.               *)
(***************************************************************************)
EXTENDS GpioCdevV1, GpioCdevRefines

-----------------------------------------------------------------------------
(* Steps *)

(* A request of v1 is well formed when the configuration it is made of is. *)
LEMMA RequestV1Type ==
  ASSUME NEW c \in Requestable
  PROVE  RequestV1(c) \in Requestable
  BY DEF RequestV1, Requestable, Config, Clocks

(* What the argument checks let through and a request then names. *)
LEMMA OpenRequestType ==
  ASSUME NEW c \in OpenConfigs, OpenArgsValidV1(c)
  PROVE  c \in Requestable /\ RequestV1(c) \in Requestable
<1>1. c \in Requestable
  BY ArgAssumption DEF OpenArgsValidV1, Requestable, Config, Clocks
<1> QED BY <1>1, RequestV1Type

(* A setter only returns, or closes the line and goes on. *)
LEMMA SetFormsV1 ==
  ASSUME IInv, NEW h \in Handles, SetCallsV1(h)
  PROVE  ReturnStep(h) \/ ReopenStep(h)
<1>0. cfg[h] \in Requestable /\ cfg[h] \in Config /\ cfg[h].direction \in {"in", "out"}
  BY DEF IInv, TypeOK, CallOK, CachedConfigs
<1>1. ASSUME NEW valid, NEW allowed, NEW same, NEW new,
             valid /\ allowed => new \in Requestable,
             SetterV1(h, valid, allowed, same, new)
      PROVE  ReturnStep(h) \/ ReopenStep(h)
  <2>1. valid /\ allowed => RequestV1(new) \in Requestable
    BY <1>1, RequestV1Type
  <2> QED BY <1>1, <2>1
          DEF SetterV1, ReopenV1, Opened, ReturnStep, ReopenStep, Results, Errors
<1>2. ASSUME NEW d \in DirectionArgs, SetDirectionV1(h, d) PROVE ReturnStep(h) \/ ReopenStep(h)
  <2>1. d \in Directions => Directed(cfg[h], d) \in Requestable
    BY <1>0 DEF Directed, Requestable, Config, Edges
  <2> QED BY <1>1, <1>2, <2>1 DEF SetDirectionV1
<1>3. ASSUME NEW e \in EdgeArgs, SetEdgeV1(h, e) PROVE ReturnStep(h) \/ ReopenStep(h)
  <2>1. e \in Edges /\ cfg[h].direction = "in" => [cfg[h] EXCEPT !.edge = e] \in Requestable
    BY <1>0 DEF Requestable, Config
  <2> QED BY <1>1, <1>3, <2>1 DEF SetEdgeV1
<1>4. ASSUME NEW b \in BiasArgs, SetBiasV1(h, b) PROVE ReturnStep(h) \/ ReopenStep(h)
  <2>1. b \in Biases => [cfg[h] EXCEPT !.bias = b] \in Requestable
    BY <1>0 DEF Requestable, Config
  <2> QED BY <1>1, <1>4, <2>1 DEF SetBiasV1
<1>5. ASSUME NEW d \in DriveArgs, SetDriveV1(h, d) PROVE ReturnStep(h) \/ ReopenStep(h)
  <2>1. d \in Drives => [cfg[h] EXCEPT !.drive = d] \in Requestable
    BY <1>0 DEF Requestable, Config
  <2> QED BY <1>1, <1>5, <2>1 DEF SetDriveV1
<1>6. ASSUME NEW i \in InvertedArgs, SetInvertedV1(h, i) PROVE ReturnStep(h) \/ ReopenStep(h)
  <2>1. [cfg[h] EXCEPT !.inverted = i] \in Requestable
    BY <1>0, ArgAssumption DEF Requestable, Config
  <2> QED BY <1>1, <1>6, <2>1 DEF SetInvertedV1
<1>7. ASSUME NEW c, SetEventClockV1(h, c) PROVE ReturnStep(h)
  BY <1>7 DEF SetEventClockV1, Opened, ReturnStep, Results, Errors
<1>8. ASSUME NEW us, SetDebounceV1(h, us) PROVE ReturnStep(h)
  BY <1>8 DEF SetDebounceV1, Opened, ReturnStep, Results, Errors
<1> QED BY <1>2, <1>3, <1>4, <1>5, <1>6, <1>7, <1>8 DEF SetCallsV1

(* Every call is of one of the forms. *)
LEMMA StepFormsV1 ==
  ASSUME IInv, NEW h \in Handles, OpenCallsV1(h) \/ SetCallsV1(h) \/ IoCallsV1(h)
  PROVE  CallForms(h)
<1>1. ASSUME AboutToOpen(h), NEW l \in 0 .. NLines, NEW c \in OpenConfigs, OpenChipV1(h, l, c)
      PROVE  ReturnStep(h) \/ RefuseStep(h) \/ OpenStep(h)
  <2>1. OpenArgsValidV1(c) => RequestV1(c) \in Requestable
    BY OpenRequestType
  <2> QED BY <1>1, <2>1
          DEF OpenChipV1, AboutToOpen, ReturnStep, RefuseStep, OpenStep, Results, Errors
<1>2. ASSUME NEW l \in 0 .. NLines, NEW c \in OpenConfigs, OpenAdvancedV1(h, l, c)
      PROVE  CallForms(h)
  BY <1>1, <1>2 DEF OpenAdvancedV1, Closed, AboutToOpen, CallForms
<1>3. ASSUME NEW name \in NameArgs, NEW c \in OpenConfigs, OpenNameV1(h, name, c)
      PROVE  CallForms(h)
  BY <1>3 DEF OpenNameV1, OpenName, Closed, ReturnStep, NameStep, Results, Errors, CallForms
<1>4. ASSUME OpenFoundV1(h) PROVE CallForms(h)
  <2>1. req[h] \in OpenConfigs /\ want[h] \in 0 .. NLines /\ AboutToOpen(h)
    BY <1>4 DEF OpenFoundV1, IInv, CallOK, TypeOK, AboutToOpen
  <2> QED BY <1>1, <1>4, <2>1 DEF OpenFoundV1, CallForms
<1>5. RequestGrantedV1(h) \/ RequestRefusedV1(h) => CallForms(h)
  BY DEF RequestGrantedV1, RequestRefusedV1, CallForms
<1>6. PollV1(h) => ReturnStep(h)
  BY DEF PollV1, Opened, ReturnStep, Results, Errors
<1>7. ReadWriteV1(h) \/ CloseV1(h) => IoCalls(h)
  BY DEF ReadWriteV1, CloseV1, IoCalls
<1>8. IoCallsV1(h) => CallForms(h)
  BY <1>6, <1>7, StepForms DEF IoCallsV1, CallForms
<1>9. SetCallsV1(h) => CallForms(h)
  BY SetFormsV1 DEF CallForms
<1> QED BY <1>2, <1>3, <1>4, <1>5, <1>8, <1>9 DEF OpenCallsV1

-----------------------------------------------------------------------------
(* The invariant *)

(* Every step preserves it. *)
LEMMA NextV1IInv == IInv /\ [NextV1]_vars => IInv'
<1> SUFFICES ASSUME IInv, [NextV1]_vars PROVE IInv'
  OBVIOUS
<1>1. ASSUME NEW h \in Handles, OpenCallsV1(h) \/ SetCallsV1(h) \/ IoCallsV1(h) PROVE IInv'
  <2>1. CallForms(h)
    BY <1>1, StepFormsV1
  <2>2. TypeOK'
    BY <2>1, TypeOKCall
  <2> QED BY <2>1, <2>2, CallOKCall, FdOwnedCall, NoLeakCall, ConfigAppliedCall, EventsMatchEdgeCall
          DEF IInv
<1>2. CASE UNCHANGED vars
  BY <1>2, NextIInv
<1> QED BY <1>1, <1>2, OutsideStep DEF NextV1

(* The inductive invariant of GpioCdev is one of GpioCdevV1. *)
THEOREM InvarianceV1 == SpecV1 => []IInv
  BY InitIInv, NextV1IInv, PTL DEF SpecV1

(* No close() hits a descriptor of somebody else. *)
THEOREM NoSpuriousCloseV1 == SpecV1 => []FdOwned
<1>1. IInv => FdOwned
  BY DEF IInv
<1> QED BY InvarianceV1, <1>1, PTL

(* No path of a call leaves a descriptor nobody records. *)
THEOREM NothingLeaksV1 == SpecV1 => []NoLeak
<1>1. IInv => NoLeak
  BY DEF IInv
<1> QED BY InvarianceV1, <1>1, PTL

(* The getters report what the kernel applies. *)
THEOREM CacheTruthfulV1 == SpecV1 => []ConfigApplied
<1>1. IInv => ConfigApplied
  BY DEF IInv
<1> QED BY InvarianceV1, <1>1, PTL

(* Every variable keeps its type. *)
THEOREM TypeCorrectV1 == SpecV1 => []TypeOK
<1>1. IInv => TypeOK
  BY DEF IInv
<1> QED BY InvarianceV1, <1>1, PTL

(* No event is delivered that was raised under a replaced edge. *)
THEOREM NoStaleEventV1 == SpecV1 => []EventsMatchEdge
<1>1. IInv => EventsMatchEdge
  BY DEF IInv
<1> QED BY InvarianceV1, <1>1, PTL

-----------------------------------------------------------------------------
(* What calls leave *)

LEMMA NextV1IsFormed ==
  ASSUME IInv, [NextV1]_vars
  PROVE  [FormStep]_vars
  BY StepFormsV1 DEF FormStep, NextV1

(* An open of v1 holds both descriptors or none when it returns, though it has three
   requests to choose from and a build that may refuse. *)
THEOREM OpenIsAllOrNothingV1 == SpecV1 => OpenAllOrNothing
<1>1. IInv /\ [NextV1]_vars =>
        [\A h \in Handles : OpenReturns(h) =>
           IF ret'[h] = "ok" THEN NoFd \notin {chip_fd'[h], line_fd'[h]}
                             ELSE {chip_fd'[h], line_fd'[h]} = {NoFd}]_vars
  BY OpenOutcome, NextV1IsFormed
<1> QED BY InvarianceV1, <1>1, PTL DEF SpecV1, OpenAllOrNothing

(* An output of v1 requested high or low is physically so, inverted or not. *)
THEOREM OutputLevelsV1 == SpecV1 => InitialLevelApplied
<1>1. IInv /\ [NextV1]_vars =>
        [\A h \in Handles :
           pc[h] \in {"opening", "setting"} /\ ret'[h] = "ok" /\ req[h].direction # "in" =>
             level'[line[h]] = IF req[h].direction = "out_high" THEN 1 ELSE 0]_vars
  BY LevelOutcome, NextV1IsFormed
<1> QED BY InvarianceV1, <1>1, PTL DEF SpecV1, InitialLevelApplied

-----------------------------------------------------------------------------
(* The refinement *)

(* Opens and setters answer with an error or with success alone. *)
LEMMA AnswersV1 ==
  ASSUME IInv, NEW h \in Handles, OpenCallsV1(h) \/ SetCallsV1(h)
  PROVE  ret'[h] \in Plain
<1>0. ret \in [Handles -> Results]
  BY DEF IInv, TypeOK
<1> USE <1>0 DEF ReturnOnly, Return, Continue, Plain, Errors
<1>1. ASSUME NEW l, NEW c, OpenChipV1(h, l, c) PROVE ret'[h] \in Plain
  BY <1>1 DEF OpenChipV1, OpenUnsupported, OpenStarted
<1>2. ASSUME NEW name, NEW c, OpenNameV1(h, name, c) PROVE ret'[h] \in Plain
  BY <1>2 DEF OpenNameV1, OpenName, ScanStarted, Scan, ScanFails
<1>3. RequestGrantedV1(h) \/ RequestRefusedV1(h) => ret'[h] \in Plain
  BY DEF RequestGrantedV1, RequestRefusedV1, RequestGranted, RequestRefused
<1>4. OpenCallsV1(h) => ret'[h] \in Plain
  BY <1>1, <1>2, <1>3 DEF OpenCallsV1, OpenAdvancedV1, OpenFoundV1
<1>5. ASSUME NEW valid, NEW allowed, NEW same, NEW new, SetterV1(h, valid, allowed, same, new)
      PROVE  ret'[h] \in Plain
  BY <1>5 DEF SetterV1, ReopenV1, ReopenLine
<1>6. ASSUME NEW c, SetEventClockV1(h, c) \/ SetDebounceV1(h, c) PROVE ret'[h] \in Plain
  BY <1>6 DEF SetEventClockV1, SetDebounceV1
<1>7. SetCallsV1(h) => ret'[h] \in Plain
  BY <1>5, <1>6 DEF SetCallsV1, SetDirectionV1, SetEdgeV1, SetBiasV1, SetDriveV1, SetInvertedV1
<1> QED BY <1>4, <1>7

(* What polling says: an input without an edge is ready whatever happened. *)
LEMMA PollV1IsTruthful ==
  ASSUME IInv, NEW h \in Handles, PollV1(h)
  PROVE  Abstract!Truthful(h, ret'[h])
<1>0. ret \in [Handles -> Results] /\ Opened(h)
  BY DEF IInv, TypeOK, PollV1
<1>1. CASE ret'[h] \in {"INVALID_OPERATION", "IO"}
  BY <1>1, PlainIsTruthful DEF Plain, Errors
<1>2. CASE line_fd[h] = NoFd /\ ret'[h] = "timeout"
  <2>1. GpioOf(h).status # "held"
    BY <1>2 DEF GpioOf
  <2>2. ~Abstract!Holding(h)
    BY <2>1 DEF Abstract!Holding
  <2> QED BY <1>2, <2>2 DEF Abstract!Truthful
<1>3. CASE line_fd[h] # NoFd /\ ret'[h] = IF PollReady(h) THEN "ready" ELSE "timeout"
  <2>1. Gpio[h].status = "held"
    BY <1>3, LineIsHeld
  <2>2. /\ Gpio[h].events = fdt[line_fd[h]].events
        /\ Gpio[h].conf.edge = fdt[line_fd[h]].attrs.edge
    BY <2>1, HoldingFile
  <2>3. Abstract!Holding(h)
    BY <2>1 DEF Abstract!Holding, Gpio
  <2> QED BY <1>3, <2>2, <2>3 DEF Abstract!Truthful, PollReady, Gpio
<1> QED BY <1>0, <1>1, <1>2, <1>3 DEF PollV1, PollReady, ReturnOnly, Return

(* Every step is one of GpioLine or changes nothing its callers see. *)
LEMMA NextV1Refines == IInv /\ [NextV1]_vars => [Abstract!Next]_(Abstract!vars)
<1> SUFFICES ASSUME IInv, [NextV1]_vars PROVE [Abstract!Next]_(Abstract!vars)
  OBVIOUS
<1>1. ASSUME NEW h \in Handles, OpenCallsV1(h) \/ SetCallsV1(h) \/ PollV1(h) PROVE Abstract!Next
  <2>1. CallForms(h)
    BY <1>1, StepFormsV1 DEF IoCallsV1
  <2>2. Abstract!Truthful(h, ret'[h])
    BY <1>1, AnswersV1, PlainIsTruthful, PollV1IsTruthful
  <2> QED BY <2>1, <2>2, CallRefines
<1>2. ASSUME NEW h \in Handles, ReadWriteV1(h) \/ CloseV1(h) PROVE [Abstract!Next]_(Abstract!vars)
  <2>1. Next
    BY <1>2 DEF ReadWriteV1, CloseV1, IoCalls, Next
  <2> QED BY <2>1, NextRefines
<1>3. CASE UNCHANGED vars
  BY <1>3, NextRefines
<1> QED BY <1>1, <1>2, <1>3, OutsideRefines DEF NextV1, IoCallsV1

(* The v1 back end implements the abstract line as well. *)
THEOREM RefinementV1 == SpecV1 => LinePromise
<1>1. SpecV1 => []IInv
  BY InvarianceV1
<1> QED BY <1>1, InitRefines, NextV1Refines, PTL DEF SpecV1, LinePromise, Abstract!Spec

(* Hence a line has one holder here too. *)
THEOREM LinesAreExclusiveV1 == SpecV1 => []OneHolder
  BY PromiseIsExclusive, RefinementV1, PTL

(* What reopening would drop is the default once the arguments are accepted. *)
LEMMA NothingToDrop ==
  ASSUME NEW c \in OpenConfigs, OpenArgsValidV1(c), OpenSupported(c)
  PROVE  RequestV1(c) = c
<1>1. c \in Config /\ c.event_clock = "realtime" /\ c.debounce_us = 0
  BY OpenRequestType DEF OpenArgsValidV1, OpenSupported, Requestable
<1> QED BY <1>1 DEF RequestV1, Config

(* Opening the chip with c goes on with c. *)
LEMMA OpenKeepsConfig ==
  ASSUME IInv, NEW h \in Handles, NEW l, NEW c \in OpenConfigs, OpenChipV1(h, l, c),
         pc'[h] = "opening"
  PROVE  req'[h] = c
<1>0. pc \in [Handles -> {"idle", "scanning", "found", "opening", "setting"}]
      /\ req \in [Handles -> Config \cup OpenConfigs]
  BY DEF IInv, TypeOK
<1>1. /\ OpenArgsValidV1(c) /\ OpenSupported(c)
      /\ OpenStarted(h, l, RequestV1(c))
  BY <1>0 DEF OpenChipV1, OpenUnsupported, ReturnOnly, Return
<1>2. req'[h] = RequestV1(c)
  BY <1>0, <1>1 DEF OpenStarted, Continue
<1> QED BY <1>1, <1>2, NothingToDrop

(* An open requests all it was asked for. *)
LEMMA AskedIsRequested ==
  ASSUME IInv, [NextV1]_vars, NEW h \in Handles, NEW c \in OpenConfigs,
         AskedToOpen(h, c), pc'[h] = "opening"
  PROVE  req'[h] = c
<1>1. CASE \E l \in 0 .. NLines : OpenAdvancedV1(h, l, c)
  BY <1>1, OpenKeepsConfig DEF OpenAdvancedV1
<1>2. CASE pc[h] = "found" /\ req[h] = c
  <2>1. ~Outside /\ vars' # vars
    BY <1>2 DEF Outside, ExtRequest, ExtRelease, Toggle, vars
  <2>2. PICK g \in Handles : OpenCallsV1(g) \/ SetCallsV1(g) \/ IoCallsV1(g)
    BY <2>1 DEF NextV1
  <2>3. g = h
    BY <1>2, <2>2, StepFormsV1, OthersKeepCall
  <2>4. ~SetCallsV1(h) /\ ~IoCallsV1(h)
    BY <1>2 DEF SetCallsV1, SetDirectionV1, SetEdgeV1, SetEventClockV1, SetDebounceV1, SetBiasV1,
                SetDriveV1, SetInvertedV1, SetterV1, IoCallsV1, ReadWriteV1, Read, Write,
                ReadEvent, PollV1, CloseV1, Close, Opened
  <2>5. OpenFoundV1(h)
    BY <1>2, <2>2, <2>3, <2>4
       DEF OpenCallsV1, OpenAdvancedV1, OpenNameV1, OpenName, Scan, Closed,
           RequestGrantedV1, RequestRefusedV1, RequestGranted, RequestRefused
  <2> QED BY <1>2, <2>5, OpenKeepsConfig DEF OpenFoundV1
<1> QED BY <1>1, <1>2 DEF AskedToOpen

(* What v1 cannot apply it refuses. *)
THEOREM NothingIsDropped == SpecV1 => NothingDropped
<1>1. IInv /\ [NextV1]_vars =>
        [\A h \in Handles, c \in OpenConfigs :
           AskedToOpen(h, c) /\ pc'[h] = "opening" => req'[h] = c]_vars
  BY AskedIsRequested
<1> QED BY InvarianceV1, <1>1, PTL DEF SpecV1, NothingDropped

=============================================================================
