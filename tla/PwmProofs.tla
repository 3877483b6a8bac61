------------------------------ MODULE PwmProofs ------------------------------
(***************************************************************************)
(* Theorems about Pwm, for any number of handles and channels, any values  *)
(* callers set and any bound on the retries.                               *)
(***************************************************************************)
EXTENDS Pwm, TLAPS

CallSteps == {"idle", "export", "wait", "udev", "query"}
Answers   == {"none", "ok", "OPEN", "QUERY", "CLOSE", "CONFIGURE", "ARG"}

(* The part of the state that belongs to the calls, in its types. *)
CallTypes ==
  /\ pc \in [Handles -> CallSteps]
  /\ arg \in [Handles -> Channels \cup {NoChannel}]
  /\ tries \in [Handles -> 0 .. (Retries - 1)]
  /\ ret \in [Handles -> Answers]

(* The rest, in its types. *)
DataTypes ==
  /\ bound \in BOOLEAN
  /\ node \in [Channels -> Nodes]
  /\ state \in [Channels -> States]
  /\ channel \in [Handles -> Channels \cup {NoChannel}]
  /\ period_ns \in [Handles -> Nat]
  /\ opened \in [Handles -> BOOLEAN]

LEMMA TypeParts ==
  TypeOK <=> CallTypes /\ DataTypes
  BY DEF TypeOK, CallTypes, DataTypes, CallSteps, Answers

LEMMA IInvParts ==
  CallTypes' /\ DataTypes' /\ CallOK' => IInv'
  BY DEF IInv, TypeOK, CallTypes, DataTypes, CallSteps, Answers

-----------------------------------------------------------------------------
(* Calls *)

(* Ending, continuing or repeating a call keeps its types. *)
LEMMA CallForms ==
  ASSUME CallTypes, NEW h \in Handles
  PROVE  /\ \A r \in Answers : Return(h, r) => CallTypes'
         /\ \A p \in CallSteps, c \in Channels \cup {NoChannel} :
              Continue(h, p) /\ arg' = [arg EXCEPT ![h] = c] => CallTypes'
         /\ \A p \in CallSteps : Continue(h, p) /\ UNCHANGED arg => CallTypes'
         /\ tries' = [tries EXCEPT ![h] = @ + 1] /\ tries[h] + 1 < Retries
              /\ UNCHANGED <<pc, arg, ret>> => CallTypes'
<1>1. 0 \in 0 .. (Retries - 1) /\ "idle" \in CallSteps /\ "none" \in Answers
  BY RetriesAssumption DEF CallSteps, Answers
<1>2. tries[h] + 1 < Retries => tries[h] + 1 \in 0 .. (Retries - 1)
  BY RetriesAssumption DEF CallTypes
<1>3. \A r \in Answers : Return(h, r) => CallTypes'
  BY <1>1 DEF Return, CallTypes
<1>4. \A p \in CallSteps, c \in Channels \cup {NoChannel} :
        Continue(h, p) /\ arg' = [arg EXCEPT ![h] = c] => CallTypes'
  BY <1>1 DEF Continue, CallTypes
<1>5. \A p \in CallSteps : Continue(h, p) /\ UNCHANGED arg => CallTypes'
  BY <1>1 DEF Continue, CallTypes
<1>6. tries' = [tries EXCEPT ![h] = @ + 1] /\ tries[h] + 1 < Retries
        /\ UNCHANGED <<pc, arg, ret>> => CallTypes'
  BY <1>2 DEF CallTypes
<1> QED BY <1>3, <1>4, <1>5, <1>6

(* A call that returns and changes nothing else keeps the invariant. *)
LEMMA OnlyReturns ==
  ASSUME IInv, NEW h \in Handles, NEW r \in Answers, ReturnOnly(h, r)
  PROVE  IInv'
<1>1. CallTypes'
  BY CallForms, TypeParts DEF IInv, ReturnOnly
<1>2. DataTypes'
  BY TypeParts DEF IInv, ReturnOnly, DataTypes, sysfs, handle
<1>3. CallOK'
  BY TypeParts DEF IInv, CallTypes, CallOK, ReturnOnly, Return, sysfs, handle
<1> QED BY <1>1, <1>2, <1>3, IInvParts

LEMMA AnotherTry ==
  ASSUME IInv, NEW h \in Handles, TryAgain(h)
  PROVE  IInv'
<1>1. CASE ReturnOnly(h, "OPEN")
  BY <1>1, OnlyReturns DEF Answers
<1>2. CASE /\ tries[h] + 1 < Retries
           /\ tries' = [tries EXCEPT ![h] = @ + 1]
           /\ UNCHANGED <<sysfs, handle, pc, arg, ret>>
  <2>1. CallTypes'
    BY <1>2, CallForms, TypeParts DEF IInv
  <2>2. DataTypes' /\ CallOK'
    BY <1>2, TypeParts DEF IInv, DataTypes, CallOK, sysfs, handle
  <2> QED BY <2>1, <2>2, IInvParts
<1> QED BY <1>1, <1>2 DEF TryAgain

(* What is written to an attribute file is a state of the channel. *)
LEMMA StateTypes ==
  ASSUME NEW s \in States
  PROVE  /\ \A e \in BOOLEAN : [s EXCEPT !.enabled = e] \in States
         /\ \A p \in Nat : [s EXCEPT !.period = p] \in States
         /\ \A d \in Nat : [s EXCEPT !.duty = d] \in States
         /\ \A p \in {"normal", "inversed"} : [s EXCEPT !.polarity = p] \in States
  BY DEF States

(* A part of a period is a duty cycle. *)
LEMMA RatioType ==
  ASSUME NEW p \in Nat, NEW n \in Nat, NEW d \in Nat \ {0}
  PROVE  (p * n) \div d \in Nat
<1>1. p * n \in Nat
  OBVIOUS
<1> QED BY <1>1

-----------------------------------------------------------------------------
(* pwm_open(), pwm_close() *)

LEMMA OpenStep ==
  ASSUME IInv, NEW h \in Handles, NEW c \in Channels, OpenPwm(h, c)
  PROVE  IInv'
<1>1. CallTypes'
  BY CallForms, TypeParts DEF IInv, OpenPwm, CallSteps
<1>2. DataTypes'
  BY TypeParts DEF IInv, OpenPwm, DataTypes, sysfs, handle
<1>3. CallOK'
  BY TypeParts DEF IInv, CallTypes, CallOK, OpenPwm, Continue, sysfs, handle
<1> QED BY <1>1, <1>2, <1>3, IInvParts

(* Between two system calls of the open only pc, tries and ret move. *)
LEMMA ContinueStep ==
  ASSUME IInv, NEW h \in Handles, NEW p \in CallSteps, pc[h] # "idle",
         Continue(h, p), UNCHANGED <<bound, state, handle, arg>>,
         node' \in [Channels -> Nodes]
  PROVE  IInv'
<1>1. CallTypes'
  BY CallForms, TypeParts DEF IInv
<1>2. DataTypes'
  BY TypeParts DEF IInv, DataTypes, handle
<1>3. CallOK'
  BY TypeParts DEF IInv, CallTypes, CallOK, Continue, handle
<1> QED BY <1>1, <1>2, <1>3, IInvParts

LEMMA StepKeeps ==
  ASSUME IInv, NEW h \in Handles, Step(h)
  PROVE  IInv'
<1>0. node \in [Channels -> Nodes]
  BY DEF IInv, TypeOK
<1>a. ASSUME NEW p \in CallSteps, pc[h] # "idle", Continue(h, p), UNCHANGED <<sysfs, handle, arg>>
      PROVE  IInv'
  BY <1>0, <1>a, ContinueStep DEF sysfs
<1>1. CASE Export(h)
  <2>1. CASE ReturnOnly(h, "OPEN")
    BY <2>1, OnlyReturns DEF Answers
  <2>2. CASE /\ node' = [node EXCEPT ![arg[h]] = "hidden"]
             /\ Continue(h, "wait") /\ UNCHANGED <<bound, state, handle, arg>>
    <3>1. node' \in [Channels -> Nodes]
      BY <1>0, <2>2 DEF Nodes
    <3> QED BY <1>1, <2>2, <3>1, ContinueStep DEF Export, CallSteps
  <2> QED BY <1>1, <2>1, <2>2 DEF Export
<1>2. CASE WaitChannel(h)
  BY <1>2, <1>a, OnlyReturns, AnotherTry DEF WaitChannel, Answers, CallSteps
<1>3. CASE WaitPermission(h)
  BY <1>3, <1>a, OnlyReturns, AnotherTry DEF WaitPermission, Answers, CallSteps
<1>4. CASE Query(h)
  <2>1. arg[h] \in Channels /\ ~opened[h]
    BY <1>4 DEF IInv, CallOK, Query
  <2>2. state[arg[h]].period \in Nat
    BY <2>1 DEF IInv, TypeOK, States
  <2>3. CallTypes'
    BY <1>4, CallForms, TypeParts DEF IInv, Query, Answers
  <2>4. DataTypes'
    <3>1. channel' \in [Handles -> Channels \cup {NoChannel}]
      BY <1>4, <2>1, TypeParts DEF IInv, Query, DataTypes
    <3>2. opened' \in [Handles -> BOOLEAN]
      BY <1>4, TypeParts DEF IInv, Query, DataTypes
    <3>3. \/ period_ns' = [period_ns EXCEPT ![h] = 0]
          \/ period_ns' = [period_ns EXCEPT ![h] = state[arg[h]].period]
      BY <1>4 DEF Query, FilledFrom
    <3>4. period_ns' \in [Handles -> Nat]
      BY <2>2, <3>3, TypeParts DEF IInv, DataTypes
    <3>5. UNCHANGED <<bound, node, state>>
      BY <1>4 DEF Query, sysfs
    <3> QED BY <3>1, <3>2, <3>4, <3>5, TypeParts DEF IInv, DataTypes
  <2>5. CallOK'
    BY <1>4, <2>1, TypeParts DEF IInv, CallTypes, DataTypes, CallOK, Query, Return
  <2> QED BY <2>3, <2>4, <2>5, IInvParts
<1> QED BY <1>1, <1>2, <1>3, <1>4 DEF Step

LEMMA CloseStep ==
  ASSUME IInv, NEW h \in Handles, Close(h)
  PROVE  IInv'
<1>1. CASE ReturnOnly(h, "ok") \/ ReturnOnly(h, "CLOSE")
  BY <1>1, OnlyReturns DEF Answers
<1>2. CASE /\ node' = [node EXCEPT ![channel[h]] = "absent"]
           /\ channel' = [channel EXCEPT ![h] = NoChannel]
           /\ opened' = [opened EXCEPT ![h] = FALSE]
           /\ Return(h, "ok")
           /\ UNCHANGED <<bound, state, period_ns>>
  <2>1. CallTypes'
    BY <1>2, CallForms, TypeParts DEF IInv, Answers
  <2>2. DataTypes'
    BY <1>2, TypeParts DEF IInv, DataTypes, Nodes
  <2>3. CallOK'
    BY <1>2, TypeParts DEF IInv, CallTypes, DataTypes, CallOK, Return
  <2> QED BY <2>1, <2>2, <2>3, IInvParts
<1> QED BY <1>1, <1>2 DEF Close

-----------------------------------------------------------------------------
(* pwm_set_*(), pwm_get_*() *)

(* A write of a state, with or without a new period in the cache. *)
LEMMA WriteStep ==
  ASSUME IInv, NEW h \in Handles, NEW s \in States, opened[h], WriteAttribute(h, s),
         period_ns' \in [Handles -> Nat]
  PROVE  IInv'
<1>1. channel[h] \in Channels
  BY DEF IInv, CallOK
<1>2. CallTypes'
  BY CallForms, TypeParts DEF IInv, WriteAttribute, Answers
<1>3. state' \in [Channels -> States]
  BY <1>1, TypeParts DEF IInv, WriteAttribute, DataTypes
<1>4. DataTypes'
  BY <1>3, TypeParts DEF IInv, WriteAttribute, DataTypes
<1>5. CallOK'
  BY TypeParts DEF IInv, CallTypes, CallOK, WriteAttribute, Return
<1> QED BY <1>2, <1>4, <1>5, IInvParts

LEMMA SetterStep ==
  ASSUME IInv, NEW h \in Handles, NEW s \in States, opened[h], Setter(h, s)
  PROVE  IInv'
<1>1. CASE ReturnOnly(h, "CONFIGURE")
  BY <1>1, OnlyReturns DEF Answers
<1>2. CASE WriteAttribute(h, s) /\ UNCHANGED period_ns
  BY <1>2, WriteStep DEF IInv, TypeOK
<1> QED BY <1>1, <1>2 DEF Setter

LEMMA SettersKeep ==
  ASSUME IInv, NEW h \in Handles
  PROVE  /\ \A e \in BOOLEAN : SetEnabled(h, e) => IInv'
         /\ \A p \in Periods : SetPeriod(h, p) => IInv'
         /\ \A d \in DutyCycles : SetDutyCycleNs(h, d) => IInv'
         /\ \A r \in Ratios : SetDutyCycle(h, r) => IInv'
         /\ \A p \in Polarities : SetPolarity(h, p) => IInv'
<1>0. opened[h] => state[channel[h]] \in States /\ period_ns[h] \in Nat
  BY DEF IInv, TypeOK, CallOK
<1>1. ASSUME NEW e \in BOOLEAN, SetEnabled(h, e) PROVE IInv'
  BY <1>0, <1>1, StateTypes, SetterStep DEF SetEnabled, Opened
<1>2. ASSUME NEW p \in Periods, SetPeriod(h, p) PROVE IInv'
  <2>1. CASE ReturnOnly(h, "CONFIGURE")
    BY <2>1, OnlyReturns DEF Answers
  <2>2. CASE /\ WriteAttribute(h, [state[channel[h]] EXCEPT !.period = p])
             /\ period_ns' = [period_ns EXCEPT ![h] = p]
    <3>1. p \in Nat /\ opened[h]
      BY <1>2, ValueAssumption DEF SetPeriod, Opened
    <3>2. period_ns' \in [Handles -> Nat]
      BY <2>2, <3>1 DEF IInv, TypeOK
    <3>3. [state[channel[h]] EXCEPT !.period = p] \in States
      BY <1>0, <3>1, StateTypes
    <3> QED BY <2>2, <3>1, <3>2, <3>3, WriteStep
  <2> QED BY <1>2, <2>1, <2>2 DEF SetPeriod
<1>3. ASSUME NEW d \in DutyCycles, SetDutyCycleNs(h, d) PROVE IInv'
  <2>1. d \in Nat
    BY ValueAssumption
  <2> QED BY <1>0, <1>3, <2>1, StateTypes, SetterStep DEF SetDutyCycleNs, Opened
<1>4. ASSUME NEW r \in Ratios, SetDutyCycle(h, r) PROVE IInv'
  <2> DEFINE d == (period_ns[h] * r[1]) \div r[2]
  <2>0. opened[h]
    BY <1>4 DEF SetDutyCycle, Opened
  <2>1. r[1] \in Nat /\ r[2] \in Nat \ {0}
    BY ValueAssumption
  <2>2. d \in Nat
    BY <1>0, <2>0, <2>1, RatioType
  <2>3. ReturnOnly(h, "ARG") \/ Setter(h, [state[channel[h]] EXCEPT !.duty = d])
    BY <1>4 DEF SetDutyCycle
  <2> HIDE DEF d
  <2>4. [state[channel[h]] EXCEPT !.duty = d] \in States
    BY <1>0, <2>0, <2>2, StateTypes
  <2> QED BY <2>0, <2>3, <2>4, OnlyReturns, SetterStep DEF Answers
<1>5. ASSUME NEW p \in Polarities, SetPolarity(h, p) PROVE IInv'
  BY <1>0, <1>5, StateTypes, SetterStep, OnlyReturns DEF SetPolarity, Opened, Answers
<1> QED BY <1>1, <1>2, <1>3, <1>4, <1>5

LEMMA GettersKeep ==
  ASSUME IInv, NEW h \in Handles, GetPeriod(h) \/ GetOther(h)
  PROVE  IInv'
<1>1. CASE \E r \in {"QUERY", "ok"} : ReturnOnly(h, r)
  BY <1>1, OnlyReturns DEF Answers
<1>2. CASE /\ opened[h] /\ FilledFrom(h, channel[h]) /\ Return(h, "ok")
           /\ UNCHANGED <<sysfs, channel, opened>>
  <2>1. state[channel[h]].period \in Nat
    BY <1>2 DEF IInv, TypeOK, CallOK, States
  <2>2. CallTypes'
    BY <1>2, CallForms, TypeParts DEF IInv, Answers
  <2>3. DataTypes'
    BY <1>2, <2>1, TypeParts DEF IInv, DataTypes, FilledFrom, sysfs
  <2>4. CallOK'
    BY <1>2, TypeParts DEF IInv, CallTypes, CallOK, Return
  <2> QED BY <2>2, <2>3, <2>4, IInvParts
<1> QED BY <1>1, <1>2 DEF GetPeriod, GetOther, Opened

-----------------------------------------------------------------------------
(* The outside *)

LEMMA OutsideKeeps ==
  ASSUME IInv, Outside
  PROVE  IInv'
<1>1. node' \in [Channels -> Nodes] /\ bound' \in BOOLEAN
  BY DEF IInv, TypeOK, Outside, Appear, Permit, ExtExport, ExtUnexport, Unbind, Nodes
<1>2. UNCHANGED <<state, handle, pc, arg, tries, ret>>
  BY DEF Outside, Appear, Permit, ExtExport, ExtUnexport, Unbind
<1> QED BY <1>1, <1>2 DEF IInv, TypeOK, CallOK, handle

-----------------------------------------------------------------------------
(* Theorems *)

(* The inductive invariant: every variable keeps its type, a call in progress has a
   channel, and pwm_open() works on a handle that is not open. *)
THEOREM Invariance == Spec => []IInv
<1>1. Init => IInv
  <2> SUFFICES ASSUME Init PROVE IInv
    OBVIOUS
  <2>1. 0 \in 0 .. (Retries - 1)
    BY RetriesAssumption
  <2>2. state \in [Channels -> States]
    BY ValueAssumption DEF Init, States
  <2> QED BY <2>1, <2>2 DEF Init, IInv, TypeOK, CallOK, Nodes
<1>2. IInv /\ [Next]_vars => IInv'
  <2> SUFFICES ASSUME IInv, [Next]_vars PROVE IInv'
    OBVIOUS
  <2>1. CASE UNCHANGED vars
    BY <2>1 DEF vars, IInv, TypeOK, CallOK
  <2>2. CASE Outside
    BY <2>2, OutsideKeeps
  <2>3. ASSUME NEW h \in Handles, Step(h) PROVE IInv'
    BY <2>3, StepKeeps
  <2>4. ASSUME NEW h \in Handles, Call(h) PROVE IInv'
    BY <2>4, OpenStep, SettersKeep, GettersKeep, CloseStep DEF Call
  <2> QED BY <2>1, <2>2, <2>3, <2>4 DEF Next
<1> QED BY <1>1, <1>2, PTL DEF Spec

(* Every variable keeps its type: the retries never pass their bound, and a
   computed duty cycle is never negative. *)
THEOREM TypeCorrect == Spec => []TypeOK
<1>1. IInv => TypeOK
  BY DEF IInv
<1> QED BY <1>1, Invariance, PTL

-----------------------------------------------------------------------------
(* The cached period *)

(* Nothing that CachedPeriod is about moves. *)
Still == UNCHANGED <<state, channel, period_ns, opened>>

LEMMA StillCached ==
  ASSUME CachedPeriod, Still
  PROVE  CachedPeriod'
  BY DEF CachedPeriod, Still

LEMMA ReturnIsStill ==
  ASSUME NEW h \in Handles, NEW r, ReturnOnly(h, r)
  PROVE  Still
  BY DEF ReturnOnly, sysfs, handle, Still

(* Every step of an open but the last, and everything outside, is of that kind. *)
LEMMA StillSteps ==
  ASSUME NEW h \in Handles
  PROVE  /\ Export(h) \/ WaitChannel(h) \/ WaitPermission(h) => Still
         /\ \A c \in Channels : OpenPwm(h, c) => Still
         /\ GetOther(h) => Still
<1>1. TryAgain(h) => Still
  BY ReturnIsStill DEF TryAgain, sysfs, handle, Still
<1>2. Export(h) => Still
  BY ReturnIsStill DEF Export, handle, Still
<1>3. WaitChannel(h) \/ WaitPermission(h) => Still
  BY <1>1, ReturnIsStill DEF WaitChannel, WaitPermission, sysfs, handle, Still
<1>4. \A c \in Channels : OpenPwm(h, c) => Still
  BY DEF OpenPwm, sysfs, handle, Still
<1>5. GetOther(h) => Still
  BY ReturnIsStill DEF GetOther
<1> QED BY <1>2, <1>3, <1>4, <1>5

LEMMA OutsideIsStill ==
  Outside => Still
  BY DEF Outside, Appear, Permit, ExtExport, ExtUnexport, Unbind, handle, Still

(* One handle takes what the channel has, or gives its channel up. *)
LEMMA RefillCached ==
  ASSUME IInv, CachedPeriod, NEW h \in Handles, UNCHANGED state,
         NEW c \in Channels, FilledFrom(h, c),
         channel' = [channel EXCEPT ![h] = c], opened' = [opened EXCEPT ![h] = TRUE]
  PROVE  CachedPeriod'
  BY DEF IInv, TypeOK, CachedPeriod, FilledFrom

LEMMA GiveUpCached ==
  ASSUME IInv, CachedPeriod, NEW h \in Handles, UNCHANGED state, ~opened'[h],
         \A g \in Handles \ {h} : /\ channel'[g] = channel[g] /\ opened'[g] = opened[g]
                                  /\ period_ns'[g] = period_ns[g]
  PROVE  CachedPeriod'
  BY DEF CachedPeriod

(* A write to the channel of an open handle, when no other handle has it open: the
   new state has the period that handle caches. *)
LEMMA WriteCached ==
  ASSUME IInv, Apart, CachedPeriod, NEW h \in Handles, NEW s, opened[h],
         state' = [state EXCEPT ![channel[h]] = s], UNCHANGED <<channel, opened>>,
         period_ns' = [period_ns EXCEPT ![h] = s.period]
  PROVE  CachedPeriod'
<1>1. SUFFICES ASSUME NEW g \in Handles, opened[g]
               PROVE  period_ns'[g] = state'[channel[g]].period
  BY DEF CachedPeriod
<1>2. channel[g] \in Channels /\ channel[h] \in Channels
  BY <1>1 DEF IInv, CallOK
<1>3. CASE g = h
  <2>1. state'[channel[h]] = s
    BY <1>2 DEF IInv, TypeOK
  <2>2. period_ns'[h] = s.period
    BY DEF IInv, TypeOK
  <2> QED BY <1>3, <2>1, <2>2
<1>4. CASE g # h
  <2>1. channel[g] # channel[h]
    BY <1>1, <1>4 DEF Apart
  <2>2. state'[channel[g]] = state[channel[g]]
    BY <1>2, <2>1 DEF IInv, TypeOK
  <2>3. period_ns'[g] = period_ns[g]
    BY <1>4 DEF IInv, TypeOK
  <2> QED BY <1>1, <2>2, <2>3 DEF CachedPeriod
<1> QED BY <1>3, <1>4

(* A setter that leaves the period alone. *)
LEMMA SetterCached ==
  ASSUME IInv, Apart, CachedPeriod, NEW h \in Handles, NEW s, opened[h],
         s.period = state[channel[h]].period, Setter(h, s)
  PROVE  CachedPeriod'
<1>1. CASE ReturnOnly(h, "CONFIGURE")
  BY <1>1, ReturnIsStill, StillCached
<1>2. CASE WriteAttribute(h, s) /\ UNCHANGED period_ns
  <2>1. period_ns[h] = s.period
    BY DEF CachedPeriod
  <2>2. period_ns' = [period_ns EXCEPT ![h] = s.period]
    BY <1>2, <2>1 DEF IInv, TypeOK
  <2> QED BY <1>2, <2>2, WriteCached DEF WriteAttribute
<1> QED BY <1>1, <1>2 DEF Setter

(* Enabling, the duty cycle and the polarity are such. *)
LEMMA SamePeriod ==
  ASSUME NEW s \in States, NEW x
  PROVE  /\ [s EXCEPT !.enabled = x].period = s.period
         /\ [s EXCEPT !.duty = x].period = s.period
         /\ [s EXCEPT !.polarity = x].period = s.period
  BY DEF States

LEMMA SettersCached ==
  ASSUME IInv, Apart, CachedPeriod, NEW h \in Handles
  PROVE  /\ \A e \in BOOLEAN : SetEnabled(h, e) => CachedPeriod'
         /\ \A p \in Periods : SetPeriod(h, p) => CachedPeriod'
         /\ \A d \in DutyCycles : SetDutyCycleNs(h, d) => CachedPeriod'
         /\ \A r \in Ratios : SetDutyCycle(h, r) => CachedPeriod'
         /\ \A p \in Polarities : SetPolarity(h, p) => CachedPeriod'
<1> DEFINE was == state[channel[h]]
<1>0. opened[h] => was \in States
  BY DEF IInv, TypeOK, CallOK
<1>a. \A r : ReturnOnly(h, r) => CachedPeriod'
  BY ReturnIsStill, StillCached
<1>b. \A x : opened[h] => /\ [was EXCEPT !.enabled = x].period = was.period
                         /\ [was EXCEPT !.duty = x].period = was.period
                         /\ [was EXCEPT !.polarity = x].period = was.period
  BY ONLY <1>0, SamePeriod
<1>c. \A s : opened[h] /\ s.period = was.period /\ Setter(h, s) => CachedPeriod'
  BY SetterCached
<1>1. ASSUME NEW e \in BOOLEAN, SetEnabled(h, e) PROVE CachedPeriod'
  BY <1>1, <1>b, <1>c DEF SetEnabled, Opened
<1>2. ASSUME NEW p \in Periods, SetPeriod(h, p) PROVE CachedPeriod'
  <2>1. opened[h]
    BY <1>2 DEF SetPeriod, Opened
  <2>2. [was EXCEPT !.period = p].period = p
    BY <1>0, <2>1 DEF States
  <2>3. CASE /\ WriteAttribute(h, [was EXCEPT !.period = p])
             /\ period_ns' = [period_ns EXCEPT ![h] = p]
    BY <2>1, <2>2, <2>3, WriteCached DEF WriteAttribute
  <2> QED BY <1>2, <1>a, <2>3 DEF SetPeriod
<1>3. ASSUME NEW d \in DutyCycles, SetDutyCycleNs(h, d) PROVE CachedPeriod'
  BY <1>3, <1>b, <1>c DEF SetDutyCycleNs, Opened
<1>4. ASSUME NEW r \in Ratios, SetDutyCycle(h, r) PROVE CachedPeriod'
  <2> DEFINE d == (period_ns[h] * r[1]) \div r[2]
  <2>1. /\ opened[h]
        /\ ReturnOnly(h, "ARG") \/ Setter(h, [was EXCEPT !.duty = d])
    BY <1>4 DEF SetDutyCycle, Opened
  <2> HIDE DEF d
  <2> QED BY <1>a, <1>b, <1>c, <2>1
<1>5. ASSUME NEW p \in Polarities, SetPolarity(h, p) PROVE CachedPeriod'
  BY <1>5, <1>a, <1>b, <1>c DEF SetPolarity, Opened
<1> QED BY <1>1, <1>2, <1>3, <1>4, <1>5

LEMMA OthersCached ==
  ASSUME IInv, CachedPeriod, NEW h \in Handles, Query(h) \/ Close(h) \/ GetPeriod(h)
  PROVE  CachedPeriod'
<1>a. \A r : ReturnOnly(h, r) => CachedPeriod'
  BY ReturnIsStill, StillCached
<1>0. /\ channel \in [Handles -> Channels \cup {NoChannel}]
      /\ period_ns \in [Handles -> Nat] /\ opened \in [Handles -> BOOLEAN]
  BY DEF IInv, TypeOK
<1>1. CASE Query(h)
  <2>0. arg[h] \in Channels /\ ~opened[h] /\ UNCHANGED state
    BY <1>1 DEF IInv, CallOK, Query, sysfs
  <2>1. CASE FilledFrom(h, arg[h]) /\ opened' = [opened EXCEPT ![h] = TRUE]
    BY <1>1, <2>0, <2>1, RefillCached DEF Query
  <2>2. CASE period_ns' = [period_ns EXCEPT ![h] = 0] /\ UNCHANGED opened
    BY <1>0, <1>1, <2>0, <2>2, GiveUpCached DEF Query
  <2> QED BY <1>1, <2>1, <2>2 DEF Query
<1>2. CASE Close(h)
  <2>1. CASE /\ channel' = [channel EXCEPT ![h] = NoChannel]
             /\ opened' = [opened EXCEPT ![h] = FALSE]
             /\ UNCHANGED <<bound, state, period_ns>>
    BY <1>0, <2>1, GiveUpCached
  <2> QED BY <1>2, <1>a, <2>1 DEF Close
<1>3. CASE GetPeriod(h)
  <2>1. CASE FilledFrom(h, channel[h]) /\ UNCHANGED <<sysfs, channel, opened>>
    <3>1. opened[h] /\ channel[h] \in Channels
      BY <1>3 DEF GetPeriod, Opened, IInv, CallOK
    <3>2. /\ channel' = [channel EXCEPT ![h] = channel[h]]
          /\ opened' = [opened EXCEPT ![h] = TRUE]
      BY <1>0, <2>1, <3>1
    <3> QED BY <2>1, <3>1, <3>2, RefillCached DEF sysfs
  <2> QED BY <1>3, <1>a, <2>1 DEF GetPeriod
<1> QED BY <1>1, <1>2, <1>3

(* As long as no two handles have one channel open, every open handle caches the
   period of its channel: whichever setter, query, close or open succeeded or
   failed, and however often the channel or the chip went. *)
THEOREM PeriodCached == Spec /\ []Apart => []CachedPeriod
<1>1. Init => CachedPeriod
  BY DEF Init, CachedPeriod
<1>2. IInv /\ Apart /\ CachedPeriod /\ [Next]_vars => CachedPeriod'
  <2> SUFFICES ASSUME IInv, Apart, CachedPeriod, [Next]_vars PROVE CachedPeriod'
    OBVIOUS
  <2>1. CASE UNCHANGED vars \/ Outside
    BY <2>1, OutsideIsStill, StillCached DEF vars, Still
  <2>2. ASSUME NEW h \in Handles, Step(h) PROVE CachedPeriod'
    BY <2>2, StillSteps, StillCached, OthersCached DEF Step
  <2>3. ASSUME NEW h \in Handles, Call(h) PROVE CachedPeriod'
    BY <2>3, StillSteps, StillCached, SettersCached, OthersCached DEF Call
  <2> QED BY <2>1, <2>2, <2>3 DEF Next
<1> QED BY <1>1, <1>2, Invariance, PTL DEF Spec

(* What pwm_set_duty_cycle() is for: under the same condition, a ratio of at most one
   is converted to a duty cycle that fits the period the channel has. *)
RatiosFit ==
  \A h \in Handles, r \in Ratios :
    opened[h] /\ r[1] <= r[2] =>
      (period_ns[h] * r[1]) \div r[2] \in 0 .. state[channel[h]].period

(* A fraction of at most one of a number is at most that number. *)
LEMMA FractionFits ==
  ASSUME NEW p \in Nat, NEW n \in Nat, NEW d \in Nat \ {0}, n <= d
  PROVE  (p * n) \div d \in 0 .. p
<1> DEFINE q == (p * n) \div d
<1>1. q \in Nat
  BY RatioType
<1>2. p * n <= p * d /\ p * n \in Nat /\ p * d \in Nat
  <2> DEFINE k == d - n
  <2>1. k \in Nat /\ d = n + k
    OBVIOUS
  <2> HIDE DEF k
  <2>2. p * d = p * n + p * k /\ p * k \in Nat /\ p * n \in Nat
    BY <2>1
  <2> QED
    BY <2>2
<1>3. d * q <= p * n
  BY <1>2
<1> HIDE DEF q
<1>4. q <= p
  <2>1. SUFFICES ASSUME p < q PROVE FALSE
    BY <1>1
  <2> DEFINE k == q - p - 1
  <2>2. k \in Nat /\ q = p + 1 + k
    BY <1>1, <2>1
  <2> HIDE DEF k
  <2>3. d * q = p * d + d + d * k /\ d * k \in Nat
    BY <2>2
  <2> QED
    BY <1>2, <1>3, <2>3
<1> QED
  BY <1>1, <1>4 DEF q

THEOREM RatiosMatchChannel == Spec /\ []Apart => []RatiosFit
<1>1. IInv /\ CachedPeriod => RatiosFit
  <2> SUFFICES ASSUME IInv, CachedPeriod, NEW h \in Handles, NEW r \in Ratios,
                      opened[h], r[1] <= r[2]
               PROVE  (period_ns[h] * r[1]) \div r[2] \in 0 .. state[channel[h]].period
    BY DEF RatiosFit
  <2>1. r[1] \in Nat /\ r[2] \in Nat \ {0}
    BY ValueAssumption
  <2>2. period_ns[h] \in Nat /\ period_ns[h] = state[channel[h]].period
    BY DEF IInv, TypeOK, CachedPeriod
  <2> QED
    BY <2>1, <2>2, FractionFits
<1> QED
  BY <1>1, Invariance, PeriodCached, PTL

-----------------------------------------------------------------------------
(* How long a call can take *)

(* How far pwm_open() is from its end when it reaches step p. *)
Ahead(p) ==
  CASE p = "idle" -> 0
    [] p = "query" -> 1
    [] p = "udev" -> 2
    [] p = "wait" -> 3
    [] p = "export" -> 4

(* A bound on the system calls the call of h still makes: PWM_EXPORT_STAT_RETRIES
   for every step ahead, less the tries already made at this one. *)
Left(h) == IF Idle(h) THEN 0 ELSE Ahead(pc[h]) * Retries - tries[h]

LeftOK == \A h \in Handles : Left(h) \in 0 .. 4 * Retries /\ (Left(h) = 0 <=> Idle(h))

(* Every system call of a call in progress brings it nearer to its end, and nothing
   else touches it. *)
CallsShorten ==
  \A h \in Handles : /\ Step(h) => Left(h)' < Left(h)
                     /\ ~Idle(h) /\ ~Step(h) => Left(h)' = Left(h)

CallsEnd == [][CallsShorten]_vars

LEMMA LeftBounded ==
  ASSUME TypeOK, NEW h \in Handles
  PROVE  Left(h) \in 0 .. 4 * Retries /\ (Left(h) = 0 <=> Idle(h))
<1>1. Retries \in Nat \ {0} /\ tries[h] \in 0 .. Retries - 1 /\ pc[h] \in CallSteps
  BY RetriesAssumption DEF TypeOK, CallSteps
<1>2. ~Idle(h) => Ahead(pc[h]) \in 1 .. 4
  BY <1>1 DEF Idle, Ahead, CallSteps
<1> HIDE DEF Ahead
<1>3. ASSUME NEW a \in 1 .. 4
      PROVE  a * Retries - tries[h] \in 1 .. 4 * Retries
  <2>1. a = 1 \/ a = 2 \/ a = 3 \/ a = 4
    OBVIOUS
  <2>2. Retries <= a * Retries /\ a * Retries <= 4 * Retries /\ a * Retries \in Nat
    BY <1>1, <2>1
  <2> QED
    BY <1>1, <2>2
<1> QED
  BY <1>1, <1>2, <1>3 DEF Left

(* A call at q with no retry behind it is nearer to its end than one at p. *)
LEMMA NearerTheEnd ==
  ASSUME TypeOK, NEW h \in Handles, ~Idle(h), NEW q \in CallSteps, Ahead(q) < Ahead(pc[h]),
         pc'[h] = q, tries'[h] = 0
  PROVE  Left(h)' < Left(h)
<1>1. Retries \in Nat \ {0} /\ tries[h] \in 0 .. Retries - 1 /\ pc[h] \in CallSteps
  BY RetriesAssumption DEF TypeOK, CallSteps
<1>2. CASE q = "idle"
  <2>1. Left(h)' = 0
    BY <1>2 DEF Left, Idle
  <2> QED
    BY <2>1, LeftBounded
<1>3. CASE q # "idle"
  <2> DEFINE a == Ahead(q)
             b == Ahead(pc[h])
  <2>1. a \in 1 .. 4 /\ b \in 1 .. 4 /\ a < b
    BY <1>1, <1>3 DEF Ahead, CallSteps, Idle
  <2>2. Left(h)' = a * Retries /\ Left(h) = b * Retries - tries[h]
    <3>1. pc'[h] = q /\ tries'[h] = 0 /\ a * Retries - 0 = a * Retries
      BY <1>1, <2>1
    <3> QED
      BY <1>3, <3>1 DEF Left, Idle
  <2> HIDE DEF a, b
  <2>3. (a + 1) * Retries <= b * Retries
    <3> DEFINE k == b - a - 1
    <3>1. k \in Nat /\ b = a + 1 + k
      BY <2>1
    <3> HIDE DEF k
    <3>2. b * Retries = (a + 1) * Retries + k * Retries /\ k * Retries \in Nat
      BY <1>1, <2>1, <3>1
    <3>3. (a + 1) * Retries \in Nat
      BY <1>1, <2>1
    <3> QED
      BY <3>2, <3>3
  <2>4. (a + 1) * Retries = a * Retries + Retries /\ a * Retries \in Nat /\ b * Retries \in Nat
    BY <1>1, <2>1
  <2> QED
    BY <1>1, <2>2, <2>3, <2>4
<1> QED
  BY <1>2, <1>3

LEMMA StepShortens ==
  ASSUME IInv, NEW h \in Handles, Step(h)
  PROVE  Left(h)' < Left(h)
<1>0. TypeOK /\ pc \in [Handles -> CallSteps]
  BY DEF IInv, TypeOK, CallSteps
<1>1. pc[h] # "idle"
  BY DEF Step, Export, WaitChannel, WaitPermission, Query
<1>2. ASSUME NEW r, Return(h, r) PROVE Left(h)' < Left(h)
  <2>1. pc'[h] = "idle" /\ tries'[h] = 0
    BY <1>0, <1>2 DEF Return, TypeOK
  <2>2. Ahead("idle") < Ahead(pc[h])
    BY <1>0, <1>1 DEF Ahead, CallSteps
  <2> QED
    BY <1>0, <1>1, <2>1, <2>2, NearerTheEnd DEF Idle, CallSteps
<1>3. ASSUME NEW q \in CallSteps, Ahead(q) < Ahead(pc[h]), Continue(h, q)
      PROVE  Left(h)' < Left(h)
  <2>1. pc'[h] = q /\ tries'[h] = 0
    BY <1>0, <1>3 DEF Continue, TypeOK
  <2> QED
    BY <1>0, <1>1, <1>3, <2>1, NearerTheEnd DEF Idle
<1>4. ASSUME TryAgain(h) PROVE Left(h)' < Left(h)
  <2>1. CASE tries' = [tries EXCEPT ![h] = @ + 1] /\ pc' = pc
    <3>1. tries'[h] = tries[h] + 1 /\ tries[h] \in Nat /\ Retries \in Nat
      BY <1>0, <2>1, RetriesAssumption DEF TypeOK
    <3>2. Ahead(pc[h]) \in Nat
      BY <1>0 DEF Ahead, CallSteps
    <3> DEFINE a == Ahead(pc[h])
    <3>3. Left(h)' = a * Retries - tries'[h] /\ Left(h) = a * Retries - tries[h]
      BY <1>1, <2>1 DEF Left, Idle
    <3> HIDE DEF a
    <3>4. a * Retries \in Nat
      BY <3>1, <3>2 DEF a
    <3> QED
      BY <3>1, <3>3, <3>4
  <2> QED
    BY <1>2, <1>4, <2>1 DEF TryAgain, ReturnOnly
<1>5. CASE Export(h)
  BY <1>2, <1>3, <1>5 DEF Export, ReturnOnly, Ahead, CallSteps
<1>6. CASE WaitChannel(h)
  BY <1>2, <1>3, <1>4, <1>6 DEF WaitChannel, ReturnOnly, Ahead, CallSteps
<1>7. CASE WaitPermission(h)
  BY <1>2, <1>3, <1>4, <1>7 DEF WaitPermission, ReturnOnly, Ahead, CallSteps
<1>8. CASE Query(h)
  BY <1>2, <1>8 DEF Query
<1> QED
  BY <1>5, <1>6, <1>7, <1>8 DEF Step

(* Nobody else sends a call back: not even one that takes its channel away. *)
LEMMA OthersLeaveIt ==
  ASSUME IInv, [Next]_vars, NEW h \in Handles, ~Idle(h), ~Step(h)
  PROVE  Left(h)' = Left(h)
<1>0. TypeOK
  BY DEF IInv
<1>1. ~Call(h)
  BY DEF Call, OpenPwm, SetEnabled, SetPeriod, SetDutyCycleNs, SetDutyCycle, SetPolarity,
         GetPeriod, GetOther, Close, Opened
<1>2. pc'[h] = pc[h] /\ tries'[h] = tries[h]
  <2>1. CASE UNCHANGED vars
    BY <2>1 DEF vars
  <2>2. CASE Outside
    BY <2>2 DEF Outside, Appear, Permit, ExtExport, ExtUnexport, Unbind
  <2>3. ASSUME NEW g \in Handles \ {h}, Step(g)
        PROVE  pc'[h] = pc[h] /\ tries'[h] = tries[h]
    BY <1>0, <2>3 DEF Step, Export, WaitChannel, WaitPermission, Query, TryAgain, Continue,
                      ReturnOnly, Return, TypeOK
  <2>4. ASSUME NEW g \in Handles \ {h}, Call(g)
        PROVE  pc'[h] = pc[h] /\ tries'[h] = tries[h]
    <3> USE <1>0 DEF Continue, ReturnOnly, Return, TypeOK
    <3>1. ASSUME NEW c \in Channels, OpenPwm(g, c)
          PROVE  pc'[h] = pc[h] /\ tries'[h] = tries[h]
      BY <3>1 DEF OpenPwm
    <3>2. ASSUME NEW s, WriteAttribute(g, s)
          PROVE  pc'[h] = pc[h] /\ tries'[h] = tries[h]
      BY <3>2 DEF WriteAttribute
    <3>3. ASSUME NEW r, ReturnOnly(g, r)
          PROVE  pc'[h] = pc[h] /\ tries'[h] = tries[h]
      BY <3>3
    <3>4. CASE GetPeriod(g) \/ GetOther(g) \/ Close(g)
      BY <3>4 DEF GetPeriod, GetOther, Close
    <3> HIDE DEF ReturnOnly, Return, TypeOK
    <3> QED
      BY <2>4, <3>1, <3>2, <3>3, <3>4
      DEF Call, SetEnabled, SetPeriod, SetDutyCycleNs, SetDutyCycle, SetPolarity, Setter
  <2> QED
    BY <1>1, <2>1, <2>2, <2>3, <2>4 DEF Next
<1> QED
  BY <1>2 DEF Left, Idle

(* A call makes at most four times PWM_EXPORT_STAT_RETRIES system calls, whatever udev,
   other threads, other processes and the driver of the chip do meanwhile. *)
THEOREM CallsAreBounded == Spec => []LeftOK /\ CallsEnd
<1>1. IInv => LeftOK
  BY LeftBounded DEF IInv, LeftOK
<1>2. IInv /\ [Next]_vars => [CallsShorten]_vars
  BY StepShortens, OthersLeaveIt DEF CallsShorten
<1> QED
  BY <1>1, <1>2, Invariance, PTL DEF Spec, CallsEnd

=============================================================================
