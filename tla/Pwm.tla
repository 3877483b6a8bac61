--------------------------------- MODULE Pwm ---------------------------------
(***************************************************************************)
(* The PWM library, pwm.c: a channel exported through sysfs, its four      *)
(* attribute files, and a period that the handle caches for the duty cycle *)
(* computations.                                                           *)
(***************************************************************************)
EXTENDS Naturals

CONSTANTS
  Handles,        (* pwm_t handles, each used by one thread                *)
  Channels,
  NoChannel,      (* -1                                                    *)
  Periods,        (* periods callers set, in ns                            *)
  DutyCycles,     (* duty cycles callers set, in ns                        *)
  Ratios,         (* duty cycles callers set, as fractions <<n, d>>        *)
  Polarities,     (* polarities callers set, invalid ones included         *)
  Retries         (* PWM_EXPORT_STAT_RETRIES                               *)

ASSUME RetriesAssumption == Retries \in Nat \ {0}
ASSUME ChannelAssumption == NoChannel \notin Channels
ASSUME ValueAssumption ==
  Periods \subseteq Nat /\ DutyCycles \subseteq Nat /\ Ratios \subseteq Nat \X (Nat \ {0})

VARIABLES
  bound,    (* the chip is there                                           *)
  node,     (* sysfs: the state of each channel's directory                *)
  state,    (* kernel: what the attribute files of each channel hold       *)
  channel, period_ns,             (* the fields of each pwm_t              *)
  opened,   (* the caller's knowledge: pwm_open() returned 0               *)
  pc,       (* where the handle's thread is between two system calls       *)
  arg,      (* the channel pwm_open() was called with                      *)
  tries,    (* its local variable retry_count                              *)
  ret       (* what the handle's last call returned                        *)

sysfs  == <<bound, node, state>>
handle == <<channel, period_ns, opened>>
vars   == <<bound, node, state, channel, period_ns, opened, pc, arg, tries, ret>>

-----------------------------------------------------------------------------
(* The kernel and udev *)

(* A channel's directory: not exported, exported but not there yet, there
   without write permission, there with it. *)
Nodes == {"absent", "hidden", "denied", "ready"}
Visible(c)  == node[c] \in {"denied", "ready"}
Writable(c) == node[c] = "ready"

(* Every state applied to a channel has a period, and a duty cycle within it. *)
Applicable(s) == s.period > 0 /\ s.duty <= s.period

-----------------------------------------------------------------------------
(* Calls *)

Idle(h)   == pc[h] = "idle"
Opened(h) == Idle(h) /\ opened[h]

(* The call of h goes on at step p. *)
Continue(h, p) ==
  /\ pc' = [pc EXCEPT ![h] = p]
  /\ tries' = [tries EXCEPT ![h] = 0]
  /\ ret' = [ret EXCEPT ![h] = "none"]

(* The call of h returns r. *)
Return(h, r) ==
  /\ pc' = [pc EXCEPT ![h] = "idle"]
  /\ arg' = [arg EXCEPT ![h] = NoChannel]
  /\ tries' = [tries EXCEPT ![h] = 0]
  /\ ret' = [ret EXCEPT ![h] = r]

ReturnOnly(h, r) == Return(h, r) /\ UNCHANGED <<sysfs, handle>>

-----------------------------------------------------------------------------
(* pwm_open(): any of its system calls may fail *)

OpenPwm(h, c) ==
  /\ Idle(h) /\ ~opened[h]
  /\ Continue(h, IF Visible(c) THEN "query" ELSE "export")
  /\ arg' = [arg EXCEPT ![h] = c]
  /\ UNCHANGED <<sysfs, handle>>

Export(h) ==
  /\ pc[h] = "export"
  /\ \/ ReturnOnly(h, "OPEN")
     \/ /\ bound /\ node[arg[h]] = "absent"
        /\ node' = [node EXCEPT ![arg[h]] = "hidden"]
        /\ Continue(h, "wait")
        /\ UNCHANGED <<bound, state, handle, arg>>

(* Mutant: the last try does not end the loop. *)
TryForever(h) ==
  /\ tries' = [tries EXCEPT ![h] = (@ + 1) % Retries]
  /\ UNCHANGED <<sysfs, handle, pc, arg, ret>>

(* Mutant: one try too many. *)
TryOnceMore(h) ==
  \/ tries[h] = Retries /\ ReturnOnly(h, "OPEN")
  \/ /\ tries[h] < Retries
     /\ tries' = [tries EXCEPT ![h] = @ + 1]
     /\ UNCHANGED <<sysfs, handle, pc, arg, ret>>

(* One more try after a delay, or the end of the retries. *)
TryAgain(h) ==
  \/ tries[h] + 1 = Retries /\ ReturnOnly(h, "OPEN")
  \/ /\ tries[h] + 1 < Retries
     /\ tries' = [tries EXCEPT ![h] = @ + 1]
     /\ UNCHANGED <<sysfs, handle, pc, arg, ret>>

(* The loop waits for the path the channel was exported with, the chip's 'export'
   file, which is there as long as the chip is. *)
WaitChannel(h) ==
  /\ pc[h] = "wait"
  /\ \/ ReturnOnly(h, "OPEN")
     \/ ~bound /\ TryAgain(h)
     \/ bound /\ Continue(h, "udev") /\ UNCHANGED <<sysfs, handle, arg>>

(* The loop that opens the period file, and tries again while it is denied: a
   channel that has not appeared yet ends it. *)
WaitPermission(h) ==
  /\ pc[h] = "udev"
  /\ \/ ReturnOnly(h, "OPEN")
     \/ node[arg[h]] = "denied" /\ TryAgain(h)
     \/ Writable(arg[h]) /\ Continue(h, "query") /\ UNCHANGED <<sysfs, handle, arg>>

(* The period of the channel is read and cached. *)
FilledFrom(h, c) == period_ns' = [period_ns EXCEPT ![h] = state[c].period]

(* The handle is cleared and filled in; a failure to read the period returns
   with a channel that a later pwm_close() unexports. *)
Query(h) ==
  /\ pc[h] = "query"
  /\ channel' = [channel EXCEPT ![h] = arg[h]]
  /\ \/ Return(h, "QUERY") /\ period_ns' = [period_ns EXCEPT ![h] = 0] /\ UNCHANGED opened
     \/ /\ Visible(arg[h])
        /\ FilledFrom(h, arg[h])
        /\ opened' = [opened EXCEPT ![h] = TRUE]
        /\ Return(h, "ok")
  /\ UNCHANGED sysfs

-----------------------------------------------------------------------------
(* pwm_close(): the channel is unexported, whoever exported it *)

Close(h) ==
  /\ Idle(h)
  /\ \/ channel[h] = NoChannel /\ ReturnOnly(h, "ok")
     \/ channel[h] # NoChannel /\ ReturnOnly(h, "CLOSE")
     \/ /\ channel[h] # NoChannel /\ node[channel[h]] # "absent"
        /\ node' = [node EXCEPT ![channel[h]] = "absent"]
        /\ channel' = [channel EXCEPT ![h] = NoChannel]
        /\ opened' = [opened EXCEPT ![h] = FALSE]
        /\ Return(h, "ok")
        /\ UNCHANGED <<bound, state, period_ns>>

-----------------------------------------------------------------------------
(* pwm_set_*() *)

(* An attribute file is written; the kernel applies the new state or refuses. *)
WriteAttribute(h, s) ==
  /\ Writable(channel[h]) /\ Applicable(s)
  /\ state' = [state EXCEPT ![channel[h]] = s]
  /\ Return(h, "ok")
  /\ UNCHANGED <<bound, node, channel, opened>>

Setter(h, s) ==
  \/ ReturnOnly(h, "CONFIGURE")
  \/ WriteAttribute(h, s) /\ UNCHANGED period_ns

(* pwm_enable() and pwm_disable() too *)
SetEnabled(h, e) == Opened(h) /\ Setter(h, [state[channel[h]] EXCEPT !.enabled = e])

(* Mutant: the cache is brought up to date before the write. *)
SetPeriodEagerly(h, p) ==
  /\ Opened(h)
  /\ \/ Return(h, "CONFIGURE") /\ UNCHANGED <<sysfs, channel, opened>>
     \/ WriteAttribute(h, [state[channel[h]] EXCEPT !.period = p])
  /\ period_ns' = [period_ns EXCEPT ![h] = p]

(* pwm_set_period_ns(); pwm_set_period() and pwm_set_frequency() convert and
   call it.  The cache follows the write. *)
SetPeriod(h, p) ==
  /\ Opened(h)
  /\ \/ ReturnOnly(h, "CONFIGURE")
     \/ /\ WriteAttribute(h, [state[channel[h]] EXCEPT !.period = p])
        /\ period_ns' = [period_ns EXCEPT ![h] = p]

SetDutyCycleNs(h, d) == Opened(h) /\ Setter(h, [state[channel[h]] EXCEPT !.duty = d])

(* pwm_set_duty_cycle(): a ratio of the cached period. *)
SetDutyCycle(h, r) ==
  /\ Opened(h)
  /\ \/ r[1] > r[2] /\ ReturnOnly(h, "ARG")
     \/ /\ r[1] <= r[2]
        /\ Setter(h, [state[channel[h]] EXCEPT !.duty = (period_ns[h] * r[1]) \div r[2]])

SetPolarity(h, p) ==
  /\ Opened(h)
  /\ \/ p \notin {"normal", "inversed"} /\ ReturnOnly(h, "ARG")
     \/ /\ p \in {"normal", "inversed"}
        /\ Setter(h, [state[channel[h]] EXCEPT !.polarity = p])

-----------------------------------------------------------------------------
(* pwm_get_*() *)

(* The period, as such or as a frequency, is cached again. *)
GetPeriod(h) ==
  /\ Opened(h)
  /\ \/ ReturnOnly(h, "QUERY")
     \/ /\ Visible(channel[h])
        /\ FilledFrom(h, channel[h])
        /\ Return(h, "ok")
        /\ UNCHANGED <<sysfs, channel, opened>>

(* The other attributes are read and leave the handle alone. *)
GetOther(h) ==
  /\ Opened(h)
  /\ ReturnOnly(h, "QUERY") \/ (Visible(channel[h]) /\ ReturnOnly(h, "ok"))

-----------------------------------------------------------------------------
(* The outside *)

Appear(c) ==
  /\ node[c] = "hidden" /\ node' = [node EXCEPT ![c] = "denied"]
  /\ UNCHANGED <<bound, state, handle, pc, arg, tries, ret>>

Permit(c) ==
  /\ node[c] = "denied" /\ node' = [node EXCEPT ![c] = "ready"]
  /\ UNCHANGED <<bound, state, handle, pc, arg, tries, ret>>

(* Another process exports or unexports a channel. *)
ExtExport(c) ==
  /\ bound /\ node[c] = "absent" /\ node' = [node EXCEPT ![c] = "hidden"]
  /\ UNCHANGED <<bound, state, handle, pc, arg, tries, ret>>

ExtUnexport(c) ==
  /\ node' = [node EXCEPT ![c] = "absent"]
  /\ UNCHANGED <<bound, state, handle, pc, arg, tries, ret>>

(* The driver of the chip is unbound, and bound again; the hardware keeps its state. *)
Unbind ==
  /\ bound' = ~bound
  /\ node' = [c \in Channels |-> "absent"]
  /\ UNCHANGED <<state, handle, pc, arg, tries, ret>>

-----------------------------------------------------------------------------
(* Specification *)

(* A channel nobody has configured has no period. *)
Init ==
  /\ bound = TRUE
  /\ node \in [Channels -> {"absent", "ready"}]
  /\ \E p \in Periods \cup {0} :
       state = [c \in Channels |->
                  [period |-> p, duty |-> 0, enabled |-> FALSE, polarity |-> "normal"]]
  /\ channel = [h \in Handles |-> NoChannel]
  /\ period_ns = [h \in Handles |-> 0]
  /\ opened = [h \in Handles |-> FALSE]
  /\ pc = [h \in Handles |-> "idle"]
  /\ arg = [h \in Handles |-> NoChannel]
  /\ tries = [h \in Handles |-> 0]
  /\ ret = [h \in Handles |-> "none"]

(* The system calls of a call in progress. *)
Step(h) == Export(h) \/ WaitChannel(h) \/ WaitPermission(h) \/ Query(h)

Call(h) ==
  \/ \E c \in Channels : OpenPwm(h, c)
  \/ \E e \in BOOLEAN : SetEnabled(h, e)
  \/ \E p \in Periods : SetPeriod(h, p)
  \/ \E d \in DutyCycles : SetDutyCycleNs(h, d)
  \/ \E r \in Ratios : SetDutyCycle(h, r)
  \/ \E p \in Polarities : SetPolarity(h, p)
  \/ GetPeriod(h) \/ GetOther(h)
  \/ Close(h)

Outside ==
  \/ \E c \in Channels : Appear(c) \/ Permit(c) \/ ExtExport(c) \/ ExtUnexport(c)
  \/ Unbind

Next == (\E h \in Handles : Step(h) \/ Call(h)) \/ Outside

(* A thread inside a call is scheduled; udev may never act. *)
Fairness == \A h \in Handles : WF_vars(Step(h))

Spec == Init /\ [][Next]_vars /\ Fairness

-----------------------------------------------------------------------------
(* Properties *)

States == [period : Nat, duty : Nat, enabled : BOOLEAN, polarity : {"normal", "inversed"}]

(* Every variable keeps its type. *)
TypeOK ==
  /\ bound \in BOOLEAN
  /\ node \in [Channels -> Nodes]
  /\ state \in [Channels -> States]
  /\ channel \in [Handles -> Channels \cup {NoChannel}]
  /\ period_ns \in [Handles -> Nat]
  /\ opened \in [Handles -> BOOLEAN]
  /\ pc \in [Handles -> {"idle", "export", "wait", "udev", "query"}]
  /\ arg \in [Handles -> Channels \cup {NoChannel}]
  /\ tries \in [Handles -> 0 .. (Retries - 1)]
  /\ ret \in [Handles -> {"none", "ok", "OPEN", "QUERY", "CLOSE", "CONFIGURE", "ARG"}]

(* The cached period is the channel's: as long as no one else sets it, whatever
   sequence of calls succeeded or failed and however often the channel went. *)
CachedPeriod == \A h \in Handles : opened[h] => period_ns[h] = state[channel[h]].period

(* No two handles have one channel open. *)
Apart ==
  \A g, h \in Handles : g # h /\ opened[g] /\ opened[h] => channel[g] # channel[h]

(* What the proofs need of a call: one in progress has a channel and a handle that
   is not open, and an open handle has a channel. *)
CallOK ==
  \A h \in Handles :
    /\ pc[h] # "idle" => arg[h] \in Channels /\ ~opened[h]
    /\ opened[h] => channel[h] \in Channels

(* The inductive invariant of the proofs. *)
IInv == TypeOK /\ CallOK

(* Every call returns, also when udev never does its part, the channel is taken
   away meanwhile or the chip goes. *)
CallReturns == \A h \in Handles : pc[h] # "idle" ~> pc[h] = "idle"

(* pwm.c: "Wait until PWM channel appears".  The loop would end with the channel
   there, or with an error. *)
WaitsForChannel ==
  [][\A h \in Handles : pc[h] = "wait" /\ pc'[h] = "udev" => Visible(arg[h])]_vars

=============================================================================
