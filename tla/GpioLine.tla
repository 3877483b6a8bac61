------------------------------ MODULE GpioLine ------------------------------
(***************************************************************************)
(* What the character device back ends promise of a gpio_t, without        *)
(* descriptors, chips or requests: a handle is closed, holds its line      *)
(* under one configuration, or is open and has lost its line to a setter   *)
(* that could not get it back.                                             *)
(***************************************************************************)
EXTENDS Naturals, Sequences

CONSTANTS
  Handles,        (* gpio_t handles                                        *)
  Lines,          (* lines of the chip                                     *)
  Configs,        (* configurations a handle can report                    *)
  EventBuffer     (* events kept for a line                                *)

VARIABLES
  level,          (* physical level of each line                           *)
  others,         (* lines other processes hold                            *)
  gpio,           (* the state of each handle                              *)
  answer          (* what its last call returned, "none" during a call     *)

vars == <<level, others, gpio, answer>>

-----------------------------------------------------------------------------
(* Handles *)

Closed          == [status |-> "closed"]
Lost(l, c)      == [status |-> "lost", line |-> l, conf |-> c]
Held(l, c, q)   == [status |-> "held", line |-> l, conf |-> c, events |-> q]

Holding(h)    == gpio[h].status = "held"
HoldsLine(h, l) == Holding(h) /\ gpio[h].line = l
Unheld(l)     == l \notin others /\ \A h \in Handles : ~HoldsLine(h, l)

(* The logical value of the line a handle holds. *)
Value(h) ==
  IF gpio[h].conf.inverted THEN 1 - level[gpio[h].line] ELSE level[gpio[h].line]

(* h alone takes a step: its state is then s and its call has returned r, or goes
   on when r is "none". *)
StepOf(h, s, r) ==
  /\ gpio' = [gpio EXCEPT ![h] = s]
  /\ answer' = [answer EXCEPT ![h] = r]
  /\ UNCHANGED others

-----------------------------------------------------------------------------
(* Calls *)

(* What a call that changes nothing may say: a level is the line's under the
   handle's own configuration, an event is never made up, "ready" and "timeout"
   tell whether one is waiting. *)
Truthful(h, r) ==
  /\ r \notin {"rising", "falling"}
  /\ r \in {"low", "high"} => Holding(h) /\ r = IF Value(h) = 1 THEN "high" ELSE "low"
  /\ r = "ready" => Holding(h) /\ (gpio[h].conf.edge = "none" \/ gpio[h].events # <<>>)
  /\ r = "timeout" => ~Holding(h) \/ gpio[h].events = <<>>

Answer(h) ==
  /\ Truthful(h, answer'[h])
  /\ StepOf(h, gpio[h], answer'[h])
  /\ UNCHANGED level

(* An open or a setter gets the line, free until then, in one step: it is then
   held under one configuration, with no event of an earlier one. *)
Acquire(h) ==
  /\ ~Holding(h) /\ Holding(h)'
  /\ LET l == gpio'[h].line  c == gpio'[h].conf IN
     /\ l \in Lines /\ c \in Configs /\ Unheld(l)
     /\ gpio[h].status = "lost" => l = gpio[h].line
     /\ StepOf(h, Held(l, c, <<>>), "ok")
     /\ \/ c.direction = "in" /\ UNCHANGED level
        \/ c.direction = "out" /\ \E v \in {0, 1} : level' = [level EXCEPT ![l] = v]

(* A setter under way gives the line up; the configuration reported stays. *)
Lose(h) ==
  /\ Holding(h)
  /\ StepOf(h, Lost(gpio[h].line, gpio[h].conf), "none")
  /\ UNCHANGED level

Close(h) ==
  /\ StepOf(h, Closed, "ok")
  /\ UNCHANGED level

Write(h) ==
  /\ Holding(h) /\ gpio[h].conf.direction = "out"
  /\ \E v \in {0, 1} : level' = [level EXCEPT ![gpio[h].line] = v]
  /\ StepOf(h, gpio[h], "ok")

(* Events come in the order they happened, each once. *)
TakeEvent(h) ==
  /\ Holding(h) /\ gpio[h].conf.edge # "none" /\ gpio[h].events # <<>>
  /\ StepOf(h, Held(gpio[h].line, gpio[h].conf, Tail(gpio[h].events)), Head(gpio[h].events))
  /\ UNCHANGED level

-----------------------------------------------------------------------------
(* The outside *)

OthersMove(l) ==
  /\ Unheld(l) \/ l \in others
  /\ others' \in {others \cup {l}, others \ {l}}
  /\ UNCHANGED <<level, gpio, answer>>

(* The events of a handle that sees its line go to level v. *)
Seen(g, v) ==
  LET event == IF (v = 1) # g.conf.inverted THEN "rising" ELSE "falling"
      kept  == IF Len(g.events) = EventBuffer THEN Tail(g.events) ELSE g.events
  IN IF g.conf.edge \in {event, "both"} THEN Append(kept, event) ELSE g.events

Toggle(l) ==
  /\ \A h \in Handles : HoldsLine(h, l) => gpio[h].conf.direction = "in"
  /\ level' = [level EXCEPT ![l] = 1 - @]
  /\ gpio' = [h \in Handles |->
               IF HoldsLine(h, l)
                 THEN Held(l, gpio[h].conf, Seen(gpio[h], 1 - level[l]))
                 ELSE gpio[h]]
  /\ UNCHANGED <<others, answer>>

-----------------------------------------------------------------------------
(* Specification *)

Init ==
  /\ level = [l \in Lines |-> 0]
  /\ others = {}
  /\ gpio = [h \in Handles |-> Closed]
  /\ answer = [h \in Handles |-> "none"]

Next ==
  \/ \E h \in Handles :
       Answer(h) \/ Acquire(h) \/ Lose(h) \/ Close(h) \/ Write(h) \/ TakeEvent(h)
  \/ \E l \in Lines : OthersMove(l) \/ Toggle(l)

Spec == Init /\ [][Next]_vars

=============================================================================
