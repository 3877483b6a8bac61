------------------------------ MODULE GpioSysfs ------------------------------
(***************************************************************************)
(* The legacy GPIO back end, gpio_sysfs.c.                                 *)
(*                                                                         *)
(* A line is exported by writing its number to a file, appears as a        *)
(* directory of attribute files, and becomes writable when udev has        *)
(* applied its rules.  Threads and processes that open the same line race  *)
(* between the stat() of the directory and the export, and one of them may *)
(* unexport the line while the others hold its value file.                 *)
(***************************************************************************)
EXTENDS Naturals

CONSTANTS
  Handles,        (* gpio_t handles, each used by one thread               *)
  Lines,
  Other, Nobody,  (* another process, and no one, as exporter of a line    *)
  OpenArgs, DirectionArgs, EdgeArgs, InvertedArgs,
                  (* arguments of the calls, invalid ones included         *)
  Retries         (* GPIO_SYSFS_OPEN_RETRIES                               *)

ASSUME RetriesAssumption == Retries \in Nat \ {0}
ASSUME LineAssumption == Lines # {}
ASSUME ExporterAssumption == {Other, Nobody} \cap Handles = {} /\ Other # Nobody
ASSUME InvertedAssumption == InvertedArgs \subseteq BOOLEAN

VARIABLES
  node,     (* sysfs: the state of each line's directory                   *)
  by,       (* who exported the line                                       *)
  attrs,    (* sysfs: direction, edge and active_low files; the level      *)
  line, line_fd, exported,        (* the fields of each gpio_t             *)
  pc,       (* where the handle's thread is between two system calls       *)
  arg,      (* the line and the direction gpio_open_sysfs() was called with *)
  made,     (* its local variable 'exported'                               *)
  tries,    (* its local variable retry_count                              *)
  ret       (* what the handle's last call returned or delivered           *)

sysfs  == <<node, by, attrs>>
handle == <<line, line_fd, exported>>
vars   == <<node, by, attrs, line, line_fd, exported, pc, arg, made, tries, ret>>

-----------------------------------------------------------------------------
(* The kernel and udev *)

Directions == {"in", "out", "low", "high"}
Edges      == {"none", "rising", "falling", "both"}

(* A line's directory: not exported, exported but not there yet, there without
   write permission, there with it. *)
Nodes == {"absent", "hidden", "denied", "ready"}
Visible(l) == node[l] \in {"denied", "ready"}

Attrs == [direction : {"in", "out"}, edge : Edges, inverted : BOOLEAN, level : {0, 1}]

(* A fresh export forgets edge and active_low; the hardware keeps the rest. *)
ExportLine(l, who) ==
  /\ node[l] = "absent"
  /\ node' = [node EXCEPT ![l] = "hidden"]
  /\ by' = [by EXCEPT ![l] = who]
  /\ attrs' = [attrs EXCEPT ![l].edge = "none", ![l].inverted = FALSE]

(* The directory goes: the open value files of the line are dead. *)
UnexportLine(l) ==
  /\ node' = [node EXCEPT ![l] = "absent"]
  /\ by' = [by EXCEPT ![l] = Nobody]
  /\ UNCHANGED attrs

KilledWith(l) ==
  [h \in Handles |-> IF line[h] = l /\ line_fd[h] = "live" THEN "dead" ELSE line_fd[h]]

(* An attribute file is opened, written and closed. *)
WriteAttrs(l, a) ==
  /\ node[l] = "ready"
  /\ attrs' = [attrs EXCEPT ![l] = a]
  /\ UNCHANGED <<node, by>>

-----------------------------------------------------------------------------
(* Calls *)

NoArg == [line |-> CHOOSE l \in Lines : TRUE, direction |-> "in"]

Idle(h)   == pc[h] = "idle"
Opened(h) == Idle(h) /\ line_fd[h] # "none"

(* The call of h goes on at step p. *)
Continue(h, p) ==
  /\ pc' = [pc EXCEPT ![h] = p]
  /\ tries' = [tries EXCEPT ![h] = 0]
  /\ ret' = [ret EXCEPT ![h] = "none"]

(* The call of h returns r. *)
Return(h, r) ==
  /\ pc' = [pc EXCEPT ![h] = "idle"]
  /\ arg' = [arg EXCEPT ![h] = NoArg]
  /\ made' = [made EXCEPT ![h] = FALSE]
  /\ tries' = [tries EXCEPT ![h] = 0]
  /\ ret' = [ret EXCEPT ![h] = r]

ReturnOnly(h, r) == Return(h, r) /\ UNCHANGED <<sysfs, handle>>

-----------------------------------------------------------------------------
(* gpio_open_sysfs(): any of its system calls may fail *)

(* The arguments are checked and the directory is looked for. *)
OpenSysfs(h, l, d) ==
  /\ Idle(h)
  /\ \/ d \notin Directions /\ ReturnOnly(h, "ARG")
     \/ /\ d \in Directions
        /\ Continue(h, IF Visible(l) THEN "value" ELSE "export")
        /\ arg' = [arg EXCEPT ![h] = [line |-> l, direction |-> d]]
        /\ UNCHANGED <<sysfs, handle, made>>

(* Mutant: a line somebody else has just exported counts as exported. *)
ExportBusy(h) ==
  /\ pc[h] = "export"
  /\ Continue(h, "wait")
  /\ UNCHANGED <<handle, arg, made>>
  /\ ExportLine(arg[h].line, h) \/ (node[arg[h].line] # "absent" /\ UNCHANGED sysfs)

(* The write is refused with EBUSY when another has exported the line since. *)
Export(h) ==
  /\ pc[h] = "export"
  /\ \/ ReturnOnly(h, "OPEN")
     \/ /\ ExportLine(arg[h].line, h)
        /\ Continue(h, "wait")
        /\ UNCHANGED <<handle, arg, made>>

(* Mutant: the count of the retries starts again at their end. *)
TryForever(h) ==
  /\ tries' = [tries EXCEPT ![h] = (@ + 1) % Retries]
  /\ UNCHANGED <<sysfs, handle, pc, arg, made, ret>>

(* Mutant: one try too many. *)
TryOnceMore(h) ==
  \/ tries[h] = Retries /\ ReturnOnly(h, "OPEN")
  \/ /\ tries[h] < Retries
     /\ tries' = [tries EXCEPT ![h] = @ + 1]
     /\ UNCHANGED <<sysfs, handle, pc, arg, made, ret>>

(* One more try after a delay, or the end of the retries. *)
TryAgain(h) ==
  \/ tries[h] + 1 = Retries /\ ReturnOnly(h, "OPEN")
  \/ /\ tries[h] + 1 < Retries
     /\ tries' = [tries EXCEPT ![h] = @ + 1]
     /\ UNCHANGED <<sysfs, handle, pc, arg, made, ret>>

(* The loop that waits for the directory. *)
WaitDirectory(h) ==
  /\ pc[h] = "wait"
  /\ \/ ReturnOnly(h, "OPEN")
     \/ ~Visible(arg[h].line) /\ TryAgain(h)
     \/ /\ Visible(arg[h].line)
        /\ Continue(h, "udev")
        /\ made' = [made EXCEPT ![h] = TRUE]
        /\ UNCHANGED <<sysfs, handle, arg>>

(* Writing a direction: "out" and "low" drive the line low, "high" drives it high. *)
Directed(a, d) ==
  IF d = "in" THEN [a EXCEPT !.direction = "in"]
  ELSE [a EXCEPT !.direction = "out", !.level = IF d = "high" THEN 1 ELSE 0]

(* The loop that writes the direction, and tries again while the file is denied. *)
WriteDirection(h) ==
  LET l == arg[h].line IN
  /\ pc[h] = "udev"
  /\ \/ \E r \in {"OPEN", "CONFIGURE"} : ReturnOnly(h, r)
     \/ node[l] = "denied" /\ TryAgain(h)
     \/ /\ WriteAttrs(l, Directed(attrs[l], arg[h].direction))
        /\ Continue(h, "value")
        /\ UNCHANGED <<handle, arg, made>>

(* Mutant: the direction of a line that is there already is taken for right. *)
AfterValueInverted(h) == "inverted"

(* A line this call did not export has not got its direction yet. *)
AfterValue(h) == IF made[h] THEN "inverted" ELSE "direction"

(* The value file is opened, the handle cleared and filled in: a descriptor it
   still had from an earlier open is lost. *)
OpenValue(h) ==
  /\ pc[h] = "value"
  /\ \/ ReturnOnly(h, "OPEN")
     \/ /\ node[arg[h].line] = "ready"
        /\ line' = [line EXCEPT ![h] = arg[h].line]
        /\ line_fd' = [line_fd EXCEPT ![h] = "live"]
        /\ exported' = [exported EXCEPT ![h] = made[h]]
        /\ Continue(h, AfterValue(h))
        /\ UNCHANGED <<sysfs, arg, made>>

(* A failure from here on returns with the handle filled in. *)
OpenDirection(h) ==
  LET l == line[h] IN
  /\ pc[h] = "direction"
  /\ \/ ReturnOnly(h, "CONFIGURE")
     \/ /\ WriteAttrs(l, Directed(attrs[l], arg[h].direction))
        /\ Continue(h, "inverted")
        /\ UNCHANGED <<handle, arg, made>>

OpenInverted(h) ==
  LET l == line[h] IN
  /\ pc[h] = "inverted"
  /\ \/ ReturnOnly(h, "CONFIGURE")
     \/ /\ WriteAttrs(l, [attrs[l] EXCEPT !.inverted = FALSE])
        /\ Return(h, "ok")
        /\ UNCHANGED handle

-----------------------------------------------------------------------------
(* gpio_sysfs_set_*(), _read(), _write(), _poll() *)

Setter(h, valid, a) ==
  /\ Opened(h)
  /\ \/ ~valid /\ ReturnOnly(h, "ARG")
     \/ valid /\ ReturnOnly(h, "CONFIGURE")
     \/ valid /\ WriteAttrs(line[h], a) /\ Return(h, "ok") /\ UNCHANGED handle

SetDirection(h, d) == Setter(h, d \in Directions, Directed(attrs[line[h]], d))
SetEdge(h, e)      == Setter(h, e \in Edges, [attrs[line[h]] EXCEPT !.edge = e])
SetInverted(h, i)  == Setter(h, TRUE, [attrs[line[h]] EXCEPT !.inverted = i])

(* Event reads, clock, debounce, bias and drive. *)
Unsupported(h) == Opened(h) /\ ReturnOnly(h, "UNSUPPORTED")

(* The physical level a logical value stands for on an active-low line, and back. *)
Physical(v, inverted) == IF inverted THEN 1 - v ELSE v

Read(h) ==
  /\ Opened(h)
  /\ \/ ReturnOnly(h, "IO")
     \/ /\ line_fd[h] = "live"
        /\ ReturnOnly(h, IF Physical(attrs[line[h]].level, attrs[line[h]].inverted) = 1
                         THEN "true" ELSE "false")

Write(h, v) ==
  LET a == attrs[line[h]] IN
  /\ Opened(h)
  /\ \/ ReturnOnly(h, "IO")
     \/ /\ line_fd[h] = "live" /\ a.direction = "out"
        /\ attrs' = [attrs EXCEPT ![line[h]].level = Physical(v, a.inverted)]
        /\ Return(h, "ok")
        /\ UNCHANGED <<node, by, handle>>

(* The kernel may have an edge to report; a dead file polls as ready. *)
Poll(h) ==
  /\ Opened(h)
  /\ \/ \E r \in {"IO", "ready"} : ReturnOnly(h, r)
     \/ line_fd[h] = "live" /\ ReturnOnly(h, "timeout")

-----------------------------------------------------------------------------
(* gpio_sysfs_close() *)

(* Mutant: the line is unexported whoever exported it. *)
CloseValueAlways(h) ==
  /\ Opened(h)
  /\ line_fd' = [line_fd EXCEPT ![h] = "none"]
  /\ Continue(h, "unexport")
  /\ UNCHANGED <<sysfs, line, exported, arg, made>>

(* The value file is closed; only the handle that exported the line goes on. *)
CloseValue(h) ==
  /\ Opened(h)
  /\ line_fd' = [line_fd EXCEPT ![h] = "none"]
  /\ \/ exported[h] /\ Continue(h, "unexport") /\ UNCHANGED <<arg, made>>
     \/ ~exported[h] /\ Return(h, "ok")
  /\ UNCHANGED <<sysfs, line, exported>>

(* Closing a handle without a descriptor does nothing. *)
Close(h) == CloseValue(h) \/ (Idle(h) /\ line_fd[h] = "none" /\ ReturnOnly(h, "ok"))

(* A failure leaves the line exported and the handle closed. *)
Unexport(h) ==
  /\ pc[h] = "unexport"
  /\ \/ ReturnOnly(h, "CLOSE")
     \/ /\ node[line[h]] # "absent"
        /\ UnexportLine(line[h])
        /\ line_fd' = KilledWith(line[h])
        /\ exported' = [exported EXCEPT ![h] = FALSE]
        /\ Return(h, "ok")
        /\ UNCHANGED line

-----------------------------------------------------------------------------
(* The outside *)

Appear(l) ==
  /\ node[l] = "hidden" /\ node' = [node EXCEPT ![l] = "denied"]
  /\ UNCHANGED <<by, attrs, handle, pc, arg, made, tries, ret>>

Permit(l) ==
  /\ node[l] = "denied" /\ node' = [node EXCEPT ![l] = "ready"]
  /\ UNCHANGED <<by, attrs, handle, pc, arg, made, tries, ret>>

(* Another process exports a line, and unexports only what it exported. *)
ExtExport(l) ==
  /\ ExportLine(l, Other)
  /\ UNCHANGED <<handle, pc, arg, made, tries, ret>>

ExtUnexport(l) ==
  /\ by[l] = Other
  /\ UnexportLine(l)
  /\ line_fd' = KilledWith(l)
  /\ UNCHANGED <<line, exported, pc, arg, made, tries, ret>>

(* The level of an input changes. *)
Toggle(l) ==
  /\ attrs[l].direction = "in"
  /\ attrs' = [attrs EXCEPT ![l].level = 1 - @]
  /\ UNCHANGED <<node, by, handle, pc, arg, made, tries, ret>>

-----------------------------------------------------------------------------
(* Specification *)

(* The lines start unexported, or exported and inverted by another process. *)
Init ==
  /\ node \in [Lines -> {"absent", "ready"}]
  /\ by = [l \in Lines |-> IF node[l] = "absent" THEN Nobody ELSE Other]
  /\ attrs = [l \in Lines |-> [direction |-> "in", edge |-> "none", level |-> 0,
                               inverted |-> node[l] = "ready"]]
  /\ line = [h \in Handles |-> NoArg.line]
  /\ line_fd = [h \in Handles |-> "none"]
  /\ exported = [h \in Handles |-> FALSE]
  /\ pc = [h \in Handles |-> "idle"]
  /\ arg = [h \in Handles |-> NoArg]
  /\ made = [h \in Handles |-> FALSE]
  /\ tries = [h \in Handles |-> 0]
  /\ ret = [h \in Handles |-> "none"]

(* The system calls of a call in progress. *)
Step(h) ==
  \/ Export(h) \/ WaitDirectory(h) \/ WriteDirection(h) \/ OpenValue(h)
  \/ OpenDirection(h) \/ OpenInverted(h) \/ Unexport(h)

Call(h) ==
  \/ \E l \in Lines, d \in OpenArgs : OpenSysfs(h, l, d)
  \/ \E d \in DirectionArgs : SetDirection(h, d)
  \/ \E e \in EdgeArgs : SetEdge(h, e)
  \/ \E i \in InvertedArgs : SetInverted(h, i)
  \/ Unsupported(h) \/ Read(h) \/ (\E v \in {0, 1} : Write(h, v)) \/ Poll(h)
  \/ Close(h)

Outside ==
  \E l \in Lines : Appear(l) \/ Permit(l) \/ ExtExport(l) \/ ExtUnexport(l) \/ Toggle(l)

Next == (\E h \in Handles : Step(h) \/ Call(h)) \/ Outside

(* A thread inside a call is scheduled; udev may never act. *)
Fairness == \A h \in Handles : WF_vars(Step(h))

Spec == Init /\ [][Next]_vars /\ Fairness

-----------------------------------------------------------------------------
(* Properties *)

Errors  == {"ARG", "OPEN", "CONFIGURE", "UNSUPPORTED", "IO", "CLOSE"}
Args    == [line : Lines, direction : Directions]
Steps   == {"idle", "export", "wait", "udev", "value", "direction", "inverted", "unexport"}
Results == Errors \cup {"none", "ok", "true", "false", "ready", "timeout"}

(* Every variable keeps its type, and the retries their bound. *)
TypeOK ==
  /\ node \in [Lines -> Nodes]
  /\ by \in [Lines -> Handles \cup {Other, Nobody}]
  /\ attrs \in [Lines -> Attrs]
  /\ line \in [Handles -> Lines]
  /\ line_fd \in [Handles -> {"none", "live", "dead"}]
  /\ exported \in [Handles -> BOOLEAN]
  /\ pc \in [Handles -> Steps]
  /\ arg \in [Handles -> Args]
  /\ made \in [Handles -> BOOLEAN]
  /\ tries \in [Handles -> 0 .. (Retries - 1)]
  /\ ret \in [Handles -> Results]

(* A handle that says it exported its line did: two openers that both found no
   directory never both believe so, and no close takes away an export that is
   not its own. *)
ExportedByHandle == \A h \in Handles : exported[h] => by[line[h]] = h

(* The descriptor of a handle that exported its line stays good: closing the
   other handles of the line does not unexport it. *)
ExporterKeepsLine == \A h \in Handles : exported[h] => line_fd[h] # "dead"

(* A successful open leaves the line as asked for, whether this call exported
   it, another process had, or did so while this call was running. *)
OpenApplied ==
  [][\A h \in Handles : pc[h] = "inverted" /\ ret'[h] = "ok" =>
       LET a == attrs'[line[h]]  d == arg[h].direction IN
       /\ ~a.inverted
       /\ a.direction = "in" <=> d = "in"
       /\ d # "in" => a.level = IF d = "high" THEN 1 ELSE 0]_vars

(* Every call returns, also when udev never does its part and the export is
   taken away meanwhile. *)
CallReturns == \A h \in Handles : pc[h] # "idle" ~> pc[h] = "idle"

(* What a call in progress relies on, for the proofs: an open that exported the
   line, and a close about to unexport it, have the export to themselves. *)
CallOK ==
  \A h \in Handles :
    /\ pc[h] \in {"wait", "udev"} \/ made[h] => by[arg[h].line] = h
    /\ pc[h] \in {"idle", "export", "unexport"} => ~made[h]
    /\ pc[h] = "unexport" => exported[h] /\ line_fd[h] = "none"
    /\ pc[h] \in {"direction", "inverted"} => arg[h].line = line[h]
LineOK == \A l \in Lines : by[l] = Nobody <=> node[l] = "absent"

(* The inductive invariant of the proofs. *)
IInv == TypeOK /\ LineOK /\ CallOK /\ ExportedByHandle /\ ExporterKeepsLine

=============================================================================
