--------------------------- MODULE GpioSysfsProofs ---------------------------
(***************************************************************************)
(* Theorems about GpioSysfs, for any number of handles, lines and retries. *)
(* The exporter of a line changes only in the export of an absent line and *)
(* in an unexport by the exporter itself: ExportKept states it, and the    *)
(* parts of the inductive invariant IInv follow from it.                   *)
(***************************************************************************)
EXTENDS GpioSysfs, TLAPS

(* The arguments kept between two calls are of their type. *)
LEMMA NoArgType ==
  NoArg \in Args
  BY LineAssumption DEF NoArg, Args, Directions

(* The attribute files take only the values the library writes. *)
LEMMA AttrTypes ==
  ASSUME NEW a \in Attrs
  PROVE  /\ \A d \in Directions : Directed(a, d) \in Attrs
         /\ \A e \in Edges : [a EXCEPT !.edge = e] \in Attrs
         /\ \A i \in BOOLEAN : [a EXCEPT !.inverted = i] \in Attrs
         /\ \A v \in {0, 1} : [a EXCEPT !.level = v] \in Attrs
  BY DEF Directed, Directions, Attrs

-----------------------------------------------------------------------------
(* Type correctness *)

(* What ends or continues a call keeps the types of what it assigns. *)
LEMMA CallTypes ==
  ASSUME TypeOK, NEW h \in Handles
  PROVE  /\ \A r \in Errors \cup {"ok", "true", "false", "ready", "timeout"} :
              Return(h, r) =>
                /\ pc' \in [Handles -> Steps] /\ arg' \in [Handles -> Args]
                /\ made' \in [Handles -> BOOLEAN]
                /\ tries' \in [Handles -> 0 .. (Retries - 1)]
                /\ ret' \in [Handles -> Results]
         /\ \A p \in Steps :
              Continue(h, p) =>
                /\ pc' \in [Handles -> Steps]
                /\ tries' \in [Handles -> 0 .. (Retries - 1)]
                /\ ret' \in [Handles -> Results]
         /\ TryAgain(h) => TypeOK'
<1>0. /\ pc \in [Handles -> Steps] /\ arg \in [Handles -> Args]
      /\ made \in [Handles -> BOOLEAN]
      /\ tries \in [Handles -> 0 .. (Retries - 1)]
      /\ ret \in [Handles -> Results]
      /\ "idle" \in Steps /\ "OPEN" \in Errors /\ Errors \subseteq Results
      /\ {"none", "ok", "true", "false", "ready", "timeout"} \subseteq Results
      /\ 0 \in 0 .. (Retries - 1)
  BY RetriesAssumption DEF TypeOK, Steps, Results, Errors
<1>1. ASSUME NEW r \in Errors \cup {"ok", "true", "false", "ready", "timeout"}, Return(h, r)
      PROVE  /\ pc' \in [Handles -> Steps] /\ arg' \in [Handles -> Args]
             /\ made' \in [Handles -> BOOLEAN]
             /\ tries' \in [Handles -> 0 .. (Retries - 1)]
             /\ ret' \in [Handles -> Results]
  BY <1>0, <1>1, NoArgType DEF Return
<1>2. ASSUME NEW p \in Steps, Continue(h, p)
      PROVE  /\ pc' \in [Handles -> Steps]
             /\ tries' \in [Handles -> 0 .. (Retries - 1)]
             /\ ret' \in [Handles -> Results]
  BY <1>0, <1>2 DEF Continue
<1>3. ASSUME TryAgain(h) PROVE TypeOK'
  <2>1. CASE ReturnOnly(h, "OPEN")
    BY <1>0, <1>1, <2>1 DEF ReturnOnly, TypeOK, sysfs, handle
  <2>2. CASE /\ tries[h] + 1 < Retries
             /\ tries' = [tries EXCEPT ![h] = @ + 1]
             /\ UNCHANGED <<sysfs, handle, pc, arg, made, ret>>
    <3>1. tries' \in [Handles -> 0 .. (Retries - 1)]
      BY <1>0, <2>2, RetriesAssumption
    <3> QED BY <2>2, <3>1 DEF TypeOK, sysfs, handle
  <2> QED BY <1>3, <2>1, <2>2 DEF TryAgain
<1> QED BY <1>1, <1>2, <1>3

(* So do the writes to sysfs. *)
LEMMA SysfsTypes ==
  ASSUME TypeOK, NEW l \in Lines
  PROVE  /\ \A who \in Handles \cup {Other} :
              ExportLine(l, who) =>
                /\ node' \in [Lines -> Nodes] /\ attrs' \in [Lines -> Attrs]
                /\ by' \in [Lines -> Handles \cup {Other, Nobody}]
         /\ UnexportLine(l) =>
                /\ node' \in [Lines -> Nodes] /\ attrs' \in [Lines -> Attrs]
                /\ by' \in [Lines -> Handles \cup {Other, Nobody}]
         /\ KilledWith(l) \in [Handles -> {"none", "live", "dead"}]
         /\ \A a \in Attrs :
              WriteAttrs(l, a) =>
                /\ node' \in [Lines -> Nodes] /\ attrs' \in [Lines -> Attrs]
                /\ by' \in [Lines -> Handles \cup {Other, Nobody}]
<1>0. /\ node \in [Lines -> Nodes] /\ attrs \in [Lines -> Attrs]
      /\ by \in [Lines -> Handles \cup {Other, Nobody}]
      /\ line_fd \in [Handles -> {"none", "live", "dead"}]
      /\ {"absent", "hidden"} \subseteq Nodes
  BY DEF TypeOK, Nodes
<1>1. [attrs EXCEPT ![l].edge = "none", ![l].inverted = FALSE] \in [Lines -> Attrs]
  <2>1. attrs[l] \in Attrs
    BY <1>0
  <2>2. [attrs[l] EXCEPT !.edge = "none", !.inverted = FALSE] \in Attrs
    BY <2>1 DEF Attrs, Edges
  <2> QED BY <1>0, <2>2
<1>2. KilledWith(l) \in [Handles -> {"none", "live", "dead"}]
  BY <1>0 DEF KilledWith
<1>3. ASSUME NEW who \in Handles \cup {Other}, ExportLine(l, who)
      PROVE  /\ node' \in [Lines -> Nodes] /\ attrs' \in [Lines -> Attrs]
             /\ by' \in [Lines -> Handles \cup {Other, Nobody}]
  BY <1>0, <1>1, <1>3 DEF ExportLine
<1>4. ASSUME UnexportLine(l)
      PROVE  /\ node' \in [Lines -> Nodes] /\ attrs' \in [Lines -> Attrs]
             /\ by' \in [Lines -> Handles \cup {Other, Nobody}]
  BY <1>0, <1>4 DEF UnexportLine
<1>5. ASSUME NEW a \in Attrs, WriteAttrs(l, a)
      PROVE  /\ node' \in [Lines -> Nodes] /\ attrs' \in [Lines -> Attrs]
             /\ by' \in [Lines -> Handles \cup {Other, Nobody}]
  BY <1>0, <1>5 DEF WriteAttrs
<1> QED BY <1>2, <1>3, <1>4, <1>5

(* A step of a call in progress. *)
LEMMA TypeOKStep ==
  ASSUME TypeOK, CallOK, NEW h \in Handles, Step(h)
  PROVE  TypeOK'
<1>0. arg[h] \in Args /\ arg[h].line \in Lines /\ line[h] \in Lines
  BY DEF TypeOK, Args
<1>1. attrs[arg[h].line] \in Attrs /\ attrs[line[h]] \in Attrs /\ arg[h].direction \in Directions
  BY <1>0 DEF TypeOK, Args
<1> USE <1>0, <1>1, CallTypes, SysfsTypes, AttrTypes DEF ReturnOnly, sysfs, handle, Steps, Results, Errors
<1>2. Export(h) => TypeOK'
  BY DEF Export, TypeOK
<1>3. WaitDirectory(h) => TypeOK'
  BY DEF WaitDirectory, TypeOK
<1>4. WriteDirection(h) => TypeOK'
  BY DEF WriteDirection, TypeOK
<1>5. OpenValue(h) => TypeOK'
  <2>1. AfterValue(h) \in Steps
    BY DEF AfterValue
  <2>2. Continue(h, AfterValue(h)) => /\ pc' \in [Handles -> Steps]
                                      /\ tries' \in [Handles -> 0 .. (Retries - 1)]
                                      /\ ret' \in [Handles -> Results]
    BY ONLY TypeOK, CallTypes, <2>1
  <2>3. ReturnOnly(h, "OPEN") => TypeOK'
    BY DEF TypeOK
  <2>4. ASSUME line' = [line EXCEPT ![h] = arg[h].line], line_fd' = [line_fd EXCEPT ![h] = "live"],
               exported' = [exported EXCEPT ![h] = made[h]], Continue(h, AfterValue(h)),
               UNCHANGED <<sysfs, arg, made>>
        PROVE  TypeOK'
    BY <2>2, <2>4 DEF TypeOK
  <2> QED BY <2>3, <2>4 DEF OpenValue
<1>6. OpenDirection(h) => TypeOK'
  BY DEF OpenDirection, TypeOK
<1>7. OpenInverted(h) => TypeOK'
  BY DEF OpenInverted, TypeOK
<1>8. Unexport(h) => TypeOK'
  <2>1. ASSUME UnexportLine(line[h]), line_fd' = KilledWith(line[h]),
               exported' = [exported EXCEPT ![h] = FALSE], Return(h, "ok"), UNCHANGED line
        PROVE  TypeOK'
    BY <2>1 DEF TypeOK
  <2>2. ReturnOnly(h, "CLOSE") => TypeOK'
    BY DEF TypeOK
  <2> QED BY <2>1, <2>2 DEF Unexport
<1> QED BY <1>2, <1>3, <1>4, <1>5, <1>6, <1>7, <1>8 DEF Step

(* The first step of a call. *)
LEMMA TypeOKCall ==
  ASSUME TypeOK, NEW h \in Handles, Call(h)
  PROVE  TypeOK'
<1>0. line[h] \in Lines /\ attrs[line[h]] \in Attrs /\ attrs[line[h]].inverted \in BOOLEAN
  BY DEF TypeOK, Attrs
<1> USE <1>0, CallTypes, SysfsTypes, AttrTypes DEF ReturnOnly, sysfs, handle, Steps, Results, Errors
<1>1. ASSUME NEW l \in Lines, NEW d \in OpenArgs, OpenSysfs(h, l, d) PROVE TypeOK'
  <2>1. d \in Directions => [line |-> l, direction |-> d] \in Args
    BY DEF Args
  <2>2. ReturnOnly(h, "ARG") => TypeOK'
    BY DEF TypeOK
  <2>3. ASSUME NEW p \in Steps, d \in Directions, Continue(h, p),
               arg' = [arg EXCEPT ![h] = [line |-> l, direction |-> d]],
               UNCHANGED <<sysfs, handle, made>>
        PROVE  TypeOK'
    <3>1. pc' \in [Handles -> Steps] /\ tries' \in [Handles -> 0 .. (Retries - 1)]
          /\ ret' \in [Handles -> Results]
      BY ONLY TypeOK, CallTypes, <2>3
    <3>2. arg' \in [Handles -> Args]
      BY ONLY TypeOK, <2>1, <2>3 DEF TypeOK
    <3>3. UNCHANGED <<node, by, attrs, line, line_fd, exported, made>>
      BY ONLY <2>3 DEF sysfs, handle
    <3> QED BY ONLY TypeOK, <3>1, <3>2, <3>3 DEF TypeOK
  <2>4. "value" \in Steps /\ "export" \in Steps
    BY ONLY DEF Steps
  <2> QED BY ONLY <1>1, <2>2, <2>3, <2>4 DEF OpenSysfs
<1>2. ASSUME NEW d \in DirectionArgs, SetDirection(h, d) PROVE TypeOK'
  BY <1>2 DEF SetDirection, Setter, TypeOK
<1>3. ASSUME NEW e \in EdgeArgs, SetEdge(h, e) PROVE TypeOK'
  BY <1>3 DEF SetEdge, Setter, TypeOK
<1>4. ASSUME NEW i \in InvertedArgs, SetInverted(h, i) PROVE TypeOK'
  BY <1>4, InvertedAssumption DEF SetInverted, Setter, TypeOK
<1>5. Unsupported(h) \/ Read(h) \/ Poll(h) => TypeOK'
  BY DEF Unsupported, Read, Poll, TypeOK
<1>6. ASSUME NEW v \in {0, 1}, Write(h, v) PROVE TypeOK'
  <2>0. attrs \in [Lines -> Attrs] /\ Physical(v, attrs[line[h]].inverted) \in {0, 1}
    BY DEF TypeOK, Physical
  <2>1. [attrs EXCEPT ![line[h]].level = Physical(v, attrs[line[h]].inverted)] \in [Lines -> Attrs]
    BY ONLY <1>0, <2>0 DEF Attrs
  <2> QED BY <1>6, <2>1 DEF Write, TypeOK
<1>7. Close(h) => TypeOK'
  BY DEF Close, CloseValue, TypeOK
<1> QED BY <1>1, <1>2, <1>3, <1>4, <1>5, <1>6, <1>7 DEF Call

(* udev, other processes and the signals on the lines. *)
LEMMA TypeOKOutside ==
  ASSUME TypeOK, Outside
  PROVE  TypeOK'
<1>1. ASSUME NEW l \in Lines, ExtExport(l) \/ ExtUnexport(l) PROVE TypeOK'
  BY <1>1, SysfsTypes DEF ExtExport, ExtUnexport, TypeOK, handle
<1>2. ASSUME NEW l \in Lines, Appear(l) \/ Permit(l) \/ Toggle(l) PROVE TypeOK'
  <2>1. attrs[l] \in Attrs /\ 1 - attrs[l].level \in {0, 1}
    BY DEF TypeOK, Attrs
  <2>2. [attrs EXCEPT ![l].level = 1 - @] \in [Lines -> Attrs]
    BY <2>1 DEF TypeOK, Attrs
  <2> QED BY <1>2, <2>2 DEF Appear, Permit, Toggle, TypeOK, Nodes, handle
<1> QED BY <1>1, <1>2 DEF Outside

-----------------------------------------------------------------------------
(* Who exported a line *)

(* The part of the invariant about exports. *)
Own == LineOK /\ CallOK /\ ExportedByHandle /\ ExporterKeepsLine

(* The types that part relies on. *)
OwnTypes ==
  /\ node \in [Lines -> Nodes] /\ by \in [Lines -> Handles \cup {Other, Nobody}]
  /\ line \in [Handles -> Lines] /\ line_fd \in [Handles -> {"none", "live", "dead"}]
  /\ exported \in [Handles -> BOOLEAN] /\ made \in [Handles -> BOOLEAN]
  /\ pc \in [Handles -> Steps] /\ arg \in [Handles -> Args]
  /\ {"absent", "hidden", "denied", "ready"} \subseteq Nodes
  /\ \A h \in Handles : arg[h].line \in Lines /\ h # Other /\ h # Nobody
  /\ Other # Nobody

(* They follow from the type invariant. *)
LEMMA OwnTypesHold ==
  TypeOK => OwnTypes
  BY ExporterAssumption DEF TypeOK, OwnTypes, Args, Nodes

(* A call that returns without touching sysfs or its handle. *)
LEMMA OwnReturn ==
  ASSUME OwnTypes, Own, NEW h \in Handles, NEW r, ReturnOnly(h, r)
  PROVE  Own'
  BY DEF OwnTypes, Own, LineOK, CallOK, ExportedByHandle, ExporterKeepsLine,
         ReturnOnly, Return, sysfs, handle

(* A call that tries again. *)
LEMMA OwnTryAgain ==
  ASSUME OwnTypes, Own, NEW h \in Handles, TryAgain(h)
  PROVE  Own'
<1>1. CASE UNCHANGED <<sysfs, handle, pc, arg, made, ret>>
  BY <1>1 DEF Own, LineOK, CallOK, ExportedByHandle, ExporterKeepsLine, sysfs, handle
<1> QED BY <1>1, OwnReturn DEF TryAgain

(* A step of a call in progress: an export finds the line absent, hence
   nobody's; an unexport takes a line away that is its own. *)
LEMMA OwnStep ==
  ASSUME OwnTypes, Own, NEW h \in Handles, Step(h)
  PROVE  Own'
<1> USE OwnReturn, OwnTryAgain DEF Own, LineOK, CallOK, ExportedByHandle, ExporterKeepsLine,
                                   OwnTypes, Continue, sysfs, handle
<1>1. ASSUME Export(h) PROVE Own'
  <2>1. CASE /\ ExportLine(arg[h].line, h) /\ Continue(h, "wait")
             /\ UNCHANGED <<handle, arg, made>> /\ pc[h] = "export"
    <3>1. /\ node[arg[h].line] = "absent" /\ by[arg[h].line] = Nobody
          /\ node' = [node EXCEPT ![arg[h].line] = "hidden"]
          /\ by' = [by EXCEPT ![arg[h].line] = h]
          /\ pc' = [pc EXCEPT ![h] = "wait"]
          /\ UNCHANGED <<line, line_fd, exported, arg, made>>
      BY <2>1 DEF ExportLine
    <3>2. LineOK'
      BY <3>1
    <3>3. ExportedByHandle' /\ ExporterKeepsLine'
      BY <3>1
    <3>4. ~made[h]
      BY <2>1
    <3>5. CallOK'
      BY <2>1, <3>1, <3>4
    <3> QED BY <3>2, <3>3, <3>5
  <2> QED BY <1>1, <2>1 DEF Export
<1>2. WaitDirectory(h) => Own'
  BY DEF WaitDirectory
<1>3. WriteDirection(h) => Own'
  BY DEF WriteDirection, WriteAttrs
<1>4. ASSUME OpenValue(h) PROVE Own'
  <2>1. CASE /\ node[arg[h].line] = "ready"
             /\ line' = [line EXCEPT ![h] = arg[h].line]
             /\ line_fd' = [line_fd EXCEPT ![h] = "live"]
             /\ exported' = [exported EXCEPT ![h] = made[h]]
             /\ pc' = [pc EXCEPT ![h] = AfterValue(h)]
             /\ UNCHANGED <<sysfs, arg, made>>
    <3>1. AfterValue(h) \in {"inverted", "direction"}
      BY DEF AfterValue
    <3>2. LineOK'
      BY <2>1
    <3>3. ExportedByHandle' /\ ExporterKeepsLine'
      BY <2>1
    <3>4. CallOK'
      BY <2>1, <3>1
    <3> QED BY <3>2, <3>3, <3>4
  <2>2. CASE ReturnOnly(h, "OPEN")
    BY ONLY OwnTypes, Own, <2>2, OwnReturn
  <2> QED BY ONLY <1>4, <2>1, <2>2 DEF OpenValue, Continue
<1>5. OpenDirection(h) => Own'
  BY DEF OpenDirection, WriteAttrs
<1>6. OpenInverted(h) => Own'
  BY DEF OpenInverted, WriteAttrs, Return
<1>7. ASSUME Unexport(h) PROVE Own'
  <2>1. CASE /\ UnexportLine(line[h]) /\ line_fd' = KilledWith(line[h])
             /\ exported' = [exported EXCEPT ![h] = FALSE]
             /\ Return(h, "ok") /\ UNCHANGED line /\ pc[h] = "unexport"
    BY <2>1 DEF UnexportLine, KilledWith, Return
  <2> QED BY <1>7, <2>1 DEF Unexport
<1> QED BY <1>1, <1>2, <1>3, <1>4, <1>5, <1>6, <1>7 DEF Step

(* The first step of a call. *)
LEMMA OwnCall ==
  ASSUME OwnTypes, Own, NEW h \in Handles, Call(h)
  PROVE  Own'
<1> USE OwnReturn DEF Own, LineOK, CallOK, ExportedByHandle, ExporterKeepsLine,
                      OwnTypes, sysfs, handle
<1>1. ASSUME NEW l \in Lines, NEW d \in OpenArgs, OpenSysfs(h, l, d) PROVE Own'
  BY <1>1 DEF OpenSysfs, Idle, Continue
<1>2. ASSUME NEW valid, NEW a, Setter(h, valid, a) PROVE Own'
  BY <1>2 DEF Setter, WriteAttrs, Return
<1>3. ASSUME Unsupported(h) \/ Read(h) \/ Poll(h) PROVE Own'
  BY <1>3 DEF Unsupported, Read, Poll
<1>4. ASSUME NEW v \in {0, 1}, Write(h, v) PROVE Own'
  BY <1>4 DEF Write, Return
<1>5. ASSUME Close(h) PROVE Own'
  BY <1>5 DEF Close, CloseValue, Continue, Return, Opened, Idle
<1> QED BY <1>1, <1>2, <1>3, <1>4, <1>5 DEF Call, SetDirection, SetEdge, SetInverted

(* The outside takes away no export of a handle. *)
LEMMA OwnOutside ==
  ASSUME OwnTypes, Own, Outside
  PROVE  Own'
<1> USE DEF Own, LineOK, CallOK, ExportedByHandle, ExporterKeepsLine, OwnTypes, handle
<1>1. ASSUME NEW l \in Lines, ExtExport(l) PROVE Own'
  BY <1>1 DEF ExtExport, ExportLine
<1>2. ASSUME NEW l \in Lines, ExtUnexport(l) PROVE Own'
  BY <1>2 DEF ExtUnexport, UnexportLine, KilledWith
<1>3. ASSUME NEW l \in Lines, Appear(l) \/ Permit(l) \/ Toggle(l) PROVE Own'
  BY <1>3 DEF Appear, Permit, Toggle
<1> QED BY <1>1, <1>2, <1>3 DEF Outside

-----------------------------------------------------------------------------
(* Theorems *)

(* The invariant holds at first. *)
LEMMA InitIInv == Init => IInv
<1> SUFFICES ASSUME Init PROVE IInv
  OBVIOUS
<1>1. NoArg \in Args /\ NoArg.line \in Lines /\ 0 \in 0 .. (Retries - 1)
  BY NoArgType, RetriesAssumption DEF Args
<1>2. attrs \in [Lines -> Attrs] /\ node \in [Lines -> Nodes]
  BY DEF Init, Attrs, Edges, Nodes
<1>3. TypeOK
  BY <1>1, <1>2 DEF Init, TypeOK, Steps, Results
<1>4. LineOK
  BY ExporterAssumption DEF Init, LineOK
<1>5. CallOK /\ ExportedByHandle /\ ExporterKeepsLine
  BY DEF Init, CallOK, ExportedByHandle, ExporterKeepsLine
<1> QED BY <1>3, <1>4, <1>5 DEF IInv

(* Every step preserves it. *)
LEMMA NextIInv == IInv /\ [Next]_vars => IInv'
<1> SUFFICES ASSUME IInv, [Next]_vars PROVE IInv'
  OBVIOUS
<1>1. TypeOK /\ CallOK /\ Own /\ OwnTypes
  BY OwnTypesHold DEF IInv, Own
<1>2. CASE UNCHANGED vars
  BY <1>2 DEF vars, IInv, TypeOK, LineOK, CallOK, ExportedByHandle, ExporterKeepsLine
<1>3. CASE Next
  <2>1. TypeOK'
    BY <1>1, <1>3, TypeOKStep, TypeOKCall, TypeOKOutside DEF Next
  <2>2. Own'
    BY <1>1, <1>3, OwnStep, OwnCall, OwnOutside DEF Next
  <2> QED BY <2>1, <2>2 DEF IInv, Own
<1> QED BY <1>2, <1>3

(* The inductive invariant holds in every reachable state. *)
THEOREM Invariance == Spec => []IInv
  BY InitIInv, NextIInv, PTL DEF Spec

(* Every variable keeps its type, and the retries their bound. *)
THEOREM TypeCorrect == Spec => []TypeOK
<1>1. IInv => TypeOK
  BY DEF IInv
<1> QED BY Invariance, <1>1, PTL

(* No handle unexports a line that it has not exported itself. *)
THEOREM UnexportsOwn == Spec => []ExportedByHandle
<1>1. IInv => ExportedByHandle
  BY DEF IInv
<1> QED BY Invariance, <1>1, PTL

(* The handle that exported a line keeps a good descriptor. *)
THEOREM ExporterSafe == Spec => []ExporterKeepsLine
<1>1. IInv => ExporterKeepsLine
  BY DEF IInv
<1> QED BY Invariance, <1>1, PTL

-----------------------------------------------------------------------------
(* What a successful open leaves.  Between the write of the direction and the end
   of the open, the calls of other handles on the same line can undo it; the
   outside, which may export and unexport the line, cannot. *)

(* The open of h has written its direction. *)
Directing(h) == pc[h] = "inverted" \/ (pc[h] = "value" /\ made[h])

(* A handle that can write the direction or the level of l. *)
Writes(g, l) ==
  \/ Opened(g) /\ line[g] = l
  \/ pc[g] \in {"udev", "direction"} /\ arg[g].line = l

(* No other handle is at work on a line that is being opened. *)
OpensApart ==
  \A h \in Handles : Directing(h) => \A g \in Handles \ {h} : ~Writes(g, arg[h].line)

(* The direction and the level of the attributes a are those d asks for. *)
Asked(a, d) ==
  /\ a.direction = "in" <=> d = "in"
  /\ d # "in" => a.level = IF d = "high" THEN 1 ELSE 0

DirectionWritten ==
  \A h \in Handles :
    /\ Directing(h) => Asked(attrs[arg[h].line], arg[h].direction)
    /\ pc[h] = "inverted" => ret[h] = "none"

(* What decides Asked() stays on a line whose writers are at rest. *)
SamePins(l) ==
  attrs'[l].direction = attrs[l].direction
    /\ (attrs[l].direction = "out" => attrs'[l].level = attrs[l].level)

LEMMA DirectedAsked ==
  ASSUME NEW a \in Attrs, NEW d \in Directions
  PROVE  Asked(Directed(a, d), d)
  BY DEF Asked, Directed, Attrs, Directions

LEMMA PinsAsked ==
  ASSUME TypeOK, NEW l \in Lines, NEW d, SamePins(l), Asked(attrs[l], d)
  PROVE  Asked(attrs'[l], d)
<1>1. attrs[l].direction \in {"in", "out"}
  BY DEF TypeOK, Attrs
<1> QED
  BY <1>1 DEF SamePins, Asked

(* An export keeps them. *)
LEMMA ExportPins ==
  ASSUME TypeOK, NEW l \in Lines, NEW k \in Lines, NEW who, ExportLine(k, who)
  PROVE  SamePins(l)
  BY DEF ExportLine, SamePins, TypeOK, Attrs

(* So does a write to another line, or of another attribute. *)
LEMMA WritePins ==
  ASSUME TypeOK, NEW l \in Lines, NEW k \in Lines, NEW a, WriteAttrs(k, a),
         \/ k # l
         \/ \E i : a = [attrs[k] EXCEPT !.inverted = i]
  PROVE  SamePins(l)
  BY DEF WriteAttrs, SamePins, TypeOK, Attrs

LEMMA OutsidePins ==
  ASSUME TypeOK, NEW l \in Lines, Outside
  PROVE  SamePins(l)
<1>1. ASSUME NEW k \in Lines, ExtExport(k) PROVE SamePins(l)
  BY <1>1, ExportPins DEF ExtExport
<1>2. ASSUME NEW k \in Lines, Toggle(k) PROVE SamePins(l)
  BY <1>2 DEF Toggle, SamePins, TypeOK, Attrs
<1>3. ASSUME NEW k \in Lines, Appear(k) \/ Permit(k) \/ ExtUnexport(k) PROVE SamePins(l)
  BY <1>3 DEF Appear, Permit, ExtUnexport, UnexportLine, SamePins
<1> QED
  BY <1>1, <1>2, <1>3 DEF Outside

(* A step of another handle, which cannot write the line. *)
LEMMA OthersPins ==
  ASSUME IInv, NEW l \in Lines, NEW g \in Handles, ~Writes(g, l), Step(g) \/ Call(g)
  PROVE  SamePins(l)
<1>0. TypeOK /\ CallOK /\ line[g] \in Lines /\ arg[g].line \in Lines
  BY DEF IInv, TypeOK, Args
<1>1. ASSUME UNCHANGED attrs PROVE SamePins(l)
  BY <1>1 DEF SamePins
<1>2. ASSUME Export(g) PROVE SamePins(l)
  BY <1>0, <1>1, <1>2, ExportPins DEF Export, ReturnOnly, sysfs
<1>3. ASSUME WaitDirectory(g) \/ OpenValue(g) \/ Unexport(g) PROVE SamePins(l)
  BY <1>1, <1>3 DEF WaitDirectory, OpenValue, Unexport, UnexportLine, TryAgain, ReturnOnly, sysfs
<1>4. ASSUME WriteDirection(g) PROVE SamePins(l)
  <2>1. arg[g].line # l
    BY <1>4 DEF WriteDirection, Writes
  <2> QED
    BY <1>0, <1>1, <1>4, <2>1, WritePins DEF WriteDirection, TryAgain, ReturnOnly, sysfs
<1>5. ASSUME OpenDirection(g) PROVE SamePins(l)
  <2>1. line[g] # l
    BY <1>0, <1>5 DEF OpenDirection, Writes, CallOK
  <2> QED
    BY <1>0, <1>1, <1>5, <2>1, WritePins DEF OpenDirection, ReturnOnly, sysfs
<1>6. ASSUME OpenInverted(g) PROVE SamePins(l)
  BY <1>0, <1>1, <1>6, WritePins DEF OpenInverted, ReturnOnly, sysfs
<1>7. ASSUME NEW valid, NEW a, Setter(g, valid, a) PROVE SamePins(l)
  <2>1. line[g] # l
    BY <1>7 DEF Setter, Writes
  <2> QED
    BY <1>0, <1>1, <1>7, <2>1, WritePins DEF Setter, ReturnOnly, sysfs
<1>8. ASSUME NEW v \in {0, 1}, Write(g, v) PROVE SamePins(l)
  <2>1. line[g] # l
    BY <1>8 DEF Write, Writes
  <2> QED
    BY <1>0, <1>1, <1>8, <2>1 DEF Write, ReturnOnly, sysfs, SamePins, TypeOK
<1>9. ASSUME NEW k \in Lines, NEW d \in OpenArgs, OpenSysfs(g, k, d) PROVE SamePins(l)
  BY <1>1, <1>9 DEF OpenSysfs, ReturnOnly, sysfs
<1>10. ASSUME Unsupported(g) \/ Read(g) \/ Poll(g) \/ Close(g) PROVE SamePins(l)
  BY <1>1, <1>10 DEF Unsupported, Read, Poll, Close, CloseValue, ReturnOnly, sysfs
<1> QED
  BY <1>2, <1>3, <1>4, <1>5, <1>6, <1>7, <1>8, <1>9, <1>10
     DEF Step, Call, SetDirection, SetEdge, SetInverted

(* The call of h is where it was. *)
Waits(h) == pc'[h] = pc[h] /\ arg'[h] = arg[h] /\ made'[h] = made[h] /\ ret'[h] = ret[h]

(* Steps of others do not move it. *)
LEMMA OthersPlaces ==
  ASSUME NEW h \in Handles, IInv, \/ Outside
                                 \/ \E g \in Handles \ {h} : Step(g) \/ Call(g)
  PROVE  Waits(h)
<1>1. CASE Outside
  BY <1>1 DEF Waits, Outside, Appear, Permit, ExtExport, ExtUnexport, Toggle
<1>2. ASSUME NEW g \in Handles \ {h}, Step(g)
      PROVE  Waits(h)
  BY <1>2 DEF Waits, Step, Export, WaitDirectory, WriteDirection, OpenValue, OpenDirection, OpenInverted,
              Unexport, TryAgain, Continue, ReturnOnly, Return, IInv, TypeOK
<1>3. ASSUME NEW g \in Handles \ {h}, Call(g)
      PROVE  Waits(h)
  <2> USE DEF Waits, Continue, ReturnOnly, Return, IInv, TypeOK
  <2>1. ASSUME NEW l \in Lines, NEW d \in OpenArgs, OpenSysfs(g, l, d)
        PROVE  Waits(h)
    BY <2>1 DEF OpenSysfs
  <2>2. ASSUME NEW valid, NEW a, Setter(g, valid, a)
        PROVE  Waits(h)
    BY <2>2 DEF Setter
  <2>3. ASSUME NEW v \in {0, 1}, Unsupported(g) \/ Read(g) \/ Write(g, v) \/ Poll(g) \/ Close(g)
        PROVE  Waits(h)
    BY <2>3 DEF Unsupported, Read, Write, Poll, Close, CloseValue
  <2> QED
    BY <1>3, <2>1, <2>2, <2>3 DEF Call, SetDirection, SetEdge, SetInverted
<1> QED
  BY <1>1, <1>2, <1>3

(* The steps of the open itself: it is directed by a write of the direction, and
   stays so. *)
LEMMA OwnDirection ==
  ASSUME IInv, DirectionWritten, NEW h \in Handles, Step(h) \/ Call(h)
  PROVE  /\ Directing(h)' => Asked(attrs'[arg'[h].line], arg'[h].direction)
         /\ pc'[h] = "inverted" => ret'[h] = "none"
<1>0. /\ TypeOK /\ CallOK
      /\ arg[h].line \in Lines /\ arg[h].direction \in Directions /\ line[h] \in Lines
      /\ attrs[arg[h].line] \in Attrs
  BY DEF IInv, TypeOK, Args
<1>1. ASSUME pc'[h] \in {"idle", "export", "wait", "udev", "direction", "unexport"}
      PROVE  ~Directing(h)' /\ pc'[h] # "inverted"
  BY <1>1 DEF Directing
<1>2. CASE WriteDirection(h)
  <2>1. CASE WriteAttrs(arg[h].line, Directed(attrs[arg[h].line], arg[h].direction))
             /\ Continue(h, "value") /\ UNCHANGED <<handle, arg, made>>
    <3>1. arg' = arg /\ attrs'[arg[h].line] = Directed(attrs[arg[h].line], arg[h].direction)
          /\ pc'[h] = "value"
      BY <1>0, <2>1 DEF WriteAttrs, TypeOK, Continue
    <3> QED
      BY <1>0, <3>1, DirectedAsked
  <2>2. CASE pc'[h] \in {"idle", "udev"}
    BY <1>1, <2>2
  <2> QED
    BY <1>0, <1>2, <2>1, <2>2 DEF WriteDirection, TryAgain, ReturnOnly, Return, TypeOK
<1>3. CASE OpenDirection(h)
  <2>1. CASE WriteAttrs(line[h], Directed(attrs[line[h]], arg[h].direction))
             /\ Continue(h, "inverted") /\ UNCHANGED <<handle, arg, made>>
    <3>1. arg[h].line = line[h]
      BY <1>0, <1>3 DEF OpenDirection, CallOK
    <3>2. arg' = arg /\ attrs'[arg[h].line] = Directed(attrs[arg[h].line], arg[h].direction)
          /\ ret'[h] = "none"
      BY <1>0, <2>1, <3>1 DEF WriteAttrs, TypeOK, Continue
    <3> QED
      BY <1>0, <3>2, DirectedAsked
  <2>2. CASE pc'[h] = "idle"
    BY <1>1, <2>2
  <2> QED
    BY <1>0, <1>3, <2>1, <2>2 DEF OpenDirection, ReturnOnly, Return, TypeOK
<1>4. CASE OpenValue(h)
  <2>1. CASE UNCHANGED <<sysfs, arg, made>> /\ Continue(h, AfterValue(h))
    <3>1. attrs' = attrs /\ arg' = arg /\ pc'[h] = AfterValue(h) /\ ret'[h] = "none"
      BY <1>0, <2>1 DEF sysfs, Continue, TypeOK
    <3>2. CASE made[h]
      <4>1. Directing(h)
        BY <1>4, <3>2 DEF OpenValue, Directing
      <4> QED
        BY <3>1, <4>1 DEF DirectionWritten
    <3>3. CASE ~made[h]
      <4>1. pc'[h] = "direction"
        BY <3>1, <3>3 DEF AfterValue
      <4> QED
        BY <1>1, <4>1
    <3> QED
      BY <3>2, <3>3
  <2>2. CASE pc'[h] = "idle"
    BY <1>1, <2>2
  <2> QED
    BY <1>0, <1>4, <2>1, <2>2 DEF OpenValue, ReturnOnly, Return, TypeOK
<1>5. CASE Export(h) \/ WaitDirectory(h) \/ OpenInverted(h) \/ Unexport(h)
  <2>1. pc'[h] \in {"idle", "wait", "udev"}
    BY <1>0, <1>5 DEF Export, WaitDirectory, OpenInverted, Unexport, TryAgain, Continue,
                      ReturnOnly, Return, TypeOK
  <2> QED
    BY <1>1, <2>1
<1>6. ASSUME NEW l \in Lines, NEW d \in OpenArgs, OpenSysfs(h, l, d)
      PROVE  ~Directing(h)' /\ pc'[h] # "inverted"
  <2>1. ~made[h]
    BY <1>0, <1>6 DEF OpenSysfs, Idle, CallOK
  <2>2. pc'[h] = "idle" \/ (pc'[h] \in {"value", "export"} /\ made' = made)
    BY <1>0, <1>6 DEF OpenSysfs, Continue, ReturnOnly, Return, TypeOK
  <2> QED
    BY <2>1, <2>2 DEF Directing
<1>7. CASE Call(h) /\ ~\E l \in Lines, d \in OpenArgs : OpenSysfs(h, l, d)
  <2>1. pc'[h] \in {"idle", "unexport"}
    BY <1>0, <1>7 DEF Call, SetDirection, SetEdge, SetInverted, Setter, Unsupported, Read, Write,
                      Poll, Close, CloseValue, Continue, ReturnOnly, Return, TypeOK
  <2> QED
    BY <1>1, <2>1
<1> QED
  BY <1>2, <1>3, <1>4, <1>5, <1>6, <1>7 DEF Step

LEMMA InitDirection == ASSUME Init PROVE DirectionWritten
  BY DEF Init, DirectionWritten, Directing

LEMMA NextDirection ==
  ASSUME IInv, OpensApart, DirectionWritten, [Next]_vars
  PROVE  DirectionWritten'
<1>1. CASE UNCHANGED vars
  BY <1>1 DEF vars, DirectionWritten, Directing
<1>2. CASE Next
  <2> SUFFICES ASSUME NEW h \in Handles
      PROVE  /\ Directing(h)' => Asked(attrs'[arg'[h].line], arg'[h].direction)
             /\ pc'[h] = "inverted" => ret'[h] = "none"
    BY DEF DirectionWritten
  <2>1. CASE Step(h) \/ Call(h)
    BY <2>1, OwnDirection
  <2>2. CASE Outside \/ \E g \in Handles \ {h} : Step(g) \/ Call(g)
    <3>1. pc'[h] = pc[h] /\ arg'[h] = arg[h] /\ made'[h] = made[h] /\ ret'[h] = ret[h]
      BY <2>2, OthersPlaces DEF Waits
    <3>2. CASE Directing(h)
      <4>1. TypeOK /\ arg[h].line \in Lines
        BY DEF IInv, TypeOK, Args
      <4>2. SamePins(arg[h].line)
        BY <2>2, <3>2, <4>1, OutsidePins, OthersPins DEF OpensApart
      <4>3. Asked(attrs[arg[h].line], arg[h].direction)
        BY <3>2 DEF DirectionWritten
      <4> QED
        BY <3>1, <4>1, <4>2, <4>3, PinsAsked DEF DirectionWritten
    <3>3. CASE ~Directing(h)
      BY <3>1, <3>3 DEF Directing
    <3> QED
      BY <3>2, <3>3
  <2> QED
    BY <1>2, <2>1, <2>2 DEF Next
<1> QED
  BY <1>1, <1>2

(* The last step of an open finds its direction, and takes active_low back. *)
LEMMA OpenEnds ==
  ASSUME IInv, DirectionWritten, [Next]_vars, NEW h \in Handles,
         pc[h] = "inverted", ret'[h] = "ok"
  PROVE  LET a == attrs'[line[h]]  d == arg[h].direction IN
         /\ ~a.inverted
         /\ a.direction = "in" <=> d = "in"
         /\ d # "in" => a.level = IF d = "high" THEN 1 ELSE 0
<1>1. ret[h] = "none" /\ Asked(attrs[arg[h].line], arg[h].direction) /\ arg[h].line = line[h]
  BY DEF DirectionWritten, Directing, IInv, CallOK
<1>2. Step(h) \/ Call(h)
  BY <1>1, OthersPlaces DEF Waits, Next, vars
<1>3. OpenInverted(h) /\ ~ReturnOnly(h, "CONFIGURE")
  <2>1. ~Call(h)
    BY DEF Call, OpenSysfs, SetDirection, SetEdge, SetInverted, Setter, Unsupported, Read, Write,
           Poll, Close, CloseValue, Opened, Idle
  <2>2. OpenInverted(h)
    BY <1>2, <2>1 DEF Step, Export, WaitDirectory, WriteDirection, OpenValue, OpenDirection, Unexport
  <2> QED
    BY <2>2 DEF ReturnOnly, Return, IInv, TypeOK
<1>4. /\ line[h] \in Lines /\ attrs \in [Lines -> Attrs]
      /\ attrs' = [attrs EXCEPT ![line[h]] = [attrs[line[h]] EXCEPT !.inverted = FALSE]]
  BY <1>3 DEF OpenInverted, WriteAttrs, IInv, TypeOK
<1>5. /\ ~attrs'[line[h]].inverted
      /\ attrs'[line[h]].direction = attrs[line[h]].direction
      /\ attrs'[line[h]].level = attrs[line[h]].level
  BY <1>4 DEF Attrs
<1> QED
  BY <1>1, <1>5 DEF Asked

(* A gpio_open_sysfs() that succeeds leaves the line in the direction, at the level
   and not inverted, as it was asked to, whoever exported the line and whenever, as
   long as no other handle is at work on that line meanwhile. *)
THEOREM OpensApply == Spec /\ []OpensApart => OpenApplied
<1>1. Init => DirectionWritten
  BY InitDirection
<1>2. IInv /\ OpensApart /\ DirectionWritten /\ [Next]_vars => DirectionWritten'
  BY NextDirection
<1>3. IInv /\ DirectionWritten /\ [Next]_vars =>
        [\A h \in Handles : pc[h] = "inverted" /\ ret'[h] = "ok" =>
           LET a == attrs'[line[h]]  d == arg[h].direction IN
           /\ ~a.inverted
           /\ a.direction = "in" <=> d = "in"
           /\ d # "in" => a.level = IF d = "high" THEN 1 ELSE 0]_vars
  BY OpenEnds
<1> QED
  BY <1>1, <1>2, <1>3, Invariance, PTL DEF Spec, OpenApplied

(* So it does in a process with one handle, as in the run. *)
THEOREM OpensApplyAlone ==
  ASSUME \A g, h \in Handles : g = h
  PROVE  Spec => OpenApplied
<1>1. OpensApart
  BY DEF OpensApart
<1> QED
  BY <1>1, OpensApply, PTL

-----------------------------------------------------------------------------
(* How long a call can take.  That a call returns is a matter of fairness, which
   TLC checks; that it has an end to return at is not: every system call it makes
   brings it nearer to its end, and nothing anybody else does takes it back. *)

(* The system calls after and including the one at p, without the retries. *)
Ahead(p) ==
  CASE p = "idle" -> 0
    [] p \in {"inverted", "unexport"} -> 1
    [] p = "direction" -> 2
    [] p = "value" -> 3
    [] p = "udev" -> 4
    [] p = "wait" -> 5
    [] p = "export" -> 6

Left(h) == IF Idle(h) THEN 0 ELSE Ahead(pc[h]) * Retries - tries[h]

LeftOK == \A h \in Handles : Left(h) \in 0 .. 6 * Retries /\ (Left(h) = 0 <=> Idle(h))

CallsShorten ==
  \A h \in Handles : /\ Step(h) => Left(h)' < Left(h)
                     /\ ~Idle(h) /\ ~Step(h) => Left(h)' = Left(h)

CallsEnd == [][CallsShorten]_vars

LEMMA LeftBounded ==
  ASSUME TypeOK, NEW h \in Handles
  PROVE  Left(h) \in 0 .. 6 * Retries /\ (Left(h) = 0 <=> Idle(h))
<1>1. Retries \in Nat \ {0} /\ tries[h] \in 0 .. Retries - 1 /\ pc[h] \in Steps
  BY RetriesAssumption DEF TypeOK
<1>2. ~Idle(h) => Ahead(pc[h]) \in 1 .. 6
  BY <1>1 DEF Idle, Ahead, Steps
<1> HIDE DEF Ahead
<1>3. ASSUME NEW a \in 1 .. 6
      PROVE  a * Retries - tries[h] \in 1 .. 6 * Retries
  <2>1. a = 1 \/ a = 2 \/ a = 3 \/ a = 4 \/ a = 5 \/ a = 6
    OBVIOUS
  <2>2. Retries <= a * Retries /\ a * Retries <= 6 * Retries /\ a * Retries \in Nat
    BY <1>1, <2>1
  <2> QED
    BY <1>1, <2>2
<1> QED
  BY <1>1, <1>2, <1>3 DEF Left

(* A call at q with no retry behind it is nearer to its end than one at p. *)
LEMMA NearerTheEnd ==
  ASSUME TypeOK, NEW h \in Handles, ~Idle(h), NEW q \in Steps, Ahead(q) < Ahead(pc[h]),
         pc'[h] = q, q # "idle" => tries'[h] = 0
  PROVE  Left(h)' < Left(h)
<1>1. Retries \in Nat \ {0} /\ tries[h] \in 0 .. Retries - 1 /\ pc[h] \in Steps
  BY RetriesAssumption DEF TypeOK
<1>2. CASE q = "idle"
  <2>1. Left(h)' = 0
    BY <1>2 DEF Left, Idle
  <2> QED
    BY <2>1, LeftBounded
<1>3. CASE q # "idle"
  <2> DEFINE a == Ahead(q)
             b == Ahead(pc[h])
  <2>1. a \in 1 .. 6 /\ b \in 1 .. 6 /\ a < b
    BY <1>1, <1>3 DEF Ahead, Steps, Idle
  <2>2. Left(h)' = a * Retries /\ Left(h) = b * Retries - tries[h]
    <3>1. pc'[h] = q /\ tries'[h] = 0 /\ a * Retries - 0 = a * Retries
      BY <1>1, <1>3, <2>1
    <3> QED
      BY <1>3, <3>1 DEF Left, Idle
  <2> HIDE DEF a, b
  <2>3. (a + 1) * Retries <= b * Retries
    <3> DEFINE k == b - a - 1
    <3>1. k \in Nat /\ b = a + 1 + k
      BY <2>1
    <3> HIDE DEF k
    <3>2. b * Retries = (a + 1) * Retries + k * Retries /\ k * Retries \in Nat
      BY <1>1, <2>1, <3>1
    <3>3. (a + 1) * Retries \in Nat
      BY <1>1, <2>1
    <3> QED
      BY <3>2, <3>3
  <2>4. (a + 1) * Retries = a * Retries + Retries /\ a * Retries \in Nat /\ b * Retries \in Nat
    BY <1>1, <2>1
  <2> QED
    BY <1>1, <2>2, <2>3, <2>4
<1> QED
  BY <1>2, <1>3

LEMMA StepShortens ==
  ASSUME IInv, NEW h \in Handles, Step(h)
  PROVE  Left(h)' < Left(h)
<1>0. TypeOK
  BY DEF IInv
<1>1. pc[h] # "idle"
  BY DEF Step, Export, WaitDirectory, WriteDirection, OpenValue, OpenDirection, OpenInverted, Unexport
<1>2. ASSUME NEW r, Return(h, r) PROVE Left(h)' < Left(h)
  <2>1. pc'[h] = "idle"
    BY <1>0, <1>2 DEF Return, TypeOK
  <2>2. Ahead("idle") < Ahead(pc[h])
    BY <1>0, <1>1 DEF Ahead, Steps, TypeOK
  <2> QED
    BY <1>0, <1>1, <2>1, <2>2, NearerTheEnd DEF Idle, Steps
<1>3. ASSUME NEW q \in Steps, q # "idle", Ahead(q) < Ahead(pc[h]), Continue(h, q)
      PROVE  Left(h)' < Left(h)
  <2>1. pc'[h] = q /\ tries'[h] = 0
    BY <1>0, <1>3 DEF Continue, TypeOK
  <2> QED
    BY <1>0, <1>1, <1>3, <2>1, NearerTheEnd DEF Idle
<1>4. ASSUME TryAgain(h) PROVE Left(h)' < Left(h)
  <2>1. CASE tries' = [tries EXCEPT ![h] = @ + 1] /\ pc' = pc
    <3>1. tries'[h] = tries[h] + 1 /\ tries[h] \in Nat /\ Retries \in Nat
      BY <1>0, <2>1, RetriesAssumption DEF TypeOK
    <3>2. Ahead(pc[h]) \in Nat
      BY <1>0 DEF Ahead, Steps, TypeOK
    <3> DEFINE a == Ahead(pc[h])
    <3>3. Left(h)' = a * Retries - tries'[h] /\ Left(h) = a * Retries - tries[h]
      BY <1>1, <2>1 DEF Left, Idle
    <3> HIDE DEF a
    <3>4. a * Retries \in Nat
      BY <3>1, <3>2 DEF a
    <3> QED
      BY <3>1, <3>3, <3>4
  <2> QED
    BY <1>2, <1>4, <2>1 DEF TryAgain, ReturnOnly
<1>5. CASE Export(h)
  BY <1>2, <1>3, <1>5 DEF Export, ReturnOnly, Ahead, Steps
<1>6. CASE WaitDirectory(h)
  BY <1>2, <1>3, <1>4, <1>6 DEF WaitDirectory, ReturnOnly, Ahead, Steps
<1>7. CASE WriteDirection(h)
  BY <1>2, <1>3, <1>4, <1>7 DEF WriteDirection, ReturnOnly, Ahead, Steps
<1>8. CASE OpenValue(h)
  <2>1. AfterValue(h) \in {"inverted", "direction"}
    BY DEF AfterValue
  <2> QED
    BY <1>2, <1>3, <1>8, <2>1 DEF OpenValue, ReturnOnly, Ahead, Steps
<1>9. CASE OpenDirection(h)
  BY <1>2, <1>3, <1>9 DEF OpenDirection, ReturnOnly, Ahead, Steps
<1>10. CASE OpenInverted(h) \/ Unexport(h)
  BY <1>2, <1>10 DEF OpenInverted, Unexport, ReturnOnly
<1> QED
  BY <1>5, <1>6, <1>7, <1>8, <1>9, <1>10 DEF Step

(* Nobody else sends a call back: not even one that takes its export away. *)
LEMMA OthersLeaveIt ==
  ASSUME IInv, [Next]_vars, NEW h \in Handles, ~Idle(h), ~Step(h)
  PROVE  Left(h)' = Left(h)
<1>0. TypeOK
  BY DEF IInv
<1>1. ~Call(h)
  BY DEF Call, OpenSysfs, SetDirection, SetEdge, SetInverted, Setter, Unsupported, Read, Write,
         Poll, Close, CloseValue, Opened
<1>2. pc'[h] = pc[h] /\ tries'[h] = tries[h]
  <2>1. CASE UNCHANGED vars
    BY <2>1 DEF vars
  <2>2. CASE Outside
    BY <2>2 DEF Outside, Appear, Permit, ExtExport, ExtUnexport, Toggle
  <2>3. ASSUME NEW g \in Handles \ {h}, Step(g)
        PROVE  pc'[h] = pc[h] /\ tries'[h] = tries[h]
    BY <1>0, <2>3 DEF Step, Export, WaitDirectory, WriteDirection, OpenValue, OpenDirection,
                      OpenInverted, Unexport, TryAgain, Continue, ReturnOnly, Return, TypeOK
  <2>4. ASSUME NEW g \in Handles \ {h}, Call(g)
        PROVE  pc'[h] = pc[h] /\ tries'[h] = tries[h]
    <3> USE <1>0 DEF Continue, ReturnOnly, Return, TypeOK
    <3>1. ASSUME NEW l \in Lines, NEW d \in OpenArgs, OpenSysfs(g, l, d)
          PROVE  pc'[h] = pc[h] /\ tries'[h] = tries[h]
      BY <3>1 DEF OpenSysfs
    <3>2. ASSUME NEW valid, NEW a, Setter(g, valid, a)
          PROVE  pc'[h] = pc[h] /\ tries'[h] = tries[h]
      BY <3>2 DEF Setter
    <3>3. ASSUME NEW v \in {0, 1}, Unsupported(g) \/ Read(g) \/ Write(g, v) \/ Poll(g) \/ Close(g)
          PROVE  pc'[h] = pc[h] /\ tries'[h] = tries[h]
      BY <3>3 DEF Unsupported, Read, Write, Poll, Close, CloseValue
    <3> QED
      BY <2>4, <3>1, <3>2, <3>3 DEF Call, SetDirection, SetEdge, SetInverted
  <2> QED
    BY <1>1, <2>1, <2>2, <2>3, <2>4 DEF Next
<1> QED
  BY <1>2 DEF Left, Idle

(* A call makes at most six times GPIO_SYSFS_OPEN_RETRIES system calls, whatever udev,
   other threads and other processes do meanwhile. *)
THEOREM CallsAreBounded == Spec => []LeftOK /\ CallsEnd
<1>1. IInv => LeftOK
  BY LeftBounded DEF IInv, LeftOK
<1>2. IInv /\ [Next]_vars => [CallsShorten]_vars
  BY StepShortens, OthersLeaveIt DEF CallsShorten
<1> QED
  BY <1>1, <1>2, Invariance, PTL DEF Spec, CallsEnd

=============================================================================
