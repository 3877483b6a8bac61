--------------------------------- MODULE Led ---------------------------------
(***************************************************************************)
(* The LED library, led.c: a handle that names an LED of sysfs and caches  *)
(* its maximum brightness, and the list of triggers, which is parsed out   *)
(* of one line of text.                                                    *)
(***************************************************************************)
EXTENDS Naturals, Sequences, FiniteSets
LOCAL INSTANCE SequencesExt

CONSTANTS
  LedHandles,     (* led_t handles, each used by one thread                *)
  Leds,           (* names of LEDs                                         *)
  MaxOf,          (* the maximum brightness of each                        *)
  Triggers,       (* the triggers of the kernel, in the order of the list  *)
  TriggerArgs,    (* triggers callers set, invalid ones included           *)
  Brightnesses,   (* brightnesses callers set                              *)
  Indices,        (* indices callers ask for                               *)
  MaxStreams      (* the limit on the streams of the process               *)

NoLed == "no LED"     (* the empty name of a new handle *)

ASSUME LedAssumption ==
  /\ MaxOf \in [Leds -> Nat \ {0}]
  /\ Brightnesses \subseteq Nat /\ Indices \subseteq Nat /\ MaxStreams \in Nat
  /\ Triggers \in Seq(STRING) /\ Len(Triggers) > 0

VARIABLES
  leds,           (* kernel: each LED, if there, its brightness and trigger *)
  led_name, max_brightness,       (* the fields of each led_t              *)
  max_read,       (* whether the maximum was read since the name was set   *)
  led_pc,         (* where the handle's thread is in led_open()            *)
  streams,        (* streams the calls of each handle have left open       *)
  led_got,        (* the output argument of a handle's last call           *)
  led_ret         (* what it returned                                      *)

led     == <<led_name, max_brightness, max_read>>
ledVars == <<leds, led, led_pc, streams, led_got, led_ret>>

-----------------------------------------------------------------------------
(* The kernel *)

There(n) == n \in Leds /\ leds[n].there

TriggerNames == {Triggers[i] : i \in 1 .. Len(Triggers)}

(* A file of the LED can be opened as a stream. *)
StreamOpens(n) == There(n) /\ \A h \in LedHandles : streams[h] < MaxStreams

(* Brightness 0 also turns the trigger off. *)
Lit(n, b) ==
  [leds EXCEPT ![n].brightness = IF b > MaxOf[n] THEN MaxOf[n] ELSE b,
               ![n].trigger = IF b = 0 THEN Triggers[1] ELSE @]

(* The list of triggers: a blank after each name but the last or, in older kernels,
   after the last too, then the end of the line; brackets around the active one.
   A name is one character here. *)
TriggerFile(n, old) ==
  FlattenSeq([i \in 1 .. Len(Triggers) |->
                (IF Triggers[i] = leds[n].trigger THEN <<"[", Triggers[i], "]">>
                                                  ELSE <<Triggers[i]>>)
                \o (IF old \/ i < Len(Triggers) THEN <<" ">> ELSE <<>>)])
  \o <<"\n">>

(* What the loops over fgetc() see: they take a read error for the end. *)
TriggerTexts(n) == {TriggerFile(n, FALSE), TriggerFile(n, TRUE), <<>>}

-----------------------------------------------------------------------------
(* Parsing the list of triggers *)

BlankChars   == {" ", "\n"}
IsBlank(c)   == c \in BlankChars
Blanks(text) == {k \in DOMAIN text : IsBlank(text[k])}

(* The text up to the first of its characters in stops, or all of it. *)
UpTo(text, stops) ==
  LET k == SelectInSeq(text, LAMBDA c : c \in stops) IN
  IF k = 0 THEN text ELSE SubSeq(text, 1, k - 1)

(* led_get_triggers_entry(): what follows the first i blanks, up to the next. *)
HasEntry(text, i) == i <= Cardinality(Blanks(text))

Entry(text, i) ==
  LET start == IF i = 0 THEN 0
               ELSE CHOOSE k \in Blanks(text) : Cardinality({j \in Blanks(text) : j <= k}) = i
      name  == UpTo(SubSeq(text, start + 1, Len(text)), BlankChars)
  IN SelectSeq(name, LAMBDA c : c \notin {"[", "]"})

(* Mutant: every blank ends a trigger. *)
CountBlanks(text) == Cardinality(Blanks(text))

(* led_get_triggers_count(): a trigger ends at a blank after at least one other
   character; in the state SCANNING any character begins one. *)
CountOf(text) ==
  FoldLeft(LAMBDA at, c : IF at.inside /\ IsBlank(c) THEN [count |-> at.count + 1, inside |-> FALSE]
                                                     ELSE [at EXCEPT !.inside = TRUE],
           [count |-> 0, inside |-> FALSE], text).count

(* led_get_trigger(): what is between the brackets. *)
HasActive(text) == Contains(text, "[")

Active(text) ==
  UpTo(SubSeq(text, SelectInSeq(text, LAMBDA c : c = "[") + 1, Len(text)), {"]"})

-----------------------------------------------------------------------------
(* Calls *)

Nothing == [text |-> <<>>, count |-> 0]

LedIdle(h) == led_pc[h] = "idle"

LedReturn(h, r) ==
  /\ led_pc' = [led_pc EXCEPT ![h] = "idle"]
  /\ led_ret' = [led_ret EXCEPT ![h] = r]

LedReturnOnly(h, r) ==
  /\ LedReturn(h, r)
  /\ led_got' = [led_got EXCEPT ![h] = Nothing]
  /\ UNCHANGED <<leds, led, streams>>

LedGives(h, got) ==
  /\ LedReturn(h, "ok")
  /\ led_got' = [led_got EXCEPT ![h] = got]
  /\ UNCHANGED <<leds, led, streams>>

(* An error return that does not close its stream. *)
LedLeaks(h, r) ==
  /\ LedReturn(h, r)
  /\ led_got' = [led_got EXCEPT ![h] = Nothing]
  /\ streams' = [streams EXCEPT ![h] = @ + 1]
  /\ UNCHANGED <<leds, led>>

-----------------------------------------------------------------------------
(* led_open(), led_close() *)

(* 'brightness' can be opened, and the name is copied. *)
LedOpen(h, n) ==
  /\ LedIdle(h)
  /\ \/ LedReturnOnly(h, "OPEN")
     \/ /\ There(n)
        /\ led_name' = [led_name EXCEPT ![h] = n]
        /\ max_read' = [max_read EXCEPT ![h] = FALSE]
        /\ led_pc' = [led_pc EXCEPT ![h] = "query"]
        /\ led_got' = [led_got EXCEPT ![h] = Nothing]
        /\ led_ret' = [led_ret EXCEPT ![h] = "none"]
        /\ UNCHANGED <<leds, max_brightness, streams>>

(* Mutant: the file of the brightness is read. *)
CachesBrightness(h) ==
  max_brightness' = [max_brightness EXCEPT ![h] = leds[led_name[h]].brightness]

(* Mutant: the maximum is taken when there is none yet. *)
CachesMaxOnce(h) ==
  max_brightness' =
    [max_brightness EXCEPT ![h] = IF @ = 0 THEN MaxOf[led_name[h]] ELSE @]

CachesMax(h) == max_brightness' = [max_brightness EXCEPT ![h] = MaxOf[led_name[h]]]

(* It then reads the maximum; when it cannot, the old one stays with the new name. *)
LedQueryMax(h) ==
  /\ led_pc[h] = "query"
  /\ \/ LedReturnOnly(h, "QUERY")
     \/ /\ There(led_name[h])
        /\ CachesMax(h)
        /\ max_read' = [max_read EXCEPT ![h] = TRUE]
        /\ LedReturn(h, "ok")
        /\ UNCHANGED <<leds, led_name, streams, led_got>>

LedClose(h) == LedIdle(h) /\ LedReturnOnly(h, "ok")

-----------------------------------------------------------------------------
(* Brightness *)

LedGetMaxBrightness(h) ==
  /\ LedIdle(h)
  /\ \/ LedReturnOnly(h, "QUERY")
     \/ /\ There(led_name[h])
        /\ CachesMax(h)
        /\ LedReturn(h, "ok")
        /\ led_got' = [led_got EXCEPT ![h] = [Nothing EXCEPT !.count = MaxOf[led_name[h]]]]
        /\ max_read' = [max_read EXCEPT ![h] = TRUE]
        /\ UNCHANGED <<leds, led_name, streams>>

(* led_read() too *)
LedGetBrightness(h) ==
  /\ LedIdle(h)
  /\ \/ LedReturnOnly(h, "IO")
     \/ /\ There(led_name[h])
        /\ LedGives(h, [Nothing EXCEPT !.count = leds[led_name[h]].brightness])

LedSetBrightness(h, b) ==
  /\ LedIdle(h)
  /\ \/ b > max_brightness[h] /\ LedReturnOnly(h, "ARG")
     \/ b <= max_brightness[h] /\ LedReturnOnly(h, "IO")
     \/ /\ b <= max_brightness[h] /\ There(led_name[h])
        /\ leds' = Lit(led_name[h], b)
        /\ LedReturn(h, "ok")
        /\ led_got' = [led_got EXCEPT ![h] = Nothing]
        /\ UNCHANGED <<led, streams>>

LedWrite(h, v) == LedSetBrightness(h, IF v THEN max_brightness[h] ELSE 0)

-----------------------------------------------------------------------------
(* Triggers *)

LedGetTrigger(h) ==
  /\ LedIdle(h)
  /\ \/ LedReturnOnly(h, "QUERY")
     \/ /\ StreamOpens(led_name[h])
        /\ \E text \in TriggerTexts(led_name[h]) :
             \/ ~HasActive(text) /\ LedLeaks(h, "QUERY")
             \/ HasActive(text) /\ LedGives(h, [Nothing EXCEPT !.text = Active(text)])

LedGetTriggersEntry(h, i) ==
  /\ LedIdle(h)
  /\ \/ LedReturnOnly(h, "QUERY")
     \/ /\ StreamOpens(led_name[h])
        /\ \E text \in TriggerTexts(led_name[h]) :
             \/ ~HasEntry(text, i) /\ LedLeaks(h, "QUERY")
             \/ HasEntry(text, i) /\ LedGives(h, [Nothing EXCEPT !.text = Entry(text, i)])

LedGetTriggersCount(h) ==
  /\ LedIdle(h)
  /\ \/ LedReturnOnly(h, "IO")
     \/ /\ StreamOpens(led_name[h])
        /\ \E text \in TriggerTexts(led_name[h]) :
             LedGives(h, [Nothing EXCEPT !.count = CountOf(text)])

(* Mutant: the stream of a trigger that was set stays open. *)
SetsTriggerOpen(h, t) ==
  /\ leds' = [leds EXCEPT ![led_name[h]].trigger = t]
  /\ LedReturn(h, "ok")
  /\ led_got' = [led_got EXCEPT ![h] = Nothing]
  /\ streams' = [streams EXCEPT ![h] = @ + 1]
  /\ UNCHANGED led

SetsTrigger(h, t) ==
  /\ leds' = [leds EXCEPT ![led_name[h]].trigger = t]
  /\ LedReturn(h, "ok")
  /\ led_got' = [led_got EXCEPT ![h] = Nothing]
  /\ UNCHANGED <<led, streams>>

(* The kernel refuses an unknown trigger when fclose() writes it; fputs() or
   fputc() fails when it fills the buffer of the stream. *)
LedSetTrigger(h, t) ==
  /\ LedIdle(h)
  /\ \/ LedReturnOnly(h, "QUERY")
     \/ StreamOpens(led_name[h]) /\ LedLeaks(h, "QUERY")
     \/ /\ StreamOpens(led_name[h]) /\ t \in TriggerNames
        /\ SetsTrigger(h, t)

-----------------------------------------------------------------------------
(* The outside *)

(* An LED goes, or comes back dark; another process writes its brightness or its
   trigger. *)
LedComesOrGoes(n) ==
  /\ leds' = [leds EXCEPT ![n] = [there |-> ~@.there, brightness |-> 0, trigger |-> Triggers[1]]]
  /\ UNCHANGED <<led, led_pc, streams, led_got, led_ret>>

OtherWrites(n) ==
  /\ There(n)
  /\ \/ \E b \in Brightnesses : leds' = Lit(n, b)
     \/ \E t \in TriggerNames : leds' = [leds EXCEPT ![n].trigger = t]
  /\ UNCHANGED <<led, led_pc, streams, led_got, led_ret>>

-----------------------------------------------------------------------------
(* Specification *)

LedInit ==
  /\ leds = [n \in Leds |-> [there |-> TRUE, brightness |-> 0, trigger |-> Triggers[1]]]
  /\ led_name = [h \in LedHandles |-> NoLed]
  /\ max_brightness = [h \in LedHandles |-> 0]
  /\ max_read = [h \in LedHandles |-> FALSE]
  /\ led_pc = [h \in LedHandles |-> "idle"]
  /\ streams = [h \in LedHandles |-> 0]
  /\ led_got = [h \in LedHandles |-> Nothing]
  /\ led_ret = [h \in LedHandles |-> "none"]

LedCalls(h) ==
  \/ \E n \in Leds : LedOpen(h, n)
  \/ LedQueryMax(h)
  \/ LedGetMaxBrightness(h) \/ LedGetBrightness(h)
  \/ \E b \in Brightnesses : LedSetBrightness(h, b)
  \/ \E v \in BOOLEAN : LedWrite(h, v)
  \/ LedGetTrigger(h) \/ LedGetTriggersCount(h)
  \/ \E i \in Indices : LedGetTriggersEntry(h, i)
  \/ \E t \in TriggerArgs : LedSetTrigger(h, t)
  \/ LedClose(h)

LedNext ==
  \/ \E h \in LedHandles : LedCalls(h)
  \/ \E n \in Leds : LedComesOrGoes(n) \/ OtherWrites(n)

LedSpec == LedInit /\ [][LedNext]_ledVars

-----------------------------------------------------------------------------
(* Properties *)

(* Every variable keeps its type: no brightness is above the maximum of its LED. *)
LedTypeOK ==
  /\ \A n \in Leds : /\ leds[n].there \in BOOLEAN
                     /\ leds[n].brightness \in 0 .. MaxOf[n]
                     /\ leds[n].trigger \in TriggerNames
  /\ led_name \in [LedHandles -> Leds \cup {NoLed}]
  /\ max_brightness \in [LedHandles -> {0} \cup {MaxOf[n] : n \in Leds}]
  /\ max_read \in [LedHandles -> BOOLEAN]
  /\ led_pc \in [LedHandles -> {"idle", "query"}]
  /\ streams \in [LedHandles -> 0 .. MaxStreams]
  /\ led_ret \in [LedHandles -> {"none", "ok", "OPEN", "QUERY", "IO", "ARG"}]

(* docs/led.md: led_write() "where `true` is max brightness".  The code only knows the
   maximum it cached; it is that of the LED the handle names whenever the maximum was
   read since the name was set (max_read), by a led_open() that returned 0, whatever
   other openings before or after it were refused at 'brightness', or by a later
   led_get_max_brightness().  Nothing is said of a handle whose led_open() failed
   half way, with the new name and no new maximum: led_write(TRUE) then sends the
   maximum of the LED before.  The documentation asks for a handle "opened with
   led_open()". *)
TrueIsMax ==
  [][\A h \in LedHandles :
       max_read[h] /\ led_ret'[h] = "ok" /\ LedWrite(h, TRUE)
         => leds'[led_name[h]].brightness = MaxOf[led_name[h]]]_ledVars

(* A call leaves a stream open only when it reports an error. *)
StreamsClosed ==
  [][\A h \in LedHandles : streams'[h] # streams[h] => led_ret'[h] = "QUERY"]_ledVars

(* What is parsed out of the list is the list, in either of its forms: the i-th
   name, the active one, and their number, whichever is bracketed.  The empty
   name stands for the end of the list and, with the number 0, for a failed read. *)
ListRead ==
  [][\A h \in LedHandles : led_ret'[h] = "ok" =>
       /\ \A i \in Indices :
            LedGetTriggersEntry(h, i) /\ led_got'[h].text # <<>>
              => i < Len(Triggers) /\ led_got'[h].text = <<Triggers[i + 1]>>
       /\ LedGetTriggersCount(h) => led_got'[h].count \in {0, Len(Triggers)}
       /\ LedGetTrigger(h) => led_got'[h].text = <<leds[led_name[h]].trigger>>]_ledVars

=============================================================================
