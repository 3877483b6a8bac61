---------------------------- MODULE SerialProofs ----------------------------
(***************************************************************************)
(* Proofs about Serial: for every buffer size, timeout and queue, the      *)
(* bytes, the waiting and the mirror of VMIN of serial_read() are right.   *)
(***************************************************************************)
EXTENDS Serial, TLAPS

Results == {"none", "ok", "ARG", "OPEN", "QUERY", "CONFIGURE", "IO", "EMPTY"}

(* The bounds of the model as facts of arithmetic. *)
LEMMA QueueNat == QueueSize \in Nat /\ QueueSize > 0 /\ 0 \in 0 .. QueueSize
  BY SizeAssumption

(* VMIN and VTIME of a terminal are numbers. *)
LEMMA TermiosVmin ==
  ASSUME NEW s \in Termios
  PROVE  s.vmin \in Nat /\ s.vtime \in Nat
<1>1. s.vmin \in Nat
  BY DEF Termios
<1>2. s.vtime \in Nat
  BY DEF Termios
<1> QED BY <1>1, <1>2

(* VTIME times a number of bytes is a number, and grows with them. *)
LEMMA Times ==
  ASSUME NEW a \in Nat, NEW b \in Nat
  PROVE  /\ a * b \in Nat
         /\ a * (b + 1) = a * b + a
  OBVIOUS

LEMMA TimesGrows ==
  ASSUME NEW a \in Nat, NEW b \in Nat, NEW c \in Nat, b <= c
  PROVE  a * b <= a * c
<1>1. c - b \in Nat /\ c = b + (c - b)
  OBVIOUS
<1>2. a * c = a * b + a * (c - b)
  BY <1>1
<1>3. a * b \in Nat /\ a * (c - b) \in Nat /\ a * c \in Nat
  BY <1>1, Times
<1> QED BY <1>2, <1>3

LEMMA Sums ==
  ASSUME NEW a \in Nat, NEW b \in Nat, NEW c \in Nat, b <= c
  PROVE  0 + a + b <= a + c
  OBVIOUS

LEMMA LeastPositive ==
  ASSUME NEW a \in Nat \ {0}, NEW b \in Nat \ {0}
  PROVE  LeastOf(a, b) - 1 \in Nat
  BY DEF LeastOf

(* Values of the right kinds make settings. *)
LEMMA TermiosRecord ==
  ASSUME NEW b \in Nat, NEW d \in DataBits, NEW p \in Parities, NEW n \in StopBits,
         NEW x \in BOOLEAN, NEW r \in BOOLEAN, NEW i \in BOOLEAN, NEW j \in BOOLEAN,
         NEW m \in Nat, NEW t \in Nat
  PROVE  [baud |-> b, databits |-> d, parity |-> p, stopbits |-> n, xonxoff |-> x,
          rtscts |-> r, inpck |-> i, istrip |-> j, vmin |-> m, vtime |-> t] \in Termios
  BY DEF Termios

(* A setting that is changed is a setting, and VMIN stays what it was. *)
LEMMA BaudChange ==
  ASSUME NEW s \in Termios, NEW b \in BaudArgs
  PROVE  LET t == [s EXCEPT !.baud = Speed(@, b)] IN t \in Termios /\ t.vmin = s.vmin
<1>1. s.baud \in Nat
  BY DEF Termios
<1>2. Speed(s.baud, b) \in Nat
  BY <1>1, ArgAssumption DEF Speed
<1>3. \A x \in Nat : [s EXCEPT !.baud = x] \in Termios
  BY DEF Termios
<1>4. \A x \in Nat : [s EXCEPT !.baud = x].vmin = s.vmin
  BY DEF Termios
<1> QED BY <1>2, <1>3, <1>4

LEMMA DatabitsChange ==
  ASSUME NEW s \in Termios, NEW n \in DataBits
  PROVE  LET t == [s EXCEPT !.databits = n] IN t \in Termios /\ t.vmin = s.vmin
<1>1. [s EXCEPT !.databits = n] \in Termios
  BY DEF Termios
<1>2. [s EXCEPT !.databits = n].vmin = s.vmin
  BY DEF Termios
<1> QED BY <1>1, <1>2

LEMMA ParityChange ==
  ASSUME NEW s \in Termios, NEW p \in Parities
  PROVE  LET t == [s EXCEPT !.parity = p, !.inpck = p # "none", !.istrip = p # "none"]
         IN  t \in Termios /\ t.vmin = s.vmin
<1> DEFINE i == p # "none"
           u == [s EXCEPT !.parity = p]
           v == [u EXCEPT !.inpck = i]
           w == [v EXCEPT !.istrip = i]
<1>1. u \in Termios
  BY DEF Termios
<1>2. u.vmin = s.vmin
  BY DEF Termios
<1>3. i \in BOOLEAN
  OBVIOUS
<1> HIDE DEF i, u
<1>4. v \in Termios
  BY <1>1, <1>3 DEF Termios
<1>5. v.vmin = u.vmin
  BY <1>1 DEF Termios
<1> HIDE DEF v
<1>6. w \in Termios
  BY <1>3, <1>4 DEF Termios
<1>7. w.vmin = v.vmin
  BY <1>4 DEF Termios
<1> HIDE DEF w
<1>8. w = [s EXCEPT !.parity = p, !.inpck = p # "none", !.istrip = p # "none"]
  BY DEF i, u, v, w
<1> QED BY <1>2, <1>5, <1>6, <1>7, <1>8

LEMMA StopbitsChange ==
  ASSUME NEW s \in Termios, NEW n \in StopBits
  PROVE  LET t == [s EXCEPT !.stopbits = n] IN t \in Termios /\ t.vmin = s.vmin
<1>1. [s EXCEPT !.stopbits = n] \in Termios
  BY DEF Termios
<1>2. [s EXCEPT !.stopbits = n].vmin = s.vmin
  BY DEF Termios
<1> QED BY <1>1, <1>2

LEMMA XonxoffChange ==
  ASSUME NEW s \in Termios, NEW e \in BOOLEAN
  PROVE  LET t == [s EXCEPT !.xonxoff = e] IN t \in Termios /\ t.vmin = s.vmin
<1>1. [s EXCEPT !.xonxoff = e] \in Termios
  BY DEF Termios
<1>2. [s EXCEPT !.xonxoff = e].vmin = s.vmin
  BY DEF Termios
<1> QED BY <1>1, <1>2

LEMMA RtsctsChange ==
  ASSUME NEW s \in Termios, NEW e \in BOOLEAN
  PROVE  LET t == [s EXCEPT !.rtscts = e] IN t \in Termios /\ t.vmin = s.vmin
<1>1. [s EXCEPT !.rtscts = e] \in Termios
  BY DEF Termios
<1>2. [s EXCEPT !.rtscts = e].vmin = s.vmin
  BY DEF Termios
<1> QED BY <1>1, <1>2

LEMMA VtimeChange ==
  ASSUME NEW s \in Termios, NEW t \in 0 .. 255
  PROVE  LET u == [s EXCEPT !.vtime = t] IN u \in Termios /\ u.vmin = s.vmin
<1>0. t \in Nat
  OBVIOUS
<1>1. [s EXCEPT !.vtime = t] \in Termios
  BY <1>0 DEF Termios
<1>2. [s EXCEPT !.vtime = t].vmin = s.vmin
  BY DEF Termios
<1> QED BY <1>1, <1>2

LEMMA VminChange ==
  ASSUME NEW s \in Termios, NEW n \in Nat
  PROVE  LET t == [s EXCEPT !.vmin = n] IN t \in Termios /\ t.vmin = n
<1>1. [s EXCEPT !.vmin = n] \in Termios
  BY DEF Termios
<1>2. [s EXCEPT !.vmin = n].vmin = n
  BY DEF Termios
<1> QED BY <1>1, <1>2

LEMMA InitInv == Init => IInv
<1> SUFFICES ASSUME Init PROVE IInv
  OBVIOUS
<1>1. tty \in Termios
  <2>1. 9600 \in Nat /\ 8 \in DataBits /\ "none" \in Parities /\ 1 \in StopBits
    BY DEF DataBits, Parities, StopBits
  <2> DEFINE m == 1
             z == 0
             off == FALSE
  <2>2. m \in Nat /\ z \in Nat /\ off \in BOOLEAN
    OBVIOUS
  <2> HIDE DEF m, z, off
  <2>3. [baud |-> 9600, databits |-> 8, parity |-> "none", stopbits |-> 1,
         xonxoff |-> off, rtscts |-> off, inpck |-> off, istrip |-> off,
         vmin |-> m, vtime |-> z] \in Termios
    BY <2>1, <2>2, TermiosRecord
  <2> QED BY <2>3 DEF Init, m, z, off
<1>2. /\ present = TRUE /\ waiting = 0 /\ owed = 0 /\ fd = "none"
      /\ use_termios_timeout = FALSE /\ pc = "idle" /\ len = 0 /\ timeout = 0
      /\ bytes_read = 0 /\ left = 0 /\ quiet = 0 /\ waited = 0 /\ ret = "none"
  BY DEF Init
<1>3. TypeOK
  BY ONLY <1>1, <1>2, QueueNat DEF TypeOK
<1> QED BY ONLY <1>2, <1>3 DEF IInv, CallOK, BytesAccounted, TimeoutKnown,
                               EmptyMeansUnplugged

(* What is left of a read in progress depends on the call and the terminal. *)
LEMMA CallKept ==
  ASSUME UNCHANGED <<present, tty, waiting, fd, use_termios_timeout, call>>
  PROVE  /\ SelectLeft' = SelectLeft /\ ReadLeft' = ReadLeft
         /\ CallOK => CallOK'
<1>1. /\ UNCHANGED <<present, tty, waiting, fd, use_termios_timeout, pc, len, timeout,
                    bytes_read, left, quiet, waited>>
  BY DEF call
<1>2. /\ InterByte' = InterByte /\ SelectLeft' = SelectLeft /\ ReadLeft' = ReadLeft
  BY <1>1 DEF InterByte, SelectLeft, ReadLeft, Needed
<1> QED BY <1>1, <1>2 DEF CallOK

(* A call that ends at once and leaves everything alone. *)
LEMMA ReturnOnlyStep ==
  ASSUME IInv, NEW r \in Results \ {"EMPTY"}, ReturnOnly(r)
  PROVE  IInv'
<1>1. /\ ret' = r /\ r \in Results /\ r # "EMPTY"
      /\ UNCHANGED <<present, tty, waiting, fd, use_termios_timeout, owed, call>>
  BY DEF ReturnOnly, Return
<1>2. CallOK'
  BY <1>1, CallKept DEF IInv
<1>3. TypeOK'
  BY <1>1 DEF IInv, TypeOK, call, Results
<1> QED BY <1>1, <1>2, <1>3
        DEF IInv, BytesAccounted, TimeoutKnown, EmptyMeansUnplugged, call

(* A setter of anything but VMIN. *)
LEMMA SetterStep ==
  ASSUME IInv, NEW valid, NEW new, Setter(valid, new),
         valid => new \in Termios /\ new.vmin = tty.vmin
  PROVE  IInv'
<1>1. CASE \E r \in {"ARG", "QUERY", "CONFIGURE"} : ReturnOnly(r)
  BY <1>1, ReturnOnlyStep DEF Results
<1>2. CASE /\ valid /\ pc = "idle" /\ present /\ tty' = new /\ Return("ok")
           /\ UNCHANGED <<present, waiting, fd, use_termios_timeout, owed>>
  <2>1. tty' \in Termios /\ tty'.vmin = tty.vmin
    BY <1>2
  <2> QED BY <1>2, <2>1
          DEF IInv, TypeOK, CallOK, BytesAccounted, TimeoutKnown, EmptyMeansUnplugged, Return, call
<1> QED BY <1>1, <1>2 DEF Setter, Change, Opened

(* serial_open(), serial_close() and the setters. *)
LEMMA ConfigureStep ==
  ASSUME IInv, Configure
  PROVE  IInv'
<1>0. tty \in Termios
  BY DEF IInv, TypeOK
<1>1. ASSUME NEW b \in BaudArgs, NEW d \in DataBitsArgs, NEW p \in ParityArgs,
             NEW s \in StopBitsArgs, NEW x \in FlowArgs, NEW r \in FlowArgs,
             Open(b, d, p, s, x, r)
      PROVE  IInv'
  <2>1. CASE ReturnOnly("ARG")
    BY <2>1, ReturnOnlyStep DEF Results
  <2>2. CASE /\ fd = "none" /\ \E e \in {"OPEN", "CONFIGURE"} : Return(e)
             /\ use_termios_timeout' = FALSE /\ UNCHANGED <<present, tty, waiting, fd, owed>>
    <3>1. /\ ret' \in {"OPEN", "CONFIGURE"} /\ fd = "none" /\ use_termios_timeout' = FALSE
          /\ UNCHANGED <<present, tty, waiting, fd, owed, pc, len, timeout, bytes_read, left, quiet, waited>>
      BY <2>2 DEF Return, call
    <3>2. TypeOK'
      BY ONLY IInv, <3>1 DEF IInv, TypeOK
    <3>3. CallOK'
      BY ONLY IInv, <3>1 DEF IInv, CallOK
    <3> QED BY ONLY IInv, <3>1, <3>2, <3>3
            DEF IInv, BytesAccounted, TimeoutKnown, EmptyMeansUnplugged
  <2>3. CASE /\ d \in DataBits /\ p \in Parities /\ s \in StopBits
             /\ pc = "idle" /\ fd' = "open"
             /\ tty' = [baud |-> Speed(0, b), databits |-> d, parity |-> p, stopbits |-> s,
                        xonxoff |-> x, rtscts |-> r, inpck |-> p # "none",
                        istrip |-> p # "none" /\ d # 8, vmin |-> 0, vtime |-> 0]
             /\ use_termios_timeout' = FALSE /\ waiting' = 0 /\ owed' = 0
             /\ Return("ok") /\ UNCHANGED present
    <3> DEFINE i == p # "none"
               j == p # "none" /\ d # 8
    <3>1. Speed(0, b) \in Nat /\ x \in BOOLEAN /\ r \in BOOLEAN
      BY ArgAssumption DEF Speed
    <3>2. i \in BOOLEAN /\ j \in BOOLEAN
      OBVIOUS
    <3>3. tty' = [baud |-> Speed(0, b), databits |-> d, parity |-> p, stopbits |-> s,
                  xonxoff |-> x, rtscts |-> r, inpck |-> i, istrip |-> j,
                  vmin |-> 0, vtime |-> 0]
      BY <2>3
    <3> HIDE DEF i, j
    <3>4. tty' \in Termios /\ tty'.vmin = 0
      <4>1. d \in DataBits /\ p \in Parities /\ s \in StopBits
        BY <2>3
      <4>2. tty' \in Termios
        BY <3>1, <3>2, <3>3, <4>1, TermiosRecord
      <4> QED BY ONLY <3>3, <4>2
    <3>6. pc' = "idle" /\ bytes_read = 0 /\ bytes_read' = 0 /\ ret' = "ok" /\ fd' = "open"
          /\ use_termios_timeout' = FALSE /\ waiting' = 0 /\ owed' = 0
          /\ UNCHANGED <<present, call>>
      BY <2>3 DEF IInv, CallOK, Return, call
    <3>7. TypeOK'
      BY ONLY IInv, <3>4, <3>6, QueueNat DEF IInv, TypeOK, call
    <3>8. CallOK'
      BY ONLY IInv, <3>6 DEF IInv, CallOK, call
    <3> QED BY ONLY <3>4, <3>6, <3>7, <3>8
            DEF IInv, BytesAccounted, TimeoutKnown, EmptyMeansUnplugged
  <2> QED BY <1>1, <2>1, <2>2, <2>3 DEF Open
<1>2. ASSUME NEW b \in BaudArgs, SetBaudrate(b) PROVE IInv'
  BY <1>0, <1>2, BaudChange, SetterStep DEF SetBaudrate
<1>3. ASSUME NEW n, SetDatabits(n) PROVE IInv'
  BY <1>0, <1>3, DatabitsChange, SetterStep DEF SetDatabits
<1>4. ASSUME NEW p, SetParity(p) PROVE IInv'
  BY <1>0, <1>4, ParityChange, SetterStep DEF SetParity
<1>5. ASSUME NEW n, SetStopbits(n) PROVE IInv'
  BY <1>0, <1>5, StopbitsChange, SetterStep DEF SetStopbits
<1>6. ASSUME NEW e \in FlowArgs, SetXonxoff(e) \/ SetRtscts(e) PROVE IInv'
  <2>1. e \in BOOLEAN
    BY ArgAssumption
  <2>2. CASE SetXonxoff(e)
    BY <1>0, <2>1, <2>2, XonxoffChange, SetterStep DEF SetXonxoff
  <2>3. CASE SetRtscts(e)
    BY <1>0, <2>1, <2>3, RtsctsChange, SetterStep DEF SetRtscts
  <2> QED BY <1>6, <2>2, <2>3
<1>7. ASSUME NEW t, SetVtime(t) PROVE IInv'
  BY <1>0, <1>7, VtimeChange, SetterStep DEF SetVtime
<1>8. ASSUME NEW n \in VminArgs, SetVmin(n) PROVE IInv'
  <2>1. CASE \E r \in {"ARG", "QUERY", "CONFIGURE"} : ReturnOnly(r)
    BY <2>1, ReturnOnlyStep DEF Results
  <2>2. CASE /\ pc = "idle" /\ tty' = [tty EXCEPT !.vmin = n]
             /\ use_termios_timeout' = (n > 0) /\ Return("ok")
             /\ UNCHANGED <<present, waiting, fd, owed>>
    <3>1. n \in Nat /\ tty' \in Termios /\ tty'.vmin = n
      BY <1>0, <2>2, VminChange, ArgAssumption
    <3>2. use_termios_timeout' \in BOOLEAN
      BY <2>2
    <3>3. use_termios_timeout' <=> tty'.vmin > 0
      BY <2>2, <3>1
    <3>4. /\ pc = "idle" /\ ret' = "ok"
          /\ UNCHANGED <<present, waiting, fd, owed, pc, len, timeout, bytes_read, left, quiet, waited>>
      BY <2>2 DEF Return, call
    <3>5. TypeOK'
      BY ONLY IInv, <3>1, <3>2, <3>4 DEF IInv, TypeOK
    <3>6. CallOK'
      BY ONLY IInv, <3>4 DEF IInv, CallOK
    <3> QED BY ONLY IInv, <3>3, <3>4, <3>5, <3>6
            DEF IInv, BytesAccounted, TimeoutKnown, EmptyMeansUnplugged
  <2> QED BY <1>8, <2>1, <2>2 DEF SetVmin, Opened
<1>9. ASSUME Other PROVE IInv'
  BY <1>9, ReturnOnlyStep DEF Other, Results
<1>10. ASSUME Close PROVE IInv'
  <2>1. CASE ReturnOnly("ok")
    BY <2>1, ReturnOnlyStep DEF Results
  <2>2. CASE /\ pc = "idle" /\ fd' = "none" /\ waiting' = 0 /\ owed' = 0 /\ Return("ok")
             /\ UNCHANGED <<present, tty, use_termios_timeout>>
    <3>1. /\ pc = "idle" /\ fd' = "none" /\ waiting' = 0 /\ owed' = 0 /\ ret' = "ok"
          /\ UNCHANGED <<present, tty, use_termios_timeout, pc, len, timeout, bytes_read, left, quiet, waited>>
      BY <2>2 DEF Return, call
    <3>2. TypeOK'
      BY ONLY IInv, <3>1, QueueNat DEF IInv, TypeOK
    <3>3. CallOK' /\ bytes_read' = 0
      BY ONLY IInv, <3>1 DEF IInv, CallOK
    <3> QED BY ONLY IInv, <3>1, <3>2, <3>3
            DEF IInv, BytesAccounted, TimeoutKnown, EmptyMeansUnplugged
  <2> QED BY <1>10, <2>1, <2>2 DEF Close
<1> QED BY <1>1, <1>2, <1>3, <1>4, <1>5, <1>6, <1>7, <1>8, <1>9, <1>10 DEF Configure

(* With no byte in the buffer, the bytes owed are the ones that wait. *)
LEMMA AllReturned ==
  ASSUME NEW o \in Nat, NEW w, NEW b, o = w, b = 0
  PROVE  o = w + b
  OBVIOUS

(* The end of a read: it returns what it has, or gives it up with an error, or
   finds the port gone. *)
LEMMA ReadReturnsStep ==
  ASSUME IInv, NEW r \in {"ok", "IO", "EMPTY"}, NEW n \in Nat, ReadReturns(r, n),
         waiting' \in 0 .. QueueSize, owed - n = waiting',
         r = "EMPTY" => ~present,
         UNCHANGED <<present, tty, fd, use_termios_timeout>>
  PROVE  IInv'
<1>0. owed' = waiting' /\ owed' \in Nat
  BY SizeAssumption DEF ReadReturns
<1>1. TypeOK'
  BY <1>0 DEF IInv, TypeOK, ReadReturns
<1>2. CallOK'
  BY TimeoutAssumption DEF CallOK, ReadReturns
<1>3. BytesAccounted'
  <2>1. bytes_read' = 0
    BY DEF ReadReturns
  <2> QED BY ONLY <1>0, <2>1, AllReturned DEF BytesAccounted
<1>4. TimeoutKnown'
  BY DEF IInv, TimeoutKnown
<1>5. EmptyMeansUnplugged'
  BY DEF EmptyMeansUnplugged, ReadReturns
<1> QED BY <1>1, <1>2, <1>3, <1>4, <1>5 DEF IInv

-----------------------------------------------------------------------------
(* What is left of a read *)

(* A call in progress, in numbers. *)
LEMMA CallFacts ==
  ASSUME IInv, pc # "idle"
  PROVE  /\ pc \in {"select", "read"} /\ fd # "none"
         /\ len \in Nat /\ bytes_read \in Nat /\ bytes_read < len
         /\ waiting \in 0 .. QueueSize /\ QueueSize \in Nat /\ quiet \in Nat /\ waited \in Nat
         /\ tty.vmin \in Nat /\ tty.vtime \in Nat
         /\ (timeout = Forever \/ timeout \in Nat) /\ (timeout # Forever => left \in Nat)
         /\ tty.vmin > 0 => bytes_read = 0 /\ use_termios_timeout
         /\ SelectLeft \in Nat
<1>1. tty.vmin \in Nat /\ tty.vtime \in Nat
  BY TermiosVmin DEF IInv, TypeOK
<1>2. /\ pc \in {"select", "read"} /\ fd # "none"
      /\ len \in Nat /\ bytes_read \in Nat /\ bytes_read < len
      /\ waiting \in 0 .. QueueSize /\ QueueSize \in Nat /\ quiet \in Nat /\ waited \in Nat
      /\ (timeout = Forever \/ timeout \in Nat) /\ (timeout # Forever => left \in Nat)
  BY SizeAssumption DEF IInv, TypeOK, CallOK
<1>3. tty.vmin > 0 => bytes_read = 0 /\ use_termios_timeout
  BY <1>2 DEF IInv, CallOK, TimeoutKnown
<1> QED BY <1>1, <1>2, <1>3 DEF SelectLeft

(* The first byte of VMIN is there when read() begins, and VTIME is over at most once
   for each of the others. *)
LEMMA InterByteNat ==
  ASSUME IInv, pc # "idle"
  PROVE  InterByte \in Nat
<1>1. CASE tty.vmin = 0
  BY <1>1 DEF InterByte
<1>2. CASE tty.vmin # 0
  <2>1. LeastOf(tty.vmin, len) - 1 \in Nat /\ tty.vtime \in Nat
    BY <1>2, CallFacts DEF LeastOf
  <2> HIDE DEF LeastOf
  <2> QED BY <1>2, <2>1, Times DEF InterByte
<1> QED BY <1>1, <1>2

(* A read() that waits lacks a byte, and has VTIME to wait for it. *)
LEMMA Waiting ==
  ASSUME IInv, pc = "read", present, waiting < Needed
  PROVE  /\ tty.vmin > 0 /\ bytes_read = 0 /\ waiting >= 1
         /\ Needed = LeastOf(tty.vmin, len) /\ Needed - waiting \in Nat \ {0}
         /\ tty.vtime <= tty.vtime * (Needed - waiting)
         /\ tty.vtime * (Needed - waiting) \in Nat
         /\ quiet <= tty.vtime
<1>1. waiting >= 1 /\ quiet <= tty.vtime
  BY DEF IInv, CallOK
<1>2. tty.vmin > 0
  BY <1>1, CallFacts DEF Needed, LeastOf
<1>3. bytes_read = 0 /\ Needed = LeastOf(tty.vmin, len)
  BY <1>2, CallFacts DEF Needed, LeastOf
<1>4. Needed - waiting \in Nat \ {0}
  BY <1>1, <1>3, CallFacts DEF LeastOf
<1>5. tty.vtime * 1 <= tty.vtime * (Needed - waiting) /\ tty.vtime * (Needed - waiting) \in Nat
  BY <1>4, CallFacts, Times, TimesGrows
<1> QED BY <1>1, <1>2, <1>3, <1>4, <1>5, CallFacts

LEMMA ReadLeftNat ==
  ASSUME IInv, pc # "idle"
  PROVE  ReadLeft \in Nat
<1>1. CASE ~present \/ tty.vmin = 0 \/ (pc = "read" /\ waiting >= Needed)
  BY <1>1 DEF ReadLeft
<1>2. CASE pc = "select"
  BY <1>2, InterByteNat DEF ReadLeft
<1>3. CASE present /\ tty.vmin # 0 /\ pc = "read" /\ ~(waiting >= Needed)
  <2>1. waiting < Needed
    BY <1>3, CallFacts DEF Needed, LeastOf
  <2>2. ReadLeft = tty.vtime * (Needed - waiting) - quiet
    BY <1>3 DEF ReadLeft
  <2> QED BY <1>3, <2>1, <2>2, Waiting, CallFacts
<1> QED BY <1>1, <1>2, <1>3, CallFacts

(* The ticks a call has waited and may still wait stay within its promise. *)
Budget ==
  waited + SelectLeft + ReadLeft <= (IF timeout = Forever THEN 0 ELSE timeout) + InterByte

LEMMA InBudget ==
  ASSUME IInv
  PROVE  (pc # "idle" => Budget) /\ WaitBounded
<1>1. pc # "idle" => Budget
  BY DEF IInv, CallOK, Budget
<1>2. ASSUME pc # "idle", timeout # Forever PROVE waited <= timeout + InterByte
  BY <1>1, <1>2, CallFacts, InterByteNat, ReadLeftNat DEF Budget
<1> QED BY <1>1, <1>2 DEF WaitBounded

(* A step of the call that waits no longer than what was left keeps it there. *)
LEMMA BudgetKept ==
  ASSUME IInv, pc # "idle", UNCHANGED <<tty, len, timeout>>,
         waited' \in Nat, SelectLeft' \in Nat, ReadLeft' \in Nat,
         waited' + SelectLeft' + ReadLeft' <= waited + SelectLeft + ReadLeft
  PROVE  Budget'
<1>1. InterByte' = InterByte
  BY DEF InterByte
<1> HIDE DEF InterByte, SelectLeft, ReadLeft
<1> QED BY <1>1, InBudget, CallFacts, InterByteNat, ReadLeftNat DEF Budget

(* select() has seen a byte: the others remain. *)
LEMMA SelectReadyLeaves ==
  ASSUME IInv, SelectReady
  PROVE  ReadLeft' \in Nat /\ ReadLeft' <= ReadLeft /\ (present => waiting >= 1)
<1>1. /\ pc = "select" /\ pc' = "read" /\ quiet = 0
      /\ UNCHANGED <<present, tty, waiting, len, bytes_read, quiet>>
  BY DEF SelectReady, IInv, CallOK
<1>2. present => waiting >= 1
  BY <1>1, CallFacts DEF SelectReady, Readable
<1>3. CASE ~present \/ tty.vmin = 0 \/ waiting >= Needed
  <2>1. ReadLeft' = 0
    BY <1>1, <1>3 DEF ReadLeft, Needed
  <2> QED BY <1>1, <1>2, <2>1, ReadLeftNat
<1>4. CASE present /\ tty.vmin # 0 /\ ~(waiting >= Needed)
  <2>1. /\ Needed = LeastOf(tty.vmin, len) /\ Needed \in Nat /\ waiting \in Nat
        /\ waiting >= 1 /\ waiting < Needed
    BY <1>1, <1>2, <1>4, CallFacts DEF Needed, LeastOf
  <2>2. ReadLeft' = tty.vtime * (Needed - waiting) - quiet
    BY <1>1, <1>4 DEF ReadLeft, Needed
  <2>3. ReadLeft = tty.vtime * (Needed - 1)
    BY <1>1, <1>4, <2>1 DEF ReadLeft, InterByte
  <2> HIDE DEF ReadLeft
  <2>4. tty.vtime * (Needed - waiting) \in Nat /\ tty.vtime * (Needed - waiting) <= tty.vtime * (Needed - 1)
    BY <1>1, <2>1, CallFacts, Times, TimesGrows
  <2> QED BY <1>1, <1>2, <2>1, <2>2, <2>3, <2>4
<1> QED BY <1>3, <1>4

(* A tick in read() is one of those that were left. *)
LEMMA ReadTickTakes ==
  ASSUME IInv, ReadTick
  PROVE  ReadLeft' \in Nat /\ ReadLeft' = ReadLeft - 1 /\ quiet' <= tty.vtime
<1>1. /\ pc = "read" /\ present /\ quiet < tty.vtime /\ quiet' = quiet + 1
      /\ UNCHANGED <<present, tty, waiting, pc, len, bytes_read>>
  BY DEF ReadTick, ReadWaits, ReadCompletes
<1>2. waiting < Needed
  BY <1>1, CallFacts DEF ReadTick, ReadWaits, ReadCompletes, Needed, LeastOf
<1>3. /\ tty.vmin # 0 /\ ~(waiting >= Needed)
      /\ tty.vtime <= tty.vtime * (Needed - waiting)
      /\ tty.vtime * (Needed - waiting) \in Nat
  <2>1. /\ tty.vmin > 0 /\ Needed - waiting \in Nat \ {0}
        /\ tty.vtime <= tty.vtime * (Needed - waiting)
        /\ tty.vtime * (Needed - waiting) \in Nat
    BY <1>1, <1>2, Waiting
  <2>2. tty.vmin \in Nat /\ waiting \in Nat /\ Needed \in Nat
    BY <1>1, CallFacts DEF Needed, LeastOf
  <2> QED BY <1>2, <2>1, <2>2
<1>4. ReadLeft = tty.vtime * (Needed - waiting) - quiet
  BY <1>1, <1>3 DEF ReadLeft
<1>5. ReadLeft' = tty.vtime * (Needed - waiting) - quiet'
  BY <1>1, <1>3 DEF ReadLeft, Needed
<1> HIDE DEF ReadLeft
<1> QED BY <1>1, <1>3, <1>4, <1>5, CallFacts

(* A byte leaves a call less to wait for, although VTIME starts afresh. *)
LEMMA ReceiveLeaves ==
  ASSUME IInv, pc # "idle", Receive
  PROVE  ReadLeft' \in Nat /\ ReadLeft' <= ReadLeft
<1>1. /\ waiting' = waiting + 1 /\ quiet' = 0 /\ present /\ present'
      /\ UNCHANGED <<tty, pc, len, bytes_read>>
  BY DEF Receive
<1>2. Needed' = Needed /\ InterByte' = InterByte /\ Needed \in Nat
  BY <1>1, CallFacts DEF Needed, InterByte, LeastOf
<1>3. CASE pc = "select" \/ tty.vmin = 0
  <2>1. ReadLeft' = ReadLeft
    BY <1>1, <1>2, <1>3 DEF ReadLeft
  <2> QED BY <2>1, ReadLeftNat
<1>4. CASE pc = "read" /\ waiting + 1 >= Needed
  <2>1. ReadLeft' = 0
    BY <1>1, <1>2, <1>4 DEF ReadLeft
  <2> QED BY <2>1, ReadLeftNat
<1>5. CASE pc = "read" /\ waiting + 1 < Needed /\ tty.vmin # 0
  <2>1. /\ waiting \in Nat /\ waiting < Needed /\ ~(waiting >= Needed) /\ ~(waiting + 1 >= Needed)
        /\ Needed - (waiting + 1) \in Nat
    BY <1>2, <1>5, CallFacts
  <2>2. ReadLeft = tty.vtime * (Needed - waiting) - quiet
    BY <1>1, <1>5, <2>1 DEF ReadLeft
  <2>3. ReadLeft' = tty.vtime * (Needed - (waiting + 1)) - 0
    BY <1>1, <1>2, <1>5, <2>1 DEF ReadLeft
  <2> HIDE DEF ReadLeft
  <2>4. /\ tty.vtime * (Needed - (waiting + 1)) \in Nat
        /\ tty.vtime * (Needed - waiting) = tty.vtime * (Needed - (waiting + 1)) + tty.vtime
    <3>1. Needed - waiting = (Needed - (waiting + 1)) + 1
      BY <1>2, <2>1
    <3> QED BY <2>1, <3>1, CallFacts, Times
  <2>5. quiet <= tty.vtime /\ quiet \in Nat /\ tty.vtime \in Nat
    BY <1>1, <1>5, <2>1, Waiting, CallFacts
  <2> QED BY <2>2, <2>3, <2>4, <2>5
<1> QED BY <1>2, <1>3, <1>4, <1>5, CallFacts

(* With VMIN 0, and on a port that has gone, read() does not wait. *)
LEMMA NoReadLeft ==
  ASSUME ~present \/ tty.vmin = 0
  PROVE  ReadLeft = 0
  BY DEF ReadLeft

-----------------------------------------------------------------------------
(* serial_read() *)

(* read() gives what it has. *)
LEMMA ReadGivesStep ==
  ASSUME IInv, pc = "read", ReadGives
  PROVE  IInv'
<1> DEFINE n == LeastOf(waiting, len - bytes_read)
<1>0. /\ waiting \in 0 .. QueueSize /\ bytes_read \in Nat /\ owed = waiting + bytes_read
      /\ owed - bytes_read = waiting /\ QueueSize \in Nat /\ owed \in Nat
  BY SizeAssumption DEF IInv, TypeOK, BytesAccounted
<1>1. /\ len \in Nat /\ bytes_read < len /\ waiting' = waiting - n
      /\ (present => waiting >= 1) /\ (use_termios_timeout => bytes_read = 0)
      /\ UNCHANGED <<present, tty, fd, use_termios_timeout>>
  BY DEF ReadGives, IInv, CallOK, TypeOK
<1>2. /\ n \in Nat /\ n <= waiting /\ n <= len - bytes_read /\ (n = 0 => waiting = 0)
      /\ waiting' \in 0 .. QueueSize
  BY <1>0, <1>1 DEF LeastOf
<1>3. CASE use_termios_timeout /\ ReadReturns("ok", n)
  <2>1. owed - n = waiting'
    BY <1>0, <1>1, <1>2, <1>3
  <2> QED BY <1>1, <1>2, <1>3, <2>1, ReadReturnsStep
<1>4. CASE GotEmpty(n)
  <2>1. n = 0 /\ ~present /\ ReadReturns("EMPTY", bytes_read) /\ owed - bytes_read = waiting'
    BY <1>0, <1>1, <1>2, <1>4 DEF GotEmpty
  <2> QED BY <1>0, <1>1, <1>2, <2>1, ReadReturnsStep
<1>5. CASE bytes_read + n < len /\ n > 0 /\ ~use_termios_timeout /\ SelectAgain(n)
  <2>1. /\ pc' = "select" /\ bytes_read' = bytes_read + n /\ quiet' = 0
        /\ UNCHANGED <<len, timeout, left, waited, owed, ret>>
    BY <1>5 DEF SelectAgain
  <2>2. tty.vmin = 0
    BY <1>5, CallFacts
  <2>3. ReadLeft' = 0 /\ SelectLeft' = SelectLeft
    BY <1>1, <2>1, <2>2 DEF ReadLeft, SelectLeft
  <2> HIDE DEF n
  <2>4. Budget'
    BY <1>1, <2>1, <2>3, CallFacts, ReadLeftNat, BudgetKept
  <2>5. CallOK'
    BY <1>1, <1>2, <1>5, <2>1, <2>4 DEF IInv, CallOK, Budget
  <2>6. TypeOK' /\ BytesAccounted'
    BY <1>0, <1>1, <1>2, <2>1 DEF IInv, TypeOK, BytesAccounted
  <2>7. TimeoutKnown' /\ EmptyMeansUnplugged'
    BY <1>1, <2>1 DEF IInv, TimeoutKnown, EmptyMeansUnplugged
  <2> QED BY <2>5, <2>6, <2>7 DEF IInv
<1>6. CASE ReadReturns("ok", bytes_read + n)
  <2>1. bytes_read + n \in Nat /\ owed - (bytes_read + n) = waiting'
    BY <1>0, <1>1, <1>2
  <2> QED BY <1>1, <1>2, <1>6, <2>1, ReadReturnsStep
<1> QED BY <1>3, <1>4, <1>5, <1>6 DEF ReadGives

LEMMA ReadSteps ==
  ASSUME IInv, ReadStep \/ SelectFails \/ ReadFails \/ ReadInterrupted
  PROVE  IInv'
<1>1. CASE SelectFails \/ ReadFails \/ SelectTimesOut
  <2>1. /\ \E r \in {"ok", "IO"} : ReadReturns(r, bytes_read)
        /\ UNCHANGED <<present, tty, waiting, fd, use_termios_timeout>>
    BY <1>1 DEF SelectFails, ReadFails, SelectTimesOut, TimedOut
  <2>2. bytes_read \in Nat /\ waiting \in 0 .. QueueSize /\ owed - bytes_read = waiting
    BY SizeAssumption DEF IInv, TypeOK, BytesAccounted
  <2> QED BY <2>1, <2>2, ReadReturnsStep
<1>2. CASE SelectReady
  <2>1. /\ pc = "select" /\ pc' = "read"
        /\ UNCHANGED <<present, tty, waiting, fd, use_termios_timeout, len, timeout, bytes_read,
                       left, quiet, waited, owed, ret>>
    BY <1>2 DEF SelectReady
  <2>2. SelectLeft' = SelectLeft /\ quiet = 0
    BY <2>1 DEF SelectLeft, IInv, CallOK
  <2>3. Budget'
    BY <1>2, <2>1, <2>2, CallFacts, ReadLeftNat, SelectReadyLeaves, BudgetKept
  <2>4. CallOK'
    BY <1>2, <2>1, <2>2, <2>3, SelectReadyLeaves, CallFacts DEF IInv, CallOK, Budget
  <2>5. TypeOK'
    BY <2>1 DEF IInv, TypeOK
  <2> QED BY <2>1, <2>4, <2>5
          DEF IInv, BytesAccounted, TimeoutKnown, EmptyMeansUnplugged
<1>3. CASE Tick
  <2>1. /\ pc = "select" /\ left \in Nat /\ left > 0 /\ left' = left - 1 /\ waited' = waited + 1
        /\ UNCHANGED <<present, tty, waiting, fd, use_termios_timeout, pc, len, timeout,
                       bytes_read, quiet, owed, ret>>
    BY <1>3 DEF Tick
  <2>2. timeout # Forever /\ left' # Forever /\ left' \in Nat
    BY <2>1, TimeoutAssumption DEF IInv, CallOK
  <2>3. SelectLeft' = SelectLeft - 1 /\ SelectLeft' \in Nat
    BY <2>1, <2>2 DEF SelectLeft
  <2>4. ReadLeft' = ReadLeft
    BY <2>1 DEF ReadLeft, InterByte
  <2>5. Budget'
    BY <2>1, <2>3, <2>4, CallFacts, ReadLeftNat, BudgetKept
  <2>6. CallOK'
    BY <2>1, <2>2, <2>5 DEF IInv, CallOK, Budget
  <2>7. TypeOK'
    BY <2>1, <2>2, CallFacts DEF IInv, TypeOK
  <2> QED BY <2>1, <2>6, <2>7
          DEF IInv, BytesAccounted, TimeoutKnown, EmptyMeansUnplugged
<1>4. CASE ReadTick
  <2>1. /\ pc = "read" /\ quiet' = quiet + 1 /\ waited' = waited + 1
        /\ UNCHANGED <<present, tty, waiting, fd, use_termios_timeout, pc, len, timeout,
                       bytes_read, left, owed, ret>>
    BY <1>4 DEF ReadTick, ReadWaits
  <2>2. SelectLeft' = SelectLeft
    BY <2>1 DEF SelectLeft
  <2>3. Budget'
    BY <1>4, <2>1, <2>2, CallFacts, ReadLeftNat, ReadTickTakes, BudgetKept
  <2>4. CallOK'
    BY <1>4, <2>1, <2>3, ReadTickTakes DEF IInv, CallOK, Budget
  <2>5. TypeOK'
    BY <2>1, CallFacts DEF IInv, TypeOK
  <2> QED BY <2>1, <2>4, <2>5
          DEF IInv, BytesAccounted, TimeoutKnown, EmptyMeansUnplugged
<1>5. CASE ReadBytes \/ ReadInterrupted
  BY <1>5, ReadGivesStep DEF ReadBytes, ReadInterrupted, ReadWaits
<1> QED BY <1>1, <1>2, <1>3, <1>4, <1>5 DEF ReadStep

(* serial_read() begins. *)
LEMMA ReadBegins ==
  ASSUME IInv, NEW n \in Lengths, NEW t \in Timeouts, Read(n, t)
  PROVE  IInv'
<1>0. n \in Nat /\ t \in Nat \cup {Forever} /\ Forever \notin Nat
  BY SizeAssumption, TimeoutAssumption
<1>1. CASE ReturnOnly("ok")
  BY <1>1, ReturnOnlyStep DEF Results
<1>2. CASE /\ n > 0 /\ pc = "idle" /\ fd # "none"
           /\ pc' = "select" /\ len' = n /\ timeout' = t /\ left' = t /\ ret' = "none"
           /\ UNCHANGED <<present, tty, waiting, fd, use_termios_timeout, bytes_read, quiet,
                          waited, owed>>
  <2>1. quiet' = 0 /\ waited' = 0 /\ bytes_read' = 0 /\ pc' = "select"
    BY <1>2 DEF IInv, CallOK
  <2>2. TypeOK'
    BY <1>0, <1>2 DEF IInv, TypeOK
  <2>3. InterByte' \in Nat
    <3>1. tty'.vmin \in Nat /\ tty'.vtime \in Nat /\ len' \in Nat /\ len' > 0
      BY <1>0, <1>2, TermiosVmin DEF IInv, TypeOK
    <3>2. CASE tty'.vmin = 0
      BY <3>2 DEF InterByte
    <3>3. CASE tty'.vmin # 0
      <4>1. LeastOf(tty'.vmin, len') - 1 \in Nat
        BY <3>1, <3>3, LeastPositive
      <4> HIDE DEF LeastOf
      <4>2. tty'.vtime * (LeastOf(tty'.vmin, len') - 1) \in Nat
        BY <3>1, <4>1, Times
      <4> QED BY <3>3, <4>2 DEF InterByte
    <3> QED BY <3>2, <3>3
  <2>4. ReadLeft' \in Nat /\ ReadLeft' <= InterByte'
    <3>1. ReadLeft' = 0 \/ ReadLeft' = InterByte'
      BY <2>1 DEF ReadLeft
    <3> HIDE DEF ReadLeft
    <3> QED BY <2>3, <3>1
  <2>5. SelectLeft' = IF t = Forever THEN 0 ELSE t
    BY <1>2 DEF SelectLeft
  <2>6. Budget'
    <3>1. timeout' = t /\ waited' = 0
      BY <1>2, <2>1
    <3>2. SelectLeft' = (IF timeout' = Forever THEN 0 ELSE timeout') /\ SelectLeft' \in Nat
      BY <1>0, <2>5, <3>1
    <3>3. 0 + SelectLeft' + ReadLeft' <= SelectLeft' + InterByte'
      BY <2>3, <2>4, <3>2, Sums
    <3> QED BY ONLY <3>1, <3>2, <3>3 DEF Budget
  <2>7. CallOK'
    BY <1>0, <1>2, <2>1, <2>6 DEF CallOK, Budget
  <2> QED BY <1>2, <2>2, <2>7
          DEF IInv, BytesAccounted, TimeoutKnown, EmptyMeansUnplugged
<1> QED BY <1>1, <1>2 DEF Read, Opened

(* A byte arrives. *)
LEMMA ReceiveStep ==
  ASSUME IInv, Receive
  PROVE  IInv'
<1>1. /\ waiting \in 0 .. QueueSize /\ waiting < QueueSize /\ QueueSize \in Nat
      /\ waiting' = waiting + 1 /\ owed' = owed + 1 /\ quiet' = 0 /\ present
      /\ UNCHANGED <<present, tty, fd, use_termios_timeout, pc, len, timeout, bytes_read,
                     left, waited, ret>>
  BY SizeAssumption DEF Receive, IInv, TypeOK
<1>2. TypeOK' /\ BytesAccounted'
  BY <1>1 DEF IInv, TypeOK, BytesAccounted
<1>3. TimeoutKnown' /\ EmptyMeansUnplugged'
  BY <1>1 DEF IInv, TimeoutKnown, EmptyMeansUnplugged
<1>4. CASE pc = "idle"
  BY <1>1, <1>2, <1>3, <1>4 DEF IInv, CallOK
<1>5. CASE pc # "idle"
  <2>1. SelectLeft' = SelectLeft
    BY <1>1 DEF SelectLeft
  <2>2. Budget'
    BY <1>1, <1>5, <2>1, CallFacts, ReadLeftNat, ReceiveLeaves, BudgetKept
  <2>3. quiet' <= tty.vtime
    BY <1>1, <1>5, CallFacts
  <2>4. CallOK'
    BY <1>1, <1>5, <2>2, <2>3 DEF IInv, CallOK, Budget
  <2> QED BY <1>2, <1>3, <2>4 DEF IInv
<1> QED BY <1>4, <1>5

(* The device goes. *)
LEMMA UnplugStep ==
  ASSUME IInv, Unplug
  PROVE  IInv'
<1>1. /\ present' = FALSE /\ waiting' \in {0, waiting} /\ owed' = owed - (waiting - waiting')
      /\ UNCHANGED <<tty, fd, use_termios_timeout, pc, len, timeout, bytes_read, left, quiet,
                     waited, ret>>
  BY DEF Unplug, call
<1>2. TypeOK' /\ BytesAccounted'
  <2>1. waiting \in 0 .. QueueSize /\ bytes_read \in Nat /\ owed = waiting + bytes_read
    BY DEF IInv, TypeOK, BytesAccounted
  <2>2. waiting' \in 0 .. QueueSize /\ owed' \in Nat /\ owed' = waiting' + bytes_read
    <3>1. CASE waiting' = waiting
      BY ONLY <1>1, <2>1, <3>1
    <3>2. CASE waiting' = 0
      BY ONLY <1>1, <2>1, <3>2, QueueNat
    <3> QED BY <1>1, <3>1, <3>2
  <2>3. TypeOK'
    BY <1>1, <2>2 DEF IInv, TypeOK
  <2>4. BytesAccounted'
    BY <1>1, <2>2 DEF BytesAccounted
  <2> QED BY <2>3, <2>4
<1>3. TimeoutKnown' /\ EmptyMeansUnplugged'
  BY <1>1 DEF IInv, TimeoutKnown, EmptyMeansUnplugged
<1>4. CASE pc = "idle"
  BY <1>1, <1>2, <1>3, <1>4 DEF IInv, CallOK
<1>5. CASE pc # "idle"
  <2>1. SelectLeft' = SelectLeft /\ ReadLeft' = 0
    BY <1>1 DEF SelectLeft, ReadLeft
  <2>2. Budget'
    BY <1>1, <1>5, <2>1, CallFacts, ReadLeftNat, BudgetKept
  <2>3. CallOK'
    BY <1>1, <1>5, <2>2 DEF IInv, CallOK, Budget
  <2> QED BY <1>2, <1>3, <2>3 DEF IInv
<1> QED BY <1>4, <1>5

LEMMA NextInv == IInv /\ [Next]_vars => IInv'
<1> SUFFICES ASSUME IInv, [Next]_vars PROVE IInv'
  OBVIOUS
<1>1. CASE UNCHANGED vars
  <2>1. CallOK'
    BY <1>1, CallKept DEF vars, call, IInv
  <2>2. TypeOK'
    BY <1>1 DEF vars, IInv, TypeOK
  <2> QED BY <1>1, <2>1, <2>2
          DEF vars, IInv, BytesAccounted, TimeoutKnown, EmptyMeansUnplugged
<1> QED BY <1>1, ConfigureStep, ReadSteps, ReadBegins, ReceiveStep, UnplugStep DEF Next

(* The inductive invariant: what the calls have counted, waited for and cached
   agrees with the terminal, in every reachable state. *)
THEOREM Invariance == Spec => []IInv
  BY InitInv, NextInv, PTL DEF Spec

(* Type correctness: bounded queue, settings of the right kind, codes of serial.h. *)
THEOREM TypeCorrect == Spec => []TypeOK
  BY Invariance, PTL DEF IInv

(* serial_read() neither loses nor duplicates a byte, whatever the buffer sizes. *)
THEOREM NoByteLost == Spec => []BytesAccounted
  BY Invariance, PTL DEF IInv

(* use_termios_timeout mirrors VMIN after any sequence of calls and failures. *)
THEOREM MirrorsVmin == Spec => []TimeoutKnown
  BY Invariance, PTL DEF IInv

(* serial_read() reports an unexpected empty read only for a port that is gone. *)
THEOREM EmptyIsDisconnect == Spec => []EmptyMeansUnplugged
  BY Invariance, PTL DEF IInv

(* serial_read() with a timeout waits no longer than it, but for VTIME after each byte
   of VMIN but the last it waits for: in select() and in read() together, over all turns. *)
THEOREM TimeoutKept == Spec => []WaitBounded
<1>1. IInv => WaitBounded
  BY InBudget
<1> QED BY <1>1, Invariance, PTL

-----------------------------------------------------------------------------
(* How long a read can take *)

(* A bound on the turns the read in progress still makes: for every byte it has room
   for a select() and a read(), the select() that finds nothing more, and the ticks its
   timeout and VTIME leave. *)
TurnsLeft ==
  IF pc = "idle" THEN 0
  ELSE 2 * (len - bytes_read) + SelectLeft + ReadLeft + (IF pc = "select" THEN 1 ELSE 0)

TurnsOK ==
  /\ TurnsLeft = 0 <=> pc = "idle"
  /\ pc # "idle" =>
       TurnsLeft \in 0 .. 2 * len + 1 + (IF timeout = Forever THEN 0 ELSE timeout) + InterByte

(* A step of the read, by itself or by a failure. *)
ReadMoves == ReadStep \/ SelectFails \/ ReadFails \/ ReadInterrupted

(* Every turn of the loop, and every tick a timeout or VTIME counts, brings the read
   nearer to its end; a byte that arrives, although it starts VTIME afresh, an unplugged
   device and everything else take it no further away. *)
ReadShortens ==
  /\ ReadMoves => TurnsLeft' < TurnsLeft
  /\ pc # "idle" /\ ~ReadMoves => TurnsLeft' <= TurnsLeft

ReadEnds == [][ReadShortens]_vars

LEMMA TurnsBounded == IInv => TurnsOK
<1> SUFFICES ASSUME IInv PROVE TurnsOK
  OBVIOUS
<1>1. CASE pc = "idle"
  BY <1>1 DEF TurnsOK, TurnsLeft
<1>2. CASE pc # "idle"
  BY <1>2, CallFacts, ReadLeftNat, InterByteNat, InBudget DEF TurnsOK, TurnsLeft, Budget
<1> QED BY <1>1, <1>2

LEMMA TurnsNat ==
  ASSUME IInv, pc # "idle"
  PROVE  TurnsLeft \in Nat \ {0}
  BY CallFacts, ReadLeftNat DEF TurnsLeft

(* A call that returns has nothing left. *)
LEMMA ReturnShortens ==
  ASSUME IInv, pc # "idle", NEW r, NEW n, ReadReturns(r, n)
  PROVE  TurnsLeft' < TurnsLeft
<1>1. TurnsLeft' = 0
  BY DEF ReadReturns, TurnsLeft
<1> QED BY <1>1, TurnsNat

LEMMA ReadGivesShortens ==
  ASSUME IInv, pc = "read", ReadGives, ReadCompletes \/ waiting >= 1
  PROVE  TurnsLeft' < TurnsLeft
<1> DEFINE n == LeastOf(waiting, len - bytes_read)
<1>1. CASE \E r, k : ReadReturns(r, k)
  BY <1>1, ReturnShortens
<1>2. CASE n > 0 /\ ~use_termios_timeout /\ bytes_read + n < len /\ SelectAgain(n)
  <2>1. n \in Nat /\ n > 0 /\ tty.vmin = 0
    BY <1>2, CallFacts DEF LeastOf
  <2>2. /\ pc' = "select" /\ bytes_read' = bytes_read + n
        /\ UNCHANGED <<present, tty, len, timeout, left>>
    BY <1>2 DEF SelectAgain, ReadGives
  <2>3. SelectLeft' = SelectLeft /\ ReadLeft' = 0 /\ ReadLeft = 0
    BY <2>1, <2>2 DEF SelectLeft, ReadLeft
  <2> HIDE DEF n
  <2> QED BY <1>2, <2>1, <2>2, <2>3, CallFacts DEF TurnsLeft
<1> QED BY <1>1, <1>2 DEF ReadGives, GotEmpty

LEMMA MoveShortens ==
  ASSUME IInv, ReadMoves
  PROVE  pc # "idle" /\ TurnsLeft' < TurnsLeft
<1>0. pc # "idle"
  BY DEF ReadMoves, ReadStep, SelectReady, SelectTimesOut, Tick, ReadTick, ReadWaits, ReadBytes,
         ReadInterrupted, SelectFails, ReadFails
<1>1. CASE SelectTimesOut \/ SelectFails \/ ReadFails
  BY <1>0, <1>1, ReturnShortens DEF SelectTimesOut, TimedOut, SelectFails, ReadFails
<1>2. CASE SelectReady
  <2>1. SelectLeft' = SelectLeft
    BY <1>2 DEF SelectReady, SelectLeft
  <2>2. pc = "select" /\ pc' = "read" /\ len' = len /\ bytes_read' = bytes_read
    BY <1>2 DEF SelectReady
  <2> QED BY <1>0, <1>2, <2>1, <2>2, SelectReadyLeaves, CallFacts, ReadLeftNat DEF TurnsLeft
<1>3. CASE Tick
  <2>1. timeout # Forever
    BY <1>3, TimeoutAssumption DEF Tick, IInv, CallOK
  <2>2. /\ SelectLeft' = SelectLeft - 1 /\ ReadLeft' = ReadLeft
        /\ UNCHANGED <<pc, len, bytes_read>>
    BY <1>3, <2>1 DEF Tick, SelectLeft, ReadLeft, InterByte
  <2> QED BY <1>0, <2>2, CallFacts, ReadLeftNat DEF TurnsLeft
<1>4. CASE ReadTick
  <2>1. SelectLeft' = SelectLeft /\ UNCHANGED <<pc, len, bytes_read>>
    BY <1>4 DEF ReadTick, SelectLeft
  <2> QED BY <1>0, <1>4, <2>1, ReadTickTakes, CallFacts, ReadLeftNat DEF TurnsLeft
<1>5. CASE ReadBytes \/ ReadInterrupted
  BY <1>5, ReadGivesShortens DEF ReadBytes, ReadInterrupted, ReadWaits
<1> QED BY <1>0, <1>1, <1>2, <1>3, <1>4, <1>5 DEF ReadMoves, ReadStep

LEMMA OthersLeaveRead ==
  ASSUME IInv, [Next]_vars, pc # "idle", ~ReadMoves
  PROVE  TurnsLeft' <= TurnsLeft
<1>1. CASE Receive
  <2>1. SelectLeft' = SelectLeft /\ UNCHANGED <<pc, len, bytes_read>>
    BY <1>1 DEF Receive, SelectLeft
  <2> QED BY <1>1, <2>1, ReceiveLeaves, CallFacts, ReadLeftNat DEF TurnsLeft
<1>2. CASE Unplug
  <2>1. SelectLeft' = SelectLeft /\ UNCHANGED <<pc, len, bytes_read>> /\ ReadLeft' = 0
    BY <1>2 DEF Unplug, call, SelectLeft, ReadLeft
  <2> QED BY <2>1, CallFacts, ReadLeftNat DEF TurnsLeft
<1>3. CASE UNCHANGED vars
  <2>1. TurnsLeft' = TurnsLeft
    BY <1>3, CallKept DEF vars, call, TurnsLeft
  <2> QED BY <2>1, TurnsNat
<1>4. ~Configure
  BY DEF Configure, Open, SetBaudrate, SetDatabits, SetParity, SetStopbits, SetXonxoff,
         SetRtscts, SetVmin, SetVtime, Other, Close, Setter, Opened
<1>5. ~\E n \in Lengths, t \in Timeouts : Read(n, t)
  BY DEF Read, Opened
<1> QED BY <1>1, <1>2, <1>3, <1>4, <1>5 DEF Next, ReadMoves

(* The system calls of a read of n bytes and the ticks it waits are together at most
   2n + 1, its timeout and what VTIME adds to it: whatever bytes arrive in whatever
   pieces, and whether or not the port stays. *)
THEOREM ReadIsBounded == Spec => []TurnsOK /\ ReadEnds
<1>1. IInv /\ [Next]_vars => [ReadShortens]_vars
  BY MoveShortens, OthersLeaveRead DEF ReadShortens
<1> QED
  BY TurnsBounded, <1>1, Invariance, PTL DEF Spec, ReadEnds

=============================================================================
