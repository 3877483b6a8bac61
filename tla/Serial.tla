------------------------------- MODULE Serial -------------------------------
(***************************************************************************)
(* The serial port library, serial.c: one handle with the terminal to      *)
(* itself.  The terminal's settings are read, changed and written back as  *)
(* a whole; serial_read() collects bytes in a loop of select() and read()  *)
(* while the line delivers more, time passes, signals interrupt it and the *)
(* device may be unplugged.                                                *)
(***************************************************************************)
EXTENDS Integers

CONSTANTS
  Forever,        (* a negative timeout                                    *)
  Timeouts,       (* timeouts callers pass, Forever included, in ticks     *)
  Lengths,        (* buffer sizes callers pass                             *)
  QueueSize,      (* bytes the kernel holds for the reader (bound)         *)
  BaudArgs, DataBitsArgs, ParityArgs, StopBitsArgs, FlowArgs, VminArgs, VtimeArgs,
                  (* arguments of the calls, invalid ones included         *)
  BaudRates       (* the rates termios has                                 *)

ASSUME SizeAssumption == QueueSize \in Nat \ {0} /\ Lengths \subseteq Nat
ASSUME TimeoutAssumption == Forever \notin Nat /\ Timeouts \subseteq Nat \cup {Forever}
ASSUME ArgAssumption ==
  DataBitsArgs \cup StopBitsArgs \cup VminArgs \subseteq Nat /\ VtimeArgs \subseteq Int
  /\ FlowArgs \subseteq BOOLEAN /\ BaudRates \subseteq Nat \ {0} /\ BaudArgs \subseteq Nat

VARIABLES
  present,  (* the device is plugged in                                    *)
  tty,      (* kernel: the terminal's settings                             *)
  waiting,  (* kernel: bytes received and not read                         *)
  fd, use_termios_timeout,        (* the fields of the serial_t            *)
  pc,       (* where serial_read() is: idle, in select() or in read()      *)
  len, timeout,                   (* its arguments                         *)
  bytes_read, left,               (* its count so far, and tv_timeout      *)
  quiet,    (* kernel: ticks a read() has waited since it had its last byte *)
  waited,   (* ticks the call has waited, in read() and against its timeout *)
  owed,     (* bytes received and neither returned nor given up            *)
  ret       (* what the last call returned                                 *)

call == <<pc, len, timeout, bytes_read, left, quiet, waited>>
vars == <<present, tty, waiting, fd, use_termios_timeout, pc, len, timeout, bytes_read,
          left, quiet, waited, owed, ret>>

-----------------------------------------------------------------------------
(* The terminal *)

DataBits == 5 .. 8
Parities == {"none", "even", "odd"}
StopBits == {1, 2}

Termios ==
  [baud : Nat, databits : DataBits, parity : Parities, stopbits : StopBits, xonxoff : BOOLEAN,
   rtscts : BOOLEAN, inpck : BOOLEAN, istrip : BOOLEAN, vmin : Nat, vtime : Nat]

(* cfsetospeed() leaves the speed as it is for a rate termios does not have. *)
Speed(old, baud) == IF baud \in BaudRates THEN baud ELSE old

(* select() finds the terminal readable: VMIN counts when there is no VTIME. *)
Readable ==
  \/ ~present
  \/ waiting >= IF tty.vtime = 0 /\ tty.vmin > 0 THEN tty.vmin ELSE 1

LeastOf(a, b) == IF a < b THEN a ELSE b

(* The bytes read() waits for: VMIN, or as many as the buffer has room for. *)
Needed == LeastOf(tty.vmin, len - bytes_read)

(* read() returns: enough bytes are there, or VTIME has passed since the last of
   them, which with VMIN takes a first byte to start. *)
ReadCompletes ==
  \/ ~present
  \/ waiting >= Needed
  \/ tty.vtime > 0 /\ waiting >= 1 /\ quiet >= tty.vtime

(* select() only saw a first byte: read() has taken what there is, and waits. *)
ReadWaits == pc = "read" /\ ~ReadCompletes

-----------------------------------------------------------------------------
(* Calls *)

Opened == pc = "idle" /\ fd # "none"

(* A call of one system call or none returns r. *)
Return(r) == ret' = r /\ UNCHANGED call

ReturnOnly(r) ==
  Return(r) /\ UNCHANGED <<present, tty, waiting, fd, use_termios_timeout, owed>>

(* serial_open(), serial_open_advanced(): every setting is written, the eighth
   bit kept when there are eight.  A rate termios does not have leaves B0. *)
Open(baud, databits, parity, stopbits, xonxoff, rtscts) ==
  /\ pc = "idle" /\ fd = "none"
  /\ \/ /\ databits \notin DataBits \/ parity \notin Parities \/ stopbits \notin StopBits
        /\ ReturnOnly("ARG")
     \/ /\ databits \in DataBits /\ parity \in Parities /\ stopbits \in StopBits
        /\ \/ /\ Return("OPEN") /\ use_termios_timeout' = FALSE
              /\ UNCHANGED <<present, tty, waiting, fd, owed>>
           \/ /\ present /\ Return("CONFIGURE") /\ use_termios_timeout' = FALSE
              /\ UNCHANGED <<present, tty, waiting, fd, owed>>
           \/ /\ present
              /\ fd' = "open"
              /\ tty' = [baud |-> Speed(0, baud), databits |-> databits, parity |-> parity,
                         stopbits |-> stopbits, xonxoff |-> xonxoff, rtscts |-> rtscts,
                         inpck |-> parity # "none",
                         istrip |-> parity # "none" /\ databits # 8,
                         vmin |-> 0, vtime |-> 0]
              /\ use_termios_timeout' = FALSE
              /\ waiting' = 0 /\ owed' = 0
              /\ Return("ok")
              /\ UNCHANGED present

(* The terminal's last close drops its input. *)
Close ==
  /\ pc = "idle"
  /\ \/ fd = "none" /\ ReturnOnly("ok")
     \/ /\ fd # "none"
        /\ fd' = "none"
        /\ waiting' = 0 /\ owed' = 0
        /\ Return("ok")
        /\ UNCHANGED <<present, tty, use_termios_timeout>>

-----------------------------------------------------------------------------
(* serial_set_*() *)

(* The settings are read and written back changed: either may fail. *)
Change(new) ==
  \/ \E r \in {"QUERY", "CONFIGURE"} : ReturnOnly(r)
  \/ /\ present
     /\ tty' = new
     /\ Return("ok")
     /\ UNCHANGED <<present, waiting, fd, use_termios_timeout, owed>>

Setter(valid, new) ==
  /\ Opened
  /\ (~valid /\ ReturnOnly("ARG")) \/ (valid /\ Change(new))

SetBaudrate(baud) == Setter(TRUE, [tty EXCEPT !.baud = Speed(@, baud)])
SetDatabits(n)    == Setter(n \in DataBits, [tty EXCEPT !.databits = n])
SetParity(p) ==
  Setter(p \in Parities,
         [tty EXCEPT !.parity = p, !.inpck = p # "none", !.istrip = p # "none"])
SetStopbits(n)    == Setter(n \in StopBits, [tty EXCEPT !.stopbits = n])
SetXonxoff(e)     == Setter(TRUE, [tty EXCEPT !.xonxoff = e])
SetRtscts(e)      == Setter(TRUE, [tty EXCEPT !.rtscts = e])

(* Mutant: a negative VTIME is not refused. *)
SetVtimeUnchecked(tenths) == Setter(tenths <= 255, [tty EXCEPT !.vtime = tenths])

SetVtime(tenths) == Setter(tenths \in 0 .. 255, [tty EXCEPT !.vtime = tenths])

(* Mutant: the handle is changed whether or not the terminal is. *)
SetVminEagerly(n) ==
  /\ Opened /\ n <= 255
  /\ use_termios_timeout' = (n > 0)
  /\ \/ present /\ tty' = [tty EXCEPT !.vmin = n] /\ Return("ok")
     \/ Return("CONFIGURE") /\ UNCHANGED tty
  /\ UNCHANGED <<present, waiting, fd, owed>>

(* The handle follows when the terminal has taken VMIN. *)
SetVmin(n) ==
  /\ Opened
  /\ \/ n > 255 /\ ReturnOnly("ARG")
     \/ n <= 255 /\ (\E r \in {"QUERY", "CONFIGURE"} : ReturnOnly(r))
     \/ /\ n <= 255 /\ present
        /\ tty' = [tty EXCEPT !.vmin = n]
        /\ use_termios_timeout' = (n > 0)
        /\ Return("ok")
        /\ UNCHANGED <<present, waiting, fd, owed>>

(* serial_get_*(), _write(), _flush(), _input_waiting(), _output_waiting(), _poll():
   one system call that leaves this state alone. *)
Other ==
  /\ Opened
  /\ ReturnOnly("IO") \/ (present /\ ReturnOnly("ok"))

-----------------------------------------------------------------------------
(* serial_read() *)

(* The call returns r, having accounted for n of the bytes owed to the caller. *)
ReadReturns(r, n) ==
  /\ pc' = "idle"
  /\ len' = 0 /\ timeout' = 0 /\ bytes_read' = 0 /\ left' = 0
  /\ quiet' = 0 /\ waited' = 0
  /\ owed' = owed - n
  /\ ret' = r

(* An empty buffer is full at once. *)
Read(n, t) ==
  /\ Opened
  /\ \/ n = 0 /\ ReturnOnly("ok")
     \/ /\ n > 0
        /\ pc' = "select" /\ len' = n /\ timeout' = t /\ left' = t
        /\ ret' = "none"
        /\ UNCHANGED <<present, tty, waiting, fd, use_termios_timeout, bytes_read, quiet,
                       waited, owed>>

(* select() is interrupted, or fails: the bytes read so far are given up. *)
SelectFails ==
  /\ pc = "select"
  /\ ReadReturns("IO", bytes_read)
  /\ UNCHANGED <<present, tty, waiting, fd, use_termios_timeout>>

SelectReady ==
  /\ pc = "select" /\ Readable
  /\ pc' = "read"
  /\ UNCHANGED <<present, tty, waiting, fd, use_termios_timeout, len, timeout, bytes_read,
                 left, quiet, waited, owed, ret>>

(* Mutant: a timeout returns no bytes, the ones already read included. *)
TimedOutEmpty == ReadReturns("ok", 0)

(* Mutant: the timeout is not looked at, read() follows. *)
TimeoutIgnored ==
  /\ pc' = "read"
  /\ UNCHANGED <<len, timeout, bytes_read, left, quiet, waited, owed, ret>>

(* The bytes read until the timeout are the result. *)
TimedOut == ReadReturns("ok", bytes_read)

SelectTimesOut ==
  /\ pc = "select" /\ ~Readable /\ left = 0
  /\ TimedOut
  /\ UNCHANGED <<present, tty, waiting, fd, use_termios_timeout>>

(* Time passes in select(), which leaves the rest in tv_timeout. *)
Tick ==
  /\ pc = "select" /\ ~Readable /\ left \in Nat /\ left > 0
  /\ left' = left - 1 /\ waited' = waited + 1
  /\ UNCHANGED <<present, tty, waiting, fd, use_termios_timeout, pc, len, timeout,
                 bytes_read, quiet, owed, ret>>

(* Time passes in read(), which VTIME bounds and the timeout does not. *)
ReadTick ==
  /\ ReadWaits /\ quiet < tty.vtime
  /\ quiet' = quiet + 1 /\ waited' = waited + 1
  /\ UNCHANGED <<present, tty, waiting, fd, use_termios_timeout, pc, len, timeout,
                 bytes_read, left, owed, ret>>

(* read() fails; the bytes read so far are given up. *)
ReadFails ==
  /\ pc = "read"
  /\ ReadReturns("IO", bytes_read)
  /\ UNCHANGED <<present, tty, waiting, fd, use_termios_timeout>>

(* Mutant: every select() gets the whole timeout. *)
SelectAfresh(n) ==
  /\ pc' = "select" /\ bytes_read' = bytes_read + n /\ left' = timeout /\ quiet' = 0
  /\ UNCHANGED <<len, timeout, waited, owed, ret>>

(* More is wanted, for what is left of the timeout. *)
SelectAgain(n) ==
  /\ pc' = "select" /\ bytes_read' = bytes_read + n /\ quiet' = 0
  /\ UNCHANGED <<len, timeout, left, waited, owed, ret>>

(* Mutant: nothing read is no reason to stop. *)
GotEmptyIgnored(n) == n = 0 /\ SelectAgain(n)

(* Nothing, although the terminal was readable: the port is gone. *)
GotEmpty(n) == n = 0 /\ ReadReturns("EMPTY", bytes_read)

(* read() returns what is there.  With VMIN this ends the call; else nothing is
   an error, and the loop goes on until the buffer is full. *)
ReadGives ==
  LET n == LeastOf(waiting, len - bytes_read) IN
  /\ waiting' = waiting - n
  /\ \/ use_termios_timeout /\ ReadReturns("ok", n)
     \/ ~use_termios_timeout /\ GotEmpty(n)
     \/ /\ ~use_termios_timeout /\ n > 0
        /\ IF bytes_read + n < len THEN SelectAgain(n) ELSE ReadReturns("ok", bytes_read + n)
  /\ UNCHANGED <<present, tty, fd, use_termios_timeout>>

ReadBytes == pc = "read" /\ ReadCompletes /\ ReadGives

(* A signal ends a read() that waits with the bytes it has. *)
ReadInterrupted == ReadWaits /\ waiting >= 1 /\ ReadGives

-----------------------------------------------------------------------------
(* The outside *)

(* A byte starts VTIME afresh. *)
Receive ==
  /\ present /\ fd # "none" /\ waiting < QueueSize
  /\ waiting' = waiting + 1 /\ owed' = owed + 1
  /\ quiet' = 0
  /\ UNCHANGED <<present, tty, fd, use_termios_timeout, pc, len, timeout, bytes_read,
                 left, waited, ret>>

(* The hangup drops what the terminal holds, not what a read() that waits has taken. *)
Unplug ==
  /\ present /\ present' = FALSE
  /\ waiting' \in {0} \cup (IF ReadWaits THEN {waiting} ELSE {})
  /\ owed' = owed - (waiting - waiting')
  /\ UNCHANGED <<tty, fd, use_termios_timeout, call, ret>>

-----------------------------------------------------------------------------
(* Specification *)

Init ==
  /\ present = TRUE
  /\ tty = [baud |-> 9600, databits |-> 8, parity |-> "none", stopbits |-> 1,
            xonxoff |-> FALSE, rtscts |-> FALSE, inpck |-> FALSE, istrip |-> FALSE,
            vmin |-> 1, vtime |-> 0]
  /\ waiting = 0 /\ owed = 0
  /\ fd = "none" /\ use_termios_timeout = FALSE
  /\ pc = "idle" /\ len = 0 /\ timeout = 0 /\ bytes_read = 0 /\ left = 0
  /\ quiet = 0 /\ waited = 0
  /\ ret = "none"

Configure ==
  \/ \E b \in BaudArgs, d \in DataBitsArgs, p \in ParityArgs, s \in StopBitsArgs,
        x, r \in FlowArgs : Open(b, d, p, s, x, r)
  \/ \E b \in BaudArgs : SetBaudrate(b)
  \/ \E d \in DataBitsArgs : SetDatabits(d)
  \/ \E p \in ParityArgs : SetParity(p)
  \/ \E s \in StopBitsArgs : SetStopbits(s)
  \/ \E e \in FlowArgs : SetXonxoff(e) \/ SetRtscts(e)
  \/ \E n \in VminArgs : SetVmin(n)
  \/ \E t \in VtimeArgs : SetVtime(t)
  \/ Other \/ Close

(* serial_read() goes on by itself; signals only interrupt it. *)
ReadStep == SelectReady \/ SelectTimesOut \/ Tick \/ ReadTick \/ ReadBytes

Next ==
  \/ Configure
  \/ \E n \in Lengths, t \in Timeouts : Read(n, t)
  \/ ReadStep \/ SelectFails \/ ReadFails \/ ReadInterrupted
  \/ Receive \/ Unplug

(* The thread is scheduled and its clock runs; no byte ever need arrive. *)
Spec == Init /\ [][Next]_vars /\ WF_vars(ReadStep)

-----------------------------------------------------------------------------
(* Properties *)

(* Every variable keeps its type. *)
TypeOK ==
  /\ present \in BOOLEAN
  /\ tty \in Termios
  /\ waiting \in 0 .. QueueSize
  /\ fd \in {"none", "open"}
  /\ use_termios_timeout \in BOOLEAN
  /\ pc \in {"idle", "select", "read"}
  /\ len \in Nat /\ bytes_read \in Nat /\ owed \in Nat
  /\ quiet \in Nat /\ waited \in Nat
  /\ timeout \in Nat \cup {Forever} /\ left \in Nat \cup {Forever}
  /\ ret \in {"none", "ok", "ARG", "OPEN", "QUERY", "CONFIGURE", "IO", "EMPTY"}

(* No byte is lost or counted twice: what was received and not yet returned is in
   the terminal or in the buffer of the call in progress; only a call that
   reports an error gives up bytes. *)
BytesAccounted == owed = waiting + bytes_read

(* The handle knows how its reads end: after any sequence of successful and
   failed calls it expects VMIN semantics exactly when the terminal has them. *)
TimeoutKnown == fd # "none" => (use_termios_timeout <=> tty.vmin > 0)

(* "Unexpected empty read" tells a disconnect: no timing of the bytes, the
   timeout and the settings makes a healthy port look unplugged. *)
EmptyMeansUnplugged == ret = "EMPTY" => ~present

(* The ticks VTIME may hold up a read() with VMIN, once select() saw its first byte. *)
InterByte == IF tty.vmin = 0 THEN 0 ELSE tty.vtime * (LeastOf(tty.vmin, len) - 1)

(* What a timeout promises: all the selects and reads of a call together wait no
   longer than it and, for each byte of VMIN after the first, VTIME.  So a call with a
   timeout keeps it with VMIN 0 or 1 or without VTIME, for any number of turns.  With
   both, read() waits on for the other bytes and timeout_ms bounds nothing but
   select(): docs/serial.md has "zero for a non-blocking read", and with a timeout of
   zero the call may take as long as InterByte. *)
WaitBounded == pc # "idle" /\ timeout # Forever => waited <= timeout + InterByte

(* A read with a timeout returns, bytes or none; one without returns when the
   port goes. *)
TimedReadReturns == (pc # "idle" /\ (timeout # Forever \/ ~present)) ~> pc = "idle"

(* The ticks the call may still wait in select(), if it counts them, and in read():
   VTIME for each missing byte, less what has passed since the last one. *)
SelectLeft == IF timeout = Forever THEN 0 ELSE left

ReadLeft ==
  IF ~present \/ tty.vmin = 0 \/ (pc = "read" /\ waiting >= Needed) THEN 0
  ELSE IF pc = "select" THEN InterByte
  ELSE tty.vtime * (Needed - waiting) - quiet

(* What a call in progress relies on, for the proofs: an idle handle has no call's
   state, a call has room left in its buffer, its waiting and what is left of it stay
   within its timeout and VTIME, VMIN is in use only for a first read(), and a read()
   of a port that is there finds a byte. *)
CallOK ==
  /\ pc = "idle" => len = 0 /\ timeout = 0 /\ bytes_read = 0 /\ left = 0 /\ waited = 0
  /\ pc # "read" => quiet = 0
  /\ pc = "read" => quiet <= tty.vtime
  /\ pc # "idle" => fd # "none" /\ bytes_read < len
  /\ pc # "idle" => (left = Forever <=> timeout = Forever)
  /\ pc # "idle" =>
       waited + SelectLeft + ReadLeft <= (IF timeout = Forever THEN 0 ELSE timeout) + InterByte
  /\ pc # "idle" /\ use_termios_timeout => bytes_read = 0
  /\ pc = "read" /\ present => waiting >= 1

(* The inductive invariant of the proofs. *)
IInv ==
  /\ TypeOK /\ CallOK
  /\ BytesAccounted /\ TimeoutKnown /\ EmptyMeansUnplugged

(* serial.c: "Only use ISTRIP when less than 8 bits as it strips the 8th bit". *)
StripsNoEighthBit == fd # "none" /\ tty.istrip => tty.databits # 8

=============================================================================
