--------------------------------- MODULE Spi ---------------------------------
(***************************************************************************)
(* The SPI library, spi.c: one descriptor per handle, and setters that     *)
(* read and write back a mode word that belongs to the device, in 8 bits   *)
(* or in 32, with other handles on the same device.                        *)
(***************************************************************************)
EXTENDS Naturals, Files

CONSTANTS
  SpiHandles,     (* spi_t handles, each used by one thread                *)
  LowFlags,       (* extra flags in the low byte of the mode word          *)
  HighFlags,      (* extra flags above it                                  *)
  SpiOpenArgs,    (* arguments of spi_open_advanced2()                     *)
  SpiModes, SpiOrders, SpiSpeeds, SpiWords, SpiFlags8, SpiFlags32,
                  (* arguments of the setters, invalid ones included       *)
  Mode32Builds    (* whether the headers of the build have SPI_IOC_WR_MODE32 *)

(* The extra flags have no bit of the mode or the bit order (SPI_CPHA, SPI_CPOL,
   SPI_LSB_FIRST): this is assumed of the callers.  The code does not check it and
   combines them with these bits as they are. *)
ASSUME SpiFlagsAssumption ==
  /\ SpiFlags8 \subseteq SUBSET LowFlags
  /\ SpiFlags32 \subseteq SUBSET (LowFlags \cup HighFlags)
  /\ Mode32Builds \subseteq BOOLEAN
  /\ SpiSpeeds \subseteq Nat /\ SpiWords \subseteq Nat
  /\ SpiOpenArgs \subseteq [mode : Nat, order : STRING, flags : SUBSET (LowFlags \cup HighFlags),
                            speed : Nat, bits : Nat]

VARIABLES
  mode32_build,   (* one of Mode32Builds, for the whole behaviour          *)
  spidev,         (* kernel: the settings of the device                    *)
  spi_fd,         (* the field of each spi_t                               *)
  spi_pc,         (* where the handle's thread is between two ioctls       *)
  spi_arg,        (* what its call in progress was asked for               *)
  spi_data,       (* the mode word it read: its local variable data8, mode32 *)
  spi_alone       (* history: no other handle wrote since its call began   *)

spiVars == <<mode32_build, spidev, spi_fd, spi_pc, spi_arg, spi_data, spi_alone>>

-----------------------------------------------------------------------------
(* Calls *)

NoSpiArg == [step |-> "none"]

SpiIdle(h)   == spi_pc[h] = "idle"
SpiOpened(h) == SpiIdle(h) /\ spi_fd[h] # NoFd

SpiReturn(h, r) ==
  /\ spi_pc' = [spi_pc EXCEPT ![h] = "idle"]
  /\ spi_arg' = [spi_arg EXCEPT ![h] = NoSpiArg]
  /\ spi_data' = [spi_data EXCEPT ![h] = NoSpiArg]
  /\ returned' = r

SpiReturnOnly(h, r) ==
  SpiReturn(h, r) /\ UNCHANGED <<files, spidev, spi_fd, spi_alone>>

(* The call of h starts, and goes on at step p. *)
SpiStart(h, p, a) ==
  /\ spi_pc' = [spi_pc EXCEPT ![h] = p]
  /\ spi_arg' = [spi_arg EXCEPT ![h] = a]
  /\ spi_alone' = [spi_alone EXCEPT ![h] = TRUE]
  /\ returned' = "none"

(* An ioctl of h sets the device to s; the kernel leaves it alone when it refuses. *)
SpiWrites(h, s) ==
  /\ spidev' = s
  /\ spi_alone' = [g \in SpiHandles |-> spi_alone[g] /\ g = h]

(* The mode word of the device holds its mode, its bit order and the extra flags, in
   bits of their own by SpiFlagsAssumption.
   SPI_IOC_WR_MODE sets the whole word from 8 bits, and so clears the flags above. *)
WordOf(d) == [mode |-> d.mode, order |-> d.order, flags |-> d.flags]

Low(flags) == flags \cap LowFlags

-----------------------------------------------------------------------------
(* spi_open_advanced2(), which spi_open() and spi_open_advanced() call *)

(* Mutant: the mode is not checked. *)
SpiArgsValidAnyMode(a) == a.order \in {"msb", "lsb"}

SpiArgsValid(a) == a.mode \in 0 .. 3 /\ a.order \in {"msb", "lsb"}

Wide(a) == a.flags \cap HighFlags # {}

(* Mutant: the descriptor of a failed open stays in the handle. *)
SpiGiveUpStale(h, r) ==
  /\ CloseFile(spi_fd[h])
  /\ SpiReturn(h, r)
  /\ UNCHANGED <<spi_fd, spidev, spi_alone>>

SpiGiveUp(h, r) ==
  /\ CloseFile(spi_fd[h])
  /\ spi_fd' = [spi_fd EXCEPT ![h] = NoFd]
  /\ SpiReturn(h, r)
  /\ UNCHANGED <<spidev, spi_alone>>

SpiOpen(h, a) ==
  /\ SpiIdle(h) /\ spi_fd[h] = NoFd
  /\ \/ ~SpiArgsValid(a) /\ SpiReturnOnly(h, "ARG")
     \/ SpiArgsValid(a) /\ Wide(a) /\ ~mode32_build /\ SpiReturnOnly(h, "UNSUPPORTED")
     \/ /\ SpiArgsValid(a) /\ (Wide(a) => mode32_build)
        /\ \/ SpiReturnOnly(h, "OPEN")
           \/ \E f \in Fds :
                /\ Obtain(h, f)
                /\ spi_fd' = [spi_fd EXCEPT ![h] = f]
                /\ SpiStart(h, "mode", a)
                /\ UNCHANGED <<spidev, spi_data>>

(* The three ioctls of the open: mode word, speed, bits per word. *)
AfterIoctl(p) == IF p = "mode" THEN "speed" ELSE "bits"

Configured(p, a) ==
  CASE p = "mode" ->
         [spidev EXCEPT !.mode = a.mode, !.order = a.order, !.flags = a.flags]
    [] p = "speed" -> [spidev EXCEPT !.speed = a.speed]
    [] p = "bits"  -> [spidev EXCEPT !.bits = a.bits]

SpiConfigure(h) ==
  /\ spi_pc[h] \in {"mode", "speed", "bits"}
  /\ \/ SpiGiveUp(h, "CONFIGURE")
     \/ /\ SpiWrites(h, Configured(spi_pc[h], spi_arg[h]))
        /\ \/ /\ spi_pc[h] # "bits"
              /\ spi_pc' = [spi_pc EXCEPT ![h] = AfterIoctl(@)]
              /\ returned' = "none"
              /\ UNCHANGED <<spi_arg, spi_data>>
           \/ spi_pc[h] = "bits" /\ SpiReturn(h, "ok")
        /\ UNCHANGED <<files, spi_fd>>

(* spi_close() *)
SpiClose(h) ==
  /\ SpiIdle(h)
  /\ \/ spi_fd[h] = NoFd /\ SpiReturnOnly(h, "ok")
     \/ spi_fd[h] # NoFd /\ SpiGiveUp(h, "ok")

-----------------------------------------------------------------------------
(* spi_set_mode(), spi_set_extra_flags(), spi_set_extra_flags32(): a read of the
   mode word, then a write of the word with one part replaced *)

SpiReadWord(h, a) ==
  \/ SpiReturnOnly(h, "QUERY")
  \/ /\ SpiStart(h, "write", a)
     /\ spi_data' = [spi_data EXCEPT ![h] = IF a.step = "flags32" THEN WordOf(spidev)
                                            ELSE [WordOf(spidev) EXCEPT !.flags = Low(@)]]
     /\ UNCHANGED <<files, spidev, spi_fd>>

SpiSetMode(h, m) ==
  /\ SpiOpened(h)
  /\ \/ m \notin 0 .. 3 /\ SpiReturnOnly(h, "ARG")
     \/ m \in 0 .. 3 /\ SpiReadWord(h, [step |-> "mode", value |-> m])

SpiSetExtraFlags(h, x) ==
  SpiOpened(h) /\ SpiReadWord(h, [step |-> "flags", value |-> x])

SpiSetExtraFlags32(h, x) ==
  /\ SpiOpened(h)
  /\ \/ ~mode32_build /\ SpiReturnOnly(h, "UNSUPPORTED")
     \/ mode32_build /\ SpiReadWord(h, [step |-> "flags32", value |-> x])

(* Mutant: the mask of the extra flags keeps the mode and not the bit order. *)
ModeWordDroppingOrder(d, a) ==
  IF a.step = "mode" THEN [d EXCEPT !.mode = a.value]
                     ELSE [d EXCEPT !.flags = a.value, !.order = "msb"]

(* Mutant: extra flags are added to those the device has. *)
ModeWordAddingFlags(d, a) ==
  IF a.step = "mode" THEN [d EXCEPT !.mode = a.value]
                     ELSE [d EXCEPT !.flags = @ \cup a.value]

(* The word that is written, for the word d that was read. *)
ModeWord(d, a) ==
  IF a.step = "mode" THEN [d EXCEPT !.mode = a.value] ELSE [d EXCEPT !.flags = a.value]

(* The mode word of the device becomes the one of w. *)
WithWord(w) ==
  [spidev EXCEPT !.mode = w.mode, !.order = w.order, !.flags = w.flags]

SpiWriteBack(h) ==
  /\ spi_pc[h] = "write"
  /\ \/ SpiReturnOnly(h, "CONFIGURE")
     \/ /\ SpiWrites(h, WithWord(ModeWord(spi_data[h], spi_arg[h])))
        /\ SpiReturn(h, "ok")
        /\ UNCHANGED <<files, spi_fd>>

-----------------------------------------------------------------------------
(* spi_set_bit_order(), spi_set_max_speed(), spi_set_bits_per_word(): one ioctl
   each, which leaves the rest to the kernel *)

SpiSetOne(h, s) ==
  \/ SpiReturnOnly(h, "CONFIGURE")
  \/ SpiWrites(h, s) /\ SpiReturn(h, "ok") /\ UNCHANGED <<files, spi_fd>>

SpiSetBitOrder(h, o) ==
  /\ SpiOpened(h)
  /\ \/ o \notin {"msb", "lsb"} /\ SpiReturnOnly(h, "ARG")
     \/ o \in {"msb", "lsb"} /\ SpiSetOne(h, [spidev EXCEPT !.order = o])

SpiSetMaxSpeed(h, v) == SpiOpened(h) /\ SpiSetOne(h, [spidev EXCEPT !.speed = v])

SpiSetBitsPerWord(h, b) == SpiOpened(h) /\ SpiSetOne(h, [spidev EXCEPT !.bits = b])

(* spi_transfer(), spi_transfer_advanced() and the getters change nothing. *)
SpiTransfer(h) ==
  SpiOpened(h) /\ (SpiReturnOnly(h, "TRANSFER") \/ SpiReturnOnly(h, "ok"))

SpiGet(h) ==
  SpiOpened(h) /\ (SpiReturnOnly(h, "QUERY") \/ SpiReturnOnly(h, "ok"))

-----------------------------------------------------------------------------
(* Specification *)

SpiInit ==
  /\ mode32_build \in Mode32Builds
  /\ spidev = [mode |-> 0, order |-> "msb", flags |-> {}, speed |-> 1, bits |-> 8]
  /\ spi_fd = [h \in SpiHandles |-> NoFd]
  /\ spi_pc = [h \in SpiHandles |-> "idle"]
  /\ spi_arg = [h \in SpiHandles |-> NoSpiArg]
  /\ spi_data = [h \in SpiHandles |-> NoSpiArg]
  /\ spi_alone = [h \in SpiHandles |-> FALSE]

SpiSetCalls(h) ==
  \/ \E m \in SpiModes : SpiSetMode(h, m)
  \/ \E o \in SpiOrders : SpiSetBitOrder(h, o)
  \/ \E v \in SpiSpeeds : SpiSetMaxSpeed(h, v)
  \/ \E b \in SpiWords : SpiSetBitsPerWord(h, b)
  \/ \E x \in SpiFlags8 : SpiSetExtraFlags(h, x)
  \/ \E x \in SpiFlags32 : SpiSetExtraFlags32(h, x)

SpiCalls(h) ==
  \/ \E a \in SpiOpenArgs : SpiOpen(h, a)
  \/ SpiConfigure(h) \/ SpiWriteBack(h)
  \/ SpiSetCalls(h)
  \/ SpiTransfer(h) \/ SpiGet(h)
  \/ SpiClose(h)

SpiNext == (\E h \in SpiHandles : SpiCalls(h)) /\ UNCHANGED mode32_build

-----------------------------------------------------------------------------
(* Properties *)

SpiSteps  == {"idle", "mode", "speed", "bits", "write"}
Flags     == SUBSET (LowFlags \cup HighFlags)
ModeWords == [mode : 0 .. 3, order : {"msb", "lsb"}, flags : Flags]
Devices   == [mode : 0 .. 3, order : {"msb", "lsb"}, flags : Flags, speed : Nat, bits : Nat]
SpiSetArgs == [step : {"mode"}, value : 0 .. 3] \cup [step : {"flags", "flags32"}, value : Flags]

(* Every variable keeps its type: no mode or order outside the enumerations
   reaches the device. *)
SpiTypeOK ==
  /\ mode32_build \in BOOLEAN
  /\ spidev \in Devices
  /\ spi_fd \in [SpiHandles -> Fds \cup {NoFd}]
  /\ spi_pc \in [SpiHandles -> SpiSteps]
  /\ spi_alone \in [SpiHandles -> BOOLEAN]
  /\ \A h \in SpiHandles :
       /\ spi_pc[h] \in {"mode", "speed", "bits"} => spi_arg[h] \in Devices
       /\ spi_pc[h] = "write" => spi_arg[h] \in SpiSetArgs /\ spi_data[h] \in ModeWords

(* CHANGELOG.md, v2.2.4: no "future spurious close" after an error during open.
   The descriptor of an spi_t is one its own open got and nobody closed, and an
   open that failed at any of its ioctls has left none open, whichever numbers
   other handles close and get meanwhile. *)
SpiFilesOwned ==
  \A h \in SpiHandles :
    /\ spi_fd[h] # NoFd => spi_fd[h] \in Fds /\ files[spi_fd[h]] = h
    /\ \A f \in Fds : files[f] = h => spi_fd[h] = f

(* The call of h in progress returns 0. *)
Succeeds(h) == ~SpiIdle(h) /\ SpiIdle(h)' /\ returned' = "ok"

(* What that call was asked to make of the device. *)
Asked(h) ==
  CASE spi_pc[h] # "write" -> spi_arg[h]
    [] spi_pc[h] = "write" /\ spi_arg[h].step = "mode" ->
         [spidev EXCEPT !.mode = spi_arg[h].value, !.flags = Low(@)]
    [] spi_pc[h] = "write" /\ spi_arg[h].step # "mode" ->
         [spidev EXCEPT !.flags = spi_arg[h].value]

(* An open or a setter that returns 0, with no other handle writing between its
   first and its last ioctl, has made of the device what it was asked for and
   nothing else; only flags above the low byte may go with a new mode. *)
SpiCallExact ==
  [][\A h \in SpiHandles : Succeeds(h) /\ spi_alone[h] => spidev' = Asked(h)]_<<fileVars, spiVars>>

(* With other handles writing in between, a setter still loses only what it did not
   see: a setting that is not its own keeps its value, unless the word the setter
   read held another. *)
OtherSettingsKept ==
  [][\A h \in SpiHandles, s \in {"mode", "order", "flags"} :
       /\ Succeeds(h) /\ spi_pc[h] = "write"
       /\ s # IF spi_arg[h].step = "mode" THEN "mode" ELSE "flags"
       => spidev'[s] = spidev[s] \/ spi_data[h][s] # spidev[s]]_<<fileVars, spiVars>>

=============================================================================
