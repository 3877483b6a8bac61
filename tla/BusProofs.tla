------------------------------ MODULE BusProofs ------------------------------
(***************************************************************************)
(* Theorems about SPI and I2C handles that share the descriptors of one    *)
(* process, for every number of handles and descriptors.                   *)
(***************************************************************************)
EXTENDS Bus, TLAPS

Owners == SpiHandles \cup I2cHandles \cup {Nobody}

BusTypeOK ==
  /\ files \in [Fds -> Owners]
  /\ spi_fd \in [SpiHandles -> Fds \cup {NoFd}]
  /\ i2c_fd \in [I2cHandles -> Fds \cup {NoFd}]
  /\ spi_pc \in [SpiHandles -> SpiSteps]
  /\ i2c_pc \in [I2cHandles -> {"idle", "query"}]

(* A call that is between two ioctls has a descriptor. *)
BusyHasFile ==
  /\ \A h \in SpiHandles : spi_pc[h] # "idle" => spi_fd[h] # NoFd
  /\ \A h \in I2cHandles : i2c_pc[h] # "idle" => i2c_fd[h] # NoFd

FilesInv == BusTypeOK /\ BusyHasFile /\ SpiFilesOwned /\ I2cFilesOwned

-----------------------------------------------------------------------------
(* What a step makes of the descriptors: nothing, one more, or one less. *)

Quiet ==
  /\ UNCHANGED <<files, spi_fd, i2c_fd>>
  /\ BusTypeOK' /\ BusyHasFile'

SpiGets(h) ==
  \E f \in Fds : /\ spi_fd[h] = NoFd /\ Obtain(h, f) /\ spi_fd' = [spi_fd EXCEPT ![h] = f]
                 /\ i2c_fd' = i2c_fd /\ BusTypeOK' /\ BusyHasFile'

SpiDrops(h) ==
  /\ spi_fd[h] # NoFd /\ CloseFile(spi_fd[h]) /\ spi_fd' = [spi_fd EXCEPT ![h] = NoFd]
  /\ i2c_fd' = i2c_fd /\ BusTypeOK' /\ BusyHasFile'

I2cGets(h) ==
  \E f \in Fds : /\ i2c_fd[h] = NoFd /\ Obtain(h, f) /\ i2c_fd' = [i2c_fd EXCEPT ![h] = f]
                 /\ spi_fd' = spi_fd /\ BusTypeOK' /\ BusyHasFile'

I2cDrops(h) ==
  /\ i2c_fd[h] # NoFd /\ CloseFile(i2c_fd[h]) /\ i2c_fd' = [i2c_fd EXCEPT ![h] = NoFd]
  /\ spi_fd' = spi_fd /\ BusTypeOK' /\ BusyHasFile'

LEMMA QuietKeeps == ASSUME FilesInv, Quiet PROVE FilesInv'
  BY DEF FilesInv, Quiet, SpiFilesOwned, I2cFilesOwned

LEMMA SpiGetsKeeps == ASSUME FilesInv, NEW h \in SpiHandles, SpiGets(h) PROVE FilesInv'
<1>1. PICK f \in Fds : /\ spi_fd[h] = NoFd /\ Obtain(h, f) /\ spi_fd' = [spi_fd EXCEPT ![h] = f]
                       /\ i2c_fd' = i2c_fd
  BY DEF SpiGets
<1>2. files[f] = Nobody /\ files' = [files EXCEPT ![f] = h]
  BY <1>1 DEF Obtain
<1>3. f # NoFd /\ h # Nobody /\ h \notin I2cHandles
  BY FdsAssumption, HandlesAssumption
<1>4. SpiFilesOwned'
  <2>0. NoFd \notin Fds
    BY FdsAssumption
  <2> SUFFICES ASSUME NEW g \in SpiHandles
      PROVE  /\ spi_fd'[g] # NoFd => spi_fd'[g] \in Fds /\ files'[spi_fd'[g]] = g
             /\ \A e \in Fds : files'[e] = g => spi_fd'[g] = e
    BY DEF SpiFilesOwned
  <2>1. CASE g = h
    <3>1. spi_fd'[h] = f /\ files'[f] = h
      BY <1>1, <1>2 DEF FilesInv, BusTypeOK
    <3>2. ASSUME NEW e \in Fds, e # f PROVE files'[e] # h
      BY <1>1, <1>2, <2>0, <3>2 DEF FilesInv, BusTypeOK, SpiFilesOwned
    <3> QED
      BY <2>1, <3>1, <3>2
  <2>2. CASE g # h
    <3>1. spi_fd'[g] = spi_fd[g] /\ g # Nobody
      BY <1>1, <2>2, HandlesAssumption DEF FilesInv, BusTypeOK
    <3>2. \A e \in Fds : files'[e] = g <=> files[e] = g
      BY <1>2, <2>2, <3>1 DEF FilesInv, BusTypeOK
    <3> QED
      BY <3>1, <3>2 DEF FilesInv, SpiFilesOwned
  <2> QED
    BY <2>1, <2>2
<1>5. I2cFilesOwned'
  BY <1>1, <1>2, <1>3, HandlesAssumption DEF FilesInv, BusTypeOK, I2cFilesOwned
<1> QED
  BY <1>4, <1>5 DEF SpiGets, FilesInv

LEMMA SpiDropsKeeps == ASSUME FilesInv, NEW h \in SpiHandles, SpiDrops(h) PROVE FilesInv'
<1>1. /\ spi_fd[h] # NoFd /\ files' = [files EXCEPT ![spi_fd[h]] = Nobody]
      /\ spi_fd' = [spi_fd EXCEPT ![h] = NoFd] /\ i2c_fd' = i2c_fd
  BY DEF SpiDrops, CloseFile
<1>2. spi_fd[h] \in Fds /\ files[spi_fd[h]] = h /\ h # Nobody /\ h \notin I2cHandles
  BY <1>1, HandlesAssumption DEF FilesInv, SpiFilesOwned
<1>3. SpiFilesOwned'
  BY <1>1, <1>2, HandlesAssumption DEF FilesInv, BusTypeOK, SpiFilesOwned
<1>4. I2cFilesOwned'
  BY <1>1, <1>2, HandlesAssumption DEF FilesInv, BusTypeOK, I2cFilesOwned
<1> QED
  BY <1>3, <1>4 DEF SpiDrops, FilesInv

LEMMA I2cGetsKeeps == ASSUME FilesInv, NEW h \in I2cHandles, I2cGets(h) PROVE FilesInv'
<1>1. PICK f \in Fds : /\ i2c_fd[h] = NoFd /\ Obtain(h, f) /\ i2c_fd' = [i2c_fd EXCEPT ![h] = f]
                       /\ spi_fd' = spi_fd
  BY DEF I2cGets
<1>2. files[f] = Nobody /\ files' = [files EXCEPT ![f] = h]
  BY <1>1 DEF Obtain
<1>3. f # NoFd /\ h # Nobody /\ h \notin SpiHandles
  BY FdsAssumption, HandlesAssumption
<1>4. SpiFilesOwned'
  BY <1>1, <1>2, <1>3, HandlesAssumption DEF FilesInv, BusTypeOK, SpiFilesOwned
<1>5. I2cFilesOwned'
  <2>0. NoFd \notin Fds
    BY FdsAssumption
  <2> SUFFICES ASSUME NEW g \in I2cHandles
      PROVE  /\ i2c_fd'[g] # NoFd => i2c_fd'[g] \in Fds /\ files'[i2c_fd'[g]] = g
             /\ \A e \in Fds : files'[e] = g => i2c_fd'[g] = e
    BY DEF I2cFilesOwned
  <2>1. CASE g = h
    <3>1. i2c_fd'[h] = f /\ files'[f] = h
      BY <1>1, <1>2 DEF FilesInv, BusTypeOK
    <3>2. ASSUME NEW e \in Fds, e # f PROVE files'[e] # h
      BY <1>1, <1>2, <2>0, <3>2 DEF FilesInv, BusTypeOK, I2cFilesOwned
    <3> QED
      BY <2>1, <3>1, <3>2
  <2>2. CASE g # h
    <3>1. i2c_fd'[g] = i2c_fd[g] /\ g # Nobody
      BY <1>1, <2>2, HandlesAssumption DEF FilesInv, BusTypeOK
    <3>2. \A e \in Fds : files'[e] = g <=> files[e] = g
      BY <1>2, <2>2, <3>1 DEF FilesInv, BusTypeOK
    <3> QED
      BY <3>1, <3>2 DEF FilesInv, I2cFilesOwned
  <2> QED
    BY <2>1, <2>2
<1> QED
  BY <1>4, <1>5 DEF I2cGets, FilesInv

LEMMA I2cDropsKeeps == ASSUME FilesInv, NEW h \in I2cHandles, I2cDrops(h) PROVE FilesInv'
<1>1. /\ i2c_fd[h] # NoFd /\ files' = [files EXCEPT ![i2c_fd[h]] = Nobody]
      /\ i2c_fd' = [i2c_fd EXCEPT ![h] = NoFd] /\ spi_fd' = spi_fd
  BY DEF I2cDrops, CloseFile
<1>2. i2c_fd[h] \in Fds /\ files[i2c_fd[h]] = h /\ h # Nobody /\ h \notin SpiHandles
  BY <1>1, HandlesAssumption DEF FilesInv, I2cFilesOwned
<1>3. SpiFilesOwned'
  BY <1>1, <1>2, HandlesAssumption DEF FilesInv, BusTypeOK, SpiFilesOwned
<1>4. I2cFilesOwned'
  BY <1>1, <1>2, HandlesAssumption DEF FilesInv, BusTypeOK, I2cFilesOwned
<1> QED
  BY <1>3, <1>4 DEF I2cDrops, FilesInv

-----------------------------------------------------------------------------
(* The steps of an SPI handle *)

LEMMA SpiMoves ==
  ASSUME FilesInv, NEW h \in SpiHandles, NEW p \in SpiSteps,
         UNCHANGED <<files, spi_fd, i2cVars>>, spi_pc' = [spi_pc EXCEPT ![h] = p],
         p # "idle" => spi_fd[h] # NoFd
  PROVE  FilesInv'
<1>1. BusTypeOK'
  BY DEF FilesInv, BusTypeOK, i2cVars
<1>2. BusyHasFile'
  BY DEF FilesInv, BusTypeOK, BusyHasFile, i2cVars
<1> QED
  BY <1>1, <1>2, QuietKeeps DEF Quiet, i2cVars

LEMMA SpiReturnsOnly ==
  ASSUME FilesInv, NEW h \in SpiHandles, NEW r, SpiReturnOnly(h, r), UNCHANGED i2cVars
  PROVE  FilesInv'
  BY SpiMoves DEF SpiReturnOnly, SpiReturn, SpiSteps

LEMMA SpiGivesUp ==
  ASSUME FilesInv, NEW h \in SpiHandles, NEW r, spi_fd[h] # NoFd, SpiGiveUp(h, r),
         UNCHANGED i2cVars
  PROVE  FilesInv'
<1>1. /\ files' = [files EXCEPT ![spi_fd[h]] = Nobody]
      /\ spi_fd' = [spi_fd EXCEPT ![h] = NoFd] /\ spi_pc' = [spi_pc EXCEPT ![h] = "idle"]
  BY DEF SpiGiveUp, CloseFile, SpiReturn
<1>2. BusTypeOK'
  BY <1>1 DEF FilesInv, BusTypeOK, i2cVars, Owners, SpiSteps
<1>3. BusyHasFile'
  BY <1>1 DEF FilesInv, BusTypeOK, BusyHasFile, i2cVars
<1> QED
  BY <1>2, <1>3, SpiDropsKeeps DEF SpiDrops, SpiGiveUp, i2cVars

LEMMA SpiOpenKeeps ==
  ASSUME FilesInv, NEW h \in SpiHandles, NEW a, SpiOpen(h, a), UNCHANGED i2cVars
  PROVE  FilesInv'
<1>1. CASE \E r : SpiReturnOnly(h, r)
  BY <1>1, SpiReturnsOnly
<1>2. CASE \E f \in Fds : /\ Obtain(h, f) /\ spi_fd' = [spi_fd EXCEPT ![h] = f]
                         /\ SpiStart(h, "mode", a)
  <2>1. PICK f \in Fds : /\ Obtain(h, f) /\ spi_fd' = [spi_fd EXCEPT ![h] = f]
                        /\ spi_pc' = [spi_pc EXCEPT ![h] = "mode"]
    BY <1>2 DEF SpiStart
  <2>2. f # NoFd
    BY FdsAssumption
  <2>3. BusTypeOK'
    BY <2>1 DEF FilesInv, BusTypeOK, i2cVars, Owners, SpiSteps, Obtain
  <2>4. BusyHasFile'
    BY <2>1, <2>2 DEF FilesInv, BusTypeOK, BusyHasFile, i2cVars
  <2>5. spi_fd[h] = NoFd
    BY DEF SpiOpen
  <2> QED
    BY <2>1, <2>3, <2>4, <2>5, SpiGetsKeeps DEF SpiGets, i2cVars
<1> QED
  BY <1>1, <1>2 DEF SpiOpen

LEMMA SpiConfigureKeeps ==
  ASSUME FilesInv, NEW h \in SpiHandles, SpiConfigure(h), UNCHANGED i2cVars
  PROVE  FilesInv'
<1>1. spi_fd[h] # NoFd /\ spi_pc[h] \in {"mode", "speed", "bits"}
  BY DEF FilesInv, BusyHasFile, SpiConfigure
<1>2. CASE SpiGiveUp(h, "CONFIGURE")
  BY <1>1, <1>2, SpiGivesUp
<1>3. CASE UNCHANGED <<files, spi_fd>> /\ spi_pc[h] # "bits"
           /\ spi_pc' = [spi_pc EXCEPT ![h] = AfterIoctl(@)]
  <2>1. AfterIoctl(spi_pc[h]) \in SpiSteps
    BY <1>1, <1>3 DEF AfterIoctl, SpiSteps
  <2>2. spi_pc' = [spi_pc EXCEPT ![h] = AfterIoctl(spi_pc[h])]
    BY <1>3
  <2> HIDE DEF AfterIoctl
  <2> QED
    BY <1>1, <1>3, <2>1, <2>2, SpiMoves
<1>4. CASE UNCHANGED <<files, spi_fd>> /\ SpiReturn(h, "ok")
  BY <1>4, SpiMoves DEF SpiReturn, SpiSteps
<1> QED
  BY <1>2, <1>3, <1>4 DEF SpiConfigure

LEMMA SpiWriteBackKeeps ==
  ASSUME FilesInv, NEW h \in SpiHandles, SpiWriteBack(h), UNCHANGED i2cVars
  PROVE  FilesInv'
<1>1. CASE SpiReturnOnly(h, "CONFIGURE")
  BY <1>1, SpiReturnsOnly
<1>2. CASE UNCHANGED <<files, spi_fd>> /\ SpiReturn(h, "ok")
  BY <1>2, SpiMoves DEF SpiReturn, SpiSteps
<1> QED
  BY <1>1, <1>2 DEF SpiWriteBack

LEMMA SpiReadWordKeeps ==
  ASSUME FilesInv, NEW h \in SpiHandles, NEW a, spi_fd[h] # NoFd, SpiReadWord(h, a),
         UNCHANGED i2cVars
  PROVE  FilesInv'
<1>1. CASE SpiReturnOnly(h, "QUERY")
  BY <1>1, SpiReturnsOnly
<1>2. CASE UNCHANGED <<files, spi_fd>> /\ SpiStart(h, "write", a)
  BY <1>2, SpiMoves DEF SpiStart, SpiSteps
<1> QED
  BY <1>1, <1>2 DEF SpiReadWord

LEMMA SpiSetOneKeeps ==
  ASSUME FilesInv, NEW h \in SpiHandles, NEW s, SpiSetOne(h, s), UNCHANGED i2cVars
  PROVE  FilesInv'
<1>1. CASE SpiReturnOnly(h, "CONFIGURE")
  BY <1>1, SpiReturnsOnly
<1>2. CASE UNCHANGED <<files, spi_fd>> /\ SpiReturn(h, "ok")
  BY <1>2, SpiMoves DEF SpiReturn, SpiSteps
<1> QED
  BY <1>1, <1>2 DEF SpiSetOne

LEMMA SpiSetCallsKeep ==
  ASSUME FilesInv, NEW h \in SpiHandles, SpiSetCalls(h), UNCHANGED i2cVars
  PROVE  FilesInv'
<1>1. ASSUME NEW m, SpiSetMode(h, m) PROVE FilesInv'
  BY <1>1, SpiReturnsOnly, SpiReadWordKeeps DEF SpiSetMode, SpiOpened
<1>2. ASSUME NEW x, SpiSetExtraFlags(h, x) PROVE FilesInv'
  BY <1>2, SpiReadWordKeeps DEF SpiSetExtraFlags, SpiOpened
<1>3. ASSUME NEW x, SpiSetExtraFlags32(h, x) PROVE FilesInv'
  BY <1>3, SpiReturnsOnly, SpiReadWordKeeps DEF SpiSetExtraFlags32, SpiOpened
<1>4. ASSUME NEW o, SpiSetBitOrder(h, o) PROVE FilesInv'
  BY <1>4, SpiReturnsOnly, SpiSetOneKeeps DEF SpiSetBitOrder
<1>5. ASSUME NEW v, SpiSetMaxSpeed(h, v) PROVE FilesInv'
  BY <1>5, SpiSetOneKeeps DEF SpiSetMaxSpeed
<1>6. ASSUME NEW b, SpiSetBitsPerWord(h, b) PROVE FilesInv'
  BY <1>6, SpiSetOneKeeps DEF SpiSetBitsPerWord
<1> QED
  BY <1>1, <1>2, <1>3, <1>4, <1>5, <1>6 DEF SpiSetCalls

LEMMA SpiKeeps ==
  ASSUME FilesInv, SpiNext, UNCHANGED i2cVars
  PROVE  FilesInv'
<1>1. PICK h \in SpiHandles : SpiCalls(h)
  BY DEF SpiNext
<1>2. CASE \E a \in SpiOpenArgs : SpiOpen(h, a)
  BY <1>2, SpiOpenKeeps
<1>3. CASE SpiConfigure(h)
  BY <1>3, SpiConfigureKeeps
<1>4. CASE SpiWriteBack(h)
  BY <1>4, SpiWriteBackKeeps
<1>5. CASE SpiSetCalls(h)
  BY <1>5, SpiSetCallsKeep
<1>6. CASE SpiTransfer(h) \/ SpiGet(h)
  BY <1>6, SpiReturnsOnly DEF SpiTransfer, SpiGet
<1>7. CASE SpiClose(h)
  BY <1>7, SpiReturnsOnly, SpiGivesUp DEF SpiClose
<1> QED
  BY <1>1, <1>2, <1>3, <1>4, <1>5, <1>6, <1>7 DEF SpiCalls

-----------------------------------------------------------------------------
(* The steps of an I2C handle *)

LEMMA I2cMoves ==
  ASSUME FilesInv, NEW h \in I2cHandles, UNCHANGED <<files, i2c_fd, spiVars>>,
         i2c_pc' = [i2c_pc EXCEPT ![h] = "idle"]
  PROVE  FilesInv'
<1>1. BusTypeOK'
  BY DEF FilesInv, BusTypeOK, spiVars
<1>2. BusyHasFile'
  BY DEF FilesInv, BusTypeOK, BusyHasFile, spiVars
<1> QED
  BY <1>1, <1>2, QuietKeeps DEF Quiet, spiVars

LEMMA I2cReturnsOnly ==
  ASSUME FilesInv, NEW h \in I2cHandles, NEW r, I2cReturnOnly(h, r), UNCHANGED spiVars
  PROVE  FilesInv'
  BY I2cMoves DEF I2cReturnOnly, I2cReturn

LEMMA I2cGivesUp ==
  ASSUME FilesInv, NEW h \in I2cHandles, NEW r, i2c_fd[h] # NoFd, I2cGiveUp(h, r),
         UNCHANGED spiVars
  PROVE  FilesInv'
<1>1. /\ files' = [files EXCEPT ![i2c_fd[h]] = Nobody]
      /\ i2c_fd' = [i2c_fd EXCEPT ![h] = NoFd] /\ i2c_pc' = [i2c_pc EXCEPT ![h] = "idle"]
  BY DEF I2cGiveUp, CloseFile, I2cReturn
<1>2. BusTypeOK'
  BY <1>1 DEF FilesInv, BusTypeOK, spiVars, Owners
<1>3. BusyHasFile'
  BY <1>1 DEF FilesInv, BusTypeOK, BusyHasFile, spiVars
<1> QED
  BY <1>2, <1>3, I2cDropsKeeps DEF I2cDrops, I2cGiveUp, spiVars

LEMMA I2cOpenKeeps ==
  ASSUME FilesInv, NEW h \in I2cHandles, I2cOpen(h), UNCHANGED spiVars
  PROVE  FilesInv'
<1>1. CASE I2cReturnOnly(h, "OPEN")
  BY <1>1, I2cReturnsOnly
<1>2. CASE \E f \in Fds : /\ Obtain(h, f) /\ i2c_fd' = [i2c_fd EXCEPT ![h] = f]
                         /\ i2c_pc' = [i2c_pc EXCEPT ![h] = "query"]
  <2>1. PICK f \in Fds : /\ Obtain(h, f) /\ i2c_fd' = [i2c_fd EXCEPT ![h] = f]
                        /\ i2c_pc' = [i2c_pc EXCEPT ![h] = "query"]
    BY <1>2
  <2>2. f # NoFd
    BY FdsAssumption
  <2>3. BusTypeOK'
    BY <2>1 DEF FilesInv, BusTypeOK, spiVars, Owners, Obtain
  <2>4. BusyHasFile'
    BY <2>1, <2>2 DEF FilesInv, BusTypeOK, BusyHasFile, spiVars
  <2>5. i2c_fd[h] = NoFd
    BY DEF I2cOpen
  <2> QED
    BY <2>1, <2>3, <2>4, <2>5, I2cGetsKeeps DEF I2cGets, spiVars
<1> QED
  BY <1>1, <1>2 DEF I2cOpen

LEMMA I2cKeeps ==
  ASSUME FilesInv, I2cNext, UNCHANGED spiVars
  PROVE  FilesInv'
<1>1. PICK h \in I2cHandles : I2cOpen(h) \/ I2cQuery(h) \/ I2cTransfer(h) \/ I2cClose(h)
  BY DEF I2cNext
<1>2. CASE I2cOpen(h)
  BY <1>2, I2cOpenKeeps
<1>3. CASE I2cQuery(h)
  <2>1. i2c_fd[h] # NoFd
    BY <1>3 DEF FilesInv, BusyHasFile, I2cQuery
  <2> QED
    BY <1>3, <2>1, I2cGivesUp, I2cReturnsOnly DEF I2cQuery
<1>4. CASE I2cTransfer(h)
  BY <1>4, I2cReturnsOnly DEF I2cTransfer
<1>5. CASE I2cClose(h)
  BY <1>5, I2cGivesUp, I2cReturnsOnly DEF I2cClose
<1> QED
  BY <1>1, <1>2, <1>3, <1>4, <1>5

-----------------------------------------------------------------------------
(* The descriptors of the process *)

LEMMA InitFiles == ASSUME BusInit PROVE FilesInv
<1>1. NoFd \notin Fds /\ Nobody \notin SpiHandles \cup I2cHandles
  BY FdsAssumption, HandlesAssumption
<1> QED
  BY <1>1 DEF BusInit, FilesInit, SpiInit, I2cInit, FilesInv, BusTypeOK, BusyHasFile,
              SpiFilesOwned, I2cFilesOwned, Owners, SpiSteps

LEMMA StepFiles == ASSUME FilesInv, [BusNext]_busVars PROVE FilesInv'
<1>1. CASE SpiNext /\ UNCHANGED i2cVars
  BY <1>1, SpiKeeps
<1>2. CASE I2cNext /\ UNCHANGED spiVars
  BY <1>2, I2cKeeps
<1>3. CASE UNCHANGED busVars
  BY <1>3 DEF busVars, fileVars, spiVars, i2cVars, FilesInv, BusTypeOK, BusyHasFile,
              SpiFilesOwned, I2cFilesOwned
<1> QED
  BY <1>1, <1>2, <1>3 DEF BusNext

(* The descriptors of SPI and I2C handles stay apart, whatever is closed and opened. *)
THEOREM FilesInvariance == BusSpec => []FilesInv
  BY InitFiles, StepFiles, PTL DEF BusSpec

(* No spi_t holds, and so none closes, a descriptor that is not its own; no failed
   spi_open() leaves one open. *)
THEOREM SpiFilesHeld == BusSpec => []SpiFilesOwned
<1>1. FilesInv => SpiFilesOwned
  BY DEF FilesInv
<1> QED
  BY <1>1, FilesInvariance, PTL

(* The same of an i2c_t, whose open gives its descriptor up for an adapter without
   plain I2C. *)
THEOREM I2cFilesHeld == BusSpec => []I2cFilesOwned
<1>1. FilesInv => I2cFilesOwned
  BY DEF FilesInv
<1> QED
  BY <1>1, FilesInvariance, PTL

-----------------------------------------------------------------------------
(* What a setter or an open in progress knows of the device, as long as no other
   handle wrote to it. *)

Domains ==
  /\ DOMAIN spi_arg = SpiHandles /\ spi_arg = [g \in SpiHandles |-> spi_arg[g]]
  /\ DOMAIN spi_data = SpiHandles /\ spi_data = [g \in SpiHandles |-> spi_data[g]]

ReadWord(d, a) ==
  [mode |-> d.mode, order |-> d.order,
   flags |-> IF a.step = "flags32" THEN d.flags ELSE Low(d.flags)]

KnownOf(pc, d, a, w) ==
  /\ pc \in {"speed", "bits"} => d.mode = a.mode /\ d.order = a.order /\ d.flags = a.flags
  /\ pc = "bits" => d.speed = a.speed
  /\ pc = "write" => w = ReadWord(d, a)

Known ==
  \A h \in SpiHandles :
    spi_alone[h] => KnownOf(spi_pc[h], spidev, spi_arg[h], spi_data[h])

DeviceInv == SpiTypeOK /\ Domains /\ Known

LEMMA WordSet ==
  ASSUME NEW d \in Devices, NEW m \in 0 .. 3, NEW o \in {"msb", "lsb"}, NEW x \in Flags
  PROVE  [d EXCEPT !.mode = m, !.order = o, !.flags = x] \in Devices
  BY DEF Devices

LEMMA OrderSet ==
  ASSUME NEW d \in Devices, NEW o \in {"msb", "lsb"}
  PROVE  [d EXCEPT !.order = o] \in Devices
  BY DEF Devices

LEMMA NumberSet ==
  ASSUME NEW d \in Devices, NEW n \in Nat
  PROVE  [d EXCEPT !.speed = n] \in Devices /\ [d EXCEPT !.bits = n] \in Devices
  BY DEF Devices

LEMMA LowFlagsOnly == ASSUME NEW x \in Flags PROVE Low(x) \in Flags
  BY DEF Low, Flags

(* The step of h keeps the type, if what it makes of h and of the device has it. *)
ArgsTyped(pc, a, w) ==
  /\ pc \in {"mode", "speed", "bits"} => a \in Devices
  /\ pc = "write" => a \in SpiSetArgs /\ w \in ModeWords

(* A step of h that sets the fields of h alone, and writes to the device or not. *)
Sets(h, p, a, w) ==
  /\ spi_pc' = [spi_pc EXCEPT ![h] = p]
  /\ spi_arg' = [spi_arg EXCEPT ![h] = a]
  /\ spi_data' = [spi_data EXCEPT ![h] = w]
  /\ mode32_build' = mode32_build

LEMMA StepOfOne ==
  ASSUME DeviceInv, NEW h \in SpiHandles, NEW p \in SpiSteps, NEW a, NEW w, Sets(h, p, a, w),
         spi_fd' \in [SpiHandles -> Fds \cup {NoFd}], spidev' \in Devices,
         spi_alone' \in [SpiHandles -> BOOLEAN],
         \A g \in SpiHandles \ {h} : spi_alone'[g] => spi_alone[g] /\ spidev' = spidev,
         ArgsTyped(p, a, w),
         spi_alone'[h] => KnownOf(p, spidev', a, w)
  PROVE  DeviceInv'
<1>1. spi_pc'[h] = p /\ spi_arg'[h] = a /\ spi_data'[h] = w
  BY DEF Sets, DeviceInv, SpiTypeOK, Domains
<1>2. ASSUME NEW g \in SpiHandles, g # h
      PROVE  spi_pc'[g] = spi_pc[g] /\ spi_arg'[g] = spi_arg[g] /\ spi_data'[g] = spi_data[g]
  BY <1>2 DEF Sets, DeviceInv, SpiTypeOK, Domains
<1>3. ASSUME NEW g \in SpiHandles PROVE ArgsTyped(spi_pc'[g], spi_arg'[g], spi_data'[g])
  <2>1. CASE g = h
    BY <1>1, <2>1
  <2>2. CASE g # h
    BY <1>2, <2>2 DEF DeviceInv, SpiTypeOK, ArgsTyped
  <2> QED
    BY <2>1, <2>2
<1>4. spi_pc' \in [SpiHandles -> SpiSteps] /\ mode32_build' \in BOOLEAN
  BY DEF Sets, DeviceInv, SpiTypeOK
<1>5. SpiTypeOK'
  BY <1>3, <1>4 DEF SpiTypeOK, ArgsTyped
<1>6. Domains'
  BY DEF Sets, DeviceInv, Domains
<1>7. ASSUME NEW g \in SpiHandles, spi_alone'[g]
      PROVE  KnownOf(spi_pc'[g], spidev', spi_arg'[g], spi_data'[g])
  <2>1. CASE g = h
    BY <1>1, <1>7, <2>1
  <2>2. CASE g # h
    <3>1. spi_alone[g] /\ spidev' = spidev
      BY <1>7, <2>2
    <3>2. KnownOf(spi_pc[g], spidev, spi_arg[g], spi_data[g])
      BY <3>1 DEF DeviceInv, Known
    <3> QED
      BY <1>2, <2>2, <3>1, <3>2
  <2> QED
    BY <2>1, <2>2
<1>8. Known'
  BY <1>7 DEF Known
<1> QED
  BY <1>5, <1>6, <1>8 DEF DeviceInv

(* The four ways a step of an SPI handle treats the device. *)

LEMMA ReturnKeepsDevice ==
  ASSUME DeviceInv, NEW h \in SpiHandles, NEW r, SpiReturn(h, r), UNCHANGED mode32_build,
         UNCHANGED <<spidev, spi_alone>>, spi_fd' \in [SpiHandles -> Fds \cup {NoFd}]
  PROVE  DeviceInv'
<1>1. Sets(h, "idle", NoSpiArg, NoSpiArg)
  BY DEF SpiReturn, Sets
<1>2. ArgsTyped("idle", NoSpiArg, NoSpiArg) /\ KnownOf("idle", spidev', NoSpiArg, NoSpiArg)
  BY DEF ArgsTyped, KnownOf
<1>3. spidev' \in Devices /\ spi_alone' \in [SpiHandles -> BOOLEAN]
  BY DEF DeviceInv, SpiTypeOK
<1> QED
  BY <1>1, <1>2, <1>3, StepOfOne DEF SpiSteps

LEMMA WriteKeepsDevice ==
  ASSUME DeviceInv, NEW h \in SpiHandles, NEW r, NEW s \in Devices, SpiReturn(h, r),
         SpiWrites(h, s), UNCHANGED <<mode32_build, spi_fd>>
  PROVE  DeviceInv'
<1>1. Sets(h, "idle", NoSpiArg, NoSpiArg)
  BY DEF SpiReturn, Sets
<1>2. ArgsTyped("idle", NoSpiArg, NoSpiArg) /\ KnownOf("idle", spidev', NoSpiArg, NoSpiArg)
  BY DEF ArgsTyped, KnownOf
<1>3. spidev' \in Devices
  BY DEF SpiWrites
<1>4. spi_alone' \in [SpiHandles -> BOOLEAN] /\ \A g \in SpiHandles \ {h} : ~spi_alone'[g]
  BY DEF SpiWrites, DeviceInv, SpiTypeOK
<1>5. spi_fd' \in [SpiHandles -> Fds \cup {NoFd}]
  BY DEF DeviceInv, SpiTypeOK
<1> QED
  BY <1>1, <1>2, <1>3, <1>4, <1>5, StepOfOne DEF SpiSteps

LEMMA StartKeepsDevice ==
  ASSUME DeviceInv, NEW h \in SpiHandles, NEW p \in SpiSteps, NEW a, NEW w, SpiStart(h, p, a),
         spi_data' = [spi_data EXCEPT ![h] = w], UNCHANGED <<mode32_build, spidev>>,
         spi_fd' \in [SpiHandles -> Fds \cup {NoFd}],
         ArgsTyped(p, a, w), KnownOf(p, spidev, a, w)
  PROVE  DeviceInv'
<1>1. Sets(h, p, a, w)
  BY DEF SpiStart, Sets
<1>2. spidev' \in Devices /\ spidev' = spidev
  BY DEF DeviceInv, SpiTypeOK
<1>3. spi_alone' \in [SpiHandles -> BOOLEAN]
      /\ \A g \in SpiHandles \ {h} : spi_alone'[g] = spi_alone[g]
  BY DEF SpiStart, DeviceInv, SpiTypeOK
<1>4. KnownOf(p, spidev', a, w)
  BY <1>2
<1> QED
  BY <1>1, <1>2, <1>3, <1>4, StepOfOne

LEMMA OpenKeepsDevice ==
  ASSUME DeviceInv, NEW h \in SpiHandles, NEW a \in SpiOpenArgs, SpiOpen(h, a),
         UNCHANGED mode32_build, spi_fd' \in [SpiHandles -> Fds \cup {NoFd}]
  PROVE  DeviceInv'
<1>1. CASE \E r : SpiReturnOnly(h, r)
  BY <1>1, ReturnKeepsDevice DEF SpiReturnOnly
<1>2. CASE SpiArgsValid(a) /\ SpiStart(h, "mode", a) /\ UNCHANGED <<spidev, spi_data>>
  <2>1. a \in [mode : Nat, order : STRING, flags : Flags, speed : Nat, bits : Nat]
    BY SpiFlagsAssumption DEF Flags
  <2>2. a.mode \in 0 .. 3 /\ a.order \in {"msb", "lsb"}
    BY <1>2 DEF SpiArgsValid
  <2>3. a \in Devices
    BY ONLY <2>1, <2>2 DEF Devices
  <2>4. ArgsTyped("mode", a, spi_data[h]) /\ KnownOf("mode", spidev, a, spi_data[h])
    BY <2>3 DEF ArgsTyped, KnownOf
  <2>5. spi_data' = [spi_data EXCEPT ![h] = spi_data[h]]
    BY <1>2 DEF DeviceInv, Domains
  <2> QED
    BY <1>2, <2>4, <2>5, StartKeepsDevice DEF SpiSteps
<1> QED
  BY <1>1, <1>2 DEF SpiOpen

LEMMA ConfigureKeepsDevice ==
  ASSUME DeviceInv, NEW h \in SpiHandles, SpiConfigure(h),
         UNCHANGED mode32_build, spi_fd' \in [SpiHandles -> Fds \cup {NoFd}]
  PROVE  DeviceInv'
<1> DEFINE pc == spi_pc[h]
           a  == spi_arg[h]
           w  == spi_data[h]
           s  == Configured(pc, a)
<1>1. pc \in {"mode", "speed", "bits"} /\ a \in Devices /\ spidev \in Devices
  BY DEF SpiConfigure, DeviceInv, SpiTypeOK
<1>2. /\ a.mode \in 0 .. 3 /\ a.order \in {"msb", "lsb"} /\ a.flags \in Flags
      /\ a.speed \in Nat /\ a.bits \in Nat
  BY ONLY <1>1 DEF Devices
<1>3. s \in Devices
  BY <1>1, <1>2, WordSet, NumberSet DEF Configured
<1>4. CASE SpiGiveUp(h, "CONFIGURE")
  BY <1>4, ReturnKeepsDevice DEF SpiGiveUp
<1>5. CASE SpiWrites(h, s) /\ SpiReturn(h, "ok") /\ UNCHANGED spi_fd
  BY <1>3, <1>5, WriteKeepsDevice
<1>6. CASE /\ SpiWrites(h, s) /\ pc # "bits" /\ spi_pc' = [spi_pc EXCEPT ![h] = AfterIoctl(@)]
           /\ UNCHANGED <<spi_arg, spi_data>>
  <2> DEFINE p == AfterIoctl(pc)
  <2>1. Sets(h, p, a, w)
    BY <1>6 DEF Sets, DeviceInv, Domains
  <2>2. (pc = "mode" /\ p = "speed") \/ (pc = "speed" /\ p = "bits")
    <3>1. CASE pc = "mode"
      BY <3>1 DEF AfterIoctl
    <3>2. CASE pc = "speed"
      BY <3>2 DEF AfterIoctl
    <3> QED
      BY <1>1, <1>6, <3>1, <3>2
  <2>3. ArgsTyped(p, a, w)
    BY <1>1, <2>2 DEF ArgsTyped
  <2>4. spidev' = s
    BY <1>6 DEF SpiWrites
  <2>5. spi_alone' = [g \in SpiHandles |-> spi_alone[g] /\ g = h]
    BY <1>6 DEF SpiWrites
  <2>6. /\ spi_alone' \in [SpiHandles -> BOOLEAN] /\ \A g \in SpiHandles \ {h} : ~spi_alone'[g]
        /\ spi_alone'[h] => spi_alone[h]
    BY <2>5 DEF DeviceInv, SpiTypeOK
  <2>7. ASSUME spi_alone[h] PROVE KnownOf(p, s, a, w)
    <3>1. CASE pc = "mode"
      <4>1. s = [spidev EXCEPT !.mode = a.mode, !.order = a.order, !.flags = a.flags]
        BY <3>1 DEF Configured
      <4>2. s.mode = a.mode /\ s.order = a.order /\ s.flags = a.flags
        BY ONLY <1>1, <4>1 DEF Devices
      <4>3. p = "speed"
        BY <2>2, <3>1
      <4> QED
        BY <4>2, <4>3 DEF KnownOf
    <3>2. CASE pc = "speed"
      <4>1. s = [spidev EXCEPT !.speed = a.speed]
        BY <3>2 DEF Configured
      <4>2. KnownOf("speed", spidev, a, w)
        BY <2>7, <3>2 DEF DeviceInv, Known
      <4>3. spidev.mode = a.mode /\ spidev.order = a.order /\ spidev.flags = a.flags
        BY <4>2 DEF KnownOf
      <4>4. s.mode = a.mode /\ s.order = a.order /\ s.flags = a.flags /\ s.speed = a.speed
        BY ONLY <1>1, <4>1, <4>3 DEF Devices
      <4>5. p = "bits"
        BY <2>2, <3>2
      <4> QED
        BY <4>4, <4>5 DEF KnownOf
    <3> QED
      BY <2>2, <3>1, <3>2
  <2>8. p \in SpiSteps
    BY <2>2 DEF SpiSteps
  <2> HIDE DEF p, s, a, w
  <2> QED
    BY <1>3, <2>1, <2>3, <2>4, <2>6, <2>7, <2>8, StepOfOne
<1> QED
  BY <1>4, <1>5, <1>6 DEF SpiConfigure

(* The word a setter writes back is a word. *)
LEMMA WordTyped ==
  ASSUME NEW a \in SpiSetArgs, NEW w \in ModeWords, NEW d \in Devices
  PROVE  /\ ModeWord(w, a) \in ModeWords
         /\ [d EXCEPT !.mode = ModeWord(w, a).mode, !.order = ModeWord(w, a).order,
                      !.flags = ModeWord(w, a).flags] \in Devices
<1> DEFINE n == ModeWord(w, a)
<1>1. n \in ModeWords
  <2>1. CASE a.step = "mode"
    <3>1. a.value \in 0 .. 3
      BY <2>1 DEF SpiSetArgs
    <3>2. n = [w EXCEPT !.mode = a.value]
      BY <2>1 DEF ModeWord
    <3> QED
      BY ONLY <3>1, <3>2, w \in ModeWords DEF ModeWords
  <2>2. CASE a.step # "mode"
    <3>1. a.value \in Flags
      BY <2>2 DEF SpiSetArgs
    <3>2. n = [w EXCEPT !.flags = a.value]
      BY <2>2 DEF ModeWord
    <3> QED
      BY ONLY <3>1, <3>2, w \in ModeWords DEF ModeWords
  <2> QED
    BY <2>1, <2>2
<1> HIDE DEF n
<1>2. n.mode \in 0 .. 3 /\ n.order \in {"msb", "lsb"} /\ n.flags \in Flags
  BY <1>1 DEF ModeWords
<1>3. [d EXCEPT !.mode = n.mode, !.order = n.order, !.flags = n.flags] \in Devices
  BY <1>2, WordSet
<1> QED
  BY <1>1, <1>3 DEF n

LEMMA WriteBackKeepsDevice ==
  ASSUME DeviceInv, NEW h \in SpiHandles, SpiWriteBack(h),
         UNCHANGED mode32_build, spi_fd' \in [SpiHandles -> Fds \cup {NoFd}]
  PROVE  DeviceInv'
<1>1. spi_arg[h] \in SpiSetArgs /\ spi_data[h] \in ModeWords /\ spidev \in Devices
  BY DEF SpiWriteBack, DeviceInv, SpiTypeOK
<1>2. CASE SpiReturnOnly(h, "CONFIGURE")
  BY <1>2, ReturnKeepsDevice DEF SpiReturnOnly
<1>3. CASE /\ SpiWrites(h, WithWord(ModeWord(spi_data[h], spi_arg[h]))) /\ SpiReturn(h, "ok")
           /\ UNCHANGED spi_fd
  <2>1. WithWord(ModeWord(spi_data[h], spi_arg[h])) \in Devices
    BY <1>1, WordTyped DEF WithWord
  <2> QED
    BY <1>3, <2>1, WriteKeepsDevice
<1> QED
  BY <1>2, <1>3 DEF SpiWriteBack

LEMMA ReadWordKeepsDevice ==
  ASSUME DeviceInv, NEW h \in SpiHandles, NEW a \in SpiSetArgs, SpiReadWord(h, a),
         UNCHANGED mode32_build, spi_fd' \in [SpiHandles -> Fds \cup {NoFd}]
  PROVE  DeviceInv'
<1> DEFINE w == IF a.step = "flags32" THEN WordOf(spidev)
                ELSE [WordOf(spidev) EXCEPT !.flags = Low(@)]
<1>1. CASE SpiReturnOnly(h, "QUERY")
  BY <1>1, ReturnKeepsDevice DEF SpiReturnOnly
<1>2. CASE SpiStart(h, "write", a) /\ spi_data' = [spi_data EXCEPT ![h] = w] /\ UNCHANGED spidev
  <2>1. spidev \in Devices
    BY DEF DeviceInv, SpiTypeOK
  <2>2. /\ spidev.mode \in 0 .. 3 /\ spidev.order \in {"msb", "lsb"} /\ spidev.flags \in Flags
    BY <2>1 DEF Devices
  <2>3. Low(spidev.flags) \in Flags
    BY <2>2, LowFlagsOnly
  <2>4. w = ReadWord(spidev, a)
    BY DEF ReadWord, WordOf
  <2>5. ReadWord(spidev, a) \in ModeWords
    BY <2>2, <2>3 DEF ReadWord, ModeWords
  <2>6. ArgsTyped("write", a, w) /\ KnownOf("write", spidev, a, w)
    BY <2>4, <2>5 DEF ArgsTyped, KnownOf
  <2> HIDE DEF w
  <2> QED
    BY <1>2, <2>6, StartKeepsDevice DEF SpiSteps
<1> QED
  BY <1>1, <1>2 DEF SpiReadWord

LEMMA SetOneKeepsDevice ==
  ASSUME DeviceInv, NEW h \in SpiHandles, NEW s \in Devices, SpiSetOne(h, s),
         UNCHANGED mode32_build, spi_fd' \in [SpiHandles -> Fds \cup {NoFd}]
  PROVE  DeviceInv'
<1>1. CASE SpiReturnOnly(h, "CONFIGURE")
  BY <1>1, ReturnKeepsDevice DEF SpiReturnOnly
<1>2. CASE SpiWrites(h, s) /\ SpiReturn(h, "ok") /\ UNCHANGED spi_fd
  BY <1>2, WriteKeepsDevice
<1> QED
  BY <1>1, <1>2 DEF SpiSetOne

LEMMA SetCallsKeepDevice ==
  ASSUME DeviceInv, NEW h \in SpiHandles, SpiSetCalls(h),
         UNCHANGED mode32_build, spi_fd' \in [SpiHandles -> Fds \cup {NoFd}]
  PROVE  DeviceInv'
<1>0. spidev \in Devices
  BY DEF DeviceInv, SpiTypeOK
<1>1. ASSUME NEW m \in SpiModes, SpiSetMode(h, m) PROVE DeviceInv'
  <2>1. CASE m \in 0 .. 3
    <3>1. [step |-> "mode", value |-> m] \in SpiSetArgs
      BY <2>1 DEF SpiSetArgs
    <3> QED
      BY <1>1, <2>1, <3>1, ReadWordKeepsDevice DEF SpiSetMode
  <2>2. CASE m \notin 0 .. 3
    BY <1>1, <2>2, ReturnKeepsDevice DEF SpiSetMode, SpiReturnOnly
  <2> QED
    BY <2>1, <2>2
<1>2. ASSUME NEW x \in SpiFlags8, SpiSetExtraFlags(h, x) PROVE DeviceInv'
  <2>1. [step |-> "flags", value |-> x] \in SpiSetArgs
    BY SpiFlagsAssumption DEF SpiSetArgs, Flags
  <2> QED
    BY <1>2, <2>1, ReadWordKeepsDevice DEF SpiSetExtraFlags
<1>3. ASSUME NEW x \in SpiFlags32, SpiSetExtraFlags32(h, x) PROVE DeviceInv'
  <2>1. [step |-> "flags32", value |-> x] \in SpiSetArgs
    BY SpiFlagsAssumption DEF SpiSetArgs, Flags
  <2> QED
    BY <1>3, <2>1, ReadWordKeepsDevice, ReturnKeepsDevice DEF SpiSetExtraFlags32, SpiReturnOnly
<1>4. ASSUME NEW o \in SpiOrders, SpiSetBitOrder(h, o) PROVE DeviceInv'
  <2>1. CASE o \in {"msb", "lsb"}
    <3>1. [spidev EXCEPT !.order = o] \in Devices
      BY <1>0, <2>1, OrderSet
    <3> QED
      BY <1>4, <2>1, <3>1, SetOneKeepsDevice DEF SpiSetBitOrder
  <2>2. CASE o \notin {"msb", "lsb"}
    BY <1>4, <2>2, ReturnKeepsDevice DEF SpiSetBitOrder, SpiReturnOnly
  <2> QED
    BY <2>1, <2>2
<1>5. ASSUME NEW v \in SpiSpeeds, SpiSetMaxSpeed(h, v) PROVE DeviceInv'
  <2>1. [spidev EXCEPT !.speed = v] \in Devices
    BY <1>0, SpiFlagsAssumption, NumberSet
  <2> QED
    BY <1>5, <2>1, SetOneKeepsDevice DEF SpiSetMaxSpeed
<1>6. ASSUME NEW b \in SpiWords, SpiSetBitsPerWord(h, b) PROVE DeviceInv'
  <2>1. [spidev EXCEPT !.bits = b] \in Devices
    BY <1>0, SpiFlagsAssumption, NumberSet
  <2> QED
    BY <1>6, <2>1, SetOneKeepsDevice DEF SpiSetBitsPerWord
<1> QED
  BY <1>1, <1>2, <1>3, <1>4, <1>5, <1>6 DEF SpiSetCalls

LEMMA SpiKeepsDevice ==
  ASSUME DeviceInv, SpiNext, spi_fd' \in [SpiHandles -> Fds \cup {NoFd}]
  PROVE  DeviceInv'
<1>1. PICK h \in SpiHandles : SpiCalls(h)
  BY DEF SpiNext
<1>0. UNCHANGED mode32_build
  BY DEF SpiNext
<1>2. CASE \E a \in SpiOpenArgs : SpiOpen(h, a)
  BY <1>0, <1>2, OpenKeepsDevice
<1>3. CASE SpiConfigure(h)
  BY <1>0, <1>3, ConfigureKeepsDevice
<1>4. CASE SpiWriteBack(h)
  BY <1>0, <1>4, WriteBackKeepsDevice
<1>5. CASE SpiSetCalls(h)
  BY <1>0, <1>5, SetCallsKeepDevice
<1>6. CASE SpiTransfer(h) \/ SpiGet(h)
  BY <1>0, <1>6, ReturnKeepsDevice DEF SpiTransfer, SpiGet, SpiReturnOnly
<1>7. CASE SpiClose(h)
  BY <1>0, <1>7, ReturnKeepsDevice DEF SpiClose, SpiReturnOnly, SpiGiveUp
<1> QED
  BY <1>1, <1>2, <1>3, <1>4, <1>5, <1>6, <1>7 DEF SpiCalls

LEMMA InitDevice == ASSUME BusInit PROVE DeviceInv
<1>1. spidev = [mode |-> 0, order |-> "msb", flags |-> {}, speed |-> 1, bits |-> 8]
  BY DEF BusInit, SpiInit
<1>2. {} \in Flags
  BY DEF Flags
<1>3. spidev \in Devices
  BY ONLY <1>1, <1>2 DEF Devices
<1>4. mode32_build \in BOOLEAN
  BY SpiFlagsAssumption DEF BusInit, SpiInit
<1>5. /\ spi_fd = [h \in SpiHandles |-> NoFd] /\ spi_pc = [h \in SpiHandles |-> "idle"]
      /\ spi_arg = [h \in SpiHandles |-> NoSpiArg] /\ spi_data = [h \in SpiHandles |-> NoSpiArg]
      /\ spi_alone = [h \in SpiHandles |-> FALSE]
  BY DEF BusInit, SpiInit
<1>6. SpiTypeOK
  BY <1>3, <1>4, <1>5 DEF SpiTypeOK, SpiSteps
<1>7. Domains
  BY <1>5 DEF Domains
<1>8. Known
  BY <1>5 DEF Known
<1> QED
  BY <1>6, <1>7, <1>8 DEF DeviceInv

BusInv == FilesInv /\ DeviceInv

LEMMA StepBus == ASSUME BusInv, [BusNext]_busVars PROVE BusInv'
<1>1. FilesInv'
  BY StepFiles DEF BusInv
<1>2. CASE SpiNext
  BY <1>1, <1>2, SpiKeepsDevice DEF BusInv, FilesInv, BusTypeOK
<1>3. CASE UNCHANGED spiVars
  <2>1. /\ mode32_build' = mode32_build /\ spidev' = spidev /\ spi_fd' = spi_fd
        /\ spi_pc' = spi_pc /\ spi_arg' = spi_arg /\ spi_data' = spi_data
        /\ spi_alone' = spi_alone
    BY <1>3 DEF spiVars
  <2>2. SpiTypeOK'
    BY <2>1 DEF BusInv, DeviceInv, SpiTypeOK
  <2>3. Domains'
    BY <2>1 DEF BusInv, DeviceInv, Domains
  <2>4. Known'
    BY <2>1 DEF BusInv, DeviceInv, Known
  <2> QED
    BY <1>1, <2>2, <2>3, <2>4 DEF BusInv, DeviceInv
<1> QED
  BY <1>2, <1>3 DEF BusNext, busVars, spiVars

(* The device and what the calls in progress know of it agree throughout. *)
THEOREM BusInvariance == BusSpec => []BusInv
<1>1. BusInit => BusInv
  BY InitFiles, InitDevice DEF BusInv
<1> QED
  BY <1>1, StepBus, PTL DEF BusSpec

(* No mode, bit order or extra flag outside its enumeration reaches an SPI device. *)
THEOREM SpiTypeCorrect == BusSpec => []SpiTypeOK
<1>1. BusInv => SpiTypeOK
  BY DEF BusInv, DeviceInv
<1> QED
  BY <1>1, BusInvariance, PTL

-----------------------------------------------------------------------------
(* A call that returns 0 *)

(* Only its own steps move a handle. *)
LEMMA MovesOne == ASSUME NEW g, SpiCalls(g) PROVE \E p : spi_pc' = [spi_pc EXCEPT ![g] = p]
<1>1. ASSUME NEW r, SpiReturn(g, r) PROVE spi_pc' = [spi_pc EXCEPT ![g] = "idle"]
  BY <1>1 DEF SpiReturn
<1>2. ASSUME NEW p, NEW a, SpiStart(g, p, a) PROVE spi_pc' = [spi_pc EXCEPT ![g] = p]
  BY <1>2 DEF SpiStart
<1>3. ASSUME NEW a, SpiOpen(g, a) PROVE \E p : spi_pc' = [spi_pc EXCEPT ![g] = p]
  BY <1>1, <1>2, <1>3 DEF SpiOpen, SpiReturnOnly
<1>4. ASSUME SpiConfigure(g) PROVE \E p : spi_pc' = [spi_pc EXCEPT ![g] = p]
  BY <1>1, <1>4 DEF SpiConfigure, SpiGiveUp
<1>5. ASSUME SpiWriteBack(g) PROVE \E p : spi_pc' = [spi_pc EXCEPT ![g] = p]
  BY <1>1, <1>5 DEF SpiWriteBack, SpiReturnOnly
<1>6. ASSUME NEW a, SpiReadWord(g, a) PROVE \E p : spi_pc' = [spi_pc EXCEPT ![g] = p]
  BY <1>1, <1>2, <1>6 DEF SpiReadWord, SpiReturnOnly
<1>7. ASSUME NEW s, SpiSetOne(g, s) PROVE \E p : spi_pc' = [spi_pc EXCEPT ![g] = p]
  BY <1>1, <1>7 DEF SpiSetOne, SpiReturnOnly
<1>8. ASSUME SpiSetCalls(g) PROVE \E p : spi_pc' = [spi_pc EXCEPT ![g] = p]
  BY <1>1, <1>6, <1>7, <1>8 DEF SpiSetCalls, SpiSetMode, SpiSetExtraFlags, SpiSetExtraFlags32,
       SpiSetBitOrder, SpiSetMaxSpeed, SpiSetBitsPerWord, SpiReturnOnly
<1>9. ASSUME SpiTransfer(g) \/ SpiGet(g) \/ SpiClose(g)
      PROVE \E p : spi_pc' = [spi_pc EXCEPT ![g] = p]
  BY <1>1, <1>9 DEF SpiTransfer, SpiGet, SpiClose, SpiReturnOnly, SpiGiveUp
<1> QED
  BY <1>3, <1>4, <1>5, <1>8, <1>9 DEF SpiCalls

(* The last ioctl of a call: what it made of the device. *)
LEMMA LastIoctl ==
  ASSUME BusInv, [BusNext]_busVars, NEW h \in SpiHandles, Succeeds(h)
  PROVE  \/ spi_pc[h] = "bits" /\ spidev' = [spidev EXCEPT !.bits = spi_arg[h].bits]
         \/ spi_pc[h] = "write" /\ spidev' = WithWord(ModeWord(spi_data[h], spi_arg[h]))
<1>1. spi_pc[h] # "idle" /\ spi_pc'[h] = "idle" /\ returned' = "ok"
  BY DEF Succeeds, SpiIdle
<1>2. spi_pc' # spi_pc
  BY <1>1
<1>3. SpiNext
  BY <1>2 DEF BusNext, busVars, spiVars
<1>4. PICK g \in SpiHandles : SpiCalls(g)
  BY <1>3 DEF SpiNext
<1>5. g = h
  BY <1>1, <1>4, MovesOne DEF BusInv, DeviceInv, SpiTypeOK
<1>6. SpiConfigure(h) \/ SpiWriteBack(h)
  BY <1>1, <1>4, <1>5 DEF SpiCalls, SpiOpen, SpiSetCalls, SpiSetMode, SpiSetExtraFlags,
       SpiSetExtraFlags32, SpiSetBitOrder, SpiSetMaxSpeed, SpiSetBitsPerWord, SpiTransfer,
       SpiGet, SpiClose, SpiOpened, SpiIdle
<1>7. CASE SpiConfigure(h)
  <2>1. ~SpiGiveUp(h, "CONFIGURE")
    BY <1>1 DEF SpiGiveUp, SpiReturn
  <2>2. SpiWrites(h, Configured(spi_pc[h], spi_arg[h])) /\ returned' # "none"
    BY <1>1, <1>7, <2>1 DEF SpiConfigure
  <2>3. spi_pc[h] = "bits"
    BY <1>7, <2>1, <2>2 DEF SpiConfigure
  <2>4. Configured("bits", spi_arg[h]) = [spidev EXCEPT !.bits = spi_arg[h].bits]
    BY DEF Configured
  <2> QED
    BY <2>2, <2>3, <2>4 DEF SpiWrites
<1>8. CASE SpiWriteBack(h)
  BY <1>1, <1>8 DEF SpiWriteBack, SpiReturnOnly, SpiReturn, SpiWrites
<1> QED
  BY <1>6, <1>7, <1>8

LEMMA SetterFacts ==
  ASSUME NEW d \in Devices, NEW a \in SpiSetArgs, NEW w \in ModeWords
  PROVE  LET n == [d EXCEPT !.mode = ModeWord(w, a).mode, !.order = ModeWord(w, a).order,
                           !.flags = ModeWord(w, a).flags]
         IN  /\ n.speed = d.speed /\ n.bits = d.bits /\ n.order = w.order
             /\ a.step = "mode" => n.mode = a.value /\ n.flags = w.flags
             /\ a.step # "mode" => n.mode = w.mode /\ n.flags = a.value
<1> DEFINE m == ModeWord(w, a)
           n == [d EXCEPT !.mode = m.mode, !.order = m.order, !.flags = m.flags]
<1>1. CASE a.step = "mode"
  <2>1. m = [w EXCEPT !.mode = a.value]
    BY <1>1 DEF ModeWord
  <2>2. m.mode = a.value /\ m.order = w.order /\ m.flags = w.flags
    BY ONLY <2>1, w \in ModeWords DEF ModeWords
  <2> HIDE DEF m
  <2>3. n.mode = m.mode /\ n.order = m.order /\ n.flags = m.flags
        /\ n.speed = d.speed /\ n.bits = d.bits
    BY DEF Devices
  <2> QED
    BY <1>1, <2>2, <2>3 DEF m
<1>2. CASE a.step # "mode"
  <2>1. m = [w EXCEPT !.flags = a.value]
    BY <1>2 DEF ModeWord
  <2>2. m.mode = w.mode /\ m.order = w.order /\ m.flags = a.value
    BY ONLY <2>1, w \in ModeWords DEF ModeWords
  <2> HIDE DEF m
  <2>3. n.mode = m.mode /\ n.order = m.order /\ n.flags = m.flags
        /\ n.speed = d.speed /\ n.bits = d.bits
    BY DEF Devices
  <2> QED
    BY <1>2, <2>2, <2>3 DEF m
<1> QED
  BY <1>1, <1>2

(* Devices with the same fields are equal. *)
LEMMA SameDevice ==
  ASSUME NEW d \in Devices, NEW e \in Devices, d.mode = e.mode, d.order = e.order,
         d.flags = e.flags, d.speed = e.speed, d.bits = e.bits
  PROVE  d = e
  BY DEF Devices

LEMMA BitsExact ==
  ASSUME BusInv, NEW h \in SpiHandles, spi_alone[h], spi_pc[h] = "bits",
         spidev' = [spidev EXCEPT !.bits = spi_arg[h].bits]
  PROVE  spidev' = Asked(h)
<1> DEFINE a == spi_arg[h]
           d == spidev'
<1>1. a \in Devices /\ spidev \in Devices
  BY DEF BusInv, DeviceInv, SpiTypeOK
<1>2. KnownOf("bits", spidev, a, spi_data[h])
  BY DEF BusInv, DeviceInv, Known
<1>3. /\ spidev.mode = a.mode /\ spidev.order = a.order /\ spidev.flags = a.flags
      /\ spidev.speed = a.speed
  BY <1>2 DEF KnownOf
<1>4. a.bits \in Nat
  BY ONLY <1>1 DEF Devices
<1>5. d \in Devices
  BY <1>1, <1>4, NumberSet
<1>6. d.mode = a.mode /\ d.order = a.order /\ d.flags = a.flags /\ d.speed = a.speed
      /\ d.bits = a.bits
  BY ONLY <1>1, <1>3, spidev' = [spidev EXCEPT !.bits = a.bits] DEF Devices
<1>7. Asked(h) = a
  BY DEF Asked
<1> HIDE DEF a, d
<1>8. d = a
  BY <1>1, <1>5, <1>6, SameDevice
<1> QED
  BY <1>7, <1>8 DEF d

LEMMA WriteExact ==
  ASSUME BusInv, NEW h \in SpiHandles, spi_alone[h], spi_pc[h] = "write",
         spidev' = WithWord(ModeWord(spi_data[h], spi_arg[h]))
  PROVE  spidev' = Asked(h)
<1> DEFINE a == spi_arg[h]
           w == spi_data[h]
           d == spidev'
<1>1. a \in SpiSetArgs /\ w \in ModeWords /\ spidev \in Devices
  BY DEF BusInv, DeviceInv, SpiTypeOK
<1>2. KnownOf("write", spidev, a, w)
  BY DEF BusInv, DeviceInv, Known
<1>3. w = ReadWord(spidev, a)
  BY <1>2 DEF KnownOf
<1>4. /\ w.mode = spidev.mode /\ w.order = spidev.order
      /\ a.step = "mode" => w.flags = Low(spidev.flags)
  BY <1>3 DEF ReadWord
<1>5. d = [spidev EXCEPT !.mode = ModeWord(w, a).mode, !.order = ModeWord(w, a).order,
                        !.flags = ModeWord(w, a).flags]
  BY DEF WithWord
<1>6. d \in Devices
  <2>1. [spidev EXCEPT !.mode = ModeWord(w, a).mode, !.order = ModeWord(w, a).order,
                      !.flags = ModeWord(w, a).flags] \in Devices
    BY ONLY <1>1, WordTyped
  <2> QED
    BY <1>5, <2>1
<1>7. /\ d.speed = spidev.speed /\ d.bits = spidev.bits /\ d.order = w.order
      /\ a.step = "mode" => d.mode = a.value /\ d.flags = w.flags
      /\ a.step # "mode" => d.mode = w.mode /\ d.flags = a.value
  BY <1>1, <1>5, SetterFacts
<1> HIDE DEF w, d
<1>8. /\ spidev.mode \in 0 .. 3 /\ spidev.order \in {"msb", "lsb"} /\ spidev.flags \in Flags
      /\ spidev.speed \in Nat /\ spidev.bits \in Nat
  BY ONLY <1>1 DEF Devices
<1>9. CASE a.step = "mode"
  <2> DEFINE e == [spidev EXCEPT !.mode = a.value, !.flags = Low(@)]
  <2>1. Asked(h) = e
    BY <1>9 DEF Asked
  <2>2. /\ e.mode = a.value /\ e.flags = Low(spidev.flags) /\ e.order = spidev.order
        /\ e.speed = spidev.speed /\ e.bits = spidev.bits
    BY ONLY <1>1 DEF Devices
  <2>3. a.value \in 0 .. 3 /\ Low(spidev.flags) \in Flags
    BY <1>1, <1>8, <1>9, LowFlagsOnly DEF SpiSetArgs
  <2>4. e \in Devices
    BY ONLY <1>1, <2>3 DEF Devices
  <2> HIDE DEF a, e
  <2>5. d = e
    BY <1>4, <1>6, <1>7, <1>9, <2>2, <2>4, SameDevice
  <2> QED
    BY <2>1, <2>5 DEF d
<1>10. CASE a.step # "mode"
  <2> DEFINE e == [spidev EXCEPT !.flags = a.value]
  <2>1. Asked(h) = e
    BY <1>10 DEF Asked
  <2>2. /\ e.flags = a.value /\ e.mode = spidev.mode /\ e.order = spidev.order
        /\ e.speed = spidev.speed /\ e.bits = spidev.bits
    BY ONLY <1>1 DEF Devices
  <2>3. a.value \in Flags
    BY <1>1, <1>10 DEF SpiSetArgs
  <2>4. e \in Devices
    BY ONLY <1>1, <2>3 DEF Devices
  <2> HIDE DEF a, e
  <2>5. d = e
    BY <1>4, <1>6, <1>7, <1>10, <2>2, <2>4, SameDevice
  <2> QED
    BY <2>1, <2>5 DEF d
<1> QED
  BY <1>9, <1>10

(* An open or a setter that returns 0 without another handle writing meanwhile made
   of the device what it was asked for and nothing else. *)
THEOREM CallsExact == BusSpec => SpiCallExact
<1>1. BusInv /\ [BusNext]_busVars =>
        [\A h \in SpiHandles : Succeeds(h) /\ spi_alone[h] => spidev' = Asked(h)]_<<fileVars, spiVars>>
  BY LastIoctl, BitsExact, WriteExact
<1> QED
  BY <1>1, BusInvariance, PTL DEF BusSpec, SpiCallExact

(* With other handles writing, a setter takes from them only what its read did not
   see. *)
THEOREM OthersKept == BusSpec => OtherSettingsKept
<1>1. ASSUME BusInv, [BusNext]_busVars, NEW h \in SpiHandles, NEW s \in {"mode", "order", "flags"},
             Succeeds(h), spi_pc[h] = "write",
             s # IF spi_arg[h].step = "mode" THEN "mode" ELSE "flags"
      PROVE  spidev'[s] = spidev[s] \/ spi_data[h][s] # spidev[s]
  <2> DEFINE a == spi_arg[h]
             w == spi_data[h]
             d == spidev'
  <2>1. a \in SpiSetArgs /\ w \in ModeWords /\ spidev \in Devices
    BY <1>1 DEF BusInv, DeviceInv, SpiTypeOK
  <2>2. d = WithWord(ModeWord(w, a))
    BY <1>1, LastIoctl
  <2>3. d = [spidev EXCEPT !.mode = ModeWord(w, a).mode, !.order = ModeWord(w, a).order,
                          !.flags = ModeWord(w, a).flags]
    BY <2>2 DEF WithWord
  <2>4. /\ d.order = w.order
        /\ a.step = "mode" => d.flags = w.flags
        /\ a.step # "mode" => d.mode = w.mode
    BY <2>1, <2>3, SetterFacts
  <2>5. d[s] = w[s]
    BY <1>1, <2>4
  <2> QED
    BY <2>5
<1>2. BusInv /\ [BusNext]_busVars =>
        [\A h \in SpiHandles, s \in {"mode", "order", "flags"} :
           /\ Succeeds(h) /\ spi_pc[h] = "write"
           /\ s # IF spi_arg[h].step = "mode" THEN "mode" ELSE "flags"
           => spidev'[s] = spidev[s] \/ spi_data[h][s] # spidev[s]]_<<fileVars, spiVars>>
  BY <1>1
<1> QED
  BY <1>2, BusInvariance, PTL DEF BusSpec, OtherSettingsKept

=============================================================================
