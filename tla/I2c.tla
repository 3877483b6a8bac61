--------------------------------- MODULE I2c ---------------------------------
(***************************************************************************)
(* The I2C library, i2c.c: a descriptor, and an open that gives it up when *)
(* the adapter does not do plain I2C.                                      *)
(***************************************************************************)
EXTENDS Files

CONSTANT I2cHandles     (* i2c_t handles, each used by one thread          *)

VARIABLES
  i2c_fd,         (* the field of each i2c_t                               *)
  i2c_pc          (* where the handle's thread is in i2c_open()            *)

i2cVars == <<i2c_fd, i2c_pc>>

-----------------------------------------------------------------------------

I2cIdle(h) == i2c_pc[h] = "idle"

I2cReturn(h, r) ==
  /\ i2c_pc' = [i2c_pc EXCEPT ![h] = "idle"]
  /\ returned' = r

I2cReturnOnly(h, r) == I2cReturn(h, r) /\ UNCHANGED <<files, i2c_fd>>

(* i2c_open() *)
I2cOpen(h) ==
  /\ I2cIdle(h) /\ i2c_fd[h] = NoFd
  /\ \/ I2cReturnOnly(h, "OPEN")
     \/ \E f \in Fds :
          /\ Obtain(h, f)
          /\ i2c_fd' = [i2c_fd EXCEPT ![h] = f]
          /\ i2c_pc' = [i2c_pc EXCEPT ![h] = "query"]
          /\ returned' = "none"

(* Mutant: the closed descriptor stays in the handle. *)
I2cGiveUpStale(h, r) ==
  /\ CloseFile(i2c_fd[h])
  /\ I2cReturn(h, r)
  /\ UNCHANGED i2c_fd

I2cGiveUp(h, r) ==
  /\ CloseFile(i2c_fd[h])
  /\ i2c_fd' = [i2c_fd EXCEPT ![h] = NoFd]
  /\ I2cReturn(h, r)

(* The functions of the adapter are queried, and plain I2C is required. *)
I2cQuery(h) ==
  /\ i2c_pc[h] = "query"
  /\ \/ I2cGiveUp(h, "QUERY")
     \/ I2cGiveUp(h, "NOT_SUPPORTED")
     \/ I2cReturnOnly(h, "ok")

(* i2c_transfer() *)
I2cTransfer(h) ==
  /\ I2cIdle(h) /\ i2c_fd[h] # NoFd
  /\ I2cReturnOnly(h, "TRANSFER") \/ I2cReturnOnly(h, "ok")

(* i2c_close() *)
I2cClose(h) ==
  /\ I2cIdle(h)
  /\ \/ i2c_fd[h] = NoFd /\ I2cReturnOnly(h, "ok")
     \/ i2c_fd[h] # NoFd /\ I2cGiveUp(h, "ok")

-----------------------------------------------------------------------------

I2cInit ==
  /\ i2c_fd = [h \in I2cHandles |-> NoFd]
  /\ i2c_pc = [h \in I2cHandles |-> "idle"]

I2cNext ==
  \E h \in I2cHandles : I2cOpen(h) \/ I2cQuery(h) \/ I2cTransfer(h) \/ I2cClose(h)

-----------------------------------------------------------------------------

(* CHANGELOG.md, v2.2.4: no "future spurious close" after an error during open.
   The descriptor of an i2c_t is one its own open got and nobody closed, and an
   open that failed has left none open, whichever numbers other modules of the
   process close and get meanwhile. *)
I2cFilesOwned ==
  \A h \in I2cHandles :
    /\ i2c_fd[h] # NoFd => i2c_fd[h] \in Fds /\ files[i2c_fd[h]] = h
    /\ \A f \in Fds : files[f] = h => i2c_fd[h] = f

=============================================================================
