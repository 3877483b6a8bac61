-------------------------------- MODULE Files --------------------------------
(***************************************************************************)
(* The descriptor table of a process, for the modules whose handles hold   *)
(* one descriptor of a device each.  A number that was closed is given out *)
(* again.                                                                  *)
(***************************************************************************)
CONSTANTS
  Fds,            (* descriptor numbers                                    *)
  NoFd,           (* -1                                                    *)
  Nobody          (* the owner of a free number                            *)

ASSUME FdsAssumption == NoFd \notin Fds

VARIABLES
  files,          (* the handle whose call opened each descriptor          *)
  returned        (* what the last step returned, if a call ended with it  *)

fileVars == <<files, returned>>

(* open() gives h the number f. *)
Obtain(h, f) ==
  /\ files[f] = Nobody
  /\ files' = [files EXCEPT ![f] = h]

(* close() of the number f, whoever holds it by now. *)
CloseFile(f) == files' = [files EXCEPT ![f] = Nobody]

FilesInit == files = [f \in Fds |-> Nobody] /\ returned = "none"

=============================================================================
