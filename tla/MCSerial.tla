------------------------------ MODULE MCSerial ------------------------------
(***************************************************************************)
(* Instances of Serial for TLC.                                            *)
(***************************************************************************)
EXTENDS Serial

MCForever == -1
MCTimeouts == {0, 2, -1}
MCVtimeArgs == {-1, 0, 2, 256}

=============================================================================
