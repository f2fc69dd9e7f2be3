--------------------------- MODULE MCSharedMemory ---------------------------
(* Instances of SharedMemory for TLC.                                      *)
EXTENDS SharedMemory

MCModes == {"x", "v"}
=============================================================================
