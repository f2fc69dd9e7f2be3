------------------------------ MODULE MCThreads ------------------------------
(* Instances of Threads for TLC.                                           *)
EXTENDS Threads

MCAllModes   == AllSyncModes
MCCond       == {"cond"}
MCMayFail    == {"start", "none"}
MCNeverFails == {"start"}
=============================================================================
