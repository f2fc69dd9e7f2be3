------------------------------ MODULE MCQueues ------------------------------
(* Instances of Queues for TLC.                                            *)
EXTENDS Queues

MCModes == AllModes
=============================================================================
