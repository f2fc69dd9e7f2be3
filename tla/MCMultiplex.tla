----------------------------- MODULE MCMultiplex -----------------------------
(* Instances of Multiplex for TLC.                                         *)
EXTENDS Multiplex

CONSTANTS c1, c2

MCModes   == AllModes
MCClients == {c1, c2}
=============================================================================
