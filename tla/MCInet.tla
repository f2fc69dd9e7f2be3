-------------------------------- MODULE MCInet --------------------------------
(* Instances of Inet for TLC.                                              *)
EXTENDS Inet

CONSTANTS c1, c2

MCClients    == {c1, c2}
MCTransports == {"inet", "local"}

\* What a second start finds is the path; a port can be bound again.
MCStarts == [inet |-> 1, local |-> 2]
===============================================================================
