------------------------------ MODULE MCDaemon ------------------------------
(* Instances of Daemon for TLC: every configuration has the lock file and  *)
(* the socket of ex27_daemon.conf; what is edited is the file to check.    *)
EXTENDS Daemon

CONSTANTS d1, d2, c1, c2

MCDaemons  == {d1, d2}
TwoClients == {c1, c2}
OneClient  == {c1}

Conf(f, l) == [lockfile  |-> Value("ots.pid", 7),
               socket    |-> Value("ots.socket", 10),
               checkfile |-> Value(f, l)]

OneConfig == {Conf("short", 5)}
MCConfigs == {Conf("short", 5), Conf("longer", 6)}
=============================================================================
