---------------------------- MODULE MCHostReload ----------------------------
(* Two game threads, the initial logic.dll and one rebuild of it.  A build   *)
(* moves the write time twice, so MaxWrites = 3; the watcher can then load    *)
(* at most three times.                                                       *)
EXTENDS HostReload

CONSTANTS t1, t2, host, nobody

MCThreads  == {t1, t2}
MCLeftover == {}

\* One thread is enough to block on a queued publisher.
MCOneThread == {t1}
=============================================================================
