----------------------------- MODULE MCLauncher -----------------------------
(* Two command line processes and the window's button, two games and one     *)
(* window that is reopened once.                                             *)
EXTENDS Launcher, TLC

CONSTANTS c1, c2, worker, nobody

MCClis == {c1, c2}

\* The command line processes are alike.
MCSymmetry == Permutations(MCClis)
=============================================================================
