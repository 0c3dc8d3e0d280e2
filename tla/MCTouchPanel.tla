---------------------------- MODULE MCTouchPanel ----------------------------
(* A queue that holds two replies and a third of one; two touches, past       *)
(* either end of the range; a mouse inside the window and one outside.  Many   *)
(* commands without a file, or few with one that is written twice.             *)
EXTENDS TouchPanel

MCKinds   == {"p", "other"}
MCFiles   == {[press |-> TRUE, xm |-> 0 - 1, ym |-> 3], [press |-> FALSE, xm |-> 1, ym |-> 0]}
MCCursors == {<<0, 1>>, <<2, 0>>}
MCBudgets == {[cmds |-> 3, writes |-> 0], [cmds |-> 0, writes |-> 2]}
=============================================================================
