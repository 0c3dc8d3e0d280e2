----------------------------- MODULE MCLogTail -----------------------------
(* Two launches, each by the window or by another process, and three lines    *)
(* between them; or one launch and a user at work.  A line tells of a failure *)
(* or of the I/O; a ReadFile ends inside one, a third entry drops the first.  *)
EXTENDS LogTail

MCSaid ==
  [l \in {<<Text(r, k)>> : r \in Runs, k \in 1 .. MaxLines} \cup {<<LoaderLine(r)>> : r \in Runs} |->
     CASE l[1][2] = 0 -> [lvl |-> "info", ev |-> "loader", words |-> {"msg"}]
       [] l[1][2] = 1 -> [lvl |-> "info", ev |-> "jvs", words |-> {"fail"}]
       [] OTHER       -> [lvl |-> "info", ev |-> "jvs.tick", words |-> {"jvs"}]]

MCWords == {"jvs"}
MCHeights == {1, 2}
MCBudgets == {[runs |-> 2, lines |-> 3, acts |-> 0],
              [runs |-> 1, lines |-> 2, acts |-> 1],
              [runs |-> 1, lines |-> 1, acts |-> 2]}
=============================================================================
