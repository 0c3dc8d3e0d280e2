----------------------------- MODULE LineServer -----------------------------
(***************************************************************************)
(* What a PCP connection promises (facts/mxkeychip.md): every line the      *)
(* client sends is answered once, in order, by what KeychipProto promises,  *)
(* and an empty line is skipped, however the network cuts the stream into   *)
(* pieces.                                                                 *)
(***************************************************************************)
EXTENDS PcpLines

VARIABLES
  todo,      \* sent by the client, not yet answered
  answered,  \* the lines answered, in order, each with its answer
  lines,     \* how many lines the client has sent
  open       \* the connection

lineVars == <<todo, answered, lines, open>>

LineInit == todo = <<>> /\ answered = <<>> /\ lines = 0 /\ open = TRUE

Send(l) ==
  /\ open /\ lines < MaxLines
  /\ lines' = lines + 1
  /\ todo' = todo \o Append(l, NL)
  /\ UNCHANGED <<answered, open>>

Answer ==
  /\ open /\ HasLine(todo)
  /\ \E line \in {Text(todo)} :
       answered' = IF line = <<>> THEN answered ELSE Append(answered, <<line, Promised(line)>>)
  /\ todo' = After(todo)
  /\ UNCHANGED <<lines, open>>

\* The client leaves; what is unanswered is forgotten.
Leave ==
  /\ open
  /\ open' = FALSE
  /\ todo' = <<>>
  /\ UNCHANGED <<answered, lines>>

LineNext == (\E l \in Lines : Send(l)) \/ Answer \/ Leave

LineSpec == LineInit /\ [][LineNext]_lineVars

\* No line waits for ever.
NoneWaits == []<>(open => ~HasLine(todo))
=============================================================================
