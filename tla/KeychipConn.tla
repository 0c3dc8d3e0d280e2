---------------------------- MODULE KeychipConn -----------------------------
(***************************************************************************)
(* One connection of the PCP servers: client_thread of                      *)
(* src/host/keychip_server.c.  Each connection has a thread and buffers of  *)
(* its own, and kc_respond keeps nothing between requests, so connections   *)
(* do not meet.  The prompt that follows every answer is left out.             *)
(***************************************************************************)
EXTENDS PcpLines

CONSTANTS
  Cap,       \* characters `in` holds besides its terminator (1023)
  Chunk,     \* size of one recv (512)
  LineCap    \* characters `line` holds besides its terminator (599)

\* No line is so long that the rest of it and a full chunk overflow the buffer.
ASSUME KeychipAssumption ==
  /\ Cap \in Nat /\ Chunk \in Nat \ {0} /\ LineCap \in Nat
  /\ MaxLine + Chunk <= Cap
  /\ MaxLine <= LineCap

\* Who sets a count says which.
ASSUME CountAssumption ==
  \A l \in Lines : IsPrefix(Fg(<<"set", "count">>), l) =>
    Len(l) > 5 /\ l[5] = "=" /\ l[6] \notin {CR, "&", ""}

VARIABLES
  net,       \* sent by the client, not yet received
  in,        \* the buffer
  answered,  \* lines answered so far, each with its answer
  lines,     \* lines the client has sent
  open

kcVars == <<net, in, answered, lines, open>>

Promise == INSTANCE LineServer WITH todo <- in \o net

TypeOK ==
  /\ Len(in) <= Cap
  /\ Len(answered) + Cardinality({i \in DOMAIN (in \o net) : (in \o net)[i] = NL}) <= lines
  /\ lines \in 0 .. MaxLines /\ open \in BOOLEAN

Init == net = <<>> /\ in = <<>> /\ answered = <<>> /\ lines = 0 /\ open = TRUE

\* The client sends a line, whenever it likes (external).
SendLine(l) ==
  /\ open /\ lines < MaxLines
  /\ lines' = lines + 1
  /\ net' = net \o Append(l, NL)
  /\ UNCHANGED <<in, answered, open>>

\* A chunk that does not fit empties the buffer.
Kept(n) == IF Len(in) + n > Cap THEN <<>> ELSE in

\* Fault: recv waits until its buffer is full.
ArrivesWhole(n) == n = Chunk /\ n <= Len(net)

\* recv returns what has arrived.
Arrives(n) == n \in 1 .. Chunk /\ n <= Len(net)

\* recv: only when no complete line is left to answer.
Receive(n) ==
  /\ open /\ ~HasLine(in)
  /\ Arrives(n)
  /\ in' = Kept(n) \o SubSeq(net, 1, n)
  /\ net' = SubSeq(net, n + 1, Len(net))
  /\ UNCHANGED <<answered, lines, open>>

Rest == After(in)

Line == SubSeq(Text(in), 1, IF Len(Text(in)) < LineCap THEN Len(Text(in)) ELSE LineCap)

TakeLine == open /\ HasLine(in) /\ in' = Rest

AnswerLine ==
  /\ TakeLine
  /\ \E l \in {Line} :
       answered' = IF l = <<>> THEN answered ELSE Append(answered, <<l, KcRespond(l)>>)
  /\ UNCHANGED <<net, lines, open>>

\* recv returns 0 or an error.
Disconnect ==
  /\ open /\ ~HasLine(in)
  /\ open' = FALSE
  /\ net' = <<>> /\ in' = <<>>
  /\ UNCHANGED <<answered, lines>>

Next == (\E l \in Lines : SendLine(l)) \/ (\E n \in 1 .. Chunk : Receive(n))
        \/ AnswerLine \/ Disconnect

Spec == Init /\ [][Next]_kcVars

\* The thread blocks in recv until something has arrived.  Only AnswerLine takes a line.
KcFairness == WF_kcVars(\E n \in 1 .. Chunk : Receive(n)) /\ WF_in(TakeLine)

-----------------------------------------------------------------------------
(* Properties *)

\* In whatever pieces the stream arrives, each non-empty line the client has
\* ended is answered once, in order and in full, with the answer KeychipProto
\* promises.
AnswersInOrder == Promise!LineSpec

\* No line the client has ended waits for ever, several of them in one chunk neither.
NoLineWaits == Promise!NoneWaits
=============================================================================
