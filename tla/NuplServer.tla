----------------------------- MODULE NuplServer -----------------------------
(***************************************************************************)
(* The ALL.Net server: allnet_client of src/host/allnet.c, a thread for     *)
(* each connection.  Three buffers and the tables of the fixed codes are    *)
(* static: the threads share them without a lock.  A text is a sequence of  *)
(* words, a word a number below 144 that base64 does not know; a request    *)
(* arrives as two pieces of header and two of body.                         *)
(***************************************************************************)
EXTENDS NuplCodec

CONSTANTS
  Conns,       \* connections, each with a thread
  OutCap       \* sizeof rbody

\* Words.
Amp       == 65
Zero      == 66
CommandIs == 67
CommonIs  == 68
Request   == 69
Response  == 70
Protocol  == 71
Header    == 72
CardBytes == 73
Stat      == 74
Fields    == 100   \* Fields + name: what the name's answer tells

Names == [init |-> 80, end |-> 81, rank |-> 82, ngword |-> 83, cap |-> 84, image |-> 85,
          selecterinfo |-> 86, attend |-> 87, start |-> 88, netentry |-> 89,
          matchingstat |-> 90, delivinst |-> 91, cardinfo |-> 92, modein |-> 93]
Answered == {Names[n] : n \in DOMAIN Names \ {"cardinfo", "modein"}}

VARIABLES
  pc, got,                \* per thread: where it is, pieces received
  text, len,              \* its reqdec, and the length it last computed
  reply,                  \* what it has sent
  inner, enc, rbody,      \* static
  tables,                 \* flh, fdh and fixed_init: "none", "good", "spoilt"
  alone, clashed          \* history: no other thread worked meanwhile; two built the tables at once

nuplVars == <<pc, got, text, len, reply, inner, enc, rbody, tables, alone, clashed>>

Working == {"build", "inflate", "inner", "enc", "out", "head", "body"}

NuplTypeOK ==
  /\ pc \in [Conns -> {"free", "recv", "parse", "closed"} \cup Working]
  /\ got \in [Conns -> 0 .. 4]
  /\ \A c \in Conns : len[c] <= Len(CASE pc[c] = "enc" -> inner [] pc[c] = "out" -> enc [] OTHER -> rbody)

NuplInit ==
  /\ pc = [c \in Conns |-> "free"] /\ got = [c \in Conns |-> 0]
  /\ text = [c \in Conns |-> <<>>] /\ len = [c \in Conns |-> 0]
  /\ reply = [c \in Conns |-> <<>>]
  /\ inner = <<>> /\ enc = <<>> /\ rbody = <<>> /\ tables = "none"
  /\ alone = [c \in Conns |-> TRUE] /\ clashed = FALSE

Go(c, from, to) == pc[c] = from /\ pc' = [pc EXCEPT ![c] = to]

\* accept, and the thread.
Accept(c) ==
  /\ Go(c, "free", "recv")
  /\ UNCHANGED <<got, text, len, reply, inner, enc, rbody, tables, alone, clashed>>

-----------------------------------------------------------------------------
(* Reading a request `r`, of which the client sends r.sends pieces          *)

HeadWhole(g) == g >= 2
BodyOf(r, g) == Prefix(r.body, (Len(r.body) * (IF g > 2 THEN g - 2 ELSE 0)) \div 2)

Whole(r, g) == HeadWhole(g) /\ Len(BodyOf(r, g)) >= r.clen

Recv(c, r) ==
  /\ pc[c] = "recv"
  /\ \E g \in got[c] + 1 .. r.sends :
       /\ got' = [got EXCEPT ![c] = g]
       /\ pc' = [pc EXCEPT ![c] = IF Whole(r, g) THEN "parse" ELSE @]
  /\ UNCHANGED <<text, len, reply, inner, enc, rbody, tables, alone, clashed>>

\* The client has shut its end: what there is is the request, unless its header is missing.
RecvEnd(c, r) ==
  /\ r.sends < 4 /\ got[c] = r.sends
  /\ Go(c, "recv", IF HeadWhole(got[c]) THEN "parse" ELSE "closed")
  /\ UNCHANGED <<got, text, len, reply, inner, enc, rbody, tables, alone, clashed>>

-----------------------------------------------------------------------------
(* Its answer                                                              *)

\* field_value: up to the next &; empty if the key is not there.
Field(body, key) ==
  LET at == SelectInSeq(body, LAMBDA w : w = key)
      end == SelectInSubSeq(body, at + 1, Len(body), LAMBDA w : w = Amp)
  IN IF at = 0 THEN <<>> ELSE SubSeq(body, at + 1, IF end = 0 THEN Len(body) ELSE end - 1)

\* Fault: the padding is left in the name.
CmdNamePadded(body) ==
  LET raw == Field(body, CommandIs)
      p   == SelectInSeq(raw, LAMBDA w : w = Request)
  IN IF p = 0 THEN raw ELSE SubSeq(raw, 1, p - 1)

\* nupl_cmd_name
CmdName(body) ==
  LET raw == Only(Field(body, CommandIs), Byte \ {Zero})
      p   == SelectInSeq(raw, LAMBDA w : w = Request)
  IN IF p = 0 THEN raw ELSE SubSeq(raw, 1, p - 1)

\* build_nupl_inner; the table's commands and the session's have answers of one form.
Inner(body) ==
  LET cc   == Field(body, CommonIs)
      name == CmdName(body)
      other(command) == <<Header, Amp, CommonIs>> \o cc \o <<Amp, Protocol, Amp, CommandIs>>
                        \o command \o <<Amp>>
  IN CASE name = <<Names.cardinfo>> -> other(<<CardBytes>>)
       [] Len(name) = 1 /\ name[1] \in Answered ->
            <<CommandIs, name[1], Response, Amp, Protocol, Amp, CommonIs>> \o cc
            \o <<Amp, Header, Amp, Fields + name[1], Amp>>
       [] OTHER -> other(<<>>)

\* Fault: the buffer is allocated anew, as long as what is written.
OverNew(old, new) == new

\* A buffer written from its beginning keeps what lay behind.
Over(old, new) == new \o SubSeq(old, Len(new) + 1, Len(old))

OthersWorking(c) == {d \in Conns \ {c} : pc[d] \in Working}

PlainText(r) == r.path \in {"PowerOn", "DownloadOrder"}

\* build_response_body begins: two paths are answered with plain text, the others decoded.
Begin(c, r) ==
  LET raw == B64Decode(BodyOf(r, got[c]))
  IN /\ alone' = [d \in Conns |-> IF d = c THEN OthersWorking(c) = {}
                                  ELSE alone[d] /\ d \notin OthersWorking(c)]
     /\ IF PlainText(r)
          THEN /\ Go(c, "parse", "head")
               /\ rbody' = Over(rbody, <<Stat>>) /\ len' = [len EXCEPT ![c] = 1]
               /\ UNCHANGED clashed
          ELSE /\ Go(c, "parse", IF UsesFixed(raw) /\ tables = "none" THEN "build" ELSE "inflate")
               /\ clashed' = (clashed \/ (pc'[c] = "build" /\ \E d \in Conns : pc[d] = "build"))
               /\ UNCHANGED <<rbody, len>>
     /\ UNCHANGED <<got, text, reply, inner, enc, tables>>

\* The tables of the fixed codes, on first use.  Two threads that build them at once
\* may count a code twice.
BuildTables(c) ==
  /\ Go(c, "build", "inflate")
  /\ tables' \in IF clashed THEN {"good", "spoilt"} ELSE {"good"}
  /\ UNCHANGED <<got, text, len, reply, inner, enc, rbody, alone, clashed>>

\* zlib_decode; a body it cannot decode is taken as it is.
Decoded(body) ==
  LET d == ZlibDecode(B64Decode(body), FixedTables)
  IN IF d \in {Failed, <<>>} THEN body ELSE d

\* Tables that are spoilt, or that another thread is building, decode nothing or right.
InflateRequest(c, r) ==
  LET body   == BodyOf(r, got[c])
      shaky  == /\ UsesFixed(B64Decode(body))
                /\ tables = "spoilt" \/ \E d \in Conns : pc[d] = "build"
  IN /\ Go(c, "inflate", "inner")
     /\ \E t \in {Decoded(body)} \cup IF shaky THEN {body} ELSE {} : text' = [text EXCEPT ![c] = t]
     /\ UNCHANGED <<got, len, reply, inner, enc, rbody, tables, alone, clashed>>

WriteInner(c) ==
  LET new == Inner(text[c])
  IN /\ Go(c, "inner", "enc")
     /\ inner' = Over(inner, new) /\ len' = [len EXCEPT ![c] = Len(new)]
     /\ text' = [text EXCEPT ![c] = <<>>]
     /\ UNCHANGED <<got, reply, enc, rbody, tables, alone, clashed>>

Encode(c) ==
  LET new == ZlibEncode(Prefix(inner, len[c]), OutCap)
  IN /\ Go(c, "enc", "out")
     /\ enc' = Over(enc, new) /\ len' = [len EXCEPT ![c] = Len(new)]
     /\ UNCHANGED <<got, text, reply, inner, rbody, tables, alone, clashed>>

WriteOut(c) ==
  LET new == B64Encode(Prefix(enc, len[c]), OutCap)
  IN /\ Go(c, "out", "head")
     /\ rbody' = Over(rbody, new) /\ len' = [len EXCEPT ![c] = Len(new)]
     /\ UNCHANGED <<got, text, reply, inner, enc, tables, alone, clashed>>

\* The header says Pragma: DFI of all but the two plain answers.
SendHead(c, r) ==
  /\ Go(c, "head", "body")
  /\ reply' = [reply EXCEPT ![c] = <<[pragma |-> ~PlainText(r), length |-> len[c]]>>]
  /\ UNCHANGED <<got, text, len, inner, enc, rbody, tables, alone, clashed>>

SendBody(c) ==
  /\ Go(c, "body", "closed")
  /\ reply' = [reply EXCEPT ![c] = Append(@, Prefix(rbody, len[c]))]
  /\ len' = [len EXCEPT ![c] = 0]
  /\ UNCHANGED <<got, text, inner, enc, rbody, tables, alone, clashed>>

\* A thread may go on.  Each of its steps moves `pc` or `got`, so that fairness can be
\* stated of these alone.
Ready(c, r) == pc[c] \notin {"free", "closed"} /\ ~(pc[c] = "recv" /\ got[c] = 4)
Moves(c, r) ==
  /\ Ready(c, r)
  /\ \E g \in 0 .. 4, to \in {"recv", "parse", "closed"} \cup Working :
       got' = [got EXCEPT ![c] = g] /\ pc' = [pc EXCEPT ![c] = to]

ServeStep(c, r) ==
  \/ Recv(c, r) \/ RecvEnd(c, r) \/ Begin(c, r) \/ BuildTables(c) \/ InflateRequest(c, r)
  \/ WriteInner(c) \/ Encode(c) \/ WriteOut(c) \/ SendHead(c, r) \/ SendBody(c)

-----------------------------------------------------------------------------
(* What the game takes from the answer                                     *)

\* The text of the answer; the game's decoder has good tables.
AnswerText(c) == ZlibDecode(B64Decode(reply[c][2]), FixedTables)

\* The answer is to the text `asked`: it names its command and gives its
\* command_common back.
AnswersText(c, asked) ==
  LET t == AnswerText(c)
  IN /\ reply[c][1].length = Len(reply[c][2])
     /\ Field(t, CommonIs) = Field(asked, CommonIs)
     /\ \A w \in Answered \cap Range(Field(asked, CommandIs)) :
          Field(t, CommandIs) = <<w, Response>>
=============================================================================
