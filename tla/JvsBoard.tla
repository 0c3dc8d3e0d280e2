------------------------------ MODULE JvsBoard ------------------------------
(***************************************************************************)
(* The JVS I/O board on COM4: src/logic/driver/mxjvs.c and the JVS branches *)
(* of api.c.  The game's JVS thread writes a frame that holds one or more   *)
(* commands, the board runs them in order, and the thread reads the answer, *)
(* in as many reads as it likes.  Each written frame samples the player's   *)
(* controls; the coin switch counts when a sample finds it newly closed.    *)
(*                                                                         *)
(* The game (external) builds frames from structured requests and adds up   *)
(* the coins the answers report; the player opens and closes the switch.    *)
(***************************************************************************)
EXTENDS JvsFraming, Integers, FiniteSets

CONSTANTS
  Requests,     \* the frames the game sends: sequences of commands [op, args]
  Controls,     \* [test, sw, ax, ay]: what the player can hold, without the coin
  BoardId,      \* BOARD_ID as bytes
  StartCoins,   \* counter values earlier coins may have left
  ReadSizes,    \* how much the game asks for in one read
  MaxPresses    \* bound: coins inserted

CoinMod   == 65536      \* uint16_t coin[]
ReportMod == 16384      \* 6 high and 8 low bits are reported

Op == [reset |-> 240, comms |-> 242, assign |-> 241, id |-> 16, cmdver |-> 17,
       jvsver |-> 18, commver |-> 19, features |-> 20, mainid |-> 21, switches |-> 32,
       coin |-> 33, analog |-> 34, decrease |-> 48, gpio1 |-> 50, gpio2 |-> 55,
       gpio3 |-> 56]
OK      == 1     \* STATUS_OK and REPORT_OK
UKCOM   == 2     \* STATUS_UKCOM
INVALID == 3     \* REPORT_PARAM_INVALID
PLAYERS == 2
SWBYTES == 2
COINS   == 2
ANALOG_CH == 8

HalfWord == 0 .. CoinMod - 1    \* uint16_t
ASSUME JvsBoardAssumption ==
  /\ Requests \subseteq Seq([op : Byte, args : Seq(Byte)])
  /\ Controls \subseteq [test : BOOLEAN, sw : HalfWord, ax : HalfWord, ay : HalfWord]
  /\ BoardId \in Seq(Byte)
  /\ MaxPresses \in Nat /\ \A n \in StartCoins : n \in Nat /\ n + MaxPresses < CoinMod
  /\ ReadSizes \subseteq Nat \ {0}

VARIABLES
  board,    \* JvsBoard: address, sense, controls, coin counters, coin_prev
  work,     \* mxjvs_handle_frame: commands left, reports so far, status, silence
  resp,     \* jvs_resp, and what of it the game has read
  switch,   \* the coin switch
  request,  \* the game: the frame being answered
  ledger,   \* the game: last count reported (or -1), coins added up, taken back
  presses   \* how often the switch was closed

jvsVars  == <<board, work, resp>>
gameVars == <<request, ledger>>
allVars  == <<jvsVars, switch, gameVars, presses>>

NoWork == [busy |-> FALSE, rest |-> <<>>, reports |-> <<>>, status |-> OK,
           silent |-> FALSE]
NoResp == [wire |-> <<>>, off |-> 0]

TypeOK ==
  /\ board.address \in Byte /\ board.sense \in {0, 1} /\ board.prev \in BOOLEAN
  /\ board.coin \in [1 .. COINS -> 0 .. CoinMod - 1]
  /\ work.busy \in BOOLEAN /\ work.status \in {OK, UKCOM} /\ work.silent \in BOOLEAN
  /\ work.rest \in Seq(Byte) /\ work.reports \in Seq(Byte)
  /\ resp.wire \in Seq(Byte) /\ resp.off \in 0 .. Len(resp.wire)
  /\ ledger.last \in -1 .. ReportMod - 1 /\ ledger.coins \in Nat /\ ledger.taken \in 0 .. ledger.coins
  /\ presses \in 0 .. MaxPresses /\ switch \in {"open", "closed"}

Init ==
  /\ \E n \in StartCoins, c \in Controls :
       board = [address |-> 255, sense |-> 1, controls |-> c, prev |-> FALSE,
                coin |-> <<n, 0>>]
  /\ work = NoWork /\ resp = NoResp
  /\ switch = "open" /\ presses = 0
  /\ request = <<>> /\ ledger = [last |-> -1, coins |-> 0, taken |-> 0]

-----------------------------------------------------------------------------
(* on_write_file on COM4: the controls are sampled, then the frame is run.  *)

\* The first k commands of a request, as they are sent.
Sent(r, k) ==
  LET bytes[i \in 0 .. Len(r)] ==
        IF i = 0 THEN <<>> ELSE bytes[i - 1] \o (<<r[i].op>> \o r[i].args)
  IN bytes[k]

Encoded(r) == Mask(Frame(1, Sent(r, Len(r))))

\* Fault: the coin counts for as long as the switch is closed.
CoinLevel(b) == IF switch = "closed" THEN [b.coin EXCEPT ![1] = (@ + 1) % CoinMod] ELSE b.coin

CoinEdge(b) ==
  IF switch = "closed" /\ ~b.prev THEN [b.coin EXCEPT ![1] = (@ + 1) % CoinMod] ELSE b.coin

\* mxjvs_set_input
Sampled(c) == [board EXCEPT !.controls = c, !.coin = CoinEdge(board),
                            !.prev = (switch = "closed")]

WriteFrame(r, c) ==
  LET raw == Unmask(Encoded(r))
  IN /\ ~work.busy
     /\ board' = Sampled(c)
     /\ request' = r
     /\ resp' = NoResp
     /\ work' = IF WellFormed(raw) THEN [NoWork EXCEPT !.busy = TRUE, !.rest = Payload(raw)]
                ELSE NoWork
     /\ UNCHANGED <<switch, ledger, presses>>

-----------------------------------------------------------------------------
(* One command of mxjvs_handle_frame's loop.  A missing argument reads as 0. *)

Arg(k)  == IF k + 1 <= Len(work.rest) THEN work.rest[k + 1] ELSE 0
Skip(n) == SubSeq(work.rest, n + 2, Len(work.rest))    \* after the opcode and n arguments
Command(op) == work.busy /\ work.rest # <<>> /\ Head(work.rest) = op

Report(bytes, n) == work' = [work EXCEPT !.rest = Skip(n), !.reports = @ \o bytes]
Quiet == UNCHANGED <<resp, switch, gameVars, presses>>

DoReset ==
  /\ Command(Op.reset)
  /\ board' = [board EXCEPT !.address = 255, !.sense = 1]
  /\ work' = [work EXCEPT !.rest = Skip(1), !.silent = TRUE]
  /\ Quiet

DoChangeComms ==
  /\ Command(Op.comms)
  /\ work' = [work EXCEPT !.rest = Skip(0), !.silent = TRUE]
  /\ UNCHANGED board /\ Quiet

DoAssignAddress ==
  /\ Command(Op.assign)
  /\ board' = [board EXCEPT !.address = Arg(1), !.sense = 0]
  /\ Report(<<OK>>, 1)
  /\ Quiet

Identity(op) ==
  CASE op = Op.id      -> BoardId \o <<0>>
    [] op = Op.cmdver  -> <<19>>
    [] op = Op.jvsver  -> <<32>>
    [] op = Op.commver -> <<16>>
    [] op = Op.features     -> <<1, PLAYERS, 14, 0, 2, COINS, 0, 0, 3, ANALOG_CH, 0, 0,
                              18, 13, 0, 0, 0>>

Identities == {Op.id, Op.cmdver, Op.jvsver, Op.commver, Op.features}

DoIdentify ==
  \E op \in Identities :
    /\ Command(op)
    /\ Report(<<OK>> \o Identity(op), 0)
    /\ UNCHANGED board /\ Quiet

\* Fault: the terminating zero is left as the next command.
MainIdKeepsNul ==
  /\ Command(Op.mainid)
  /\ LET Zeros == {k \in 2 .. Len(work.rest) : work.rest[k] = 0}
         n == IF Zeros = {} THEN Len(work.rest) - 1 ELSE (CHOOSE k \in Zeros :
                \A j \in Zeros : k <= j) - 2
     IN Report(<<OK>>, n)
  /\ UNCHANGED board /\ Quiet

\* The main board's identifier runs to a zero byte, or to the end of the frame.
DoMainId ==
  /\ Command(Op.mainid)
  /\ LET Zeros == {k \in 2 .. Len(work.rest) : work.rest[k] = 0}
         n == IF Zeros = {} THEN Len(work.rest) - 1 ELSE (CHOOSE k \in Zeros :
                \A j \in Zeros : k <= j) - 1
     IN Report(<<OK>>, n)
  /\ UNCHANGED board /\ Quiet

\* 16-bit words, high byte first.
Word(v)   == <<v \div 256, v % 256>>
Words(vs) == [k \in 1 .. 2 * Len(vs) |-> Word(vs[(k + 1) \div 2])[2 - (k % 2)]]

\* Only the first player has switches; JVS_BTNS = 13 bits are moved to the top.
Switches(p) == IF p = 1 THEN (board.controls.sw * 8) % 65536 ELSE 0
SwitchReport(players) ==
  <<OK, IF board.controls.test THEN 128 ELSE 0>>
    \o Words([p \in 1 .. players |-> Switches(p)])

DoReadSwitches ==
  /\ Command(Op.switches)
  /\ IF Arg(1) > PLAYERS \/ Arg(2) # SWBYTES THEN Report(<<INVALID>>, 2)
     ELSE Report(SwitchReport(Arg(1)), 2)
  /\ UNCHANGED board /\ Quiet

CoinReport(slots) ==
  <<OK>> \o Words([s \in 1 .. IF slots < COINS THEN slots ELSE COINS
                           |-> board.coin[s] % ReportMod])

DoReadCoin ==
  /\ Command(Op.coin)
  /\ Report(CoinReport(Arg(1)), 1)
  /\ UNCHANGED board /\ Quiet

Analog(ch) == CASE ch = 1 -> board.controls.ay [] ch = 2 -> board.controls.ax
                [] OTHER -> 32768
DoReadAnalog ==
  /\ Command(Op.analog)
  /\ Report(<<OK>> \o Words([i \in 1 .. Arg(1) |-> Analog(i)]), 1)
  /\ UNCHANGED board /\ Quiet

\* Fault: the amount's bytes are taken in the wrong order.
DecreaseSwapped ==
  /\ Command(Op.decrease)
  /\ LET slot == Arg(1)  amt == Arg(3) * 256 + Arg(2)
     IN board' = IF slot < COINS /\ board.coin[slot + 1] >= amt
                 THEN [board EXCEPT !.coin[slot + 1] = @ - amt] ELSE board
  /\ Report(<<OK>>, 3)
  /\ Quiet

\* Reported as done even when it was not.
DoCoinDecrease ==
  /\ Command(Op.decrease)
  /\ LET slot == Arg(1)  amt == Arg(2) * 256 + Arg(3)
     IN board' = IF slot < COINS /\ board.coin[slot + 1] >= amt
                 THEN [board EXCEPT !.coin[slot + 1] = @ - amt] ELSE board
  /\ Report(<<OK>>, 3)
  /\ Quiet

DoGpio ==
  /\ \/ Command(Op.gpio1) /\ Report(<<OK>>, 1 + Arg(1))
     \/ (Command(Op.gpio2) \/ Command(Op.gpio3)) /\ Report(<<OK>>, 2)
  /\ UNCHANGED board /\ Quiet

Known == {Op.reset, Op.comms, Op.assign, Op.mainid, Op.switches, Op.coin, Op.analog,
          Op.decrease, Op.gpio1, Op.gpio2, Op.gpio3} \cup Identities

\* An unknown command ends the frame; the reports before it are sent.
DoUnknown ==
  /\ work.busy /\ work.rest # <<>> /\ Head(work.rest) \notin Known
  /\ work' = [work EXCEPT !.rest = <<>>, !.status = UKCOM]
  /\ UNCHANGED board /\ Quiet

\* A frame that held a reset or a change of speed is not answered.
Respond ==
  /\ work.busy /\ work.rest = <<>>
  /\ resp' = IF work.silent THEN NoResp
             ELSE [wire |-> Mask(Frame(MASTER, <<work.status>> \o work.reports)), off |-> 0]
  /\ work' = NoWork
  /\ UNCHANGED <<board, switch, gameVars, presses>>

-----------------------------------------------------------------------------
(* The game reads the answer, in one read or in several.                    *)

\* Fault: the read position is not held to the answer.
ReadPast(n) ==
  /\ ~work.busy /\ resp.off < Len(resp.wire)
  /\ resp' = [resp EXCEPT !.off = @ + n]
  /\ UNCHANGED <<board, work, switch, gameVars, presses>>

ReadBytes(n) ==
  /\ ~work.busy /\ resp.off < Len(resp.wire)
  /\ resp' = [resp EXCEPT !.off = IF @ + n < Len(resp.wire) THEN @ + n ELSE Len(resp.wire)]
  /\ UNCHANGED <<board, work, switch, gameVars, presses>>

Answered == ~work.busy /\ request # <<>> /\ resp.wire # <<>> /\ resp.off = Len(resp.wire)

\* How long the report of a command is (facts/amjvs.md, answer layout).
ReportLen(c) ==
  CASE c.op \in Identities -> 1 + Len(Identity(c.op))
    [] c.op = Op.switches -> IF c.args[1] > PLAYERS \/ c.args[2] # SWBYTES THEN 1
                             ELSE 2 + 2 * c.args[1]
    [] c.op = Op.coin   -> 1 + 2 * c.args[1]
    [] c.op = Op.analog -> 1 + 2 * c.args[1]
    [] OTHER              -> 1

\* Where the report of the i-th command starts in the unmasked answer.
Offset(r, i) ==
  LET at[k \in 0 .. Len(r)] == IF k = 0 THEN 5 ELSE at[k - 1] + ReportLen(r[k])
  IN at[i - 1]

\* The commands of a request the board has run: those before an unknown one.
Ran(r) == {i \in DOMAIN r : \A j \in 1 .. i : r[j].op \in Known}

\* A command has the arguments the board takes for it (facts/amjvs.md, request layout);
\* an unknown one may have any.
Complete(c) ==
  /\ c.op \in Identities \cup {Op.comms} => c.args = <<>>
  /\ c.op \in {Op.reset, Op.assign, Op.coin, Op.analog} => Len(c.args) = 1
  /\ c.op \in {Op.switches, Op.gpio2, Op.gpio3} => Len(c.args) = 2
  /\ c.op = Op.gpio1 => Len(c.args) > 0 /\ Len(c.args) = 1 + c.args[1]
  /\ c.op = Op.mainid => /\ Len(c.args) > 0
                         /\ \A k \in DOMAIN c.args : c.args[k] = 0 <=> k = Len(c.args)
  /\ c.op = Op.coin => c.args[1] \in 1 .. COINS
  /\ c.op = Op.decrease => c.args = <<0, 0, 1>>

\* What the game's frames are like: they and their answers fit the buffers, even with
\* every byte of an answer escaped; a frame that takes a coin back takes one, does not
\* read the counters, and is answered.
ASSUME RequestAssumption ==
  \A r \in Requests :
    /\ r # <<>> /\ \A i \in DOMAIN r : Complete(r[i])
    /\ Len(Sent(r, Len(r))) < 255
    /\ Offset(r, Cardinality(Ran(r)) + 1) <= 256
    /\ \A i, j \in DOMAIN r : i # j /\ r[i].op = Op.decrease =>
         r[j].op \notin {Op.decrease, Op.coin, Op.reset, Op.comms}

Answer == Unmask(resp.wire)
CoinAt(r, i) == Answer[Offset(r, i) + 1] * 256 + Answer[Offset(r, i) + 2]

\* The game takes the difference to the last count, after a decrease of what it
\* has taken away.
GameCounts ==
  /\ Answered
  /\ request' = <<>>
  /\ LET Reads == {i \in Ran(request) : request[i].op = Op.coin}
         Takes == {i \in Ran(request) : request[i].op = Op.decrease}
     IN ledger' =
          IF Reads # {}
          THEN LET now == CoinAt(request, CHOOSE i \in Reads : TRUE)
               IN [ledger EXCEPT !.last = now, !.coins = @ +
                     IF ledger.last = -1 THEN 0 ELSE (now + ReportMod - ledger.last) % ReportMod]
          ELSE IF Takes # {} THEN [ledger EXCEPT !.last = (@ + ReportMod - 1) % ReportMod, !.taken = @ + 1]
          ELSE ledger
  /\ UNCHANGED <<jvsVars, switch, presses>>

\* The game takes back, one at a time, only coins it has added up.
MaySend(r) == (\E i \in DOMAIN r : r[i].op = Op.decrease) => ledger.taken < ledger.coins

GameSend == \E r \in Requests, c \in Controls :
              request = <<>> /\ MaySend(r) /\ WriteFrame(r, c)
\* An unanswered frame (reset) is given up.
GameGivesUp ==
  /\ ~work.busy /\ request # <<>> /\ resp.wire = <<>>
  /\ request' = <<>>
  /\ UNCHANGED <<jvsVars, switch, ledger, presses>>

PressCoin ==
  /\ switch = "open" /\ presses < MaxPresses
  /\ switch' = "closed" /\ presses' = presses + 1
  /\ UNCHANGED <<jvsVars, gameVars>>
ReleaseCoin ==
  /\ switch = "closed"
  /\ switch' = "open"
  /\ UNCHANGED <<jvsVars, gameVars, presses>>

RunCommand ==
  \/ DoReset \/ DoChangeComms \/ DoAssignAddress \/ DoIdentify \/ DoMainId
  \/ DoReadSwitches \/ DoReadCoin \/ DoReadAnalog \/ DoCoinDecrease \/ DoGpio \/ DoUnknown

Next ==
  \/ GameSend \/ RunCommand \/ Respond
  \/ \E n \in ReadSizes : ReadBytes(n)
  \/ GameCounts \/ GameGivesUp
  \/ PressCoin \/ ReleaseCoin

Spec == Init /\ [][Next]_allVars

-----------------------------------------------------------------------------
(* Properties *)

\* The answer the game has read is a frame it can take apart: no SYNC inside, the
\* right length and checksum, the status of an unknown command only if there was
\* one, then one report per command that was run, in order and of the length the
\* game's parsers expect (facts/amjvs.md, answer layout and "escape").
ReplyDecodes ==
  Answered =>
    /\ \A k \in 2 .. Len(resp.wire) : resp.wire[k] # SYNC
    /\ WellFormed(Answer) /\ Len(Answer) = 3 + Answer[3] /\ Answer[2] = MASTER
    /\ LET n == Cardinality(Ran(request))
       IN /\ Answer[4] = IF n = Len(request) THEN OK ELSE UKCOM
          /\ \A i \in 1 .. n : Answer[Offset(request, i)] \in {OK, INVALID}
          /\ Len(Answer) = Offset(request, n + 1)

\* However frames, samples, presses and decreases interleave, and wherever the
\* 14 reported bits wrap, the game never adds up more coins than were inserted.
NoCoinInvented == ledger.coins <= presses
=============================================================================
