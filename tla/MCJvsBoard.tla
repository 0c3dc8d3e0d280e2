----------------------------- MODULE MCJvsBoard -----------------------------
(* The frames the game was seen to send (facts/amjvs.md: discovery and the   *)
(* per-frame poll), the commands it does not send, and analog values and     *)
(* counters whose bytes must be escaped or carry.                            *)
EXTENDS JvsBoard

C(op, args) == [op |-> op, args |-> args]

MCRequests == {
  <<C(Op.reset, <<217>>)>>,
  <<C(Op.assign, <<1>>)>>,
  <<C(Op.id, <<>>)>>,
  <<C(Op.cmdver, <<>>), C(Op.jvsver, <<>>), C(Op.commver, <<>>), C(Op.features, <<>>)>>,
  <<C(Op.switches, <<2, 2>>), C(Op.analog, <<8>>), C(Op.coin, <<2>>),
    C(Op.gpio2, <<1, 0>>), C(Op.gpio2, <<2, 0>>)>>,
  <<C(Op.mainid, <<65, 208, 0>>), C(Op.gpio1, <<2, 224, 1>>), C(Op.coin, <<1>>)>>,
  <<C(Op.decrease, <<0, 0, 1>>)>>,
  <<C(Op.switches, <<3, 2>>), C(99, <<>>), C(Op.coin, <<1>>)>>,
  <<C(Op.comms, <<>>)>>}

MCControls == {[test |-> FALSE, sw |-> 0, ax |-> 32768, ay |-> 32768],
               [test |-> TRUE, sw |-> 4176, ax |-> 53265, ay |-> 57567]}
MCBoardId == <<83, 69, 71, 65>>
=============================================================================
