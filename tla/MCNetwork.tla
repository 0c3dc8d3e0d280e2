----------------------------- MODULE MCNetwork ------------------------------
(* Requests packed by zlib itself, with stored, fixed and dynamic codes,     *)
(* matches that overlap themselves and a line end in the base64; one that is *)
(* not packed, one that breaks off.  Scenes of two calls, and one of a third  *)
(* after them.                                                             *)
EXTENDS Network

CONSTANTS cr, nl, c1, c2, c3

Nupl(t, b) == [name |-> <<Lan>>, port |-> 80, wants |-> "allnet", after |-> {}, text |-> t,
               request |-> [path |-> "servlet", clen |-> Len(b), sends |-> 4, body |-> b]]
Cut(call, k) == [call EXCEPT !.request.sends = k]

Stored == Nupl(<<67, 66, 80, 66, 69, 65, 68, 110, 66, 111, 65>>,
  <<30, 0, 4, 1, 2, 48, 3, 52, 63, 52, 99, 13, 2, 20, 4, 9, 5, 16, 20, 17, 46, 16, 38, 61, 1, 4,
    43, 40, 3, 16, 32, 64, 64>>)
FixedAttend == Nupl(<<67, 87, 69, 65, 68, 110, 111, 112, 110, 111, 112, 110, 111, 112, 65>>,
  <<30, 0, 5, 51, 3, 39, 29, 53, 99, 29, 12, 39, 11, 11, 56, 0, 32, 17, 48, 0, 41, 55, 0, 22, 13>>)
FixedModein == Nupl(<<67, 93, 69, 65, 68, 113, 65>>,
  <<30, 0, 5, 51, 35, 39, 99, 21, 53, 29, 2, 37, 52, 1, 0, 0, 8, 21, 32, 8, 29>>)
Dynamic == Nupl(<<67, 91, 69, 65, 68, 110, 110, 111, 110, 110, 111, 110, 110, 110, 112, 110, 110,
    112, 110, 110, 110, 111, 110, 110, 111, 110, 110, 110, 111, 110, 110, 111, 110, 110, 110, 112,
    110, 110, 112, 110, 110, 110, 111, 110, 110, 111, 110, 110, 110, 111, 110, 110, 111, 110, 110,
    110, 112, 110, 110, 112, 110, 110, 110, 111, 110, 65>>,
  <<30, 0, 4, 5, 48, 20, 4, 17, 32, 3, 0, 0, 1, 3, 5, 45, 7, 26, 99, 32, 10, 15, 6, 19, 15, 63, 56,
    47, 36, 62, 30, 57, 57, 34, 19, 2, 6, 2, 1, 7, 6, 4, 2, 7, 2, 6, 7, 9, 62, 34, 26, 32, 27, 34,
    16, 64, 64>>)
Unpacked == Nupl(<<67, 92, 69, 65, 68, 110, 65>>, <<67, 92, 69, 65, 68, 110, 65>>)
PowerOn == [Nupl(<<>>, <<>>) EXCEPT !.name = <<"naominet", ".jp">>, !.request.path = "PowerOn"]

Other(name, port, wants) == [name |-> name, port |-> port, wants |-> wants, after |-> {}]
Keychip == Other(<<Local>>, 40100, "keychip")
Lfs     == Other(<<"a cabinet">>, 30000, "lfs")
Ping    == Other(<<Lan>>, 30010, "msping")
BillingCall == Other(<<"ib.", "naominet", ".jp">>, 8443, "outside")

Calls(p, q) == [c \in {c1, c2} |-> IF c = c1 THEN p ELSE q]
ThenCalls(scene2, p) == scene2 @@ (c3 :> [p EXCEPT !.after = {c1, c2}])
MCScenes == {Calls(Stored, FixedAttend), ThenCalls(Calls(FixedAttend, FixedModein), FixedAttend),
             Calls(Dynamic, PowerOn),
             Calls(Unpacked, Cut(FixedAttend, 3)), Calls(Cut(Stored, 1), Dynamic),
             Calls(Keychip, Lfs), Calls(Ping, BillingCall)}

P(s) == <<"keychip.">> \o s
MCLines == {<<>>, <<cr>>, <<"pause">>,
  P(<<"appboot.", "gameid", "=", "?", cr>>), P(<<"appboot.", "key", "=", "?">>),
  P(<<"ds.", "compute">>),
  Fg(<<"set", "count", "=", "3", "&", "count", "=", "2">>), Fg(<<"get", "count", "=", "3">>),
  Fg(<<"active", "=", "?">>), Fg(<<"next", "=", "2">>),
  <<"request", "=", "get_status", cr>>, <<"request", "=", "format">>}
=============================================================================
