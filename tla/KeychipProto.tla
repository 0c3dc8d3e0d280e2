---------------------------- MODULE KeychipProto ----------------------------
(***************************************************************************)
(* What the keychip servers answer: src/host/keychip_proto.c.  A line is a  *)
(* sequence of pieces of text, cut so that a key of the code is a sequence  *)
(* of whole pieces; a value is one piece.  An answer names the key it       *)
(* answers, and the values it gives back.                                   *)
(***************************************************************************)
EXTENDS Naturals, SequencesExt

Code(n) == [key |-> <<"code", n>>, vals |-> <<>>]
Fixed(key) == [key |-> key, vals |-> <<>>]            \* key=<a constant>
Echo(key, vals) == [key |-> key, vals |-> vals]

Ks(s, key)  == <<"keychip.", s, key>>
Fg(pieces)  == <<"mxmaster.", "foreground.">> \o pieces

\* The tests of kc_respond in their order, those of the same shape together.
Secrets == <<Ks("ds.", "compute"), Ks("ssd.", "proof"), Ks("ssd.", "hostproof")>>
Appboot == [i \in 1 .. 9 |-> Ks("appboot.",
             <<"systemflag", "gameid", "region", "platformid", "modeltype", "formattype",
               "networkaddr", "dvdflag", "seed">>[i])]
Plain   == <<<<"keychip.", "version">>, <<"keychip.", "encrypt">>, <<"keychip.", "decrypt">>,
             <<"keychip.", "setiv">>>>
Billing == [i \in 1 .. 5 |-> Ks("billing.",
             <<"keyid", "mainid", "playcount", "playlimit", "nearfull">>[i])]
Trace   == [i \in 1 .. 4 |-> Ks("tracedata.", <<"restore", "put", "get", "sectorerase">>[i])]
Others  == <<<<"keychip.", "appboot.">>, Fg(<<"get", "count">>), Fg(<<"active">>), Fg(<<"next">>),
             Fg(<<"current">>), Fg(<<"fault">>), Fg(<<"set", "count">>), <<"request">>>>

\* Fault: the test for any other appboot key comes before the tests for each.
KeysAppbootFirst == Secrets \o <<<<"keychip.", "appboot.">>>> \o Appboot \o Plain \o Billing
                    \o Trace \o Others

Keys == Secrets \o Appboot \o Plain \o Billing \o Trace \o Others

Requests == {"query_slot_status", "query_application_status", "query_appdata_status",
  "check_appdata", "query_dhcp_status", "query_nic_status", "get_status", "set_auth_params",
  "isrelease", "resume", "pause", "stopcatcher", "reloadinfo", "startcatcher", "isupdate",
  "query_storage_status", "query_storage_count"}

\* find_val: what follows the first `key=` in the line, "" if there is none.
FindVal(line, key) ==
  LET hits == {i \in DOMAIN line : /\ i + Len(key) <= Len(line)
                                   /\ SubSeq(line, i, i + Len(key) - 1) = key
                                   /\ line[i + Len(key)] = "="}
      v == (CHOOSE i \in hits : \A j \in hits : i <= j) + Len(key) + 1
  IN IF hits = {} \/ v > Len(line) \/ line[v] = "&" THEN "" ELSE line[v]

\* The answer to a line whose first test that holds is the one for `key`.
AnswerTo(line, key) ==
  LET v == FindVal(line, key) IN
  CASE key \in Range(Secrets) -> Code("54")
    [] key = <<"keychip.", "appboot.">> -> Code("0")
    [] key = Fg(<<"get", "count">>) -> Echo(key, <<v, "0">>)
    [] key = Fg(<<"active">>) -> Echo(key, <<IF v = "?" THEN "1" ELSE v>>)
    [] key = Fg(<<"next">>) -> Echo(key, <<v>>)
    [] key = Fg(<<"set", "count">>) ->
         LET c == FindVal(line, <<"count">>) IN Echo(key, <<v, IF c = "" THEN "0" ELSE c>>)
    [] key = <<"request">> -> IF v \in Requests THEN Echo(<<"response">>, <<v>>) ELSE Code("0")
    [] OTHER -> Fixed(key)

\* kc_respond: the first test that holds.
KcRespond(line) ==
  LET first == SelectInSeq(Keys, LAMBDA key : IsPrefix(key, line))
  IN IF first = 0 THEN Code("0") ELSE AnswerTo(line, Keys[first])

-----------------------------------------------------------------------------
(* What is promised (facts/mxkeychip.md): the most specific key decides, a   *)
(* question is answered under its own name, and a count is given back.       *)

Promised(line) ==
  LET fitting == {key \in Range(Keys) : IsPrefix(key, line)}
      key == CHOOSE k \in fitting : \A j \in fitting : Len(j) <= Len(k)
      n   == FindVal(line, key)
  IN IF fitting = {} THEN Code("0")
     ELSE IF key = Fg(<<"set", "count">>) THEN Echo(key, <<n, n>>)
     ELSE AnswerTo(line, key)
=============================================================================
