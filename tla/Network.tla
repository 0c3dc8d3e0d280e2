------------------------------ MODULE Network -------------------------------
(***************************************************************************)
(* The game's network as nrs-util makes it: the ws2_32 hooks of             *)
(* src/host/allnet.c send the game's calls to servers in its own process,   *)
(* the keychip servers (KeychipConn), the ALL.Net server (NuplServer), the  *)
(* LFS responder and the ping echo.                                        *)
(***************************************************************************)
EXTENDS KeychipConn, NuplServer

CONSTANTS
  Scenes      \* what the game may call: some connections, each with a call: the name called
              \* (pieces of text), the port, the server it `wants`, the requests it comes `after`,
              \* and its request with the `text` that is packed in it

\* Each call can be made.  A whole request to the ALL.Net ports packs the text that goes
\* with it; it is asked for by one word, padded with zeros, and its answer fits rbody.
ASSUME SceneAssumption ==
  /\ OutCap \in Nat \ {0} /\ OutCap <= 65535
  /\ \A calls \in Scenes : \A c \in DOMAIN calls :
       LET r     == calls[c].request
           asked == calls[c].text
           field == Field(asked, CommandIs)
       IN calls[c].port \in {80, 40080} =>
            /\ r.sends \in 0 .. 4 /\ r.clen \in Nat /\ r.body \in Seq(Byte)
            /\ asked \in Seq(Byte) /\ 2 * Len(asked) + 64 <= OutCap
            /\ r.sends = 4 => r.clen = Len(r.body) /\ (PlainText(r) \/ asked = Decoded(r.body))
            /\ \A i, j \in DOMAIN field :
                 field[i] \in Answered =>
                   field[j] = Zero \/ i = j \/ (field[j] = Request /\ i < j)

VARIABLES
  scene,      \* what the game calls, chosen at the start
  up,         \* per server: "starting", "up" or "failed"
  addr,       \* per call: the address its name was resolved to, or "none"
  peer,       \* per call: the server it is connected to, or "none"
  push        \* per call: what an LFS, keychip or ping server has sent first

gameVars == <<addr, peer, push>>
netVars == <<scene, up, gameVars, nuplVars, kcVars>>

Servers == {"keychip", "allnet", "lfs", "msping"}
Lan     == "g_lan_ip"
Local   == "127.0.0.1"
Outside == "another host"
KeychipPorts == {40100, 40102, 40103, 40104, 40106, 40108} \cup (40110 .. 40115) \cup {30000}

NetTypeOK ==
  /\ TypeOK /\ NuplTypeOK
  /\ addr \in [Conns -> {"none", Lan, Local, Outside}]
  /\ peer \in [Conns -> {"none", "outside"} \cup Servers]
  /\ \A c \in Conns : (push[c] # "" => peer[c] # "none") /\ (OthersWorking(c) # {} => up["allnet"] = "up")

NetInit ==
  /\ scene \in Scenes
  /\ up = [s \in Servers |-> IF \E c \in DOMAIN scene : scene[c].wants = s THEN "starting" ELSE "up"]
  /\ addr = [c \in Conns |-> "none"] /\ peer = [c \in Conns |-> "none"]
  /\ push = [c \in Conns |-> ""]
  /\ Init /\ NuplInit

\* A listener's thread binds its port, or another program has it.
Bind(s) ==
  /\ up[s] = "starting"
  /\ \E r \in {"up", "failed"} : up' = [up EXCEPT ![s] = r]
  /\ UNCHANGED <<scene, gameVars, nuplVars, kcVars>>

-----------------------------------------------------------------------------
(* The hooks                                                               *)

Has(name, part) ==
  \E i \in 0 .. Len(name) - Len(part) : SubSeq(name, i + 1, i + Len(part)) = part

\* Fault: the billing server's name counts as ALL.Net's.
AnyNaominet(name) ==
  \E part \in {<<"naominet", ".jp">>, <<"bbrouter">>, <<"tenporouter">>, <<"allnet">>} :
    Has(name, part)

\* host_is_allnet
HostIsAllnet(name) ==
  /\ ~Has(name, <<"ib.", "naominet">>)
  /\ \E part \in {<<"naominet", ".jp">>, <<"bbrouter">>, <<"tenporouter">>, <<"allnet">>} :
       Has(name, part)

\* h_getaddrinfo, h_gethostbyname
Resolve(c) ==
  /\ addr[c] = "none" /\ c \in DOMAIN scene
  /\ \A d \in scene[c].after : pc[d] = "closed"
  /\ \E name \in {scene[c].name} :
       addr' = [addr EXCEPT ![c] = CASE HostIsAllnet(name) -> Lan
                                     [] name = <<Lan>> -> Lan
                                     [] name = <<Local>> -> Local
                                     [] OTHER -> Outside]
  /\ UNCHANGED <<scene, up, peer, push, nuplVars, kcVars>>

\* Fault: only the ALL.Net address is redirected.
HConnectWebOnly(ip, port) == IF ip = Lan /\ port = 80 THEN <<Local, 40080>> ELSE <<ip, port>>

\* h_connect
HConnect(ip, port) ==
  CASE ip = Lan /\ port = 80 -> <<Local, 40080>>
    [] port = 30000 -> <<Local, 40130>>
    [] OTHER -> <<ip, port>>

\* Who listens at an address.
Server(at) ==
  CASE at = <<Local, 40080>> -> "allnet"
    [] at = <<Local, 40130>> -> "lfs"
    [] at[1] = Local /\ at[2] \in KeychipPorts -> "keychip"
    [] at[1] \in {Lan, Local} /\ at[2] = 30010 -> "msping"
    [] at[1] = Outside -> "outside"
    [] OTHER -> "nobody"

\* A call to nobody, or to a server that is not up, is refused, and the game tries again.
Connect(c) ==
  /\ addr[c] # "none" /\ peer[c] = "none"
  /\ \E s \in {Server(HConnect(addr[c], scene[c].port))} :
       /\ s # "nobody" /\ (s \in Servers => up[s] = "up")
       /\ peer' = [peer EXCEPT ![c] = s]
       /\ IF s = "allnet" THEN Accept(c) ELSE UNCHANGED nuplVars
  /\ UNCHANGED <<scene, up, addr, push, kcVars>>

-----------------------------------------------------------------------------
(* The servers                                                             *)

Greeting == [keychip |-> ">", lfs |-> "LFSS accept", msping |-> "the ping"]

\* client_thread, lfs_client and ms_ping_listen send before anything else.
Greet(c) ==
  /\ peer[c] \in DOMAIN Greeting /\ push[c] = ""
  /\ push' = [push EXCEPT ![c] = Greeting[peer[c]]]
  /\ UNCHANGED <<scene, up, addr, peer, nuplVars, kcVars>>

\* The keychip connection goes on once the game has seen the prompt.
Talk ==
  /\ \E c \in Conns : peer[c] = "keychip" /\ push[c] = ">"
  /\ Next
  /\ UNCHANGED <<scene, up, gameVars, nuplVars>>

Serve(c) ==
  /\ peer[c] = "allnet"
  /\ ServeStep(c, scene[c].request)
  /\ UNCHANGED <<scene, up, gameVars, kcVars>>

NetNext ==
  \/ \E s \in Servers : Bind(s)
  \/ \E c \in Conns : Resolve(c) \/ Connect(c) \/ Greet(c) \/ Serve(c)
  \/ Talk

NetSpec == NetInit /\ [][NetNext]_netVars

\* Every thread runs, and the game tries until it is connected.
NetFairSpec ==
  /\ NetSpec
  /\ \A s \in Servers : WF_up(Bind(s))
  /\ \A c \in Conns :
       /\ WF_addr(Resolve(c)) /\ WF_peer(Connect(c)) /\ WF_push(Greet(c))
       /\ WF_<<pc, got>>(peer[c] = "allnet" /\ Moves(c, scene[c].request))
  /\ KcFairness

-----------------------------------------------------------------------------
(* Properties *)

Complete(c) == scene[c].wants = "allnet" /\ scene[c].request.sends = 4

\* An answer that was built while no other thread worked, after tables no two threads
\* built at once, is the one to its own request, whatever the requests before have left
\* in the static buffers: it names the command and gives command_common back.
AnswerIsOwn ==
  \A c \in Conns :
    (pc[c] = "closed" /\ Complete(c) /\ alone[c] /\ ~clashed) =>
      IF PlainText(scene[c].request) THEN reply[c][2] = <<Stat>> /\ ~reply[c][1].pragma
      ELSE reply[c][1].pragma /\ AnswersText(c, scene[c].text)

\* Every call comes to what it wants, unless that server could not bind its port: a
\* complete request to an answer as long as it says, the others to their server's
\* greeting, and billing out of the house.
Served(c) ==
  CASE scene[c].wants = "allnet" ->
         pc[c] = "closed" /\ (Complete(c) => Len(reply[c]) = 2)
    [] scene[c].wants = "outside" -> peer[c] = "outside"
    [] OTHER -> push[c] = Greeting[scene[c].wants]

CallsServed ==
  \A c \in Conns : <>(c \notin DOMAIN scene \/ Served(c)
                       \/ (scene[c].wants \in Servers /\ up[scene[c].wants] = "failed"))
=============================================================================
