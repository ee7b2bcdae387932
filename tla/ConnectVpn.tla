------------------------------ MODULE ConnectVpn ------------------------------
(***************************************************************************)
(* A client's way from the server's list of nodes to the configuration of  *)
(* a tunnel (connect_vpn_selected), or to a list of nodes with latencies   *)
(* (list_vpn_nodes): the request, the filters, the probes of NodeSelect,   *)
(* the cookies and the endpoint of the node that was chosen, the peer      *)
(* information it gives, and the routes of module Routes.                  *)
(***************************************************************************)
EXTENDS Routes, NodeSelect, Sequences

CONSTANTS Hostname,  \* a node whose ip is a name
          Any,       \* no name configured, no node requested, no node
          Offers,    \* the lists that the server may answer with
          Wanted     \* the pairs of a configured name and a requested id, or Any for either

\* RespVpnInfo; protocol_mode is 1 for TCP, 2 for UDP, or something else.
Node == [id : Nat, name : STRING, mode : Nat, ip : Address \cup {Hostname}]

ASSUME ConnectAssumption == /\ Hostname \notin Address
                            /\ Any \notin Node
                            /\ \A list \in Offers : list \in Seq(Node) /\ Len(list) <= MaxNodes

VARIABLES step,        \* where the client is
          candidates,  \* the nodes that are probed
          chosen,      \* selected_vpn, or Any
          endpoint,    \* api_url.vpn_param, the node later requests go to
          jar,         \* the nodes whose probe's cookies are in the cookie store
          conf,        \* the WgConf: its peer's node and its protocol
          wish         \* vpn_server_name and requested_node_id of a connect in progress

client == <<step, candidates, chosen, endpoint, jar, conf, wish>>

ClientTypeOK ==
  /\ step \in {"list", "choose", "peer_info", "routes", "connected", "listed", "failed", "logout"}
  /\ candidates \in Seq(Node)
  /\ chosen \in Node \cup {Any}
  /\ endpoint \in Node \cup {Any}
  /\ jar \subseteq Node
  /\ conf \in [peer : Node, protocol : {0, 1}] \cup {Any}
  /\ wish \in Wanted \cup {<<Any, Any>>}

ConnectTypeOK == TypeOK /\ SelectTypeOK /\ ClientTypeOK

ConnectInit == /\ Init /\ SelectInit
               /\ step = "list" /\ candidates = <<>> /\ chosen = Any
               /\ endpoint = Any /\ jar = {} /\ conf = Any /\ wish = <<Any, Any>>
-----------------------------------------------------------------------------
\* Any request may fail, be refused, or be answered with something that cannot be read.
ConnectFails == /\ step \in {"list", "peer_info"}
                /\ step' = "failed"
                /\ UNCHANGED <<vars, probes, candidates, chosen, endpoint, jar, conf, wish>>

\* Code 101: handle_logout_err has saved State::Init.
LoggedOut == /\ step \in {"list", "peer_info"}
             /\ step' = "logout"
             /\ UNCHANGED <<vars, probes, candidates, chosen, endpoint, jar, conf, wish>>

\* vpn_matches_selection, and the protocols that are known.
Suits(vpn, want) == /\ want[1] \in {Any, vpn.name} /\ want[2] \in {Any, vpn.id}
                    /\ vpn.mode \in {1, 2}

\* The nodes that both filters let through, in the server's order.
Suitable(list, want) ==
  LET kept[i \in 0..Len(list)] ==
        IF i = 0 THEN <<>>
        ELSE IF Suits(list[i], want) THEN Append(kept[i - 1], list[i]) ELSE kept[i - 1]
  IN  kept[Len(list)]

ListVpn(list, want, strategy) ==
  LET vpns == Suitable(list, want)
  IN  /\ step = "list"
      /\ step' = "choose"
      /\ candidates' = vpns /\ wish' = want
      /\ \E o \in [1..Len(vpns) -> Outcome] : SelectBegin(strategy, Len(vpns), o)
      /\ UNCHANGED <<vars, chosen, endpoint, jar, conf>>

\* A listing probes what the server sent.
ListNodes(list) ==
  /\ step = "list"
  /\ step' = "choose"
  /\ candidates' = list
  /\ \E o \in [1..Len(list) -> Outcome] : SelectBegin("list", Len(list), o)
  /\ UNCHANGED <<vars, chosen, endpoint, jar, conf, wish>>

Probe == step = "choose" /\ SelectStep /\ UNCHANGED <<vars, client>>

Listed == /\ step = "choose" /\ how = "list"
          /\ step' = "listed"
          /\ SelectReturn /\ candidates' = <<>>
          /\ UNCHANGED <<vars, chosen, endpoint, jar, conf, wish>>

NoVpnAvailable == /\ step = "choose" /\ how # "list" /\ found = 0
                  /\ step' = "failed"
                  /\ SelectReturn /\ candidates' = <<>>
                  /\ UNCHANGED <<vars, chosen, endpoint, jar, conf, wish>>

\* prepare_vpn_endpoint, the cookies of that node's probe, and save_cookie.
Choose ==
  /\ step = "choose" /\ how # "list" /\ found # 0
  /\ chosen' = candidates[found] /\ endpoint' = candidates[found]
  /\ jar' = jar \cup {candidates[found]}
  /\ step' \in {"peer_info", "failed"}
  /\ SelectReturn /\ candidates' = <<>>
  /\ UNCHANGED <<vars, conf, wish>>

PeerInfo == /\ step = "peer_info"
            /\ step' = "routes"
            /\ UNCHANGED <<vars, probes, candidates, chosen, endpoint, jar, conf, wish>>
-----------------------------------------------------------------------------
\* Mutant: the endpoint is carved out only where IPv6 is in use.
CarveEndpointWithSix == IF chosen.ip \in Address /\ six THEN CarvePeer(chosen.ip) ELSE NamedPeer

\* The outer packets go to the chosen node: its address must stay out of the tunnel.
CarveEndpoint == IF chosen.ip \in Address THEN CarvePeer(chosen.ip) ELSE NamedPeer

RouteStep ==
  /\ step = "routes"
  /\ \/ \E v4, v6 \in Lists, full \in BOOLEAN : Server(v4, v6, full)
     \/ \E list \in Lists, answers \in Answers : Merge(list, answers)
     \/ AllowAll
     \/ \E list \in Lists : Allow(list)
     \/ \E list \in Lists : \E c \in list : Deny(c)
     \/ DenyEnd
     \/ CarveEndpoint
  /\ UNCHANGED <<probes, client>>

RoutesRefused == /\ step = "routes" /\ stage = "refused"
                 /\ step' = "failed"
                 /\ UNCHANGED <<vars, probes, candidates, chosen, endpoint, jar, conf, wish>>

\* Mutant: protocol_mode is passed on as it is.
ProtocolMode(vpn, force) == IF force # Any THEN force ELSE vpn.mode

\* force_protocol overrides what the server says of the node.
Protocol(vpn, force) == IF force # Any THEN force ELSE IF vpn.mode = 1 THEN 1 ELSE 0

Configured(force) == /\ step = "routes" /\ stage = "done"
                     /\ step' = "connected"
                     /\ conf' = [peer |-> chosen, protocol |-> Protocol(chosen, force)]
                     /\ UNCHANGED <<vars, probes, candidates, chosen, endpoint, jar, wish>>

ConnectNext ==
  \/ ConnectFails \/ LoggedOut
  \/ \E list \in Offers, want \in Wanted, strategy \in {"first", "fastest"} :
       ListVpn(list, want, strategy)
  \/ \E list \in Offers : ListNodes(list)
  \/ Probe \/ Listed \/ NoVpnAvailable \/ Choose \/ PeerInfo
  \/ RouteStep \/ RoutesRefused
  \/ \E force \in {Any, 0, 1} : Configured(force)

\* A probe ends with its answer or with the HTTP client's timeout, and the functions
\* never stop to await anything else.
ConnectSpec == ConnectInit /\ [][ConnectNext]_<<vars, probes, client>>
                           /\ WF_<<vars, probes, client>>(Probe)
-----------------------------------------------------------------------------
(* Properties                                                              *)

\* Whatever the routes, lists and filters are: once the tunnel is configured, packets to
\* the node that carries it do not enter it, and that node is the one that was asked for the
\* session, the only one whose cookies were kept (client.rs:1263: "Persist only cookies
\* returned by the selected endpoint probe."), and one that the user and the configuration
\* wanted, whichever order the probes answered in.
PeerBypassesTunnel ==
  step = "connected" =>
    /\ conf.peer = endpoint /\ jar = {endpoint} /\ Suits(conf.peer, wish)
    /\ conf.peer.ip \in Address => conf.peer.ip \notin Covered(routes)

\* A choice comes to an end: no order of answers leaves the client waiting.
ChoiceEnds == step = "choose" ~> phase = "done"
=============================================================================
