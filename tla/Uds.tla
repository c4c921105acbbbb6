---------------------------------- MODULE Uds ----------------------------------
(***************************************************************************)
(* Local wireless networks (NWM::UDS) between emulators in one room: the    *)
(* connection sequence of a client with a host, the lists of nodes that     *)
(* the host and its clients keep, and the data packets between nodes.       *)
(*                                                                          *)
(* Two host threads work on the state of a node: the emulation thread runs  *)
(* the commands of the application, the network thread the handlers of the  *)
(* packets.  A command and a handler exclude one another while they hold    *)
(* connection_status_mutex or the HLE lock; a handler that lets go of the   *)
(* mutex before it sends is two steps.  The room passes every packet on     *)
(* once and in order, and tells nobody of a member that leaves.             *)
(*                                                                          *)
(* changed_nodes, the events and the beacons carry information to the       *)
(* application and back to nothing in the service; they are left out.       *)
(***************************************************************************)
EXTENDS Integers, Sequences, FiniteSets, SequencesExt, FiniteSetsExt

CONSTANTS
  Nodes,          \* members of the room, each with its MAC address
  NoNode,
  Broadcast,      \* Network::BroadcastMac and BroadcastNetworkNodeId
  UDSMaxNodes,
  Channels,
  MaxBindNodes,
  Programs        \* what the applications of a behaviour may do

ASSUME UdsAssumption ==
  /\ Broadcast \notin Nodes /\ NoNode \notin Nodes /\ NoNode # Broadcast
  /\ IsFiniteSet(Nodes) /\ UDSMaxNodes \in Nat

VARIABLES
  uds,            \* the service of each node
  inbox,          \* the packets that the room has for each member
  joined,         \* the members of the room
  program,
  calls,          \* the number of commands each application has called
  sent,           \* the number of data packets sent, which names them
  received        \* the data packets each application has pulled

vars == <<uds, inbox, joined, program, calls, sent, received>>

Of == Programs[program]

Ids == 1 .. UDSMaxNodes

(***************************************************************************)
(* BeginHostingNetwork asserts that max_nodes > 1, and the list of nodes   *)
(* has UDSMaxNodes elements.  In a behaviour one member of the room hosts: *)
(* the node map of another host that comes late, when a member has left    *)
(* that host's network and hosts its own, is not considered.               *)
(***************************************************************************)
ASSUME ProgramsAssumption ==
  \A g \in DOMAIN Programs :
    /\ Programs[g].max_nodes \subseteq 2 .. UDSMaxNodes
    /\ Programs[g].hosts \subseteq Nodes
    /\ Programs[g].sources \subseteq Ids \cup {Broadcast}
    /\ Programs[g].flags \subseteq BOOLEAN
    /\ \A m, n \in Nodes : "BeginHostingNetwork" \in Programs[g].commands[m] \cap Programs[g].commands[n]
                            => m = n

HostDestNodeId == 1

NoEntry == [present |-> FALSE, connected |-> FALSE, node_id |-> 0]

Unbound == [bound |-> FALSE, network_node_id |-> 0, received_packets |-> <<>>]

NoNodes == [i \in Ids |-> NoNode]

NotPending == [then |-> "none", to |-> NoNode]

(* The service as constructed: Initialize has not been called. *)
NewService ==
  [initialized |-> FALSE, status |-> "None", network_node_id |-> 0, total_nodes |-> 0,
   max_nodes |-> 0, node_bitmask |-> {}, nodes |-> {}, node_info |-> NoNodes,
   network_info |-> [host_mac_address |-> NoNode, total_nodes |-> 0, max_nodes |-> 0],
   node_map |-> [m \in Nodes |-> NoEntry], channel_data |-> [c \in Channels |-> Unbound],
   sleeping |-> FALSE, pending |-> NotPending, fault |-> FALSE]

(* connection_status = {}, with a new status; callers keep network_node_id *)
ResetStatus(u, status) ==
  [u EXCEPT !.status = status, !.total_nodes = 0, !.max_nodes = 0, !.node_bitmask = {},
            !.nodes = {}]

NoNodeMap == [m \in Nodes |-> NoEntry]

NoChannels == [c \in Channels |-> Unbound]

-----------------------------------------------------------------------------
(* Packets and the room *)

Packet(type, from, to, body) == [type |-> type, from |-> from, to |-> to, body |-> body]

(* A broadcast goes to everyone but its sender, any other packet to the member *)
(* with the address, if there is one.                                          *)
HandleWifiPacket(boxes, p) ==
  [m \in Nodes |->
     IF m \in joined /\ (p.to = m \/ (p.to = Broadcast /\ m # p.from))
     THEN Append(boxes[m], p)
     ELSE boxes[m]]

(* SendPacket sends only while the member is in the room. *)
SendPacket(boxes, p) == IF p.from \in joined THEN HandleWifiPacket(boxes, p) ELSE boxes

SendAll(boxes, packets) == FoldLeft(SendPacket, boxes, packets)

(* A handler gives the new state of the service and the packets it sends. *)
Result(u, packets) == [u |-> u, packets |-> packets]

Ignored(u) == Result(u, <<>>)

-----------------------------------------------------------------------------
(* Handlers of the network thread *)

BroadcastNodeMap(n, u) ==
  Packet("NodeMap", n, Broadcast,
         [m \in Nodes |-> IF u.node_map[m].connected THEN u.node_map[m] ELSE NoEntry])

HandleNodeMapPacket(n, u, p) ==
  IF u.status = "ConnectedAsHost" THEN Ignored(u) ELSE Ignored([u EXCEPT !.node_map = p.body])

(* The first critical section of HandleAuthenticationFrame; the association *)
(* response follows when the mutex is free again.                           *)
HandleAuthenticationFrame(n, u, p) ==
  IF \/ p.body # "SEQ1"
     \/ u.status # "ConnectedAsHost"
     \/ u.node_map[p.from].present
     \/ u.max_nodes = u.total_nodes
  THEN Ignored(u)
  ELSE Result([u EXCEPT !.node_map[p.from] = [NoEntry EXCEPT !.present = TRUE],
                        !.pending = [then |-> "AssociationResponse", to |-> p.from]],
              <<Packet("Authentication", n, p.from, "SEQ2")>>)

SendAssociationResponseFrame(n, u) ==
  Result([u EXCEPT !.pending = NotPending],
         IF u.status = "ConnectedAsHost"
         THEN <<Packet("AssociationResponse", n, u.pending.to, "Successful")>>
         ELSE <<>>)

(* The status is looked at under the mutex, EAPoL-Start sent without it. *)
HandleAssociationResponseFrame(n, u, p) ==
  IF u.status # "Connecting"
  THEN Ignored(u)
  ELSE Ignored([u EXCEPT !.pending = [then |-> "EAPoLStart", to |-> p.from]])

SendEAPoLStart(n, u) ==
  Result([u EXCEPT !.pending = NotPending], <<Packet("EAPoLStart", n, u.pending.to, "start")>>)

GetNextAvailableNodeId(u) == Min((1 .. u.max_nodes) \ u.node_bitmask)

EAPoLLogoff(n, u, id) ==
  Packet("EAPoLLogoff", n, Broadcast,
         [assigned_node_id |-> id, connected_nodes |-> u.network_info.total_nodes,
          max_nodes |-> u.network_info.max_nodes, nodes |-> u.node_info])

AddNode(u, mac, id) ==
  [u EXCEPT !.node_bitmask = @ \cup {id}, !.nodes = @ \cup {id}, !.total_nodes = @ + 1,
            !.node_info[id] = mac, !.network_info.total_nodes = @ + 1,
            !.node_map[mac] = [present |-> TRUE, connected |-> TRUE, node_id |-> id]]

(* Mutant: the new client is told nothing. *)
HandleEAPoLStartSilent(n, u, p) ==
  IF u.status # "ConnectedAsHost" \/ ~u.node_map[p.from].present \/ u.node_map[p.from].connected
  THEN Ignored(u)
  ELSE IF u.max_nodes = u.total_nodes
  THEN Ignored([u EXCEPT !.fault = TRUE])
  ELSE LET new == AddNode(u, p.from, GetNextAvailableNodeId(u))
       IN  Result(new, <<BroadcastNodeMap(n, new)>>)

HandleEAPoLStart(n, u, p) ==
  IF u.status # "ConnectedAsHost" \/ ~u.node_map[p.from].present \/ u.node_map[p.from].connected
  THEN Ignored(u)
  ELSE IF u.max_nodes = u.total_nodes
  THEN Ignored([u EXCEPT !.fault = TRUE])
  ELSE LET id  == GetNextAvailableNodeId(u)
           new == AddNode(u, p.from, id)
       IN  Result(new, <<BroadcastNodeMap(n, new), EAPoLLogoff(n, new, id)>>)

LogoffNodes(p) == {i \in Ids : p.body.nodes[i] # NoNode}

(* EAPoL-Logoff, which the host broadcasts: a node that is connecting takes it *)
(* for the answer to its own EAPoL-Start, a client for news of the network.    *)
HandleEAPoLLogoff(n, u, p) ==
  CASE u.status = "Connecting" ->
         Ignored([u EXCEPT !.network_info = [host_mac_address |-> p.from,
                                             total_nodes |-> p.body.connected_nodes,
                                             max_nodes |-> p.body.max_nodes],
                           !.network_node_id = p.body.assigned_node_id,
                           !.total_nodes = p.body.connected_nodes,
                           !.max_nodes = p.body.max_nodes,
                           !.node_info = p.body.nodes,
                           !.node_bitmask = @ \cup LogoffNodes(p),
                           !.nodes = @ \cup LogoffNodes(p),
                           !.status = "ConnectedAsClient",
                           !.sleeping = FALSE])
    [] u.status = "ConnectedAsClient" ->
         Ignored([u EXCEPT !.network_info.total_nodes = p.body.connected_nodes,
                           !.total_nodes = p.body.connected_nodes,
                           !.node_info = p.body.nodes,
                           !.node_bitmask = LogoffNodes(p),
                           !.nodes = LogoffNodes(p)])
    [] OTHER -> Ignored(u)

(* Mutant: a node that was never connected gives up a slot too. *)
HandleDeauthenticationFrameAlways(n, u, p) ==
  LET node == u.node_map[p.from]
  IN  IF u.status # "ConnectedAsHost" \/ ~node.present
      THEN Ignored(u)
      ELSE Ignored([u EXCEPT !.node_map[p.from] = NoEntry, !.total_nodes = @ - 1,
                             !.node_bitmask = @ \ {node.node_id}, !.nodes = @ \ {node.node_id},
                             !.network_info.total_nodes = @ - 1,
                             !.node_info = [i \in Ids |-> IF i = node.node_id THEN NoNode
                                                                              ELSE @[i]]])

HandleDeauthenticationFrame(n, u, p) ==
  LET node   == u.node_map[p.from]
      erased == [u EXCEPT !.node_map[p.from] = NoEntry]
  IN  IF u.status # "ConnectedAsHost" \/ ~node.present
      THEN Ignored(u)
      ELSE IF ~node.connected \/ u.node_info[node.node_id] = NoNode
      THEN Ignored(erased)
      ELSE Ignored([erased EXCEPT !.node_bitmask = @ \ {node.node_id}, !.total_nodes = @ - 1,
                                  !.nodes = @ \ {node.node_id},
                                  !.network_info.total_nodes = @ - 1,
                                  !.node_info[node.node_id] = NoNode])

Accepts(channel, src) ==
  channel.bound /\ channel.network_node_id \in {Broadcast, src}

(* A data packet for another node is passed on by a host, one for this node is *)
(* queued if its channel is bound.                                             *)
HandleSecureDataPacket(n, u, p) ==
  LET data == p.body
  IN  IF u.status \notin {"ConnectedAsHost", "ConnectedAsClient"}
         \/ data.src_node_id = u.network_node_id
      THEN Ignored(u)
      ELSE IF data.dest_node_id \notin {u.network_node_id, Broadcast}
      THEN IF u.status = "ConnectedAsHost"
           THEN Result(u, <<Packet("SecureData", n, Broadcast, data)>>)
           ELSE Ignored(u)
      ELSE IF Accepts(u.channel_data[data.channel], data.src_node_id)
      THEN Ignored([u EXCEPT !.channel_data[data.channel].received_packets = Append(@, data)])
      ELSE Ignored(u)

(* OnWifiPacketReceived and HandleDataFrame *)
OnWifiPacketReceived(n, u, p) ==
  CASE ~u.initialized                     -> Ignored(u)
    [] OTHER ->
  CASE p.type = "NodeMap"                 -> HandleNodeMapPacket(n, u, p)
    [] p.type = "Authentication"          -> HandleAuthenticationFrame(n, u, p)
    [] p.type = "AssociationResponse"     -> HandleAssociationResponseFrame(n, u, p)
    [] p.type = "EAPoLStart"              -> HandleEAPoLStart(n, u, p)
    [] p.type = "EAPoLLogoff"             -> HandleEAPoLLogoff(n, u, p)
    [] p.type = "SecureData"              -> HandleSecureDataPacket(n, u, p)
    [] p.type = "Deauthentication"        -> HandleDeauthenticationFrame(n, u, p)

-----------------------------------------------------------------------------
(* Steps of the network thread of a member *)

Apply(n, boxes, result) ==
  /\ uds' = [uds EXCEPT ![n] = result.u]
  /\ inbox' = SendAll(boxes, result.packets)

(* MemberLoop takes the next packet of the room and calls the service. *)
Receive(n) ==
  /\ n \in joined
  /\ ~uds[n].fault
  /\ uds[n].pending = NotPending
  /\ inbox[n] # <<>>
  /\ Apply(n, [inbox EXCEPT ![n] = Tail(@)], OnWifiPacketReceived(n, uds[n], Head(inbox[n])))
  /\ UNCHANGED <<joined, program, calls, sent, received>>

(* The part of a handler after its critical section *)
FinishHandler(n) ==
  /\ ~uds[n].fault
  /\ \/ /\ uds[n].pending.then = "AssociationResponse"
        /\ Apply(n, inbox, SendAssociationResponseFrame(n, uds[n]))
     \/ /\ uds[n].pending.then = "EAPoLStart"
        /\ Apply(n, inbox, SendEAPoLStart(n, uds[n]))
  /\ UNCHANGED <<joined, program, calls, sent, received>>

(* The connection of a member to the room breaks; its packets are lost. *)
LeaveRoom(n) ==
  /\ n \in joined \cap Of.leaves
  /\ joined' = joined \ {n}
  /\ inbox' = [inbox EXCEPT ![n] = <<>>]
  /\ UNCHANGED <<uds, program, calls, sent, received>>

-----------------------------------------------------------------------------
(* Commands of the application, on the emulation thread *)

(* The application of n may call a command; it cannot while it sleeps in *)
(* ConnectToNetwork.                                                     *)
Calls(n, command) ==
  /\ command \in Of.commands[n]
  /\ calls[n] < Of.length[n]
  /\ ~uds[n].sleeping
  /\ ~uds[n].fault
  /\ calls' = [calls EXCEPT ![n] = @ + 1]
  /\ UNCHANGED <<joined, program>>

Silent(n, u) == uds' = [uds EXCEPT ![n] = u] /\ UNCHANGED <<inbox, sent, received>>

Initialize(n) ==
  /\ Calls(n, "Initialize")
  /\ ~uds[n].initialized
  /\ Silent(n, [ResetStatus(uds[n], "NotConnected") EXCEPT
                  !.initialized = TRUE, !.network_node_id = 0, !.channel_data = NoChannels,
                  !.node_info = NoNodes])

(* Shutdown leaves connection_status as it is. *)
Shutdown(n) ==
  /\ Calls(n, "Shutdown")
  /\ uds[n].initialized
  /\ Silent(n, [uds[n] EXCEPT !.initialized = FALSE, !.channel_data = NoChannels,
                               !.node_map = NoNodeMap])

(* An application hosts a network when it is in none. *)
BeginHostingNetwork(n) ==
  /\ Calls(n, "BeginHostingNetwork")
  /\ uds[n].initialized
  /\ uds[n].status = "NotConnected"
  /\ \E max \in Of.max_nodes :
       Silent(n, [uds[n] EXCEPT !.status = "ConnectedAsHost", !.max_nodes = max,
                   !.network_info = [host_mac_address |-> n, total_nodes |-> 1, max_nodes |-> max],
                   !.total_nodes = 1, !.network_node_id = 1,
                   !.nodes = @ \cup {1}, !.node_bitmask = @ \cup {1},
                   !.node_info = [NoNodes EXCEPT ![1] = n]])

DestroyNetwork(n) ==
  /\ Calls(n, "DestroyNetwork")
  /\ uds[n].status = "ConnectedAsHost"
  /\ Silent(n, [ResetStatus(uds[n], "NotConnected") EXCEPT !.node_map = NoNodeMap,
                                                          !.channel_data = NoChannels])

(* A host keeps its status and loses everything else; any other node tells the *)
(* host it knows of.                                                           *)
DisconnectNetwork(n) ==
  /\ Calls(n, "DisconnectNetwork")
  /\ \/ /\ uds[n].status = "ConnectedAsHost"
        /\ Apply(n, inbox, Ignored([ResetStatus(uds[n], "ConnectedAsHost") EXCEPT
                                       !.node_map = NoNodeMap]))
     \/ /\ uds[n].status # "ConnectedAsHost"
        /\ Apply(n, inbox,
                 Result([ResetStatus(uds[n], "NotConnected") EXCEPT !.node_map = NoNodeMap,
                                                                    !.channel_data = NoChannels],
                        <<Packet("Deauthentication", n, uds[n].network_info.host_mac_address,
                                 "leave")>>))
  /\ UNCHANGED <<sent, received>>

(* ConnectToNetwork and StartConnectionSequence; the thread sleeps for up to *)
(* UDSConnectionTimeout.                                                     *)
ConnectToNetwork(n) ==
  /\ Calls(n, "ConnectToNetwork")
  /\ uds[n].initialized
  /\ uds[n].status \in {"NotConnected", "Connecting"}
  /\ \E host \in Of.hosts \ {n} :
       Apply(n, inbox,
             Result([uds[n] EXCEPT !.status = "Connecting", !.sleeping = TRUE,
                       !.network_info = [host_mac_address |-> host, total_nodes |-> 0,
                                         max_nodes |-> 0]],
                    <<Packet("Authentication", n, host, "SEQ1")>>))
  /\ UNCHANGED <<sent, received>>

(* The time-out ends ConnectToNetwork with success, whatever the status is. *)
ConnectionTimeout(n) ==
  /\ n \in Of.timeouts
  /\ uds[n].sleeping
  /\ ~uds[n].fault
  /\ uds' = [uds EXCEPT ![n].sleeping = FALSE]
  /\ UNCHANGED <<inbox, joined, program, calls, sent, received>>

(* EjectClient: a host that is told of a node sends it a deauthentication frame, *)
(* three to everyone, which clients ignore.                                      *)
EjectClient(n) ==
  /\ Calls(n, "EjectClient")
  /\ uds[n].status = "ConnectedAsHost"
  /\ \/ \E m \in Nodes :
           /\ uds[n].node_map[m].connected
           /\ inbox' = SendPacket(inbox, Packet("Deauthentication", n, m, "eject"))
     \/ inbox' = SendAll(inbox, [i \in 1 .. 3 |-> Packet("Deauthentication", n, Broadcast, "eject")])
  /\ UNCHANGED <<uds, sent, received>>

(* Bind asserts that the channel is free. *)
Bind(n) ==
  /\ Calls(n, "Bind")
  /\ \E c \in Channels, from \in Of.sources :
       /\ ~uds[n].channel_data[c].bound
       /\ Cardinality({d \in Channels : uds[n].channel_data[d].bound}) < MaxBindNodes
       /\ Silent(n, [uds[n] EXCEPT !.channel_data[c] = [Unbound EXCEPT !.bound = TRUE,
                                                                     !.network_node_id = from]])

Unbind(n) ==
  /\ Calls(n, "Unbind")
  /\ \E c \in Channels :
       /\ uds[n].channel_data[c].bound
       /\ Silent(n, [uds[n] EXCEPT !.channel_data[c] = Unbound])

(* GetNodeMacAddress: the addresses it can return, none if the node is unknown *)
GetNodeMacAddress(u, dest_node_id, flagged) ==
  IF flagged \/ dest_node_id = Broadcast
  THEN {Broadcast}
  ELSE IF dest_node_id = HostDestNodeId
  THEN {u.network_info.host_mac_address}
  ELSE {m \in Nodes : u.node_map[m].connected /\ u.node_map[m].node_id = dest_node_id}

SendTo(n) ==
  /\ Calls(n, "SendTo")
  /\ uds[n].status \in {"ConnectedAsClient", "ConnectedAsHost"}
  /\ \E dest \in (Ids \cup {Broadcast}) \ {uds[n].network_node_id}, c \in Channels,
        flagged \in Of.flags :
       \E mac \in GetNodeMacAddress(uds[n], dest, flagged) :
         inbox' = SendPacket(inbox,
                    Packet("SecureData", n, mac,
                           [dest_node_id |-> dest, src_node_id |-> uds[n].network_node_id,
                            channel |-> c, number |-> sent + 1, origin |-> n,
                            flagged |-> flagged]))
  /\ sent' = sent + 1
  /\ UNCHANGED <<uds, received>>

(* Mutant: the packet stays in the queue. *)
PullPacketPeek(n) ==
  /\ Calls(n, "PullPacket")
  /\ uds[n].status \in {"ConnectedAsClient", "ConnectedAsHost"}
  /\ \E c \in Channels :
       /\ uds[n].channel_data[c].received_packets # <<>>
       /\ received' = [received EXCEPT ![n] =
                         Append(@, Head(uds[n].channel_data[c].received_packets))]
  /\ UNCHANGED <<uds, inbox, sent>>

PullPacket(n) ==
  /\ Calls(n, "PullPacket")
  /\ uds[n].status \in {"ConnectedAsClient", "ConnectedAsHost"}
  /\ \E c \in Channels :
       /\ uds[n].channel_data[c].received_packets # <<>>
       /\ received' = [received EXCEPT ![n] =
                         Append(@, Head(uds[n].channel_data[c].received_packets))]
       /\ uds' = [uds EXCEPT ![n].channel_data[c].received_packets = Tail(@)]
  /\ UNCHANGED <<inbox, sent>>

-----------------------------------------------------------------------------
Init ==
  /\ program \in DOMAIN Programs
  /\ uds = [n \in Nodes |-> [NewService EXCEPT !.initialized = TRUE, !.status = "NotConnected"]]
  /\ inbox = [n \in Nodes |-> <<>>]
  /\ joined = Nodes
  /\ calls = [n \in Nodes |-> 0]
  /\ sent = 0
  /\ received = [n \in Nodes |-> <<>>]

NetworkThread(n) == Receive(n) \/ FinishHandler(n)

Session(n) == Initialize(n) \/ Shutdown(n) \/ ConnectToNetwork(n) \/ DisconnectNetwork(n)

Hosting(n) == BeginHostingNetwork(n) \/ DestroyNetwork(n) \/ EjectClient(n)

Data(n) == Bind(n) \/ Unbind(n) \/ SendTo(n) \/ PullPacket(n)

Next ==
  \E n \in Nodes :
    NetworkThread(n) \/ LeaveRoom(n) \/ ConnectionTimeout(n) \/ Session(n) \/ Hosting(n) \/ Data(n)

(* MemberLoop serves the member's packets as long as it is in the room. *)
Fairness == \A n \in Nodes : WF_vars(NetworkThread(n))

Spec == Init /\ [][Next]_vars /\ Fairness

-----------------------------------------------------------------------------
(* Properties *)

IsHost(h) == uds[h].initialized /\ uds[h].status = "ConnectedAsHost" /\ uds[h].max_nodes > 0

Members(h) == {m \in Nodes : uds[h].node_map[m].connected}

(* The five records a host keeps of its network (bit mask, list of ids, counts, *)
(* node_info, node_map) tell the same: the host is node 1, each other node has  *)
(* an id of its own, and no slot is taken that no member holds, whatever        *)
(* connection attempts, time-outs and departures cross one another.             *)
HostListsAgree ==
  \A h \in Nodes : IsHost(h) =>
    LET u == uds[h]
    IN  /\ u.node_bitmask = {1} \cup {u.node_map[m].node_id : m \in Members(h)}
        /\ u.nodes = u.node_bitmask
        /\ u.total_nodes = Cardinality(Members(h)) + 1
        /\ Cardinality(u.node_bitmask) = u.total_nodes
        /\ u.network_info.total_nodes = u.total_nodes
        /\ u.total_nodes <= u.max_nodes
        /\ u.node_info[1] = h
        /\ \A i \in Ids \ {1} : \A m \in Nodes :
             (u.node_info[i] = m) <=> (m \in Members(h) /\ u.node_map[m].node_id = i)

(* An application gets the packets that another one sent it at most once and in *)
(* the order they were sent in.  A packet for one node that is flagged to be    *)
(* broadcast is excepted: the host passes it on to a node that has it already.  *)
DataInOrder ==
  \A n \in Nodes : \A i, j \in DOMAIN received[n] :
    /\ i < j
    /\ received[n][i].origin = received[n][j].origin
    /\ received[n][i].channel = received[n][j].channel
    /\ ~(received[n][j].flagged /\ received[n][j].dest_node_id # Broadcast)
    /\ ~(received[n][i].flagged /\ received[n][i].dest_node_id # Broadcast)
    => received[n][i].number < received[n][j].number

(* A client whose authentication a host has accepted gets into a network, gives *)
(* up or loses its host: no order of packets leaves it connecting for ever.     *)
(* (An application that shuts the service down in between and starts again is   *)
(* refused by the entry of its first attempt; its programs are excepted.)       *)
Accepted(c) ==
  /\ uds[c].status = "Connecting"
  /\ "Shutdown" \notin Of.commands[c]
  /\ \E h \in joined :
       /\ uds[c].network_info.host_mac_address = h
       /\ IsHost(h)
       /\ ~uds[h].fault
       /\ uds[h].node_map[c].present

ConnectionsComplete == \A c \in Nodes : []<>(c \notin joined \/ ~Accepted(c))

(* "Get an unused network node id": no two nodes of a network have the same id. *)
NodeIdsDistinct ==
  \A c, d \in Nodes :
    /\ c # d
    /\ uds[c].status = "ConnectedAsClient"
    /\ uds[d].status = "ConnectedAsClient"
    /\ uds[c].network_info.host_mac_address = uds[d].network_info.host_mac_address
    => uds[c].network_node_id # uds[d].network_node_id
=============================================================================
