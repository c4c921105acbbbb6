--------------------------------- MODULE MCUds ---------------------------------
(***************************************************************************)
(* Three members of a room, one of them a host with one or two free slots. *)
(***************************************************************************)
EXTENDS Uds

CONSTANTS h, c, d

(* The commands of the host and of the two clients, and how many of them *)
Each(host, client1, client2) ==
  [n \in Nodes |-> CASE n = h -> host [] n = c -> client1 [] n = d -> client2]

Client == {"ConnectToNetwork", "DisconnectNetwork"}

Quiet == [commands |-> Each({"BeginHostingNetwork"}, Client, Client), length |-> Each(1, 2, 2),
          timeouts |-> {c, d}, hosts |-> {h}, max_nodes |-> {2, 3}, leaves |-> {},
          sources |-> {Broadcast}, flags |-> {FALSE}]

RoomPrograms ==
  [Join |-> Quiet,
   Retry |-> [Quiet EXCEPT !.length = Each(1, 4, 0), !.max_nodes = {2}],
   Leave |-> [Quiet EXCEPT !.length = Each(1, 2, 1), !.leaves = {h, c}, !.max_nodes = {2}],
   Reset |-> [Quiet EXCEPT !.commands[h] = {"BeginHostingNetwork", "DestroyNetwork",
                                           "DisconnectNetwork"},
                           !.length = Each(3, 2, 1), !.max_nodes = {2}],
   Restart |-> [Quiet EXCEPT !.commands = Each({"BeginHostingNetwork", "Shutdown", "Initialize"},
                                               Client \cup {"Shutdown", "Initialize"}, Client),
                             !.length = Each(3, 4, 0), !.max_nodes = {2}],
   Eject |-> [Quiet EXCEPT !.commands[h] = {"BeginHostingNetwork", "EjectClient"},
                           !.length = Each(2, 1, 1), !.max_nodes = {3}],
   ToHost |-> [Quiet EXCEPT !.commands = Each({"BeginHostingNetwork", "Bind", "Unbind", "PullPacket"},
                                              {"ConnectToNetwork", "SendTo"}, {}),
                            !.length = Each(4, 3, 0), !.max_nodes = {2},
                            !.sources = {Broadcast, 2}],
   ToClient |-> [Quiet EXCEPT !.commands = Each({"BeginHostingNetwork", "SendTo"},
                                                {"ConnectToNetwork", "Bind", "PullPacket"}, {}),
                              !.length = Each(3, 4, 0), !.max_nodes = {2}, !.timeouts = {}],
   Relay |-> [Quiet EXCEPT !.commands = Each({"BeginHostingNetwork"}, {"ConnectToNetwork", "SendTo"},
                                             {"ConnectToNetwork", "Bind", "PullPacket"}),
                           !.length = Each(1, 2, 4), !.max_nodes = {3}, !.flags = BOOLEAN,
                           !.timeouts = {}]]

MCPrograms == RoomPrograms
=============================================================================
