------------------------------- MODULE UdsProofs -------------------------------
(***************************************************************************)
(* The lists of a host, for every room, every size of network and every    *)
(* program of its members.                                                 *)
(***************************************************************************)
EXTENDS Uds, FiniteSetTheorems, WellFoundedInduction, TLAPS

-----------------------------------------------------------------------------
(* Induction over the natural numbers in a first-order form: the predicate is  *)
(* given as a set, and the body of a loop as a function, so that both can be   *)
(* instantiated.                                                               *)

(* Every non-empty set of natural numbers has a least element. *)
LEMMA LeastNat ==
  ASSUME NEW T \in SUBSET Nat, T # {}
  PROVE  \E x \in T : \A y \in T : x <= y
<1>1. PICK x \in T : \A y \in T : ~ (<<y, x>> \in OpToRel(<, Nat))
  BY NatLessThanWellFounded, WFMin
<1>2. \A y \in T : ~ (y < x)
  BY <1>1, Zenon DEF OpToRel
<1>. QED
  BY <1>2

(* Every non-empty set of natural numbers with an upper bound has a greatest element. *)
LEMMA GreatestNat ==
  ASSUME NEW n \in Nat, NEW T \in SUBSET (0 .. n), T # {}
  PROVE  \E x \in T : \A y \in T : x >= y
<1>. DEFINE U == {k \in Nat : \A y \in T : y <= k}
<1>1. n \in U
  OBVIOUS
<1>2. PICK k \in U : \A u \in U : k <= u
  BY <1>1, LeastNat
<1>3. CASE k \in T
  BY <1>2, <1>3
<1>4. CASE k \notin T
  <2>1. \A y \in T : y <= k /\ y # k
    BY <1>4
  <2>2. k # 0
    <3>1. PICK y \in T : TRUE
      OBVIOUS
    <3>. QED
      BY <2>1, <3>1
  <2>3. k - 1 \in U
    BY <2>1, <2>2
  <2>. QED
    BY <1>2, <2>3
<1>. QED
  BY <1>3, <1>4

(* Min and Max of the community modules are what they say on such sets. *)
LEMMA MinProperty ==
  ASSUME NEW T \in SUBSET Nat, T # {}
  PROVE  /\ Min(T) \in T
         /\ \A y \in T : Min(T) <= y
BY LeastNat DEF Min

LEMMA MaxProperty ==
  ASSUME NEW n \in Nat, NEW T \in SUBSET (0 .. n), T # {}
  PROVE  /\ Max(T) \in T
         /\ \A y \in T : Max(T) >= y
BY GreatestNat DEF Max

(* Induction on the members of an initial segment, the predicate being a set. *)
LEMMA UpwardInduction ==
  ASSUME NEW n \in Nat, NEW T, 0 \in T,
         \A i \in 1 .. n : i - 1 \in T => i \in T
  PROVE  0 .. n \subseteq T
<1>. SUFFICES ASSUME (0 .. n) \ T # {}
              PROVE  FALSE
  OBVIOUS
<1>. DEFINE W == (0 .. n) \ T
<1>1. PICK m \in W : \A y \in W : m <= y
  <2>1. W \in SUBSET Nat /\ W # {}
    OBVIOUS
  <2>. HIDE DEF W
  <2>. QED
    BY <2>1, LeastNat
<1>2. m # 0 /\ m - 1 \in 0 .. n
  BY <1>1
<1>3. m - 1 \in T
  BY <1>1, <1>2
<1>. QED
  BY <1>1, <1>2, <1>3

(* The states f[0], f[1], ... of a loop that applies G[i] in its i-th iteration. *)
Runs(f, n, base, G) ==
  /\ f[0] = base
  /\ \A i \in 1 .. n : f[i] = G[i][f[i - 1]]

(* A loop of n iterations over values of V has a sequence of states. *)
LEMMA LoopExists ==
  ASSUME NEW n \in Nat, NEW V, NEW base \in V, NEW G \in [1 .. n -> [V -> V]]
  PROVE  \E f \in [0 .. n -> V] : Runs(f, n, base, G)
<1>. USE DEF Runs
<1>. DEFINE T == {m \in 0 .. n : \E f \in [0 .. n -> V] : Runs(f, m, base, G)}
<1>1. 0 \in T
  <2>. DEFINE g == [i \in 0 .. n |-> base]
  <2>1. g \in [0 .. n -> V] /\ Runs(g, 0, base, G)
    OBVIOUS
  <2>. HIDE DEF g
  <2>2. \E f \in [0 .. n -> V] : Runs(f, 0, base, G)
    BY <2>1
  <2>. QED
    BY <2>2
<1>2. ASSUME NEW m \in 1 .. n, m - 1 \in T
      PROVE  m \in T
  <2>1. PICK f \in [0 .. n -> V] : Runs(f, m - 1, base, G)
    BY <1>2
  <2>. DEFINE g == [f EXCEPT ![m] = G[m][f[m - 1]]]
  <2>2. g \in [0 .. n -> V]
    <3>1. f[m - 1] \in V /\ G[m] \in [V -> V]
      BY <2>1
    <3>. QED
      BY <2>1, <3>1
  <2>3. Runs(g, m, base, G)
    <3>1. g[0] = base
      BY <2>1
    <3>2. ASSUME NEW i \in 1 .. m
          PROVE  g[i] = G[i][g[i - 1]]
      BY <2>1, <3>2
    <3>. QED
      BY <3>1, <3>2
  <2>. HIDE DEF g
  <2>4. \E h \in [0 .. n -> V] : Runs(h, m, base, G)
    BY <2>2, <2>3
  <2>. QED
    BY <2>4
<1>3. n \in T
  <2>. HIDE DEF T
  <2>1. 0 .. n \subseteq T
    BY <1>1, <1>2, UpwardInduction
  <2>. QED
    BY <2>1
<1>. QED
  BY <1>3

(***************************************************************************)
(* The recursive function over sets of indices by which the community      *)
(* modules define a fold of a sequence, for a loop with body G.            *)
(***************************************************************************)
FoldsOver(iter, n, base, G) ==
  \A s \in SUBSET (1 .. n) :
    iter[s] = IF s = {} THEN base ELSE G[Max(s)][iter[s \ {Max(s)}]]

(* There is such a function: all the folds advance together, index by index. *)
LEMMA FoldExists ==
  ASSUME NEW n \in Nat, NEW V, NEW base \in V, NEW G \in [1 .. n -> [V -> V]]
  PROVE  \E iter \in [SUBSET (1 .. n) -> V] : FoldsOver(iter, n, base, G)
<1>. DEFINE P == SUBSET (1 .. n)
            F == [P -> V]
            H == [i \in 1 .. n |-> [w \in F |-> [s \in P |-> IF i \in s THEN G[i][w[s]] ELSE w[s]]]]
            start == [s \in P |-> base]
<1>1. start \in F
  OBVIOUS
<1>2. H \in [1 .. n -> [F -> F]]
  <2>1. ASSUME NEW i \in 1 .. n, NEW w \in F, NEW s \in P
        PROVE  (IF i \in s THEN G[i][w[s]] ELSE w[s]) \in V
    <3>1. w[s] \in V /\ G[i] \in [V -> V]
      OBVIOUS
    <3>. HIDE DEF F, P
    <3>. QED
      BY <3>1
  <2>2. ASSUME NEW i \in 1 .. n, NEW w \in F
        PROVE  [s \in P |-> IF i \in s THEN G[i][w[s]] ELSE w[s]] \in F
    <3>. HIDE DEF P
    <3>. QED
      BY <2>1
  <2>. HIDE DEF F, P
  <2>. QED
    BY <2>2
<1>3. PICK v \in [0 .. n -> F] : Runs(v, n, start, H)
  <2>. HIDE DEF F, P, H, start
  <2>. QED
    BY <1>1, <1>2, LoopExists
<1>4. \A i \in 0 .. n : v[i] \in F
  OBVIOUS
<1>5. \A s \in P : v[0][s] = base
  BY <1>3 DEF Runs
<1>6. ASSUME NEW i \in 1 .. n, NEW s \in P
      PROVE  v[i][s] = IF i \in s THEN G[i][v[i - 1][s]] ELSE v[i - 1][s]
  <2>1. v[i] = H[i][v[i - 1]] /\ v[i - 1] \in F
    <3>. HIDE DEF F, P, H, start
    <3>. QED
      BY <1>3 DEF Runs
  <2>2. \A w \in F : H[i][w] = [r \in P |-> IF i \in r THEN G[i][w[r]] ELSE w[r]]
    <3>. HIDE DEF F, P
    <3>. QED
      OBVIOUS
  <2>. HIDE DEF F, P, H
  <2>3. v[i] = [r \in P |-> IF i \in r THEN G[i][v[i - 1][r]] ELSE v[i - 1][r]]
    BY <2>1, <2>2, Zenon
  <2>. QED
    BY <2>3, Zenon
<1>. HIDE DEF F, H, start
<1>7. ASSUME NEW s \in P, NEW m \in 0 .. n, \A y \in s : y <= m
      PROVE  v[n][s] = v[m][s]
  <2>. DEFINE T == {i \in 0 .. n : i >= m => v[i][s] = v[m][s]}
  <2>1. 0 \in T
    OBVIOUS
  <2>2. ASSUME NEW i \in 1 .. n, i - 1 \in T PROVE i \in T
    <3>1. CASE i <= m
      BY <3>1
    <3>2. CASE i > m
      <4>1. i \notin s /\ v[i - 1][s] = v[m][s]
        BY <1>7, <2>2, <3>2
      <4>. QED
        BY <1>6, <4>1
    <3>. QED
      BY <3>1, <3>2
  <2>3. n \in T
    <3>. HIDE DEF T
    <3>1. 0 .. n \subseteq T
      BY <2>1, <2>2, UpwardInduction
    <3>. QED
      BY <3>1
  <2>. QED
    BY <2>3
<1>8. ASSUME NEW s \in P, NEW x \in 1 .. n
      PROVE  v[x - 1][s] = v[x - 1][s \ {x}]
  <2>. DEFINE T == {i \in 0 .. n : i < x => v[i][s] = v[i][s \ {x}]}
  <2>0. s \ {x} \in P
    OBVIOUS
  <2>1. 0 \in T
    BY <1>5, <2>0
  <2>2. ASSUME NEW i \in 1 .. n, i - 1 \in T PROVE i \in T
    <3>1. CASE i < x
      <4>1. v[i - 1][s] = v[i - 1][s \ {x}] /\ (i \in s <=> i \in s \ {x})
        BY <2>2, <3>1
      <4>2. v[i][s] = IF i \in s THEN G[i][v[i - 1][s]] ELSE v[i - 1][s]
        BY <1>6
      <4>3. v[i][s \ {x}]
              = IF i \in s \ {x} THEN G[i][v[i - 1][s \ {x}]] ELSE v[i - 1][s \ {x}]
        BY <1>6, <2>0
      <4>. QED
        BY <4>1, <4>2, <4>3
    <3>. QED
      BY <3>1
  <2>3. x - 1 \in T
    <3>. HIDE DEF T
    <3>1. 0 .. n \subseteq T
      BY <2>1, <2>2, UpwardInduction
    <3>. QED
      BY <3>1
  <2>. QED
    BY <2>3
<1>9. ASSUME NEW s \in P
      PROVE  v[n][s] = IF s = {} THEN base ELSE G[Max(s)][v[n][s \ {Max(s)}]]
  <2>1. CASE s = {}
    BY <1>5, <1>7, <2>1
  <2>2. CASE s # {}
    <3>1. PICK x : x = Max(s)
      OBVIOUS
    <3>2. x \in s /\ \A y \in s : x >= y
      <4>1. s \in SUBSET (0 .. n)
        OBVIOUS
      <4>. QED
        BY <2>2, <3>1, <4>1, MaxProperty
    <3>3. x \in 1 .. n /\ x \in 0 .. n /\ x - 1 \in 0 .. n /\ s \ {x} \in P
      BY <3>2
    <3>4. v[n][s] = G[x][v[x - 1][s]]
      <4>1. v[n][s] = v[x][s]
        BY <1>7, <3>2, <3>3
      <4>. QED
        BY <1>6, <3>2, <3>3, <4>1
    <3>5. v[n][s \ {x}] = v[x - 1][s \ {x}]
      BY <1>7, <3>2, <3>3
    <3>. QED
      BY <1>8, <2>2, <3>1, <3>3, <3>4, <3>5
  <2>. QED
    BY <2>1, <2>2
<1>10. v[n] \in [SUBSET (1 .. n) -> V]
  <2>1. n \in 0 .. n
    OBVIOUS
  <2>2. v[n] \in F
    BY <1>4, <2>1
  <2>. QED
    BY <2>2, Zenon DEF F
<1>. QED
  BY <1>9, <1>10 DEF FoldsOver

(* Such a function on the initial segments, as long as its values stay in V. *)
FoldsPrefixes(iter, n, V, base, G) ==
  /\ iter[{}] = base
  /\ \A k \in 1 .. n :
       iter[(1 .. k) \ {k}] \in V => iter[1 .. k] = G[k][iter[(1 .. k) \ {k}]]

(* The fold of the first k indices is the state of the loop after k iterations. *)
LEMMA FoldIsLoop ==
  ASSUME NEW n \in Nat, NEW V, NEW base \in V, NEW G \in [1 .. n -> [V -> V]],
         NEW f \in [0 .. n -> V], Runs(f, n, base, G),
         NEW iter, FoldsPrefixes(iter, n, V, base, G)
  PROVE  iter[1 .. n] = f[n]
<1>. USE DEF FoldsPrefixes
<1>. DEFINE T == {k \in 0 .. n : iter[1 .. k] = f[k]}
<1>1. 0 \in T
  <2>1. 1 .. 0 = {}
    OBVIOUS
  <2>. QED
    BY <2>1 DEF Runs
<1>2. ASSUME NEW k \in 1 .. n, k - 1 \in T PROVE k \in T
  <2>1. (1 .. k) \ {k} = 1 .. (k - 1)
    OBVIOUS
  <2>2. iter[1 .. (k - 1)] = f[k - 1] /\ f[k - 1] \in V
    BY <1>2
  <2>3. iter[1 .. k] = G[k][f[k - 1]]
    BY <2>1, <2>2
  <2>4. f[k] = G[k][f[k - 1]]
    BY DEF Runs
  <2>. QED
    BY <2>3, <2>4
<1>3. 0 .. n \subseteq T
  <2>. HIDE DEF T
  <2>. QED
    BY <1>1, <1>2, UpwardInduction
<1>. QED
  BY <1>3

-----------------------------------------------------------------------------
(* The members of the room *)

(* The members of the room that may host in this behaviour: at most one. *)
Hosts == {n \in Nodes : "BeginHostingNetwork" \in Of.commands[n]}

-----------------------------------------------------------------------------
(* The types of the service and of the packets *)

Entry == [present : BOOLEAN, connected : BOOLEAN, node_id : 0 .. UDSMaxNodes]

NodeMaps == [Nodes -> Entry]

NodeInfos == [Ids -> Nodes \cup {NoNode}]

NetworkInfo == [host_mac_address : Nodes \cup {NoNode}, total_nodes : Int, max_nodes : Int]

DataPacket ==
  [dest_node_id : Ids \cup {Broadcast}, src_node_id : 0 .. UDSMaxNodes, channel : Channels,
   number : Nat, origin : Nodes, flagged : BOOLEAN]

ChannelData ==
  [bound : BOOLEAN, network_node_id : Ids \cup {0, Broadcast}, received_packets : Seq(DataPacket)]

Statuses == {"NotConnected", "Connecting", "ConnectedAsClient", "ConnectedAsHost"}

Pending == [then : {"none", "AssociationResponse", "EAPoLStart"}, to : Nodes \cup {NoNode}]

Service ==
  [initialized : BOOLEAN, status : Statuses, network_node_id : 0 .. UDSMaxNodes,
   total_nodes : Int, max_nodes : Int, node_bitmask : SUBSET Ids, nodes : SUBSET Ids,
   node_info : NodeInfos, network_info : NetworkInfo, node_map : NodeMaps,
   channel_data : [Channels -> ChannelData], sleeping : BOOLEAN, pending : Pending,
   fault : BOOLEAN]

Addresses == Nodes \cup {Broadcast, NoNode}

LogoffBody ==
  [assigned_node_id : Ids, connected_nodes : Int, max_nodes : Int, nodes : NodeInfos]

Frames ==
  [type : {"Authentication", "AssociationResponse", "EAPoLStart", "Deauthentication"},
   from : Nodes, to : Addresses, body : {"SEQ1", "SEQ2", "Successful", "start", "leave", "eject"}]

Packets ==
  Frames
  \cup [type : {"NodeMap"}, from : Nodes, to : {Broadcast}, body : NodeMaps]
  \cup [type : {"EAPoLLogoff"}, from : Nodes, to : {Broadcast}, body : LogoffBody]
  \cup [type : {"SecureData"}, from : Nodes, to : Addresses, body : DataPacket]

(* What a member sends: a node map only if it hosts. *)
Outbound(n) == {p \in Packets : p.from = n /\ (p.type = "NodeMap" => n \in Hosts)}

(* What the room has for a member: a node map is of another member, which hosts. *)
Inbound(n) == {p \in Packets : p.type = "NodeMap" => p.from \in Hosts \ {n}}

Boxes == {b \in [Nodes -> Seq(Packets)] : \A n \in Nodes : b[n] \in Seq(Inbound(n))}

-----------------------------------------------------------------------------
(* The invariant *)

(* A host in a network, as IsHost has it of the service. *)
Leads(u) == u.initialized /\ u.status = "ConnectedAsHost" /\ u.max_nodes > 0

MembersOf(u) == {m \in Nodes : u.node_map[m].connected}

ListsAgree(h, u) ==
  /\ u.node_bitmask = {1} \cup {u.node_map[m].node_id : m \in MembersOf(u)}
  /\ u.nodes = u.node_bitmask
  /\ u.total_nodes = Cardinality(MembersOf(u)) + 1
  /\ Cardinality(u.node_bitmask) = u.total_nodes
  /\ u.network_info.total_nodes = u.total_nodes
  /\ u.total_nodes <= u.max_nodes
  /\ u.node_info[1] = h
  /\ \A m \in MembersOf(u) : u.node_map[m].present /\ u.node_map[m].node_id \in 2 .. u.max_nodes
  /\ \A i \in Ids \ {1} : \A m \in Nodes :
       (u.node_info[i] = m) <=> (m \in MembersOf(u) /\ u.node_map[m].node_id = i)

(***************************************************************************)
(* What is true of a node besides: only a member that may host is one;     *)
(* until it leads a network its node map is empty, so it begins with no    *)
(* member; and the lists of a node that is in no network are empty.        *)
(***************************************************************************)
NodeInv(n, u) ==
  /\ u.status = "ConnectedAsHost" =>
       /\ n \in Hosts
       /\ u.max_nodes \in 0 .. UDSMaxNodes
       /\ u.max_nodes = 0 => u.total_nodes = 0
  /\ n \in Hosts /\ ~Leads(u) => u.node_map = NoNodeMap
  /\ u.status \in {"NotConnected", "Connecting"} => u.nodes = {} /\ u.node_bitmask = {}
  /\ Leads(u) => ListsAgree(n, u)

TypeOK ==
  /\ uds \in [Nodes -> Service]
  /\ inbox \in Boxes
  /\ joined \subseteq Nodes
  /\ program \in DOMAIN Programs
  /\ sent \in Nat

UdsInv == TypeOK /\ \A n \in Nodes : NodeInv(n, uds[n])

-----------------------------------------------------------------------------
(* The room *)

(* Two members that may host are one. *)
LEMMA OneHost ==
  ASSUME program \in DOMAIN Programs, NEW m \in Hosts, NEW n \in Hosts
  PROVE  m = n
  BY ProgramsAssumption DEF Hosts, Of

(* The room puts what a member sends where it belongs. *)
LEMMA PacketGoesIn ==
  ASSUME NEW b \in Boxes, NEW n \in Nodes, NEW p \in Outbound(n)
  PROVE  SendPacket(b, p) \in Boxes
<1>1. p \in Packets /\ p.from = n
  BY DEF Outbound
<1>2. ASSUME NEW m \in Nodes, m \in joined, p.to = m \/ (p.to = Broadcast /\ m # p.from)
      PROVE  p \in Inbound(m)
  <2>1. CASE p.type = "NodeMap"
    <3>1. p.to = Broadcast
      BY <1>1, <2>1 DEF Packets, Frames
    <3>. QED
      BY <1>1, <1>2, <2>1, <3>1, UdsAssumption DEF Inbound, Outbound
  <2>2. CASE p.type # "NodeMap"
    BY <1>1, <2>2 DEF Inbound
  <2>. QED
    BY <2>1, <2>2
<1>3. \A m \in Nodes : b[m] \in Seq(Packets) /\ b[m] \in Seq(Inbound(m))
  BY DEF Boxes
<1>4. HandleWifiPacket(b, p) \in [Nodes -> Seq(Packets)]
  BY <1>1, <1>3 DEF HandleWifiPacket
<1>5. ASSUME NEW m \in Nodes PROVE HandleWifiPacket(b, p)[m] \in Seq(Inbound(m))
  <2>1. CASE m \in joined /\ (p.to = m \/ (p.to = Broadcast /\ m # p.from))
    <3>1. HandleWifiPacket(b, p)[m] = Append(b[m], p)
      BY <2>1 DEF HandleWifiPacket
    <3>2. p \in Inbound(m)
      BY <1>2, <2>1
    <3>. QED
      BY <1>3, <3>1, <3>2
  <2>2. CASE ~(m \in joined /\ (p.to = m \/ (p.to = Broadcast /\ m # p.from)))
    <3>1. HandleWifiPacket(b, p)[m] = b[m]
      BY <2>2 DEF HandleWifiPacket
    <3>. QED
      BY <1>3, <3>1
  <2>. QED
    BY <2>1, <2>2
<1>6. HandleWifiPacket(b, p) \in Boxes
  BY <1>4, <1>5 DEF Boxes
<1>. QED
  BY <1>6 DEF SendPacket

(* SendAll is a loop over the packets. *)
LEMMA PacketsGoIn ==
  ASSUME NEW b \in Boxes, NEW n \in Nodes, NEW packets \in Seq(Outbound(n))
  PROVE  SendAll(b, packets) \in Boxes
<1>. DEFINE N == Len(packets)
            G == [i \in 1 .. N |-> [v \in Boxes |-> SendPacket(v, packets[i])]]
            D(F) == [s \in SUBSET DOMAIN packets |->
                       IF s = {} THEN b ELSE SendPacket(F[s \ {Max(s)}], packets[Max(s)])]
            iter == CHOOSE F : F = D(F)
<1>1. N \in Nat /\ DOMAIN packets = 1 .. N /\ \A i \in 1 .. N : packets[i] \in Outbound(n)
  OBVIOUS
<1>2. G \in [1 .. N -> [Boxes -> Boxes]]
  BY <1>1, PacketGoesIn
<1>3. PICK it \in [SUBSET (1 .. N) -> Boxes] : FoldsOver(it, N, b, G)
  <2>. HIDE DEF G, N
  <2>. QED
    BY <1>1, <1>2, FoldExists
<1>4. \A s \in SUBSET (1 .. N) : s # {} => Max(s) \in s
  <2>. SUFFICES ASSUME NEW s \in SUBSET (1 .. N), s # {} PROVE Max(s) \in s
    OBVIOUS
  <2>1. s \in SUBSET (0 .. N)
    BY <1>1
  <2>. QED
    BY <1>1, <2>1, MaxProperty
<1>5. it = D(it)
  <2>1. ASSUME NEW s \in SUBSET (1 .. N)
        PROVE  it[s] = IF s = {} THEN b ELSE SendPacket(it[s \ {Max(s)}], packets[Max(s)])
    <3>1. CASE s = {}
      BY <1>3, <3>1 DEF FoldsOver
    <3>2. CASE s # {}
      <4>1. Max(s) \in 1 .. N /\ s \ {Max(s)} \in SUBSET (1 .. N)
        BY <1>4, <3>2
      <4>2. it[s \ {Max(s)}] \in Boxes
        BY <4>1
      <4>3. it[s] = G[Max(s)][it[s \ {Max(s)}]]
        BY <1>3, <3>2 DEF FoldsOver
      <4>. HIDE DEF N
      <4>. QED
        BY <3>2, <4>1, <4>2, <4>3
    <3>. QED
      BY <3>1, <3>2
  <2>2. it = [s \in SUBSET (1 .. N) |-> it[s]]
    OBVIOUS
  <2>. HIDE DEF N
  <2>. QED
    BY <1>1, <2>1, <2>2, Zenon
<1>6. iter = D(iter)
  <2>. HIDE DEF D
  <2>. QED
    BY <1>5
<1>7. SendAll(b, packets) = iter[1 .. N]
  <2>1. SendAll(b, packets) = iter[DOMAIN packets]
    BY DEF SendAll, FoldLeft, MapThenFoldSet
  <2>. QED
    BY <1>1, <2>1
<1>8. PICK f \in [0 .. N -> Boxes] : Runs(f, N, b, G)
  <2>. HIDE DEF G, N, iter, D
  <2>. QED
    BY <1>1, <1>2, LoopExists
<1>9. \A s \in SUBSET (1 .. N) :
        iter[s] = IF s = {} THEN b ELSE SendPacket(iter[s \ {Max(s)}], packets[Max(s)])
  <2>. HIDE DEF iter, N
  <2>. QED
    BY <1>1, <1>6, Zenon
<1>. HIDE DEF iter, D
<1>10. iter[{}] = b
  BY <1>9
<1>11. \A k \in 1 .. N : iter[(1 .. k) \ {k}] \in Boxes
                           => iter[1 .. k] = G[k][iter[(1 .. k) \ {k}]]
  <2>0. SUFFICES ASSUME NEW k \in 1 .. N, iter[(1 .. k) \ {k}] \in Boxes
                 PROVE  iter[1 .. k] = G[k][iter[(1 .. k) \ {k}]]
    OBVIOUS
  <2>1. 1 .. k \in SUBSET (1 .. N) /\ 1 .. k # {} /\ 1 .. k \in SUBSET (0 .. N)
    BY <1>1
  <2>2. Max(1 .. k) = k
    <3>1. PICK x : x = Max(1 .. k)
      OBVIOUS
    <3>2. x \in 1 .. k /\ \A y \in 1 .. k : x >= y
      BY <1>1, <2>1, <3>1, MaxProperty
    <3>. QED
      BY <3>1, <3>2
  <2>3. iter[1 .. k] = SendPacket(iter[(1 .. k) \ {k}], packets[k])
    BY <1>9, <2>1, <2>2
  <2>. HIDE DEF N
  <2>. QED
    BY <2>0, <2>3
<1>12. FoldsPrefixes(iter, N, Boxes, b, G)
  BY <1>10, <1>11 DEF FoldsPrefixes
<1>13. iter[1 .. N] = f[N]
  <2>. HIDE DEF G, N
  <2>. QED
    BY <1>1, <1>2, <1>8, <1>12, FoldIsLoop
<1>. QED
  <2>. HIDE DEF G, N
  <2>. QED
    BY <1>1, <1>7, <1>13

-----------------------------------------------------------------------------
(* The handlers *)

(* A handler keeps the invariant of its node and sends what it may. *)
Good(n, r) == r.u \in Service /\ NodeInv(n, r.u) /\ r.packets \in Seq(Outbound(n))

LEMMA GoodResult ==
  ASSUME NEW n, NEW u \in Service, NodeInv(n, u), NEW packets \in Seq(Outbound(n))
  PROVE  Good(n, Result(u, packets))
  BY DEF Good, Result

LEMMA GoodIgnored ==
  ASSUME NEW n, NEW u \in Service, NodeInv(n, u)
  PROVE  Good(n, Ignored(u))
<1>1. << >> \in Seq(Outbound(n))
  OBVIOUS
<1>. QED
  BY <1>1, GoodResult DEF Ignored

(* What a node sends besides node maps. *)
LEMMA FrameGoesOut ==
  ASSUME NEW n \in Nodes, NEW to \in Addresses,
         NEW type \in {"Authentication", "AssociationResponse", "EAPoLStart", "Deauthentication"},
         NEW body \in {"SEQ1", "SEQ2", "Successful", "start", "leave", "eject"}
  PROVE  Packet(type, n, to, body) \in Outbound(n)
<1>1. Packet(type, n, to, body) \in Frames
  BY DEF Packet, Frames
<1>. QED
  BY <1>1 DEF Outbound, Packets, Packet

LEMMA OneFrameGoesOut ==
  ASSUME NEW n \in Nodes, NEW p \in Outbound(n)
  PROVE  <<p>> \in Seq(Outbound(n))
  OBVIOUS

(* The lists that NodeInv is about. *)
SameLists(u, v) ==
  /\ v.initialized = u.initialized /\ v.status = u.status
  /\ v.max_nodes = u.max_nodes /\ v.total_nodes = u.total_nodes
  /\ v.node_bitmask = u.node_bitmask /\ v.nodes = u.nodes
  /\ v.node_info = u.node_info /\ v.network_info = u.network_info /\ v.node_map = u.node_map

LEMMA SameListsInv ==
  ASSUME NEW n, NEW u, NEW v, NodeInv(n, u), SameLists(u, v)
  PROVE  NodeInv(n, v)
<1>1. MembersOf(v) = MembersOf(u)
  BY DEF SameLists, MembersOf
<1>2. Leads(v) <=> Leads(u)
  BY DEF SameLists, Leads
<1>3. ListsAgree(n, u) => ListsAgree(n, v)
  BY <1>1 DEF SameLists, ListsAgree
<1>. QED
  BY <1>2, <1>3 DEF SameLists, NodeInv

(* A node with no entry for a sender does not have it for a member. *)
LEMMA NoMapNoMembers ==
  ASSUME NEW n \in Nodes, NEW u, NodeInv(n, u), u.status = "ConnectedAsHost", NEW m \in Nodes,
         u.node_map[m].present
  PROVE  Leads(u) /\ ListsAgree(n, u)
<1>1. ~Leads(u) => u.node_map = NoNodeMap
  BY DEF NodeInv
<1>2. NoNodeMap[m].present = FALSE
  BY DEF NoNodeMap, NoEntry
<1>. QED
  BY <1>1, <1>2 DEF NodeInv

LEMMA NodeMapKeeps ==
  ASSUME program \in DOMAIN Programs, NEW n \in Nodes, NEW u \in Service, NodeInv(n, u),
         NEW p \in Inbound(n), p.type = "NodeMap"
  PROVE  Good(n, HandleNodeMapPacket(n, u, p))
<1>1. CASE u.status = "ConnectedAsHost"
  BY <1>1, GoodIgnored DEF HandleNodeMapPacket
<1>2. CASE u.status # "ConnectedAsHost"
  <2>. DEFINE v == [u EXCEPT !.node_map = p.body]
  <2>1. p.body \in NodeMaps /\ p.from \in Hosts \ {n}
    BY DEF Inbound, Packets, Frames
  <2>2. n \notin Hosts
    BY <2>1, OneHost
  <2>3. v \in Service /\ v.status = u.status /\ v.nodes = u.nodes /\ v.node_bitmask = u.node_bitmask
    BY <2>1 DEF Service
  <2>4. NodeInv(n, v)
    <3>. HIDE DEF v
    <3>. QED
      BY <1>2, <2>2, <2>3 DEF NodeInv, Leads
  <2>. QED
    BY <1>2, <2>3, <2>4, GoodIgnored DEF HandleNodeMapPacket
<1>. QED
  BY <1>1, <1>2

LEMMA AuthenticationKeeps ==
  ASSUME NEW n \in Nodes, NEW u \in Service, NodeInv(n, u), u.initialized,
         NEW p \in Inbound(n), p.type = "Authentication"
  PROVE  Good(n, HandleAuthenticationFrame(n, u, p))
<1>0. p.from \in Nodes
  BY DEF Inbound, Packets, Frames
<1>1. CASE \/ p.body # "SEQ1" \/ u.status # "ConnectedAsHost"
           \/ u.node_map[p.from].present \/ u.max_nodes = u.total_nodes
  BY <1>1, GoodIgnored DEF HandleAuthenticationFrame
<1>2. CASE ~(\/ p.body # "SEQ1" \/ u.status # "ConnectedAsHost"
             \/ u.node_map[p.from].present \/ u.max_nodes = u.total_nodes)
  <2>. DEFINE new == [NoEntry EXCEPT !.present = TRUE]
              v == [u EXCEPT !.node_map[p.from] = new,
                             !.pending = [then |-> "AssociationResponse", to |-> p.from]]
  <2>1. Leads(u) /\ ListsAgree(n, u)
    BY <1>2 DEF NodeInv, Leads, Service
  <2>2. new \in Entry /\ ~new.connected
    <3>1. NoEntry \in Entry /\ ~NoEntry.connected
      BY UdsAssumption DEF NoEntry, Entry
    <3>. QED
      BY <3>1 DEF Entry
  <2>. HIDE DEF new
  <2>3. v \in Service
    BY <1>0, <2>2 DEF Service, Pending, NodeMaps
  <2>4. /\ v.initialized = u.initialized /\ v.status = u.status
        /\ v.max_nodes = u.max_nodes /\ v.total_nodes = u.total_nodes
        /\ v.node_bitmask = u.node_bitmask /\ v.nodes = u.nodes
        /\ v.node_info = u.node_info /\ v.network_info = u.network_info
        /\ v.node_map = [u.node_map EXCEPT ![p.from] = new]
    BY DEF Service
  <2>. HIDE DEF v
  <2>5. /\ v.node_map[p.from] = new
        /\ \A m \in Nodes \ {p.from} : v.node_map[m] = u.node_map[m]
    BY <1>0, <2>4 DEF Service, NodeMaps
  <2>6. ~u.node_map[p.from].connected
    BY <1>0, <1>2, <2>1 DEF ListsAgree, MembersOf
  <2>7. MembersOf(v) = MembersOf(u) /\ \A m \in MembersOf(u) : v.node_map[m] = u.node_map[m]
    BY <2>2, <2>5, <2>6 DEF MembersOf
  <2>8. ListsAgree(n, v)
    <3>1. {v.node_map[m].node_id : m \in MembersOf(v)} = {u.node_map[m].node_id : m \in MembersOf(u)}
      BY <2>7
    <3>. QED
      BY <2>1, <2>4, <2>7, <3>1 DEF ListsAgree
  <2>9. NodeInv(n, v)
    BY <2>1, <2>4, <2>8 DEF NodeInv, Leads
  <2>10. <<Packet("Authentication", n, p.from, "SEQ2")>> \in Seq(Outbound(n))
    BY <1>0, FrameGoesOut, OneFrameGoesOut DEF Addresses
  <2>. QED
    BY <1>2, <2>3, <2>9, <2>10, GoodResult DEF HandleAuthenticationFrame, v, new
<1>. QED
  BY <1>1, <1>2

(* What the host sends to all when a node is in. *)
LEMMA NewsGoesOut ==
  ASSUME NEW n \in Hosts, NEW u \in Service, NEW id \in Ids
  PROVE  <<BroadcastNodeMap(n, u), EAPoLLogoff(n, u, id)>> \in Seq(Outbound(n))
<1>1. n \in Nodes
  BY DEF Hosts
<1>2. NoEntry \in Entry
  BY UdsAssumption DEF NoEntry, Entry
<1>3. [m \in Nodes |-> IF u.node_map[m].connected THEN u.node_map[m] ELSE NoEntry] \in NodeMaps
  BY <1>2 DEF Service, NodeMaps
<1>4. BroadcastNodeMap(n, u) \in Outbound(n)
  BY <1>1, <1>3 DEF BroadcastNodeMap, Packet, Outbound, Packets
<1>5. u.network_info.total_nodes \in Int /\ u.network_info.max_nodes \in Int /\ u.node_info \in NodeInfos
  BY DEF Service, NetworkInfo
<1>6. [assigned_node_id |-> id, connected_nodes |-> u.network_info.total_nodes,
       max_nodes |-> u.network_info.max_nodes, nodes |-> u.node_info] \in LogoffBody
  BY <1>5 DEF LogoffBody
<1>7. EAPoLLogoff(n, u, id) \in Outbound(n)
  BY <1>1, <1>6 DEF EAPoLLogoff, Packet, Outbound, Packets
<1>. QED
  BY <1>4, <1>7

LEMMA IdsFinite == IsFiniteSet(Ids)
<1>1. 1 \in Int /\ UDSMaxNodes \in Int
  BY UdsAssumption
<1>. QED
  BY <1>1, FS_Interval DEF Ids

(* A host with room left has an id that no node of its network has. *)
LEMMA FreeId ==
  ASSUME NEW h, NEW u \in Service, ListsAgree(h, u), u.max_nodes \in 1 .. UDSMaxNodes,
         u.max_nodes # u.total_nodes
  PROVE  GetNextAvailableNodeId(u) \in (2 .. u.max_nodes) \ u.node_bitmask
<1>. DEFINE free == (1 .. u.max_nodes) \ u.node_bitmask
<1>1. u.max_nodes \in Nat /\ u.max_nodes > 0
  BY UdsAssumption
<1>2. u.total_nodes \in Int /\ u.total_nodes < u.max_nodes
  BY <1>1 DEF ListsAgree, Service
<1>3. Cardinality(1 .. u.max_nodes) = u.max_nodes /\ IsFiniteSet(1 .. u.max_nodes)
  BY <1>1, FS_Interval
<1>4. free # {}
  <2>. SUFFICES ASSUME 1 .. u.max_nodes \subseteq u.node_bitmask PROVE FALSE
    OBVIOUS
  <2>1. IsFiniteSet(Ids)
    BY IdsFinite
  <2>2. IsFiniteSet(u.node_bitmask)
    BY <2>1, FS_Subset DEF Service
  <2>3. Cardinality(1 .. u.max_nodes) <= Cardinality(u.node_bitmask)
    BY <2>2, FS_Subset
  <2>. QED
    BY <1>1, <1>2, <1>3, <2>3 DEF ListsAgree
<1>5. free \in SUBSET Nat
  OBVIOUS
<1>6. Min(free) \in free
  <2>. HIDE DEF free
  <2>. QED
    BY <1>4, <1>5, MinProperty
<1>7. 1 \in u.node_bitmask
  BY DEF ListsAgree
<1>. QED
  BY <1>1, <1>6, <1>7 DEF GetNextAvailableNodeId

(* A node that gets the id is in all the lists. *)
LEMMA AddNodeAgrees ==
  ASSUME NEW h \in Nodes, NEW u \in Service, ListsAgree(h, u), u.max_nodes \in 1 .. UDSMaxNodes,
         u.max_nodes # u.total_nodes, NEW mac \in Nodes, ~u.node_map[mac].connected,
         NEW id \in (2 .. u.max_nodes) \ u.node_bitmask
  PROVE  /\ AddNode(u, mac, id) \in Service
         /\ ListsAgree(h, AddNode(u, mac, id))
         /\ AddNode(u, mac, id).status = u.status
         /\ AddNode(u, mac, id).initialized = u.initialized
         /\ AddNode(u, mac, id).max_nodes = u.max_nodes
<1>. DEFINE new == [present |-> TRUE, connected |-> TRUE, node_id |-> id]
            v == AddNode(u, mac, id)
<1>1. id \in Ids /\ id # 1 /\ id \in 2 .. u.max_nodes /\ id \in 0 .. UDSMaxNodes
  BY UdsAssumption DEF Ids
<1>2. new \in Entry
  BY <1>1 DEF Entry
<1>3. /\ u.total_nodes \in Int /\ u.network_info.total_nodes \in Int /\ u.network_info \in NetworkInfo
      /\ u.node_info \in NodeInfos /\ u.node_map \in NodeMaps
  BY DEF Service, NetworkInfo
<1>4. v \in Service
  <2>1. PICK map : map = [u.node_map EXCEPT ![mac] = new]
    OBVIOUS
  <2>2. PICK info : info = [u.node_info EXCEPT ![id] = mac]
    OBVIOUS
  <2>3. PICK net : net = [u.network_info EXCEPT !.total_nodes = @ + 1]
    OBVIOUS
  <2>4. PICK ids, nodes, total : /\ ids = u.node_bitmask \cup {id} /\ nodes = u.nodes \cup {id}
                                 /\ total = u.total_nodes + 1
    OBVIOUS
  <2>5. map \in NodeMaps
    BY <1>2, <1>3, <2>1 DEF NodeMaps
  <2>6. info \in NodeInfos
    BY <1>1, <1>3, <2>2 DEF NodeInfos
  <2>7. net \in NetworkInfo
    BY <1>3, <2>3 DEF NetworkInfo
  <2>8. ids \in SUBSET Ids /\ nodes \in SUBSET Ids /\ total \in Int
    BY <1>1, <1>3, <2>4 DEF Service
  <2>9. v = [u EXCEPT !.node_bitmask = ids, !.nodes = nodes, !.total_nodes = total,
                      !.node_info = info, !.network_info = net, !.node_map = map]
    BY <2>1, <2>2, <2>3, <2>4 DEF AddNode
  <2>. HIDE DEF v
  <2>. QED
    BY <2>5, <2>6, <2>7, <2>8, <2>9 DEF Service
<1>5. /\ v.status = u.status /\ v.initialized = u.initialized /\ v.max_nodes = u.max_nodes
      /\ v.total_nodes = u.total_nodes + 1
      /\ v.node_bitmask = u.node_bitmask \cup {id} /\ v.nodes = u.nodes \cup {id}
      /\ v.node_info = [u.node_info EXCEPT ![id] = mac]
      /\ v.network_info.total_nodes = u.network_info.total_nodes + 1
      /\ v.node_map = [u.node_map EXCEPT ![mac] = new]
  BY DEF AddNode, Service, NetworkInfo
<1>. HIDE DEF v
<1>6. /\ v.node_map[mac] = new /\ \A m \in Nodes \ {mac} : v.node_map[m] = u.node_map[m]
      /\ v.node_info[id] = mac /\ \A i \in Ids \ {id} : v.node_info[i] = u.node_info[i]
  BY <1>1, <1>3, <1>5 DEF NodeMaps, NodeInfos
<1>7. MembersOf(v) = MembersOf(u) \cup {mac} /\ mac \notin MembersOf(u)
  BY <1>6 DEF MembersOf
<1>8. IsFiniteSet(MembersOf(u)) /\ IsFiniteSet(u.node_bitmask)
  <2>1. IsFiniteSet(Ids)
    BY IdsFinite
  <2>. QED
    BY <2>1, UdsAssumption, FS_Subset DEF MembersOf, Service
<1>9. v.node_bitmask = {1} \cup {v.node_map[m].node_id : m \in MembersOf(v)}
  BY <1>5, <1>6, <1>7 DEF ListsAgree, MembersOf
<1>10. /\ v.total_nodes = Cardinality(MembersOf(v)) + 1
       /\ Cardinality(v.node_bitmask) = v.total_nodes
  <2>1. Cardinality(MembersOf(v)) = Cardinality(MembersOf(u)) + 1
    BY <1>7, <1>8, FS_AddElement
  <2>2. Cardinality(v.node_bitmask) = Cardinality(u.node_bitmask) + 1
    BY <1>5, <1>8, FS_AddElement
  <2>. QED
    BY <1>3, <1>5, <2>1, <2>2 DEF ListsAgree
<1>11. v.total_nodes <= v.max_nodes
  BY <1>3, <1>5, UdsAssumption DEF ListsAgree
<1>12. v.nodes = v.node_bitmask /\ v.network_info.total_nodes = v.total_nodes /\ v.node_info[1] = h
  <2>1. 1 \in Ids \ {id}
    BY <1>1, UdsAssumption DEF Ids
  <2>. QED
    BY <1>5, <1>6, <2>1 DEF ListsAgree
<1>13. \A m \in MembersOf(v) : v.node_map[m].present /\ v.node_map[m].node_id \in 2 .. v.max_nodes
  BY <1>1, <1>5, <1>6, <1>7 DEF ListsAgree, MembersOf
<1>14. ASSUME NEW i \in Ids \ {1}, NEW m \in Nodes
       PROVE  (v.node_info[i] = m) <=> (m \in MembersOf(v) /\ v.node_map[m].node_id = i)
  <2>1. \A x \in MembersOf(u) : u.node_map[x].node_id \in u.node_bitmask
    BY DEF ListsAgree
  <2>2. CASE i = id
    BY <1>6, <1>7, <2>1, <2>2
  <2>3. CASE i # id
    <3>1. v.node_info[i] = u.node_info[i]
      BY <1>6, <2>3
    <3>2. (u.node_info[i] = m) <=> (m \in MembersOf(u) /\ u.node_map[m].node_id = i)
      BY DEF ListsAgree
    <3>3. CASE m = mac
      BY <1>6, <1>7, <2>3, <3>1, <3>2, <3>3
    <3>4. CASE m # mac
      BY <1>6, <1>7, <3>1, <3>2, <3>4
    <3>. QED
      BY <3>3, <3>4
  <2>. QED
    BY <2>2, <2>3
<1>15. ListsAgree(h, v)
  BY <1>9, <1>10, <1>11, <1>12, <1>13, <1>14 DEF ListsAgree
<1>. QED
  BY <1>4, <1>5, <1>15 DEF v

LEMMA EAPoLStartKeeps ==
  ASSUME NEW n \in Nodes, NEW u \in Service, NodeInv(n, u), NEW p \in Inbound(n)
  PROVE  Good(n, HandleEAPoLStart(n, u, p))
<1>0. p.from \in Nodes
  BY DEF Inbound, Packets, Frames
<1>1. CASE u.status # "ConnectedAsHost" \/ ~u.node_map[p.from].present \/ u.node_map[p.from].connected
  BY <1>1, GoodIgnored DEF HandleEAPoLStart
<1>2. CASE /\ ~(u.status # "ConnectedAsHost" \/ ~u.node_map[p.from].present
                 \/ u.node_map[p.from].connected)
           /\ u.max_nodes = u.total_nodes
  <2>. DEFINE v == [u EXCEPT !.fault = TRUE]
  <2>1. v \in Service /\ SameLists(u, v)
    BY DEF Service, SameLists
  <2>. HIDE DEF v
  <2>2. NodeInv(n, v)
    BY <2>1, SameListsInv
  <2>. QED
    BY <1>2, <2>1, <2>2, GoodIgnored DEF HandleEAPoLStart, v
<1>3. CASE /\ ~(u.status # "ConnectedAsHost" \/ ~u.node_map[p.from].present
                 \/ u.node_map[p.from].connected)
           /\ u.max_nodes # u.total_nodes
  <2>1. Leads(u) /\ ListsAgree(n, u)
    BY <1>0, <1>3, NoMapNoMembers
  <2>2. n \in Hosts /\ u.max_nodes \in 1 .. UDSMaxNodes
    BY <1>3, <2>1, UdsAssumption DEF NodeInv, Leads
  <2>3. PICK id : id = GetNextAvailableNodeId(u)
    OBVIOUS
  <2>4. id \in (2 .. u.max_nodes) \ u.node_bitmask
    BY <1>3, <2>1, <2>2, <2>3, FreeId
  <2>5. PICK v : v = AddNode(u, p.from, id)
    OBVIOUS
  <2>6. /\ v \in Service /\ ListsAgree(n, v) /\ v.status = u.status
        /\ v.initialized = u.initialized /\ v.max_nodes = u.max_nodes
    BY <1>0, <1>3, <2>1, <2>2, <2>4, <2>5, AddNodeAgrees
  <2>7. NodeInv(n, v)
    BY <2>1, <2>2, <2>6 DEF NodeInv, Leads
  <2>8. id \in Ids
    BY <2>2, <2>4, UdsAssumption DEF Ids
  <2>9. <<BroadcastNodeMap(n, v), EAPoLLogoff(n, v, id)>> \in Seq(Outbound(n))
    BY <2>2, <2>6, <2>8, NewsGoesOut
  <2>10. HandleEAPoLStart(n, u, p) = Result(v, <<BroadcastNodeMap(n, v), EAPoLLogoff(n, v, id)>>)
    BY <1>3, <2>3, <2>5 DEF HandleEAPoLStart
  <2>. QED
    BY <2>6, <2>7, <2>9, <2>10, GoodResult
<1>. QED
  BY <1>1, <1>2, <1>3

(* A member that leaves is taken out of all the lists. *)
LEMMA RemoveNodeAgrees ==
  ASSUME NEW h \in Nodes, NEW u \in Service, ListsAgree(h, u), u.max_nodes \in 1 .. UDSMaxNodes,
         NEW mac \in MembersOf(u), NEW v \in Service,
         v.total_nodes = u.total_nodes - 1, v.max_nodes = u.max_nodes,
         v.node_bitmask = u.node_bitmask \ {u.node_map[mac].node_id},
         v.nodes = u.nodes \ {u.node_map[mac].node_id},
         v.network_info.total_nodes = u.network_info.total_nodes - 1,
         v.node_info = [u.node_info EXCEPT ![u.node_map[mac].node_id] = NoNode],
         v.node_map = [u.node_map EXCEPT ![mac] = NoEntry]
  PROVE  ListsAgree(h, v)
<1>1. PICK id : id = u.node_map[mac].node_id
  OBVIOUS
<1>2. mac \in Nodes /\ id \in 2 .. u.max_nodes /\ id \in Ids \ {1} /\ 1 \in Ids /\ id \in u.node_bitmask
  BY <1>1, UdsAssumption DEF ListsAgree, MembersOf, Ids
<1>3. /\ u.total_nodes \in Int /\ u.network_info.total_nodes \in Int
      /\ u.node_info \in NodeInfos /\ u.node_map \in NodeMaps
  BY DEF Service, NetworkInfo
<1>4. /\ v.node_map[mac] = NoEntry /\ \A m \in Nodes \ {mac} : v.node_map[m] = u.node_map[m]
      /\ v.node_info[id] = NoNode /\ \A i \in Ids \ {id} : v.node_info[i] = u.node_info[i]
  BY <1>1, <1>2, <1>3 DEF NodeMaps, NodeInfos
<1>5. ~NoEntry.connected
  BY DEF NoEntry
<1>6. MembersOf(v) = MembersOf(u) \ {mac}
  BY <1>4, <1>5 DEF MembersOf
<1>7. \A m \in MembersOf(u) : u.node_map[m].node_id = id => m = mac
  <2>. SUFFICES ASSUME NEW m \in MembersOf(u), u.node_map[m].node_id = id PROVE m = mac
    OBVIOUS
  <2>1. m \in Nodes
    BY DEF MembersOf
  <2>2. u.node_info[id] = m /\ u.node_info[id] = mac
    BY <1>1, <1>2, <2>1 DEF ListsAgree
  <2>. QED
    BY <2>2
<1>8. v.node_bitmask = {1} \cup {v.node_map[m].node_id : m \in MembersOf(v)}
  <2>1. \A m \in MembersOf(v) : m \in MembersOf(u) /\ v.node_map[m] = u.node_map[m]
    BY <1>4, <1>6 DEF MembersOf
  <2>2. {v.node_map[m].node_id : m \in MembersOf(v)} = {u.node_map[m].node_id : m \in MembersOf(v)}
    BY <2>1
  <2>. QED
    BY <1>1, <1>2, <1>6, <1>7, <2>2 DEF ListsAgree
<1>9. IsFiniteSet(MembersOf(u)) /\ IsFiniteSet(u.node_bitmask)
  <2>1. IsFiniteSet(Ids)
    BY IdsFinite
  <2>. QED
    BY <2>1, UdsAssumption, FS_Subset DEF MembersOf, Service
<1>10. /\ v.total_nodes = Cardinality(MembersOf(v)) + 1
       /\ Cardinality(v.node_bitmask) = v.total_nodes
  <2>1. Cardinality(MembersOf(v)) = Cardinality(MembersOf(u)) - 1
    BY <1>6, <1>9, FS_RemoveElement
  <2>2. Cardinality(v.node_bitmask) = Cardinality(u.node_bitmask) - 1
    <3>1. PICK ids : ids = u.node_bitmask
      OBVIOUS
    <3>2. Cardinality(ids \ {id}) = Cardinality(ids) - 1
      BY <1>2, <1>9, <3>1, FS_RemoveElement
    <3>3. v.node_bitmask = ids \ {id}
      BY <1>1, <3>1
    <3>. QED
      BY <3>1, <3>2, <3>3
  <2>3. Cardinality(MembersOf(u)) \in Nat
    BY <1>9, FS_CardinalityType
  <2>. QED
    BY <1>3, <2>1, <2>2, <2>3 DEF ListsAgree
<1>11. v.total_nodes <= v.max_nodes
  BY <1>3, UdsAssumption DEF ListsAgree
<1>12. v.nodes = v.node_bitmask /\ v.network_info.total_nodes = v.total_nodes /\ v.node_info[1] = h
  BY <1>2, <1>3, <1>4 DEF ListsAgree
<1>13. \A m \in MembersOf(v) : v.node_map[m].present /\ v.node_map[m].node_id \in 2 .. v.max_nodes
  BY <1>4, <1>6 DEF ListsAgree, MembersOf
<1>14. ASSUME NEW i \in Ids \ {1}, NEW m \in Nodes
       PROVE  (v.node_info[i] = m) <=> (m \in MembersOf(v) /\ v.node_map[m].node_id = i)
  <2>1. (u.node_info[i] = m) <=> (m \in MembersOf(u) /\ u.node_map[m].node_id = i)
    BY DEF ListsAgree
  <2>2. CASE i = id
    <3>1. v.node_info[i] # m
      BY <1>4, <2>2, UdsAssumption
    <3>2. m \in MembersOf(v) => v.node_map[m].node_id # i
      BY <1>4, <1>6, <1>7, <2>2
    <3>. QED
      BY <3>1, <3>2
  <2>3. CASE i # id
    <3>1. v.node_info[i] = u.node_info[i]
      BY <1>4, <2>3
    <3>2. m = mac => ~(u.node_map[m].node_id = i)
      BY <1>1, <2>3
    <3>. QED
      BY <1>4, <1>6, <2>1, <3>1, <3>2
  <2>. QED
    BY <2>2, <2>3
<1>. QED
  BY <1>8, <1>10, <1>11, <1>12, <1>13, <1>14 DEF ListsAgree

LEMMA DeauthenticationKeeps ==
  ASSUME NEW n \in Nodes, NEW u \in Service, NodeInv(n, u), NEW p \in Inbound(n)
  PROVE  Good(n, HandleDeauthenticationFrame(n, u, p))
<1>0. p.from \in Nodes
  BY DEF Inbound, Packets, Frames
<1>. DEFINE node == u.node_map[p.from]
            erased == [u EXCEPT !.node_map[p.from] = NoEntry]
<1>1. CASE u.status # "ConnectedAsHost" \/ ~node.present
  BY <1>1, GoodIgnored DEF HandleDeauthenticationFrame
<1>2. CASE u.status = "ConnectedAsHost" /\ node.present
  <2>1. Leads(u) /\ ListsAgree(n, u)
    BY <1>0, <1>2, NoMapNoMembers
  <2>2. n \in Hosts /\ u.max_nodes \in 1 .. UDSMaxNodes
    BY <1>2, <2>1, UdsAssumption DEF NodeInv, Leads
  <2>3. NoEntry \in Entry /\ ~NoEntry.connected
    BY UdsAssumption DEF NoEntry, Entry
  <2>4. PICK map : map = [u.node_map EXCEPT ![p.from] = NoEntry]
    OBVIOUS
  <2>5. map \in NodeMaps
    BY <2>3, <2>4 DEF NodeMaps, Service
  <2>6. erased = [u EXCEPT !.node_map = map]
    BY <2>4
  <2>7. CASE ~node.connected
    <3>1. PICK v : v = erased
      OBVIOUS
    <3>2. v \in Service
      BY <2>5, <2>6, <3>1 DEF Service
    <3>3. /\ v.initialized = u.initialized /\ v.status = u.status
          /\ v.max_nodes = u.max_nodes /\ v.total_nodes = u.total_nodes
          /\ v.node_bitmask = u.node_bitmask /\ v.nodes = u.nodes
          /\ v.node_info = u.node_info /\ v.network_info = u.network_info
          /\ v.node_map = map
      BY <2>6, <3>1 DEF Service
    <3>4. v.node_map[p.from] = NoEntry /\ \A m \in Nodes \ {p.from} : v.node_map[m] = u.node_map[m]
      BY <1>0, <2>4, <3>3 DEF Service, NodeMaps
    <3>5. MembersOf(v) = MembersOf(u) /\ \A m \in MembersOf(u) : v.node_map[m] = u.node_map[m]
      BY <2>3, <2>7, <3>4 DEF MembersOf
    <3>6. {v.node_map[m].node_id : m \in MembersOf(v)} = {u.node_map[m].node_id : m \in MembersOf(u)}
      BY <3>5
    <3>7. ListsAgree(n, v)
      BY <2>1, <3>3, <3>5, <3>6 DEF ListsAgree
    <3>8. NodeInv(n, v)
      BY <2>1, <2>2, <3>3, <3>7 DEF NodeInv, Leads
    <3>9. HandleDeauthenticationFrame(n, u, p) = Ignored(v)
      BY <1>2, <2>7, <3>1 DEF HandleDeauthenticationFrame
    <3>. QED
      BY <3>2, <3>8, <3>9, GoodIgnored
  <2>8. CASE node.connected
    <3>1. p.from \in MembersOf(u)
      BY <1>0, <2>8 DEF MembersOf
    <3>2. PICK id : id = node.node_id
      OBVIOUS
    <3>3. id \in Ids \ {1} /\ u.node_info[id] = p.from
      BY <1>0, <2>1, <2>2, <3>1, <3>2, UdsAssumption DEF ListsAgree, Ids
    <3>4. PICK ids, nodes, total : /\ ids = u.node_bitmask \ {id} /\ nodes = u.nodes \ {id}
                                   /\ total = u.total_nodes - 1
      OBVIOUS
    <3>5. PICK net : net = [u.network_info EXCEPT !.total_nodes = @ - 1]
      OBVIOUS
    <3>6. PICK info : info = [u.node_info EXCEPT ![id] = NoNode]
      OBVIOUS
    <3>7. PICK v : v = [u EXCEPT !.node_map = map, !.node_bitmask = ids, !.total_nodes = total,
                                 !.nodes = nodes, !.network_info = net, !.node_info = info]
      OBVIOUS
    <3>8. /\ net \in NetworkInfo /\ net.total_nodes = u.network_info.total_nodes - 1
          /\ info \in NodeInfos
      BY <3>3, <3>5, <3>6 DEF Service, NetworkInfo, NodeInfos
    <3>9. ids \in SUBSET Ids /\ nodes \in SUBSET Ids /\ total \in Int
      BY <3>4 DEF Service
    <3>10. v \in Service
      BY <2>5, <3>7, <3>8, <3>9 DEF Service
    <3>11. /\ v.initialized = u.initialized /\ v.status = u.status /\ v.max_nodes = u.max_nodes
           /\ v.total_nodes = total /\ v.node_bitmask = ids /\ v.nodes = nodes
           /\ v.node_info = info /\ v.network_info = net /\ v.node_map = map
      BY <3>7 DEF Service
    <3>12. ListsAgree(n, v)
      <4>1. /\ v.total_nodes = u.total_nodes - 1 /\ v.max_nodes = u.max_nodes
            /\ v.node_bitmask = u.node_bitmask \ {u.node_map[p.from].node_id}
            /\ v.nodes = u.nodes \ {u.node_map[p.from].node_id}
            /\ v.network_info.total_nodes = u.network_info.total_nodes - 1
            /\ v.node_info = [u.node_info EXCEPT ![u.node_map[p.from].node_id] = NoNode]
            /\ v.node_map = [u.node_map EXCEPT ![p.from] = NoEntry]
        BY <2>4, <3>2, <3>4, <3>6, <3>8, <3>11
      <4>. QED
        BY <2>1, <2>2, <3>1, <3>10, <4>1, RemoveNodeAgrees
    <3>13. NodeInv(n, v)
      BY <2>1, <2>2, <3>11, <3>12 DEF NodeInv, Leads
    <3>14. p.from # NoNode
      BY <1>0, UdsAssumption
    <3>15. HandleDeauthenticationFrame(n, u, p) = Ignored(v)
      <4>1. [erased EXCEPT !.node_bitmask = @ \ {node.node_id}, !.total_nodes = @ - 1,
                           !.nodes = @ \ {node.node_id},
                           !.network_info.total_nodes = @ - 1,
                           !.node_info[node.node_id] = NoNode] = v
        BY <2>6, <3>2, <3>4, <3>5, <3>6, <3>7 DEF Service
      <4>. QED
        BY <1>2, <2>8, <3>2, <3>3, <3>14, <4>1 DEF HandleDeauthenticationFrame
    <3>. QED
      BY <3>10, <3>13, <3>15, GoodIgnored
  <2>. QED
    BY <2>7, <2>8
<1>. QED
  BY <1>1, <1>2

LEMMA AssociationKeeps ==
  ASSUME NEW n \in Nodes, NEW u \in Service, NodeInv(n, u), NEW p \in Inbound(n)
  PROVE  Good(n, HandleAssociationResponseFrame(n, u, p))
<1>0. p.from \in Nodes
  BY DEF Inbound, Packets, Frames
<1>1. PICK v : v = [u EXCEPT !.pending = [then |-> "EAPoLStart", to |-> p.from]]
  OBVIOUS
<1>2. v \in Service /\ SameLists(u, v)
  BY <1>0, <1>1 DEF Service, SameLists, Pending
<1>3. NodeInv(n, v)
  BY <1>2, SameListsInv
<1>. QED
  BY <1>1, <1>2, <1>3, GoodIgnored DEF HandleAssociationResponseFrame

LEMMA LogoffKeeps ==
  ASSUME NEW n \in Nodes, NEW u \in Service, NodeInv(n, u),
         NEW p \in Inbound(n), p.type = "EAPoLLogoff"
  PROVE  Good(n, HandleEAPoLLogoff(n, u, p))
<1>0. p.from \in Nodes /\ p.body \in LogoffBody
  BY DEF Inbound, Packets, Frames
<1>. DEFINE body == p.body
<1>1. /\ body.assigned_node_id \in 0 .. UDSMaxNodes /\ body.connected_nodes \in Int
      /\ body.max_nodes \in Int /\ body.nodes \in NodeInfos
  BY <1>0 DEF LogoffBody, Ids
<1>2. LogoffNodes(p) \in SUBSET Ids
  BY DEF LogoffNodes
<1>3. CASE u.status = "Connecting"
  <2>1. PICK net : net = [host_mac_address |-> p.from, total_nodes |-> body.connected_nodes,
                          max_nodes |-> body.max_nodes]
    OBVIOUS
  <2>2. net \in NetworkInfo
    BY <1>0, <1>1, <2>1 DEF NetworkInfo
  <2>3. PICK ids, nodes : ids = u.node_bitmask \cup LogoffNodes(p) /\ nodes = u.nodes \cup LogoffNodes(p)
    OBVIOUS
  <2>4. ids \in SUBSET Ids /\ nodes \in SUBSET Ids
    BY <1>2, <2>3 DEF Service
  <2>5. PICK v : v = [u EXCEPT !.network_info = net, !.network_node_id = body.assigned_node_id,
                               !.total_nodes = body.connected_nodes, !.max_nodes = body.max_nodes,
                               !.node_info = body.nodes, !.node_bitmask = ids, !.nodes = nodes,
                               !.status = "ConnectedAsClient", !.sleeping = FALSE]
    OBVIOUS
  <2>6. v \in Service
    BY <1>1, <2>2, <2>4, <2>5 DEF Service, Statuses
  <2>7. v.status = "ConnectedAsClient" /\ v.node_map = u.node_map
    BY <2>5 DEF Service
  <2>8. NodeInv(n, v)
    BY <1>3, <2>7 DEF NodeInv, Leads
  <2>9. HandleEAPoLLogoff(n, u, p) = Ignored(v)
    BY <1>3, <2>1, <2>3, <2>5, Zenon DEF HandleEAPoLLogoff
  <2>. QED
    BY <2>6, <2>8, <2>9, GoodIgnored
<1>4. CASE u.status = "ConnectedAsClient"
  <2>1. PICK net : net = [u.network_info EXCEPT !.total_nodes = body.connected_nodes]
    OBVIOUS
  <2>2. net \in NetworkInfo
    BY <1>0, <1>1, <2>1 DEF NetworkInfo, Service
  <2>3. PICK v : v = [u EXCEPT !.network_info = net, !.total_nodes = body.connected_nodes,
                               !.node_info = body.nodes, !.node_bitmask = LogoffNodes(p),
                               !.nodes = LogoffNodes(p)]
    OBVIOUS
  <2>4. v \in Service
    BY <1>1, <1>2, <2>2, <2>3 DEF Service
  <2>5. v.status = "ConnectedAsClient" /\ v.node_map = u.node_map
    BY <1>4, <2>3 DEF Service
  <2>6. NodeInv(n, v)
    BY <1>4, <2>5 DEF NodeInv, Leads
  <2>7. HandleEAPoLLogoff(n, u, p) = Ignored(v)
    BY <1>4, <2>1, <2>3, Zenon DEF HandleEAPoLLogoff
  <2>. QED
    BY <2>4, <2>6, <2>7, GoodIgnored
<1>5. CASE u.status \notin {"Connecting", "ConnectedAsClient"}
  <2>1. HandleEAPoLLogoff(n, u, p) = Ignored(u)
    BY <1>5, Zenon DEF HandleEAPoLLogoff
  <2>. QED
    BY <2>1, GoodIgnored
<1>. QED
  BY <1>3, <1>4, <1>5

LEMMA SecureDataKeeps ==
  ASSUME NEW n \in Nodes, NEW u \in Service, NodeInv(n, u),
         NEW p \in Inbound(n), p.type = "SecureData"
  PROVE  Good(n, HandleSecureDataPacket(n, u, p))
<1>0. PICK data : data = p.body
  OBVIOUS
<1>1. data \in DataPacket
  BY <1>0 DEF Inbound, Packets, Frames
<1>2. <<Packet("SecureData", n, Broadcast, data)>> \in Seq(Outbound(n))
  <2>1. Packet("SecureData", n, Broadcast, data) \in Outbound(n)
    BY <1>1 DEF Packet, Outbound, Packets, Addresses
  <2>. QED
    BY <2>1
<1>3. PICK c : c = data.channel
  OBVIOUS
<1>4. c \in Channels
  BY <1>1, <1>3 DEF DataPacket
<1>5. PICK queue : queue = Append(u.channel_data[c].received_packets, data)
  OBVIOUS
<1>6. PICK channel : channel = [u.channel_data[c] EXCEPT !.received_packets = queue]
  OBVIOUS
<1>7. channel \in ChannelData
  <2>1. u.channel_data[c] \in ChannelData
    BY <1>4 DEF Service
  <2>2. queue \in Seq(DataPacket)
    BY <1>1, <1>5, <2>1 DEF ChannelData
  <2>. QED
    BY <1>6, <2>1, <2>2 DEF ChannelData
<1>8. PICK v : v = [u EXCEPT !.channel_data[c] = channel]
  OBVIOUS
<1>9. v \in Service /\ SameLists(u, v)
  BY <1>4, <1>7, <1>8 DEF Service, SameLists
<1>10. NodeInv(n, v)
  BY <1>9, SameListsInv
<1>11. v = [u EXCEPT !.channel_data[data.channel].received_packets = Append(@, data)]
  BY <1>3, <1>5, <1>6, <1>8 DEF Service
<1>12. \/ HandleSecureDataPacket(n, u, p) = Ignored(u)
       \/ HandleSecureDataPacket(n, u, p) = Result(u, <<Packet("SecureData", n, Broadcast, data)>>)
       \/ HandleSecureDataPacket(n, u, p) = Ignored(v)
  BY <1>0, <1>11, Zenon DEF HandleSecureDataPacket
<1>. QED
  BY <1>2, <1>9, <1>10, <1>12, GoodIgnored, GoodResult

(* Every packet that the room hands over is handled. *)
LEMMA PacketKeeps ==
  ASSUME program \in DOMAIN Programs, NEW n \in Nodes, NEW u \in Service, NodeInv(n, u),
         NEW p \in Inbound(n)
  PROVE  Good(n, OnWifiPacketReceived(n, u, p))
<1>1. CASE ~u.initialized
  <2>1. OnWifiPacketReceived(n, u, p) = Ignored(u)
    BY <1>1, Zenon DEF OnWifiPacketReceived
  <2>. QED
    BY <2>1, GoodIgnored
<1>2. CASE u.initialized
  <2>1. CASE p.type = "NodeMap"
    <3>1. OnWifiPacketReceived(n, u, p) = HandleNodeMapPacket(n, u, p)
      BY <1>2, <2>1 DEF OnWifiPacketReceived
    <3>. QED
      BY <2>1, <3>1, NodeMapKeeps
  <2>2. CASE p.type = "Authentication"
    <3>1. OnWifiPacketReceived(n, u, p) = HandleAuthenticationFrame(n, u, p)
      BY <1>2, <2>2 DEF OnWifiPacketReceived
    <3>. QED
      BY <1>2, <2>2, <3>1, AuthenticationKeeps
  <2>3. CASE p.type = "AssociationResponse"
    <3>1. OnWifiPacketReceived(n, u, p) = HandleAssociationResponseFrame(n, u, p)
      BY <1>2, <2>3 DEF OnWifiPacketReceived
    <3>. QED
      BY <3>1, AssociationKeeps
  <2>4. CASE p.type = "EAPoLStart"
    <3>1. OnWifiPacketReceived(n, u, p) = HandleEAPoLStart(n, u, p)
      BY <1>2, <2>4 DEF OnWifiPacketReceived
    <3>. QED
      BY <3>1, EAPoLStartKeeps
  <2>5. CASE p.type = "EAPoLLogoff"
    <3>1. OnWifiPacketReceived(n, u, p) = HandleEAPoLLogoff(n, u, p)
      BY <1>2, <2>5 DEF OnWifiPacketReceived
    <3>. QED
      BY <2>5, <3>1, LogoffKeeps
  <2>6. CASE p.type = "SecureData"
    <3>1. OnWifiPacketReceived(n, u, p) = HandleSecureDataPacket(n, u, p)
      BY <1>2, <2>6 DEF OnWifiPacketReceived
    <3>. QED
      BY <2>6, <3>1, SecureDataKeeps
  <2>7. CASE p.type = "Deauthentication"
    <3>1. OnWifiPacketReceived(n, u, p) = HandleDeauthenticationFrame(n, u, p)
      BY <1>2, <2>7 DEF OnWifiPacketReceived
    <3>. QED
      BY <3>1, DeauthenticationKeeps
  <2>8. p.type \in {"NodeMap", "Authentication", "AssociationResponse", "EAPoLStart", "EAPoLLogoff",
                    "SecureData", "Deauthentication"}
    BY DEF Inbound, Packets, Frames
  <2>. QED
    BY <2>1, <2>2, <2>3, <2>4, <2>5, <2>6, <2>7, <2>8
<1>. QED
  BY <1>1, <1>2

-----------------------------------------------------------------------------
(* The steps *)

(* A program is for a whole behaviour, and so are the members that may host. *)
LEMMA SameProgram ==
  ASSUME program' = program
  PROVE  Hosts' = Hosts /\ Boxes' = Boxes
<1>1. Hosts' = Hosts
  BY DEF Hosts, Of
<1>2. \A n \in Nodes : Inbound(n)' = Inbound(n)
  BY <1>1 DEF Inbound
<1>. QED
  BY <1>1, <1>2 DEF Boxes

(* A step of one node. *)
LEMMA NodeStep ==
  ASSUME UdsInv, NEW n \in Nodes, NEW u \in Service, NodeInv(n, u),
         uds' = [uds EXCEPT ![n] = u], inbox' \in Boxes,
         program' = program, joined' \subseteq Nodes, sent' \in Nat
  PROVE  UdsInv'
<1>1. Hosts' = Hosts /\ Boxes' = Boxes
  BY SameProgram
<1>2. uds' \in [Nodes -> Service]
  BY DEF UdsInv, TypeOK
<1>3. ASSUME NEW m \in Nodes PROVE NodeInv(m, uds'[m])
  BY DEF UdsInv, TypeOK
<1>4. TypeOK'
  BY <1>1, <1>2 DEF UdsInv, TypeOK
<1>5. \A m \in Nodes : NodeInv(m, uds[m])'
  BY <1>1, <1>3 DEF NodeInv, Leads, ListsAgree, MembersOf
<1>. QED
  BY <1>4, <1>5 DEF UdsInv

LEMMA ApplyStep ==
  ASSUME UdsInv, NEW n \in Nodes, NEW boxes \in Boxes, NEW r, Good(n, r), Apply(n, boxes, r),
         program' = program, joined' \subseteq Nodes, sent' \in Nat
  PROVE  UdsInv'
<1>1. SendAll(boxes, r.packets) \in Boxes
  BY PacketsGoIn DEF Good
<1>. QED
  BY <1>1, NodeStep DEF Apply, Good

LEMMA SilentStep ==
  ASSUME UdsInv, NEW n \in Nodes, NEW u \in Service, NodeInv(n, u), Silent(n, u),
         program' = program, joined' = joined
  PROVE  UdsInv'
  BY NodeStep DEF Silent, UdsInv, TypeOK

(* A step that sends a packet and changes no node. *)
LEMMA SendingStep ==
  ASSUME UdsInv, inbox' \in Boxes, uds' = uds, program' = program, joined' \subseteq Nodes, sent' \in Nat
  PROVE  UdsInv'
<1>1. Hosts' = Hosts /\ Boxes' = Boxes
  BY SameProgram
<1>2. TypeOK'
  BY <1>1 DEF UdsInv, TypeOK
<1>3. ASSUME NEW m \in Nodes PROVE NodeInv(m, uds'[m])
  BY DEF UdsInv
<1>4. \A m \in Nodes : NodeInv(m, uds[m])'
  BY <1>1, <1>3 DEF NodeInv, Leads, ListsAgree, MembersOf
<1>. QED
  BY <1>2, <1>4 DEF UdsInv

LEMMA ReceiveStep ==
  ASSUME UdsInv, NEW n \in Nodes, Receive(n)
  PROVE  UdsInv'
<1>1. inbox \in Boxes /\ inbox[n] \in Seq(Inbound(n)) /\ inbox[n] \in Seq(Packets) /\ inbox[n] # <<>>
  BY DEF UdsInv, TypeOK, Boxes, Receive
<1>2. PICK boxes : boxes = [inbox EXCEPT ![n] = Tail(@)]
  OBVIOUS
<1>3. Tail(inbox[n]) \in Seq(Inbound(n)) /\ Tail(inbox[n]) \in Seq(Packets)
  BY <1>1
<1>4. boxes \in Boxes
  BY <1>1, <1>2, <1>3 DEF Boxes
<1>5. Head(inbox[n]) \in Inbound(n)
  BY <1>1
<1>6. Good(n, OnWifiPacketReceived(n, uds[n], Head(inbox[n])))
  BY <1>5, PacketKeeps DEF UdsInv, TypeOK
<1>. QED
  BY <1>2, <1>4, <1>6, ApplyStep DEF Receive, UdsInv, TypeOK

LEMMA FinishStep ==
  ASSUME UdsInv, NEW n \in Nodes, FinishHandler(n)
  PROVE  UdsInv'
<1>1. PICK u : u = uds[n]
  OBVIOUS
<1>2. u \in Service /\ NodeInv(n, u) /\ u.pending.to \in Addresses
  BY <1>1 DEF UdsInv, TypeOK, Service, Pending, Addresses
<1>3. PICK v : v = [u EXCEPT !.pending = NotPending]
  OBVIOUS
<1>4. v \in Service /\ SameLists(u, v)
  BY <1>2, <1>3 DEF Service, SameLists, Pending, NotPending
<1>5. NodeInv(n, v)
  BY <1>2, <1>4, SameListsInv
<1>6. Good(n, SendAssociationResponseFrame(n, u))
  <2>1. <<Packet("AssociationResponse", n, u.pending.to, "Successful")>> \in Seq(Outbound(n))
    BY <1>2, FrameGoesOut, OneFrameGoesOut
  <2>. QED
    BY <1>3, <1>4, <1>5, <2>1, GoodResult, GoodIgnored DEF SendAssociationResponseFrame, Ignored
<1>7. Good(n, SendEAPoLStart(n, u))
  <2>1. <<Packet("EAPoLStart", n, u.pending.to, "start")>> \in Seq(Outbound(n))
    BY <1>2, FrameGoesOut, OneFrameGoesOut
  <2>. QED
    BY <1>3, <1>4, <1>5, <2>1, GoodResult DEF SendEAPoLStart
<1>. QED
  BY <1>1, <1>6, <1>7, ApplyStep DEF FinishHandler, UdsInv, TypeOK

LEMMA LeaveStep ==
  ASSUME UdsInv, NEW n \in Nodes, LeaveRoom(n)
  PROVE  UdsInv'
<1>1. inbox' \in Boxes
  <2>1. <<>> \in Seq(Packets) /\ \A m \in Nodes : <<>> \in Seq(Inbound(m))
    OBVIOUS
  <2>2. inbox' = [inbox EXCEPT ![n] = <<>>] /\ inbox \in Boxes
    BY DEF LeaveRoom, UdsInv, TypeOK
  <2>. QED
    BY <2>1, <2>2 DEF Boxes
<1>. QED
  BY <1>1, SendingStep DEF LeaveRoom, UdsInv, TypeOK

LEMMA TimeoutStep ==
  ASSUME UdsInv, NEW n \in Nodes, ConnectionTimeout(n)
  PROVE  UdsInv'
<1>1. PICK v : v = [uds[n] EXCEPT !.sleeping = FALSE]
  OBVIOUS
<1>2. v \in Service /\ SameLists(uds[n], v)
  BY <1>1 DEF UdsInv, TypeOK, Service, SameLists
<1>3. NodeInv(n, v)
  BY <1>2, SameListsInv DEF UdsInv
<1>4. uds' = [uds EXCEPT ![n] = v]
  BY <1>1 DEF ConnectionTimeout, UdsInv, TypeOK
<1>. QED
  BY <1>2, <1>3, <1>4, NodeStep DEF ConnectionTimeout, UdsInv, TypeOK

-----------------------------------------------------------------------------
(* The commands *)

(* Maps and lists that the commands clear. *)
LEMMA ClearedLists ==
  /\ NoNodeMap \in NodeMaps /\ NoNodes \in NodeInfos /\ NoChannels \in [Channels -> ChannelData]
  /\ \A m \in Nodes : ~NoNodeMap[m].connected
<1>1. NoEntry \in Entry /\ ~NoEntry.connected
  BY UdsAssumption DEF NoEntry, Entry
<1>2. Unbound \in ChannelData
  <2>1. <<>> \in Seq(DataPacket)
    OBVIOUS
  <2>. QED
    BY <2>1 DEF Unbound, ChannelData
<1>. QED
  BY <1>1, <1>2 DEF NoNodeMap, NodeMaps, NoNodes, NodeInfos, NoChannels

(* connection_status = {} *)
LEMMA ResetIsService ==
  ASSUME NEW u \in Service, NEW status \in Statuses
  PROVE  LET v == ResetStatus(u, status)
         IN  /\ v \in Service /\ v.status = status /\ v.nodes = {} /\ v.node_bitmask = {}
             /\ v.max_nodes = 0 /\ v.total_nodes = 0 /\ v.node_map = u.node_map
             /\ v.initialized = u.initialized
<1>1. 0 \in Int /\ {} \in SUBSET Ids
  OBVIOUS
<1>. QED
  BY <1>1 DEF ResetStatus, Service

LEMMA InitializeStep ==
  ASSUME UdsInv, NEW n \in Nodes, Initialize(n)
  PROVE  UdsInv'
<1>1. PICK u : u = ResetStatus(uds[n], "NotConnected")
  OBVIOUS
<1>2. /\ uds[n] \in Service /\ NodeInv(n, uds[n]) /\ ~uds[n].initialized
      /\ program' = program /\ joined' = joined
  BY DEF UdsInv, TypeOK, Initialize, Calls
<1>3. /\ u \in Service /\ u.status = "NotConnected" /\ u.nodes = {} /\ u.node_bitmask = {}
      /\ u.node_map = uds[n].node_map
  BY <1>1, <1>2, ResetIsService DEF Statuses
<1>4. PICK v : v = [u EXCEPT !.initialized = TRUE, !.network_node_id = 0,
                             !.channel_data = NoChannels, !.node_info = NoNodes]
  OBVIOUS
<1>5. v \in Service
  <2>1. 0 \in 0 .. UDSMaxNodes
    BY UdsAssumption
  <2>. QED
    BY <1>3, <1>4, <2>1, ClearedLists DEF Service
<1>6. /\ v.status = "NotConnected" /\ v.nodes = {} /\ v.node_bitmask = {}
      /\ v.node_map = uds[n].node_map
  BY <1>3, <1>4 DEF Service
<1>7. NodeInv(n, v)
  BY <1>2, <1>6 DEF NodeInv, Leads
<1>8. Silent(n, v)
  BY <1>1, <1>4 DEF Initialize
<1>. QED
  BY <1>2, <1>5, <1>7, <1>8, SilentStep

LEMMA ShutdownStep ==
  ASSUME UdsInv, NEW n \in Nodes, Shutdown(n)
  PROVE  UdsInv'
<1>1. PICK u : u = uds[n]
  OBVIOUS
<1>2. u \in Service /\ NodeInv(n, u) /\ program' = program /\ joined' = joined
  BY <1>1 DEF UdsInv, TypeOK, Shutdown, Calls
<1>3. PICK v : v = [u EXCEPT !.initialized = FALSE, !.channel_data = NoChannels,
                             !.node_map = NoNodeMap]
  OBVIOUS
<1>4. v \in Service
  BY <1>2, <1>3, ClearedLists DEF Service
<1>5. /\ ~v.initialized /\ v.status = u.status /\ v.nodes = u.nodes /\ v.node_bitmask = u.node_bitmask
      /\ v.max_nodes = u.max_nodes /\ v.total_nodes = u.total_nodes /\ v.node_map = NoNodeMap
  BY <1>2, <1>3 DEF Service
<1>6. NodeInv(n, v)
  BY <1>2, <1>5 DEF NodeInv, Leads
<1>7. Silent(n, v)
  BY <1>1, <1>3 DEF Shutdown
<1>. QED
  BY <1>2, <1>4, <1>6, <1>7, SilentStep

(* A member that begins to host has an empty node map, and itself for the only node. *)
LEMMA BeginStep ==
  ASSUME UdsInv, NEW n \in Nodes, BeginHostingNetwork(n)
  PROVE  UdsInv'
<1>1. PICK u : u = uds[n]
  OBVIOUS
<1>2. /\ u \in Service /\ NodeInv(n, u) /\ program' = program /\ joined' = joined
      /\ u.initialized /\ u.status = "NotConnected" /\ n \in Hosts
  BY <1>1 DEF UdsInv, TypeOK, BeginHostingNetwork, Calls, Hosts
<1>3. u.nodes = {} /\ u.node_bitmask = {} /\ u.node_map = NoNodeMap
  BY <1>2 DEF NodeInv, Leads
<1>4. PICK max \in Of.max_nodes :
        Silent(n, [u EXCEPT !.status = "ConnectedAsHost", !.max_nodes = max,
                   !.network_info = [host_mac_address |-> n, total_nodes |-> 1, max_nodes |-> max],
                   !.total_nodes = 1, !.network_node_id = 1,
                   !.nodes = @ \cup {1}, !.node_bitmask = @ \cup {1},
                   !.node_info = [NoNodes EXCEPT ![1] = n]])
  BY <1>1 DEF BeginHostingNetwork
<1>5. max \in 2 .. UDSMaxNodes /\ max \in Int /\ 1 \in Ids /\ 1 \in 0 .. UDSMaxNodes
  BY ProgramsAssumption, UdsAssumption DEF Of, UdsInv, TypeOK, Ids
<1>6. PICK net, info, ids :
        /\ net = [host_mac_address |-> n, total_nodes |-> 1, max_nodes |-> max]
        /\ info = [NoNodes EXCEPT ![1] = n] /\ ids = {1}
  OBVIOUS
<1>7. net \in NetworkInfo /\ net.total_nodes = 1 /\ ids \in SUBSET Ids
  BY <1>5, <1>6 DEF NetworkInfo
<1>8. info \in NodeInfos /\ info[1] = n /\ \A i \in Ids \ {1} : info[i] = NoNode
  BY <1>5, <1>6, ClearedLists DEF NodeInfos, NoNodes
<1>9. PICK v : v = [u EXCEPT !.status = "ConnectedAsHost", !.max_nodes = max, !.network_info = net,
                             !.total_nodes = 1, !.network_node_id = 1,
                             !.nodes = ids, !.node_bitmask = ids, !.node_info = info]
  OBVIOUS
<1>10. v \in Service
  <2>1. "ConnectedAsHost" \in Statuses /\ 1 \in Int
    BY DEF Statuses
  <2>. QED
    BY <1>2, <1>5, <1>7, <1>8, <1>9, <2>1 DEF Service
<1>11. /\ v.initialized /\ v.status = "ConnectedAsHost" /\ v.max_nodes = max /\ v.network_info = net
       /\ v.total_nodes = 1 /\ v.nodes = ids /\ v.node_bitmask = ids /\ v.node_info = info
       /\ v.node_map = NoNodeMap
  BY <1>2, <1>3, <1>9 DEF Service
<1>12. MembersOf(v) = {}
  BY <1>11, ClearedLists DEF MembersOf
<1>13. ListsAgree(n, v)
  <2>1. Cardinality({}) = 0 /\ Cardinality({1}) = 1
    BY FS_EmptySet, FS_Singleton
  <2>2. v.node_bitmask = {1} \cup {v.node_map[m].node_id : m \in MembersOf(v)}
    BY <1>6, <1>11, <1>12
  <2>3. \A i \in Ids \ {1} : \A m \in Nodes : v.node_info[i] # m
    BY <1>8, <1>11, UdsAssumption
  <2>. QED
    BY <1>5, <1>6, <1>7, <1>8, <1>11, <1>12, <2>1, <2>2, <2>3 DEF ListsAgree
<1>14. NodeInv(n, v)
  BY <1>2, <1>5, <1>11, <1>13 DEF NodeInv, Leads
<1>15. Silent(n, v)
  <2>1. u.nodes \cup {1} = ids /\ u.node_bitmask \cup {1} = ids
    BY <1>3, <1>6
  <2>. QED
    BY <1>4, <1>6, <1>9, <2>1
<1>. QED
  BY <1>2, <1>10, <1>14, <1>15, SilentStep

(* A node that leaves the network by itself: everything is cleared. *)
LEMMA ClearedNode ==
  ASSUME NEW n, NEW u \in Service, NodeInv(n, u),
         NEW status \in {"NotConnected", "ConnectedAsHost"}, status = "ConnectedAsHost" => n \in Hosts,
         NEW v, \/ v = [ResetStatus(u, status) EXCEPT !.node_map = NoNodeMap]
                \/ v = [ResetStatus(u, status) EXCEPT !.node_map = NoNodeMap, !.channel_data = NoChannels]
  PROVE  v \in Service /\ NodeInv(n, v)
<1>1. PICK w : w = ResetStatus(u, status)
  OBVIOUS
<1>2. /\ w \in Service /\ w.status = status /\ w.nodes = {} /\ w.node_bitmask = {}
      /\ w.max_nodes = 0 /\ w.total_nodes = 0
  BY <1>1, ResetIsService DEF Statuses
<1>3. \/ v = [w EXCEPT !.node_map = NoNodeMap]
      \/ v = [w EXCEPT !.node_map = NoNodeMap, !.channel_data = NoChannels]
  BY <1>1
<1>4. v \in Service
  <2>1. [w EXCEPT !.node_map = NoNodeMap] \in Service
    BY <1>2, ClearedLists DEF Service
  <2>2. [w EXCEPT !.node_map = NoNodeMap, !.channel_data = NoChannels] \in Service
    BY <1>2, ClearedLists DEF Service
  <2>. QED
    BY <1>3, <2>1, <2>2
<1>5. /\ v.status = status /\ v.nodes = {} /\ v.node_bitmask = {} /\ v.max_nodes = 0
      /\ v.total_nodes = 0 /\ v.node_map = NoNodeMap
  BY <1>2, <1>3 DEF Service
<1>6. 0 \in 0 .. UDSMaxNodes /\ ~(0 > 0)
  BY UdsAssumption
<1>7. NodeInv(n, v)
  BY <1>5, <1>6 DEF NodeInv, Leads
<1>. QED
  BY <1>4, <1>7

LEMMA DestroyStep ==
  ASSUME UdsInv, NEW n \in Nodes, DestroyNetwork(n)
  PROVE  UdsInv'
<1>1. PICK v : v = [ResetStatus(uds[n], "NotConnected") EXCEPT !.node_map = NoNodeMap,
                                                              !.channel_data = NoChannels]
  OBVIOUS
<1>2. v \in Service /\ NodeInv(n, v)
  BY <1>1, ClearedNode DEF UdsInv, TypeOK
<1>. QED
  BY <1>1, <1>2, SilentStep DEF DestroyNetwork, Calls

LEMMA DisconnectStep ==
  ASSUME UdsInv, NEW n \in Nodes, DisconnectNetwork(n)
  PROVE  UdsInv'
<1>1. PICK u : u = uds[n]
  OBVIOUS
<1>2. u \in Service /\ NodeInv(n, u) /\ program' = program /\ joined' \subseteq Nodes /\ sent' \in Nat
  BY <1>1 DEF UdsInv, TypeOK, DisconnectNetwork, Calls
<1>3. CASE u.status = "ConnectedAsHost"
  <2>1. PICK v : v = [ResetStatus(u, "ConnectedAsHost") EXCEPT !.node_map = NoNodeMap]
    OBVIOUS
  <2>2. n \in Hosts
    BY <1>2, <1>3 DEF NodeInv
  <2>3. v \in Service /\ NodeInv(n, v)
    BY <1>2, <2>1, <2>2, ClearedNode
  <2>4. Good(n, Ignored(v))
    BY <2>3, GoodIgnored
  <2>5. Apply(n, inbox, Ignored(v))
    BY <1>1, <1>3, <2>1 DEF DisconnectNetwork
  <2>. QED
    BY <1>2, <2>4, <2>5, ApplyStep DEF UdsInv, TypeOK
<1>4. CASE u.status # "ConnectedAsHost"
  <2>1. PICK v : v = [ResetStatus(u, "NotConnected") EXCEPT !.node_map = NoNodeMap,
                                                           !.channel_data = NoChannels]
    OBVIOUS
  <2>2. v \in Service /\ NodeInv(n, v)
    BY <1>2, <2>1, ClearedNode
  <2>3. PICK packets : packets = <<Packet("Deauthentication", n, u.network_info.host_mac_address, "leave")>>
    OBVIOUS
  <2>4. u.network_info.host_mac_address \in Addresses
    BY <1>2 DEF Service, NetworkInfo, Addresses
  <2>5. packets \in Seq(Outbound(n))
    BY <2>3, <2>4, FrameGoesOut, OneFrameGoesOut
  <2>6. Good(n, Result(v, packets))
    BY <2>2, <2>5, GoodResult
  <2>7. Apply(n, inbox, Result(v, packets))
    BY <1>1, <1>4, <2>1, <2>3 DEF DisconnectNetwork
  <2>. QED
    BY <1>2, <2>6, <2>7, ApplyStep DEF UdsInv, TypeOK
<1>. QED
  BY <1>3, <1>4

LEMMA ConnectStep ==
  ASSUME UdsInv, NEW n \in Nodes, ConnectToNetwork(n)
  PROVE  UdsInv'
<1>1. PICK u : u = uds[n]
  OBVIOUS
<1>2. /\ u \in Service /\ NodeInv(n, u) /\ program' = program /\ joined' \subseteq Nodes /\ sent' \in Nat
      /\ u.status \in {"NotConnected", "Connecting"}
  BY <1>1 DEF UdsInv, TypeOK, ConnectToNetwork, Calls
<1>3. PICK host \in Of.hosts \ {n} :
        Apply(n, inbox,
              Result([u EXCEPT !.status = "Connecting", !.sleeping = TRUE,
                        !.network_info = [host_mac_address |-> host, total_nodes |-> 0, max_nodes |-> 0]],
                     <<Packet("Authentication", n, host, "SEQ1")>>))
  BY <1>1 DEF ConnectToNetwork
<1>4. host \in Nodes
  BY ProgramsAssumption DEF Of, UdsInv, TypeOK
<1>5. PICK net : net = [host_mac_address |-> host, total_nodes |-> 0, max_nodes |-> 0]
  OBVIOUS
<1>6. net \in NetworkInfo
  BY <1>4, <1>5 DEF NetworkInfo
<1>7. PICK v : v = [u EXCEPT !.status = "Connecting", !.sleeping = TRUE, !.network_info = net]
  OBVIOUS
<1>8. v \in Service
  BY <1>2, <1>6, <1>7 DEF Service, Statuses
<1>9. /\ v.status = "Connecting" /\ v.nodes = u.nodes /\ v.node_bitmask = u.node_bitmask
      /\ v.node_map = u.node_map
  BY <1>2, <1>7 DEF Service
<1>10. NodeInv(n, v)
  BY <1>2, <1>9 DEF NodeInv, Leads
<1>11. <<Packet("Authentication", n, host, "SEQ1")>> \in Seq(Outbound(n))
  BY <1>4, FrameGoesOut, OneFrameGoesOut DEF Addresses
<1>12. Good(n, Result(v, <<Packet("Authentication", n, host, "SEQ1")>>))
  BY <1>8, <1>10, <1>11, GoodResult
<1>. QED
  BY <1>2, <1>3, <1>5, <1>7, <1>12, ApplyStep DEF UdsInv, TypeOK

LEMMA EjectStep ==
  ASSUME UdsInv, NEW n \in Nodes, EjectClient(n)
  PROVE  UdsInv'
<1>1. inbox \in Boxes
  BY DEF UdsInv, TypeOK
<1>2. \A m \in Nodes : Packet("Deauthentication", n, m, "eject") \in Outbound(n)
  BY FrameGoesOut DEF Addresses
<1>3. Packet("Deauthentication", n, Broadcast, "eject") \in Outbound(n)
  BY FrameGoesOut DEF Addresses
<1>4. [i \in 1 .. 3 |-> Packet("Deauthentication", n, Broadcast, "eject")] \in Seq(Outbound(n))
  BY <1>3
<1>5. inbox' \in Boxes
  BY <1>1, <1>2, <1>4, PacketGoesIn, PacketsGoIn DEF EjectClient
<1>. QED
  BY <1>5, SendingStep DEF EjectClient, Calls, UdsInv, TypeOK

(* Bind and Unbind change only a channel. *)
LEMMA ChannelStep ==
  ASSUME UdsInv, NEW n \in Nodes, NEW c \in Channels, NEW channel \in ChannelData,
         uds' = [uds EXCEPT ![n].channel_data[c] = channel],
         inbox' = inbox, program' = program, joined' = joined, sent' = sent
  PROVE  UdsInv'
<1>1. PICK u : u = uds[n]
  OBVIOUS
<1>2. u \in Service /\ NodeInv(n, u) /\ inbox \in Boxes
  BY <1>1 DEF UdsInv, TypeOK
<1>3. PICK v : v = [u EXCEPT !.channel_data[c] = channel]
  OBVIOUS
<1>4. v \in Service /\ SameLists(u, v)
  BY <1>2, <1>3 DEF Service, SameLists
<1>5. NodeInv(n, v)
  BY <1>2, <1>4, SameListsInv
<1>6. uds' = [uds EXCEPT ![n] = v]
  BY <1>1, <1>3 DEF UdsInv, TypeOK
<1>. QED
  BY <1>2, <1>4, <1>5, <1>6, NodeStep DEF UdsInv, TypeOK

LEMMA BindStep ==
  ASSUME UdsInv, NEW n \in Nodes, Bind(n) \/ Unbind(n)
  PROVE  UdsInv'
<1>1. Unbound \in ChannelData
  <2>1. <<>> \in Seq(DataPacket)
    OBVIOUS
  <2>. QED
    BY <2>1 DEF Unbound, ChannelData
<1>2. CASE Bind(n)
  <2>1. PICK c \in Channels, from \in Of.sources :
          Silent(n, [uds[n] EXCEPT !.channel_data[c] = [Unbound EXCEPT !.bound = TRUE,
                                                                     !.network_node_id = from]])
    BY <1>2 DEF Bind
  <2>2. PICK channel : channel = [Unbound EXCEPT !.bound = TRUE, !.network_node_id = from]
    OBVIOUS
  <2>3. from \in Ids \cup {0, Broadcast}
    BY ProgramsAssumption DEF Of, UdsInv, TypeOK
  <2>4. channel \in ChannelData
    BY <1>1, <2>2, <2>3 DEF ChannelData
  <2>5. uds' = [uds EXCEPT ![n].channel_data[c] = channel]
    BY <2>1, <2>2 DEF Silent
  <2>6. inbox' = inbox /\ sent' = sent /\ program' = program /\ joined' = joined
    BY <1>2, <2>1 DEF Bind, Calls, Silent
  <2>. QED
    BY <2>4, <2>5, <2>6, ChannelStep
<1>3. CASE Unbind(n)
  <2>1. PICK c \in Channels : Silent(n, [uds[n] EXCEPT !.channel_data[c] = Unbound])
    BY <1>3 DEF Unbind
  <2>2. uds' = [uds EXCEPT ![n].channel_data[c] = Unbound]
    BY <2>1 DEF Silent
  <2>3. inbox' = inbox /\ sent' = sent /\ program' = program /\ joined' = joined
    BY <1>3, <2>1 DEF Unbind, Calls, Silent
  <2>. QED
    BY <1>1, <2>2, <2>3, ChannelStep
<1>. QED
  BY <1>2, <1>3

LEMMA SendToStep ==
  ASSUME UdsInv, NEW n \in Nodes, SendTo(n)
  PROVE  UdsInv'
<1>1. PICK u : u = uds[n]
  OBVIOUS
<1>2. u \in Service /\ inbox \in Boxes /\ sent' \in Nat
  <2>1. u \in Service /\ inbox \in Boxes /\ sent \in Nat
    BY <1>1 DEF UdsInv, TypeOK
  <2>2. sent' = sent + 1
    BY Zenon DEF SendTo
  <2>. QED
    BY <2>1, <2>2
<1>3. PICK dest \in (Ids \cup {Broadcast}) \ {u.network_node_id}, c \in Channels, flagged \in Of.flags :
        \E mac \in GetNodeMacAddress(u, dest, flagged) :
          inbox' = SendPacket(inbox,
                     Packet("SecureData", n, mac,
                            [dest_node_id |-> dest, src_node_id |-> u.network_node_id,
                             channel |-> c, number |-> sent + 1, origin |-> n, flagged |-> flagged]))
  BY <1>1 DEF SendTo
<1>4. PICK data : data = [dest_node_id |-> dest, src_node_id |-> u.network_node_id,
                          channel |-> c, number |-> sent + 1, origin |-> n, flagged |-> flagged]
  OBVIOUS
<1>5. PICK mac \in GetNodeMacAddress(u, dest, flagged) :
        inbox' = SendPacket(inbox, Packet("SecureData", n, mac, data))
  BY <1>3, <1>4
<1>6. flagged \in BOOLEAN /\ sent + 1 \in Nat /\ u.network_node_id \in 0 .. UDSMaxNodes
  BY <1>2, ProgramsAssumption DEF Of, UdsInv, TypeOK, Service
<1>7. data \in DataPacket
  BY <1>4, <1>6 DEF DataPacket
<1>8. u.network_info.host_mac_address \in Nodes \cup {NoNode}
  BY <1>2 DEF Service, NetworkInfo
<1>9. mac \in Addresses
  BY <1>5, <1>8 DEF GetNodeMacAddress, Addresses
<1>10. Packet("SecureData", n, mac, data) \in Outbound(n)
  BY <1>7, <1>9 DEF Packet, Outbound, Packets
<1>11. inbox' \in Boxes
  BY <1>2, <1>5, <1>10, PacketGoesIn
<1>. QED
  BY <1>2, <1>11, SendingStep DEF SendTo, Calls, UdsInv, TypeOK

LEMMA PullStep ==
  ASSUME UdsInv, NEW n \in Nodes, PullPacket(n)
  PROVE  UdsInv'
<1>1. PICK c \in Channels :
        /\ uds[n].channel_data[c].received_packets # <<>>
        /\ uds' = [uds EXCEPT ![n].channel_data[c].received_packets = Tail(@)]
  BY DEF PullPacket
<1>2. PICK old : old = uds[n].channel_data[c]
  OBVIOUS
<1>3. old \in ChannelData
  BY <1>2 DEF UdsInv, TypeOK, Service
<1>4. old.received_packets \in Seq(DataPacket) /\ old.received_packets # <<>>
  BY <1>1, <1>2, <1>3 DEF ChannelData
<1>5. PICK queue : queue = Tail(old.received_packets)
  OBVIOUS
<1>6. queue \in Seq(DataPacket)
  BY <1>4, <1>5
<1>7. PICK channel : channel = [old EXCEPT !.received_packets = queue]
  OBVIOUS
<1>8. channel \in ChannelData
  BY <1>3, <1>6, <1>7 DEF ChannelData
<1>9. uds' = [uds EXCEPT ![n].channel_data[c] = channel]
  BY <1>1, <1>2, <1>5, <1>7
<1>. QED
  BY <1>8, <1>9, ChannelStep DEF PullPacket, Calls

-----------------------------------------------------------------------------
LEMMA InitUds == Init => UdsInv
<1>. SUFFICES ASSUME Init PROVE UdsInv
  OBVIOUS
<1>1. PICK net : net = [host_mac_address |-> NoNode, total_nodes |-> 0, max_nodes |-> 0]
  OBVIOUS
<1>2. PICK pending : pending = NotPending
  OBVIOUS
<1>3. net \in NetworkInfo /\ pending \in Pending
  BY <1>1, <1>2 DEF NetworkInfo, NotPending, Pending
<1>4. PICK u : u = [NewService EXCEPT !.initialized = TRUE, !.status = "NotConnected"]
  OBVIOUS
<1>5. u = [initialized |-> TRUE, status |-> "NotConnected", network_node_id |-> 0, total_nodes |-> 0,
           max_nodes |-> 0, node_bitmask |-> {}, nodes |-> {}, node_info |-> NoNodes,
           network_info |-> net, node_map |-> NoNodeMap, channel_data |-> NoChannels,
           sleeping |-> FALSE, pending |-> pending, fault |-> FALSE]
  BY <1>1, <1>2, <1>4 DEF NewService, NoNodeMap, NoChannels
<1>6. 0 \in 0 .. UDSMaxNodes /\ "NotConnected" \in Statuses /\ {} \in SUBSET Ids
  BY UdsAssumption DEF Statuses
<1>7. u \in Service
  BY <1>3, <1>5, <1>6, ClearedLists DEF Service
<1>8. u.status = "NotConnected" /\ u.nodes = {} /\ u.node_bitmask = {} /\ u.node_map = NoNodeMap
  BY <1>5
<1>9. \A n \in Nodes : NodeInv(n, u)
  BY <1>8 DEF NodeInv, Leads
<1>10. inbox \in Boxes
  <2>1. <<>> \in Seq(Packets) /\ \A m \in Nodes : <<>> \in Seq(Inbound(m))
    OBVIOUS
  <2>. QED
    BY <2>1 DEF Init, Boxes
<1>11. uds = [n \in Nodes |-> u]
  BY <1>4 DEF Init
<1>. QED
  BY <1>7, <1>9, <1>10, <1>11 DEF UdsInv, TypeOK, Init

LEMMA NextUds == UdsInv /\ [Next]_vars => UdsInv'
<1>. SUFFICES ASSUME UdsInv, [Next]_vars PROVE UdsInv'
  OBVIOUS
<1>1. CASE UNCHANGED vars
  BY <1>1, SendingStep DEF vars, UdsInv, TypeOK
<1>2. ASSUME NEW n \in Nodes, NetworkThread(n) PROVE UdsInv'
  BY <1>2, ReceiveStep, FinishStep DEF NetworkThread
<1>3. ASSUME NEW n \in Nodes, LeaveRoom(n) \/ ConnectionTimeout(n) PROVE UdsInv'
  BY <1>3, LeaveStep, TimeoutStep
<1>4. ASSUME NEW n \in Nodes, Session(n) PROVE UdsInv'
  BY <1>4, InitializeStep, ShutdownStep, ConnectStep, DisconnectStep DEF Session
<1>5. ASSUME NEW n \in Nodes, Hosting(n) PROVE UdsInv'
  BY <1>5, BeginStep, DestroyStep, EjectStep DEF Hosting
<1>6. ASSUME NEW n \in Nodes, Data(n) PROVE UdsInv'
  BY <1>6, BindStep, SendToStep, PullStep DEF Data
<1>. QED
  BY <1>1, <1>2, <1>3, <1>4, <1>5, <1>6 DEF Next

(* The invariant has the agreement of the lists for every member that IsHost. *)
LEMMA InvAgrees == UdsInv => HostListsAgree
<1>. SUFFICES ASSUME UdsInv, NEW h \in Nodes, IsHost(h)
              PROVE  LET u == uds[h]
                     IN  /\ u.node_bitmask = {1} \cup {u.node_map[m].node_id : m \in Members(h)}
                         /\ u.nodes = u.node_bitmask
                         /\ u.total_nodes = Cardinality(Members(h)) + 1
                         /\ Cardinality(u.node_bitmask) = u.total_nodes
                         /\ u.network_info.total_nodes = u.total_nodes
                         /\ u.total_nodes <= u.max_nodes
                         /\ u.node_info[1] = h
                         /\ \A i \in Ids \ {1} : \A m \in Nodes :
                              (u.node_info[i] = m) <=> (m \in Members(h) /\ u.node_map[m].node_id = i)
  BY DEF HostListsAgree
<1>1. ListsAgree(h, uds[h])
  BY DEF UdsInv, NodeInv, Leads, IsHost
<1>2. Members(h) = MembersOf(uds[h])
  BY DEF Members, MembersOf
<1>. QED
  BY <1>1, <1>2 DEF ListsAgree

(***************************************************************************)
(* The records that a host keeps of its network tell the same, in rooms of *)
(* any size and for every program with one host: the connection attempts,  *)
(* time-outs, departures, restarts and late packets of the members never   *)
(* leave a slot taken that no member holds, or two members with one id in  *)
(* the host's node map.                                                    *)
(***************************************************************************)
THEOREM HostListsStayInStep == Spec => []HostListsAgree
<1>1. Init /\ [][Next]_vars => []UdsInv
  BY InitUds, NextUds, PTL
<1>. QED
  BY <1>1, InvAgrees, PTL DEF Spec

=============================================================================
