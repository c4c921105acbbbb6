---------------------------- MODULE RunLoopProofs ----------------------------
(***************************************************************************)
(* Proofs about the clocks of the cores (RunLoop, CoreTiming): under       *)
(* RunLoopMultiCores the ticks of a core never go back, for any number of  *)
(* cores, any slice length, any guest program and any delays.              *)
(*                                                                         *)
(* What could set a clock back is a slice of negative length, or an Idle   *)
(* that drops a negative downcount.  The invariant LoopInv rules both out: *)
(* it says which slices are fresh in which phase of the loop, and that     *)
(* after Advance all the events of a core are ahead of its clock.          *)
(***************************************************************************)
EXTENDS RunLoop, SequenceTheorems, WellFoundedInduction, TLAPS

-----------------------------------------------------------------------------
(* Induction over the natural numbers in a first-order form: the predicate is  *)
(* given as a set, and the body of a loop as a function, so that both can be   *)
(* instantiated.                                                               *)

(* Every non-empty set of natural numbers has a least element. *)
LEMMA LeastNat ==
  ASSUME NEW T \in SUBSET Nat, T # {}
  PROVE  \E x \in T : \A y \in T : x <= y
<1>1. PICK x \in T : \A y \in T : ~ (<<y, x>> \in OpToRel(<, Nat))
  BY NatLessThanWellFounded, WFMin
<1>2. \A y \in T : ~ (y < x)
  BY <1>1, Zenon DEF OpToRel
<1>. QED
  BY <1>2

(* Every non-empty set of natural numbers with an upper bound has a greatest element. *)
LEMMA GreatestNat ==
  ASSUME NEW n \in Nat, NEW T \in SUBSET (0 .. n), T # {}
  PROVE  \E x \in T : \A y \in T : x >= y
<1>. DEFINE U == {k \in Nat : \A y \in T : y <= k}
<1>1. n \in U
  OBVIOUS
<1>2. PICK k \in U : \A u \in U : k <= u
  BY <1>1, LeastNat
<1>3. CASE k \in T
  BY <1>2, <1>3
<1>4. CASE k \notin T
  <2>1. \A y \in T : y <= k /\ y # k
    BY <1>4
  <2>2. k # 0
    <3>1. PICK y \in T : TRUE
      OBVIOUS
    <3>. QED
      BY <2>1, <3>1
  <2>3. k - 1 \in U
    BY <2>1, <2>2
  <2>. QED
    BY <1>2, <2>3
<1>. QED
  BY <1>3, <1>4

(* Max of the community modules is what it says on such sets. *)
LEMMA MaxProperty ==
  ASSUME NEW n \in Nat, NEW T \in SUBSET (0 .. n), T # {}
  PROVE  /\ Max(T) \in T
         /\ \A y \in T : Max(T) >= y
BY GreatestNat DEF Max

(* Induction on the members of an initial segment, the predicate being a set. *)
LEMMA UpwardInduction ==
  ASSUME NEW n \in Nat, NEW T, 0 \in T,
         \A i \in 1 .. n : i - 1 \in T => i \in T
  PROVE  0 .. n \subseteq T
<1>. SUFFICES ASSUME (0 .. n) \ T # {}
              PROVE  FALSE
  OBVIOUS
<1>. DEFINE W == (0 .. n) \ T
<1>1. PICK m \in W : \A y \in W : m <= y
  <2>1. W \in SUBSET Nat /\ W # {}
    OBVIOUS
  <2>. HIDE DEF W
  <2>. QED
    BY <2>1, LeastNat
<1>2. m # 0 /\ m - 1 \in 0 .. n
  BY <1>1
<1>3. m - 1 \in T
  BY <1>1, <1>2
<1>. QED
  BY <1>1, <1>2, <1>3

(* The states f[0], f[1], ... of a loop that applies G[i] in its i-th iteration. *)
Runs(f, n, base, G) ==
  /\ f[0] = base
  /\ \A i \in 1 .. n : f[i] = G[i][f[i - 1]]

(* A loop of n iterations over values of V has a sequence of states. *)
LEMMA LoopExists ==
  ASSUME NEW n \in Nat, NEW V, NEW base \in V, NEW G \in [1 .. n -> [V -> V]]
  PROVE  \E f \in [0 .. n -> V] : Runs(f, n, base, G)
<1>. USE DEF Runs
<1>. DEFINE T == {m \in 0 .. n : \E f \in [0 .. n -> V] : Runs(f, m, base, G)}
<1>1. 0 \in T
  <2>. DEFINE g == [i \in 0 .. n |-> base]
  <2>1. g \in [0 .. n -> V] /\ Runs(g, 0, base, G)
    OBVIOUS
  <2>. HIDE DEF g
  <2>2. \E f \in [0 .. n -> V] : Runs(f, 0, base, G)
    BY <2>1
  <2>. QED
    BY <2>2
<1>2. ASSUME NEW m \in 1 .. n, m - 1 \in T
      PROVE  m \in T
  <2>1. PICK f \in [0 .. n -> V] : Runs(f, m - 1, base, G)
    BY <1>2
  <2>. DEFINE g == [f EXCEPT ![m] = G[m][f[m - 1]]]
  <2>2. g \in [0 .. n -> V]
    <3>1. f[m - 1] \in V /\ G[m] \in [V -> V]
      BY <2>1
    <3>. QED
      BY <2>1, <3>1
  <2>3. Runs(g, m, base, G)
    <3>1. g[0] = base
      BY <2>1
    <3>2. ASSUME NEW i \in 1 .. m
          PROVE  g[i] = G[i][g[i - 1]]
      BY <2>1, <3>2
    <3>. QED
      BY <3>1, <3>2
  <2>. HIDE DEF g
  <2>4. \E h \in [0 .. n -> V] : Runs(h, m, base, G)
    BY <2>2, <2>3
  <2>. QED
    BY <2>4
<1>3. n \in T
  <2>. HIDE DEF T
  <2>1. 0 .. n \subseteq T
    BY <1>1, <1>2, UpwardInduction
  <2>. QED
    BY <2>1
<1>. QED
  BY <1>3

-----------------------------------------------------------------------------
(* The timers *)

Events == [time : Int, user_data : Int]

Timers ==
  [ event_queue : Seq(Events), ts_queue : Seq(Events), is_timer_sane : BOOLEAN,
    slice_length : Int, downcount : Int, executed_ticks : Int ]

(* A queue of events in the order of the heap, and one whose events are all ahead of a clock. *)
InOrder(queue) ==
  \A i, j \in 1 .. Len(queue) : i <= j => queue[i].time <= queue[j].time

Ahead(queue, ticks) == \A i \in 1 .. Len(queue) : queue[i].time > ticks

GoodTimer(timer) ==
  timer \in Timers /\ InOrder(timer.event_queue) /\ timer.downcount <= timer.slice_length

(* A timer inside Advance, and one after Advance that has no slice yet. *)
Advancing(timer) == timer.is_timer_sane /\ timer.slice_length = 0 /\ timer.downcount = 0

Fresh(timer) ==
  /\ ~ timer.is_timer_sane /\ timer.slice_length = 0 /\ timer.downcount = 0
  /\ Ahead(timer.event_queue, timer.executed_ticks)

Phases == {"sync", "catch_up", "advance", "start", "run", "end", "single"}

Loops ==
  [ phase : Phases, core : Cores, firing : BOOLEAN, ran : BOOLEAN, halted : BOOLEAN, delay : Int,
    max_delay : Nat, to_execute : Cores, max_slice : Int, start_ticks : Int, fault : BOOLEAN ]

(* The core that is to catch up was given a slice in this iteration. *)
SyncInv ==
  /\ loop.phase = "sync" /\ loop.max_delay > 0
       => loop.to_execute < loop.core /\ timers[loop.to_execute].downcount >= 0
  /\ loop.phase = "sync" /\ loop.firing => loop.delay > 0
  /\ loop.phase = "catch_up" => loop.max_delay > min_delay /\ timers[loop.core].downcount >= 0

(* The cores that have advanced and not yet started have no slice, and no event that is due. *)
SliceInv ==
  /\ loop.phase \in {"sync", "advance", "start"} => loop.max_slice >= 0
  /\ loop.phase = "advance" => \A d \in Cores : d < loop.core => Fresh(timers[d])
  /\ loop.phase = "start" => \A d \in Cores : d >= loop.core => Fresh(timers[d])
  /\ loop.phase = "run" /\ loop.max_delay <= min_delay
       => /\ current_cpu = loop.core
          /\ loop.start_ticks <= GetTicks(timers[loop.core])
          /\ \A d \in Cores : d > loop.core => Fresh(timers[d])

LoopInv ==
  /\ loop \in Loops /\ current_cpu \in Cores
  /\ downcount_hack \in [Cores -> Nat] /\ blocks \subseteq Nat
  /\ timers \in [Cores -> Timers] /\ \A c \in Cores : GoodTimer(timers[c])
  /\ loop.firing => loop.phase \in {"sync", "advance"} /\ Advancing(timers[loop.core])
  /\ SyncInv
  /\ SliceInv
-----------------------------------------------------------------------------
(* The queue of events. *)

(* Insert keeps a queue in the order of its times. *)
LEMMA InsertInOrder ==
  ASSUME NEW queue \in Seq(Events), InOrder(queue), NEW event \in Events
  PROVE  Insert(queue, event) \in Seq(Events) /\ InOrder(Insert(queue, event))
<1>. DEFINE N == Len(queue)
            T == {0} \cup {i \in DOMAIN queue : queue[i].time <= event.time}
<1>1. PICK b : b = Max(T)
  OBVIOUS
<1>2. b \in T /\ \A y \in T : b >= y
  <2>1. N \in Nat /\ T \in SUBSET (0 .. N) /\ T # {}
    OBVIOUS
  <2>. HIDE DEF T, N
  <2>. QED
    BY <1>1, <2>1, MaxProperty
<1>3. N \in Nat /\ b \in 0 .. N
  BY <1>2
<1>4. PICK r : r = InsertAt(queue, b + 1, event)
  OBVIOUS
<1>5. Insert(queue, event) = r
  BY <1>1, <1>4 DEF Insert
<1>6. r = SubSeq(queue, 1, b) \o <<event>> \o SubSeq(queue, b + 1, N)
  <2>1. (b + 1) - 1 = b
    BY <1>3
  <2>. QED
    BY <1>4, <2>1, Zenon DEF InsertAt
<1>7. /\ r \in Seq(Events) /\ Len(r) = N + 1
      /\ \A i \in 1 .. N + 1 : r[i] = IF i <= b THEN queue[i]
                                      ELSE IF i = b + 1 THEN event
                                      ELSE queue[i - 1]
  <2>1. SubSeq(queue, 1, b) \in Seq(Events) /\ Len(SubSeq(queue, 1, b)) = b
    BY <1>3
  <2>2. SubSeq(queue, b + 1, N) \in Seq(Events) /\ Len(SubSeq(queue, b + 1, N)) = N - b
    BY <1>3
  <2>3. PICK u, v : u = SubSeq(queue, 1, b) /\ v = SubSeq(queue, b + 1, N)
    OBVIOUS
  <2>4. /\ u \in Seq(Events) /\ Len(u) = b /\ \A i \in 1 .. b : u[i] = queue[i]
        /\ v \in Seq(Events) /\ Len(v) = N - b
        /\ \A i \in 1 .. N - b : v[i] = queue[b + i]
    BY <1>3, <2>1, <2>2, <2>3
  <2>5. r = u \o <<event>> \o v
    BY <1>6, <2>3
  <2>. HIDE DEF N
  <2>6. PICK w : w = u \o <<event>>
    OBVIOUS
  <2>7. /\ w \in Seq(Events) /\ Len(w) = b + 1 /\ w[b + 1] = event
        /\ \A i \in 1 .. b : w[i] = queue[i]
    <3>1. <<event>> \in Seq(Events) /\ Len(<<event>>) = 1 /\ <<event>>[1] = event
      OBVIOUS
    <3>2. /\ w \in Seq(Events) /\ Len(w) = Len(u) + Len(<<event>>)
          /\ \A i \in 1 .. Len(u) + Len(<<event>>) :
               w[i] = IF i <= Len(u) THEN u[i] ELSE <<event>>[i - Len(u)]
      <4>1. u \in Seq(Events) /\ <<event>> \in Seq(Events)
        BY <2>4, <3>1
      <4>. QED
        BY <2>6, <4>1, ConcatProperties, Zenon
    <3>3. (b + 1) - b = 1 /\ b + 1 \in 1 .. b + 1 /\ ~ (b + 1 <= b)
      BY <1>3
    <3>4. w[b + 1] = event
      BY <2>4, <3>1, <3>2, <3>3
    <3>. QED
      BY <1>3, <2>4, <3>1, <3>2, <3>4
  <2>8. r = w \o v
    BY <2>5, <2>6
  <2>9. /\ r \in Seq(Events) /\ Len(r) = N + 1
        /\ \A i \in 1 .. N + 1 : r[i] = IF i <= b + 1 THEN w[i] ELSE v[i - (b + 1)]
    <3>1. /\ r \in Seq(Events) /\ Len(r) = Len(w) + Len(v)
          /\ \A i \in 1 .. Len(w) + Len(v) : r[i] = IF i <= Len(w) THEN w[i] ELSE v[i - Len(w)]
      <4>1. w \in Seq(Events) /\ v \in Seq(Events)
        BY <2>4, <2>7
      <4>. QED
        BY <2>8, <4>1, ConcatProperties, Zenon
    <3>2. (b + 1) + (N - b) = N + 1
      BY <1>3
    <3>. QED
      BY <2>4, <2>7, <3>1, <3>2
  <2>10. ASSUME NEW i \in 1 .. N + 1
         PROVE  r[i] = IF i <= b THEN queue[i] ELSE IF i = b + 1 THEN event ELSE queue[i - 1]
    <3>1. CASE i > b + 1
      <4>1. i - (b + 1) \in 1 .. N - b /\ b + (i - (b + 1)) = i - 1
        BY <1>3, <3>1
      <4>2. r[i] = v[i - (b + 1)]
        BY <1>3, <2>9, <3>1
      <4>3. v[i - (b + 1)] = queue[i - 1]
        BY <2>4, <4>1, Zenon
      <4>. QED
        BY <1>3, <3>1, <4>2, <4>3
    <3>2. CASE i <= b + 1
      BY <1>3, <2>7, <2>9, <3>2
    <3>. QED
      BY <1>3, <3>1, <3>2
  <2>. QED
    BY <2>9, <2>10
<1>8. \A i \in 1 .. N : queue[i].time \in Int /\ event.time \in Int
  <2>1. \A i \in 1 .. N : queue[i] \in Events
    OBVIOUS
  <2>. QED
    BY <2>1 DEF Events
<1>9. \A i \in 1 .. N : i <= b => queue[i].time <= event.time
  BY <1>2, <1>3, <1>8 DEF InOrder
<1>10. \A i \in 1 .. N : i > b => queue[i].time > event.time
  BY <1>2, <1>3, <1>8
<1>11. InOrder(r)
  <2>. SUFFICES ASSUME NEW i \in 1 .. N + 1, NEW j \in 1 .. N + 1, i < j
                PROVE  r[i].time <= r[j].time
    <3>1. \A i \in 1 .. N + 1 : r[i].time \in Int
      <4>1. \A i \in 1 .. N + 1 : r[i] \in Events
        BY <1>7
      <4>. QED
        BY <4>1 DEF Events
    <3>. HIDE DEF N
    <3>. QED
      BY <1>3, <1>7, <3>1 DEF InOrder
  <2>0. \A k, l \in 1 .. N : k <= l => queue[k].time <= queue[l].time
    BY DEF InOrder
  <2>. HIDE DEF N, T
  <2>1. CASE j <= b
    BY <1>3, <1>7, <2>0, <2>1
  <2>2. CASE j = b + 1
    BY <1>3, <1>7, <1>9, <2>2
  <2>3. CASE j > b + 1 /\ i = b + 1
    BY <1>3, <1>7, <1>8, <1>10, <2>3
  <2>4. CASE j > b + 1 /\ i <= b
    <3>1. i \in 1 .. N /\ j - 1 \in 1 .. N /\ i <= j - 1
      BY <1>3, <2>4
    <3>2. r[i] = queue[i] /\ r[j] = queue[j - 1]
      BY <1>3, <1>7, <2>4
    <3>. QED
      BY <2>0, <3>1, <3>2
  <2>5. CASE j > b + 1 /\ i > b + 1
    <3>1. i - 1 \in 1 .. N /\ j - 1 \in 1 .. N /\ i - 1 <= j - 1
      BY <1>3, <2>5
    <3>2. r[i] = queue[i - 1] /\ r[j] = queue[j - 1]
      BY <1>3, <1>7, <2>5
    <3>. QED
      BY <2>0, <3>1, <3>2
  <2>. QED
    BY <1>3, <2>1, <2>2, <2>3, <2>4, <2>5
<1>. QED
  BY <1>5, <1>7, <1>11

(* The events that remain after std::remove_if come from the queue, and keep their order. *)
KeptFrom(r, queue) ==
  /\ r \in Seq(Events) /\ InOrder(r)
  /\ \A ticks \in Int : Ahead(queue, ticks) => Ahead(r, ticks)

LEMMA EraseInOrder ==
  ASSUME NEW queue \in Seq(Events), InOrder(queue), NEW D
  PROVE  KeptFrom(EraseIn(queue, D), queue)
<1>. DEFINE N == Len(queue)
            V == Seq(Events)
            G == [n \in 1 .. N |-> [v \in V |-> IF queue[n] \in D THEN v ELSE Append(v, queue[n])]]
            F(f) == [n \in 0 .. N |-> IF n = 0 THEN << >>
                                      ELSE IF queue[n] \in D THEN f[n - 1]
                                      ELSE Append(f[n - 1], queue[n])]
            kept == CHOOSE f : f = F(f)
<1>1. N \in Nat /\ << >> \in V /\ \A n \in 1 .. N : queue[n] \in Events
  OBVIOUS
<1>2. \E f : f = F(f)
  <2>1. G \in [1 .. N -> [V -> V]]
    <3>. HIDE DEF N
    <3>. QED
      BY <1>1
  <2>2. PICK f \in [0 .. N -> V] : Runs(f, N, << >>, G)
    <3>. HIDE DEF G, N, F, kept, V
    <3>. QED
      BY <1>1, <2>1, LoopExists
  <2>3. ASSUME NEW i \in 1 .. N
        PROVE  f[i] = IF queue[i] \in D THEN f[i - 1] ELSE Append(f[i - 1], queue[i])
    <3>1. f[i - 1] \in V
      BY <1>1, <2>2
    <3>2. G[i] = [v \in V |-> IF queue[i] \in D THEN v ELSE Append(v, queue[i])]
      OBVIOUS
    <3>. HIDE DEF G
    <3>. QED
      BY <2>2, <3>1, <3>2 DEF Runs
  <2>4. f = F(f)
    <3>1. f[0] = << >>
      BY <2>2 DEF Runs
    <3>2. f = [i \in 0 .. N |-> f[i]]
      BY <2>2
    <3>3. ASSUME NEW i \in 0 .. N
          PROVE  f[i] = IF i = 0 THEN << >>
                        ELSE IF queue[i] \in D THEN f[i - 1]
                        ELSE Append(f[i - 1], queue[i])
      <4>1. i = 0 \/ i \in 1 .. N
        BY <1>1
      <4>. HIDE DEF N
      <4>. QED
        BY <2>3, <3>1, <4>1
    <3>. HIDE DEF N
    <3>. QED
      BY <3>2, <3>3, Zenon
  <2>. QED
    BY <2>4
<1>3. kept = F(kept)
  <2>. HIDE DEF F
  <2>. QED
    BY <1>2
<1>4. EraseIn(queue, D) = kept[N]
  BY DEF EraseIn
<1>5. \A n \in 0 .. N : kept[n] = IF n = 0 THEN << >>
                                  ELSE IF queue[n] \in D THEN kept[n - 1]
                                  ELSE Append(kept[n - 1], queue[n])
  <2>. HIDE DEF kept
  <2>. QED
    BY <1>3
<1>. HIDE DEF kept, F, G
<1>. DEFINE P(r, m) == /\ r \in V /\ InOrder(r)
                       /\ \A i \in 1 .. Len(r) : \E j \in 1 .. m : r[i] = queue[j]
            T == {n \in 0 .. N : P(kept[n], n)}
<1>6. 0 \in T
  <2>1. kept[0] = << >> /\ 0 \in 0 .. N
    BY <1>1, <1>5
  <2>2. P(<< >>, 0)
    BY <1>1 DEF InOrder
  <2>. HIDE DEF P
  <2>. QED
    BY <2>1, <2>2
<1>7. ASSUME NEW m \in 1 .. N, m - 1 \in T PROVE m \in T
  <2>1. PICK r : r = kept[m - 1]
    OBVIOUS
  <2>2. P(r, m - 1) /\ m - 1 \in 0 .. N
    BY <1>7, <2>1
  <2>3. kept[m] = IF queue[m] \in D THEN r ELSE Append(r, queue[m])
    BY <1>1, <1>5, <2>1
  <2>4. P(r, m)
    BY <1>1, <2>2
  <2>5. ASSUME NEW q, q = Append(r, queue[m]) PROVE P(q, m)
    <3>1. /\ q \in V /\ Len(q) = Len(r) + 1 /\ Len(r) \in Nat
          /\ \A i \in 1 .. Len(r) : q[i] = r[i]
          /\ q[Len(r) + 1] = queue[m]
      BY <1>1, <2>2, <2>5
    <3>2. \A i \in 1 .. Len(r) : r[i].time <= queue[m].time
      BY <1>1, <2>2 DEF InOrder
    <3>3. \A i \in 1 .. Len(q) : i \in 1 .. Len(r) \/ i = Len(r) + 1
      BY <3>1
    <3>4. InOrder(q)
      <4>. SUFFICES ASSUME NEW i \in 1 .. Len(q), NEW j \in 1 .. Len(q), i <= j
                    PROVE  q[i].time <= q[j].time
        BY DEF InOrder
      <4>1. CASE j \in 1 .. Len(r)
        <5>1. i \in 1 .. Len(r)
          BY <3>1, <4>1
        <5>. QED
          BY <2>2, <3>1, <4>1, <5>1 DEF InOrder
      <4>2. CASE j = Len(r) + 1 /\ i \in 1 .. Len(r)
        BY <3>1, <3>2, <4>2
      <4>3. CASE j = Len(r) + 1 /\ i = Len(r) + 1
        BY <1>1, <3>1, <4>3 DEF Events
      <4>. QED
        BY <3>3, <4>1, <4>2, <4>3
    <3>5. ASSUME NEW i \in 1 .. Len(q) PROVE \E j \in 1 .. m : q[i] = queue[j]
      BY <2>4, <3>1, <3>3
    <3>. QED
      BY <3>1, <3>4, <3>5
  <2>. HIDE DEF P
  <2>6. P(kept[m], m)
    BY <2>3, <2>4, <2>5
  <2>. QED
    BY <1>1, <2>6
<1>8. 0 .. N \subseteq T
  <2>. HIDE DEF T
  <2>. QED
    BY <1>1, <1>6, <1>7, UpwardInduction
<1>9. P(kept[N], N)
  BY <1>1, <1>8
<1>. QED
  BY <1>4, <1>9 DEF KeptFrom, Ahead

(* MoveEvents leaves the events of both queues in order in one. *)
LEMMA MoveEventsInOrder ==
  ASSUME NEW timer, GoodTimer(timer)
  PROVE  \E queue \in Seq(Events) :
           /\ InOrder(queue)
           /\ MoveEvents(timer) = [timer EXCEPT !.event_queue = queue, !.ts_queue = << >>]
<1>. DEFINE s == timer.ts_queue
            N == Len(s)
            V == {q \in Seq(Events) : InOrder(q)}
            G == [n \in 1 .. N |-> [v \in V |-> Insert(v, s[n])]]
            F(f) == [n \in 0 .. N |-> IF n = 0 THEN timer.event_queue ELSE Insert(f[n - 1], s[n])]
            moved == CHOOSE f : f = F(f)
<1>1. N \in Nat /\ timer.event_queue \in V /\ \A n \in 1 .. N : s[n] \in Events
  <2>1. s \in Seq(Events) /\ timer.event_queue \in Seq(Events) /\ InOrder(timer.event_queue)
    BY DEF GoodTimer, Timers
  <2>. HIDE DEF s
  <2>. QED
    BY <2>1
<1>. HIDE DEF s
<1>2. \A v \in V, n \in 1 .. N : Insert(v, s[n]) \in V
  BY <1>1, InsertInOrder
<1>3. PICK f \in [0 .. N -> V] : Runs(f, N, timer.event_queue, G)
  <2>1. G \in [1 .. N -> [V -> V]]
    <3>. HIDE DEF N, V
    <3>. QED
      BY <1>2
  <2>. HIDE DEF G, N, F, moved, V
  <2>. QED
    BY <1>1, <2>1, LoopExists
<1>4. f = F(f)
  <2>1. f[0] = timer.event_queue
    BY <1>3 DEF Runs
  <2>2. f = [i \in 0 .. N |-> f[i]]
    BY <1>3
  <2>3. ASSUME NEW i \in 1 .. N PROVE f[i] = Insert(f[i - 1], s[i])
    <3>1. f[i - 1] \in V
      <4>1. i - 1 \in 0 .. N
        BY <1>1
      <4>. HIDE DEF V
      <4>. QED
        BY <1>3, <4>1
    <3>2. G[i] = [v \in V |-> Insert(v, s[i])]
      OBVIOUS
    <3>. HIDE DEF G, V
    <3>. QED
      BY <1>3, <3>1, <3>2 DEF Runs
  <2>4. ASSUME NEW i \in 0 .. N
        PROVE  f[i] = IF i = 0 THEN timer.event_queue ELSE Insert(f[i - 1], s[i])
    <3>1. i = 0 \/ i \in 1 .. N
      BY <1>1
    <3>. HIDE DEF N
    <3>. QED
      BY <2>1, <2>3, <3>1
  <2>. HIDE DEF N
  <2>. QED
    BY <2>2, <2>4, Zenon
<1>5. moved = F(moved)
  <2>. HIDE DEF F
  <2>. QED
    BY <1>4
<1>6. MoveEvents(timer) = [timer EXCEPT !.event_queue = moved[N], !.ts_queue = << >>]
  BY DEF MoveEvents, s
<1>. HIDE DEF moved
<1>7. moved[0] = timer.event_queue
  <2>1. 0 \in 0 .. N
    BY <1>1
  <2>. QED
    BY <1>5, <2>1
<1>8. ASSUME NEW i \in 1 .. N PROVE moved[i] = Insert(moved[i - 1], s[i])
  <2>1. i \in 0 .. N /\ i # 0
    BY <1>1
  <2>. QED
    BY <1>5, <2>1
<1>. HIDE DEF F, G
<1>. DEFINE T == {i \in 0 .. N : moved[i] \in V}
<1>9. 0 \in T
  <2>1. 0 \in 0 .. N
    BY <1>1
  <2>. HIDE DEF V, N
  <2>. QED
    BY <1>1, <1>7, <2>1
<1>10. ASSUME NEW i \in 1 .. N, i - 1 \in T PROVE i \in T
  <2>1. i \in 0 .. N
    BY <1>1
  <2>. HIDE DEF V, N
  <2>. QED
    BY <1>2, <1>8, <1>10, <2>1
<1>11. N \in T
  <2>. HIDE DEF T
  <2>1. 0 .. N \subseteq T
    BY <1>1, <1>9, <1>10, UpwardInduction
  <2>. QED
    BY <1>1, <2>1
<1>. QED
  BY <1>6, <1>11

(* x >> n of a slice is at least 0 and at most the slice. *)
LEMMA ShiftRightBounds ==
  ASSUME NEW x \in Nat, NEW n \in Nat
  PROVE  ShiftRight(x, n) \in 0 .. x
<1>. DEFINE V == 0 .. x
            G == [i \in 1 .. n |-> [v \in V |-> v \div 2]]
            F(f) == [i \in 0 .. n |-> IF i = 0 THEN x ELSE f[i - 1] \div 2]
            shifted == CHOOSE f : f = F(f)
<1>1. x \in V /\ \A v \in V : v \div 2 \in V
  OBVIOUS
<1>2. PICK f \in [0 .. n -> V] : Runs(f, n, x, G)
  <2>1. G \in [1 .. n -> [V -> V]]
    <3>. HIDE DEF V
    <3>. QED
      BY <1>1
  <2>. HIDE DEF G, V, F, shifted
  <2>. QED
    BY <1>1, <2>1, LoopExists
<1>3. f = F(f)
  <2>1. f[0] = x
    BY <1>2 DEF Runs
  <2>2. f = [i \in 0 .. n |-> f[i]]
    BY <1>2
  <2>3. ASSUME NEW i \in 1 .. n PROVE f[i] = f[i - 1] \div 2
    <3>1. f[i - 1] \in V
      BY <1>2
    <3>2. G[i] = [v \in V |-> v \div 2]
      OBVIOUS
    <3>. HIDE DEF G, V
    <3>. QED
      BY <1>2, <3>1, <3>2 DEF Runs
  <2>4. ASSUME NEW i \in 0 .. n PROVE f[i] = IF i = 0 THEN x ELSE f[i - 1] \div 2
    BY <2>1, <2>3
  <2>. QED
    BY <2>2, <2>4, Zenon
<1>4. shifted = F(shifted)
  <2>. HIDE DEF F
  <2>. QED
    BY <1>3
<1>5. ShiftRight(x, n) = shifted[n]
  BY DEF ShiftRight
<1>. HIDE DEF shifted
<1>6. shifted[0] = x /\ \A i \in 1 .. n : shifted[i] = shifted[i - 1] \div 2
  BY <1>4
<1>. HIDE DEF F, G
<1>. DEFINE T == {i \in 0 .. n : shifted[i] \in V}
<1>7. 0 \in T
  BY <1>6
<1>8. ASSUME NEW i \in 1 .. n, i - 1 \in T PROVE i \in T
  <2>1. shifted[i - 1] \in V /\ shifted[i] = shifted[i - 1] \div 2 /\ i \in 0 .. n
    BY <1>6, <1>8
  <2>. HIDE DEF V
  <2>. QED
    BY <1>1, <2>1
<1>9. n \in T
  <2>. HIDE DEF T
  <2>1. 0 .. n \subseteq T
    BY <1>7, <1>8, UpwardInduction
  <2>. QED
    BY <2>1
<1>. QED
  BY <1>5, <1>9

(* Of finitely many numbers one is least and one is greatest. *)
LEMMA HaveExtremes ==
  ASSUME NEW n \in Nat, NEW f, \A i \in 0 .. n : f[i] \in Int
  PROVE  /\ \E a \in 0 .. n : \A i \in 0 .. n : f[a] <= f[i]
         /\ \E b \in 0 .. n : \A i \in 0 .. n : f[b] >= f[i]
<1>. DEFINE T == {m \in 0 .. n : /\ \E a \in 0 .. m : \A i \in 0 .. m : f[a] <= f[i]
                                 /\ \E b \in 0 .. m : \A i \in 0 .. m : f[b] >= f[i]}
<1>1. 0 \in T
  OBVIOUS
<1>2. ASSUME NEW m \in 1 .. n, m - 1 \in T PROVE m \in T
  <2>1. PICK a \in 0 .. m - 1 : \A i \in 0 .. m - 1 : f[a] <= f[i]
    BY <1>2
  <2>2. PICK b \in 0 .. m - 1 : \A i \in 0 .. m - 1 : f[b] >= f[i]
    BY <1>2
  <2>3. f[a] \in Int /\ f[b] \in Int /\ f[m] \in Int
    OBVIOUS
  <2>4. \A i \in 0 .. m : i \in 0 .. m - 1 \/ i = m
    OBVIOUS
  <2>5. \E c \in 0 .. m : \A i \in 0 .. m : f[c] <= f[i]
    <3>1. CASE f[a] <= f[m]
      <4>1. a \in 0 .. m /\ \A i \in 0 .. m : f[a] <= f[i]
        BY <2>1, <2>4, <3>1
      <4>. QED
        BY <4>1
    <3>2. CASE f[m] < f[a]
      <4>1. m \in 0 .. m /\ \A i \in 0 .. m : f[m] <= f[i]
        BY <2>1, <2>3, <2>4, <3>2
      <4>. QED
        BY <4>1
    <3>. QED
      BY <2>3, <3>1, <3>2
  <2>6. \E c \in 0 .. m : \A i \in 0 .. m : f[c] >= f[i]
    <3>1. CASE f[b] >= f[m]
      <4>1. b \in 0 .. m /\ \A i \in 0 .. m : f[b] >= f[i]
        BY <2>2, <2>4, <3>1
      <4>. QED
        BY <4>1
    <3>2. CASE f[m] > f[b]
      <4>1. m \in 0 .. m /\ \A i \in 0 .. m : f[m] >= f[i]
        BY <2>2, <2>3, <2>4, <3>2
      <4>. QED
        BY <4>1
    <3>. QED
      BY <2>3, <3>1, <3>2
  <2>. QED
    BY <2>5, <2>6
<1>3. n \in T
  <2>. HIDE DEF T
  <2>1. 0 .. n \subseteq T
    BY <1>1, <1>2, UpwardInduction
  <2>. QED
    BY <2>1
<1>. QED
  BY <1>3

-----------------------------------------------------------------------------
(* The operations of a timer. *)

(* The types of the members of a timer. *)
LEMMA TimerFields ==
  ASSUME NEW timer, GoodTimer(timer)
  PROVE  /\ timer \in Timers
         /\ timer.event_queue \in Seq(Events) /\ timer.ts_queue \in Seq(Events)
         /\ timer.is_timer_sane \in BOOLEAN
         /\ timer.slice_length \in Int /\ timer.downcount \in Int /\ timer.executed_ticks \in Int
         /\ GetTicks(timer) \in Int
BY DEF GoodTimer, Timers, GetTicks

(* Advance counts the ticks of the slice. *)
LEMMA BeginAdvanceGood ==
  ASSUME NEW timer, GoodTimer(timer)
  PROVE  /\ GoodTimer(BeginAdvance(timer)) /\ Advancing(BeginAdvance(timer))
         /\ GetTicks(BeginAdvance(timer)) >= GetTicks(timer)
<1>1. PICK queue \in Seq(Events) :
        /\ InOrder(queue)
        /\ MoveEvents(timer) = [timer EXCEPT !.event_queue = queue, !.ts_queue = << >>]
  BY MoveEventsInOrder
<1>2. PICK x : x = timer.executed_ticks + (timer.slice_length - timer.downcount)
  OBVIOUS
<1>3. PICK v : v = BeginAdvance(timer)
  OBVIOUS
<1>4. PICK m : m = MoveEvents(timer)
  OBVIOUS
<1>5. x \in Int /\ m \in Timers /\ m.event_queue = queue /\ m.executed_ticks = timer.executed_ticks
  <2>1. timer \in Timers /\ << >> \in Seq(Events) /\ x \in Int
    BY <1>2, TimerFields
  <2>2. m = [timer EXCEPT !.event_queue = queue, !.ts_queue = << >>]
    BY <1>1, <1>4
  <2>. QED
    BY <2>1, <2>2 DEF Timers
<1>6. /\ v \in Timers /\ v.event_queue = queue /\ v.executed_ticks = x /\ v.slice_length = 0
      /\ v.downcount = 0 /\ v.is_timer_sane
  <2>1. v = [m EXCEPT !.executed_ticks = x, !.slice_length = 0, !.downcount = 0,
                      !.is_timer_sane = TRUE]
    BY <1>2, <1>3, <1>4, <1>5, Zenon DEF BeginAdvance
  <2>2. v \in Timers
    <3>1. PICK zero, yes : zero = 0 /\ yes = TRUE
      OBVIOUS
    <3>2. v = [m EXCEPT !.executed_ticks = x, !.slice_length = zero, !.downcount = zero,
                        !.is_timer_sane = yes]
      BY <2>1, <3>1, Zenon
    <3>3. zero \in Int /\ yes \in BOOLEAN
      BY <3>1
    <3>. QED
      BY <1>5, <3>2, <3>3 DEF Timers
  <2>3. v.event_queue = queue /\ v.executed_ticks = x
    BY <1>5, <2>1 DEF Timers
  <2>4. v.slice_length = 0 /\ v.downcount = 0
    BY <1>5, <2>1 DEF Timers
  <2>5. v.is_timer_sane
    BY <1>5, <2>1 DEF Timers
  <2>. QED
    BY <2>2, <2>3, <2>4, <2>5
<1>7. GetTicks(v) = x /\ x >= GetTicks(timer)
  BY <1>2, <1>5, <1>6, TimerFields DEF GetTicks, GoodTimer
<1>. QED
  BY <1>1, <1>3, <1>6, <1>7 DEF GoodTimer, Advancing

(* After Advance no event is due, as the queue is in order: the ASSERT of GetMaxSliceLength. *)
LEMMA EndAdvanceFresh ==
  ASSUME NEW timer, GoodTimer(timer), Advancing(timer), ~ EventIsDue(timer)
  PROVE  /\ GoodTimer(EndAdvance(timer)) /\ Fresh(EndAdvance(timer))
         /\ GetTicks(EndAdvance(timer)) = GetTicks(timer)
         /\ NextEventIsAhead(timer) /\ GetMaxSliceLength(timer) \in Nat
<1>1. PICK v : v = EndAdvance(timer)
  OBVIOUS
<1>2. v = [timer EXCEPT !.is_timer_sane = FALSE]
  BY <1>1 DEF EndAdvance
<1>3. /\ v \in Timers /\ v.event_queue = timer.event_queue
      /\ v.executed_ticks = timer.executed_ticks /\ v.slice_length = 0
      /\ v.downcount = 0 /\ ~ v.is_timer_sane
  BY <1>2, TimerFields DEF Timers, Advancing
<1>4. \A i \in 1 .. Len(timer.event_queue) : timer.event_queue[i].time \in Int
  <2>1. \A i \in 1 .. Len(timer.event_queue) : timer.event_queue[i] \in Events
    BY TimerFields
  <2>. QED
    BY <2>1 DEF Events
<1>5. timer.event_queue # << >> => 1 \in 1 .. Len(timer.event_queue)
  BY TimerFields
<1>6. Ahead(timer.event_queue, timer.executed_ticks)
  <2>. SUFFICES ASSUME NEW i \in 1 .. Len(timer.event_queue)
                PROVE  timer.event_queue[i].time > timer.executed_ticks
    BY DEF Ahead
  <2>1. timer.event_queue # << >> /\ 1 \in 1 .. Len(timer.event_queue) /\ 1 <= i
    BY TimerFields
  <2>2. timer.event_queue[1].time <= timer.event_queue[i].time
    BY <2>1 DEF GoodTimer, InOrder
  <2>. QED
    BY <1>4, <2>1, <2>2, TimerFields DEF EventIsDue
<1>7. GetTicks(v) = GetTicks(timer)
  BY <1>3, TimerFields DEF GetTicks, Advancing
<1>8. NextEventIsAhead(timer) /\ GetMaxSliceLength(timer) \in Nat
  <2>1. CASE timer.event_queue = << >>
    BY <2>1, SliceAssumption DEF NextEventIsAhead, GetMaxSliceLength
  <2>2. CASE timer.event_queue # << >>
    <3>1. timer.event_queue[1].time \in Int /\ timer.event_queue[1].time > timer.executed_ticks
      BY <1>4, <1>5, <1>6, <2>2 DEF Ahead
    <3>. QED
      BY <2>2, <3>1, TimerFields DEF NextEventIsAhead, GetMaxSliceLength
  <2>. QED
    BY <2>1, <2>2
<1>. QED
  BY <1>1, <1>3, <1>6, <1>7, <1>8 DEF GoodTimer, Fresh

(* A slice of a timer whose events are ahead has a length, and its charge is not negative. *)
LEMMA SetNextSliceGood ==
  ASSUME NEW timer, GoodTimer(timer), Fresh(timer), NEW max \in Nat, NEW hack \in Nat
  PROVE  /\ GoodTimer(SetNextSlice(timer, max, hack))
         /\ SetNextSlice(timer, max, hack).downcount >= 0
         /\ GetTicks(SetNextSlice(timer, max, hack)) >= GetTicks(timer)
<1>. DEFINE ahead == timer.event_queue[1].time - timer.executed_ticks
            slice == IF timer.event_queue # << >> /\ ahead < max THEN ahead ELSE max
<1>1. slice \in Nat
  <2>1. CASE timer.event_queue # << >>
    <3>1. 1 \in 1 .. Len(timer.event_queue) /\ timer.event_queue[1] \in Events
      BY <2>1, TimerFields
    <3>2. timer.event_queue[1].time \in Int /\ timer.event_queue[1].time > timer.executed_ticks
      BY <3>1 DEF Events, Fresh, Ahead
    <3>. QED
      BY <3>2, TimerFields
  <2>. QED
    BY <2>1
<1>2. PICK s, d, v : s = slice /\ d = ShiftRight(s, hack) /\ v = SetNextSlice(timer, max, hack)
  OBVIOUS
<1>3. s \in Nat /\ d \in 0 .. s
  BY <1>1, <1>2, ShiftRightBounds
<1>4. v = [timer EXCEPT !.slice_length = s, !.downcount = d]
  BY <1>2 DEF SetNextSlice
<1>5. /\ v \in Timers /\ v.event_queue = timer.event_queue
      /\ v.executed_ticks = timer.executed_ticks /\ v.slice_length = s /\ v.downcount = d
      /\ v.is_timer_sane = timer.is_timer_sane
  <2>1. timer \in Timers /\ s \in Int /\ d \in Int
    BY <1>3, TimerFields
  <2>. QED
    BY <1>4, <2>1 DEF Timers
<1>6. GoodTimer(v)
  BY <1>3, <1>5 DEF GoodTimer
<1>7. GetTicks(v) >= GetTicks(timer)
  BY <1>3, <1>5, TimerFields DEF GetTicks, Fresh
<1>. QED
  BY <1>2, <1>3, <1>5, <1>6, <1>7

(* A block counts its ticks. *)
LEMMA AddTicksGood ==
  ASSUME NEW timer, GoodTimer(timer), NEW ticks \in Nat
  PROVE  /\ GoodTimer(AddTicks(timer, ticks))
         /\ GetTicks(AddTicks(timer, ticks)) >= GetTicks(timer)
<1>1. PICK d, v : d = timer.downcount - ticks /\ v = AddTicks(timer, ticks)
  OBVIOUS
<1>2. v = [timer EXCEPT !.downcount = d]
  BY <1>1 DEF AddTicks
<1>3. timer \in Timers /\ d \in Int
  BY <1>1, TimerFields
<1>4. /\ v \in Timers /\ v.event_queue = timer.event_queue
      /\ v.executed_ticks = timer.executed_ticks /\ v.slice_length = timer.slice_length
      /\ v.downcount = d /\ v.is_timer_sane = timer.is_timer_sane
  BY <1>2, <1>3 DEF Timers
<1>5. GoodTimer(v) /\ GetTicks(v) >= GetTicks(timer)
  BY <1>1, <1>4, TimerFields DEF GoodTimer, GetTicks
<1>. QED
  BY <1>1, <1>5

(* Idle lets the rest of the slice pass. *)
LEMMA IdleGood ==
  ASSUME NEW timer, GoodTimer(timer), timer.downcount >= 0
  PROVE  /\ GoodTimer(Idle(timer)) /\ GetTicks(Idle(timer)) >= GetTicks(timer)
<1>1. PICK zero, v : zero = 0 /\ v = Idle(timer)
  OBVIOUS
<1>2. v = [timer EXCEPT !.downcount = zero]
  BY <1>1 DEF Idle
<1>3. timer \in Timers /\ zero \in Int
  BY <1>1, TimerFields
<1>4. /\ v \in Timers /\ v.event_queue = timer.event_queue
      /\ v.executed_ticks = timer.executed_ticks /\ v.slice_length = timer.slice_length
      /\ v.downcount = zero /\ v.is_timer_sane = timer.is_timer_sane
  BY <1>2, <1>3 DEF Timers
<1>5. GoodTimer(v) /\ GetTicks(v) >= GetTicks(timer)
  BY <1>1, <1>4, TimerFields DEF GoodTimer, GetTicks
<1>. QED
  BY <1>1, <1>5

(* A change of the queues only: the clock and the slice stay. *)
SameClock(v, timer) ==
  /\ v.executed_ticks = timer.executed_ticks /\ v.slice_length = timer.slice_length
  /\ v.downcount = timer.downcount /\ v.is_timer_sane = timer.is_timer_sane

LEMMA SameClockTicks ==
  ASSUME NEW timer, NEW v, SameClock(v, timer)
  PROVE  GetTicks(v) = GetTicks(timer) /\ (Advancing(timer) => Advancing(v))
BY DEF SameClock, GetTicks, Advancing

(* The first event is taken off. *)
LEMMA PopEventGood ==
  ASSUME NEW timer, GoodTimer(timer), EventIsDue(timer)
  PROVE  GoodTimer(PopEvent(timer)) /\ SameClock(PopEvent(timer), timer)
<1>1. PICK q, v : q = Tail(timer.event_queue) /\ v = PopEvent(timer)
  OBVIOUS
<1>2. /\ q \in Seq(Events) /\ Len(q) = Len(timer.event_queue) - 1
      /\ \A i \in 1 .. Len(q) : q[i] = timer.event_queue[i + 1]
  BY <1>1, TimerFields DEF EventIsDue
<1>3. InOrder(q)
  <2>1. Len(timer.event_queue) \in Nat
    BY TimerFields
  <2>. QED
    BY <1>2, <2>1 DEF InOrder, GoodTimer
<1>4. v = [timer EXCEPT !.event_queue = q]
  BY <1>1 DEF PopEvent
<1>5. v \in Timers /\ v.event_queue = q /\ SameClock(v, timer)
  <2>1. timer \in Timers
    BY TimerFields
  <2>. QED
    BY <1>2, <1>4, <2>1 DEF Timers, SameClock
<1>6. v.downcount <= v.slice_length
  BY <1>5 DEF SameClock, GoodTimer
<1>. QED
  BY <1>1, <1>3, <1>5, <1>6 DEF GoodTimer

(* UnscheduleEvent takes events away. *)
LEMMA UnscheduleGood ==
  ASSUME NEW timer, GoodTimer(timer), NEW user_data
  PROVE  /\ GoodTimer(UnscheduleEvent(timer, user_data))
         /\ SameClock(UnscheduleEvent(timer, user_data), timer)
         /\ Fresh(timer) => Fresh(UnscheduleEvent(timer, user_data))
<1>. DEFINE D == {e \in Range(timer.event_queue) : e.user_data = user_data}
<1>1. PICK q, v : q = EraseIn(timer.event_queue, D) /\ v = UnscheduleEvent(timer, user_data)
  OBVIOUS
<1>2. KeptFrom(q, timer.event_queue)
  <2>1. timer.event_queue \in Seq(Events) /\ InOrder(timer.event_queue)
    BY TimerFields DEF GoodTimer
  <2>. HIDE DEF D
  <2>. QED
    BY <1>1, <2>1, EraseInOrder
<1>3. v = [timer EXCEPT !.event_queue = q]
  BY <1>1 DEF UnscheduleEvent
<1>4. v \in Timers /\ v.event_queue = q /\ SameClock(v, timer)
  <2>1. timer \in Timers /\ q \in Seq(Events)
    BY <1>2, TimerFields DEF KeptFrom
  <2>. QED
    BY <1>3, <2>1 DEF Timers, SameClock
<1>5. GoodTimer(v)
  BY <1>2, <1>4 DEF KeptFrom, SameClock, GoodTimer
<1>6. Fresh(timer) => Fresh(v)
  BY <1>2, <1>4, TimerFields DEF KeptFrom, SameClock, Fresh
<1>. QED
  BY <1>1, <1>4, <1>5, <1>6

(* ScheduleEvent may shorten the slice, but not the ticks that have passed of it. *)
LEMMA ScheduleGood ==
  ASSUME NEW timer, GoodTimer(timer), NEW cycles \in Int, NEW user_data \in Int
  PROVE  /\ GoodTimer(ScheduleEvent(timer, cycles, user_data))
         /\ GetTicks(ScheduleEvent(timer, cycles, user_data)) = GetTicks(timer)
         /\ Advancing(timer) => Advancing(ScheduleEvent(timer, cycles, user_data))
<1>. DEFINE left == IF cycles > 0 THEN cycles ELSE 0
            shorter == timer.slice_length - (timer.downcount - left)
<1>1. PICK checked : checked = IF timer.is_timer_sane THEN timer
                               ELSE ForceExceptionCheck(timer, cycles)
  OBVIOUS
<1>2. PICK event, q, v : /\ event = Event(GetTicks(timer) + cycles, user_data)
                         /\ q = Insert(timer.event_queue, event)
                         /\ v = ScheduleEvent(timer, cycles, user_data)
  OBVIOUS
<1>3. event \in Events
  BY <1>2, TimerFields DEF Event, Events
<1>4. q \in Seq(Events) /\ InOrder(q)
  BY <1>2, <1>3, InsertInOrder, TimerFields DEF GoodTimer
<1>5. /\ checked \in Timers /\ checked.event_queue = timer.event_queue
      /\ checked.downcount <= checked.slice_length
      /\ GetTicks(checked) = GetTicks(timer)
      /\ Advancing(timer) => Advancing(checked)
  <2>1. CASE timer.is_timer_sane \/ ~ (timer.downcount > left)
    <3>1. checked = timer
      BY <1>1, <2>1 DEF ForceExceptionCheck
    <3>. QED
      BY <3>1, TimerFields DEF GoodTimer
  <2>2. CASE ~ timer.is_timer_sane /\ timer.downcount > left
    <3>1. PICK s, d : s = shorter /\ d = left
      OBVIOUS
    <3>2. checked = [timer EXCEPT !.slice_length = s, !.downcount = d]
      BY <1>1, <2>2, <3>1 DEF ForceExceptionCheck
    <3>3. timer \in Timers /\ s \in Int /\ d \in Int
      BY <3>1, TimerFields
    <3>4. /\ checked \in Timers /\ checked.event_queue = timer.event_queue
          /\ checked.executed_ticks = timer.executed_ticks
          /\ checked.slice_length = s /\ checked.downcount = d
          /\ checked.is_timer_sane = timer.is_timer_sane
      BY <3>2, <3>3 DEF Timers
    <3>5. s - d = timer.slice_length - timer.downcount
      BY <3>1, TimerFields
    <3>6. d <= s
      BY <3>3, <3>5, TimerFields DEF GoodTimer
    <3>. QED
      BY <2>2, <3>3, <3>4, <3>5, <3>6 DEF GetTicks, Advancing
  <2>. QED
    BY <2>1, <2>2
<1>6. v = [checked EXCEPT !.event_queue = q]
  BY <1>1, <1>2, <1>5 DEF ScheduleEvent
<1>7. v \in Timers /\ v.event_queue = q /\ SameClock(v, checked)
  BY <1>4, <1>5, <1>6 DEF Timers, SameClock
<1>8. GoodTimer(v)
  BY <1>4, <1>5, <1>7 DEF GoodTimer, SameClock
<1>. QED
  BY <1>2, <1>5, <1>7, <1>8, SameClockTicks

(* An event from another thread waits in its own queue. *)
LEMMA ScheduleThreadSafeGood ==
  ASSUME NEW timer, GoodTimer(timer), NEW ticks \in Int, NEW user_data \in Int
  PROVE  /\ GoodTimer(ScheduleThreadSafe(timer, ticks, 0, user_data))
         /\ SameClock(ScheduleThreadSafe(timer, ticks, 0, user_data), timer)
         /\ Fresh(timer) => Fresh(ScheduleThreadSafe(timer, ticks, 0, user_data))
<1>. DEFINE far == IF 0 > 2 * MAX_SLICE_LENGTH THEN 0 ELSE 2 * MAX_SLICE_LENGTH
<1>1. PICK event, q, v : /\ event = Event(ticks + far, user_data)
                         /\ q = Append(timer.ts_queue, event)
                         /\ v = ScheduleThreadSafe(timer, ticks, 0, user_data)
  OBVIOUS
<1>2. event \in Events
  BY <1>1, SliceAssumption DEF Event, Events
<1>3. timer \in Timers /\ q \in Seq(Events)
  BY <1>1, <1>2, TimerFields
<1>4. v = [timer EXCEPT !.ts_queue = q]
  BY <1>1 DEF ScheduleThreadSafe
<1>5. v \in Timers /\ v.event_queue = timer.event_queue /\ SameClock(v, timer)
  BY <1>3, <1>4 DEF Timers, SameClock
<1>. QED
  BY <1>1, <1>5 DEF GoodTimer, SameClock, Fresh

(* Counting the times of a timer from a later moment changes no difference of them. *)
LEMMA EarlierGood ==
  ASSUME NEW timer, GoodTimer(timer), NEW ticks \in Int
  PROVE  /\ GoodTimer(Earlier(timer, ticks))
         /\ GetTicks(Earlier(timer, ticks)) = GetTicks(timer) - ticks
<1>. DEFINE moved(queue) == [i \in DOMAIN queue |-> [queue[i] EXCEPT !.time = @ - ticks]]
<1>1. ASSUME NEW queue \in Seq(Events)
      PROVE  /\ moved(queue) \in Seq(Events)
             /\ InOrder(queue) => InOrder(moved(queue))
  <2>1. \A i \in 1 .. Len(queue) : queue[i] \in Events
    OBVIOUS
  <2>2. \A e \in Events : /\ [e EXCEPT !.time = @ - ticks] \in Events
                          /\ [e EXCEPT !.time = @ - ticks].time = e.time - ticks
                          /\ e.time \in Int
    BY DEF Events
  <2>3. PICK q : q = moved(queue)
    OBVIOUS
  <2>4. /\ q \in Seq(Events) /\ Len(q) = Len(queue)
        /\ \A i \in 1 .. Len(queue) : q[i].time = queue[i].time - ticks /\ queue[i].time \in Int
    BY <2>1, <2>2, <2>3
  <2>5. InOrder(queue) => InOrder(q)
    BY <2>4 DEF InOrder
  <2>. QED
    BY <2>3, <2>4, <2>5
<1>2. PICK x, eq, ts, v : /\ x = timer.executed_ticks - ticks
                          /\ eq = moved(timer.event_queue) /\ ts = moved(timer.ts_queue)
                          /\ v = Earlier(timer, ticks)
  OBVIOUS
<1>3. v = [timer EXCEPT !.executed_ticks = x, !.event_queue = eq, !.ts_queue = ts]
  BY <1>2 DEF Earlier
<1>4. timer \in Timers /\ x \in Int /\ eq \in Seq(Events) /\ ts \in Seq(Events) /\ InOrder(eq)
  <2>. HIDE DEF moved
  <2>. QED
    BY <1>1, <1>2, TimerFields DEF GoodTimer
<1>5. /\ v \in Timers /\ v.event_queue = eq /\ v.executed_ticks = x
      /\ v.slice_length = timer.slice_length /\ v.downcount = timer.downcount
      /\ v.is_timer_sane = timer.is_timer_sane
  BY <1>3, <1>4 DEF Timers
<1>6. GoodTimer(v)
  BY <1>4, <1>5 DEF GoodTimer
<1>7. GetTicks(v) = GetTicks(timer) - ticks
  BY <1>2, <1>5, TimerFields DEF GetTicks
<1>. QED
  BY <1>2, <1>6, <1>7

-----------------------------------------------------------------------------
(* The local variables of the loop. *)

LEMMA CoresFacts ==
  /\ NumCores \in Nat \ {0} /\ 0 \in Cores /\ NumCores - 1 \in Nat /\ NumCores - 1 \in Cores
  /\ Cores \subseteq Nat /\ Cores \subseteq Int
  /\ \A c \in Cores : c < NumCores - 1 => c + 1 \in Cores
  /\ min_delay \in Nat /\ MAX_SLICE_LENGTH \in Nat
BY LoopAssumption, SliceAssumption DEF Cores

(* The types of the local variables. *)
LEMMA LoopFields ==
  ASSUME NEW l \in Loops
  PROVE  /\ l.phase \in Phases /\ l.core \in Cores /\ l.firing \in BOOLEAN
         /\ l.delay \in Int /\ l.max_delay \in Nat /\ l.to_execute \in Cores
         /\ l.max_slice \in Int /\ l.start_ticks \in Int /\ l.fault \in BOOLEAN
BY DEF Loops

(* The loop at the start of a phase. *)
LEMMA PlainLoop ==
  ASSUME NEW p \in Phases, NEW c \in Cores
  PROVE  /\ Loop(p, c) \in Loops /\ Loop(p, c).phase = p /\ Loop(p, c).core = c
         /\ ~ Loop(p, c).firing /\ Loop(p, c).max_delay = 0
         /\ Loop(p, c).max_slice = MAX_SLICE_LENGTH
<1>1. PICK no, zero : no = FALSE /\ zero = 0
  OBVIOUS
<1>2. PICK l : l = Loop(p, c)
  OBVIOUS
<1>3. l = [ phase |-> p, core |-> c, firing |-> no, ran |-> no, halted |-> no, delay |-> zero,
            max_delay |-> zero, to_execute |-> zero, max_slice |-> MAX_SLICE_LENGTH,
            start_ticks |-> zero, fault |-> no ]
  BY <1>1, <1>2, Zenon DEF Loop
<1>4. zero \in Int /\ zero \in Nat /\ zero \in Cores /\ MAX_SLICE_LENGTH \in Int
  BY <1>1, CoresFacts
<1>5. no \in BOOLEAN
  BY <1>1
<1>6. l \in Loops
  BY <1>3, <1>4, <1>5 DEF Loops
<1>. QED
  BY <1>1, <1>2, <1>3, <1>6

LEMMA NewLoop ==
  ASSUME NEW p \in Phases, NEW c \in Cores, NEW f \in BOOLEAN
  PROVE  /\ [Loop(p, c) EXCEPT !.fault = f] \in Loops
         /\ [Loop(p, c) EXCEPT !.fault = f].phase = p
         /\ [Loop(p, c) EXCEPT !.fault = f].core = c
         /\ ~ [Loop(p, c) EXCEPT !.fault = f].firing
         /\ [Loop(p, c) EXCEPT !.fault = f].max_delay = 0
         /\ [Loop(p, c) EXCEPT !.fault = f].max_slice = MAX_SLICE_LENGTH
BY PlainLoop DEF Loops

(* The first loop goes on with the next core, or with the core that lags most, or with Advance. *)
LEMMA AfterSyncCases ==
  ASSUME NEW l \in Loops, l.phase = "sync", ~ l.firing
  PROVE  /\ AfterSync(l) \in Loops /\ ~ AfterSync(l).firing
         /\ AfterSync(l).max_slice = l.max_slice
         /\ \/ /\ AfterSync(l).phase = "sync" /\ AfterSync(l).core = l.core + 1
               /\ AfterSync(l).max_delay = l.max_delay /\ AfterSync(l).to_execute = l.to_execute
            \/ /\ AfterSync(l).phase = "catch_up" /\ AfterSync(l).core = l.to_execute
               /\ AfterSync(l).max_delay = l.max_delay /\ l.max_delay > min_delay
            \/ AfterSync(l).phase = "advance" /\ AfterSync(l).core = 0
<1>1. PICK r : r = AfterSync(l)
  OBVIOUS
<1>2. CASE l.core < NumCores - 1
  <2>1. PICK n : n = l.core + 1
    OBVIOUS
  <2>2. n \in Cores
    BY <1>2, <2>1, CoresFacts, LoopFields
  <2>3. r = [l EXCEPT !.core = n]
    BY <1>1, <1>2, <2>1 DEF AfterSync
  <2>4. r \in Loops /\ ~ r.firing /\ r.max_slice = l.max_slice /\ r.phase = "sync" /\ r.core = n
        /\ r.max_delay = l.max_delay /\ r.to_execute = l.to_execute
    BY <2>2, <2>3 DEF Loops
  <2>. QED
    BY <1>1, <2>1, <2>4
<1>3. CASE ~ (l.core < NumCores - 1) /\ l.max_delay > min_delay
  <2>1. PICK p, n : p = "catch_up" /\ n = l.to_execute
    OBVIOUS
  <2>2. p \in Phases /\ n \in Cores
    BY <2>1, LoopFields DEF Phases
  <2>3. r = [l EXCEPT !.phase = p, !.core = n]
    BY <1>1, <1>3, <2>1 DEF AfterSync
  <2>4. r \in Loops /\ ~ r.firing /\ r.max_slice = l.max_slice /\ r.phase = p /\ r.core = n
        /\ r.max_delay = l.max_delay
    BY <2>2, <2>3 DEF Loops
  <2>. QED
    BY <1>1, <1>3, <2>1, <2>4
<1>4. CASE ~ (l.core < NumCores - 1) /\ ~ (l.max_delay > min_delay)
  <2>1. PICK p, zero : p = "advance" /\ zero = 0
    OBVIOUS
  <2>2. p \in Phases /\ zero \in Cores /\ zero \in Nat
    BY <2>1, CoresFacts DEF Phases
  <2>3. r = [l EXCEPT !.phase = p, !.core = zero, !.max_delay = zero, !.to_execute = zero]
    BY <1>1, <1>4, <2>1 DEF AfterSync
  <2>4. r \in Loops /\ ~ r.firing /\ r.max_slice = l.max_slice /\ r.phase = p /\ r.core = zero
    BY <2>2, <2>3 DEF Loops
  <2>. QED
    BY <1>1, <2>1, <2>4
<1>. QED
  BY <1>2, <1>3, <1>4

(* After a core has run, the iteration ends or the next core starts. *)
LEMMA AfterRunCases ==
  ASSUME NEW l \in Loops, NEW timer, GoodTimer(timer)
  PROVE  /\ AfterRun(l, timer) \in Loops /\ ~ AfterRun(l, timer).firing
         /\ \/ AfterRun(l, timer).phase = "end"
            \/ /\ l.max_delay <= min_delay
               /\ AfterRun(l, timer).phase = "start" /\ AfterRun(l, timer).core = l.core + 1
               /\ AfterRun(l, timer).max_slice = GetTicks(timer) - l.start_ticks
<1>1. PICK r : r = AfterRun(l, timer)
  OBVIOUS
<1>2. "end" \in Phases /\ "start" \in Phases /\ 0 \in Cores
  BY CoresFacts DEF Phases
<1>3. CASE l.max_delay > min_delay \/ l.core = NumCores - 1
  <2>1. r = [Loop("end", 0) EXCEPT !.fault = l.fault]
    BY <1>1, <1>3 DEF AfterRun
  <2>. QED
    BY <1>1, <1>2, <2>1, LoopFields, NewLoop
<1>4. CASE ~ (l.max_delay > min_delay \/ l.core = NumCores - 1)
  <2>1. PICK n, m, s : /\ n = l.core + 1 /\ m = GetTicks(timer) - l.start_ticks
                       /\ s = [Loop("start", n) EXCEPT !.fault = l.fault]
    OBVIOUS
  <2>2. n \in Cores /\ m \in Int /\ l.max_delay <= min_delay
    BY <1>4, <2>1, CoresFacts, LoopFields, TimerFields DEF Cores
  <2>3. s \in Loops /\ s.phase = "start" /\ s.core = n /\ ~ s.firing
    BY <1>2, <2>1, <2>2, LoopFields, NewLoop
  <2>4. r = [s EXCEPT !.max_slice = m]
    BY <1>1, <1>4, <2>1 DEF AfterRun
  <2>5. r \in Loops /\ r.phase = "start" /\ r.core = n /\ ~ r.firing /\ r.max_slice = m
    BY <2>2, <2>3, <2>4 DEF Loops
  <2>. QED
    BY <1>1, <2>1, <2>2, <2>5
<1>. QED
  BY <1>3, <1>4

-----------------------------------------------------------------------------
(* The steps. *)

(* What a step does that changes one timer. *)
LEMMA OneTimer ==
  ASSUME LoopInv, loop.phase # "end", NEW c \in Cores, NEW v, GoodTimer(v),
         GetTicks(v) >= GetTicks(timers[c]),
         timers' = [timers EXCEPT ![c] = v]
  PROVE  /\ timers' \in [Cores -> Timers] /\ \A d \in Cores : GoodTimer(timers'[d])
         /\ timers'[c] = v /\ \A d \in Cores : d # c => timers'[d] = timers[d]
         /\ TicksGoOn
<1>1. v \in Timers
  BY DEF GoodTimer
<1>2. \A d \in Cores : GoodTimer(timers[d]) /\ GetTicks(timers[d]) \in Int
  BY TimerFields DEF LoopInv
<1>3. /\ timers' \in [Cores -> Timers] /\ timers'[c] = v
      /\ \A d \in Cores : d # c => timers'[d] = timers[d]
  BY <1>1 DEF LoopInv
<1>4. GetTicks(v) \in Int
  BY TimerFields
<1>5. (IF Iterate THEN Shift ELSE 0) = 0
  BY DEF Shift
<1>6. TicksGoOn
  BY <1>2, <1>3, <1>4, <1>5 DEF TicksGoOn
<1>. QED
  BY <1>2, <1>3, <1>6

(* A step that changes no timer. *)
LEMMA NoTimer ==
  ASSUME LoopInv, loop.phase # "end", timers' = timers
  PROVE  /\ timers' \in [Cores -> Timers] /\ \A d \in Cores : GoodTimer(timers'[d])
         /\ TicksGoOn
<1>1. \A d \in Cores : GoodTimer(timers[d]) /\ GetTicks(timers[d]) \in Int
  BY TimerFields DEF LoopInv
<1>2. (IF Iterate THEN Shift ELSE 0) = 0
  BY DEF Shift
<1>. QED
  BY <1>1, <1>2 DEF LoopInv, TicksGoOn

(* The locals' part of the invariant in a phase of which it says nothing. *)
LEMMA QuietPhase ==
  ASSUME loop.phase \in {"end", "single"} PROVE SyncInv /\ SliceInv
BY DEF SyncInv, SliceInv

LEMMA InitInv ==
  Init => LoopInv
<1>. SUFFICES ASSUME Init PROVE LoopInv
  OBVIOUS
<1>1. LoopStart \in Phases /\ LoopStart \in {"sync", "single"}
  BY DEF LoopStart, Phases
<1>2. /\ loop \in Loops /\ loop.phase = LoopStart /\ loop.core = 0 /\ ~ loop.firing
      /\ loop.max_delay = 0 /\ loop.max_slice = MAX_SLICE_LENGTH
  BY <1>1, CoresFacts, PlainLoop DEF Init
<1>3. GoodTimer(NewTimer(0))
  <2>1. PICK zero, yes, v : zero = 0 /\ yes = TRUE /\ v = NewTimer(0)
    OBVIOUS
  <2>2. v = [ event_queue |-> << >>, ts_queue |-> << >>, is_timer_sane |-> yes,
              slice_length |-> MAX_SLICE_LENGTH, downcount |-> MAX_SLICE_LENGTH,
              executed_ticks |-> zero ]
    BY <2>1, Zenon DEF NewTimer
  <2>3. zero \in Int /\ MAX_SLICE_LENGTH \in Int /\ << >> \in Seq(Events)
    BY <2>1, CoresFacts
  <2>4. yes \in BOOLEAN
    BY <2>1
  <2>5. v \in Timers
    BY <2>2, <2>3, <2>4 DEF Timers
  <2>6. InOrder(v.event_queue) /\ v.downcount <= v.slice_length
    BY <2>2, <2>3 DEF InOrder
  <2>. QED
    BY <2>1, <2>5, <2>6 DEF GoodTimer
<1>4. GoodTimer(ScheduleEvent(NewTimer(0), Period, Periodic))
  BY <1>3, LoopAssumption, ScheduleGood DEF Periodic
<1>5. timers \in [Cores -> Timers] /\ \A c \in Cores : GoodTimer(timers[c])
  BY <1>3, <1>4 DEF Init, GoodTimer
<1>6. current_cpu \in Cores /\ downcount_hack \in [Cores -> Nat] /\ blocks \subseteq Nat
  BY CoresFacts, LoopAssumption DEF Init
<1>7. SyncInv /\ SliceInv
  BY <1>1, <1>2, CoresFacts DEF SyncInv, SliceInv
<1>. QED
  BY <1>2, <1>5, <1>6, <1>7 DEF LoopInv

(* A new iteration: the times are counted from a later moment. *)
LEMMA IterateStep ==
  ASSUME LoopInv, Iterate, UNCHANGED <<downcount_hack, blocks>>
  PROVE  LoopInv' /\ TicksGoOn
<1>1. Shift \in Int
  <2>. DEFINE n == NumCores - 1
              f == [c \in Cores |-> timers[c].executed_ticks]
              T == {timers[c].executed_ticks : c \in Cores}
  <2>1. n \in Nat /\ Cores = 0 .. n
    BY CoresFacts DEF Cores
  <2>2. \A c \in Cores : timers[c].executed_ticks \in Int
    BY TimerFields DEF LoopInv
  <2>3. PICK a \in 0 .. n : \A i \in 0 .. n : f[a] <= f[i]
    <3>1. \A i \in 0 .. n : f[i] \in Int
      BY <2>1, <2>2
    <3>. HIDE DEF f, n
    <3>. QED
      BY <2>1, <3>1, HaveExtremes
  <2>4. f[a] \in T /\ \A y \in T : f[a] <= y
    BY <2>1, <2>3
  <2>5. Min(T) \in T
    <3>. HIDE DEF T
    <3>. QED
      BY <2>4 DEF Min
  <2>. QED
    BY <2>2, <2>5 DEF Shift, Iterate
<1>2. \A c \in Cores : /\ GoodTimer(timers'[c])
                       /\ GetTicks(timers'[c]) = GetTicks(timers[c]) - Shift
                       /\ GetTicks(timers[c]) \in Int
  <2>. SUFFICES ASSUME NEW c \in Cores
                PROVE  /\ GoodTimer(timers'[c])
                       /\ GetTicks(timers'[c]) = GetTicks(timers[c]) - Shift
                       /\ GetTicks(timers[c]) \in Int
    OBVIOUS
  <2>1. GoodTimer(timers[c])
    BY DEF LoopInv
  <2>2. PICK shift : shift = Shift
    OBVIOUS
  <2>3. timers'[c] = Earlier(timers[c], shift)
    BY <2>2 DEF Iterate
  <2>. QED
    BY <1>1, <2>1, <2>2, <2>3, EarlierGood, TimerFields
<1>3. timers' \in [Cores -> Timers]
  BY <1>2 DEF Iterate, GoodTimer
<1>4. TicksGoOn
  <2>1. (IF Iterate THEN Shift ELSE 0) = Shift
    OBVIOUS
  <2>. QED
    BY <1>1, <1>2, <2>1 DEF TicksGoOn
<1>5. /\ loop' \in Loops /\ loop'.phase \in {"sync", "single"} /\ loop'.core = 0 /\ ~ loop'.firing
      /\ loop'.max_delay = 0 /\ loop'.max_slice = MAX_SLICE_LENGTH
  <2>1. LoopStart \in Phases /\ LoopStart \in {"sync", "single"} /\ loop.fault \in BOOLEAN
    BY LoopFields DEF LoopStart, Phases, LoopInv
  <2>. QED
    BY <2>1, CoresFacts, NewLoop DEF Iterate
<1>6. SyncInv' /\ SliceInv'
  BY <1>5, CoresFacts DEF SyncInv, SliceInv
<1>. QED
  BY <1>2, <1>3, <1>4, <1>5, <1>6 DEF LoopInv, Iterate

(* A callback: the timer stays inside Advance. *)
LEMMA FireStep ==
  ASSUME LoopInv, Fire, UNCHANGED <<downcount_hack, blocks>>
  PROVE  LoopInv' /\ TicksGoOn
<1>1. /\ loop.core \in Cores /\ loop.phase \in {"sync", "advance"}
      /\ GoodTimer(timers[loop.core]) /\ Advancing(timers[loop.core])
      /\ EventIsDue(timers[loop.core])
  BY LoopFields DEF LoopInv, Fire
<1>. DEFINE event  == timers[loop.core].event_queue[1]
            popped == PopEvent(timers[loop.core])
            late   == popped.executed_ticks - event.time
<1>2. /\ GoodTimer(popped) /\ GetTicks(popped) = GetTicks(timers[loop.core]) /\ Advancing(popped)
  BY <1>1, PopEventGood, SameClockTicks
<1>3. PICK v : v = IF event.user_data = Periodic THEN ScheduleEvent(popped, Period - late, Periodic)
                   ELSE popped
  OBVIOUS
<1>4. GoodTimer(v) /\ GetTicks(v) = GetTicks(timers[loop.core]) /\ Advancing(v)
  <2>1. Period - late \in Int /\ Periodic \in Int
    <3>1. event \in Events
      BY <1>1, TimerFields DEF EventIsDue
    <3>2. event.time \in Int
      BY <3>1 DEF Events
    <3>3. popped.executed_ticks \in Int
      BY <1>2, TimerFields
    <3>. QED
      BY <3>2, <3>3, LoopAssumption DEF Periodic
  <2>. HIDE DEF popped, late, event
  <2>2. CASE event.user_data = Periodic
    BY <1>2, <1>3, <2>1, <2>2, ScheduleGood
  <2>3. CASE event.user_data # Periodic
    BY <1>2, <1>3, <2>3
  <2>. QED
    BY <2>2, <2>3
<1>5. timers' = [timers EXCEPT ![loop.core] = v]
  BY <1>3 DEF Fire
<1>6. /\ timers' \in [Cores -> Timers] /\ \A d \in Cores : GoodTimer(timers'[d])
      /\ timers'[loop.core] = v /\ \A d \in Cores : d # loop.core => timers'[d] = timers[d]
      /\ TicksGoOn
  <2>1. GetTicks(v) >= GetTicks(timers[loop.core])
    BY <1>1, <1>4, TimerFields
  <2>. QED
    BY <1>1, <1>4, <1>5, <2>1, OneTimer
<1>7. loop' = loop /\ current_cpu' = current_cpu
  BY DEF Fire
<1>8. SyncInv'
  <2>1. loop.phase = "sync" /\ loop.max_delay > 0
          => timers'[loop.to_execute] = timers[loop.to_execute]
    <3>1. loop.phase = "sync" /\ loop.max_delay > 0 => loop.to_execute < loop.core
      BY DEF LoopInv, SyncInv
    <3>2. loop.to_execute \in Cores /\ loop.to_execute \in Nat /\ loop.core \in Nat
      BY CoresFacts, LoopFields DEF LoopInv
    <3>. QED
      BY <1>6, <3>1, <3>2
  <2>. QED
    BY <1>1, <1>7, <2>1 DEF LoopInv, SyncInv
<1>9. SliceInv'
  <2>1. \A d \in Cores : d < loop.core => timers'[d] = timers[d]
    BY <1>1, <1>6, CoresFacts
  <2>. QED
    BY <1>1, <1>7, <2>1 DEF LoopInv, SliceInv
<1>. QED
  BY <1>1, <1>4, <1>6, <1>7, <1>8, <1>9 DEF LoopInv

(* Max and Min of two numbers. *)
LEMMA MaxOfTwo ==
  ASSUME NEW a \in Int, NEW b \in Int
  PROVE  Max({a, b}) = IF a >= b THEN a ELSE b
BY DEF Max

LEMMA MinOfTwo ==
  ASSUME NEW a \in Int, NEW b \in Int
  PROVE  Min({a, b}) = IF a <= b THEN a ELSE b
BY DEF Min

(* A core that does not lag is passed over. *)
LEMMA SyncSkipStep ==
  ASSUME LoopInv, SyncSkip, UNCHANGED <<downcount_hack, blocks>>
  PROVE  LoopInv' /\ TicksGoOn
<1>1. loop \in Loops /\ loop.phase = "sync" /\ ~ loop.firing /\ loop' = AfterSync(loop)
  BY DEF LoopInv, SyncSkip
<1>2. timers' = timers /\ current_cpu' = current_cpu
  BY DEF SyncSkip
<1>3. timers' \in [Cores -> Timers] /\ (\A d \in Cores : GoodTimer(timers'[d])) /\ TicksGoOn
  BY <1>1, <1>2, NoTimer
<1>4. /\ loop' \in Loops /\ ~ loop'.firing /\ loop'.max_slice = loop.max_slice
      /\ \/ /\ loop'.phase = "sync" /\ loop'.core = loop.core + 1
            /\ loop'.max_delay = loop.max_delay /\ loop'.to_execute = loop.to_execute
         \/ /\ loop'.phase = "catch_up" /\ loop'.core = loop.to_execute
            /\ loop'.max_delay = loop.max_delay /\ loop.max_delay > min_delay
         \/ loop'.phase = "advance" /\ loop'.core = 0
  BY <1>1, AfterSyncCases
<1>5. /\ loop.max_delay > 0 => loop.to_execute < loop.core /\ timers[loop.to_execute].downcount >= 0
      /\ loop.max_slice >= 0 /\ loop.max_delay \in Nat
      /\ loop.core \in Nat /\ loop.to_execute \in Nat
  BY <1>1, CoresFacts, LoopFields DEF LoopInv, SyncInv, SliceInv
<1>6. SyncInv'
  BY <1>2, <1>4, <1>5, CoresFacts DEF SyncInv
<1>7. SliceInv'
  BY <1>4, <1>5, CoresFacts DEF SliceInv
<1>. QED
  BY <1>2, <1>3, <1>4, <1>6, <1>7 DEF LoopInv

(* A core that lags begins Advance. *)
LEMMA SyncBeginStep ==
  ASSUME LoopInv, SyncBegin, UNCHANGED <<downcount_hack, blocks>>
  PROVE  LoopInv' /\ TicksGoOn
<1>. DEFINE delay == Max({GetTicks(timers[c]) : c \in Cores}) - GetTicks(timers[loop.core])
<1>1. /\ loop \in Loops /\ loop.core \in Cores /\ loop.phase = "sync" /\ ~ loop.firing
      /\ GoodTimer(timers[loop.core])
  BY LoopFields DEF LoopInv, SyncBegin
<1>2. delay \in Int /\ delay > 0
  <2>. DEFINE n == NumCores - 1
              f == [c \in Cores |-> GetTicks(timers[c])]
              T == {GetTicks(timers[c]) : c \in Cores}
  <2>1. n \in Nat /\ Cores = 0 .. n
    BY CoresFacts DEF Cores
  <2>2. \A c \in Cores : GetTicks(timers[c]) \in Int
    BY TimerFields DEF LoopInv
  <2>3. PICK b \in 0 .. n : \A i \in 0 .. n : f[b] >= f[i]
    <3>1. \A i \in 0 .. n : f[i] \in Int
      BY <2>1, <2>2
    <3>. HIDE DEF f, n
    <3>. QED
      BY <2>1, <3>1, HaveExtremes
  <2>4. f[b] \in T /\ \A y \in T : f[b] >= y
    BY <2>1, <2>3
  <2>5. Max(T) \in T
    <3>. HIDE DEF T
    <3>. QED
      BY <2>4 DEF Max
  <2>6. Max(T) \in Int
    BY <2>2, <2>5
  <2>. QED
    BY <1>1, <2>2, <2>6 DEF SyncBegin
<1>3. PICK v : v = BeginAdvance(timers[loop.core])
  OBVIOUS
<1>4. GoodTimer(v) /\ Advancing(v) /\ GetTicks(v) >= GetTicks(timers[loop.core])
  BY <1>1, <1>3, BeginAdvanceGood
<1>5. timers' = [timers EXCEPT ![loop.core] = v] /\ current_cpu' = loop.core
  BY <1>3 DEF SyncBegin
<1>6. /\ timers' \in [Cores -> Timers] /\ \A d \in Cores : GoodTimer(timers'[d])
      /\ timers'[loop.core] = v /\ \A d \in Cores : d # loop.core => timers'[d] = timers[d]
      /\ TicksGoOn
  BY <1>1, <1>4, <1>5, OneTimer
<1>7. /\ loop' \in Loops /\ loop'.firing /\ loop'.phase = "sync" /\ loop'.delay > 0
      /\ loop'.core = loop.core /\ loop'.max_delay = loop.max_delay
      /\ loop'.to_execute = loop.to_execute /\ loop'.max_slice = loop.max_slice
  <2>1. PICK yes, d : yes = TRUE /\ d = delay
    OBVIOUS
  <2>2. loop' = [loop EXCEPT !.firing = yes, !.delay = d]
    BY <2>1 DEF SyncBegin
  <2>3. yes \in BOOLEAN
    BY <2>1
  <2>4. d \in Int /\ d > 0
    BY <1>2, <2>1
  <2>. HIDE DEF delay
  <2>5. loop' \in Loops
    BY <1>1, <2>2, <2>3, <2>4 DEF Loops
  <2>. QED
    BY <1>1, <2>1, <2>2, <2>4, <2>5 DEF Loops
<1>. HIDE DEF delay
<1>8. SyncInv'
  <2>1. loop.max_delay > 0 => loop.to_execute < loop.core /\ timers[loop.to_execute].downcount >= 0
    BY <1>1 DEF LoopInv, SyncInv
  <2>2. loop.to_execute \in Cores /\ loop.to_execute \in Nat /\ loop.core \in Nat
    BY <1>1, CoresFacts, LoopFields
  <2>3. loop.max_delay > 0 => timers'[loop.to_execute] = timers[loop.to_execute]
    BY <1>6, <2>1, <2>2
  <2>. QED
    BY <1>7, <2>1, <2>3 DEF SyncInv
<1>9. SliceInv'
  BY <1>1, <1>7 DEF LoopInv, SliceInv
<1>. QED
  BY <1>1, <1>4, <1>5, <1>6, <1>7, <1>8, <1>9 DEF LoopInv

(* It ends Advance and gets a slice as long as its delay. *)
LEMMA SyncEndStep ==
  ASSUME LoopInv, SyncEnd, UNCHANGED <<downcount_hack, blocks>>
  PROVE  LoopInv' /\ TicksGoOn
<1>1. /\ loop \in Loops /\ loop.core \in Cores /\ loop.phase = "sync" /\ loop.firing
      /\ loop.delay \in Int /\ loop.delay > 0
      /\ GoodTimer(timers[loop.core]) /\ Advancing(timers[loop.core])
      /\ ~ EventIsDue(timers[loop.core])
  BY LoopFields DEF LoopInv, SyncInv, SyncEnd, AllFired
<1>2. PICK hack, u, v : /\ hack = downcount_hack[loop.core] /\ u = EndAdvance(timers[loop.core])
                        /\ v = SetNextSlice(u, loop.delay, hack)
  OBVIOUS
<1>3. GoodTimer(u) /\ Fresh(u) /\ GetTicks(u) = GetTicks(timers[loop.core])
  BY <1>1, <1>2, EndAdvanceFresh
<1>4. GoodTimer(v) /\ v.downcount >= 0 /\ GetTicks(v) >= GetTicks(timers[loop.core])
  <2>1. hack \in Nat /\ loop.delay \in Nat
    BY <1>1, <1>2 DEF LoopInv
  <2>. QED
    BY <1>2, <1>3, <2>1, SetNextSliceGood
<1>5. timers' = [timers EXCEPT ![loop.core] = v] /\ current_cpu' = current_cpu
  BY <1>2 DEF SyncEnd
<1>6. /\ timers' \in [Cores -> Timers] /\ \A d \in Cores : GoodTimer(timers'[d])
      /\ timers'[loop.core] = v /\ \A d \in Cores : d # loop.core => timers'[d] = timers[d]
      /\ TicksGoOn
  BY <1>1, <1>4, <1>5, OneTimer
<1>7. PICK no, zero, m, x : /\ no = FALSE /\ zero = 0 /\ m = Max({loop.max_delay, loop.delay})
                            /\ x = IF loop.max_delay < loop.delay THEN loop.core ELSE loop.to_execute
  OBVIOUS
<1>8. /\ zero \in Int /\ m \in Nat /\ x \in Cores /\ m > 0
      /\ x \in Nat /\ loop.core \in Nat /\ x <= loop.core
      /\ timers'[x].downcount >= 0
  <2>1. loop.max_delay \in Nat /\ loop.to_execute \in Cores
    BY <1>1, LoopFields
  <2>2. m = IF loop.max_delay >= loop.delay THEN loop.max_delay ELSE loop.delay
    BY <1>1, <1>7, <2>1, MaxOfTwo
  <2>3. CASE loop.max_delay < loop.delay
    <3>1. m = loop.delay /\ x = loop.core
      BY <1>1, <1>7, <2>1, <2>2, <2>3
    <3>2. timers'[x].downcount >= 0
      BY <1>4, <1>6, <3>1
    <3>3. loop.core \in Nat
      BY <1>1, CoresFacts
    <3>. QED
      BY <1>1, <1>7, <3>1, <3>2, <3>3
  <2>4. CASE loop.max_delay >= loop.delay
    <3>1. m = loop.max_delay /\ x = loop.to_execute /\ loop.max_delay > 0
      BY <1>1, <1>7, <2>1, <2>2, <2>4
    <3>2. x < loop.core /\ timers[x].downcount >= 0
      BY <1>1, <3>1 DEF LoopInv, SyncInv
    <3>3. x \in Nat /\ loop.core \in Nat
      BY <1>1, <2>1, <3>1, CoresFacts
    <3>4. timers'[x] = timers[x]
      BY <1>6, <2>1, <3>1, <3>2, <3>3
    <3>. QED
      BY <1>7, <2>1, <3>1, <3>2, <3>3, <3>4
  <2>. QED
    BY <1>1, <2>1, <2>3, <2>4
<1>9. PICK l : l = [loop EXCEPT !.firing = no, !.delay = zero, !.max_delay = m, !.to_execute = x]
  OBVIOUS
<1>10. loop' = AfterSync(l)
  BY <1>7, <1>9, Zenon DEF SyncEnd
<1>11. /\ l \in Loops /\ l.phase = "sync" /\ ~ l.firing /\ l.max_slice = loop.max_slice
       /\ l.core = loop.core /\ l.max_delay = m /\ l.to_execute = x
  <2>1. no \in BOOLEAN
    BY <1>7
  <2>2. l \in Loops
    BY <1>1, <1>8, <1>9, <2>1 DEF Loops
  <2>3. ~ l.firing
    BY <1>1, <1>7, <1>9 DEF Loops
  <2>. QED
    BY <1>1, <1>9, <2>2, <2>3 DEF Loops
<1>12. /\ loop' \in Loops /\ ~ loop'.firing /\ loop'.max_slice = loop.max_slice
       /\ \/ /\ loop'.phase = "sync" /\ loop'.core = loop.core + 1
             /\ loop'.max_delay = m /\ loop'.to_execute = x
          \/ /\ loop'.phase = "catch_up" /\ loop'.core = x
             /\ loop'.max_delay = m /\ m > min_delay
          \/ loop'.phase = "advance" /\ loop'.core = 0
  BY <1>10, <1>11, AfterSyncCases
<1>13. SyncInv'
  BY <1>8, <1>12, CoresFacts DEF SyncInv
<1>14. SliceInv'
  <2>1. loop.max_slice >= 0
    BY <1>1 DEF LoopInv, SliceInv
  <2>. QED
    BY <1>12, <2>1, CoresFacts DEF SliceInv
<1>. QED
  BY <1>5, <1>6, <1>12, <1>13, <1>14 DEF LoopInv

(* A core runs, or idles and lets its slice pass. *)
LEMMA RunOrIdleStep ==
  ASSUME LoopInv, loop.phase # "end", UNCHANGED <<downcount_hack, blocks>>,
         NEW c \in Cores, NEW timer, GoodTimer(timer), timer.downcount >= 0,
         GetTicks(timer) >= GetTicks(timers[c]),
         NEW cpu \in Cores, NEW l \in Loops, ~ l.firing, l.core = c,
         l.max_delay <= min_delay
           => /\ cpu = c /\ l.start_ticks = GetTicks(timer)
              /\ \A d \in Cores : d > c => Fresh(timers[d]),
         RunOrIdle(c, timer, cpu, l, AfterRun(l, Idle(timer)))
  PROVE  LoopInv' /\ TicksGoOn
<1>1. GetTicks(timer) \in Int /\ GetTicks(timers[c]) \in Int /\ c \in Nat /\ l.max_delay \in Nat
  BY CoresFacts, LoopFields, TimerFields DEF LoopInv
<1>2. current_cpu' = cpu
  BY DEF RunOrIdle
<1>3. CASE current[cpu]
  <2>1. timers' = [timers EXCEPT ![c] = timer]
    BY <1>3 DEF RunOrIdle
  <2>2. /\ timers' \in [Cores -> Timers] /\ \A d \in Cores : GoodTimer(timers'[d])
        /\ timers'[c] = timer /\ \A d \in Cores : d # c => timers'[d] = timers[d]
        /\ TicksGoOn
    BY <2>1, OneTimer
  <2>3. /\ loop' \in Loops /\ loop'.phase = "run" /\ loop'.core = c /\ ~ loop'.firing
        /\ loop'.max_delay = l.max_delay /\ loop'.start_ticks = l.start_ticks
    <3>1. PICK run, no : run = "run" /\ no = FALSE
      OBVIOUS
    <3>2. loop' = [l EXCEPT !.phase = run, !.core = c, !.ran = no, !.halted = no]
      BY <1>3, <3>1, Zenon DEF RunOrIdle
    <3>3. run \in Phases
      BY <3>1 DEF Phases
    <3>4. no \in BOOLEAN
      BY <3>1
    <3>5. loop' \in Loops
      BY <3>2, <3>3, <3>4 DEF Loops
    <3>. QED
      BY <3>1, <3>2, <3>5 DEF Loops
  <2>4. SyncInv'
    BY <2>3 DEF SyncInv
  <2>5. SliceInv'
    <3>1. \A d \in Cores : d > c => timers'[d] = timers[d]
      BY <1>1, <2>2, CoresFacts
    <3>2. l.start_ticks = GetTicks(timer) => l.start_ticks <= GetTicks(timers'[c])
      BY <1>1, <2>2
    <3>. QED
      BY <1>2, <2>2, <2>3, <3>1, <3>2 DEF SliceInv
  <2>. QED
    BY <1>2, <2>2, <2>3, <2>4, <2>5 DEF LoopInv
<1>4. CASE ~ current[cpu]
  <2>1. PICK v : v = Idle(timer)
    OBVIOUS
  <2>2. GoodTimer(v) /\ GetTicks(v) >= GetTicks(timer) /\ GetTicks(v) \in Int
    BY <2>1, IdleGood, TimerFields
  <2>3. timers' = [timers EXCEPT ![c] = v]
    BY <1>4, <2>1 DEF RunOrIdle
  <2>4. /\ timers' \in [Cores -> Timers] /\ \A d \in Cores : GoodTimer(timers'[d])
        /\ timers'[c] = v /\ \A d \in Cores : d # c => timers'[d] = timers[d]
        /\ TicksGoOn
    <3>1. GetTicks(v) >= GetTicks(timers[c])
      BY <1>1, <2>2
    <3>. QED
      BY <2>2, <2>3, <3>1, OneTimer
  <2>5. loop' = AfterRun(l, v)
    BY <1>4, <2>1 DEF RunOrIdle
  <2>6. /\ loop' \in Loops /\ ~ loop'.firing
        /\ \/ loop'.phase = "end"
           \/ /\ l.max_delay <= min_delay /\ loop'.phase = "start" /\ loop'.core = c + 1
              /\ loop'.max_slice = GetTicks(v) - l.start_ticks
    BY <2>2, <2>5, AfterRunCases
  <2>7. SyncInv'
    BY <2>6 DEF SyncInv
  <2>8. SliceInv'
    <3>1. CASE loop'.phase = "end"
      BY <3>1 DEF SliceInv
    <3>2. CASE l.max_delay <= min_delay /\ loop'.phase = "start"
      <4>1. loop'.core = c + 1 /\ loop'.max_slice = GetTicks(v) - GetTicks(timer)
        BY <2>6, <3>2
      <4>2. loop'.max_slice >= 0
        BY <1>1, <2>2, <4>1
      <4>3. \A d \in Cores : d >= c + 1 => d > c /\ d # c
        BY <1>1, CoresFacts
      <4>4. \A d \in Cores : d >= c + 1 => Fresh(timers'[d])
        BY <2>4, <3>2, <4>3
      <4>. QED
        BY <3>2, <4>1, <4>2, <4>4 DEF SliceInv
    <3>. QED
      BY <2>6, <3>1, <3>2
  <2>. QED
    BY <1>2, <2>4, <2>6, <2>7, <2>8 DEF LoopInv
<1>. QED
  BY <1>3, <1>4

(* The core that lags most runs alone. *)
LEMMA CatchUpStep ==
  ASSUME LoopInv, CatchUp, UNCHANGED <<downcount_hack, blocks>>
  PROVE  LoopInv' /\ TicksGoOn
<1>1. PICK c, timer : c = loop.core /\ timer = timers[loop.core]
  OBVIOUS
<1>2. /\ loop \in Loops /\ loop.phase = "catch_up" /\ ~ loop.firing /\ c \in Cores
      /\ GoodTimer(timer) /\ timer.downcount >= 0 /\ loop.max_delay > min_delay
  BY <1>1, LoopFields DEF LoopInv, CatchUp, SyncInv
<1>3. PICK cpu : cpu = IF c = 0 THEN current_cpu ELSE c
  OBVIOUS
<1>4. cpu \in Cores
  BY <1>2, <1>3 DEF LoopInv
<1>5. GetTicks(timer) >= GetTicks(timers[c]) /\ ~ (loop.max_delay <= min_delay)
  BY <1>1, <1>2, CoresFacts, LoopFields, TimerFields
<1>6. AfterRun(loop, Idle(timer)) = AfterRun(loop, timer)
  <2>1. loop.max_delay > min_delay \/ loop.core = NumCores - 1
    BY <1>2
  <2>. QED
    BY <2>1 DEF AfterRun
<1>7. RunOrIdle(c, timer, cpu, loop, AfterRun(loop, Idle(timer)))
  <2>1. RunOrIdle(c, timer, cpu, loop, AfterRun(loop, timer))
    BY <1>1, <1>3 DEF CatchUp
  <2>. QED
    BY <1>6, <2>1
<1>. QED
  BY <1>1, <1>2, <1>4, <1>5, <1>7, RunOrIdleStep

(* A core begins Advance; the cores before it have ended it. *)
LEMMA AdvanceBeginStep ==
  ASSUME LoopInv, AdvanceBegin, UNCHANGED <<downcount_hack, blocks>>
  PROVE  LoopInv' /\ TicksGoOn
<1>1. /\ loop \in Loops /\ loop.core \in Cores /\ loop.phase = "advance" /\ ~ loop.firing
      /\ GoodTimer(timers[loop.core])
  BY LoopFields DEF LoopInv, AdvanceBegin
<1>2. PICK v : v = BeginAdvance(timers[loop.core])
  OBVIOUS
<1>3. GoodTimer(v) /\ Advancing(v) /\ GetTicks(v) >= GetTicks(timers[loop.core])
  BY <1>1, <1>2, BeginAdvanceGood
<1>4. timers' = [timers EXCEPT ![loop.core] = v] /\ current_cpu' = loop.core
  BY <1>2 DEF AdvanceBegin
<1>5. /\ timers' \in [Cores -> Timers] /\ \A d \in Cores : GoodTimer(timers'[d])
      /\ timers'[loop.core] = v /\ \A d \in Cores : d # loop.core => timers'[d] = timers[d]
      /\ TicksGoOn
  BY <1>1, <1>3, <1>4, OneTimer
<1>6. /\ loop' \in Loops /\ loop'.firing /\ loop'.phase = "advance"
      /\ loop'.core = loop.core /\ loop'.max_slice = loop.max_slice
  <2>1. PICK yes : yes = TRUE
    OBVIOUS
  <2>2. loop' = [loop EXCEPT !.firing = yes]
    BY <2>1 DEF AdvanceBegin
  <2>3. yes \in BOOLEAN
    BY <2>1
  <2>4. loop' \in Loops
    BY <1>1, <2>2, <2>3 DEF Loops
  <2>. QED
    BY <1>1, <2>1, <2>2, <2>4 DEF Loops
<1>7. SyncInv'
  BY <1>6 DEF SyncInv
<1>8. SliceInv'
  <2>1. \A d \in Cores : d < loop.core => Fresh(timers'[d])
    BY <1>1, <1>5, CoresFacts DEF LoopInv, SliceInv
  <2>2. loop.max_slice >= 0
    BY <1>1 DEF LoopInv, SliceInv
  <2>. QED
    BY <1>6, <2>1, <2>2 DEF SliceInv
<1>. QED
  BY <1>1, <1>3, <1>4, <1>5, <1>6, <1>7, <1>8 DEF LoopInv

(* A core ends Advance: it has no slice, and its next event bounds the slice of all cores. *)
LEMMA AdvanceEndStep ==
  ASSUME LoopInv, AdvanceEnd, UNCHANGED <<downcount_hack, blocks>>
  PROVE  LoopInv' /\ TicksGoOn /\ loop'.fault = loop.fault
<1>1. /\ loop \in Loops /\ loop.core \in Cores /\ loop.phase = "advance" /\ loop.firing
      /\ GoodTimer(timers[loop.core]) /\ Advancing(timers[loop.core])
      /\ ~ EventIsDue(timers[loop.core])
  BY LoopFields DEF LoopInv, AdvanceEnd, AllFired
<1>2. PICK v, g : v = EndAdvance(timers[loop.core]) /\ g = GetMaxSliceLength(timers[loop.core])
  OBVIOUS
<1>3. /\ GoodTimer(v) /\ Fresh(v) /\ GetTicks(v) = GetTicks(timers[loop.core])
      /\ NextEventIsAhead(timers[loop.core]) /\ g \in Nat
  BY <1>1, <1>2, EndAdvanceFresh
<1>4. timers' = [timers EXCEPT ![loop.core] = v] /\ current_cpu' = current_cpu
  BY <1>2 DEF AdvanceEnd
<1>5. /\ timers' \in [Cores -> Timers] /\ \A d \in Cores : GoodTimer(timers'[d])
      /\ timers'[loop.core] = v /\ \A d \in Cores : d # loop.core => timers'[d] = timers[d]
      /\ TicksGoOn
  <2>1. GetTicks(v) >= GetTicks(timers[loop.core])
    BY <1>1, <1>3, TimerFields
  <2>. QED
    BY <1>1, <1>3, <1>4, <2>1, OneTimer
<1>6. PICK no, fault, m, p, n :
        /\ no = FALSE /\ fault = (loop.fault \/ ~ NextEventIsAhead(timers[loop.core]))
        /\ m = Min({loop.max_slice, g})
        /\ p = (IF loop.core < NumCores - 1 THEN "advance" ELSE "start")
        /\ n = (IF loop.core < NumCores - 1 THEN loop.core + 1 ELSE 0)
  OBVIOUS
<1>7. loop' = [loop EXCEPT !.firing = no, !.fault = fault, !.max_slice = m, !.phase = p, !.core = n]
  BY <1>2, <1>6, Zenon DEF AdvanceEnd
<1>8. m \in Int /\ m >= 0 /\ p \in Phases /\ n \in Cores
  <2>1. loop.max_slice \in Int /\ loop.max_slice >= 0
    BY <1>1, LoopFields DEF LoopInv, SliceInv
  <2>2. m = IF loop.max_slice <= g THEN loop.max_slice ELSE g
    BY <1>3, <1>6, <2>1, MinOfTwo
  <2>3. p \in Phases /\ n \in Cores
    BY <1>1, <1>6, CoresFacts DEF Phases
  <2>. QED
    BY <1>3, <2>1, <2>2, <2>3
<1>9. no \in BOOLEAN /\ fault \in BOOLEAN
  BY <1>6
<1>10. /\ loop' \in Loops /\ ~ loop'.firing /\ loop'.phase = p /\ loop'.core = n
       /\ loop'.max_slice = m /\ loop'.fault = fault
  <2>1. loop' \in Loops
    BY <1>1, <1>7, <1>8, <1>9 DEF Loops
  <2>2. loop'.firing = no /\ loop'.fault = fault
    BY <1>1, <1>7, Zenon DEF Loops
  <2>. QED
    BY <1>1, <1>6, <1>7, <2>1, <2>2 DEF Loops
<1>11. SyncInv'
  BY <1>6, <1>10 DEF SyncInv
<1>12. SliceInv'
  <2>0. loop.core \in Int /\ \A d \in Cores : d \in Int
    BY <1>1, CoresFacts
  <2>1. \A d \in Cores : d <= loop.core => Fresh(timers'[d])
    <3>1. \A d \in Cores : d < loop.core => Fresh(timers[d])
      BY <1>1 DEF LoopInv, SliceInv
    <3>2. \A d \in Cores : d <= loop.core => d < loop.core \/ d = loop.core
      BY <2>0
    <3>3. \A d \in Cores : d < loop.core => d # loop.core
      BY <2>0
    <3>. QED
      BY <1>3, <1>5, <3>1, <3>2, <3>3
  <2>2. CASE loop.core < NumCores - 1
    <3>1. p = "advance" /\ n = loop.core + 1
      BY <1>6, <2>2
    <3>2. \A d \in Cores : d < n => d <= loop.core
      BY <2>0, <3>1
    <3>. QED
      BY <1>8, <1>10, <2>1, <3>1, <3>2 DEF SliceInv
  <2>3. CASE ~ (loop.core < NumCores - 1)
    <3>1. p = "start" /\ n = 0
      BY <1>6, <2>3
    <3>2. \A d \in Cores : d <= loop.core
      BY <1>1, <2>3, CoresFacts DEF Cores
    <3>. QED
      BY <1>8, <1>10, <2>1, <3>1, <3>2 DEF SliceInv
  <2>. QED
    BY <2>2, <2>3
<1>13. fault = loop.fault
  <2>1. loop.fault \in BOOLEAN
    BY <1>1, LoopFields
  <2>. QED
    BY <1>3, <1>6, <2>1, Zenon
<1>. QED
  BY <1>4, <1>5, <1>10, <1>11, <1>12, <1>13 DEF LoopInv

(* A core gets its slice and runs. *)
LEMMA StartStep ==
  ASSUME LoopInv, Start, UNCHANGED <<downcount_hack, blocks>>
  PROVE  LoopInv' /\ TicksGoOn
<1>1. PICK c, timer : /\ c = loop.core
                      /\ timer = SetNextSlice(timers[c], loop.max_slice, downcount_hack[c])
  OBVIOUS
<1>2. /\ loop \in Loops /\ loop.phase = "start" /\ ~ loop.firing /\ c \in Cores /\ c \in Nat
      /\ GoodTimer(timers[c]) /\ Fresh(timers[c])
      /\ loop.max_slice \in Nat /\ downcount_hack[c] \in Nat
      /\ \A d \in Cores : d > c => Fresh(timers[d])
  BY <1>1, CoresFacts, LoopFields DEF LoopInv, Start, SliceInv
<1>3. GoodTimer(timer) /\ timer.downcount >= 0 /\ GetTicks(timer) >= GetTicks(timers[c])
  BY <1>1, <1>2, SetNextSliceGood
<1>4. PICK ticks, l : ticks = GetTicks(timer) /\ l = [loop EXCEPT !.start_ticks = ticks]
  OBVIOUS
<1>5. l \in Loops /\ ~ l.firing /\ l.core = c /\ l.start_ticks = GetTicks(timer)
  <2>1. ticks \in Int
    BY <1>3, <1>4, TimerFields
  <2>. QED
    BY <1>1, <1>2, <1>4, <2>1 DEF Loops
<1>6. RunOrIdle(c, timer, c, l, AfterRun(l, Idle(timer)))
  BY <1>1, <1>4 DEF Start
<1>. QED
  BY <1>2, <1>3, <1>5, <1>6, RunOrIdleStep

(***************************************************************************)
(* What a block of guest code may do: it counts ticks on the running core, *)
(* and changes queues; while the cores run one after the other, those that *)
(* have not started keep no slice and no event that is due.                *)
(***************************************************************************)
LEMMA RunStep ==
  ASSUME LoopInv, loop.phase = "run", UNCHANGED <<downcount_hack, blocks, current_cpu>>,
         timers' \in [Cores -> Timers],
         \A d \in Cores : GoodTimer(timers'[d]) /\ GetTicks(timers'[d]) >= GetTicks(timers[d]),
         current_cpu = loop.core
           => \A d \in Cores : d > loop.core /\ Fresh(timers[d]) => Fresh(timers'[d]),
         loop' \in Loops, loop'.phase = "run", loop'.core = loop.core, ~ loop'.firing,
         loop'.max_delay = loop.max_delay, loop'.start_ticks = loop.start_ticks
  PROVE  LoopInv' /\ TicksGoOn
<1>1. (IF Iterate THEN Shift ELSE 0) = 0
  BY DEF Shift
<1>2. \A d \in Cores : GetTicks(timers[d]) \in Int /\ GetTicks(timers'[d]) \in Int
  BY TimerFields DEF LoopInv
<1>3. TicksGoOn
  BY <1>1, <1>2 DEF TicksGoOn
<1>4. SyncInv'
  BY DEF SyncInv
<1>5. SliceInv'
  <2>. SUFFICES ASSUME loop.max_delay <= min_delay
                PROVE  /\ current_cpu = loop.core
                       /\ loop.start_ticks <= GetTicks(timers'[loop.core])
                       /\ \A d \in Cores : d > loop.core => Fresh(timers'[d])
    BY DEF SliceInv
  <2>1. /\ current_cpu = loop.core /\ loop.start_ticks <= GetTicks(timers[loop.core])
        /\ \A d \in Cores : d > loop.core => Fresh(timers[d])
    BY DEF LoopInv, SliceInv
  <2>2. loop.core \in Cores /\ loop.start_ticks \in Int
    BY LoopFields DEF LoopInv
  <2>. QED
    BY <1>2, <2>1, <2>2
<1>. QED
  BY <1>3, <1>4, <1>5 DEF LoopInv

(* The timers after a block of the given ticks. *)
LEMMA CountedTimers ==
  ASSUME LoopInv, NEW ticks \in Nat
  PROVE  /\ Counted(ticks) \in [Cores -> Timers]
         /\ \A d \in Cores : /\ GoodTimer(Counted(ticks)[d])
                             /\ GetTicks(Counted(ticks)[d]) >= GetTicks(timers[d])
                             /\ d # loop.core => Counted(ticks)[d] = timers[d]
<1>1. PICK c, v, u : c = loop.core /\ v = AddTicks(timers[c], ticks) /\ u = Counted(ticks)
  OBVIOUS
<1>2. /\ c \in Cores /\ timers \in [Cores -> Timers]
      /\ \A d \in Cores : GoodTimer(timers[d]) /\ GetTicks(timers[d]) \in Int
  BY <1>1, LoopFields, TimerFields DEF LoopInv
<1>3. GoodTimer(v) /\ GetTicks(v) >= GetTicks(timers[c]) /\ v \in Timers
  BY <1>1, <1>2, AddTicksGood, TimerFields
<1>4. u = [timers EXCEPT ![c] = v]
  BY <1>1 DEF Counted
<1>5. u \in [Cores -> Timers] /\ u[c] = v /\ \A d \in Cores : d # c => u[d] = timers[d]
  BY <1>2, <1>3, <1>4
<1>6. \A d \in Cores : GoodTimer(u[d]) /\ GetTicks(u[d]) >= GetTicks(timers[d])
  BY <1>2, <1>3, <1>5
<1>. QED
  BY <1>1, <1>5, <1>6

(* The block of GuestStep: its ticks, and the local variables that change in the loop. *)
LEMMA RanLoop ==
  ASSUME LoopInv, loop.phase = "run", NEW h \in BOOLEAN,
         loop' = [loop EXCEPT !.ran = TRUE] \/ loop' = [loop EXCEPT !.ran = TRUE, !.halted = h]
  PROVE  /\ loop' \in Loops /\ loop'.phase = "run" /\ loop'.core = loop.core /\ ~ loop'.firing
         /\ loop'.max_delay = loop.max_delay /\ loop'.start_ticks = loop.start_ticks
<1>1. PICK yes : yes = TRUE
  OBVIOUS
<1>2. loop' = [loop EXCEPT !.ran = yes] \/ loop' = [loop EXCEPT !.ran = yes, !.halted = h]
  BY <1>1
<1>3. yes \in BOOLEAN
  BY <1>1
<1>4. loop \in Loops /\ ~ loop.firing
  BY DEF LoopInv
<1>5. loop' \in Loops
  BY <1>2, <1>3, <1>4 DEF Loops
<1>. QED
  BY <1>2, <1>4, <1>5 DEF Loops

(* A block that executes instructions only, or ends with a request. *)
LEMMA PlainBlockStep ==
  ASSUME LoopInv, UNCHANGED <<downcount_hack, blocks>>, NEW ticks \in Nat,
         Block(ticks) \/ BlockRequests(ticks)
  PROVE  LoopInv' /\ TicksGoOn
<1>1. loop.phase = "run" /\ timers' = Counted(ticks) /\ current_cpu' = current_cpu
  BY DEF Block, BlockRequests, Executing
<1>2. /\ loop' \in Loops /\ loop'.phase = "run" /\ loop'.core = loop.core /\ ~ loop'.firing
      /\ loop'.max_delay = loop.max_delay /\ loop'.start_ticks = loop.start_ticks
  <2>1. PICK h : h = (loop.core = current_cpu)
    OBVIOUS
  <2>2. h \in BOOLEAN
    BY <2>1
  <2>3. loop' = [loop EXCEPT !.ran = TRUE] \/ loop' = [loop EXCEPT !.ran = TRUE, !.halted = h]
    BY <2>1, Zenon DEF Block, BlockRequests, Halt
  <2>. QED
    BY <1>1, <2>2, <2>3, RanLoop
<1>3. timers' \in [Cores -> Timers]
  BY <1>1, CountedTimers
<1>4. \A d \in Cores : GoodTimer(timers'[d]) /\ GetTicks(timers'[d]) >= GetTicks(timers[d])
  BY <1>1, CountedTimers
<1>5. \A d \in Cores : d > loop.core => timers'[d] = timers[d]
  <2>1. loop.core \in Int /\ \A d \in Cores : d \in Int
    BY CoresFacts, LoopFields DEF LoopInv
  <2>. QED
    BY <1>1, <2>1, CountedTimers
<1>6. current_cpu = loop.core
        => \A d \in Cores : d > loop.core /\ Fresh(timers[d]) => Fresh(timers'[d])
  BY <1>5
<1>. QED
  BY <1>1, <1>2, <1>3, <1>4, <1>6, RunStep

(* A block that ends with SleepThread schedules the wakeup on the current timer. *)
LEMMA BlockSleepsStep ==
  ASSUME LoopInv, UNCHANGED <<downcount_hack, blocks>>, NEW ticks \in Nat, NEW cycles \in Int,
         BlockSleeps(ticks, cycles)
  PROVE  LoopInv' /\ TicksGoOn
<1>1. PICK u, v : u = Counted(ticks) /\ v = ScheduleEvent(u[current_cpu], cycles, current_cpu)
  OBVIOUS
<1>2. /\ loop.phase = "run" /\ timers' = [u EXCEPT ![current_cpu] = v]
      /\ current_cpu' = current_cpu
  BY <1>1 DEF BlockSleeps, Executing
<1>3. /\ u \in [Cores -> Timers] /\ current_cpu \in Cores /\ current_cpu \in Int
      /\ \A d \in Cores : /\ GoodTimer(u[d]) /\ GetTicks(u[d]) >= GetTicks(timers[d])
                          /\ d # loop.core => u[d] = timers[d]
  BY <1>1, CountedTimers, CoresFacts DEF LoopInv
<1>4. GoodTimer(v) /\ GetTicks(v) = GetTicks(u[current_cpu]) /\ v \in Timers
  BY <1>1, <1>3, ScheduleGood, TimerFields
<1>5. /\ timers' \in [Cores -> Timers] /\ timers'[current_cpu] = v
      /\ \A d \in Cores : d # current_cpu => timers'[d] = u[d]
  BY <1>2, <1>3, <1>4
<1>6. \A d \in Cores : GoodTimer(timers'[d]) /\ GetTicks(timers'[d]) >= GetTicks(timers[d])
  BY <1>3, <1>4, <1>5
<1>7. current_cpu = loop.core
        => \A d \in Cores : d > loop.core /\ Fresh(timers[d]) => Fresh(timers'[d])
  <2>1. loop.core \in Int /\ \A d \in Cores : d \in Int
    BY CoresFacts, LoopFields DEF LoopInv
  <2>2. \A d \in Cores : d > loop.core => d # loop.core
    BY <2>1
  <2>. QED
    BY <1>3, <1>5, <2>2
<1>8. /\ loop' \in Loops /\ loop'.phase = "run" /\ loop'.core = loop.core /\ ~ loop'.firing
      /\ loop'.max_delay = loop.max_delay /\ loop'.start_ticks = loop.start_ticks
  <2>1. PICK h : h = (loop.core = current_cpu)
    OBVIOUS
  <2>2. h \in BOOLEAN
    BY <2>1
  <2>3. loop' = [loop EXCEPT !.ran = TRUE, !.halted = h]
    BY <2>1, Zenon DEF BlockSleeps, Halt
  <2>. QED
    BY <1>2, <2>2, <2>3, RanLoop
<1>. QED
  BY <1>2, <1>5, <1>6, <1>7, <1>8, RunStep

(* A block that ends with SetTimer also takes events from the queues of all cores. *)
LEMMA BlockSetsTimerStep ==
  ASSUME LoopInv, UNCHANGED <<downcount_hack, blocks>>, NEW ticks \in Nat, NEW cycles \in Int,
         BlockSetsTimer(ticks, cycles)
  PROVE  LoopInv' /\ TicksGoOn
<1>1. PICK u, w, v : /\ u = Counted(ticks)
                     /\ w = [c \in Cores |-> UnscheduleEvent(u[c], KernelTimer)]
                     /\ v = ScheduleEvent(w[current_cpu], cycles, KernelTimer)
  OBVIOUS
<1>2. /\ loop.phase = "run" /\ timers' = [w EXCEPT ![current_cpu] = v]
      /\ current_cpu' = current_cpu
  BY <1>1 DEF BlockSetsTimer, Executing
<1>3. /\ current_cpu \in Cores
      /\ \A d \in Cores : /\ GoodTimer(u[d]) /\ GetTicks(u[d]) >= GetTicks(timers[d])
                          /\ d # loop.core => u[d] = timers[d]
  BY <1>1, CountedTimers DEF LoopInv
<1>4. \A d \in Cores : /\ GoodTimer(w[d]) /\ GetTicks(w[d]) = GetTicks(u[d])
                       /\ Fresh(u[d]) => Fresh(w[d])
  BY <1>1, <1>3, UnscheduleGood, SameClockTicks
<1>5. GoodTimer(v) /\ GetTicks(v) = GetTicks(w[current_cpu]) /\ v \in Timers
  <2>1. KernelTimer \in Int
    BY DEF KernelTimer
  <2>. QED
    BY <1>1, <1>3, <1>4, <2>1, ScheduleGood, TimerFields
<1>6. w \in [Cores -> Timers]
  BY <1>1, <1>4 DEF GoodTimer
<1>7. /\ timers' \in [Cores -> Timers] /\ timers'[current_cpu] = v
      /\ \A d \in Cores : d # current_cpu => timers'[d] = w[d]
  BY <1>2, <1>3, <1>5, <1>6
<1>8. \A d \in Cores : GoodTimer(timers'[d]) /\ GetTicks(timers'[d]) >= GetTicks(timers[d])
  BY <1>3, <1>4, <1>5, <1>7
<1>9. current_cpu = loop.core
        => \A d \in Cores : d > loop.core /\ Fresh(timers[d]) => Fresh(timers'[d])
  <2>1. loop.core \in Int /\ \A d \in Cores : d \in Int
    BY CoresFacts, LoopFields DEF LoopInv
  <2>2. \A d \in Cores : d > loop.core => d # loop.core
    BY <2>1
  <2>. QED
    BY <1>3, <1>4, <1>7, <2>2
<1>10. /\ loop' \in Loops /\ loop'.phase = "run" /\ loop'.core = loop.core /\ ~ loop'.firing
       /\ loop'.max_delay = loop.max_delay /\ loop'.start_ticks = loop.start_ticks
  <2>1. PICK h : h = FALSE
    OBVIOUS
  <2>2. h \in BOOLEAN
    BY <2>1
  <2>. QED
    BY <1>2, <2>2, RanLoop DEF BlockSetsTimer
<1>. QED
  BY <1>2, <1>7, <1>8, <1>9, <1>10, RunStep

(* The slice of a core is over. *)
LEMMA RunEndsStep ==
  ASSUME LoopInv, RunEnds, UNCHANGED <<downcount_hack, blocks>>
  PROVE  LoopInv' /\ TicksGoOn
<1>1. /\ loop \in Loops /\ loop.core \in Cores /\ loop.phase = "run"
      /\ GoodTimer(timers[loop.core]) /\ timers' = timers /\ current_cpu' = current_cpu
      /\ loop' = AfterRun(loop, timers[loop.core])
  BY LoopFields DEF LoopInv, RunEnds
<1>2. timers' \in [Cores -> Timers] /\ (\A d \in Cores : GoodTimer(timers'[d])) /\ TicksGoOn
  BY <1>1, NoTimer
<1>3. /\ loop' \in Loops /\ ~ loop'.firing
      /\ \/ loop'.phase = "end"
         \/ /\ loop.max_delay <= min_delay
            /\ loop'.phase = "start" /\ loop'.core = loop.core + 1
            /\ loop'.max_slice = GetTicks(timers[loop.core]) - loop.start_ticks
  BY <1>1, AfterRunCases
<1>4. SyncInv'
  BY <1>3 DEF SyncInv
<1>5. SliceInv'
  <2>1. CASE loop'.phase = "end"
    BY <2>1 DEF SliceInv
  <2>2. CASE loop.max_delay <= min_delay /\ loop'.phase = "start"
    <3>1. /\ loop.start_ticks <= GetTicks(timers[loop.core])
          /\ \A d \in Cores : d > loop.core => Fresh(timers[d])
      BY <1>1, <2>2 DEF LoopInv, SliceInv
    <3>2. loop'.max_slice >= 0
      BY <1>1, <1>3, <2>2, <3>1, LoopFields, TimerFields
    <3>3. loop.core \in Int /\ \A d \in Cores : d \in Int
      BY <1>1, CoresFacts
    <3>4. \A d \in Cores : d >= loop.core + 1 => d > loop.core
      BY <3>3
    <3>. QED
      BY <1>1, <1>3, <2>2, <3>1, <3>2, <3>4 DEF SliceInv
  <2>. QED
    BY <1>3, <2>1, <2>2
<1>. QED
  BY <1>1, <1>2, <1>3, <1>4, <1>5 DEF LoopInv

(* A host thread adds an event to a queue of its own, in any phase. *)
LEMMA HostDoneStep ==
  ASSUME LoopInv, UNCHANGED <<downcount_hack, blocks>>, NEW c \in Cores, HostDone(c)
  PROVE  LoopInv' /\ TicksGoOn
<1>1. PICK ticks \in {timers[current_cpu].executed_ticks, GetTicks(timers[current_cpu])} :
        timers' = [timers EXCEPT ![current_cpu] = ScheduleThreadSafe(@, ticks, 0, c)]
  BY DEF HostDone
<1>2. loop' = loop /\ current_cpu' = current_cpu /\ current_cpu \in Cores
  BY DEF HostDone, LoopInv
<1>3. PICK v : v = ScheduleThreadSafe(timers[current_cpu], ticks, 0, c)
  OBVIOUS
<1>4. timers \in [Cores -> Timers] /\ \A d \in Cores : GoodTimer(timers[d])
  BY DEF LoopInv
<1>5. /\ GoodTimer(v) /\ SameClock(v, timers[current_cpu]) /\ v \in Timers
      /\ Fresh(timers[current_cpu]) => Fresh(v)
  <2>1. ticks \in Int /\ c \in Int
    BY <1>1, <1>2, <1>4, CoresFacts, TimerFields
  <2>. QED
    BY <1>2, <1>3, <1>4, <2>1, ScheduleThreadSafeGood, TimerFields
<1>6. /\ timers' \in [Cores -> Timers] /\ timers'[current_cpu] = v
      /\ \A d \in Cores : d # current_cpu => timers'[d] = timers[d]
  BY <1>1, <1>2, <1>3, <1>4, <1>5
<1>7. \A d \in Cores : /\ GoodTimer(timers'[d]) /\ SameClock(timers'[d], timers[d])
                       /\ Fresh(timers[d]) => Fresh(timers'[d])
  BY <1>4, <1>5, <1>6 DEF SameClock
<1>8. \A d \in Cores : /\ GetTicks(timers'[d]) = GetTicks(timers[d])
                       /\ GetTicks(timers[d]) \in Int
                       /\ timers'[d].downcount = timers[d].downcount
                       /\ Advancing(timers[d]) => Advancing(timers'[d])
  BY <1>4, <1>7, SameClockTicks, TimerFields DEF SameClock
<1>9. TicksGoOn
  <2>1. ~ Iterate
    <3>1. ASSUME Iterate PROVE FALSE
      <4>1. LoopStart \in Phases /\ loop.fault \in BOOLEAN /\ LoopStart # "end"
        BY LoopFields DEF LoopInv, LoopStart, Phases
      <4>2. loop'.phase = LoopStart /\ loop.phase = "end"
        BY <3>1, <4>1, CoresFacts, NewLoop DEF Iterate
      <4>. QED
        BY <1>2, <4>1, <4>2
    <3>. QED
      BY <3>1
  <2>2. (IF Iterate THEN Shift ELSE 0) = 0
    BY <2>1
  <2>. QED
    BY <1>8, <2>2 DEF TicksGoOn
<1>10. loop \in Loops /\ loop.core \in Cores /\ loop.to_execute \in Cores
  BY LoopFields DEF LoopInv
<1>11. SyncInv'
  BY <1>2, <1>8, <1>10 DEF LoopInv, SyncInv
<1>12. SliceInv'
  BY <1>2, <1>7, <1>8, <1>10 DEF LoopInv, SliceInv
<1>. QED
  BY <1>2, <1>6, <1>7, <1>8, <1>9, <1>10, <1>11, <1>12 DEF LoopInv

(* No step breaks the invariant or sets a clock back. *)
LEMMA NextStep ==
  ASSUME LoopInv, Next
  PROVE  LoopInv' /\ TicksGoOn
<1>. UNCHANGED <<downcount_hack, blocks>>
  BY DEF Next
<1>1. CASE Iterate
  BY <1>1, IterateStep
<1>2. CASE Fire
  BY <1>2, FireStep
<1>3. CASE GuestStep
  <2>1. PICK ticks \in blocks :
          \/ Block(ticks)
          \/ \E cycles \in Delays : BlockSetsTimer(ticks, cycles)
          \/ \E cycles \in Delays : BlockSleeps(ticks, cycles)
          \/ BlockRequests(ticks)
    BY <1>3 DEF GuestStep
  <2>2. ticks \in Nat /\ Delays \subseteq Int
    BY LoopAssumption DEF LoopInv
  <2>. QED
    BY <2>1, <2>2, PlainBlockStep, BlockSetsTimerStep, BlockSleepsStep
<1>4. CASE RunEnds
  BY <1>4, RunEndsStep
<1>5. CASE SyncSkip
  BY <1>5, SyncSkipStep
<1>6. CASE SyncBegin
  BY <1>6, SyncBeginStep
<1>7. CASE SyncEnd
  BY <1>7, SyncEndStep
<1>8. CASE CatchUp
  BY <1>8, CatchUpStep
<1>9. CASE AdvanceBegin
  BY <1>9, AdvanceBeginStep
<1>10. CASE AdvanceEnd
  BY <1>10, AdvanceEndStep
<1>11. CASE Start
  BY <1>11, StartStep
<1>12. CASE HostThreads
  BY <1>12, HostDoneStep DEF HostThreads
<1>. QED
  BY <1>1, <1>2, <1>3, <1>4, <1>5, <1>6, <1>7, <1>8, <1>9, <1>10, <1>11, <1>12
     DEF Next, EmuThread, EitherLoop, MultiCoreStep

(* A step that changes nothing. *)
LEMMA StutterStep ==
  ASSUME LoopInv, UNCHANGED <<vars, downcount_hack, blocks>>
  PROVE  LoopInv'
BY DEF LoopInv, SyncInv, SliceInv, vars, Fresh, Advancing, GoodTimer

(***************************************************************************)
(* The ticks of a core never go back (System::RunLoopMultiCores,           *)
(* Timing::Timer::GetTicks), whatever the guest schedules or unschedules,  *)
(* whatever the host threads add, and with any limit of the CPU usage.     *)
(***************************************************************************)
THEOREM ClocksGoOn == Spec => TicksNeverGoBack
<1>1. LoopInv /\ [Next]_<<vars, downcount_hack, blocks>> => LoopInv'
  BY NextStep, StutterStep
<1>2. LoopInv /\ [Next]_<<vars, downcount_hack, blocks>> => [TicksGoOn]_vars
  BY NextStep DEF vars
<1>. QED
  BY InitInv, <1>1, <1>2, PTL DEF Spec, TicksNeverGoBack
=============================================================================
