------------------------ MODULE ThreadQueueListProofs ------------------------
(***************************************************************************)
(* What the operations of ThreadQueueList return, for any number of levels *)
(* and any set of threads: each of them takes a good list, one that is     *)
(* chained in order to every thread in it and has no duplicates, to a good *)
(* list.  The proofs about the ready queue and about the kernel use these. *)
(***************************************************************************)
EXTENDS ThreadQueueList, WellFoundedInduction, TLAPS

-----------------------------------------------------------------------------
(* Induction over the natural numbers in a first-order form: the predicate is  *)
(* given as a set, and the body of a loop as a function, so that both can be   *)
(* instantiated.                                                               *)

(* Every non-empty set of natural numbers has a least element. *)
LEMMA LeastNat ==
  ASSUME NEW T \in SUBSET Nat, T # {}
  PROVE  \E x \in T : \A y \in T : x <= y
<1>1. PICK x \in T : \A y \in T : ~ (<<y, x>> \in OpToRel(<, Nat))
  BY NatLessThanWellFounded, WFMin
<1>2. \A y \in T : ~ (y < x)
  BY <1>1, Zenon DEF OpToRel
<1>. QED
  BY <1>2

(* Every non-empty set of natural numbers with an upper bound has a greatest element. *)
LEMMA GreatestNat ==
  ASSUME NEW n \in Nat, NEW T \in SUBSET (0 .. n), T # {}
  PROVE  \E x \in T : \A y \in T : x >= y
<1>. DEFINE U == {k \in Nat : \A y \in T : y <= k}
<1>1. n \in U
  OBVIOUS
<1>2. PICK k \in U : \A u \in U : k <= u
  BY <1>1, LeastNat
<1>3. CASE k \in T
  BY <1>2, <1>3
<1>4. CASE k \notin T
  <2>1. \A y \in T : y <= k /\ y # k
    BY <1>4
  <2>2. k # 0
    <3>1. PICK y \in T : TRUE
      OBVIOUS
    <3>. QED
      BY <2>1, <3>1
  <2>3. k - 1 \in U
    BY <2>1, <2>2
  <2>. QED
    BY <1>2, <2>3
<1>. QED
  BY <1>3, <1>4

(* Min and Max of the community modules are what they say on such sets. *)
LEMMA MinProperty ==
  ASSUME NEW T \in SUBSET Nat, T # {}
  PROVE  /\ Min(T) \in T
         /\ \A y \in T : Min(T) <= y
BY LeastNat DEF Min

LEMMA MaxProperty ==
  ASSUME NEW n \in Nat, NEW T \in SUBSET (0 .. n), T # {}
  PROVE  /\ Max(T) \in T
         /\ \A y \in T : Max(T) >= y
BY GreatestNat DEF Max

(* Induction on the members of an initial segment, the predicate being a set. *)
LEMMA UpwardInduction ==
  ASSUME NEW n \in Nat, NEW T, 0 \in T,
         \A i \in 1 .. n : i - 1 \in T => i \in T
  PROVE  0 .. n \subseteq T
<1>. SUFFICES ASSUME (0 .. n) \ T # {}
              PROVE  FALSE
  OBVIOUS
<1>. DEFINE W == (0 .. n) \ T
<1>1. PICK m \in W : \A y \in W : m <= y
  <2>1. W \in SUBSET Nat /\ W # {}
    OBVIOUS
  <2>. HIDE DEF W
  <2>. QED
    BY <2>1, LeastNat
<1>2. m # 0 /\ m - 1 \in 0 .. n
  BY <1>1
<1>3. m - 1 \in T
  BY <1>1, <1>2
<1>. QED
  BY <1>1, <1>2, <1>3

(* The states f[0], f[1], ... of a loop that applies G[i] in its i-th iteration. *)
Runs(f, n, base, G) ==
  /\ f[0] = base
  /\ \A i \in 1 .. n : f[i] = G[i][f[i - 1]]

(* A loop of n iterations over values of V has a sequence of states. *)
LEMMA LoopExists ==
  ASSUME NEW n \in Nat, NEW V, NEW base \in V, NEW G \in [1 .. n -> [V -> V]]
  PROVE  \E f \in [0 .. n -> V] : Runs(f, n, base, G)
<1>. USE DEF Runs
<1>. DEFINE T == {m \in 0 .. n : \E f \in [0 .. n -> V] : Runs(f, m, base, G)}
<1>1. 0 \in T
  <2>. DEFINE g == [i \in 0 .. n |-> base]
  <2>1. g \in [0 .. n -> V] /\ Runs(g, 0, base, G)
    OBVIOUS
  <2>. HIDE DEF g
  <2>2. \E f \in [0 .. n -> V] : Runs(f, 0, base, G)
    BY <2>1
  <2>. QED
    BY <2>2
<1>2. ASSUME NEW m \in 1 .. n, m - 1 \in T
      PROVE  m \in T
  <2>1. PICK f \in [0 .. n -> V] : Runs(f, m - 1, base, G)
    BY <1>2
  <2>. DEFINE g == [f EXCEPT ![m] = G[m][f[m - 1]]]
  <2>2. g \in [0 .. n -> V]
    <3>1. f[m - 1] \in V /\ G[m] \in [V -> V]
      BY <2>1
    <3>. QED
      BY <2>1, <3>1
  <2>3. Runs(g, m, base, G)
    <3>1. g[0] = base
      BY <2>1
    <3>2. ASSUME NEW i \in 1 .. m
          PROVE  g[i] = G[i][g[i - 1]]
      BY <2>1, <3>2
    <3>. QED
      BY <3>1, <3>2
  <2>. HIDE DEF g
  <2>4. \E h \in [0 .. n -> V] : Runs(h, m, base, G)
    BY <2>2, <2>3
  <2>. QED
    BY <2>4
<1>3. n \in T
  <2>. HIDE DEF T
  <2>1. 0 .. n \subseteq T
    BY <1>1, <1>2, UpwardInduction
  <2>. QED
    BY <2>1
<1>. QED
  BY <1>3

-----------------------------------------------------------------------------
(***************************************************************************)
(* What EraseIn and Erase compute: a sequence of the elements that are not *)
(* to go, without repetitions when the sequence had none.                  *)
(***************************************************************************)
ErasedBy(kept, s, D) ==
  /\ EraseIn(s, D) = kept[Len(s)]
  /\ kept[0] = << >>
  /\ \A n \in 1 .. Len(s) :
       kept[n] = IF s[n] \in D THEN kept[n - 1] ELSE Append(kept[n - 1], s[n])

LEMMA EraseInLoop ==
  ASSUME NEW S, NEW s \in Seq(S), NEW D
  PROVE  \E kept \in [0 .. Len(s) -> Seq(S)] : ErasedBy(kept, s, D)
<1>. DEFINE N == Len(s)
            G == [n \in 1 .. N |-> [v \in Seq(S) |-> IF s[n] \in D THEN v ELSE Append(v, s[n])]]
            F(f) == [n \in 0 .. N |-> IF n = 0 THEN << >>
                                      ELSE IF s[n] \in D THEN f[n - 1]
                                      ELSE Append(f[n - 1], s[n])]
            kept == CHOOSE f : f = F(f)
<1>1. N \in Nat /\ << >> \in Seq(S)
  OBVIOUS
<1>2. \E f : f = F(f)
  <2>1. \A n \in 1 .. N : s[n] \in S
    OBVIOUS
  <2>2. G \in [1 .. N -> [Seq(S) -> Seq(S)]]
    <3>. HIDE DEF N
    <3>. QED
      BY <2>1
  <2>3. PICK f \in [0 .. N -> Seq(S)] : Runs(f, N, << >>, G)
    <3>. HIDE DEF G, N, F, kept
    <3>. QED
      BY <1>1, <2>2, LoopExists
  <2>4. ASSUME NEW i \in 1 .. N
        PROVE  f[i] = IF s[i] \in D THEN f[i - 1] ELSE Append(f[i - 1], s[i])
    <3>1. f[i - 1] \in Seq(S)
      BY <1>1, <2>3
    <3>2. G[i] = [v \in Seq(S) |-> IF s[i] \in D THEN v ELSE Append(v, s[i])]
      OBVIOUS
    <3>. HIDE DEF G
    <3>. QED
      BY <2>3, <3>1, <3>2 DEF Runs
  <2>5. f = F(f)
    <3>1. f[0] = << >>
      BY <2>3 DEF Runs
    <3>2. f = [i \in 0 .. N |-> f[i]]
      BY <2>3
    <3>3. ASSUME NEW i \in 0 .. N
          PROVE  f[i] = IF i = 0 THEN << >>
                        ELSE IF s[i] \in D THEN f[i - 1]
                        ELSE Append(f[i - 1], s[i])
      <4>1. i = 0 \/ i \in 1 .. N
        BY <1>1
      <4>. HIDE DEF N
      <4>. QED
        BY <2>4, <3>1, <4>1
    <3>. HIDE DEF N
    <3>. QED
      BY <3>2, <3>3, Zenon
  <2>. QED
    BY <2>5
<1>3. kept = F(kept)
  <2>. HIDE DEF F
  <2>. QED
    BY <1>2
<1>4. \A n \in 0 .. N : kept[n] = IF n = 0 THEN << >>
                                  ELSE IF s[n] \in D THEN kept[n - 1]
                                  ELSE Append(kept[n - 1], s[n])
  <2>. HIDE DEF kept
  <2>. QED
    BY <1>3
<1>5. EraseIn(s, D) = kept[N]
  BY DEF EraseIn
<1>6. kept = [n \in 0 .. N |-> kept[n]]
  <2>. HIDE DEF kept
  <2>. QED
    BY <1>3
<1>. HIDE DEF kept, F, G
<1>7. kept[0] = << >>
  BY <1>1, <1>4
<1>8. \A n \in 1 .. N : kept[n] = IF s[n] \in D THEN kept[n - 1] ELSE Append(kept[n - 1], s[n])
  BY <1>1, <1>4
<1>9. \A n \in 0 .. N : kept[n] \in Seq(S)
  <2>. DEFINE T == {n \in 0 .. N : kept[n] \in Seq(S)}
  <2>1. 0 \in T
    <3>1. kept[0] \in Seq(S)
      BY <1>1, <1>7, Zenon
    <3>2. 0 \in 0 .. N
      BY <1>1
    <3>. HIDE DEF N
    <3>. QED
      BY <3>1, <3>2
  <2>2. ASSUME NEW i \in 1 .. N, i - 1 \in T
        PROVE  i \in T
    <3>1. s[i] \in S
      OBVIOUS
    <3>2. kept[i - 1] \in Seq(S) /\ i \in 0 .. N
      BY <1>1, <2>2
    <3>3. kept[i] \in Seq(S)
      <4>1. Append(kept[i - 1], s[i]) \in Seq(S)
        BY <3>1, <3>2
      <4>2. kept[i] = IF s[i] \in D THEN kept[i - 1] ELSE Append(kept[i - 1], s[i])
        BY <1>8
      <4>. QED
        BY <3>2, <4>1, <4>2, Zenon
    <3>. QED
      BY <3>2, <3>3
  <2>3. 0 .. N \subseteq T
    <3>. HIDE DEF T, N
    <3>. QED
      BY <1>1, <2>1, <2>2, UpwardInduction
  <2>. QED
    BY <2>3
<1>10. kept \in [0 .. N -> Seq(S)]
  BY <1>6, <1>9
<1>. QED
  BY <1>5, <1>7, <1>8, <1>10 DEF ErasedBy

LEMMA EraseInType ==
  ASSUME NEW S, NEW s \in Seq(S), NEW D
  PROVE  EraseIn(s, D) \in Seq(S)
<1>1. PICK kept \in [0 .. Len(s) -> Seq(S)] : ErasedBy(kept, s, D)
  BY EraseInLoop
<1>. QED
  BY <1>1 DEF ErasedBy

OccursIn(u, s) == \E i \in 1 .. Len(s) : s[i] = u

(* The elements that are not in D are kept, and no other. *)
LEMMA EraseInElements ==
  ASSUME NEW S, NEW s \in Seq(S), NEW D, NEW u
  PROVE  OccursIn(u, EraseIn(s, D)) <=> (u \notin D /\ OccursIn(u, s))
<1>1. PICK kept \in [0 .. Len(s) -> Seq(S)] : ErasedBy(kept, s, D)
  BY EraseInLoop
<1>. USE DEF ErasedBy
<1>. DEFINE T == {n \in 0 .. Len(s) :
                    (\E i \in 1 .. Len(kept[n]) : kept[n][i] = u)
                      <=> (u \notin D /\ \E i \in 1 .. n : s[i] = u)}
<1>2. 0 \in T
  BY <1>1
<1>3. ASSUME NEW n \in 1 .. Len(s), n - 1 \in T
      PROVE  n \in T
  <2>1. kept[n - 1] \in Seq(S) /\ s[n] \in S
    BY <1>1
  <2>2. (\E i \in 1 .. n : s[i] = u) <=> (s[n] = u \/ \E i \in 1 .. n - 1 : s[i] = u)
    OBVIOUS
  <2>3. CASE s[n] \in D
    BY <1>1, <1>3, <2>2, <2>3
  <2>4. CASE s[n] \notin D
    <3>1. kept[n] = Append(kept[n - 1], s[n])
      BY <1>1, <2>4
    <3>2. (\E i \in 1 .. Len(kept[n]) : kept[n][i] = u)
            <=> (s[n] = u \/ \E i \in 1 .. Len(kept[n - 1]) : kept[n - 1][i] = u)
      BY <2>1, <3>1
    <3>3. n - 1 \in 0 .. Len(s) /\ n \in 0 .. Len(s)
      OBVIOUS
    <3>4. (\E i \in 1 .. Len(kept[n - 1]) : kept[n - 1][i] = u)
            <=> (u \notin D /\ \E i \in 1 .. n - 1 : s[i] = u)
      BY <1>3
    <3>5. (\E i \in 1 .. Len(kept[n]) : kept[n][i] = u)
            <=> (u \notin D /\ \E i \in 1 .. n : s[i] = u)
      BY <2>2, <2>4, <3>2, <3>4, Zenon
    <3>. QED
      BY <3>3, <3>5
  <2>. QED
    BY <2>3, <2>4
<1>4. Len(s) \in T
  <2>1. Len(s) \in Nat /\ Len(s) \in 0 .. Len(s)
    OBVIOUS
  <2>. HIDE DEF T
  <2>. QED
    BY <1>2, <1>3, <2>1, UpwardInduction
<1>5. (\E i \in 1 .. Len(EraseIn(s, D)) : EraseIn(s, D)[i] = u)
        <=> (u \notin D /\ \E i \in 1 .. Len(s) : s[i] = u)
  BY <1>1, <1>4
<1>. QED
  BY <1>5 DEF OccursIn

(* There is no new repetition. *)
LEMMA EraseInInjective ==
  ASSUME NEW S, NEW s \in Seq(S), NEW D,
         \A i, j \in 1 .. Len(s) : s[i] = s[j] => i = j
  PROVE  \A i, j \in 1 .. Len(EraseIn(s, D)) : EraseIn(s, D)[i] = EraseIn(s, D)[j] => i = j
<1>1. PICK kept \in [0 .. Len(s) -> Seq(S)] : ErasedBy(kept, s, D)
  BY EraseInLoop
<1>. USE DEF ErasedBy
<1>. DEFINE T == {n \in 0 .. Len(s) :
                    /\ \A i \in 1 .. Len(kept[n]) : \E j \in 1 .. n : kept[n][i] = s[j]
                    /\ \A i, j \in 1 .. Len(kept[n]) : kept[n][i] = kept[n][j] => i = j}
<1>2. 0 \in T
  BY <1>1
<1>3. ASSUME NEW n \in 1 .. Len(s), n - 1 \in T
      PROVE  n \in T
  <2>1. kept[n - 1] \in Seq(S) /\ s[n] \in S
    BY <1>1
  <2>2. CASE s[n] \in D
    BY <1>1, <1>3, <2>2
  <2>3. CASE s[n] \notin D
    <3>1. kept[n] = Append(kept[n - 1], s[n])
      BY <1>1, <2>3
    <3>2. \A i \in 1 .. Len(kept[n - 1]) : kept[n - 1][i] # s[n]
      BY <1>3
    <3>3. \A i, j \in 1 .. Len(kept[n]) : kept[n][i] = kept[n][j] => i = j
      <4>1. /\ Len(kept[n - 1]) \in Nat /\ Len(kept[n]) = Len(kept[n - 1]) + 1
            /\ \A i \in 1 .. Len(kept[n - 1]) : kept[n][i] = kept[n - 1][i]
            /\ kept[n][Len(kept[n])] = s[n]
        BY <2>1, <3>1
      <4>2. \A i \in 1 .. Len(kept[n]) : i \in 1 .. Len(kept[n - 1]) \/ i = Len(kept[n])
        BY <4>1
      <4>3. \A i, j \in 1 .. Len(kept[n - 1]) : kept[n - 1][i] = kept[n - 1][j] => i = j
        BY <1>3
      <4>. QED
        BY <3>2, <4>1, <4>2, <4>3, Zenon
    <3>4. \A i \in 1 .. Len(kept[n]) : \E j \in 1 .. n : kept[n][i] = s[j]
      BY <1>3, <2>1, <3>1
    <3>. QED
      BY <3>3, <3>4
  <2>. QED
    BY <2>2, <2>3
<1>4. Len(s) \in T
  <2>1. Len(s) \in Nat /\ Len(s) \in 0 .. Len(s)
    OBVIOUS
  <2>. HIDE DEF T
  <2>. QED
    BY <1>2, <1>3, <2>1, UpwardInduction
<1>. QED
  BY <1>1, <1>4

LEMMA EraseType ==
  ASSUME NEW S, NEW s \in Seq(S), NEW t
  PROVE  Erase(s, t) \in Seq(S)
BY EraseInType DEF Erase

LEMMA EraseElements ==
  ASSUME NEW S, NEW s \in Seq(S), NEW t, NEW u
  PROVE  OccursIn(u, Erase(s, t)) <=> (u # t /\ OccursIn(u, s))
<1>1. OccursIn(u, EraseIn(s, {t})) <=> (u \notin {t} /\ OccursIn(u, s))
  BY EraseInElements
<1>. QED
  BY <1>1 DEF Erase

LEMMA EraseInjective ==
  ASSUME NEW S, NEW s \in Seq(S), NEW t,
         \A i, j \in 1 .. Len(s) : s[i] = s[j] => i = j
  PROVE  \A i, j \in 1 .. Len(Erase(s, t)) : Erase(s, t)[i] = Erase(s, t)[j] => i = j
BY EraseInInjective DEF Erase

-----------------------------------------------------------------------------
(* The lists *)

LEMMA LevelFacts ==
  /\ \A p \in Level : p \in Nat
  /\ Nullptr \notin Level /\ UnlinkedTag \notin Level
  /\ Nullptr # UnlinkedTag
BY NumQueuesAssumption DEF Level, Nullptr, UnlinkedTag

LEMMA LinkedLevels == \A l : Linked(l) \subseteq Level
BY DEF Linked

-----------------------------------------------------------------------------
(* Linking a level keeps the chain in order, and touches neither the queues nor
   the levels already linked. *)
LEMMA LinkChain ==
  ASSUME NEW l \in Lists, ChainOrdered(l), NEW p \in Level, p \notin Linked(l)
  PROVE  /\ link(l, p) \in Lists
         /\ ChainOrdered(link(l, p))
         /\ link(l, p).data = l.data
         /\ Linked(link(l, p)) = Linked(l) \cup {p}
<1>. DEFINE L == Linked(l)
            below == L \cap (0 .. p - 1)
            nx == l.next_nonempty
            k == link(l, p)
<1>1. /\ p \in Nat /\ 0 .. p - 1 \subseteq Level
      /\ p \notin L /\ \A i \in L : i \in Level /\ i \in Nat
      /\ l.first \in Level \cup {Nullptr}
      /\ nx \in [Level -> Level \cup {Nullptr, UnlinkedTag}]
  BY NumQueuesAssumption DEF Level, Linked, Lists
<1>. HIDE DEF L
<1>2. CASE below = {}
  <2>1. k = [l EXCEPT !.next_nonempty = [nx EXCEPT ![p] = l.first], !.first = p]
    BY <1>2 DEF link, L
  <2>2. /\ k.first = p
        /\ k.data = l.data
        /\ k.next_nonempty = [nx EXCEPT ![p] = l.first]
        /\ k \in Lists
    <3>1. l = [first |-> l.first, next_nonempty |-> nx, data |-> l.data]
      BY DEF Lists
    <3>2. k = [first |-> p, next_nonempty |-> [nx EXCEPT ![p] = l.first], data |-> l.data]
      BY <2>1, <3>1
    <3>3. l.data \in [Level -> Seq(Threads)]
      BY DEF Lists
    <3>. HIDE DEF k
    <3>. QED
      BY <1>1, <3>2, <3>3 DEF Lists
  <2>. HIDE DEF k, L
  <2>3. Linked(k) = L \cup {p}
    BY <1>1, <2>2, LevelFacts DEF Linked, L
  <2>4. \A i \in L : i > p
    BY <1>1, <1>2, LevelFacts
  <2>5. IsNextLinked(Linked(k), p, 0)
    BY <1>1, <2>3, <2>4, LevelFacts DEF IsNextLinked
  <2>6. IsNextLinked(Linked(k), l.first, p + 1)
    BY <1>1, <2>3, <2>4, LevelFacts DEF IsNextLinked, ChainOrdered, L
  <2>7. ASSUME NEW i \in L
        PROVE  IsNextLinked(Linked(k), nx[i], i + 1)
    BY <1>1, <2>3, <2>4, LevelFacts DEF IsNextLinked, ChainOrdered, L
  <2>8. ChainOrdered(k)
    <3>1. k.next_nonempty[p] = l.first /\ \A i \in L : k.next_nonempty[i] = nx[i]
      BY <1>1, <2>2
    <3>. QED
      BY <2>2, <2>3, <2>5, <2>6, <2>7, <3>1 DEF ChainOrdered
  <2>. QED
    BY <2>2, <2>3, <2>8 DEF k, L
<1>3. CASE below # {}
  <2>. DEFINE m == Max(below)
  <2>1. m \in below /\ \A i \in below : m >= i
    <3>1. below \in SUBSET (0 .. p)
      BY <1>1
    <3>. HIDE DEF below
    <3>. QED
      BY <1>1, <1>3, <3>1, MaxProperty
  <2>2. k = [l EXCEPT !.next_nonempty = [nx EXCEPT ![p] = nx[m], ![m] = p]]
    BY <1>3 DEF link, L
  <2>. HIDE DEF m, k
  <2>3. /\ m \in L /\ m < p
        /\ \A i \in L : i <= m \/ i > p
    BY <1>1, <2>1, LevelFacts
  <2>4. nx[m] \in Level \cup {Nullptr}
    BY <1>1, <2>3 DEF Linked, L
  <2>5. /\ k.first = l.first
        /\ k.data = l.data
        /\ k.next_nonempty = [nx EXCEPT ![p] = nx[m], ![m] = p]
        /\ k \in Lists
    BY <1>1, <2>2, <2>4 DEF Lists
  <2>6. Linked(k) = L \cup {p}
    BY <1>1, <2>3, <2>4, <2>5, LevelFacts DEF Linked, L
  <2>7. IsNextLinked(Linked(k), l.first, 0)
    BY <1>1, <2>3, <2>6, LevelFacts DEF IsNextLinked, ChainOrdered, L
  <2>8. IsNextLinked(Linked(k), p, m + 1)
    BY <1>1, <2>3, <2>6, LevelFacts DEF IsNextLinked
  <2>9. IsNextLinked(Linked(k), nx[m], p + 1)
    BY <1>1, <2>3, <2>6, LevelFacts DEF IsNextLinked, ChainOrdered, L
  <2>10. ASSUME NEW i \in L, i # m
         PROVE  IsNextLinked(Linked(k), nx[i], i + 1)
    BY <1>1, <2>3, <2>6, <2>10, LevelFacts DEF IsNextLinked, ChainOrdered, L
  <2>11. ChainOrdered(k)
    BY <1>1, <2>3, <2>5, <2>6, <2>7, <2>8, <2>9, <2>10 DEF ChainOrdered, L
  <2>. QED
    BY <2>5, <2>6, <2>11 DEF k, L
<1>. QED
  BY <1>2, <1>3

LEMMA PrepareChain ==
  ASSUME NEW l \in Lists, ChainOrdered(l), NEW p \in Level
  PROVE  /\ prepare(l, p) \in Lists
         /\ ChainOrdered(prepare(l, p))
         /\ prepare(l, p).data = l.data
         /\ Linked(prepare(l, p)) = Linked(l) \cup {p}
BY LinkChain DEF prepare

-----------------------------------------------------------------------------
(* The linked levels at which the loop of the getters ends. *)
StopsAt(l, stop) == {i \in Linked(l) : i >= stop \/ l.data[i] # << >>}

(* The loop ends at the first of them, or at nullptr when there is none. *)
LEMMA WalkResult ==
  ASSUME NEW l \in Lists, ChainOrdered(l), NEW stop \in Nat
  PROVE  \/ /\ Walk(l, stop) = Nullptr
            /\ StopsAt(l, stop) = {}
         \/ /\ Walk(l, stop) \in StopsAt(l, stop)
            /\ \A i \in StopsAt(l, stop) : Walk(l, stop) <= i
<1>. DEFINE L == Linked(l)
            nx == l.next_nonempty
            S == L \cup {Nullptr}
            Stops == StopsAt(l, stop)
            From(c) == {i \in Stops : i >= c}
            D(g) == [cur \in S |-> IF cur = Nullptr \/ cur >= stop \/ l.data[cur] # << >>
                                   THEN cur ELSE g[nx[cur]]]
            h == [cur \in S |-> IF cur = Nullptr \/ From(cur) = {}
                                THEN Nullptr ELSE Min(From(cur))]
            w == CHOOSE g : g = D(g)
<1>1. /\ \A i \in L : i \in Level /\ i \in Nat
      /\ Nullptr \notin L
      /\ \A i \in Stops : i \in L
      /\ \A i \in L : i \in Stops <=> i >= stop \/ l.data[i] # << >>
  BY LevelFacts DEF Linked, StopsAt
<1>2. \A i \in L : IsNextLinked(L, nx[i], i + 1)
  BY DEF ChainOrdered
<1>3. IsNextLinked(L, l.first, 0)
  BY DEF ChainOrdered
<1>. HIDE DEF L, Stops, nx
<1>4. \A c \in L : nx[c] \in S
  BY <1>2 DEF IsNextLinked
<1>5. ASSUME NEW c \in L, From(c) # {}
      PROVE  Min(From(c)) \in From(c) /\ \A i \in From(c) : Min(From(c)) <= i
  <2>1. From(c) \in SUBSET Nat
    BY <1>1
  <2>. HIDE DEF From
  <2>. QED
    BY <1>5, <2>1, MinProperty
<1>6. ASSUME NEW c \in L
      PROVE  h[c] = IF c \in Stops THEN c ELSE h[nx[c]]
  <2>1. CASE c \in Stops
    <3>1. c \in From(c) /\ h[c] = Min(From(c)) /\ c \in Nat
      BY <1>1, <2>1
    <3>2. h[c] \in From(c) /\ h[c] <= c
      BY <1>5, <3>1
    <3>3. h[c] \in Nat /\ h[c] >= c
      BY <1>1, <3>2
    <3>. HIDE DEF h
    <3>4. h[c] = c
      BY <3>1, <3>2, <3>3
    <3>. QED
      BY <2>1, <3>4
  <2>2. CASE c \notin Stops /\ nx[c] = Nullptr
    <3>1. \A i \in L : i < c + 1
      BY <1>1, <1>2, <2>2 DEF IsNextLinked
    <3>2. From(c) = {}
      BY <1>1, <2>2, <3>1
    <3>. QED
      BY <2>2, <3>2
  <2>3. CASE c \notin Stops /\ nx[c] # Nullptr
    <3>1. nx[c] \in L /\ nx[c] >= c + 1 /\ \A i \in L : i < c + 1 \/ i >= nx[c]
      BY <1>2, <2>3 DEF IsNextLinked
    <3>2. From(c) = From(nx[c])
      BY <1>1, <2>3, <3>1
    <3>3. c # Nullptr /\ nx[c] # Nullptr
      BY <1>1, <3>1
    <3>4. h[c] = h[nx[c]]
      <4>. HIDE DEF From
      <4>. QED
        BY <3>1, <3>2, <3>3
    <3>. HIDE DEF h
    <3>. QED
      BY <2>3, <3>4
  <2>. QED
    BY <1>4, <2>1, <2>2, <2>3
<1>7. h[Nullptr] = Nullptr
  OBVIOUS
<1>8. h = [c \in S |-> h[c]]
  OBVIOUS
<1>. HIDE DEF h
<1>9. h = D(h)
  <2>1. ASSUME NEW c \in S
        PROVE  h[c] = IF c = Nullptr \/ c >= stop \/ l.data[c] # << >>
                      THEN c ELSE h[nx[c]]
    BY <1>1, <1>6, <1>7
  <2>. QED
    BY <1>8, <2>1, Zenon
<1>10. w = D(w)
  <2>. HIDE DEF D
  <2>. QED
    BY <1>9
<1>. HIDE DEF w
<1>11. ASSUME NEW c \in S
       PROVE  w[c] = IF c = Nullptr \/ c \in Stops THEN c ELSE w[nx[c]]
  <2>1. w[c] = IF c = Nullptr \/ c >= stop \/ l.data[c] # << >> THEN c ELSE w[nx[c]]
    BY <1>10, Zenon
  <2>. QED
    BY <1>1, <2>1
<1>. DEFINE B == {c \in L : w[c] # h[c]}
<1>12. B = {}
  <2>. SUFFICES ASSUME B # {}
                PROVE  FALSE
    OBVIOUS
  <2>1. PICK b \in B : \A c \in B : b >= c
    <3>1. NUM_QUEUES \in Nat /\ B \in SUBSET (0 .. NUM_QUEUES)
      BY <1>1, NumQueuesAssumption DEF Level
    <3>. HIDE DEF B
    <3>. QED
      BY <3>1, GreatestNat
  <2>2. b \in L /\ b \in Nat /\ w[b] # h[b] /\ b # Nullptr
    BY <1>1
  <2>3. b \notin Stops
    BY <1>6, <1>11, <2>2
  <2>4. w[b] = w[nx[b]] /\ h[b] = h[nx[b]]
    BY <1>6, <1>11, <2>2, <2>3
  <2>5. CASE nx[b] = Nullptr
    BY <1>7, <1>11, <2>2, <2>4, <2>5
  <2>6. CASE nx[b] # Nullptr
    <3>1. nx[b] \in L /\ nx[b] \in Nat /\ nx[b] >= b + 1
      BY <1>1, <1>2, <2>2, <2>6 DEF IsNextLinked
    <3>2. nx[b] \notin B
      BY <2>1, <2>2, <3>1
    <3>. QED
      BY <2>2, <2>4, <3>1, <3>2
  <2>. QED
    BY <2>5, <2>6
<1>13. Walk(l, stop) = w[l.first]
  BY DEF Walk, w, L, nx
<1>14. CASE l.first = Nullptr
  <2>1. L = {}
    BY <1>1, <1>3, <1>14 DEF IsNextLinked
  <2>2. Stops = {} /\ Walk(l, stop) = Nullptr
    BY <1>1, <1>11, <1>13, <1>14, <2>1
  <2>. QED
    BY <2>2 DEF Stops
<1>15. CASE l.first # Nullptr
  <2>1. l.first \in L /\ \A i \in L : i >= l.first
    BY <1>1, <1>3, <1>15 DEF IsNextLinked
  <2>2. From(l.first) = Stops
    BY <1>1, <2>1
  <2>3. Walk(l, stop) = h[l.first]
    BY <1>12, <1>13, <2>1
  <2>4. h[l.first] = IF Stops = {} THEN Nullptr ELSE Min(From(l.first))
    BY <1>15, <2>1, <2>2 DEF h
  <2>5. CASE Stops = {}
    BY <2>3, <2>4, <2>5 DEF Stops
  <2>6. CASE Stops # {}
    <3>1. Min(From(l.first)) \in From(l.first) /\ \A i \in From(l.first) : Min(From(l.first)) <= i
      BY <1>5, <2>1, <2>2, <2>6
    <3>2. Walk(l, stop) \in Stops /\ \A i \in Stops : Walk(l, stop) <= i
      BY <2>2, <2>3, <2>4, <2>6, <3>1
    <3>. QED
      BY <3>2 DEF Stops
  <2>. QED
    BY <2>5, <2>6
<1>. QED
  BY <1>14, <1>15

-----------------------------------------------------------------------------
(* The invariant, of a list rather than of the variable. *)
Holds(l, t, p) == \E i \in DOMAIN l.data[p] : l.data[p][i] = t

Good(l) ==
  /\ ChainOrdered(l)
  /\ \A p \in Level : l.data[p] # << >> => p \in Linked(l)
  /\ \A t \in Threads, p, r \in Level :
       \A i \in DOMAIN l.data[p], j \in DOMAIN l.data[r] :
         l.data[p][i] = t /\ l.data[r][j] = t => p = r /\ i = j

(* No thread is in s twice. *)
Distinct(s) == \A i, j \in 1 .. Len(s) : s[i] = s[j] => i = j

(* k is l with the queue of level p replaced by s. *)
Replaced(l, k, p, s) ==
  /\ k \in Lists
  /\ Linked(k) = Linked(l)
  /\ ChainOrdered(l) => ChainOrdered(k)
  /\ k.data = [l.data EXCEPT ![p] = s]

LEMMA ReplaceLevel ==
  ASSUME NEW l \in Lists, NEW p \in Level, NEW s \in Seq(Threads),
         NEW k, k = [l EXCEPT !.data = [l.data EXCEPT ![p] = s]]
  PROVE  Replaced(l, k, p, s)
<1>1. /\ l = [first |-> l.first, next_nonempty |-> l.next_nonempty, data |-> l.data]
      /\ l.first \in Level \cup {Nullptr}
      /\ l.next_nonempty \in [Level -> Level \cup {Nullptr, UnlinkedTag}]
      /\ l.data \in [Level -> Seq(Threads)]
  BY DEF Lists
<1>2. k = [first |-> l.first, next_nonempty |-> l.next_nonempty,
           data |-> [l.data EXCEPT ![p] = s]]
  BY <1>1
<1>3. [l.data EXCEPT ![p] = s] \in [Level -> Seq(Threads)]
  BY <1>1
<1>4. k \in Lists
  BY <1>1, <1>2, <1>3 DEF Lists
<1>5. /\ k.first = l.first /\ k.next_nonempty = l.next_nonempty
      /\ k.data = [l.data EXCEPT ![p] = s]
  BY <1>2
<1>6. Linked(k) = Linked(l)
  BY <1>5 DEF Linked
<1>. QED
  BY <1>4, <1>5, <1>6 DEF Replaced, ChainOrdered

LEMMA ReplacedGood ==
  ASSUME NEW l \in Lists, Good(l), NEW p \in Linked(l), NEW s \in Seq(Threads),
         Distinct(s),
         \A i \in 1 .. Len(s) : \A r \in Level : Holds(l, s[i], r) => r = p,
         NEW k, Replaced(l, k, p, s)
  PROVE  Good(k)
<1>1. /\ p \in Level
      /\ l.data \in [Level -> Seq(Threads)]
      /\ k.data = [l.data EXCEPT ![p] = s]
      /\ k.data[p] = s
      /\ \A r \in Level : r # p => k.data[r] = l.data[r]
      /\ DOMAIN s = 1 .. Len(s)
  BY LinkedLevels DEF Lists, Replaced
<1>2. ChainOrdered(k)
  BY DEF Good, Replaced
<1>3. \A r \in Level : k.data[r] # << >> => r \in Linked(k)
  BY <1>1 DEF Good, Replaced
<1>4. ASSUME NEW t \in Threads, NEW r1 \in Level, NEW r2 \in Level,
             NEW i \in DOMAIN k.data[r1], NEW j \in DOMAIN k.data[r2],
             k.data[r1][i] = t, k.data[r2][j] = t
      PROVE  r1 = r2 /\ i = j
  <2>1. CASE r1 = p /\ r2 = p
    BY <1>1, <1>4, <2>1 DEF Distinct
  <2>2. CASE r1 = p /\ r2 # p
    <3>1. Holds(l, t, r2)
      BY <1>1, <1>4, <2>2 DEF Holds
    <3>. QED
      BY <1>1, <1>4, <2>2, <3>1
  <2>3. CASE r1 # p /\ r2 = p
    <3>1. Holds(l, t, r1)
      BY <1>1, <1>4, <2>3 DEF Holds
    <3>. QED
      BY <1>1, <1>4, <2>3, <3>1
  <2>4. CASE r1 # p /\ r2 # p
    BY <1>1, <1>4, <2>4 DEF Good
  <2>. QED
    BY <2>1, <2>2, <2>3, <2>4
<1>. QED
  BY <1>2, <1>3, <1>4 DEF Good

(* A good list holds a thread on one level only, once. *)
LEMMA GoodQueue ==
  ASSUME NEW l \in Lists, Good(l), NEW p \in Level
  PROVE  /\ l.data[p] \in Seq(Threads)
         /\ DOMAIN l.data[p] = 1 .. Len(l.data[p])
         /\ Distinct(l.data[p])
         /\ \A i \in 1 .. Len(l.data[p]) : \A r \in Level : Holds(l, l.data[p][i], r) => r = p
<1>1. l.data[p] \in Seq(Threads) /\ DOMAIN l.data[p] = 1 .. Len(l.data[p])
  BY DEF Lists
<1>2. \A i \in 1 .. Len(l.data[p]) : l.data[p][i] \in Threads
  BY <1>1
<1>3. Distinct(l.data[p])
  BY <1>1, <1>2 DEF Good, Distinct
<1>4. ASSUME NEW i \in 1 .. Len(l.data[p]), NEW r \in Level, Holds(l, l.data[p][i], r)
      PROVE  r = p
  BY <1>1, <1>2, <1>4 DEF Good, Holds
<1>. QED
  BY <1>1, <1>3, <1>4

-----------------------------------------------------------------------------
(* Each operation that replaces one queue keeps a good list good. *)
LEMMA PushGood ==
  ASSUME NEW l \in Lists, Good(l), NEW p \in Linked(l), NEW t \in Threads,
         \A r \in Level : ~ Holds(l, t, r)
  PROVE  /\ Replaced(l, push_front(l, p, t), p, <<t>> \o l.data[p])
         /\ Good(push_front(l, p, t))
         /\ Replaced(l, push_back(l, p, t), p, Append(l.data[p], t))
         /\ Good(push_back(l, p, t))
<1>. DEFINE d == l.data[p]
            s1 == <<t>> \o d
            s2 == Append(d, t)
<1>1. /\ p \in Level
      /\ d \in Seq(Threads)
      /\ DOMAIN d = 1 .. Len(d)
      /\ Distinct(d)
      /\ \A i \in 1 .. Len(d) : \A r \in Level : Holds(l, d[i], r) => r = p
  BY GoodQueue, LinkedLevels
<1>2. \A i \in 1 .. Len(d) : d[i] # t
  BY <1>1 DEF Holds
<1>. HIDE DEF d
<1>3. /\ s1 \in Seq(Threads) /\ s2 \in Seq(Threads)
      /\ Len(s1) = Len(d) + 1 /\ Len(s2) = Len(d) + 1
      /\ \A i \in 1 .. Len(s1) : s1[i] = IF i = 1 THEN t ELSE d[i - 1]
      /\ \A i \in 1 .. Len(s2) : s2[i] = IF i = Len(d) + 1 THEN t ELSE d[i]
  BY <1>1
<1>. HIDE DEF s1, s2
<1>4. Distinct(s1) /\ Distinct(s2)
  <2>1. \A i, j \in 1 .. Len(d) : d[i] = d[j] => i = j
    BY <1>1 DEF Distinct
  <2>2. Len(d) \in Nat
    BY <1>1
  <2>3. ASSUME NEW i \in 1 .. Len(s1), NEW j \in 1 .. Len(s1), s1[i] = s1[j]
        PROVE  i = j
    <3>1. /\ i = 1 \/ (i - 1 \in 1 .. Len(d) /\ s1[i] = d[i - 1])
          /\ j = 1 \/ (j - 1 \in 1 .. Len(d) /\ s1[j] = d[j - 1])
      BY <1>3, <2>2
    <3>2. s1[1] = t
      BY <1>3, <2>2
    <3>. QED
      BY <1>2, <2>1, <2>3, <3>1, <3>2
  <2>4. ASSUME NEW i \in 1 .. Len(s2), NEW j \in 1 .. Len(s2), s2[i] = s2[j]
        PROVE  i = j
    BY <1>2, <1>3, <2>1, <2>2, <2>4
  <2>. QED
    BY <2>3, <2>4 DEF Distinct
<1>5. /\ \A i \in 1 .. Len(s1) : s1[i] = t \/ \E j \in 1 .. Len(d) : s1[i] = d[j]
      /\ \A i \in 1 .. Len(s2) : s2[i] = t \/ \E j \in 1 .. Len(d) : s2[i] = d[j]
  BY <1>1, <1>3
<1>6. /\ \A i \in 1 .. Len(s1) : \A r \in Level : Holds(l, s1[i], r) => r = p
      /\ \A i \in 1 .. Len(s2) : \A r \in Level : Holds(l, s2[i], r) => r = p
  BY <1>1, <1>5
<1>7. Replaced(l, push_front(l, p, t), p, s1)
  <2>1. push_front(l, p, t) = [l EXCEPT !.data = [l.data EXCEPT ![p] = s1]]
    BY DEF push_front, s1, d
  <2>. QED
    BY <1>1, <1>3, <2>1, ReplaceLevel
<1>8. Replaced(l, push_back(l, p, t), p, s2)
  <2>1. push_back(l, p, t) = [l EXCEPT !.data = [l.data EXCEPT ![p] = s2]]
    BY DEF push_back, s2, d
  <2>. QED
    BY <1>1, <1>3, <2>1, ReplaceLevel
<1>9. Good(push_front(l, p, t)) /\ Good(push_back(l, p, t))
  BY <1>3, <1>4, <1>6, <1>7, <1>8, ReplacedGood
<1>. QED
  BY <1>7, <1>8, <1>9 DEF s1, s2, d

LEMMA PopFrontGood ==
  ASSUME NEW l \in Lists, Good(l), NEW p \in Level, l.data[p] # << >>
  PROVE  /\ Replaced(l, PopFront(l, p), p, Tail(l.data[p]))
         /\ Good(PopFront(l, p))
         /\ Head(l.data[p]) \in Threads
<1>. DEFINE d == l.data[p]
            s == Tail(d)
<1>1. /\ p \in Linked(l)
      /\ d \in Seq(Threads) /\ d # << >>
      /\ Distinct(d)
      /\ \A i \in 1 .. Len(d) : \A r \in Level : Holds(l, d[i], r) => r = p
  BY GoodQueue DEF Good
<1>2. PopFront(l, p) = [l EXCEPT !.data = [l.data EXCEPT ![p] = s]]
  BY DEF PopFront
<1>. HIDE DEF d
<1>3. /\ s \in Seq(Threads) /\ Len(s) = Len(d) - 1 /\ Len(d) \in Nat \ {0}
      /\ \A i \in 1 .. Len(s) : s[i] = d[i + 1]
      /\ Head(d) \in Threads
  BY <1>1
<1>. HIDE DEF s
<1>4. Distinct(s)
  BY <1>1, <1>3 DEF Distinct
<1>5. \A i \in 1 .. Len(s) : \A r \in Level : Holds(l, s[i], r) => r = p
  BY <1>1, <1>3
<1>6. Replaced(l, PopFront(l, p), p, s)
  BY <1>2, <1>3, ReplaceLevel
<1>7. Good(PopFront(l, p))
  BY <1>1, <1>3, <1>4, <1>5, <1>6, ReplacedGood
<1>. QED
  BY <1>3, <1>6, <1>7 DEF s, d

LEMMA RotateGood ==
  ASSUME NEW l \in Lists, Good(l), NEW p \in Level, Len(l.data[p]) > 1
  PROVE  /\ Replaced(l, rotate(l, p), p, Append(Tail(l.data[p]), Head(l.data[p])))
         /\ Good(rotate(l, p))
<1>. DEFINE d == l.data[p]
            s == Append(Tail(d), Head(d))
<1>1. /\ d \in Seq(Threads) /\ d # << >> /\ Len(d) > 1
      /\ Distinct(d)
      /\ \A i \in 1 .. Len(d) : \A r \in Level : Holds(l, d[i], r) => r = p
  BY GoodQueue
<1>2. p \in Linked(l)
  BY <1>1 DEF Good
<1>3. rotate(l, p) = [l EXCEPT !.data = [l.data EXCEPT ![p] = s]]
  BY DEF rotate
<1>. HIDE DEF d
<1>4. /\ s \in Seq(Threads) /\ Len(s) = Len(d) /\ Len(d) \in Nat \ {0}
      /\ \A i \in 1 .. Len(s) : s[i] = IF i = Len(d) THEN d[1] ELSE d[i + 1]
  BY <1>1
<1>. HIDE DEF s
<1>5. Distinct(s)
  BY <1>1, <1>4 DEF Distinct
<1>6. \A i \in 1 .. Len(s) : \A r \in Level : Holds(l, s[i], r) => r = p
  BY <1>1, <1>4
<1>7. Replaced(l, rotate(l, p), p, s)
  BY <1>3, <1>4, ReplaceLevel
<1>8. Good(rotate(l, p))
  BY <1>1, <1>2, <1>4, <1>5, <1>6, <1>7, ReplacedGood
<1>. QED
  BY <1>7, <1>8 DEF s, d

(* remove() also leaves the thread on no level. *)
LEMMA RemoveGood ==
  ASSUME NEW l \in Lists, Good(l), NEW t \in Threads, NEW p \in Level, Holds(l, t, p)
  PROVE  /\ Replaced(l, remove(l, p, t), p, Erase(l.data[p], t))
         /\ Good(remove(l, p, t))
         /\ \A r \in Level : ~ Holds(remove(l, p, t), t, r)
<1>. DEFINE d == l.data[p]
            s == Erase(d, t)
            k == remove(l, p, t)
<1>1. /\ d \in Seq(Threads)
      /\ DOMAIN d = 1 .. Len(d)
      /\ Distinct(d)
      /\ \A i \in 1 .. Len(d) : \A r \in Level : Holds(l, d[i], r) => r = p
  BY GoodQueue
<1>2. p \in Linked(l)
  <2>1. d # << >>
    BY <1>1 DEF Holds
  <2>. QED
    BY <2>1 DEF Good
<1>3. k = [l EXCEPT !.data = [l.data EXCEPT ![p] = s]]
  BY DEF remove
<1>4. \A r \in Level : Holds(l, t, r) => r = p
  BY <1>1 DEF Holds
<1>. HIDE DEF d
<1>5. s \in Seq(Threads) /\ DOMAIN s = 1 .. Len(s)
  BY <1>1, EraseType
<1>6. ASSUME NEW u
      PROVE  OccursIn(u, s) <=> (u # t /\ OccursIn(u, d))
  BY <1>1, EraseElements
<1>7. Distinct(s)
  BY <1>1, EraseInjective DEF Distinct
<1>. HIDE DEF s
<1>8. \A i \in 1 .. Len(s) : \A r \in Level : Holds(l, s[i], r) => r = p
  <2>1. \A i \in 1 .. Len(s) : \E j \in 1 .. Len(d) : d[j] = s[i]
    BY <1>6 DEF OccursIn
  <2>. QED
    BY <1>1, <2>1
<1>9. Replaced(l, k, p, s)
  BY <1>3, <1>5, ReplaceLevel
<1>10. Good(k)
  BY <1>2, <1>5, <1>7, <1>8, <1>9, ReplacedGood
<1>. HIDE DEF k
<1>11. ASSUME NEW r \in Level
       PROVE  ~ Holds(k, t, r)
  <2>1. k.data = [l.data EXCEPT ![p] = s] /\ l.data \in [Level -> Seq(Threads)]
    BY <1>9 DEF Replaced, Lists
  <2>2. CASE r = p
    BY <1>5, <1>6, <2>1, <2>2 DEF Holds, OccursIn
  <2>3. CASE r # p
    BY <1>4, <2>1, <2>3 DEF Holds
  <2>. QED
    BY <2>2, <2>3
<1>. QED
  BY <1>9, <1>10, <1>11 DEF k, s, d

LEMMA MoveGood ==
  ASSUME NEW l \in Lists, Good(l), NEW t \in Threads,
         NEW old \in Level, NEW new \in Level, Holds(l, t, old)
  PROVE  /\ move(l, t, old, new) \in Lists
         /\ Good(move(l, t, old, new))
         /\ LET without == [l.data EXCEPT ![old] = Erase(@, t)]
            IN  move(l, t, old, new).data = [without EXCEPT ![new] = Append(@, t)]
<1>. DEFINE a == remove(l, old, t)
            b == prepare(a, new)
            c == push_back(b, new, t)
<1>1. /\ Replaced(l, a, old, Erase(l.data[old], t))
      /\ Good(a)
      /\ \A r \in Level : ~ Holds(a, t, r)
  BY RemoveGood
<1>2. /\ a \in Lists
      /\ a.data = [l.data EXCEPT ![old] = Erase(l.data[old], t)]
  BY <1>1 DEF Replaced
<1>. HIDE DEF a
<1>3. /\ b \in Lists /\ ChainOrdered(b) /\ b.data = a.data
      /\ Linked(b) = Linked(a) \cup {new}
  BY <1>1, <1>2, PrepareChain DEF Good
<1>. HIDE DEF b
<1>4. Good(b)
  BY <1>1, <1>3 DEF Good
<1>5. \A r \in Level : ~ Holds(b, t, r)
  BY <1>1, <1>3 DEF Holds
<1>6. Replaced(b, c, new, Append(b.data[new], t)) /\ Good(c)
  BY <1>3, <1>4, <1>5, PushGood
<1>7. c \in Lists /\ c.data = [b.data EXCEPT ![new] = Append(b.data[new], t)]
  BY <1>6 DEF Replaced
<1>8. c = move(l, t, old, new)
  BY DEF move, c, b, a
<1>. QED
  BY <1>2, <1>3, <1>6, <1>7, <1>8

(* The walk of a pop finds the most urgent queued thread below its stop. *)
LEMMA WalkFindsBest ==
  ASSUME NEW l \in Lists, Good(l), NEW stop \in 0 .. NUM_QUEUES
  PROVE  LET w    == Walk(l, stop)
             busy == {p \in 0 .. stop - 1 : l.data[p] # << >>}
         IN  \/ busy = {} /\ w \notin 0 .. stop - 1
             \/ w \in busy /\ w \in Level /\ \A i \in busy : w <= i
<1>. DEFINE w == Walk(l, stop)
            busy == {p \in 0 .. stop - 1 : l.data[p] # << >>}
            Stops == StopsAt(l, stop)
<1>1. /\ stop \in Nat /\ \A i \in 0 .. stop - 1 : i \in Level /\ i \in Nat
      /\ \A i \in Level : i \in Nat
      /\ Nullptr \notin 0 .. stop - 1
  BY NumQueuesAssumption DEF Level, Nullptr
<1>2. \/ w = Nullptr /\ Stops = {}
      \/ w \in Stops /\ \A i \in Stops : w <= i
  BY <1>1, WalkResult DEF Good
<1>3. \A i \in busy : i \in Stops
  BY <1>1 DEF Good, StopsAt
<1>4. \A i \in Stops : i \in Level /\ (i >= stop \/ i \in busy)
  BY <1>1, LinkedLevels DEF StopsAt
<1>. HIDE DEF w, Stops
<1>5. CASE w = Nullptr /\ Stops = {}
  BY <1>1, <1>3, <1>5 DEF w
<1>6. CASE w \in Stops /\ busy = {}
  <2>1. w \in Nat /\ w >= stop
    BY <1>1, <1>4, <1>6
  <2>2. w \notin 0 .. stop - 1
    BY <1>1, <2>1
  <2>. QED
    BY <1>6, <2>2 DEF w
<1>7. CASE w \in Stops /\ busy # {} /\ \A i \in Stops : w <= i
  <2>1. PICK i \in busy : TRUE
    BY <1>7
  <2>2. w \in Nat /\ w <= i /\ i < stop
    BY <1>1, <1>3, <1>4, <1>7, <2>1
  <2>3. w \in busy
    BY <1>1, <1>4, <1>7, <2>1, <2>2
  <2>. QED
    BY <1>3, <1>4, <1>7, <2>3 DEF w
<1>. QED
  BY <1>2, <1>5, <1>6, <1>7

(* Both pops do what the priority queue promises. *)
Pops(l, k, stop, t) ==
  LET busy == {p \in 0 .. stop - 1 : l.data[p] # << >>}
  IN  \/ busy = {} /\ t = NoThread /\ k = l
      \/ \E p \in busy : /\ \A i \in busy : p <= i
                         /\ t = Head(l.data[p])
                         /\ t \in Threads
                         /\ k.data = [l.data EXCEPT ![p] = Tail(@)]

LEMMA PopGood ==
  ASSUME NEW l \in Lists, Good(l), NEW stop \in 0 .. NUM_QUEUES
  PROVE  /\ pop_first_better(l, stop) \in Lists
         /\ Good(pop_first_better(l, stop))
         /\ Pops(l, pop_first_better(l, stop), stop, get_first_better(l, stop))
<1>. DEFINE w == Walk(l, stop)
            busy == {p \in 0 .. stop - 1 : l.data[p] # << >>}
            k == pop_first_better(l, stop)
            t == get_first_better(l, stop)
<1>1. \/ busy = {} /\ w \notin 0 .. stop - 1
      \/ w \in busy /\ w \in Level /\ \A i \in busy : w <= i
  BY WalkFindsBest
<1>2. CASE busy = {} /\ w \notin 0 .. stop - 1
  <2>1. k = l /\ t = NoThread
    BY <1>2 DEF pop_first_better, get_first_better
  <2>. HIDE DEF k, t
  <2>. QED
    BY <1>2, <2>1 DEF k, t, Pops
<1>3. CASE w \in busy /\ w \in Level /\ \A i \in busy : w <= i
  <2>1. k = PopFront(l, w) /\ t = Head(l.data[w]) /\ l.data[w] # << >>
    BY <1>3 DEF pop_first_better, get_first_better
  <2>. HIDE DEF k, t, w
  <2>2. /\ Replaced(l, k, w, Tail(l.data[w]))
        /\ Good(k)
        /\ t \in Threads
    BY <1>3, <2>1, PopFrontGood
  <2>3. k \in Lists /\ k.data = [l.data EXCEPT ![w] = Tail(l.data[w])]
    BY <2>2 DEF Replaced
  <2>4. Pops(l, k, stop, t)
    BY <1>3, <2>1, <2>2, <2>3 DEF Pops
  <2>. QED
    BY <2>2, <2>3, <2>4 DEF k, t
<1>. QED
  BY <1>1, <1>2, <1>3

LEMMA PopFirstGood ==
  ASSUME NEW l \in Lists, Good(l)
  PROVE  /\ pop_first(l) = pop_first_better(l, NUM_QUEUES)
         /\ get_first(l) = get_first_better(l, NUM_QUEUES)
<1>. DEFINE w == Walk(l, NUM_QUEUES)
<1>1. w = Nullptr \/ w \in Linked(l)
  BY WalkResult, NumQueuesAssumption DEF Good, StopsAt
<1>2. w = Nullptr <=> w \notin 0 .. NUM_QUEUES - 1
  BY <1>1, LinkedLevels, LevelFacts DEF Level
<1>. QED
  BY <1>2 DEF pop_first, pop_first_better, get_first, get_first_better

LEMMA EmptyGood == EmptyList \in Lists /\ Good(EmptyList)
<1>1. EmptyList \in Lists
  BY DEF EmptyList, Lists
<1>2. /\ EmptyList.first = Nullptr
      /\ EmptyList.next_nonempty = [p \in Level |-> UnlinkedTag]
      /\ \A p \in Level : EmptyList.data[p] = << >>
  BY DEF EmptyList
<1>3. Linked(EmptyList) = {}
  BY <1>2 DEF Linked
<1>4. ChainOrdered(EmptyList)
  BY <1>2, <1>3 DEF ChainOrdered, IsNextLinked
<1>5. \A p \in Level : DOMAIN EmptyList.data[p] = {}
  BY <1>2
<1>. QED
  BY <1>1, <1>2, <1>4, <1>5 DEF Good

-----------------------------------------------------------------------------
(***************************************************************************)
(* The same operations by the places of one thread: m is a good list that  *)
(* holds t at the levels in where, and the other threads where l does.     *)
(***************************************************************************)
Updates(l, m, t, where) ==
  /\ m \in Lists /\ Good(m)
  /\ Linked(l) \subseteq Linked(m)
  /\ \A u \in Threads, r \in Level :
       Holds(m, u, r) <=> IF u = t THEN r \in where ELSE Holds(l, u, r)

LEMMA PrepareUpdates ==
  ASSUME NEW l \in Lists, Good(l), NEW p \in Level
  PROVE  /\ prepare(l, p) \in Lists /\ Good(prepare(l, p))
         /\ Linked(prepare(l, p)) = Linked(l) \cup {p}
         /\ \A u, r : Holds(prepare(l, p), u, r) <=> Holds(l, u, r)
<1>1. /\ prepare(l, p) \in Lists
      /\ ChainOrdered(prepare(l, p))
      /\ prepare(l, p).data = l.data
      /\ Linked(prepare(l, p)) = Linked(l) \cup {p}
  BY PrepareChain DEF Good
<1>. QED
  BY <1>1 DEF Good, Holds

LEMMA PushUpdates ==
  ASSUME NEW l \in Lists, Good(l), NEW p \in Linked(l), NEW t \in Threads,
         \A r \in Level : ~ Holds(l, t, r)
  PROVE  /\ Updates(l, push_front(l, p, t), t, {p})
         /\ Updates(l, push_back(l, p, t), t, {p})
<1>1. /\ Replaced(l, push_front(l, p, t), p, <<t>> \o l.data[p])
      /\ Good(push_front(l, p, t))
      /\ Replaced(l, push_back(l, p, t), p, Append(l.data[p], t))
      /\ Good(push_back(l, p, t))
  BY PushGood
<1>2. p \in Level /\ l.data \in [Level -> Seq(Threads)]
  BY LinkedLevels DEF Lists
<1>3. ASSUME NEW s \in Seq(Threads), NEW m, Replaced(l, m, p, s), Good(m),
             \A u : OccursIn(u, s) <=> (u = t \/ OccursIn(u, l.data[p]))
      PROVE  Updates(l, m, t, {p})
  <2>1. m.data = [l.data EXCEPT ![p] = s] /\ m \in Lists /\ Linked(m) = Linked(l)
    BY <1>3 DEF Replaced
  <2>2. ASSUME NEW u \in Threads, NEW r \in Level
        PROVE  Holds(m, u, r) <=> IF u = t THEN r \in {p} ELSE Holds(l, u, r)
    <3>1. CASE r = p
      <4>1. Holds(m, u, r) <=> OccursIn(u, s)
        BY <1>2, <2>1, <3>1 DEF Holds, OccursIn
      <4>2. Holds(l, u, r) <=> OccursIn(u, l.data[p])
        BY <1>2, <3>1 DEF Holds, OccursIn
      <4>. QED
        BY <1>3, <3>1, <4>1, <4>2
    <3>2. CASE r # p
      BY <1>2, <2>1, <3>2 DEF Holds
    <3>. QED
      BY <3>1, <3>2
  <2>. QED
    BY <1>3, <2>1, <2>2 DEF Updates
<1>4. Updates(l, push_back(l, p, t), t, {p})
  <2>. DEFINE d == l.data[p]
              s == Append(d, t)
  <2>1. d \in Seq(Threads)
    BY <1>2
  <2>. HIDE DEF d
  <2>2. s \in Seq(Threads) /\ Len(s) = Len(d) + 1 /\ s[Len(s)] = t
        /\ (\A i \in 1 .. Len(d) : s[i] = d[i]) /\ Len(d) \in Nat
    BY <2>1
  <2>. HIDE DEF s
  <2>3. \A u : OccursIn(u, s) <=> (u = t \/ OccursIn(u, d))
    BY <2>2 DEF OccursIn
  <2>. QED
    BY <1>1, <1>3, <2>2, <2>3 DEF d, s
<1>5. Updates(l, push_front(l, p, t), t, {p})
  <2>. DEFINE d == l.data[p]
              s == <<t>> \o d
  <2>1. d \in Seq(Threads) /\ <<t>> \in Seq(Threads) /\ Len(<<t>>) = 1 /\ <<t>>[1] = t
    BY <1>2
  <2>. HIDE DEF d
  <2>2. s \in Seq(Threads) /\ Len(s) = Len(d) + 1 /\ s[1] = t
        /\ (\A i \in 1 .. Len(d) : s[i + 1] = d[i]) /\ Len(d) \in Nat
    BY <2>1
  <2>. HIDE DEF s
  <2>3. \A u : OccursIn(u, s) <=> (u = t \/ OccursIn(u, d))
    <3>1. ASSUME NEW u, OccursIn(u, s) PROVE u = t \/ OccursIn(u, d)
      <4>1. PICK i \in 1 .. Len(s) : s[i] = u
        BY <3>1 DEF OccursIn
      <4>2. i = 1 \/ (i - 1 \in 1 .. Len(d) /\ (i - 1) + 1 = i)
        BY <2>2
      <4>. QED
        BY <2>2, <4>1, <4>2 DEF OccursIn
    <3>2. ASSUME NEW u, u = t \/ OccursIn(u, d) PROVE OccursIn(u, s)
      BY <2>2, <3>2 DEF OccursIn
    <3>. QED
      BY <3>1, <3>2
  <2>. QED
    BY <1>1, <1>3, <2>2, <2>3 DEF d, s
<1>. QED
  BY <1>4, <1>5

(* remove() of a thread that may be at that level only. *)
LEMMA RemoveUpdates ==
  ASSUME NEW l \in Lists, Good(l), NEW p \in Level, NEW t \in Threads,
         \A r \in Level : Holds(l, t, r) => r = p
  PROVE  Updates(l, remove(l, p, t), t, {})
<1>. DEFINE d == l.data[p]
            s == Erase(d, t)
            m == remove(l, p, t)
<1>1. d \in Seq(Threads) /\ DOMAIN d = 1 .. Len(d) /\ l.data \in [Level -> Seq(Threads)]
  BY DEF Lists
<1>2. m = [l EXCEPT !.data = [l.data EXCEPT ![p] = s]]
  BY DEF remove
<1>. HIDE DEF d
<1>3. s \in Seq(Threads) /\ DOMAIN s = 1 .. Len(s)
  BY <1>1, EraseType
<1>4. ASSUME NEW u PROVE OccursIn(u, s) <=> (u # t /\ OccursIn(u, d))
  BY <1>1, EraseElements
<1>5. Replaced(l, m, p, s)
  BY <1>2, <1>3, ReplaceLevel
<1>6. Good(m)
  <2>1. CASE Holds(l, t, p)
    BY <2>1, RemoveGood
  <2>2. CASE ~ Holds(l, t, p)
    <3>1. /\ Distinct(d)
          /\ \A i \in 1 .. Len(d) : \A r \in Level : Holds(l, d[i], r) => r = p
      BY GoodQueue DEF d
    <3>2. Distinct(s)
      BY <1>1, <3>1, EraseInjective DEF Distinct
    <3>3. \A i \in 1 .. Len(s) : \A r \in Level : Holds(l, s[i], r) => r = p
      <4>1. \A i \in 1 .. Len(s) : \E j \in 1 .. Len(d) : d[j] = s[i]
        BY <1>4 DEF OccursIn
      <4>. QED
        BY <3>1, <4>1
    <3>4. CASE p \in Linked(l)
      BY <1>3, <1>5, <3>2, <3>3, <3>4, ReplacedGood
    <3>5. CASE p \notin Linked(l)
      <4>1. d = << >>
        BY <3>5 DEF Good, d
      <4>2. s = << >>
        <5>. HIDE DEF s
        <5>1. ASSUME NEW i \in 1 .. Len(s) PROVE FALSE
          <6>1. OccursIn(s[i], d)
            BY <1>4 DEF OccursIn
          <6>2. Len(d) = 0
            BY <4>1
          <6>. QED
            BY <6>1, <6>2 DEF OccursIn
        <5>. QED
          BY <1>3, <5>1
      <4>3. m.data = l.data
        <5>1. m.data = [l.data EXCEPT ![p] = s]
          BY <1>5 DEF Replaced
        <5>2. l.data[p] = s
          BY <4>1, <4>2 DEF d
        <5>. HIDE DEF s, m
        <5>. QED
          BY <1>1, <5>1, <5>2
      <4>. QED
        BY <1>5, <4>3 DEF Good, Replaced
    <3>. QED
      BY <3>4, <3>5
  <2>. QED
    BY <2>1, <2>2
<1>. HIDE DEF s, m
<1>7. ASSUME NEW u \in Threads, NEW r \in Level
      PROVE  Holds(m, u, r) <=> IF u = t THEN r \in {} ELSE Holds(l, u, r)
  <2>1. m.data = [l.data EXCEPT ![p] = s]
    BY <1>5 DEF Replaced
  <2>2. CASE r = p
    <3>1. Holds(m, u, r) <=> OccursIn(u, s)
      BY <1>1, <1>3, <2>1, <2>2 DEF Holds, OccursIn
    <3>2. Holds(l, u, r) <=> OccursIn(u, d)
      BY <1>1, <2>2 DEF Holds, OccursIn, d
    <3>. QED
      BY <1>4, <3>1, <3>2
  <2>3. CASE r # p
    BY <1>1, <2>1, <2>3 DEF Holds
  <2>. QED
    BY <2>2, <2>3
<1>. QED
  BY <1>5, <1>6, <1>7 DEF Updates, Replaced, m

LEMMA MoveUpdates ==
  ASSUME NEW l \in Lists, Good(l), NEW t \in Threads,
         NEW old \in Level, NEW new \in Level,
         \A r \in Level : Holds(l, t, r) => r = old
  PROVE  /\ Updates(l, move(l, t, old, new), t, {new})
         /\ new \in Linked(move(l, t, old, new))
<1>. DEFINE a == remove(l, old, t)
            b == prepare(a, new)
            c == push_back(b, new, t)
<1>1. Updates(l, a, t, {})
  BY RemoveUpdates
<1>. HIDE DEF a
<1>2. /\ b \in Lists /\ Good(b) /\ Linked(b) = Linked(a) \cup {new}
      /\ \A u, r : Holds(b, u, r) <=> Holds(a, u, r)
  BY <1>1, PrepareUpdates DEF Updates
<1>. HIDE DEF b
<1>3. new \in Linked(b) /\ \A r \in Level : ~ Holds(b, t, r)
  BY <1>1, <1>2 DEF Updates
<1>4. Updates(b, c, t, {new})
  BY <1>2, <1>3, PushUpdates
<1>5. c = move(l, t, old, new)
  BY DEF c, b, a, move
<1>. HIDE DEF c
<1>. QED
  BY <1>1, <1>2, <1>3, <1>4, <1>5 DEF Updates

(* A pop below stop takes a thread that is queued there, or finds none. *)
LEMMA PopUpdates ==
  ASSUME NEW l \in Lists, Good(l), NEW stop \in 0 .. NUM_QUEUES
  PROVE  LET t == get_first_better(l, stop)
             m == pop_first_better(l, stop)
         IN  \/ t = NoThread /\ m = l
             \/ /\ t \in Threads /\ Updates(l, m, t, {})
                /\ \E p \in Level : Holds(l, t, p)
<1>. DEFINE t == get_first_better(l, stop)
            m == pop_first_better(l, stop)
            w == Walk(l, stop)
<1>1. m \in Lists /\ Good(m)
  BY PopGood
<1>2. CASE w \notin 0 .. stop - 1
  BY <1>2 DEF get_first_better, pop_first_better
<1>3. CASE w \in 0 .. stop - 1
  <2>1. w \in Level /\ l.data[w] # << >>
    BY <1>3, WalkFindsBest
  <2>2. t = Head(l.data[w]) /\ m = PopFront(l, w)
    BY <1>3 DEF get_first_better, pop_first_better
  <2>3. Replaced(l, m, w, Tail(l.data[w])) /\ t \in Threads
    BY <2>1, <2>2, PopFrontGood
  <2>. HIDE DEF m, t, w
  <2>. DEFINE d == l.data[w]
              s == Tail(d)
  <2>4. d \in Seq(Threads) /\ d # << >> /\ l.data \in [Level -> Seq(Threads)]
    BY <2>1 DEF Lists
  <2>5. /\ Distinct(d)
        /\ \A i \in 1 .. Len(d) : \A r \in Level : Holds(l, d[i], r) => r = w
    BY <2>1, GoodQueue
  <2>6. m.data = [l.data EXCEPT ![w] = s] /\ Linked(m) = Linked(l)
    BY <2>3 DEF Replaced
  <2>7. t = d[1] /\ 1 \in 1 .. Len(d)
    BY <2>2, <2>4
  <2>. HIDE DEF d
  <2>8. /\ s \in Seq(Threads) /\ Len(s) = Len(d) - 1 /\ Len(d) \in Nat
        /\ \A i \in 1 .. Len(s) : s[i] = d[i + 1]
    BY <2>4
  <2>. HIDE DEF s
  <2>9. \A u : OccursIn(u, s) <=> (u # t /\ OccursIn(u, d))
    <3>1. ASSUME NEW u, OccursIn(u, s) PROVE u # t /\ OccursIn(u, d)
      <4>1. PICK i \in 1 .. Len(s) : s[i] = u
        BY <3>1 DEF OccursIn
      <4>2. i + 1 \in 1 .. Len(d) /\ i + 1 # 1 /\ d[i + 1] = u
        BY <2>8, <4>1
      <4>. QED
        BY <2>5, <2>7, <4>2 DEF OccursIn, Distinct
    <3>2. ASSUME NEW u, u # t, OccursIn(u, d) PROVE OccursIn(u, s)
      <4>1. PICK i \in 1 .. Len(d) : d[i] = u
        BY <3>2 DEF OccursIn
      <4>2. i # 1
        BY <2>7, <3>2, <4>1
      <4>3. i - 1 \in 1 .. Len(s) /\ (i - 1) + 1 = i
        BY <2>8, <4>2
      <4>. QED
        BY <2>8, <4>1, <4>3 DEF OccursIn
    <3>. QED
      BY <3>1, <3>2
  <2>10. Holds(l, t, w) /\ \A r \in Level : Holds(l, t, r) => r = w
    BY <2>4, <2>5, <2>7 DEF Holds, d
  <2>11. ASSUME NEW u \in Threads, NEW r \in Level
         PROVE  Holds(m, u, r) <=> IF u = t THEN r \in {} ELSE Holds(l, u, r)
    <3>1. CASE r = w
      <4>1. Holds(m, u, r) <=> OccursIn(u, s)
        BY <2>4, <2>6, <2>8, <3>1 DEF Holds, OccursIn
      <4>2. Holds(l, u, r) <=> OccursIn(u, d)
        BY <2>4, <3>1 DEF Holds, OccursIn, d
      <4>. QED
        BY <2>9, <4>1, <4>2
    <3>2. CASE r # w
      BY <2>4, <2>6, <2>10, <3>2 DEF Holds
    <3>. QED
      BY <3>1, <3>2
  <2>. QED
    BY <1>1, <2>1, <2>3, <2>6, <2>10, <2>11 DEF Updates, t, m
<1>. QED
  BY <1>2, <1>3

(* pop_first pops below the end of the levels. *)
LEMMA PopFirstUpdates ==
  ASSUME NEW l \in Lists, Good(l)
  PROVE  \/ get_first(l) = NoThread /\ pop_first(l) = l
         \/ /\ get_first(l) \in Threads /\ Updates(l, pop_first(l), get_first(l), {})
            /\ \E p \in Level : Holds(l, get_first(l), p)
BY PopUpdates, PopFirstGood, NumQueuesAssumption
=============================================================================
