--------------------------- MODULE HostBuffersProofs ---------------------------
(***************************************************************************)
(* The buffers between host threads keep what is put into them, for any    *)
(* number of threads and any sizes.                                        *)
(***************************************************************************)
EXTENDS HostBuffers, Sequences, TLAPS

-----------------------------------------------------------------------------
(* Indices into arrays that are used as rings *)

(* Quotient and remainder. *)
LEMMA DivMod ==
  ASSUME NEW c \in Nat \ {0}, NEW n \in Nat
  PROVE  /\ n % c \in 0 .. c - 1 /\ n \div c \in Nat
         /\ n = c * (n \div c) + (n % c)
<1>1. n % c \in 0 .. c - 1
  OBVIOUS
<1>2. n \div c \in Int
  OBVIOUS
<1>3. n = c * (n \div c) + (n % c)
  OBVIOUS
<1>. QED
  BY <1>1, <1>2, <1>3

(* Different multiples of c are at least c apart. *)
LEMMA MultiplesApart ==
  ASSUME NEW c \in Nat \ {0}, NEW p \in Int, NEW q \in Int, p < q
  PROVE  c * q >= c * p + c
<1>1. q - p >= 1
  OBVIOUS
<1>2. c * (q - p) >= c
  BY <1>1
<1>3. c * (q - p) = c * q - c * p
  OBVIOUS
<1>. QED
  BY <1>2, <1>3

(* Indices that are less than a round apart are different slots of the array. *)
LEMMA ModDistinct ==
  ASSUME NEW c \in Nat \ {0}, NEW m \in Nat, NEW n \in Nat, m < n, n < m + c
  PROVE  m % c # n % c
<1>. SUFFICES ASSUME m % c = n % c PROVE FALSE
  OBVIOUS
<1>1. PICK p \in Nat, q \in Nat, r \in 0 .. c - 1 : m = c * p + r /\ n = c * q + r
  <2>1. /\ m % c \in 0 .. c - 1 /\ m \div c \in Nat
        /\ m = c * (m \div c) + (m % c)
    BY DivMod, Zenon
  <2>2. n \div c \in Nat /\ n = c * (n \div c) + (n % c)
    BY DivMod, Zenon
  <2>. QED
    BY <2>1, <2>2, Zenon
<1>2. ~ p < q
  BY <1>1, MultiplesApart
<1>3. ~ q < p
  BY <1>1, MultiplesApart
<1>. QED
  BY <1>1, <1>2, <1>3

(* A sequence that counts, continued by one that counts on *)
LEMMA CountOn ==
  ASSUME NEW s \in Seq(Nat), NEW t \in Seq(Nat), NEW d \in Nat,
         \A k \in 1 .. Len(s) : s[k] = k - d,
         \A k \in 1 .. Len(t) : t[k] = Len(s) + k - d
  PROVE  /\ s \o t \in Seq(Nat) /\ Len(s \o t) = Len(s) + Len(t)
         /\ \A k \in 1 .. Len(s \o t) : (s \o t)[k] = k - d
<1>1. s \o t \in Seq(Nat) /\ Len(s \o t) = Len(s) + Len(t)
  OBVIOUS
<1>2. SUFFICES ASSUME NEW k \in 1 .. Len(s) + Len(t)
               PROVE  (s \o t)[k] = k - d
  BY <1>1
<1>3. (s \o t)[k] = IF k <= Len(s) THEN s[k] ELSE t[k - Len(s)]
  OBVIOUS
<1>. QED
  BY <1>3

-----------------------------------------------------------------------------
(* RingBuffer *)

CopyLabels == {"idle", "first", "second", "store"}

RingFields == {"m_data", "m_read_index", "m_write_index", "push", "pop", "offered", "out"}

(* An operation works on the index it has loaded, and on slots that are its own. *)
CopyInStep(op, index, room) ==
  /\ DOMAIN op = {"at", "index", "count"} /\ op.at \in CopyLabels
  /\ op.at # "idle" => op.index = index /\ op.count \in Nat /\ op.count <= room

RingTyped ==
  /\ DOMAIN host = RingFields
  /\ host.m_read_index \in Nat /\ host.m_write_index \in Nat
  /\ host.m_read_index <= host.m_write_index
  /\ host.m_write_index <= host.m_read_index + capacity
  /\ CopyInStep(host.push, host.m_write_index, capacity + host.m_read_index - host.m_write_index)
  /\ CopyInStep(host.pop, host.m_read_index, host.m_write_index - host.m_read_index)

(* The slots an operation has copied *)
Copied(op) ==
  IF op.at = "second" THEN Ring!FirstCopy(op) ELSE IF op.at = "store" THEN op.count ELSE 0

(* What was copied in and is not yet out is in its place. *)
RingHoldsPushed ==
  \A n \in host.m_read_index .. host.m_write_index + Copied(host.push) - 1 :
    host.m_data[n % capacity] = n

OutIsPrefix ==
  /\ host.out \in Seq(Nat) /\ Len(host.out) = host.m_read_index + Copied(host.pop)
  /\ \A k \in 1 .. Len(host.out) : host.out[k] = k - 1

RingInv == RingTyped /\ RingHoldsPushed /\ OutIsPrefix

(* The part of a copy before the end of the array is no longer than the copy. *)
LEMMA FirstCopyBounded ==
  ASSUME NEW op, op.index \in Nat, op.count \in Nat
  PROVE  Ring!FirstCopy(op) \in Nat /\ Ring!FirstCopy(op) <= op.count
<1>1. op.index % capacity \in 0 .. capacity - 1
  BY DivMod, RingConstants, Zenon
<1>. QED
  BY <1>1, RingConstants DEF Ring!FirstCopy, Ring!MinOf

(* An empty ring buffer satisfies the invariant. *)
LEMMA RingInit == Ring!RingBufferInit => RingInv
<1>. SUFFICES ASSUME Ring!RingBufferInit PROVE RingInv
  OBVIOUS
<1>1. RingTyped /\ host.push.at = "idle" /\ host.pop.at = "idle"
  BY RingConstants DEF Ring!RingBufferInit, Ring!NoCopy, RingTyped, RingFields, CopyInStep, CopyLabels
<1>. QED
  BY <1>1, RingConstants
  DEF Ring!RingBufferInit, RingInv, RingTyped, RingHoldsPushed, OutIsPrefix, Copied

(* Where it holds, what was popped is in order and no slot is copied in and out at once. *)
LEMMA RingSafe == RingInv => Ring!InOrder /\ Ring!NoRace
<1>. SUFFICES ASSUME RingInv PROVE Ring!InOrder /\ Ring!NoRace
  OBVIOUS
<1>1. Ring!InOrder
  BY DEF RingInv, OutIsPrefix, Ring!InOrder
<1>2. SUFFICES ASSUME host.push.at \in {"first", "second"}, host.pop.at \in {"first", "second"},
                      NEW j \in 0 .. host.push.count - 1, NEW k \in 0 .. host.pop.count - 1
               PROVE  Ring!Slot(host.push.index, j) # Ring!Slot(host.pop.index, k)
  BY <1>1 DEF Ring!NoRace, Ring!Span
<1>3. /\ host.push.index = host.m_write_index /\ host.pop.index = host.m_read_index
      /\ host.push.count <= capacity + host.m_read_index - host.m_write_index
      /\ host.pop.count <= host.m_write_index - host.m_read_index
      /\ host.push.count \in Nat /\ host.pop.count \in Nat
      /\ host.m_read_index \in Nat /\ host.m_write_index \in Nat
  BY <1>2 DEF RingInv, RingTyped, CopyInStep
<1>4. PICK m \in Nat, n \in Nat : m = host.m_read_index + k /\ n = host.m_write_index + j
  BY <1>3
<1>5. m < n /\ n < m + capacity
  BY <1>3, <1>4, RingConstants
<1>6. m % capacity # n % capacity
  BY <1>5, ModDistinct, RingConstants, Zenon
<1>. QED
  BY <1>3, <1>4, <1>6 DEF Ring!Slot

(* A copy into the buffer leaves what is still to be popped alone. *)
LEMMA CopyInPlace ==
  ASSUME RingInv, host.push.at # "idle",
         NEW from \in Nat, NEW count \in Nat, from + count <= host.push.count,
         from = Copied(host.push)
  PROVE  \A n \in host.m_read_index .. host.m_write_index + from + count - 1 :
           Ring!CopyIn(from, count)[n % capacity] = n
<1>1. /\ host.push.index = host.m_write_index /\ host.push.count \in Nat
      /\ host.push.count <= capacity + host.m_read_index - host.m_write_index
      /\ host.m_read_index \in Nat /\ host.m_write_index \in Nat
      /\ host.m_read_index <= host.m_write_index
  BY DEF RingInv, RingTyped, CopyInStep
<1>. SUFFICES ASSUME NEW n \in host.m_read_index .. host.m_write_index + from + count - 1
              PROVE  Ring!CopyIn(from, count)[n % capacity] = n
  OBVIOUS
<1>2. n \in Nat /\ n % capacity \in 0 .. capacity - 1
  BY <1>1, DivMod, RingConstants
<1>3. \A k \in from .. from + count - 1 :
        Ring!Slot(host.push.index, k) = n % capacity => host.push.index + k = n
  <2>. SUFFICES ASSUME NEW k \in from .. from + count - 1,
                       Ring!Slot(host.push.index, k) = n % capacity
                PROVE  host.push.index + k = n
    OBVIOUS
  <2>1. PICK m \in Nat : m = host.push.index + k /\ m % capacity = n % capacity
    BY <1>1 DEF Ring!Slot
  <2>2. m < n + capacity /\ n < m + capacity
    BY <1>1, <2>1, RingConstants
  <2>3. ~ m < n /\ ~ n < m
    BY <1>2, <2>1, <2>2, ModDistinct, RingConstants, Zenon
  <2>4. n \in Nat /\ m = host.push.index + k
    BY <1>2, <2>1, Zenon
  <2>5. m = n
    BY <2>3, <2>4
  <2>. QED
    BY <2>4, <2>5, Zenon
<1>4. CASE \E k \in from .. from + count - 1 : Ring!Slot(host.push.index, k) = n % capacity
  BY <1>2, <1>3, <1>4 DEF Ring!CopyIn
<1>5. CASE ~ \E k \in from .. from + count - 1 : Ring!Slot(host.push.index, k) = n % capacity
  <2>1. Ring!CopyIn(from, count)[n % capacity] = host.m_data[n % capacity]
    BY <1>2, <1>5 DEF Ring!CopyIn
  <2>2. n < host.m_write_index + from
    <3>1. SUFFICES ASSUME n >= host.m_write_index + from PROVE FALSE
      BY <1>1, <1>2
    <3>2. n - host.m_write_index \in from .. from + count - 1
      BY <1>1, <1>2, <3>1
    <3>3. Ring!Slot(host.push.index, n - host.m_write_index) = n % capacity
      BY <1>1, <1>2 DEF Ring!Slot
    <3>. QED
      BY <1>5, <3>2, <3>3
  <2>. QED
    BY <1>1, <1>2, <2>1, <2>2 DEF RingInv, RingHoldsPushed
<1>. QED
  BY <1>4, <1>5

(* A copy out of the buffer gives out what was pushed. *)
LEMMA CopyOutInOrder ==
  ASSUME RingInv, host.pop.at # "idle",
         NEW from \in Nat, NEW count \in Nat, from + count <= host.pop.count,
         from = Copied(host.pop)
  PROVE  LET out == Ring!CopyOut(from, count)
         IN  /\ out \in Seq(Nat) /\ Len(out) = host.m_read_index + from + count
             /\ \A k \in 1 .. Len(out) : out[k] = k - 1
<1>1. /\ host.pop.index = host.m_read_index /\ host.pop.count \in Nat
      /\ host.pop.count <= host.m_write_index - host.m_read_index
      /\ host.m_read_index \in Nat /\ host.m_write_index \in Nat
      /\ Copied(host.push) \in Nat
  BY FirstCopyBounded DEF RingInv, RingTyped, CopyInStep, Copied
<1>. DEFINE more == [k \in 1 .. count |-> host.m_data[Ring!Slot(host.pop.index, from + k - 1)]]
<1>2. \A k \in 1 .. count : more[k] = host.m_read_index + from + k - 1
  BY <1>1 DEF Ring!Slot, RingInv, RingHoldsPushed
<1>3. more \in Seq(Nat) /\ Len(more) = count
  BY <1>1, <1>2
<1>4. Ring!CopyOut(from, count) = host.out \o more
  BY DEF Ring!CopyOut
<1>. HIDE DEF more
<1>5. /\ host.out \in Seq(Nat) /\ Len(host.out) = host.m_read_index + from
      /\ \A k \in 1 .. Len(host.out) : host.out[k] = k - 1
  BY DEF RingInv, OutIsPrefix
<1>6. /\ \A k \in 1 .. Len(host.out) : host.out[k] = k - 1
      /\ \A k \in 1 .. Len(more) : more[k] = Len(host.out) + k - 1
  BY <1>2, <1>3, <1>5, Zenon
<1>. 1 \in Nat
  OBVIOUS
<1>7. /\ host.out \o more \in Seq(Nat) /\ Len(host.out \o more) = Len(host.out) + Len(more)
      /\ \A k \in 1 .. Len(host.out \o more) : (host.out \o more)[k] = k - 1
  BY <1>3, <1>5, <1>6, CountOn, Zenon
<1>. QED
  BY <1>3, <1>4, <1>5, <1>7

(* The two copies of Push go to free slots, and the index is published after them. *)
LEMMA RingPush == ASSUME RingInv, Ring!Push PROVE RingInv'
<1>0. /\ host.m_read_index \in Nat /\ host.m_write_index \in Nat
      /\ host.m_read_index <= host.m_write_index
      /\ host.m_write_index <= host.m_read_index + capacity
      /\ CopyInStep(host.push, host.m_write_index, capacity + host.m_read_index - host.m_write_index)
      /\ DOMAIN host = RingFields
  BY DEF RingInv, RingTyped
<1>1. ASSUME NEW slot_count \in SlotCounts, Ring!PushBegins(slot_count) PROVE RingInv'
  <2>1. /\ UNCHANGED <<host.m_data, host.m_read_index, host.m_write_index, host.pop, host.out>>
        /\ DOMAIN host' = RingFields
        /\ host.push.at = "idle"
        /\ host'.push = [at |-> "first", index |-> host.m_write_index,
                         count |-> Ring!MinOf(slot_count, capacity + host.m_read_index
                                                          - host.m_write_index)]
    BY <1>0, <1>1 DEF RingFields, Ring!PushBegins
  <2>2. host'.push.at = "first" /\ CopyInStep(host'.push, host.m_write_index, capacity
                                              + host.m_read_index - host.m_write_index)
    BY <1>0, <2>1, RingConstants DEF CopyInStep, CopyLabels, Ring!MinOf
  <2>3. Copied(host.push) = 0 /\ Copied(host'.push) = 0
    BY <2>1, <2>2 DEF Copied
  <2>. QED
    BY <1>0, <2>1, <2>2, <2>3 DEF RingInv, RingTyped, RingHoldsPushed, OutIsPrefix
<1>2. CASE Ring!PushFirst
  <2>1. /\ UNCHANGED <<host.m_read_index, host.m_write_index, host.pop, host.out>>
        /\ DOMAIN host' = RingFields
        /\ host.push.at = "first" /\ host'.push = [host.push EXCEPT !.at = "second"]
        /\ host'.m_data = Ring!CopyIn(0, Ring!FirstCopy(host.push))
    BY <1>0, <1>2 DEF RingFields, Ring!PushFirst
  <2>2. /\ host'.push.at = "second" /\ host'.push.index = host.push.index
        /\ host'.push.count = host.push.count
        /\ CopyInStep(host'.push, host.m_write_index, capacity + host.m_read_index
                                                      - host.m_write_index)
    BY <1>0, <2>1 DEF CopyInStep, CopyLabels
  <2>3. Copied(host.push) = 0 /\ Copied(host'.push) = Ring!FirstCopy(host.push)
    BY <2>1, <2>2 DEF Copied, Ring!FirstCopy
  <2>4. /\ host.push.index \in Nat /\ host.push.count \in Nat
        /\ Ring!FirstCopy(host.push) \in Nat /\ Ring!FirstCopy(host.push) <= host.push.count
    BY <1>0, <2>1, FirstCopyBounded DEF CopyInStep
  <2>5. RingHoldsPushed'
    BY <1>0, <2>1, <2>3, <2>4, CopyInPlace DEF RingHoldsPushed
  <2>. QED
    BY <1>0, <2>1, <2>2, <2>5 DEF RingInv, RingTyped, OutIsPrefix
<1>3. CASE Ring!PushSecond
  <2>1. /\ UNCHANGED <<host.m_read_index, host.m_write_index, host.pop, host.out>>
        /\ DOMAIN host' = RingFields
        /\ host.push.at = "second" /\ host'.push = [host.push EXCEPT !.at = "store"]
        /\ host'.m_data = Ring!CopyIn(Ring!FirstCopy(host.push),
                                      host.push.count - Ring!FirstCopy(host.push))
    BY <1>0, <1>3 DEF RingFields, Ring!PushSecond
  <2>2. /\ host'.push.at = "store" /\ host'.push.count = host.push.count
        /\ CopyInStep(host'.push, host.m_write_index, capacity + host.m_read_index
                                                      - host.m_write_index)
    BY <1>0, <2>1 DEF CopyInStep, CopyLabels
  <2>3. Copied(host.push) = Ring!FirstCopy(host.push) /\ Copied(host'.push) = host.push.count
    BY <2>1, <2>2 DEF Copied
  <2>4. /\ host.push.index \in Nat /\ host.push.count \in Nat
        /\ Ring!FirstCopy(host.push) \in Nat /\ Ring!FirstCopy(host.push) <= host.push.count
    BY <1>0, <2>1, FirstCopyBounded DEF CopyInStep
  <2>5. PICK from \in Nat, count \in Nat :
          /\ from = Ring!FirstCopy(host.push) /\ count = host.push.count - from
          /\ from + count = host.push.count
    BY <2>4
  <2>6. RingHoldsPushed'
    BY <1>0, <2>1, <2>3, <2>5, CopyInPlace DEF RingHoldsPushed
  <2>. QED
    BY <1>0, <2>1, <2>2, <2>6 DEF RingInv, RingTyped, OutIsPrefix
<1>4. CASE Ring!PushStore
  <2>1. /\ UNCHANGED <<host.m_data, host.m_read_index, host.pop, host.out>>
        /\ DOMAIN host' = RingFields
        /\ host.push.at = "store" /\ host'.push = Ring!NoCopy
        /\ host'.m_write_index = host.push.index + host.push.count
    BY <1>0, <1>4 DEF RingFields, Ring!PushStore
  <2>2. /\ host.push.index = host.m_write_index /\ host.push.count \in Nat
        /\ host.push.count <= capacity + host.m_read_index - host.m_write_index
    BY <1>0, <2>1 DEF CopyInStep
  <2>3. Copied(host.push) = host.push.count /\ Copied(host'.push) = 0
    BY <2>1 DEF Copied, Ring!NoCopy
  <2>4. \A room \in Int : CopyInStep(host'.push, host'.m_write_index, room)
    BY <2>1 DEF CopyInStep, CopyLabels, Ring!NoCopy
  <2>5. CopyInStep(host.pop, host.m_read_index, host'.m_write_index - host.m_read_index)
    BY <1>0, <2>1, <2>2 DEF CopyInStep, RingInv, RingTyped
  <2>6. RingTyped'
    BY <1>0, <2>1, <2>2, <2>4, <2>5, RingConstants DEF RingTyped
  <2>. QED
    BY <1>0, <2>1, <2>2, <2>3, <2>6 DEF RingInv, RingHoldsPushed, OutIsPrefix
<1>. QED
  BY <1>1, <1>2, <1>3, <1>4 DEF Ring!Push

(* The two copies of Pop take the oldest slots, and free them after they are copied. *)
LEMMA RingPop == ASSUME RingInv, Ring!Pop PROVE RingInv'
<1>0. /\ host.m_read_index \in Nat /\ host.m_write_index \in Nat
      /\ host.m_read_index <= host.m_write_index
      /\ host.m_write_index <= host.m_read_index + capacity
      /\ CopyInStep(host.push, host.m_write_index, capacity + host.m_read_index - host.m_write_index)
      /\ CopyInStep(host.pop, host.m_read_index, host.m_write_index - host.m_read_index)
      /\ DOMAIN host = RingFields
  BY DEF RingInv, RingTyped
<1>1. ASSUME NEW max_slots \in SlotCounts, Ring!PopBegins(max_slots) PROVE RingInv'
  <2>1. /\ UNCHANGED <<host.m_data, host.m_read_index, host.m_write_index, host.push, host.out>>
        /\ DOMAIN host' = RingFields
        /\ host.pop.at = "idle"
        /\ host'.pop = [at |-> "first", index |-> host.m_read_index,
                        count |-> Ring!MinOf(host.m_write_index - host.m_read_index, max_slots)]
    BY <1>0, <1>1 DEF RingFields, Ring!PopBegins
  <2>2. /\ host'.pop.at = "first"
        /\ CopyInStep(host'.pop, host.m_read_index, host.m_write_index - host.m_read_index)
    BY <1>0, <2>1, RingConstants DEF CopyInStep, CopyLabels, Ring!MinOf
  <2>3. Copied(host.pop) = 0 /\ Copied(host'.pop) = 0
    BY <2>1, <2>2 DEF Copied
  <2>. QED
    BY <1>0, <2>1, <2>2, <2>3 DEF RingInv, RingTyped, RingHoldsPushed, OutIsPrefix
<1>2. CASE Ring!PopFirst
  <2>1. /\ UNCHANGED <<host.m_data, host.m_read_index, host.m_write_index, host.push>>
        /\ DOMAIN host' = RingFields
        /\ host.pop.at = "first" /\ host'.pop = [host.pop EXCEPT !.at = "second"]
        /\ host'.out = Ring!CopyOut(0, Ring!FirstCopy(host.pop))
    BY <1>0, <1>2 DEF RingFields, Ring!PopFirst
  <2>2. /\ host'.pop.at = "second" /\ host'.pop.index = host.pop.index
        /\ host'.pop.count = host.pop.count
        /\ CopyInStep(host'.pop, host.m_read_index, host.m_write_index - host.m_read_index)
    BY <1>0, <2>1 DEF CopyInStep, CopyLabels
  <2>3. Copied(host.pop) = 0 /\ Copied(host'.pop) = Ring!FirstCopy(host.pop)
    BY <2>1, <2>2 DEF Copied, Ring!FirstCopy
  <2>4. /\ host.pop.index \in Nat /\ host.pop.count \in Nat
        /\ Ring!FirstCopy(host.pop) \in Nat /\ Ring!FirstCopy(host.pop) <= host.pop.count
    BY <1>0, <2>1, FirstCopyBounded DEF CopyInStep
  <2>5. PICK from \in Nat, count \in Nat :
          /\ count = Ring!FirstCopy(host.pop) /\ from + count <= host.pop.count
          /\ from = Copied(host.pop) /\ host'.out = Ring!CopyOut(from, count)
          /\ host.pop.at # "idle"
    BY <2>1, <2>3, <2>4
  <2>a. /\ Ring!CopyOut(from, count) \in Seq(Nat)
        /\ Len(Ring!CopyOut(from, count)) = host.m_read_index + from + count
        /\ \A k \in 1 .. Len(Ring!CopyOut(from, count)) : Ring!CopyOut(from, count)[k] = k - 1
    BY <2>5, CopyOutInOrder, Zenon
  <2>6. /\ host'.out \in Seq(Nat) /\ Len(host'.out) = host.m_read_index + from + count
        /\ \A k \in 1 .. Len(host'.out) : host'.out[k] = k - 1
    BY <2>5, <2>a
  <2>7. OutIsPrefix'
    BY <1>0, <2>1, <2>3, <2>5, <2>6 DEF OutIsPrefix
  <2>. QED
    BY <1>0, <2>1, <2>2, <2>7 DEF RingInv, RingTyped, RingHoldsPushed
<1>3. CASE Ring!PopSecond
  <2>1. /\ UNCHANGED <<host.m_data, host.m_read_index, host.m_write_index, host.push>>
        /\ DOMAIN host' = RingFields
        /\ host.pop.at = "second" /\ host'.pop = [host.pop EXCEPT !.at = "store"]
        /\ host'.out = Ring!CopyOut(Ring!FirstCopy(host.pop),
                                    host.pop.count - Ring!FirstCopy(host.pop))
    BY <1>0, <1>3 DEF RingFields, Ring!PopSecond
  <2>2. /\ host'.pop.at = "store" /\ host'.pop.count = host.pop.count
        /\ CopyInStep(host'.pop, host.m_read_index, host.m_write_index - host.m_read_index)
    BY <1>0, <2>1 DEF CopyInStep, CopyLabels
  <2>3. Copied(host.pop) = Ring!FirstCopy(host.pop) /\ Copied(host'.pop) = host.pop.count
    BY <2>1, <2>2 DEF Copied
  <2>4. /\ host.pop.index \in Nat /\ host.pop.count \in Nat
        /\ Ring!FirstCopy(host.pop) \in Nat /\ Ring!FirstCopy(host.pop) <= host.pop.count
    BY <1>0, <2>1, FirstCopyBounded DEF CopyInStep
  <2>5. PICK from \in Nat, count \in Nat :
          /\ from = Ring!FirstCopy(host.pop) /\ count = host.pop.count - from
          /\ from + count = host.pop.count
    BY <2>4
  <2>6. OutIsPrefix'
    BY <1>0, <2>1, <2>3, <2>5, CopyOutInOrder DEF OutIsPrefix
  <2>. QED
    BY <1>0, <2>1, <2>2, <2>6 DEF RingInv, RingTyped, RingHoldsPushed
<1>4. CASE Ring!PopStore
  <2>1. /\ UNCHANGED <<host.m_data, host.m_write_index, host.push, host.out>>
        /\ DOMAIN host' = RingFields
        /\ host.pop.at = "store" /\ host'.pop = Ring!NoCopy
        /\ host'.m_read_index = host.pop.index + host.pop.count
    BY <1>0, <1>4 DEF RingFields, Ring!PopStore
  <2>2. /\ host.pop.index = host.m_read_index /\ host.pop.count \in Nat
        /\ host.pop.count <= host.m_write_index - host.m_read_index
    BY <1>0, <2>1 DEF CopyInStep
  <2>3. Copied(host.pop) = host.pop.count /\ Copied(host'.pop) = 0
    BY <2>1 DEF Copied, Ring!NoCopy
  <2>4. CopyInStep(host'.pop, host'.m_read_index, host.m_write_index - host'.m_read_index)
    BY <2>1 DEF CopyInStep, CopyLabels, Ring!NoCopy
  <2>5. CopyInStep(host.push, host.m_write_index, capacity + host'.m_read_index - host.m_write_index)
    BY <1>0, <2>1, <2>2, RingConstants DEF CopyInStep
  <2>6. RingTyped'
    BY <1>0, <2>1, <2>2, <2>4, <2>5, RingConstants DEF RingTyped
  <2>7. Copied(host.push) \in Nat
    BY <1>0, FirstCopyBounded DEF CopyInStep, Copied
  <2>8. RingHoldsPushed' /\ OutIsPrefix'
    BY <1>0, <2>1, <2>2, <2>3, <2>7 DEF RingInv, RingHoldsPushed, OutIsPrefix
  <2>. QED
    BY <2>6, <2>8 DEF RingInv
<1>. QED
  BY <1>1, <1>2, <1>3, <1>4 DEF Ring!Pop

-----------------------------------------------------------------------------
(* LogQueue *)

LoggerLabels == {"idle", "lock", "predicate", "block", "blocked", "emplace", "increment", "notify"}

BackendLabels ==
  {"loop", "lock", "predicate", "block", "blocked", "stopped", "drain", "move", "increment", "notify",
   "write", "ended"}

LogEntries == Loggers \X Nat

LogFields ==
  {"m_data", "m_read_index", "m_write_index", "write_mutex", "producer_cv_mutex", "consumer_cv_mutex",
   "logger", "left", "backend", "mode", "entry", "max_logs", "stop", "before_stop", "queued", "written"}

LogTyped ==
  /\ DOMAIN host = LogFields
  /\ DOMAIN host.m_data = 0 .. Capacity - 1
  /\ host.m_read_index \in Nat /\ host.m_write_index \in Nat /\ host.before_stop \in Nat
  /\ host.logger \in [Loggers -> LoggerLabels] /\ host.left \in [Loggers -> Nat]
  /\ host.backend \in BackendLabels /\ host.mode \in {"PopWait", "TryPop"} /\ host.stop \in BOOLEAN
  /\ host.queued \in Seq(LogEntries) /\ host.written \in Seq(LogEntries)

(* Where the logger that holds write_mutex is, which is the only one that is not idle *)
LogHolder == IF host.write_mutex = Null THEN "idle" ELSE host.logger[host.write_mutex]

OneLogger ==
  /\ host.write_mutex \in Loggers \cup {Null}
  /\ \A l \in Loggers : host.logger[l] # "idle" <=> l = host.write_mutex

(* The slots that are in use hold the entries that were queued and not yet taken. *)
SlotsHoldQueued ==
  /\ host.m_read_index <= host.m_write_index
  /\ host.m_write_index <= host.m_read_index + Capacity
  /\ LogHolder \in {"emplace", "increment"} => host.m_write_index < host.m_read_index + Capacity
  /\ Len(host.queued) = IF LogHolder = "increment" THEN host.m_write_index + 1
                        ELSE host.m_write_index
  /\ \A n \in host.m_read_index .. Len(host.queued) - 1 :
       host.m_data[n % Capacity] = host.queued[n + 1]

BackendInStep ==
  /\ host.backend \in {"drain", "ended"} \/ host.mode = "TryPop" => host.stop
  /\ host.backend \in {"lock", "predicate", "block", "blocked", "stopped"} => host.mode = "PopWait"
  /\ host.backend = "stopped" /\ ~host.stop => host.m_read_index < host.m_write_index
  /\ host.backend \in {"move", "increment"} => host.m_read_index < host.m_write_index
  /\ host.before_stop <= host.m_write_index
  /\ host.backend = "ended" => host.m_read_index >= host.before_stop \/ host.max_logs = 0

(* entry is the last one that was moved out of the queue. *)
LastEntry ==
  LET moved == IF host.backend = "increment" THEN host.m_read_index + 1 ELSE host.m_read_index
  IN  host.entry = IF moved = 0 THEN Null ELSE host.queued[moved]

(* All that was taken is written, but for the entry that is at hand, and one of *)
(* them twice if a PopWait was stopped.                                         *)
Repeated(again) == again <= Len(host.written)

Distinct(again) == IF Repeated(again) THEN Len(host.written) - 1 ELSE Len(host.written)

TakenInOrder(again) ==
  \A i \in 1 .. Len(host.written) : host.written[i] = host.queued[IF i < again THEN i ELSE i - 1]

WrittenUpTo(again) ==
  /\ TakenInOrder(again)
  /\ Repeated(again) => host.stop /\ (host.mode = "TryPop" \/ host.backend = "loop")
  /\ host.backend = "notify" => Distinct(again) = host.m_read_index - 1
  /\ host.backend = "write" =>
       \/ Distinct(again) = host.m_read_index - 1
       \/ Distinct(again) = host.m_read_index /\ host.stop /\ host.mode = "PopWait"
  /\ host.backend \notin {"notify", "write"} => Distinct(again) = host.m_read_index

LogInv ==
  /\ LogTyped /\ OneLogger /\ SlotsHoldQueued /\ BackendInStep /\ LastEntry
  /\ \E again \in 2 .. Len(host.written) + 2 : WrittenUpTo(again)

(* An empty queue of entries satisfies the invariant. *)
LEMMA LogInit == Log!LogQueueInit => LogInv
<1>. SUFFICES ASSUME Log!LogQueueInit PROVE LogInv
  OBVIOUS
<1>1. LogTyped
  BY LogConstants DEF Log!LogQueueInit, LogTyped, LogFields, LoggerLabels, BackendLabels
<1>2. /\ host.m_read_index = 0 /\ host.m_write_index = 0 /\ host.before_stop = 0 /\ host.backend = "loop"
      /\ host.mode = "PopWait" /\ host.queued = <<>> /\ host.written = <<>> /\ host.entry = Null
      /\ host.write_mutex = Null /\ host.logger = [l \in Loggers |-> "idle"]
  BY DEF Log!LogQueueInit
<1>3. OneLogger /\ LogHolder = "idle"
  BY <1>2, LogConstants DEF OneLogger, LogHolder
<1>4. SlotsHoldQueued /\ BackendInStep /\ LastEntry
  BY <1>2, <1>3, LogConstants DEF SlotsHoldQueued, BackendInStep, LastEntry
<1>5. WrittenUpTo(2) /\ 2 \in 2 .. Len(host.written) + 2
  BY <1>2 DEF WrittenUpTo, TakenInOrder, Repeated, Distinct
<1>. QED
  BY <1>1, <1>3, <1>4, <1>5 DEF LogInv

(* The entries that are written were taken out of the queue before. *)
LEMMA WrittenWereTaken ==
  ASSUME LogInv, NEW again \in 2 .. Len(host.written) + 2, WrittenUpTo(again),
         NEW i \in 1 .. Len(host.written)
  PROVE  (IF i < again THEN i ELSE i - 1) \in 1 .. host.m_read_index
<1>1. Len(host.written) \in Nat /\ host.m_read_index \in Nat
  BY DEF LogInv, LogTyped
<1>2. CASE again <= Len(host.written)
  <2>1. Len(host.written) - 1 <= host.m_read_index
    BY <1>1, <1>2 DEF WrittenUpTo, Repeated, Distinct
  <2>2. i < again => i \in 1 .. host.m_read_index
    BY <1>1, <1>2, <2>1
  <2>3. ~ i < again => i - 1 \in 1 .. host.m_read_index
    BY <1>1, <1>2, <2>1
  <2>. QED
    BY <2>2, <2>3
<1>3. CASE ~ again <= Len(host.written)
  <2>1. Len(host.written) <= host.m_read_index
    BY <1>1, <1>3 DEF WrittenUpTo, Repeated, Distinct
  <2>2. i < again /\ i \in 1 .. host.m_read_index
    BY <1>1, <1>3, <2>1
  <2>. QED
    BY <2>2
<1>. QED
  BY <1>2, <1>3

(* Where it holds, the entries are written in order and no slot is used by both sides. *)
LEMMA LogSafe == LogInv => Log!WrittenInOrder /\ Log!NoRace
<1>. SUFFICES ASSUME LogInv PROVE Log!WrittenInOrder /\ Log!NoRace
  OBVIOUS
<1>1. /\ host.m_read_index \in Nat /\ host.m_write_index \in Nat
      /\ Len(host.written) \in Nat /\ Len(host.queued) \in Nat
      /\ DOMAIN host.written = 1 .. Len(host.written)
      /\ host.m_read_index <= Len(host.queued)
  BY DEF LogInv, LogTyped, SlotsHoldQueued
<1>2. PICK again \in 2 .. Len(host.written) + 2 : WrittenUpTo(again)
  BY DEF LogInv
<1>3. /\ again <= Len(host.written) => host.stop
      /\ \A i \in 1 .. Len(host.written) :
           /\ (IF i < again THEN i ELSE i - 1) <= Len(host.queued)
           /\ host.written[i] = host.queued[IF i < again THEN i ELSE i - 1]
  <2>1. \A i \in 1 .. Len(host.written) :
          (IF i < again THEN i ELSE i - 1) \in 1 .. host.m_read_index
    BY <1>2, WrittenWereTaken
  <2>2. \A i \in 1 .. Len(host.written) :
          host.written[i] = host.queued[IF i < again THEN i ELSE i - 1]
    BY <1>2 DEF WrittenUpTo, TakenInOrder
  <2>. QED
    BY <1>1, <1>2, <2>1, <2>2 DEF WrittenUpTo, Repeated
<1>4. Log!WrittenInOrder
  BY <1>1, <1>3, Zenon DEF LogInv, BackendInStep, Log!WrittenInOrder, Log!BackendAt
<1>5. ASSUME NEW l \in Loggers, Log!At(l, "emplace"),
             NEW k \in host.m_read_index .. host.m_write_index - 1
      PROVE  k % Capacity # host.m_write_index % Capacity
  <2>1. LogHolder = "emplace"
    BY <1>5, LogConstants DEF LogInv, OneLogger, LogHolder, Log!At
  <2>2. k \in Nat /\ k < host.m_write_index /\ host.m_write_index < k + Capacity
    BY <1>1, <2>1, LogConstants DEF LogInv, SlotsHoldQueued
  <2>. QED
    BY <1>1, <2>2, ModDistinct, LogConstants, Zenon
<1>. QED
  BY <1>4, <1>5 DEF Log!NoRace

(* What was written stays in order while nothing is written or queued. *)
LEMMA NothingWritten ==
  ASSUME UNCHANGED <<host.written, host.queued>>, NEW again
  PROVE  /\ TakenInOrder(again)' <=> TakenInOrder(again)
         /\ Repeated(again)' <=> Repeated(again)
         /\ Distinct(again)' = Distinct(again)
BY DEF TakenInOrder, Repeated, Distinct

(* What only moves a logger, and takes and gives mutexes *)
LoggerMoves ==
  /\ DOMAIN host' = LogFields
  /\ UNCHANGED <<host.m_data, host.m_read_index, host.m_write_index, host.backend, host.mode,
                 host.entry, host.max_logs, host.stop, host.before_stop, host.queued, host.written>>
  /\ host'.logger \in [Loggers -> LoggerLabels] /\ host'.left \in [Loggers -> Nat]
  /\ OneLogger'
  /\ LogHolder # "increment" /\ LogHolder' # "increment"
  /\ LogHolder' = "emplace" => LogHolder = "emplace" \/ Log!HasFreeSlot

(* Waiting for a mutex, taking it and giving it back keep the invariant. *)
LEMMA LoggerStays == ASSUME LogInv, LoggerMoves PROVE LogInv'
<1>1. LogTyped'
  BY DEF LogInv, LogTyped, LoggerMoves
<1>2. SlotsHoldQueued'
  <2>. host.m_read_index \in Nat /\ host.m_write_index \in Nat
    BY DEF LogInv, LogTyped
  <2>1. LogHolder' = "emplace" => host.m_write_index < host.m_read_index + Capacity
    BY LogConstants DEF LogInv, SlotsHoldQueued, LoggerMoves, Log!HasFreeSlot
  <2>. QED
    BY <2>1 DEF LogInv, SlotsHoldQueued, LoggerMoves
<1>3. BackendInStep' /\ LastEntry'
  BY DEF LogInv, BackendInStep, LastEntry, LoggerMoves
<1>4. \A again : WrittenUpTo(again)' <=> WrittenUpTo(again)
  BY NothingWritten DEF WrittenUpTo, LoggerMoves
<1>. QED
  BY <1>1, <1>2, <1>3, <1>4 DEF LogInv, LoggerMoves

(* A logger writes to a free slot, and counts it after that. *)
LEMMA LogLoggers == ASSUME LogInv, NEW l \in Loggers, Log!PushEntry(l) PROVE LogInv'
<1>0. /\ host.m_read_index \in Nat /\ host.m_write_index \in Nat
      /\ Len(host.written) \in Nat /\ Len(host.queued) \in Nat
      /\ host.m_read_index <= host.m_write_index
      /\ DOMAIN host = LogFields
      /\ host.logger \in [Loggers -> LoggerLabels] /\ host.left \in [Loggers -> Nat]
  BY DEF LogInv, LogTyped, SlotsHoldQueued
<1>1. CASE Log!EmplaceBegins(l)
  <2>1. /\ DOMAIN host' = LogFields
        /\ UNCHANGED <<host.m_data, host.m_read_index, host.m_write_index, host.backend, host.mode,
                       host.entry, host.max_logs, host.stop, host.before_stop, host.queued,
                       host.written>>
        /\ host.write_mutex = Null /\ host.left[l] > 0 /\ host'.write_mutex = l
        /\ host'.logger = [host.logger EXCEPT ![l] = "lock"]
        /\ host'.left = [host.left EXCEPT ![l] = @ - 1]
    BY <1>0, <1>1 DEF LogFields, Log!EmplaceBegins, Log!At
  <2>2. LogHolder = "idle" /\ LogHolder' = "lock" /\ OneLogger'
    BY <1>0, <2>1, LogConstants DEF LogInv, OneLogger, LogHolder
  <2>3. host'.logger \in [Loggers -> LoggerLabels] /\ host'.left \in [Loggers -> Nat]
    BY <1>0, <2>1 DEF LoggerLabels
  <2>. QED
    BY <2>1, <2>2, <2>3, LoggerStays DEF LoggerMoves
<1>2. CASE Log!LockProducerCv(l) \/ Log!WaitForSlot(l) \/ Log!LoggerBlocks(l)
  <2>1. PICK to \in {"predicate", "emplace", "block", "blocked"} :
          /\ DOMAIN host' = LogFields
          /\ UNCHANGED <<host.m_data, host.m_read_index, host.m_write_index, host.backend, host.mode,
                         host.entry, host.max_logs, host.stop, host.before_stop, host.queued,
                         host.written, host.write_mutex, host.left>>
          /\ host.logger[l] \in {"lock", "predicate", "block"}
          /\ host'.logger = [host.logger EXCEPT ![l] = to]
          /\ to = "emplace" => Log!HasFreeSlot
    <3>1. CASE Log!LockProducerCv(l)
      BY <1>0, <3>1 DEF LogFields, Log!LockProducerCv, Log!At
    <3>2. CASE Log!WaitForSlot(l)
      BY <1>0, <3>2, Zenon DEF LogFields, Log!WaitForSlot, Log!At
    <3>3. CASE Log!LoggerBlocks(l)
      BY <1>0, <3>3 DEF LogFields, Log!LoggerBlocks, Log!At
    <3>. QED
      BY <1>2, <3>1, <3>2, <3>3
  <2>2. /\ LogHolder \in {"lock", "predicate", "block"} /\ LogHolder' = to /\ OneLogger'
    BY <1>0, <2>1, LogConstants DEF LogInv, OneLogger, LogHolder
  <2>3. host'.logger \in [Loggers -> LoggerLabels] /\ host'.left \in [Loggers -> Nat]
    BY <1>0, <2>1 DEF LoggerLabels
  <2>. QED
    BY <2>1, <2>2, <2>3, LoggerStays DEF LoggerMoves
<1>3. CASE Log!Emplace(l)
  <2>1. PICK e \in LogEntries :
          /\ DOMAIN host' = LogFields
          /\ UNCHANGED <<host.m_read_index, host.m_write_index, host.backend, host.mode,
                         host.entry, host.max_logs, host.stop, host.before_stop, host.written,
                         host.write_mutex, host.left>>
          /\ host.logger[l] = "emplace" /\ host'.logger = [host.logger EXCEPT ![l] = "increment"]
          /\ host'.m_data = [host.m_data EXCEPT ![host.m_write_index % Capacity] = e]
          /\ host'.queued = Append(host.queued, e)
    <3>1. <<l, host.left[l]>> \in LogEntries
      BY <1>0, Zenon DEF LogEntries
    <3>. QED
      BY <1>0, <1>3, <3>1, Zenon DEF LogFields, Log!Emplace, Log!At
  <2>2. LogHolder = "emplace" /\ LogHolder' = "increment" /\ OneLogger'
    BY <1>0, <2>1, LogConstants DEF LogInv, OneLogger, LogHolder
  <2>3. /\ host.m_write_index < host.m_read_index + Capacity /\ Len(host.queued) = host.m_write_index
        /\ host.queued \in Seq(LogEntries)
    BY <2>2 DEF LogInv, LogTyped, SlotsHoldQueued
  <2>4. host'.queued \in Seq(LogEntries) /\ Len(host'.queued) = host.m_write_index + 1
    BY <1>0, <2>1, <2>3
  <2>5. /\ \A i \in 1 .. host.m_write_index : host'.queued[i] = host.queued[i]
        /\ host'.queued[host.m_write_index + 1] = e
    BY <1>0, <2>1, <2>3
  <2>6. LogTyped'
    BY <1>0, <2>1, <2>4 DEF LogInv, LogTyped, LoggerLabels
  <2>7. /\ DOMAIN host.m_data = 0 .. Capacity - 1
        /\ \A n \in host.m_read_index .. host.m_write_index :
             /\ n % Capacity \in 0 .. Capacity - 1
             /\ n # host.m_write_index => n % Capacity # host.m_write_index % Capacity
    <3>1. DOMAIN host.m_data = 0 .. Capacity - 1
      BY DEF LogInv, LogTyped
    <3>2. ASSUME NEW n \in host.m_read_index .. host.m_write_index
          PROVE  /\ n % Capacity \in 0 .. Capacity - 1
                 /\ n # host.m_write_index => n % Capacity # host.m_write_index % Capacity
      <4>1. n \in Nat /\ (n # host.m_write_index => n < host.m_write_index)
            /\ host.m_write_index < n + Capacity
        BY <1>0, <2>3, LogConstants
      <4>. QED
        BY <1>0, <4>1, DivMod, ModDistinct, LogConstants, Zenon
    <3>. QED
      BY <3>1, <3>2
  <2>8. SlotsHoldQueued'
    <3>1. ASSUME NEW n \in host.m_read_index .. host.m_write_index
          PROVE  host'.m_data[n % Capacity] = host'.queued[n + 1]
      <4>1. CASE n = host.m_write_index
        BY <1>0, <2>1, <2>5, <2>7, <4>1, Zenon
      <4>2. CASE n # host.m_write_index
        <5>1. n \in host.m_read_index .. Len(host.queued) - 1 /\ n + 1 \in 1 .. host.m_write_index
          BY <1>0, <2>3, <4>2
        <5>2. host.m_data[n % Capacity] = host.queued[n + 1]
          BY <5>1 DEF LogInv, SlotsHoldQueued
        <5>3. host'.m_data[n % Capacity] = host.m_data[n % Capacity]
          BY <1>0, <2>1, <2>7, <4>2
        <5>. QED
          BY <2>5, <5>1, <5>2, <5>3
      <4>. QED
        BY <4>1, <4>2
    <3>. QED
      BY <1>0, <2>1, <2>2, <2>3, <2>4, <3>1 DEF LogInv, SlotsHoldQueued
  <2>9. BackendInStep' /\ LastEntry'
    <3>1. BackendInStep'
      BY <2>1 DEF LogInv, BackendInStep
    <3>2. /\ host.backend = "increment" => host.m_read_index + 1 \in 1 .. host.m_write_index
          /\ host.m_read_index # 0 => host.m_read_index \in 1 .. host.m_write_index
      BY <1>0 DEF LogInv, BackendInStep
    <3>3. LastEntry'
      BY <1>0, <2>1, <2>5, <3>2, ZenonT(30) DEF LogInv, LastEntry
    <3>. QED
      BY <3>1, <3>3
  <2>10. ASSUME NEW again \in 2 .. Len(host.written) + 2, WrittenUpTo(again)
         PROVE  WrittenUpTo(again)'
    <3>1. \A i \in 1 .. Len(host.written) :
            (IF i < again THEN i ELSE i - 1) \in 1 .. host.m_write_index
      BY <1>0, <2>10, WrittenWereTaken
    <3>2. \A i \in 1 .. Len(host.written) :
            host'.written[i] = host'.queued[IF i < again THEN i ELSE i - 1]
      BY <2>1, <2>5, <2>10, <3>1, Zenon DEF WrittenUpTo, TakenInOrder
    <3>3. /\ TakenInOrder(again)'
          /\ Repeated(again)' <=> Repeated(again)
          /\ Distinct(again)' = Distinct(again)
      BY <2>1, <3>2, Zenon DEF TakenInOrder, Repeated, Distinct
    <3>. QED
      BY <2>1, <2>10, <3>3 DEF WrittenUpTo
  <2>. QED
    BY <2>1, <2>2, <2>6, <2>8, <2>9, <2>10 DEF LogInv
<1>4. CASE Log!IncrementWriteIndex(l)
  <2>1. /\ DOMAIN host' = LogFields
        /\ UNCHANGED <<host.m_data, host.m_read_index, host.backend, host.mode, host.entry,
                       host.max_logs, host.stop, host.before_stop, host.queued, host.written,
                       host.write_mutex, host.left>>
        /\ host.logger[l] = "increment" /\ host'.logger = [host.logger EXCEPT ![l] = "notify"]
        /\ host'.m_write_index = host.m_write_index + 1
    BY <1>0, <1>4 DEF LogFields, Log!IncrementWriteIndex, Log!At
  <2>2. LogHolder = "increment" /\ LogHolder' = "notify" /\ OneLogger'
    BY <1>0, <2>1, LogConstants DEF LogInv, OneLogger, LogHolder
  <2>3. LogTyped'
    BY <1>0, <2>1 DEF LogInv, LogTyped, LoggerLabels
  <2>4. SlotsHoldQueued'
    BY <1>0, <2>1, <2>2, LogConstants DEF LogInv, SlotsHoldQueued
  <2>5. BackendInStep' /\ LastEntry'
    BY <1>0, <2>1 DEF LogInv, LogTyped, BackendInStep, LastEntry
  <2>6. \A again : WrittenUpTo(again)' <=> WrittenUpTo(again)
    BY <2>1, NothingWritten DEF WrittenUpTo
  <2>. QED
    BY <2>1, <2>2, <2>3, <2>4, <2>5, <2>6 DEF LogInv
<1>5. CASE Log!NotifyConsumer(l)
  <2>1. /\ DOMAIN host' = LogFields
        /\ UNCHANGED <<host.m_data, host.m_read_index, host.m_write_index, host.mode, host.entry,
                       host.max_logs, host.stop, host.before_stop, host.queued, host.written,
                       host.left>>
        /\ host.logger[l] = "notify" /\ host'.logger = [host.logger EXCEPT ![l] = "idle"]
        /\ host'.write_mutex = Null
        /\ \/ host'.backend = host.backend
           \/ host.backend = "blocked" /\ host'.backend = "lock"
    BY <1>0, <1>5 DEF LogFields, Log!NotifyConsumer, Log!At
  <2>2. LogHolder = "notify" /\ LogHolder' = "idle" /\ OneLogger'
    BY <1>0, <2>1, LogConstants DEF LogInv, OneLogger, LogHolder
  <2>3. LogTyped'
    BY <1>0, <2>1 DEF LogInv, LogTyped, LoggerLabels, BackendLabels
  <2>4. SlotsHoldQueued' /\ BackendInStep' /\ LastEntry'
    BY <1>0, <2>1, <2>2 DEF LogInv, SlotsHoldQueued, BackendInStep, LastEntry
  <2>5. \A again : WrittenUpTo(again) => WrittenUpTo(again)'
    BY <2>1, NothingWritten DEF WrittenUpTo
  <2>. QED
    BY <2>1, <2>2, <2>3, <2>4, <2>5 DEF LogInv
<1>. QED
  BY <1>1, <1>2, <1>3, <1>4, <1>5 DEF Log!PushEntry

(* What only moves the backend, and takes and gives its mutex *)
BackendMoves ==
  /\ DOMAIN host' = LogFields
  /\ UNCHANGED <<host.m_data, host.m_read_index, host.m_write_index, host.write_mutex, host.logger,
                 host.left, host.entry, host.queued, host.written>>
  /\ host.backend \notin {"increment", "notify", "write"}
  /\ host'.backend \in BackendLabels \ {"increment", "notify"}
  /\ host'.mode \in {"PopWait", "TryPop"} /\ host'.stop \in BOOLEAN /\ (host.stop => host'.stop)
  /\ host'.before_stop \in Nat
  /\ host'.mode = host.mode \/ host.backend = "loop"
  /\ host'.backend = "write" => host.backend = "stopped" /\ host'.stop
  /\ host.backend = "loop" /\ host.stop => host'.mode = "TryPop"
  /\ BackendInStep'

(* Waiting for an entry, and the request to stop, keep the invariant. *)
LEMMA BackendStays == ASSUME LogInv, BackendMoves PROVE LogInv'
<1>1. LogTyped'
  BY DEF LogInv, LogTyped, BackendMoves
<1>2. LogHolder' = LogHolder
  BY DEF BackendMoves, LogHolder
<1>3. OneLogger' /\ SlotsHoldQueued'
  BY <1>2 DEF LogInv, OneLogger, SlotsHoldQueued, BackendMoves
<1>4. LastEntry'
  BY DEF LogInv, LastEntry, BackendMoves
<1>5. ASSUME NEW again \in 2 .. Len(host.written) + 2, WrittenUpTo(again)
      PROVE  WrittenUpTo(again)'
  <2>1. Repeated(again) => host'.stop /\ host'.mode = "TryPop" /\ host'.backend # "write"
    BY <1>5 DEF LogInv, BackendInStep, WrittenUpTo, BackendMoves
  <2>2. host'.backend = "write" => host'.stop /\ host'.mode = "PopWait"
    BY DEF LogInv, BackendInStep, BackendMoves
  <2>. QED
    BY <1>5, <2>1, <2>2, NothingWritten DEF WrittenUpTo, BackendMoves
<1>. QED
  BY <1>1, <1>3, <1>4, <1>5 DEF LogInv, BackendMoves

(* The backend takes the oldest entry, frees its slot after that, and writes it once. *)
LEMMA LogBackends == ASSUME LogInv, Log!Backend PROVE LogInv'
<1>0. /\ host.m_read_index \in Nat /\ host.m_write_index \in Nat /\ host.before_stop \in Nat
      /\ host.m_read_index <= host.m_write_index /\ host.m_write_index <= Len(host.queued)
      /\ Len(host.written) \in Nat /\ Len(host.queued) \in Nat
      /\ DOMAIN host = LogFields
      /\ host.mode \in {"PopWait", "TryPop"} /\ host.stop \in BOOLEAN
  BY DEF LogInv, LogTyped, SlotsHoldQueued
<1>1. CASE Log!BackendLoop \/ Log!LockConsumerCv
  <2>1. CASE Log!BackendLoop
    <3>1. /\ DOMAIN host' = LogFields /\ host.backend = "loop"
          /\ UNCHANGED <<host.m_data, host.m_read_index, host.m_write_index, host.write_mutex,
                         host.logger, host.left, host.entry, host.queued, host.written, host.stop,
                         host.before_stop, host.max_logs>>
          /\ \/ host.stop /\ host'.backend = "drain" /\ host'.mode = "TryPop"
             \/ ~host.stop /\ host'.backend = "lock" /\ host'.mode = "PopWait"
      BY <1>0, <2>1 DEF LogFields, Log!BackendLoop, Log!BackendAt
    <3>. QED
      BY <1>0, <3>1, BackendStays DEF LogInv, BackendInStep, BackendMoves, BackendLabels
  <2>2. CASE Log!LockConsumerCv
    <3>1. /\ DOMAIN host' = LogFields /\ host.backend = "lock" /\ host'.backend = "predicate"
          /\ UNCHANGED <<host.m_data, host.m_read_index, host.m_write_index, host.write_mutex,
                         host.logger, host.left, host.entry, host.queued, host.written, host.stop,
                         host.before_stop, host.max_logs, host.mode>>
      BY <1>0, <2>2 DEF LogFields, Log!LockConsumerCv, Log!BackendAt
    <3>. QED
      BY <1>0, <3>1, BackendStays DEF LogInv, BackendInStep, BackendMoves, BackendLabels
  <2>. QED
    BY <1>1, <2>1, <2>2
<1>2. CASE Log!WaitForEntry \/ Log!BackendBlocks \/ Log!LookAtStop
  <2>1. /\ DOMAIN host' = LogFields
        /\ UNCHANGED <<host.m_data, host.m_read_index, host.m_write_index, host.write_mutex,
                       host.logger, host.left, host.entry, host.queued, host.written, host.stop,
                       host.before_stop, host.max_logs, host.mode>>
        /\ \/ /\ host.backend = "predicate" /\ host'.backend = "stopped"
              /\ host.m_read_index # host.m_write_index \/ host.stop
           \/ host.backend = "predicate" /\ host'.backend = "block"
           \/ host.backend = "block" /\ host'.backend \in {"lock", "blocked"}
           \/ host.backend = "stopped" /\ host'.backend = "write" /\ host.stop
           \/ host.backend = "stopped" /\ host'.backend = "move" /\ ~host.stop
    <3>1. CASE Log!WaitForEntry
      BY <1>0, <3>1, Zenon DEF LogFields, Log!WaitForEntry, Log!BackendAt, Log!IsEmpty
    <3>2. CASE Log!BackendBlocks
      BY <1>0, <3>2, Zenon DEF LogFields, Log!BackendBlocks, Log!BackendAt
    <3>3. CASE Log!LookAtStop
      BY <1>0, <3>3, Zenon DEF LogFields, Log!LookAtStop, Log!BackendAt
    <3>. QED
      BY <1>2, <3>1, <3>2, <3>3
  <2>2. BackendInStep'
    BY <1>0, <2>1 DEF LogInv, BackendInStep
  <2>. QED
    BY <1>0, <2>1, <2>2, BackendStays DEF BackendMoves, BackendLabels
<1>3. CASE Log!Drain
  <2>1. /\ DOMAIN host' = LogFields
        /\ UNCHANGED <<host.m_data, host.m_read_index, host.m_write_index, host.write_mutex,
                       host.logger, host.left, host.entry, host.queued, host.written, host.stop,
                       host.before_stop, host.mode>>
        /\ host.backend = "drain"
        /\ \/ /\ host'.backend = "ended" /\ host'.max_logs = host.max_logs
              /\ host.max_logs = 0 \/ host.m_read_index = host.m_write_index
           \/ host'.backend = "move" /\ host.m_read_index # host.m_write_index
    BY <1>0, <1>3, Zenon DEF LogFields, Log!Drain, Log!BackendAt, Log!IsEmpty
  <2>2. BackendInStep'
    BY <1>0, <2>1 DEF LogInv, BackendInStep
  <2>. QED
    BY <1>0, <2>1, <2>2, BackendStays DEF BackendMoves, BackendLabels
<1>4. CASE Log!MoveEntry
  <2>1. /\ DOMAIN host' = LogFields
        /\ UNCHANGED <<host.m_data, host.m_read_index, host.m_write_index, host.write_mutex,
                       host.logger, host.left, host.queued, host.written, host.stop,
                       host.before_stop, host.max_logs, host.mode>>
        /\ host.backend = "move" /\ host'.backend = "increment"
        /\ host'.entry = host.m_data[host.m_read_index % Capacity]
    BY <1>0, <1>4 DEF LogFields, Log!MoveEntry, Log!BackendAt
  <2>2. LogHolder' = LogHolder /\ LogTyped'
    BY <2>1 DEF LogInv, LogTyped, LogHolder, BackendLabels
  <2>3. OneLogger' /\ SlotsHoldQueued' /\ BackendInStep'
    BY <2>1, <2>2 DEF LogInv, OneLogger, SlotsHoldQueued, BackendInStep
  <2>4. host.m_data[host.m_read_index % Capacity] = host.queued[host.m_read_index + 1]
    BY <1>0, <2>1 DEF LogInv, SlotsHoldQueued, BackendInStep
  <2>5. LastEntry'
    BY <1>0, <2>1, <2>4 DEF LastEntry
  <2>6. \A again : WrittenUpTo(again) => WrittenUpTo(again)'
    BY <2>1, NothingWritten DEF WrittenUpTo
  <2>. QED
    BY <2>1, <2>2, <2>3, <2>5, <2>6 DEF LogInv
<1>5. CASE Log!IncrementReadIndex
  <2>1. /\ DOMAIN host' = LogFields
        /\ UNCHANGED <<host.m_data, host.m_write_index, host.write_mutex, host.entry,
                       host.logger, host.left, host.queued, host.written, host.stop,
                       host.before_stop, host.max_logs, host.mode>>
        /\ host.backend = "increment" /\ host'.backend = "notify"
        /\ host'.m_read_index = host.m_read_index + 1
    BY <1>0, <1>5 DEF LogFields, Log!IncrementReadIndex, Log!BackendAt
  <2>2. LogHolder' = LogHolder /\ LogTyped'
    BY <2>1 DEF LogInv, LogTyped, LogHolder, BackendLabels
  <2>3. host.m_read_index < host.m_write_index
    BY <2>1 DEF LogInv, BackendInStep
  <2>4. OneLogger' /\ SlotsHoldQueued' /\ BackendInStep'
    <3>1. OneLogger' /\ BackendInStep'
      BY <1>0, <2>1, <2>2, <2>3 DEF LogInv, OneLogger, BackendInStep
    <3>2. \A n \in host.m_read_index + 1 .. Len(host.queued) - 1 :
            n \in host.m_read_index .. Len(host.queued) - 1
      BY <1>0
    <3>3. host.m_write_index < host.m_read_index + Capacity
          => host.m_write_index < host.m_read_index + 1 + Capacity
      BY <1>0, LogConstants
    <3>4. /\ host.m_read_index + 1 <= host.m_write_index
          /\ host.m_write_index <= host.m_read_index + Capacity
          /\ host.m_write_index <= host.m_read_index + 1 + Capacity
      BY <1>0, <2>3, LogConstants DEF LogInv, SlotsHoldQueued
    <3>5. SlotsHoldQueued'
      BY <2>1, <2>2, <3>2, <3>3, <3>4, Zenon DEF LogInv, SlotsHoldQueued
    <3>. QED
      BY <3>1, <3>5
  <2>5. LastEntry'
    BY <1>0, <2>1 DEF LogInv, LastEntry
  <2>6. \A again : WrittenUpTo(again) => WrittenUpTo(again)'
    BY <1>0, <2>1, NothingWritten DEF WrittenUpTo
  <2>. QED
    BY <2>1, <2>2, <2>4, <2>5, <2>6 DEF LogInv
<1>6. CASE Log!NotifyProducer
  <2>1. /\ DOMAIN host' = LogFields
        /\ UNCHANGED <<host.m_data, host.m_read_index, host.m_write_index, host.write_mutex,
                       host.entry, host.left, host.queued, host.written, host.stop,
                       host.before_stop, host.max_logs, host.mode>>
        /\ host.backend = "notify" /\ host'.backend = "write"
        /\ host'.logger = [l \in Loggers |-> IF host.logger[l] = "blocked" THEN "lock"
                                             ELSE host.logger[l]]
    BY <1>0, <1>6 DEF LogFields, Log!NotifyProducer, Log!BackendAt
  <2>2. /\ LogHolder' = IF LogHolder = "blocked" THEN "lock" ELSE LogHolder
        /\ OneLogger' /\ LogTyped'
    BY <2>1, LogConstants DEF LogInv, LogTyped, LogHolder, OneLogger, BackendLabels, LoggerLabels
  <2>3. SlotsHoldQueued' /\ BackendInStep' /\ LastEntry'
    BY <2>1, <2>2 DEF LogInv, SlotsHoldQueued, BackendInStep, LastEntry
  <2>4. \A again : WrittenUpTo(again) => WrittenUpTo(again)'
    BY <2>1, NothingWritten DEF WrittenUpTo
  <2>. QED
    BY <2>1, <2>2, <2>3, <2>4 DEF LogInv
<1>7. CASE Log!WriteLogs
  <2>1. /\ DOMAIN host' = LogFields
        /\ UNCHANGED <<host.m_data, host.m_read_index, host.m_write_index, host.write_mutex,
                       host.entry, host.logger, host.left, host.queued, host.stop,
                       host.before_stop, host.max_logs, host.mode>>
        /\ host.backend = "write"
        /\ host'.backend = IF host.mode = "TryPop" THEN "drain" ELSE "loop"
        /\ host'.written = IF host.entry = Null THEN host.written
                           ELSE Append(host.written, host.entry)
    BY <1>0, <1>7 DEF LogFields, Log!WriteLogs, Log!BackendAt
  <2>2. PICK again \in 2 .. Len(host.written) + 2 : WrittenUpTo(again)
    BY DEF LogInv
  <2>3. host.entry = IF host.m_read_index = 0 THEN Null ELSE host.queued[host.m_read_index]
    BY <2>1 DEF LogInv, LastEntry
  <2>4. host.m_read_index # 0 => host.entry \in LogEntries /\ host.entry # Null
    <3>1. host.m_read_index # 0 => host.m_read_index \in 1 .. Len(host.queued)
      BY <1>0
    <3>2. host.queued \in Seq(LogEntries)
      BY DEF LogInv, LogTyped
    <3>3. Null \notin LogEntries
      BY LogConstants DEF LogEntries
    <3>. QED
      BY <2>3, <3>1, <3>2, <3>3
  <2>5. host'.written \in Seq(LogEntries)
    BY <2>1, <2>3, <2>4 DEF LogInv, LogTyped
  <2>6. LogTyped' /\ LogHolder' = LogHolder
    BY <1>0, <2>1, <2>5 DEF LogInv, LogTyped, LogHolder, BackendLabels
  <2>7. OneLogger' /\ SlotsHoldQueued' /\ BackendInStep' /\ LastEntry'
    BY <1>0, <2>1, <2>6 DEF LogInv, OneLogger, SlotsHoldQueued, BackendInStep, LastEntry
  <2>8. CASE host.m_read_index = 0
    <3>1. UNCHANGED <<host.written, host.queued>>
      BY <2>1, <2>3, <2>8
    <3>2. Len(host.written) = 0 \/ Repeated(again)
      BY <1>0, <2>1, <2>2, <2>8 DEF WrittenUpTo, Distinct
    <3>3. Distinct(again) = 0
      BY <1>0, <2>1, <2>2, <2>8, <3>2 DEF WrittenUpTo, Distinct, Repeated
    <3>4. WrittenUpTo(again)'
      BY <1>0, <2>1, <2>2, <2>8, <3>1, <3>3, NothingWritten DEF WrittenUpTo
    <3>. QED
      BY <2>1, <2>2, <2>6, <2>7, <3>1, <3>4 DEF LogInv
  <2>9. CASE host.m_read_index # 0
    <3>1. PICK e \in LogEntries : e = host.queued[host.m_read_index] /\ e = host.entry
      BY <2>3, <2>4, <2>9
    <3>2. host.written \in Seq(LogEntries) /\ host'.written = Append(host.written, e)
      BY <2>1, <2>4, <2>9, <3>1 DEF LogInv, LogTyped
    <3>3. /\ Len(host'.written) = Len(host.written) + 1
          /\ \A i \in 1 .. Len(host.written) : host'.written[i] = host.written[i]
          /\ host'.written[Len(host.written) + 1] = e
      BY <3>2
    <3>4. SUFFICES \E next \in 2 .. Len(host.written) + 3 : WrittenUpTo(next)'
      BY <1>0, <2>6, <2>7, <3>3 DEF LogInv
    <3>5. CASE Repeated(again)
      <4>1. /\ host.stop /\ host.mode = "TryPop" /\ host'.backend = "drain"
            /\ Len(host.written) = host.m_read_index /\ again <= Len(host.written)
        BY <1>0, <2>1, <2>2, <3>5 DEF WrittenUpTo, Distinct, Repeated
      <4>2. TakenInOrder(again)'
        <5>1. ASSUME NEW i \in 1 .. Len(host.written) + 1
              PROVE  host'.written[i] = host.queued[IF i < again THEN i ELSE i - 1]
          <6>1. CASE i \in 1 .. Len(host.written)
            BY <2>2, <3>3, <6>1 DEF WrittenUpTo, TakenInOrder
          <6>2. CASE i = Len(host.written) + 1
            <7>1. ~ i < again /\ i - 1 = host.m_read_index
              BY <1>0, <2>2, <4>1, <6>2
            <7>. QED
              BY <3>1, <3>3, <6>2, <7>1, Zenon
          <6>3. i \in 1 .. Len(host.written) \/ i = Len(host.written) + 1
            BY <1>0
          <6>. QED
            BY <6>1, <6>2, <6>3, Zenon
        <5>. QED
          BY <2>1, <3>3, <5>1, Zenon DEF TakenInOrder
      <4>3. Repeated(again)' /\ Distinct(again)' = host.m_read_index
        BY <1>0, <2>2, <3>3, <4>1 DEF Repeated, Distinct
      <4>4. WrittenUpTo(again)'
        BY <2>1, <4>1, <4>2, <4>3 DEF WrittenUpTo
      <4>. QED
        BY <1>0, <2>2, <4>4
    <3>6. CASE ~Repeated(again) /\ Len(host.written) = host.m_read_index - 1
      <4>0. PICK next \in 2 .. Len(host.written) + 3 : next = Len(host.written) + 2
        BY <1>0
      <4>1. ASSUME NEW i \in 1 .. Len(host.written) + 1
            PROVE  i < next /\ host'.written[i] = host.queued[i]
        <5>1. CASE i \in 1 .. Len(host.written)
          <6>0. Len(host.written) < again
            BY <1>0, <2>2, <3>6 DEF Repeated
          <6>1. i < again /\ i < next
            BY <1>0, <2>2, <4>0, <5>1, <6>0
          <6>. QED
            BY <2>2, <3>3, <5>1, <6>1 DEF WrittenUpTo, TakenInOrder
        <5>2. CASE i = Len(host.written) + 1
          <6>1. i < next /\ i = host.m_read_index
            BY <1>0, <3>6, <4>0, <5>2
          <6>. QED
            BY <3>1, <3>3, <5>2, <6>1, Zenon
        <5>3. i \in 1 .. Len(host.written) \/ i = Len(host.written) + 1
          BY <1>0
        <5>. QED
          BY <5>1, <5>2, <5>3, Zenon
      <4>2. TakenInOrder(next)'
        BY <2>1, <3>3, <4>1 DEF TakenInOrder
      <4>3. ~Repeated(next)' /\ Distinct(next)' = host.m_read_index
        BY <1>0, <3>3, <3>6, <4>0 DEF Repeated, Distinct
      <4>4. WrittenUpTo(next)'
        BY <2>1, <4>2, <4>3 DEF WrittenUpTo
      <4>. QED
        BY <4>4
    <3>7. CASE ~Repeated(again) /\ Len(host.written) # host.m_read_index - 1
      <4>1. /\ Len(host.written) = host.m_read_index /\ host.stop /\ host.mode = "PopWait"
            /\ host'.backend = "loop"
        BY <1>0, <2>1, <2>2, <3>7 DEF WrittenUpTo, Distinct
      <4>2. PICK next \in 2 .. Len(host.written) + 3 : next = Len(host.written) + 1
        BY <1>0, <2>9, <4>1
      <4>3. ASSUME NEW i \in 1 .. Len(host.written) + 1
            PROVE  host'.written[i] = host.queued[IF i < next THEN i ELSE i - 1]
        <5>1. CASE i \in 1 .. Len(host.written)
          <6>0. Len(host.written) < again
            BY <1>0, <2>2, <3>7 DEF Repeated
          <6>1. i < again /\ i < next
            BY <1>0, <2>2, <4>2, <5>1, <6>0
          <6>. QED
            BY <2>2, <3>3, <5>1, <6>1 DEF WrittenUpTo, TakenInOrder
        <5>2. CASE i = Len(host.written) + 1
          <6>1. ~ i < next /\ i - 1 = host.m_read_index
            BY <1>0, <4>1, <4>2, <5>2
          <6>. QED
            BY <3>1, <3>3, <5>2, <6>1, Zenon
        <5>3. i \in 1 .. Len(host.written) \/ i = Len(host.written) + 1
          BY <1>0
        <5>. QED
          BY <5>1, <5>2, <5>3, Zenon
      <4>4. TakenInOrder(next)'
        BY <2>1, <3>3, <4>3, Zenon DEF TakenInOrder
      <4>5. Repeated(next)' /\ Distinct(next)' = host.m_read_index
        BY <1>0, <3>3, <4>1, <4>2 DEF Repeated, Distinct
      <4>6. WrittenUpTo(next)'
        BY <2>1, <4>1, <4>4, <4>5 DEF WrittenUpTo
      <4>. QED
        BY <4>6
    <3>. QED
      BY <3>5, <3>6, <3>7
  <2>. QED
    BY <2>8, <2>9
<1>. QED
  BY <1>1, <1>2, <1>3, <1>4, <1>5, <1>6, <1>7 DEF Log!Backend

(* A logger that begins to push, and the request to stop, keep the invariant. *)
LEMMA LogCalls == ASSUME LogInv, Log!Calls PROVE LogInv'
<1>0. /\ host.m_read_index \in Nat /\ host.m_write_index \in Nat
      /\ DOMAIN host = LogFields /\ host.backend \in BackendLabels
      /\ host.mode \in {"PopWait", "TryPop"} /\ host.stop \in BOOLEAN /\ host.before_stop \in Nat
      /\ host.logger \in [Loggers -> LoggerLabels] /\ host.left \in [Loggers -> Nat]
  BY DEF LogInv, LogTyped
<1>1. CASE Log!RequestStop
  <2>1. /\ DOMAIN host' = LogFields
        /\ UNCHANGED <<host.m_data, host.m_read_index, host.m_write_index, host.write_mutex,
                       host.entry, host.logger, host.left, host.queued, host.written,
                       host.max_logs, host.mode>>
        /\ host.stop = FALSE /\ host'.stop = TRUE /\ host'.before_stop = host.m_write_index
        /\ host'.backend = IF host.backend = "blocked" THEN "lock" ELSE host.backend
    BY <1>0, <1>1, Zenon DEF LogFields, Log!RequestStop
  <2>2. LogTyped' /\ LogHolder' = LogHolder
    BY <1>0, <2>1, Zenon DEF LogInv, LogTyped, LogHolder, BackendLabels
  <2>3. OneLogger' /\ SlotsHoldQueued' /\ BackendInStep' /\ LastEntry'
    BY <1>0, <2>1, <2>2 DEF LogInv, OneLogger, SlotsHoldQueued, BackendInStep, LastEntry
  <2>4. \A again : WrittenUpTo(again) => WrittenUpTo(again)'
    BY <2>1, NothingWritten DEF WrittenUpTo
  <2>. QED
    BY <2>1, <2>2, <2>3, <2>4 DEF LogInv
<1>2. CASE Log!BackendAt("blocked") /\ host' = [host EXCEPT !.backend = "lock"]
  <2>1. /\ DOMAIN host' = LogFields
        /\ UNCHANGED <<host.m_data, host.m_read_index, host.m_write_index, host.write_mutex,
                       host.logger, host.left, host.entry, host.queued, host.written, host.stop,
                       host.before_stop, host.max_logs, host.mode>>
        /\ host.backend = "blocked" /\ host'.backend = "lock"
    BY <1>0, <1>2 DEF LogFields, Log!BackendAt
  <2>2. BackendInStep'
    BY <1>0, <2>1 DEF LogInv, BackendInStep
  <2>. QED
    BY <1>0, <2>1, <2>2, BackendStays DEF BackendMoves, BackendLabels
<1>3. ASSUME NEW l \in Loggers, Log!At(l, "blocked"), host' = [host EXCEPT !.logger[l] = "lock"]
      PROVE  LogInv'
  <2>1. /\ DOMAIN host' = LogFields
        /\ UNCHANGED <<host.m_data, host.m_read_index, host.m_write_index, host.backend, host.mode,
                       host.entry, host.max_logs, host.stop, host.before_stop, host.queued,
                       host.written, host.write_mutex, host.left>>
        /\ host.logger[l] = "blocked" /\ host'.logger = [host.logger EXCEPT ![l] = "lock"]
    BY <1>0, <1>3 DEF LogFields, Log!At
  <2>2. LogHolder = "blocked" /\ LogHolder' = "lock" /\ OneLogger'
    BY <1>0, <2>1, LogConstants DEF LogInv, OneLogger, LogHolder
  <2>3. host'.logger \in [Loggers -> LoggerLabels]
    BY <1>0, <2>1 DEF LoggerLabels
  <2>. QED
    BY <1>0, <2>1, <2>2, <2>3, LoggerStays DEF LoggerMoves
<1>. QED
  BY <1>1, <1>2, <1>3 DEF Log!Calls, Log!SpuriousWakeup

-----------------------------------------------------------------------------
(* DspPipe *)

(* The pointer after n bytes: the offset of the next one, and the wrap bit *)
Ptr(n) == (n % bsize) + WrapBit * ((n \div bsize) % 2)

(* Quotient and remainder are determined by their sum. *)
LEMMA ModOf ==
  ASSUME NEW c \in Nat \ {0}, NEW k \in Nat, NEW a \in 0 .. c - 1
  PROVE  (c * k + a) % c = a /\ (c * k + a) \div c = k
<1>1. PICK n \in Nat : n = c * k + a
  OBVIOUS
<1>2. PICK q \in Nat, r \in 0 .. c - 1 : q = n \div c /\ r = n % c /\ n = c * q + r
  BY DivMod
<1>3. ~ q < k
  BY <1>1, <1>2, MultiplesApart
<1>4. ~ k < q
  BY <1>1, <1>2, MultiplesApart
<1>. QED
  BY <1>1, <1>2, <1>3, <1>4

(* What a pointer says: the offset, and the parity of the round. *)
LEMMA PtrParts ==
  ASSUME NEW n \in Nat
  PROVE  /\ Ptr(n) \in Nat /\ Pipe!Offset(Ptr(n)) = n % bsize
         /\ Ptr(n) \div WrapBit = (n \div bsize) % 2
<1>1. n % bsize \in 0 .. bsize - 1 /\ n \div bsize \in Nat
  BY DivMod, PipeConstants, Zenon
<1>2. PICK a \in 0 .. WrapBit - 1 : a = n % bsize
  BY <1>1, PipeConstants
<1>3. PICK k \in {0, 1} : k = (n \div bsize) % 2
  BY <1>1
<1>4. PICK p \in Nat : p = WrapBit * k + a
  BY PipeConstants
<1>5. p % WrapBit = a /\ p \div WrapBit = k
  BY <1>4, ModOf, PipeConstants
<1>6. Ptr(n) = p
  BY <1>2, <1>3, <1>4, PipeConstants DEF Ptr
<1>. QED
  BY <1>2, <1>3, <1>5, <1>6 DEF Pipe!Offset

(* Two counts that are at most a ring apart are in the same round, or in two that *)
(* follow on each other.                                                         *)
LEMMA Rounds ==
  ASSUME NEW r \in Nat, NEW s \in Nat, r <= s, s <= r + bsize
  PROVE  \/ s \div bsize = r \div bsize /\ s % bsize = (r % bsize) + s - r
         \/ s \div bsize = (r \div bsize) + 1 /\ s % bsize = (r % bsize) + s - r - bsize
<1>1. PICK p \in Nat, m \in 0 .. bsize - 1 : p = r \div bsize /\ m = r % bsize /\ r = bsize * p + m
  BY DivMod, PipeConstants
<1>0. PICK x \in Nat : x = bsize * p /\ r = x + m
  BY <1>1, PipeConstants
<1>2. CASE m + s - r < bsize
  <2>1. PICK a \in 0 .. bsize - 1 : a = m + s - r
    BY <1>1, <1>2, PipeConstants
  <2>2. s = bsize * p + a
    <3>1. s = x + a
      BY <1>0, <2>1
    <3>. QED
      BY <1>0, <3>1
  <2>3. s % bsize = a /\ s \div bsize = p
    BY <2>2, ModOf, PipeConstants
  <2>. QED
    BY <1>1, <2>1, <2>3, Zenon
<1>3. CASE m + s - r >= bsize
  <2>1. PICK a \in 0 .. bsize - 1 : a = m + s - r - bsize
    BY <1>1, <1>3, PipeConstants
  <2>2. PICK q \in Nat : q = p + 1
    OBVIOUS
  <2>3. bsize * q = x + bsize
    BY <1>0, <2>2, PipeConstants
  <2>4. s = bsize * q + a
    <3>1. s = x + bsize + a
      BY <1>0, <2>1, PipeConstants
    <3>. QED
      BY <2>3, <3>1
  <2>5. s % bsize = a /\ s \div bsize = q
    BY <2>4, ModOf, PipeConstants
  <2>. QED
    BY <1>1, <2>1, <2>2, <2>5, Zenon
<1>. QED
  BY <1>1, <1>2, <1>3, PipeConstants

(* A pointer that is moved within a round is the pointer of the new count. *)
LEMMA PtrForward ==
  ASSUME NEW n \in Nat, NEW c \in Nat \ {0}, (n % bsize) + c <= bsize
  PROVE  Pipe!Forward(Ptr(n), c) = Ptr(n + c)
<1>1. PICK p \in Nat, m \in 0 .. bsize - 1 : p = n \div bsize /\ m = n % bsize
  BY DivMod, PipeConstants, Zenon
<1>2. PICK s \in Nat : s = n + c
  OBVIOUS
<1>3. \/ s \div bsize = p /\ s % bsize = m + c
      \/ s \div bsize = p + 1 /\ s % bsize = m + c - bsize
  <2>1. n <= s /\ s <= n + bsize
    BY <1>1, <1>2, PipeConstants
  <2>2. \/ s \div bsize = n \div bsize /\ s % bsize = (n % bsize) + s - n
        \/ s \div bsize = (n \div bsize) + 1 /\ s % bsize = (n % bsize) + s - n - bsize
    BY <2>1, Rounds
  <2>. QED
    BY <1>1, <1>2, <2>2, PipeConstants
<1>4. s % bsize \in 0 .. bsize - 1
  BY DivMod, PipeConstants
<1>5. CASE m + c = bsize
  <2>1. s \div bsize = p + 1 /\ s % bsize = 0
    BY <1>1, <1>3, <1>4, <1>5, PipeConstants
  <2>2. (p + 1) % 2 = 1 - (p % 2)
    OBVIOUS
  <2>3. Pipe!Forward(Ptr(n), c) = WrapBit * (1 - (p % 2))
    <3>1. Pipe!Offset(Ptr(n)) = m /\ Ptr(n) \div WrapBit = p % 2
      BY <1>1, PtrParts
    <3>. QED
      BY <1>5, <3>1 DEF Pipe!Forward
  <2>4. Ptr(s) = 0 + WrapBit * (1 - (p % 2))
    BY <2>1, <2>2 DEF Ptr
  <2>. QED
    BY <1>2, <2>3, <2>4, PipeConstants
<1>6. CASE m + c # bsize
  <2>1. s \div bsize = p /\ s % bsize = m + c
    BY <1>1, <1>3, <1>4, <1>6, PipeConstants
  <2>2. Pipe!Forward(Ptr(n), c) = Ptr(n) + c
    BY <1>1, <1>6, PtrParts DEF Pipe!Forward
  <2>3. PICK k \in {0, 1} : k = p % 2
    OBVIOUS
  <2>. QED
    BY <1>1, <1>2, <2>1, <2>2, <2>3, PipeConstants DEF Ptr
<1>. QED
  BY <1>5, <1>6

(* What the comparisons of lle.cpp say of two pointers whose counts are at most a *)
(* ring apart: the rounds differ when the wrap bits do, the ring is full when the *)
(* counts are a ring apart, and empty when they agree.                            *)
LEMMA PtrCompare ==
  ASSUME NEW r \in Nat, NEW s \in Nat, r <= s, s <= r + bsize,
         NEW status, status.read_bptr = Ptr(r), status.write_bptr = Ptr(s)
  PROVE  /\ Pipe!IsWrapped(status) \in BOOLEAN
         /\ Pipe!IsWrapped(status) => s % bsize = (r % bsize) + s - r - bsize
         /\ ~Pipe!IsWrapped(status) => s % bsize = (r % bsize) + s - r
         /\ Pipe!IsFull(status) <=> s = r + bsize
         /\ Pipe!IsEmpty(status) <=> s = r
<1>1. PICK p \in Nat, m \in 0 .. bsize - 1 : p = r \div bsize /\ m = r % bsize
  BY DivMod, PipeConstants, Zenon
<1>2. PICK q \in Nat, n \in 0 .. bsize - 1 : q = s \div bsize /\ n = s % bsize
  BY DivMod, PipeConstants, Zenon
<1>3. \/ q = p /\ n = m + s - r
      \/ q = p + 1 /\ n = m + s - r - bsize
  <2>1. \/ s \div bsize = r \div bsize /\ s % bsize = (r % bsize) + s - r
        \/ s \div bsize = (r \div bsize) + 1 /\ s % bsize = (r % bsize) + s - r - bsize
    BY Rounds
  <2>. QED
    BY <1>1, <1>2, <2>1
<1>4. p % 2 \in {0, 1} /\ (p + 1) % 2 = 1 - (p % 2)
  OBVIOUS
<1>5. /\ Pipe!Offset(Ptr(r)) = m /\ Ptr(r) \div WrapBit = p % 2 /\ Ptr(r) \in Nat
      /\ Pipe!Offset(Ptr(s)) = n /\ Ptr(s) \div WrapBit = q % 2 /\ Ptr(s) \in Nat
  BY <1>1, <1>2, PtrParts
<1>6. Pipe!IsWrapped(status) <=> q = p + 1
  BY <1>3, <1>4, <1>5 DEF Pipe!IsWrapped
<1>7. Pipe!IsFull(status) <=> q = p + 1 /\ m = n
  BY <1>5, <1>6 DEF Pipe!IsFull
<1>8. Pipe!IsEmpty(status) <=> s = r
  <2>1. CASE s = r
    BY <2>1 DEF Pipe!IsEmpty
  <2>2. CASE s # r
    <3>1. p % 2 # q % 2 \/ m # n
      BY <1>3, <1>4, <2>2, PipeConstants
    <3>. QED
      BY <1>5, <2>2, <3>1 DEF Pipe!IsEmpty
  <2>. QED
    BY <2>1, <2>2
<1>. QED
  <2>1. Pipe!IsWrapped(status) \in BOOLEAN
    BY DEF Pipe!IsWrapped
  <2>2. Pipe!IsFull(status) <=> s = r + bsize
    BY <1>3, <1>7, PipeConstants
  <2>. QED
    BY <1>1, <1>2, <1>3, <1>6, <1>8, <2>1, <2>2, PipeConstants

(* The size that the CPU computes from the two pointers in sixteen bits. *)
LEMMA PtrSize ==
  ASSUME NEW r \in Nat, NEW s \in Nat, r <= s, s <= r + bsize, NEW d,
         host.status[d].read_bptr = Ptr(r), host.status[d].write_bptr = Ptr(s)
  PROVE  Pipe!GetPipeReadableSize(d) = s - r
<1>1. PICK p \in Nat, m \in 0 .. bsize - 1 : p = r \div bsize /\ m = r % bsize
  BY DivMod, PipeConstants, Zenon
<1>2. PICK q \in Nat, n \in 0 .. bsize - 1 : q = s \div bsize /\ n = s % bsize
  BY DivMod, PipeConstants, Zenon
<1>3. \/ q = p /\ n = m + s - r
      \/ q = p + 1 /\ n = m + s - r - bsize
  <2>1. \/ s \div bsize = r \div bsize /\ s % bsize = (r % bsize) + s - r
        \/ s \div bsize = (r \div bsize) + 1 /\ s % bsize = (r % bsize) + s - r - bsize
    BY Rounds
  <2>. QED
    BY <1>1, <1>2, <2>1
<1>4. p % 2 \in {0, 1} /\ (p + 1) % 2 = 1 - (p % 2)
  OBVIOUS
<1>5. Ptr(r) = m + WrapBit * (p % 2) /\ Ptr(s) = n + WrapBit * (q % 2)
  BY <1>1, <1>2 DEF Ptr
<1>6. Ptr(r) \div WrapBit = p % 2 /\ Ptr(s) \div WrapBit = q % 2
  BY <1>1, <1>2, PtrParts
<1>7. PICK a \in 0 .. WrapBit - 1 : a = s - r
  BY PipeConstants
<1>8. PICK k \in Nat : 2 * WrapBit + (Ptr(s) - Ptr(r))
                         + (IF Pipe!IsWrapped(host.status[d]) THEN bsize ELSE 0) = WrapBit * k + a
  <2>1. CASE q = p
    <3>1. ~Pipe!IsWrapped(host.status[d])
      BY <1>6, <2>1 DEF Pipe!IsWrapped
    <3>2. Ptr(s) - Ptr(r) = a
      <4>1. PICK x \in Int : x = WrapBit * (p % 2)
        BY <1>4, PipeConstants
      <4>. QED
        BY <1>3, <1>5, <1>7, <2>1, <4>1, PipeConstants
    <3>. QED
      BY <3>1, <3>2, PipeConstants
  <2>2. CASE q = p + 1
    <3>1. Pipe!IsWrapped(host.status[d])
      BY <1>4, <1>6, <2>2 DEF Pipe!IsWrapped
    <3>2. CASE p % 2 = 0
      <4>0. Ptr(r) = m /\ Ptr(s) = n + WrapBit
        BY <1>4, <1>5, <2>2, <3>2, PipeConstants
      <4>1. Ptr(s) - Ptr(r) = WrapBit + a - bsize
        BY <1>3, <1>7, <2>2, <4>0, PipeConstants
      <4>2. 2 * WrapBit + (Ptr(s) - Ptr(r)) + bsize = WrapBit * 3 + a
        BY <4>1, PipeConstants
      <4>. QED
        BY <3>1, <4>2
    <3>3. CASE p % 2 = 1
      <4>0. Ptr(r) = m + WrapBit /\ Ptr(s) = n
        BY <1>4, <1>5, <2>2, <3>3, PipeConstants
      <4>1. Ptr(s) - Ptr(r) = a - bsize - WrapBit
        BY <1>3, <1>7, <2>2, <4>0, PipeConstants
      <4>2. 2 * WrapBit + (Ptr(s) - Ptr(r)) + bsize = WrapBit * 1 + a
        BY <4>1, PipeConstants
      <4>. QED
        BY <3>1, <4>2
    <3>. QED
      BY <1>4, <3>2, <3>3
  <2>. QED
    BY <1>3, <2>1, <2>2
<1>9. (WrapBit * k + a) % WrapBit = a
  BY ModOf, PipeConstants
<1>. QED
  BY <1>7, <1>8, <1>9 DEF Pipe!GetPipeReadableSize, Pipe!Offset

PipeFields == {"status", "data", "sent", "received", "command", "cpu", "failed"}

PipeTyped ==
  /\ DOMAIN host = PipeFields
  /\ DOMAIN host.status = Pipe!Directions /\ DOMAIN host.data = Pipe!Directions
  /\ DOMAIN host.sent = Pipe!Directions /\ DOMAIN host.received = Pipe!Directions
  /\ \A d \in Pipe!Directions : DOMAIN host.status[d] = {"read_bptr", "write_bptr"}
  /\ DOMAIN host.cpu = {"at", "direction", "read_bptr", "write_bptr", "left"}
  /\ host.cpu.at \in {"idle", "copy", "send"} /\ host.cpu.left \in Nat
  /\ host.cpu.at # "idle" => host.cpu.direction \in Pipe!Directions
  /\ host.failed = FALSE

(* The ring holds the bytes from r on up to s. *)
BytesIn(ring, r, s) ==
  /\ ring \in [0 .. bsize - 1 -> Nat]
  /\ \A n \in Nat : r <= n /\ n < s => ring[n % bsize] = n + 1

(* The ring after count bytes are stored behind the first s *)
StoredBytes(ring, s, count) ==
  [b \in 0 .. bsize - 1 |-> IF b \in (s % bsize) .. (s % bsize) + count - 1
                            THEN s + 1 + b - (s % bsize) ELSE ring[b]]

(* count bytes that are taken in one piece behind the first r *)
TakenBytes(ring, r, count) == [k \in 1 .. count |-> ring[(r % bsize) + k - 1]]

(* The bytes that were received, and those that are in the ring *)
PipeHoldsSent(d) ==
  /\ host.sent[d] \in Nat /\ host.received[d] \in Seq(Nat) /\ Len(host.received[d]) <= host.sent[d]
  /\ \A k \in 1 .. Len(host.received[d]) : host.received[d][k] = k
  /\ BytesIn(host.data[d], Len(host.received[d]), host.sent[d])

Copying(d) == host.cpu.at = "copy" /\ host.cpu.direction = d

(* The DSP sees the bytes up to published, the CPU room from the byte it knows to be read. *)
PipeToDsp(published) ==
  LET d == "CPUtoDSP"
  IN  /\ host.status[d].read_bptr = Ptr(Len(host.received[d]))
      /\ host.status[d].write_bptr = Ptr(published)
      /\ Len(host.received[d]) <= published /\ published <= host.sent[d]
      /\ host.sent[d] <= Len(host.received[d]) + bsize
      /\ ~Copying(d) => published = host.sent[d]
      /\ Copying(d) =>
           /\ host.cpu.write_bptr = Ptr(host.sent[d])
           /\ \E r \in Nat : /\ r <= Len(host.received[d]) /\ host.cpu.read_bptr = Ptr(r)
                             /\ host.sent[d] + host.cpu.left <= r + bsize

(* The DSP sees the bytes up to published as read, the CPU those up to the one *)
(* that was the last when it began.                                            *)
PipeFromDsp(published) ==
  LET d == "DSPtoCPU"
  IN  /\ host.status[d].read_bptr = Ptr(published)
      /\ host.status[d].write_bptr = Ptr(host.sent[d])
      /\ published <= Len(host.received[d]) /\ host.sent[d] <= published + bsize
      /\ ~Copying(d) => published = Len(host.received[d])
      /\ Copying(d) =>
           /\ host.cpu.read_bptr = Ptr(Len(host.received[d]))
           /\ \E w \in Nat : /\ w <= host.sent[d] /\ host.cpu.write_bptr = Ptr(w)
                             /\ Len(host.received[d]) + host.cpu.left <= w

PipeInv ==
  /\ PipeTyped
  /\ PipeHoldsSent("CPUtoDSP") /\ PipeHoldsSent("DSPtoCPU")
  /\ \E published \in Nat : PipeToDsp(published)
  /\ \E published \in Nat : PipeFromDsp(published)

(* A few bytes on, still before the end of the array. *)
LEMMA InRound ==
  ASSUME NEW n \in Nat, NEW k \in Nat, (n % bsize) + k < bsize
  PROVE  (n + k) % bsize = (n % bsize) + k
<1>1. PICK m \in 0 .. bsize - 1 : m = n % bsize
  BY DivMod, PipeConstants
<1>2. PICK s \in Nat : s = n + k
  OBVIOUS
<1>3. n <= s /\ s <= n + bsize /\ m + k < bsize
  BY <1>1, <1>2, PipeConstants
<1>4. \/ s \div bsize = n \div bsize /\ s % bsize = (n % bsize) + s - n
      \/ s \div bsize = (n \div bsize) + 1 /\ s % bsize = (n % bsize) + s - n - bsize
  BY <1>3, Rounds
<1>5. s % bsize \in 0 .. bsize - 1
  BY DivMod, PipeConstants
<1>. QED
  BY <1>1, <1>2, <1>3, <1>4, <1>5, PipeConstants

(* Bytes that are put behind those in the ring leave the others alone. *)
LEMMA PutBytes ==
  ASSUME NEW r \in Nat, NEW s \in Nat, NEW count \in Nat \ {0}, r <= s, s + count <= r + bsize,
         (s % bsize) + count <= bsize, NEW old, BytesIn(old, r, s)
  PROVE  BytesIn(StoredBytes(old, s, count), r, s + count)
<1>0. PICK new : new = StoredBytes(old, s, count)
  OBVIOUS
<1>1. PICK m \in 0 .. bsize - 1 : m = s % bsize
  BY DivMod, PipeConstants, Zenon
<1>2. \A b \in 0 .. bsize - 1 : new[b] = IF b \in m .. m + count - 1 THEN s + 1 + b - m ELSE old[b]
  BY <1>0, <1>1 DEF StoredBytes
<1>3. new \in [0 .. bsize - 1 -> Nat]
  <2>1. \A b \in 0 .. bsize - 1 : new[b] \in Nat
    <3>1. TAKE b \in 0 .. bsize - 1
    <3>2. CASE b \in m .. m + count - 1
      BY <1>1, <1>2, <3>2, PipeConstants
    <3>3. CASE b \notin m .. m + count - 1
      BY <1>2, <3>3 DEF BytesIn
    <3>. QED
      BY <3>2, <3>3
  <2>. QED
    BY <1>0, <2>1 DEF StoredBytes
<1>4. ASSUME NEW n \in Nat, r <= n, n < s + count
      PROVE  new[n % bsize] = n + 1
  <2>1. n % bsize \in 0 .. bsize - 1
    BY DivMod, PipeConstants
  <2>2. CASE n >= s
    <3>1. PICK k \in Nat : n = s + k /\ k < count
      <4>1. n - s \in Nat /\ n = s + (n - s) /\ n - s < count
        BY <1>4, <2>2
      <4>. QED
        BY <4>1
    <3>2. (s % bsize) + k < bsize
      BY <1>1, <3>1, PipeConstants
    <3>3. n % bsize = m + k
      BY <1>1, <3>1, <3>2, InRound
    <3>. QED
      BY <1>1, <1>2, <2>1, <3>1, <3>3, PipeConstants
  <2>3. CASE n < s
    <3>1. n % bsize \notin m .. m + count - 1
      <4>1. SUFFICES ASSUME NEW k \in Nat, k < count, n % bsize = m + k PROVE FALSE
        <5>1. SUFFICES ASSUME n % bsize \in m .. m + count - 1 PROVE FALSE
          OBVIOUS
        <5>2. PICK k \in Nat : k = (n % bsize) - m /\ k < count
          BY <1>1, <2>1, <5>1
        <5>. QED
          BY <1>1, <2>1, <4>1, <5>2
      <4>2. PICK j \in Nat : j = s + k
        OBVIOUS
      <4>3. (s % bsize) + k < bsize
        BY <1>1, <4>1, PipeConstants
      <4>4. j % bsize = n % bsize
        BY <1>1, <4>1, <4>2, <4>3, InRound
      <4>5. n < j /\ j < n + bsize
        BY <1>4, <2>3, <4>1, <4>2, PipeConstants
      <4>. QED
        BY <4>4, <4>5, ModDistinct, PipeConstants, Zenon
    <3>. QED
      BY <1>2, <1>4, <2>1, <2>3, <3>1 DEF BytesIn
  <2>. QED
    BY <2>2, <2>3
<1>. QED
  BY <1>0, <1>3, <1>4 DEF BytesIn

(* Bytes that are taken in one piece continue those that were received. *)
LEMMA TakeBytes ==
  ASSUME NEW rec \in Seq(Nat), NEW count \in Nat, (Len(rec) % bsize) + count <= bsize,
         NEW data, NEW s \in Nat, BytesIn(data, Len(rec), s), Len(rec) + count <= s,
         \A k \in 1 .. Len(rec) : rec[k] = k
  PROVE  LET all == rec \o TakenBytes(data, Len(rec), count)
         IN  /\ all \in Seq(Nat) /\ Len(all) = Len(rec) + count
             /\ \A k \in 1 .. Len(all) : all[k] = k
<1>. PICK more : more = TakenBytes(data, Len(rec), count)
  OBVIOUS
<1>0. PICK r \in Nat : r = Len(rec)
  OBVIOUS
<1>1. PICK m \in 0 .. bsize - 1 : m = r % bsize
  BY DivMod, PipeConstants, Zenon
<1>2. ASSUME NEW k \in 1 .. count PROVE more[k] = r + k - 0
  <2>1. PICK j \in Nat : j = k - 1 /\ j < count
    OBVIOUS
  <2>2. (r % bsize) + j < bsize
    BY <1>0, <1>1, <2>1, PipeConstants
  <2>3. (r + j) % bsize = m + j
    BY <1>1, <2>2, InRound
  <2>4. PICK n \in Nat : n = r + j
    OBVIOUS
  <2>5. data[n % bsize] = n + 1
    <3>1. Len(rec) <= n /\ n < s
      BY <1>0, <2>1, <2>4
    <3>. QED
      BY <3>1 DEF BytesIn
  <2>6. more[k] = data[m + k - 1] /\ m + k - 1 = m + j
    BY <1>0, <1>1, <2>1, PipeConstants DEF TakenBytes
  <2>. QED
    BY <1>1, <2>1, <2>3, <2>4, <2>5, <2>6
<1>3. more \in Seq(Nat) /\ Len(more) = count
  BY <1>0, <1>2 DEF TakenBytes
<1>4. /\ \A k \in 1 .. Len(rec) : rec[k] = k - 0
      /\ \A k \in 1 .. Len(more) : more[k] = Len(rec) + k - 0
  BY <1>0, <1>2, <1>3
<1>. 0 \in Nat
  OBVIOUS
<1>5. /\ rec \o more \in Seq(Nat) /\ Len(rec \o more) = Len(rec) + Len(more)
      /\ \A k \in 1 .. Len(rec \o more) : (rec \o more)[k] = k - 0
  BY <1>3, <1>4, CountOn, Zenon
<1>6. \A k \in 1 .. Len(rec \o more) : k - 0 = k
  BY <1>5
<1>. QED
  BY <1>3, <1>5, <1>6, Zenon

(* Empty pipes satisfy the invariant. *)
LEMMA PipeInit == Pipe!DspPipeInit => PipeInv
<1>. SUFFICES ASSUME Pipe!DspPipeInit PROVE PipeInv
  OBVIOUS
<1>1. PipeTyped
  BY DEF Pipe!DspPipeInit, Pipe!Idle, PipeTyped, PipeFields
<1>2. ASSUME NEW d \in Pipe!Directions
      PROVE  /\ host.sent[d] = 0 /\ host.received[d] = <<>> /\ Len(host.received[d]) = 0
             /\ host.data[d] = [b \in 0 .. bsize - 1 |-> 0]
             /\ host.status[d].read_bptr = 0 /\ host.status[d].write_bptr = 0
             /\ host.cpu.at = "idle"
  BY DEF Pipe!DspPipeInit, Pipe!Idle
<1>3. "CPUtoDSP" \in Pipe!Directions /\ "DSPtoCPU" \in Pipe!Directions
  BY DEF Pipe!Directions
<1>4. PipeHoldsSent("CPUtoDSP") /\ PipeHoldsSent("DSPtoCPU")
  <2>1. ASSUME NEW d \in Pipe!Directions PROVE PipeHoldsSent(d)
    <3>0. <<>> \in Seq(Nat)
      OBVIOUS
    <3>1. host.received[d] \in Seq(Nat)
      BY <1>2, <3>0, Zenon
    <3>2. host.data[d] \in [0 .. bsize - 1 -> Nat]
      BY <1>2
    <3>. QED
      BY <1>2, <3>1, <3>2 DEF PipeHoldsSent, BytesIn
  <2>. QED
    BY <1>3, <2>1
<1>5. Ptr(0) = 0
  <2>1. 0 % bsize = 0 /\ 0 \div bsize = 0
    <3>1. 0 % bsize \in 0 .. bsize - 1 /\ 0 \div bsize \in Nat
          /\ 0 = bsize * (0 \div bsize) + (0 % bsize)
      BY DivMod, PipeConstants
    <3>2. PICK q \in Nat, m \in Nat : q = 0 \div bsize /\ m = 0 % bsize /\ 0 = bsize * q + m
      BY <3>1, PipeConstants
    <3>3. ~ 0 < q
      BY <3>2, MultiplesApart, PipeConstants
    <3>. QED
      BY <3>2, <3>3, PipeConstants
  <2>. QED
    BY <2>1, PipeConstants DEF Ptr
<1>6. PipeToDsp(0) /\ PipeFromDsp(0)
  BY <1>2, <1>3, <1>5, PipeConstants DEF PipeToDsp, PipeFromDsp, Copying
<1>. QED
  BY <1>1, <1>4, <1>6 DEF PipeInv

(* Where it holds, the bytes arrive in order and no assertion of lle.cpp fails. *)
LEMMA PipeSafe == PipeInv => Pipe!InOrder
<1>. SUFFICES ASSUME PipeInv PROVE Pipe!InOrder
  OBVIOUS
<1>1. PICK w \in Nat : PipeToDsp(w)
  BY DEF PipeInv
<1>2. PICK r \in Nat : PipeFromDsp(r)
  BY DEF PipeInv
<1>3. ASSUME NEW d \in Pipe!Directions PROVE PipeHoldsSent(d)
  BY DEF PipeInv, Pipe!Directions
<1>4. ASSUME NEW d \in Pipe!Directions, host.cpu.at = "idle"
      PROVE  Pipe!GetPipeReadableSize(d) = host.sent[d] - Len(host.received[d])
  <2>1. CASE d = "CPUtoDSP"
    BY <1>1, <1>3, <1>4, <2>1, PtrSize DEF PipeHoldsSent, PipeToDsp, Copying
  <2>2. CASE d = "DSPtoCPU"
    BY <1>2, <1>3, <1>4, <2>2, PtrSize DEF PipeHoldsSent, PipeFromDsp, Copying
  <2>. QED
    BY <2>1, <2>2 DEF Pipe!Directions
<1>5. ASSUME NEW d \in Pipe!Directions, NEW k \in DOMAIN host.received[d]
      PROVE  host.received[d][k] = k
  BY <1>3, <1>5 DEF PipeHoldsSent
<1>6. ~host.failed
  BY DEF PipeInv, PipeTyped
<1>. QED
  BY <1>4, <1>5, <1>6 DEF Pipe!InOrder

(* GetPipeStatus reads pointers that may be overtaken, by the other side only. *)
LEMMA PipeBegins == ASSUME PipeInv, Pipe!WritePipe \/ Pipe!ReadPipe PROVE PipeInv'
<1>0. /\ DOMAIN host = PipeFields
      /\ PipeHoldsSent("CPUtoDSP") /\ PipeHoldsSent("DSPtoCPU")
      /\ host.cpu.at = "idle"
  BY DEF PipeInv, PipeTyped, Pipe!WritePipe, Pipe!ReadPipe, Pipe!Begin
<1>1. PICK w \in Nat : PipeToDsp(w)
  BY DEF PipeInv
<1>2. PICK r \in Nat : PipeFromDsp(r)
  BY DEF PipeInv
<1>3. PICK d \in Pipe!Directions, count \in 1 .. bsize :
        /\ count <= IF d = "CPUtoDSP" THEN bsize - Pipe!GetPipeReadableSize(d)
                    ELSE Pipe!GetPipeReadableSize(d)
        /\ host' = [host EXCEPT !.cpu = [at |-> "copy", direction |-> d, left |-> count,
                                         read_bptr |-> host.status[d].read_bptr,
                                         write_bptr |-> host.status[d].write_bptr]]
  BY DEF Pipe!WritePipe, Pipe!ReadPipe, Pipe!Begin, Pipe!Directions
<1>4. Pipe!GetPipeReadableSize(d) = host.sent[d] - Len(host.received[d])
  BY <1>0, PipeSafe DEF Pipe!InOrder
<1>5. /\ DOMAIN host' = PipeFields
      /\ UNCHANGED <<host.status, host.data, host.sent, host.received, host.failed>>
      /\ host'.cpu = [at |-> "copy", direction |-> d, left |-> count,
                      read_bptr |-> host.status[d].read_bptr,
                      write_bptr |-> host.status[d].write_bptr]
  BY <1>0, <1>3 DEF PipeFields
<1>6. /\ host'.cpu.at = "copy" /\ host'.cpu.direction = d /\ host'.cpu.left = count
      /\ host'.cpu.read_bptr = host.status[d].read_bptr
      /\ host'.cpu.write_bptr = host.status[d].write_bptr
      /\ DOMAIN host'.cpu = {"at", "direction", "read_bptr", "write_bptr", "left"}
      /\ count \in Nat
  BY <1>5
<1>7. PipeTyped'
  BY <1>5, <1>6 DEF PipeInv, PipeTyped
<1>8. PipeHoldsSent("CPUtoDSP")' /\ PipeHoldsSent("DSPtoCPU")'
  BY <1>0, <1>5 DEF PipeHoldsSent
<1>9. CASE d = "CPUtoDSP"
  <2>1. host.sent[d] + count <= Len(host.received[d]) + bsize
    BY <1>0, <1>3, <1>4, <1>9, PipeConstants DEF PipeHoldsSent
  <2>2. PipeToDsp(w)'
    <3>1. PICK n \in Nat : n = Len(host.received[d])
      BY <1>0, <1>9 DEF PipeHoldsSent
    <3>2. host'.cpu.read_bptr = Ptr(n) /\ host'.cpu.write_bptr = Ptr(host.sent[d])
      BY <1>0, <1>1, <1>6, <1>9, <3>1 DEF PipeToDsp, Copying
    <3>3. /\ n <= Len(host'.received[d]) /\ host'.cpu.read_bptr = Ptr(n)
          /\ host'.sent[d] + host'.cpu.left <= n + bsize
      BY <1>5, <1>6, <2>1, <3>1, <3>2
    <3>4. /\ host'.status[d].read_bptr = Ptr(Len(host'.received[d]))
          /\ host'.status[d].write_bptr = Ptr(w)
          /\ Len(host'.received[d]) <= w /\ w <= host'.sent[d]
          /\ host'.sent[d] <= Len(host'.received[d]) + bsize
      BY <1>1, <1>5, <1>9, Zenon DEF PipeToDsp
    <3>5. Copying(d)' /\ host'.cpu.write_bptr = Ptr(host'.sent[d])
      BY <1>5, <1>6, <3>2 DEF Copying
    <3>. QED
      BY <1>9, <3>1, <3>3, <3>4, <3>5, Zenon DEF PipeToDsp
  <2>3. PipeFromDsp(r)'
    BY <1>0, <1>2, <1>5, <1>6, <1>9 DEF PipeFromDsp, Copying
  <2>. QED
    BY <1>7, <1>8, <2>2, <2>3 DEF PipeInv
<1>10. CASE d = "DSPtoCPU"
  <2>1. Len(host.received[d]) + count <= host.sent[d]
    BY <1>0, <1>3, <1>4, <1>10, PipeConstants DEF PipeHoldsSent
  <2>2. PipeFromDsp(r)'
    <3>1. PICK n \in Nat : n = host.sent[d]
      BY <1>0, <1>10 DEF PipeHoldsSent
    <3>2. /\ host'.cpu.read_bptr = Ptr(Len(host.received[d])) /\ host'.cpu.write_bptr = Ptr(n)
          /\ n <= host.sent[d] /\ Len(host.received[d]) + count <= n
      BY <1>0, <1>2, <1>6, <1>10, <2>1, <3>1 DEF PipeFromDsp, Copying
    <3>. QED
      BY <1>2, <1>5, <1>6, <1>10, <3>2 DEF PipeFromDsp, Copying
  <2>3. PipeToDsp(w)'
    BY <1>0, <1>1, <1>5, <1>6, <1>10 DEF PipeToDsp, Copying
  <2>. QED
    BY <1>7, <1>8, <2>2, <2>3 DEF PipeInv
<1>. QED
  BY <1>9, <1>10 DEF Pipe!Directions

(* A chunk is copied to bytes that the DSP has read, up to the end of the array. *)
LEMMA PipeWriteChunk == ASSUME PipeInv, Pipe!WriteChunk PROVE PipeInv'
<1>. DEFINE d == "CPUtoDSP"
<1>0. /\ DOMAIN host = PipeFields /\ DOMAIN host.data = Pipe!Directions
      /\ DOMAIN host.sent = Pipe!Directions
      /\ DOMAIN host.cpu = {"at", "direction", "read_bptr", "write_bptr", "left"}
      /\ d \in Pipe!Directions
      /\ host.cpu.at = "copy" /\ host.cpu.direction = d
      /\ host.cpu.left \in Nat /\ host.cpu.left > 0
  BY DEF PipeInv, PipeTyped, Pipe!WriteChunk, Pipe!Directions
<1>1. /\ host.sent[d] \in Nat /\ host.received[d] \in Seq(Nat)
      /\ Len(host.received[d]) \in Nat /\ Len(host.received[d]) <= host.sent[d]
  BY DEF PipeInv, PipeHoldsSent
<1>2. PICK w \in Nat : PipeToDsp(w)
  BY DEF PipeInv
<1>3. PICK r \in Nat : PipeFromDsp(r)
  BY DEF PipeInv
<1>4. PICK x \in Nat : /\ x <= Len(host.received[d]) /\ host.cpu.read_bptr = Ptr(x)
                       /\ host.sent[d] + host.cpu.left <= x + bsize
                       /\ host.cpu.write_bptr = Ptr(host.sent[d])
  BY <1>0, <1>2 DEF PipeToDsp, Copying
<1>5. PICK s \in Nat : s = host.sent[d]
  BY <1>1
<1>6. PICK begin \in 0 .. bsize - 1 : begin = s % bsize
  BY DivMod, PipeConstants
<1>7. x % bsize \in 0 .. bsize - 1
  BY DivMod, PipeConstants
<1>8. Pipe!Offset(host.cpu.write_bptr) = begin /\ Pipe!Offset(host.cpu.read_bptr) = x % bsize
  BY <1>4, <1>5, <1>6, PtrParts, Zenon
<1>9. x <= s /\ s + host.cpu.left <= x + bsize /\ s <= x + bsize
  BY <1>0, <1>1, <1>4, <1>5, PipeConstants
<1>10. /\ Pipe!IsWrapped(host.cpu) \in BOOLEAN
       /\ Pipe!IsWrapped(host.cpu) => s % bsize = (x % bsize) + s - x - bsize
       /\ Pipe!IsFull(host.cpu) <=> s = x + bsize
  BY <1>4, <1>5, <1>9, PtrCompare
<1>11. PICK end \in 0 .. bsize :
         /\ end = IF Pipe!IsWrapped(host.cpu) THEN Pipe!Offset(host.cpu.read_bptr) ELSE bsize
         /\ end > begin
  <2>1. CASE Pipe!IsWrapped(host.cpu)
    BY <1>0, <1>6, <1>7, <1>8, <1>9, <1>10, <2>1, PipeConstants
  <2>2. CASE ~Pipe!IsWrapped(host.cpu)
    BY <1>6, <2>2, PipeConstants
  <2>. QED
    BY <2>1, <2>2
<1>12. ~Pipe!IsFull(host.cpu)
  BY <1>0, <1>9, <1>10, PipeConstants
<1>13. PICK count \in Nat \ {0} : /\ count = Pipe!MinOf(host.cpu.left, end - begin)
                                  /\ count <= host.cpu.left /\ begin + count <= bsize
  BY <1>0, <1>11, PipeConstants DEF Pipe!MinOf
<1>14. PICK new : new = StoredBytes(host.data[d], s, count)
  OBVIOUS
<1>15. host' = [host EXCEPT !.data[d] = new, !.sent[d] = @ + count,
                            !.cpu.write_bptr = Pipe!Forward(@, count), !.cpu.left = @ - count]
  <2>1. ~(end <= begin)
    BY <1>11
  <2>2. new = [b \in 0 .. bsize - 1 |-> IF b \in begin .. begin + count - 1
                                         THEN host.sent[d] + 1 + b - begin ELSE host.data[d][b]]
    BY <1>5, <1>6, <1>14, Zenon DEF StoredBytes
  <2>. QED
    BY <1>8, <1>11, <1>12, <1>13, <2>1, <2>2, Zenon DEF Pipe!WriteChunk
<1>16. /\ DOMAIN host' = PipeFields
       /\ UNCHANGED <<host.status, host.received, host.failed>>
       /\ host'.data = [host.data EXCEPT ![d] = new]
       /\ host'.sent = [host.sent EXCEPT ![d] = host.sent[d] + count]
       /\ host'.cpu = [host.cpu EXCEPT !.write_bptr = Pipe!Forward(host.cpu.write_bptr, count),
                                       !.left = host.cpu.left - count]
  BY <1>0, <1>15 DEF PipeFields
<1>17. /\ DOMAIN host'.cpu = {"at", "direction", "read_bptr", "write_bptr", "left"}
       /\ host'.cpu.at = "copy" /\ host'.cpu.direction = d
       /\ host'.cpu.read_bptr = host.cpu.read_bptr
       /\ host'.cpu.write_bptr = Pipe!Forward(host.cpu.write_bptr, count)
       /\ host'.cpu.left = host.cpu.left - count
  BY <1>0, <1>16
<1>18. /\ host'.data[d] = new /\ host'.data["DSPtoCPU"] = host.data["DSPtoCPU"]
       /\ host'.sent[d] = s + count /\ host'.sent["DSPtoCPU"] = host.sent["DSPtoCPU"]
  BY <1>0, <1>5, <1>16 DEF Pipe!Directions
<1>19. PipeTyped'
  BY <1>0, <1>13, <1>16, <1>17 DEF PipeInv, PipeTyped
<1>20. PipeHoldsSent("DSPtoCPU")'
  BY <1>16, <1>18 DEF PipeInv, PipeHoldsSent
<1>21. PipeFromDsp(r)'
  BY <1>0, <1>3, <1>16, <1>17, <1>18 DEF PipeFromDsp, Copying
<1>22. s + count <= Len(host.received[d]) + bsize
  <2>1. s + count <= x + bsize
    BY <1>0, <1>9, <1>13, PipeConstants
  <2>. QED
    BY <1>1, <1>4, <2>1, PipeConstants
<1>23. PipeHoldsSent(d)'
  <2>1. BytesIn(new, Len(host.received[d]), s + count)
    <3>1. PICK rr \in Nat : rr = Len(host.received[d])
      BY <1>1
    <3>2. /\ rr <= s /\ s + count <= rr + bsize /\ (s % bsize) + count <= bsize
          /\ BytesIn(host.data[d], rr, s)
      BY <1>1, <1>5, <1>6, <1>13, <1>22, <3>1 DEF PipeInv, PipeHoldsSent
    <3>3. BytesIn(new, rr, s + count)
      BY <1>13, <1>14, <3>1, <3>2, PutBytes, Zenon
    <3>. QED
      BY <3>1, <3>3
  <2>2. s + count \in Nat /\ Len(host.received[d]) <= s + count
    BY <1>1, <1>5
  <2>. QED
    BY <1>16, <1>18, <2>1, <2>2 DEF PipeInv, PipeHoldsSent
<1>24. PipeToDsp(w)'
  <2>1. host'.cpu.write_bptr = Ptr(s + count)
    BY <1>4, <1>5, <1>6, <1>13, <1>17, PtrForward
  <2>2. s + count + (host.cpu.left - count) <= x + bsize /\ w <= s + count
    BY <1>0, <1>1, <1>2, <1>5, <1>9, <1>13 DEF PipeToDsp
  <2>. QED
    BY <1>2, <1>4, <1>16, <1>17, <1>18, <1>22, <2>1, <2>2 DEF PipeToDsp, Copying
<1>. QED
  BY <1>19, <1>20, <1>21, <1>23, <1>24 DEF PipeInv

(* A chunk is copied from bytes that the DSP has written. *)
LEMMA PipeReadChunk == ASSUME PipeInv, Pipe!ReadChunk PROVE PipeInv'
<1>. DEFINE d == "DSPtoCPU"
<1>0. /\ DOMAIN host = PipeFields /\ DOMAIN host.received = Pipe!Directions
      /\ DOMAIN host.cpu = {"at", "direction", "read_bptr", "write_bptr", "left"}
      /\ d \in Pipe!Directions
      /\ host.cpu.at = "copy" /\ host.cpu.direction = d
      /\ host.cpu.left \in Nat /\ host.cpu.left > 0
  BY DEF PipeInv, PipeTyped, Pipe!ReadChunk, Pipe!Directions
<1>1. /\ host.sent[d] \in Nat /\ host.received[d] \in Seq(Nat)
      /\ Len(host.received[d]) \in Nat /\ Len(host.received[d]) <= host.sent[d]
  BY DEF PipeInv, PipeHoldsSent
<1>2. PICK w \in Nat : PipeToDsp(w)
  BY DEF PipeInv
<1>3. PICK r \in Nat : PipeFromDsp(r)
  BY DEF PipeInv
<1>4. PICK x \in Nat : /\ x <= host.sent[d] /\ host.cpu.write_bptr = Ptr(x)
                       /\ Len(host.received[d]) + host.cpu.left <= x
                       /\ host.cpu.read_bptr = Ptr(Len(host.received[d]))
  BY <1>0, <1>3 DEF PipeFromDsp, Copying
<1>5. PICK s \in Nat : s = Len(host.received[d])
  BY <1>1
<1>6. PICK begin \in 0 .. bsize - 1 : begin = s % bsize
  BY DivMod, PipeConstants
<1>7. x % bsize \in 0 .. bsize - 1
  BY DivMod, PipeConstants
<1>8. Pipe!Offset(host.cpu.read_bptr) = begin /\ Pipe!Offset(host.cpu.write_bptr) = x % bsize
  BY <1>4, <1>5, <1>6, PtrParts, Zenon
<1>9. s + host.cpu.left <= x /\ s <= x /\ x <= s + bsize
  BY <1>0, <1>1, <1>3, <1>4, <1>5, PipeConstants DEF PipeFromDsp
<1>10. /\ Pipe!IsWrapped(host.cpu) \in BOOLEAN
       /\ ~Pipe!IsWrapped(host.cpu) => x % bsize = (s % bsize) + x - s
       /\ Pipe!IsEmpty(host.cpu) <=> x = s
  BY <1>4, <1>5, <1>9, PtrCompare
<1>11. PICK end \in 0 .. bsize :
         /\ end = IF Pipe!IsWrapped(host.cpu) THEN bsize ELSE Pipe!Offset(host.cpu.write_bptr)
         /\ end > begin
  <2>1. CASE ~Pipe!IsWrapped(host.cpu)
    BY <1>0, <1>6, <1>7, <1>8, <1>9, <1>10, <2>1, PipeConstants
  <2>2. CASE Pipe!IsWrapped(host.cpu)
    BY <1>6, <2>2, PipeConstants
  <2>. QED
    BY <2>1, <2>2
<1>12. ~Pipe!IsEmpty(host.cpu)
  BY <1>0, <1>9, <1>10, PipeConstants
<1>13. PICK count \in Nat \ {0} : /\ count = Pipe!MinOf(host.cpu.left, end - begin)
                                  /\ count <= host.cpu.left /\ begin + count <= bsize
  BY <1>0, <1>11, PipeConstants DEF Pipe!MinOf
<1>14. PICK more : more = TakenBytes(host.data[d], s, count)
  OBVIOUS
<1>15. host' = [host EXCEPT !.received[d] = @ \o more,
                            !.cpu.read_bptr = Pipe!Forward(@, count), !.cpu.left = @ - count]
  <2>1. ~(end <= begin)
    BY <1>11
  <2>2. more = [k \in 1 .. count |-> host.data[d][begin + k - 1]]
    BY <1>6, <1>14, Zenon DEF TakenBytes
  <2>. QED
    BY <1>8, <1>11, <1>12, <1>13, <2>1, <2>2, Zenon DEF Pipe!ReadChunk
<1>16. /\ DOMAIN host' = PipeFields
       /\ UNCHANGED <<host.status, host.data, host.sent, host.failed>>
       /\ host'.received = [host.received EXCEPT ![d] = host.received[d] \o more]
       /\ host'.cpu = [host.cpu EXCEPT !.read_bptr = Pipe!Forward(host.cpu.read_bptr, count),
                                       !.left = host.cpu.left - count]
  BY <1>0, <1>15 DEF PipeFields
<1>17. /\ DOMAIN host'.cpu = {"at", "direction", "read_bptr", "write_bptr", "left"}
       /\ host'.cpu.at = "copy" /\ host'.cpu.direction = d
       /\ host'.cpu.write_bptr = host.cpu.write_bptr
       /\ host'.cpu.read_bptr = Pipe!Forward(host.cpu.read_bptr, count)
       /\ host'.cpu.left = host.cpu.left - count
  BY <1>0, <1>16
<1>18. /\ host'.received[d] = host.received[d] \o more
       /\ host'.received["CPUtoDSP"] = host.received["CPUtoDSP"]
  BY <1>0, <1>16 DEF Pipe!Directions
<1>19. PipeTyped'
  BY <1>0, <1>13, <1>16, <1>17 DEF PipeInv, PipeTyped
<1>20. PipeHoldsSent("CPUtoDSP")'
  BY <1>16, <1>18, Zenon DEF PipeInv, PipeHoldsSent
<1>21. PipeToDsp(w)'
  BY <1>0, <1>2, <1>16, <1>17, <1>18 DEF PipeToDsp, Copying
<1>22. s + count <= host.sent[d] /\ s + count + (host.cpu.left - count) <= x /\ r <= s + count
  <2>1. r <= s
    BY <1>3, <1>5 DEF PipeFromDsp
  <2>2. s + count <= x
    BY <1>0, <1>9, <1>13
  <2>. QED
    <3>1. s + count <= host.sent[d]
      BY <1>1, <1>4, <2>2
    <3>2. s + count + (host.cpu.left - count) <= x
      BY <1>0, <1>9, <1>13
    <3>3. r <= s + count
      BY <1>13, <2>1
    <3>. QED
      BY <3>1, <3>2, <3>3
<1>23. /\ host'.received[d] \in Seq(Nat) /\ Len(host'.received[d]) = s + count
       /\ \A k \in 1 .. Len(host'.received[d]) : host'.received[d][k] = k
  <2>0. PICK data : data = host.data[d]
    OBVIOUS
  <2>1. PICK rec \in Seq(Nat), sent \in Nat : rec = host.received[d] /\ sent = host.sent[d]
    BY <1>1
  <2>2. /\ Len(rec) = s /\ BytesIn(data, Len(rec), sent)
        /\ \A k \in 1 .. Len(rec) : rec[k] = k
    BY <1>5, <2>0, <2>1 DEF PipeInv, PipeHoldsSent
  <2>3. (Len(rec) % bsize) + count <= bsize /\ count \in Nat /\ Len(rec) + count <= sent
    BY <1>6, <1>13, <1>22, <2>1, <2>2
  <2>4. LET all == rec \o TakenBytes(data, Len(rec), count)
        IN  /\ all \in Seq(Nat) /\ Len(all) = Len(rec) + count
            /\ \A k \in 1 .. Len(all) : all[k] = k
    BY <2>1, <2>2, <2>3, TakeBytes, Zenon
  <2>. QED
    BY <1>14, <1>18, <2>0, <2>1, <2>2, <2>4, Zenon
<1>24. PipeHoldsSent(d)'
  <2>1. BytesIn(host.data[d], s + count, host.sent[d])
    BY <1>1, <1>5, <1>13 DEF PipeInv, PipeHoldsSent, BytesIn
  <2>. QED
    BY <1>1, <1>16, <1>22, <1>23, <2>1 DEF PipeHoldsSent
<1>25. PipeFromDsp(r)'
  <2>1. host'.cpu.read_bptr = Ptr(s + count)
    BY <1>4, <1>5, <1>6, <1>13, <1>17, PtrForward
  <2>. QED
    BY <1>3, <1>4, <1>16, <1>17, <1>22, <1>23, <2>1 DEF PipeFromDsp, Copying
<1>. QED
  BY <1>19, <1>20, <1>21, <1>24, <1>25 DEF PipeInv

(* UpdatePipeStatus publishes the pointer of the CPU, and leaves that of the DSP alone. *)
LEMMA PipeEnds ==
  ASSUME PipeInv, Pipe!UpdatePipeStatus \/ Pipe!SendData \/ Pipe!DspTakesCommand
  PROVE  PipeInv'
<1>0. /\ DOMAIN host = PipeFields /\ DOMAIN host.status = Pipe!Directions
      /\ DOMAIN host.status["CPUtoDSP"] = {"read_bptr", "write_bptr"}
      /\ DOMAIN host.status["DSPtoCPU"] = {"read_bptr", "write_bptr"}
      /\ DOMAIN host.cpu = {"at", "direction", "read_bptr", "write_bptr", "left"}
      /\ "CPUtoDSP" \in Pipe!Directions /\ "DSPtoCPU" \in Pipe!Directions
      /\ host.cpu.left \in Nat
      /\ PipeHoldsSent("CPUtoDSP") /\ PipeHoldsSent("DSPtoCPU")
  BY DEF PipeInv, PipeTyped, Pipe!Directions
<1>1. PICK w \in Nat : PipeToDsp(w)
  BY DEF PipeInv
<1>2. PICK r \in Nat : PipeFromDsp(r)
  BY DEF PipeInv
<1>3. CASE Pipe!SendData \/ Pipe!DspTakesCommand
  <2>1. /\ DOMAIN host' = PipeFields
        /\ UNCHANGED <<host.status, host.data, host.sent, host.received, host.failed>>
        /\ \/ host.cpu.at = "send" /\ host'.cpu = Pipe!Idle
           \/ host'.cpu = host.cpu
    BY <1>0, <1>3, ZenonT(30) DEF PipeFields, Pipe!SendData, Pipe!DspTakesCommand
  <2>2. PipeTyped'
    BY <2>1 DEF PipeInv, PipeTyped, Pipe!Idle
  <2>3. PipeHoldsSent("CPUtoDSP")' /\ PipeHoldsSent("DSPtoCPU")'
    BY <1>0, <2>1, ZenonT(30) DEF PipeHoldsSent
  <2>4. CASE host'.cpu = host.cpu
    BY <1>1, <1>2, <2>1, <2>2, <2>3, <2>4, Zenon DEF PipeInv, PipeToDsp, PipeFromDsp, Copying
  <2>5. CASE host.cpu.at = "send" /\ host'.cpu = Pipe!Idle
    <3>1. host'.cpu.at = "idle"
      BY <2>5 DEF Pipe!Idle
    <3>2. PipeToDsp(w)' /\ PipeFromDsp(r)'
      BY <1>1, <1>2, <2>1, <2>5, <3>1 DEF PipeToDsp, PipeFromDsp, Copying
    <3>. QED
      BY <2>2, <2>3, <3>2 DEF PipeInv
  <2>. QED
    BY <2>1, <2>4, <2>5
<1>4. CASE Pipe!UpdatePipeStatus
  <2>1. /\ DOMAIN host' = PipeFields
        /\ UNCHANGED <<host.data, host.sent, host.received, host.failed>>
        /\ host.cpu.at = "copy" /\ host'.cpu = [host.cpu EXCEPT !.at = "send"]
    BY <1>0, <1>4 DEF PipeFields, Pipe!UpdatePipeStatus
  <2>2. /\ DOMAIN host'.cpu = DOMAIN host.cpu
        /\ UNCHANGED <<host.cpu.direction, host.cpu.left, host.cpu.read_bptr, host.cpu.write_bptr>>
        /\ host'.cpu.at = "send"
    BY <1>0, <2>1
  <2>3. PipeHoldsSent("CPUtoDSP")' /\ PipeHoldsSent("DSPtoCPU")'
    BY <1>0, <2>1 DEF PipeHoldsSent
  <2>4. CASE host.cpu.direction = "CPUtoDSP"
    <3>0. host'.status = [host.status EXCEPT !["CPUtoDSP"].write_bptr = host.cpu.write_bptr]
      BY <1>0, <1>4, <2>4 DEF PipeFields, Pipe!UpdatePipeStatus
    <3>1. /\ DOMAIN host'.status = Pipe!Directions
          /\ host'.status["DSPtoCPU"] = host.status["DSPtoCPU"]
          /\ DOMAIN host'.status["CPUtoDSP"] = {"read_bptr", "write_bptr"}
          /\ host'.status["CPUtoDSP"].read_bptr = host.status["CPUtoDSP"].read_bptr
          /\ host'.status["CPUtoDSP"].write_bptr = host.cpu.write_bptr
      BY <1>0, <3>0
    <3>2. PipeTyped'
      BY <1>0, <2>1, <2>2, <3>1 DEF PipeInv, PipeTyped, Pipe!Directions
    <3>3. PICK s \in Nat : s = host.sent["CPUtoDSP"]
      BY <1>0 DEF PipeHoldsSent
    <3>4. PipeToDsp(s)'
      BY <1>0, <1>1, <2>1, <2>2, <2>4, <3>1, <3>3 DEF PipeHoldsSent, PipeToDsp, Copying
    <3>5. PipeFromDsp(r)'
      BY <1>2, <2>1, <2>2, <2>4, <3>1 DEF PipeFromDsp, Copying
    <3>. QED
      BY <2>3, <3>2, <3>4, <3>5 DEF PipeInv
  <2>5. CASE host.cpu.direction = "DSPtoCPU"
    <3>0. host'.status = [host.status EXCEPT !["DSPtoCPU"].read_bptr = host.cpu.read_bptr]
      BY <1>0, <1>4, <2>5 DEF PipeFields, Pipe!UpdatePipeStatus
    <3>1. /\ DOMAIN host'.status = Pipe!Directions
          /\ host'.status["CPUtoDSP"] = host.status["CPUtoDSP"]
          /\ DOMAIN host'.status["DSPtoCPU"] = {"read_bptr", "write_bptr"}
          /\ host'.status["DSPtoCPU"].write_bptr = host.status["DSPtoCPU"].write_bptr
          /\ host'.status["DSPtoCPU"].read_bptr = host.cpu.read_bptr
      BY <1>0, <3>0
    <3>2. PipeTyped'
      BY <1>0, <2>1, <2>2, <3>1 DEF PipeInv, PipeTyped, Pipe!Directions
    <3>3. PICK s \in Nat : s = Len(host.received["DSPtoCPU"])
      BY <1>0 DEF PipeHoldsSent
    <3>4. PipeFromDsp(s)'
      <4>1. s <= host.sent["DSPtoCPU"] /\ r <= s /\ host.sent["DSPtoCPU"] <= s + bsize
        BY <1>0, <1>2, <3>3, PipeConstants DEF PipeHoldsSent, PipeFromDsp
      <4>. QED
        BY <1>0, <1>2, <2>1, <2>2, <2>5, <3>1, <3>3, <4>1 DEF PipeFromDsp, Copying
    <3>5. PipeToDsp(w)'
      BY <1>1, <2>1, <2>2, <2>5, <3>1 DEF PipeToDsp, Copying
    <3>. QED
      BY <2>3, <3>2, <3>4, <3>5 DEF PipeInv
  <2>. QED
    BY <2>1, <2>4, <2>5, Zenon DEF PipeInv, PipeTyped, Pipe!Directions
<1>. QED
  BY <1>3, <1>4

(* The firmware writes a byte into a pipe that has room for it. *)
LEMMA PipeDspWrites == ASSUME PipeInv, Pipe!DspWrites PROVE PipeInv'
<1>. DEFINE d == "DSPtoCPU"
<1>0. /\ DOMAIN host = PipeFields /\ DOMAIN host.data = Pipe!Directions
      /\ DOMAIN host.sent = Pipe!Directions /\ DOMAIN host.status = Pipe!Directions
      /\ DOMAIN host.status[d] = {"read_bptr", "write_bptr"}
      /\ d \in Pipe!Directions
  BY DEF PipeInv, PipeTyped, Pipe!Directions
<1>1. /\ host.sent[d] \in Nat /\ host.received[d] \in Seq(Nat)
      /\ Len(host.received[d]) \in Nat /\ Len(host.received[d]) <= host.sent[d]
      /\ BytesIn(host.data[d], Len(host.received[d]), host.sent[d])
  BY DEF PipeInv, PipeHoldsSent
<1>2. PICK w \in Nat : PipeToDsp(w)
  BY DEF PipeInv
<1>3. PICK r \in Nat : PipeFromDsp(r)
  BY DEF PipeInv
<1>4. PICK s \in Nat : s = host.sent[d]
  BY <1>1
<1>5. PICK n \in Nat : n = Len(host.received[d])
  BY <1>1
<1>6. /\ host.status[d].read_bptr = Ptr(r) /\ host.status[d].write_bptr = Ptr(s)
      /\ r <= n /\ n <= s /\ s <= r + bsize
  BY <1>1, <1>3, <1>4, <1>5 DEF PipeFromDsp
<1>7. s + 1 <= r + bsize
  <2>1. ~Pipe!IsFull(host.status[d])
    BY DEF Pipe!DspWrites
  <2>2. r <= s
    BY <1>6
  <2>3. s # r + bsize
    BY <1>6, <2>1, <2>2, PtrCompare
  <2>. QED
    BY <1>6, <2>3, PipeConstants
<1>8. PICK m \in 0 .. bsize - 1 : m = s % bsize
  BY DivMod, PipeConstants
<1>9. Pipe!Offset(host.status[d].write_bptr) = m
  BY <1>6, <1>8, PtrParts
<1>10. PICK new : new = [host.data[d] EXCEPT ![m] = s + 1]
  BY Zenon
<1>11. /\ DOMAIN host' = PipeFields
       /\ UNCHANGED <<host.received, host.cpu, host.failed>>
       /\ host'.data = [host.data EXCEPT ![d] = new]
       /\ host'.sent = [host.sent EXCEPT ![d] = s + 1]
       /\ host'.status = [host.status EXCEPT ![d].write_bptr = Pipe!Forward(Ptr(s), 1)]
  BY <1>0, <1>4, <1>6, <1>9, <1>10 DEF PipeFields, Pipe!DspWrites
<1>12. /\ host'.data[d] = new /\ host'.data["CPUtoDSP"] = host.data["CPUtoDSP"]
       /\ host'.sent[d] = s + 1 /\ host'.sent["CPUtoDSP"] = host.sent["CPUtoDSP"]
       /\ DOMAIN host'.status = Pipe!Directions
       /\ host'.status["CPUtoDSP"] = host.status["CPUtoDSP"]
       /\ DOMAIN host'.status[d] = {"read_bptr", "write_bptr"}
       /\ host'.status[d].read_bptr = Ptr(r)
       /\ host'.status[d].write_bptr = Pipe!Forward(Ptr(s), 1)
  BY <1>0, <1>6, <1>11 DEF Pipe!Directions
<1>13. PipeTyped'
  BY <1>0, <1>11, <1>12 DEF PipeInv, PipeTyped, Pipe!Directions
<1>14. PipeHoldsSent("CPUtoDSP")'
  BY <1>11, <1>12 DEF PipeInv, PipeHoldsSent
<1>15. PipeToDsp(w)'
  BY <1>2, <1>11, <1>12 DEF PipeToDsp, Copying
<1>16. PipeHoldsSent(d)'
  <2>1. n <= s /\ s + 1 <= n + bsize /\ (s % bsize) + 1 <= bsize /\ BytesIn(host.data[d], n, s)
    <3>1. BytesIn(host.data[d], n, s)
      BY <1>1, <1>4, <1>5
    <3>2. n <= s /\ s + 1 <= n + bsize
      BY <1>6, <1>7, PipeConstants
    <3>3. (s % bsize) + 1 <= bsize
      BY <1>8, PipeConstants
    <3>. QED
      BY <3>1, <3>2, <3>3
  <2>2. BytesIn(StoredBytes(host.data[d], s, 1), n, s + 1)
    <3>1. PICK old : old = host.data[d]
      OBVIOUS
    <3>2. 1 \in Nat \ {0}
      OBVIOUS
    <3>3. BytesIn(StoredBytes(old, s, 1), n, s + 1)
      BY <1>4, <1>5, <2>1, <3>1, <3>2, PutBytes, Zenon
    <3>. QED
      BY <3>1, <3>3
  <2>3. new = StoredBytes(host.data[d], s, 1)
    <3>1. host.data[d] \in [0 .. bsize - 1 -> Nat]
      BY <1>1 DEF BytesIn
    <3>2. \A b \in 0 .. bsize - 1 : b \in m .. m + 1 - 1 <=> b = m
      BY <1>8
    <3>3. \A b \in 0 .. bsize - 1 :
            (IF b \in m .. m + 1 - 1 THEN s + 1 + b - m ELSE host.data[d][b])
              = (IF b = m THEN s + 1 ELSE host.data[d][b])
      BY <1>8, <3>2
    <3>4. StoredBytes(host.data[d], s, 1)
            = [b \in 0 .. bsize - 1 |-> IF b = m THEN s + 1 ELSE host.data[d][b]]
      BY <1>8, <3>3, Zenon DEF StoredBytes
    <3>. QED
      BY <1>10, <3>1, <3>4, Zenon
  <2>4. s + 1 \in Nat /\ Len(host.received[d]) <= s + 1
    BY <1>1, <1>4
  <2>. QED
    BY <1>1, <1>5, <1>11, <1>12, <2>2, <2>3, <2>4 DEF PipeInv, PipeHoldsSent
<1>17. PipeFromDsp(r)'
  <2>1. Pipe!Forward(Ptr(s), 1) = Ptr(s + 1)
    BY <1>8, PtrForward, PipeConstants
  <2>2. /\ host.cpu.at = "copy" /\ host.cpu.direction = d =>
             /\ host.cpu.read_bptr = Ptr(Len(host.received[d]))
             /\ \E x \in Nat : /\ x <= s + 1 /\ host.cpu.write_bptr = Ptr(x)
                               /\ Len(host.received[d]) + host.cpu.left <= x
        /\ ~(host.cpu.at = "copy" /\ host.cpu.direction = d) => r = Len(host.received[d])
    BY <1>3, <1>4 DEF PipeFromDsp, Copying
  <2>. QED
    BY <1>5, <1>6, <1>7, <1>11, <1>12, <2>1, <2>2 DEF PipeFromDsp, Copying
<1>. QED
  BY <1>13, <1>14, <1>15, <1>16, <1>17 DEF PipeInv

(* The firmware reads a byte that the CPU has published. *)
LEMMA PipeDspReads == ASSUME PipeInv, Pipe!DspReads PROVE PipeInv'
<1>. DEFINE d == "CPUtoDSP"
<1>0. /\ DOMAIN host = PipeFields /\ DOMAIN host.received = Pipe!Directions
      /\ DOMAIN host.status = Pipe!Directions
      /\ DOMAIN host.status[d] = {"read_bptr", "write_bptr"}
      /\ d \in Pipe!Directions
  BY DEF PipeInv, PipeTyped, Pipe!Directions
<1>1. /\ host.sent[d] \in Nat /\ host.received[d] \in Seq(Nat)
      /\ Len(host.received[d]) \in Nat /\ Len(host.received[d]) <= host.sent[d]
      /\ BytesIn(host.data[d], Len(host.received[d]), host.sent[d])
  BY DEF PipeInv, PipeHoldsSent
<1>2. PICK w \in Nat : PipeToDsp(w)
  BY DEF PipeInv
<1>3. PICK r \in Nat : PipeFromDsp(r)
  BY DEF PipeInv
<1>4. PICK n \in Nat : n = Len(host.received[d])
  BY <1>1
<1>5. /\ host.status[d].read_bptr = Ptr(n) /\ host.status[d].write_bptr = Ptr(w)
      /\ n <= w /\ w <= host.sent[d] /\ host.sent[d] <= n + bsize
  BY <1>1, <1>2, <1>4 DEF PipeToDsp
<1>6. n < w
  <2>1. ~Pipe!IsEmpty(host.status[d])
    BY DEF Pipe!DspReads
  <2>. QED
    BY <1>5, <2>1 DEF Pipe!IsEmpty
<1>7. PICK m \in 0 .. bsize - 1 : m = n % bsize
  BY DivMod, PipeConstants
<1>8. Pipe!Offset(host.status[d].read_bptr) = m
  BY <1>5, <1>7, PtrParts
<1>9. host.data[d][m] = n + 1
  BY <1>1, <1>4, <1>5, <1>6, <1>7 DEF BytesIn
<1>10. PICK new : new = Append(host.received[d], n + 1)
  BY Zenon
<1>11. /\ DOMAIN host' = PipeFields
       /\ UNCHANGED <<host.data, host.sent, host.cpu, host.failed>>
       /\ host'.received = [host.received EXCEPT ![d] = new]
       /\ host'.status = [host.status EXCEPT ![d].read_bptr = Pipe!Forward(Ptr(n), 1)]
  BY <1>0, <1>5, <1>8, <1>9, <1>10 DEF PipeFields, Pipe!DspReads
<1>12. /\ host'.received[d] = new /\ host'.received["DSPtoCPU"] = host.received["DSPtoCPU"]
       /\ DOMAIN host'.status = Pipe!Directions
       /\ host'.status["DSPtoCPU"] = host.status["DSPtoCPU"]
       /\ DOMAIN host'.status[d] = {"read_bptr", "write_bptr"}
       /\ host'.status[d].write_bptr = Ptr(w)
       /\ host'.status[d].read_bptr = Pipe!Forward(Ptr(n), 1)
  BY <1>0, <1>5, <1>11 DEF Pipe!Directions
<1>13. PipeTyped'
  BY <1>0, <1>11, <1>12 DEF PipeInv, PipeTyped, Pipe!Directions
<1>14. PipeHoldsSent("DSPtoCPU")'
  BY <1>11, <1>12 DEF PipeInv, PipeHoldsSent
<1>15. PipeFromDsp(r)'
  BY <1>3, <1>11, <1>12 DEF PipeFromDsp, Copying
<1>16. /\ new \in Seq(Nat) /\ Len(new) = n + 1
       /\ \A k \in 1 .. Len(new) : new[k] = k
  BY <1>1, <1>4, <1>10 DEF PipeInv, PipeHoldsSent
<1>17. PipeHoldsSent(d)'
  <2>1. BytesIn(host.data[d], n + 1, host.sent[d])
    BY <1>1, <1>4 DEF BytesIn
  <2>. QED
    BY <1>1, <1>5, <1>6, <1>11, <1>12, <1>16, <2>1 DEF PipeHoldsSent
<1>18. PipeToDsp(w)'
  <2>1. Pipe!Forward(Ptr(n), 1) = Ptr(n + 1)
    BY <1>7, PtrForward, PipeConstants
  <2>2. /\ host.cpu.at = "copy" /\ host.cpu.direction = d =>
             /\ host.cpu.write_bptr = Ptr(host.sent[d])
             /\ \E x \in Nat : /\ x <= n + 1 /\ host.cpu.read_bptr = Ptr(x)
                               /\ host.sent[d] + host.cpu.left <= x + bsize
        /\ ~(host.cpu.at = "copy" /\ host.cpu.direction = d) => w = host.sent[d]
    BY <1>2, <1>4 DEF PipeToDsp, Copying
  <2>3. n + 1 <= w /\ host.sent[d] <= n + 1 + bsize
    BY <1>1, <1>5, <1>6, PipeConstants
  <2>. QED
    BY <1>5, <1>11, <1>12, <1>16, <2>1, <2>2, <2>3 DEF PipeToDsp, Copying
<1>. QED
  BY <1>13, <1>14, <1>15, <1>17, <1>18 DEF PipeInv

(* Every step of the CPU and of the firmware keeps the invariant. *)
LEMMA PipeSteps ==
  ASSUME PipeInv, Pipe!Cpu \/ Pipe!DspTakesCommand \/ Pipe!Calls
  PROVE  PipeInv'
BY PipeBegins, PipeWriteChunk, PipeReadChunk, PipeEnds, PipeDspWrites, PipeDspReads
DEF Pipe!Cpu, Pipe!Calls

-----------------------------------------------------------------------------
(* All buffers *)

(***************************************************************************)
(* The inductive invariant: of the buffer that the scenario is about, the  *)
(* types, what its slots hold at every point of the calls in progress, and *)
(* how its indices bound each other.                                       *)
(***************************************************************************)
BuffersInv ==
  /\ scenario = "ring" => RingInv
  /\ scenario = "log" => LogInv
  /\ scenario = "pipe" => PipeInv

(* It holds when the buffers are created ... *)
LEMMA BuffersInitial == BuffersInit => BuffersInv
BY RingInit, LogInit, PipeInit DEF BuffersInit, BuffersInv

(* ... every access of either side keeps it ... *)
LEMMA BuffersInductive == BuffersInv /\ [BuffersNext]_vars => BuffersInv'
<1>. SUFFICES ASSUME BuffersInv, [BuffersNext]_vars PROVE BuffersInv'
  OBVIOUS
<1>1. scenario' = scenario
  BY DEF BuffersNext, vars, In, BufferCalls, Logger, LogBackend, AudioDsp, AudioSink, PipeCpu, PipeDsp
<1>2. CASE UNCHANGED vars
  <2>0. host' = host
    BY <1>2 DEF vars
  <2>1. RingInv => RingInv'
    BY <2>0 DEF RingInv, OutIsPrefix, Copied, RingHoldsPushed, RingTyped, CopyInStep, Ring!FirstCopy
  <2>2. LogInv => LogInv'
    BY <2>0 DEF LogInv, WrittenUpTo, Distinct, Repeated, TakenInOrder, LastEntry, BackendInStep,
                SlotsHoldQueued, LogHolder, OneLogger, LogTyped, LogEntries
  <2>3. PipeInv => PipeInv'
    BY <2>0 DEF PipeInv, PipeFromDsp, PipeToDsp, Copying, PipeHoldsSent, BytesIn, PipeTyped
  <2>. QED
    BY <1>1, <2>1, <2>2, <2>3 DEF BuffersInv
<1>3. CASE BuffersNext /\ scenario = "ring"
  <2>1. Ring!Push \/ Ring!Pop
    BY <1>3 DEF BuffersNext, In, BufferCalls, Logger, LogBackend, AudioDsp, AudioSink, PipeCpu, PipeDsp
  <2>2. RingInv'
    BY <1>3, <2>1, RingPush, RingPop DEF BuffersInv
  <2>. QED
    BY <1>1, <1>3, <2>2 DEF BuffersInv
<1>4. CASE BuffersNext /\ scenario = "log"
  <2>1. (\E l \in Loggers : Log!PushEntry(l)) \/ Log!Backend \/ Log!Calls
    BY <1>4 DEF BuffersNext, In, BufferCalls, Logger, LogBackend, AudioDsp, AudioSink, PipeCpu, PipeDsp
  <2>2. LogInv'
    BY <1>4, <2>1, LogLoggers, LogBackends, LogCalls DEF BuffersInv
  <2>. QED
    BY <1>1, <1>4, <2>2 DEF BuffersInv
<1>5. CASE BuffersNext /\ scenario = "pipe"
  <2>1. Pipe!Cpu \/ Pipe!DspTakesCommand \/ Pipe!Calls
    BY <1>5 DEF BuffersNext, In, BufferCalls, Logger, LogBackend, AudioDsp, AudioSink, PipeCpu, PipeDsp
  <2>2. PipeInv'
    BY <1>5, <2>1, PipeSteps DEF BuffersInv
  <2>. QED
    BY <1>1, <1>5, <2>2 DEF BuffersInv
<1>6. CASE scenario \notin {"ring", "log", "pipe"}
  BY <1>1, <1>6 DEF BuffersInv
<1>. QED
  BY <1>2, <1>3, <1>4, <1>5, <1>6

(* ... and it implies what the buffers promise. *)
LEMMA BuffersSafe == BuffersInv => BuffersKeepOrder
BY RingSafe, LogSafe, PipeSafe DEF BuffersInv, BuffersKeepOrder

(***************************************************************************)
(* For any number of loggers, capacities and buffer sizes, and however the *)
(* accesses of the two sides interleave: RingBuffer gives out what was put *)
(* in once and in order, the log backend writes the entries in order       *)
(* (repeating at most the one that PopWait leaves behind when it is        *)
(* stopped), no slot of them is read while it is written, and the pipes of *)
(* the DSP deliver every byte with the assertions of lle.cpp holding.      *)
(***************************************************************************)
THEOREM BuffersAreInOrder == BuffersSpec => []BuffersKeepOrder
BY BuffersInitial, BuffersInductive, BuffersSafe, PTL DEF BuffersSpec
=============================================================================
