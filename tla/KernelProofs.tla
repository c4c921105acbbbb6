---------------------------- MODULE KernelProofs ----------------------------
(***************************************************************************)
(* What holds of the kernel at work, with its arbiters, for any threads,   *)
(* objects, priorities and programs.                                       *)
(***************************************************************************)
EXTENDS KernelArbiter, KernelObjectsProofs

-----------------------------------------------------------------------------
(***************************************************************************)
(* The invariant, of a kernel j: its parts are sound, the run loop is at   *)
(* one of its cores, and the thread of a core has one of the statuses in S *)
(* unless the core has been halted and a rescheduling is pending.          *)
(***************************************************************************)
FineOn(j, c, S) == j.current_thread[c] # NoThread => j.status[j.current_thread[c]] \in S

(* The kernel's current core is the one that executes. *)
OnCore(j) == j.phase = "run" => j.executing = j.current_cpu

InTurn(j) ==
  /\ j.phase \in {"sync", "advance", "run"}
  /\ j.todo \in SUBSET Cores /\ j.todo # {} /\ j.executing = Min(j.todo)
  /\ j.current_cpu \in Cores /\ j.lagging \in SUBSET Cores
  /\ j.phase # "run" => j.current_cpu = j.executing
  /\ j.phase = "sync" => j.todo \subseteq j.lagging /\ j.lagging # Cores

Fine(j, S) ==
  /\ j.phase # "run" \/ ~ j.reschedule_pending => \A c \in Cores : FineOn(j, c, S)
  /\ \A c \in j.todo : c # j.executing \/ ~ j.halted => FineOn(j, c, S)

Right(j, S) ==
  /\ Sound(j) /\ Created(j) /\ InTurn(j) /\ Fine(j, S)
  /\ NumCores <= 2 => OnCore(j)

(* The statuses of a thread that can be left as that of a core. *)
RunStatuses == {{"Running"}, {"Running", "Dead"}}

-----------------------------------------------------------------------------
(* The threads of the other cores stay as they are, and that of the current one too or it is halted. *)
LEMMA RightOn ==
  ASSUME NEW S, NEW j, Right(j, S), OnCore(j), NEW l,
         Sound(l), Created(l), SamePlace(j, l), StillHalted(j, l),
         \A c \in Cores \ {j.current_cpu} : FineOn(j, c, S) => FineOn(l, c, S),
         (Halts(l) /\ j.phase = "run") \/ (FineOn(j, j.current_cpu, S) => FineOn(l, j.current_cpu, S))
  PROVE  Right(l, S)
<1>1. InTurn(l) /\ (NumCores <= 2 => OnCore(l))
  BY DEF Right, InTurn, SamePlace, OnCore
<1>2. ASSUME l.phase # "run" \/ ~ l.reschedule_pending, NEW c \in Cores
      PROVE  FineOn(l, c, S)
  <2>1. j.phase # "run" \/ ~ j.reschedule_pending
    BY <1>2 DEF SamePlace, StillHalted
  <2>2. FineOn(j, c, S)
    BY <2>1 DEF Right, Fine
  <2>3. ~ (Halts(l) /\ j.phase = "run")
    BY <1>2 DEF Halts, SamePlace
  <2>. QED
    BY <2>2, <2>3
<1>3. ASSUME NEW c \in l.todo, c # l.executing \/ ~ l.halted
      PROVE  FineOn(l, c, S)
  <2>1. c \in Cores
    BY <1>1 DEF InTurn
  <2>2. CASE l.phase # "run"
    BY <1>2, <2>1, <2>2
  <2>3. CASE l.phase = "run"
    <3>1. c \in j.todo /\ (c # j.executing \/ ~ j.halted) /\ l.executing = l.current_cpu
          /\ j.current_cpu = l.current_cpu /\ j.executing = l.executing
      BY <1>3, <2>3 DEF SamePlace, StillHalted, OnCore
    <3>2. FineOn(j, c, S)
      BY <3>1 DEF Right, Fine
    <3>3. c = j.current_cpu => ~ Halts(l)
      BY <1>3, <2>3, <3>1 DEF Halts
    <3>. QED
      BY <2>1, <3>2, <3>3
  <2>. QED
    BY <2>2, <2>3
<1>. QED
  BY <1>1, <1>2, <1>3 DEF Right, Fine

(***************************************************************************)
(* Operations that wake threads, and end some of those in X: not the       *)
(* thread of a core, unless S lets it be dead or the current core is       *)
(* halted.                                                                 *)
(***************************************************************************)
LEMMA RightMoves ==
  ASSUME NEW S \in RunStatuses, NEW j, Right(j, S), OnCore(j), NEW X, NEW l, Moves(j, l, X),
         \A c \in Cores \ {j.current_cpu} : j.current_thread[c] \in X => "Dead" \in S,
         (Halts(l) /\ j.phase = "run") \/ (j.current_thread[j.current_cpu] \in X => "Dead" \in S)
  PROVE  Right(l, S)
<1>1. Created(l)
  BY MovesCreated DEF Right
<1>2. ASSUME NEW c \in Cores, j.current_thread[c] \in X => "Dead" \in S, FineOn(j, c, S)
      PROVE  FineOn(l, c, S)
  <2>1. l.current_thread = j.current_thread
    BY DEF Moves, SamePlace
  <2>2. SUFFICES ASSUME j.current_thread[c] # NoThread
                 PROVE  l.status[j.current_thread[c]] \in S
    BY <2>1 DEF FineOn
  <2>3. j.current_thread[c] \in Threads /\ j.status[j.current_thread[c]] \in S
    BY <1>2, <2>2 DEF Right, Sound, Typed, FineOn
  <2>4. S \cap (WaitingStatus \cup {"Dormant"}) = {}
    BY DEF RunStatuses, WaitingStatus
  <2>. QED
    BY <1>2, <2>3, <2>4 DEF Moves
<1>3. j.current_cpu \in Cores
  BY DEF Right, InTurn
<1>. QED
  BY <1>1, <1>2, <1>3, RightOn DEF Moves

(* Operations that only wake threads. *)
LEMMA RightWaking ==
  ASSUME NEW S \in RunStatuses, NEW j, Right(j, S), OnCore(j), NEW l, Moves(j, l, {})
  PROVE  Right(l, S)
BY RightMoves

(* The thread of the current core starts to wait, and the core is halted. *)
LEMMA RightSuspended ==
  ASSUME NEW S \in RunStatuses, NEW j, Right(j, S), OnCore(j), j.phase = "run",
         NEW t \in Threads, j.current_thread[j.current_cpu] = t, j.status[t] \in S,
         NEW st \in WaitingStatus, NEW l, Moves([j EXCEPT !.status[t] = st], l, {}), Halts(l)
  PROVE  Right(l, S)
<1>. DEFINE a == [j EXCEPT !.status[t] = st]
<1>1. DOMAIN j = Fields /\ j.status \in [Threads -> Statuses] /\ Sound(j)
  BY DEF Right, Sound, Typed
<1>2. Sound(a)
  <2>1. j.status[t] \notin {"Ready", "Unborn"}
    BY DEF RunStatuses
  <2>. QED
    BY <1>1, <2>1, StatusChange
<1>3. /\ DOMAIN a = Fields /\ \A f \in Fields \ {"status"} : a[f] = j[f]
      /\ a.status = [j.status EXCEPT ![t] = st]
  BY <1>1 DEF Fields
<1>. HIDE DEF a
<1>4. SamePlace(j, a) /\ StillHalted(j, a) /\ Listed(a) = Listed(j)
  BY <1>3 DEF SamePlace, StillHalted, Listed, Fields
<1>5. /\ \A u \in Threads \ {t} : a.status[u] = j.status[u]
      /\ a.status[t] = st /\ st # "Unborn"
  BY <1>1, <1>3 DEF WaitingStatus
<1>6. Created(a)
  <2>1. a.current_thread = j.current_thread
    BY <1>4 DEF SamePlace
  <2>2. \A c \in Cores : j.current_thread[c] # NoThread => j.current_thread[c] \in Threads
    BY <1>1 DEF Sound, Typed
  <2>3. Listed(j) \subseteq Threads
    BY DEF Listed
  <2>. QED
    BY <1>4, <1>5, <2>1, <2>2, <2>3 DEF Created, Right
<1>7. Moves(a, l, {})
  BY DEF a
<1>8. Sound(l) /\ Created(l) /\ SamePlace(j, l) /\ StillHalted(j, l)
  BY <1>2, <1>4, <1>6, <1>7, MovesCreated DEF Moves, SamePlace, StillHalted
<1>9. ASSUME NEW c \in Cores \ {j.current_cpu}, FineOn(j, c, S)
      PROVE  FineOn(l, c, S)
  <2>. DEFINE u == j.current_thread[c]
  <2>1. l.current_thread[c] = u
    BY <1>8 DEF SamePlace
  <2>2. SUFFICES ASSUME u # NoThread
                 PROVE  l.status[u] \in S
    BY <2>1 DEF FineOn
  <2>3. u \in Threads /\ core_id[u] = c /\ core_id[t] = j.current_cpu /\ j.status[u] \in S
    <3>1. j.current_cpu \in Cores /\ t # NoThread
      BY NoThreadAssumption DEF Right, InTurn
    <3>. QED
      BY <1>1, <1>9, <2>2, <3>1 DEF Sound, Typed, Placed, FineOn
  <2>4. a.status[u] = j.status[u]
    BY <1>5, <2>3
  <2>5. S \cap (WaitingStatus \cup {"Dormant"}) = {}
    BY DEF RunStatuses, WaitingStatus
  <2>. QED
    BY <1>7, <2>3, <2>4, <2>5 DEF Moves
<1>. QED
  BY <1>8, <1>9, RightOn

-----------------------------------------------------------------------------
(* The steps of the run loop. *)

LEMMA RightCreate ==
  ASSUME NEW S \in RunStatuses, NEW j, Right(j, S), OnCore(j), NEW t \in Threads,
         j.status[t] = "Unborn", NEW p \in Level
  PROVE  Right(CreateThread(j, t, p, TRUE), S)
<1>0. PICK ready \in BOOLEAN : ready = TRUE
  BY Zenon
<1>. DEFINE l == CreateThread(j, t, p, ready)
<1>1. /\ Sound(l) /\ SamePlace(j, l) /\ StillHalted(j, l)
      /\ Listed(l) \subseteq Listed(j) \cup {t} /\ l.status = [j.status EXCEPT ![t] = "Ready"]
  <2>1. l.status = [j.status EXCEPT ![t] = IF ready THEN "Ready" ELSE "Dormant"]
    BY CreateThreadSound DEF Right
  <2>. QED
    BY <1>0, <2>1, CreateThreadSound, Zenon DEF Right
<1>. HIDE DEF l
<1>2. /\ l.status[t] = "Ready" /\ \A u \in Threads \ {t} : l.status[u] = j.status[u]
      /\ l.current_thread = j.current_thread
  BY <1>1 DEF Right, Sound, Typed, SamePlace
<1>3. \A c \in Cores : j.current_thread[c] # NoThread => j.current_thread[c] \in Threads \ {t}
  BY DEF Right, Sound, Typed, Created
<1>4. Listed(l) \subseteq Threads
  BY DEF Listed
<1>5. Created(l)
  BY <1>1, <1>2, <1>3, <1>4 DEF Created, Right
<1>6. \A c \in Cores : FineOn(j, c, S) => FineOn(l, c, S)
  BY <1>2, <1>3 DEF FineOn
<1>7. j.current_cpu \in Cores
  BY DEF Right, InTurn
<1>8. Right(l, S)
  BY <1>1, <1>5, <1>6, <1>7, RightOn
<1>. QED
  BY <1>0, <1>8, Zenon DEF l

-----------------------------------------------------------------------------
(* The run loop. *)

LEMMA CoreZero == 0 \in Cores
BY KernelAssumption DEF Cores

LEMMA FirstCore ==
  ASSUME NEW todo \in SUBSET Cores, todo # {}
  PROVE  Min(todo) \in todo /\ Min(todo) \in Cores
<1>1. todo \in SUBSET Nat
  BY KernelAssumption DEF Cores
<1>. QED
  BY <1>1, MinProperty, ZenonT(30)

(* What entering a core changes. *)
LEMMA EnterFields ==
  ASSUME NEW j, DOMAIN j = Fields, NEW phase, NEW todo
  PROVE  LET l == Enter(j, phase, todo)
         IN  /\ DOMAIN l = Fields
             /\ \A f \in Fields \ {"wakeup_events", "ts_wakeups", "phase", "todo", "current_cpu",
                                   "executing", "halted"} : l[f] = j[f]
             /\ l.phase = phase /\ l.todo = todo /\ l.current_cpu = Min(todo)
             /\ l.executing = Min(todo) /\ ~ l.halted
<1>. DEFINE moved == IF phase = "run" THEN j ELSE MoveEvents(j, Min(todo))
            l == [moved EXCEPT !.phase = phase, !.todo = todo, !.current_cpu = Min(todo),
                               !.executing = Min(todo), !.halted = FALSE]
<1>1. /\ DOMAIN moved = Fields
      /\ \A f \in Fields \ {"wakeup_events", "ts_wakeups"} : moved[f] = j[f]
  <2>1. LET m == MoveEvents(j, Min(todo))
        IN  /\ DOMAIN m = Fields
            /\ \A f \in Fields \ {"wakeup_events", "ts_wakeups"} : m[f] = j[f]
    BY Zenon DEF MoveEvents, Fields
  <2>. QED
    BY <2>1
<1>2. Enter(j, phase, todo) = l
  BY DEF Enter
<1>. HIDE DEF moved
<1>3. /\ DOMAIN l = Fields
      /\ \A f \in Fields \ {"phase", "todo", "current_cpu", "executing", "halted"} : l[f] = moved[f]
      /\ l.phase = phase /\ l.todo = todo /\ l.current_cpu = Min(todo)
      /\ l.executing = Min(todo) /\ l.halted = FALSE
  BY <1>1, Zenon DEF Fields
<1>. HIDE DEF l
<1>4. \A f \in Fields \ {"wakeup_events", "ts_wakeups", "phase", "todo", "current_cpu",
                         "executing", "halted"} : l[f] = j[f]
  BY <1>1, <1>3
<1>. QED
  BY <1>2, <1>3, <1>4

(* A change of fields that say nothing of threads. *)
LEMMA SameSoundCreated ==
  ASSUME NEW j, Sound(j), Created(j), NEW l, DOMAIN l = Fields,
         \A f \in Fields \ {"wakeup_events", "ts_wakeups", "phase", "todo", "current_cpu",
                            "executing", "halted", "lagging", "reschedule_pending"} : l[f] = j[f]
  PROVE  Sound(l) /\ Created(l) /\ \A c \in Cores : \A S : FineOn(j, c, S) <=> FineOn(l, c, S)
<1>1. SameThreads(j, l)
  BY Zenon DEF SameThreads, Sound, Typed, Fields
<1>2. Sound(l)
  BY <1>1, SameSound
<1>3. Listed(l) = Listed(j)
  BY <1>1 DEF SameThreads, Listed
<1>. QED
  BY <1>1, <1>2, <1>3 DEF SameThreads, Created, FineOn

LEMMA EnterRight ==
  ASSUME NEW S, NEW j, Sound(j), Created(j), NEW phase \in {"sync", "advance", "run"},
         NEW todo \in SUBSET Cores, todo # {}, j.lagging \in SUBSET Cores,
         phase = "sync" => todo \subseteq j.lagging /\ j.lagging # Cores,
         phase # "run" \/ ~ j.reschedule_pending => \A c \in Cores : FineOn(j, c, S),
         \A c \in todo : FineOn(j, c, S)
  PROVE  Right(Enter(j, phase, todo), S)
<1>. DEFINE l == Enter(j, phase, todo)
<1>1. /\ DOMAIN l = Fields
      /\ \A f \in Fields \ {"wakeup_events", "ts_wakeups", "phase", "todo", "current_cpu",
                            "executing", "halted"} : l[f] = j[f]
      /\ l.phase = phase /\ l.todo = todo /\ l.current_cpu = Min(todo)
      /\ l.executing = Min(todo) /\ ~ l.halted
  BY EnterFields DEF Sound, Typed
<1>. HIDE DEF l
<1>2. Sound(l) /\ Created(l) /\ \A c \in Cores : FineOn(j, c, S) <=> FineOn(l, c, S)
  BY <1>1, SameSoundCreated
<1>3. l.lagging = j.lagging /\ l.reschedule_pending = j.reschedule_pending
  BY <1>1 DEF Fields
<1>4. InTurn(l)
  BY <1>1, <1>3, FirstCore DEF InTurn
<1>5. Fine(l, S)
  BY <1>1, <1>2, <1>3 DEF Fine
<1>6. Right(l, S)
  BY <1>1, <1>2, <1>4, <1>5 DEF Right, OnCore
<1>. QED
  BY <1>6 DEF l

(* The next iteration is about to start, and the threads of all cores are fine. *)
Settled(j, S) ==
  Sound(j) /\ Created(j) /\ \A c \in Cores : FineOn(j, c, S)

LEMMA RelaggedSettled ==
  ASSUME NEW S, NEW j, Settled(j, S), NEW lag
  PROVE  LET l == [j EXCEPT !.lagging = lag]
         IN  Settled(l, S) /\ l.lagging = lag /\ l.current_cpu = j.current_cpu
<1>. DEFINE l == [j EXCEPT !.lagging = lag]
<1>1. DOMAIN l = Fields /\ l.lagging = lag /\ \A f \in Fields \ {"lagging"} : l[f] = j[f]
  BY DEF Settled, Sound, Typed, Fields
<1>. HIDE DEF l
<1>2. l.current_cpu = j.current_cpu
  BY <1>1 DEF Fields
<1>. QED
  BY <1>1, <1>2, SameSoundCreated DEF Settled, l

LEMMA AdvanceAllRight ==
  ASSUME NEW S, NEW j, Settled(j, S)
  PROVE  Right(AdvanceAll(j), S)
<1>. DEFINE none == {}
            l == [j EXCEPT !.lagging = none]
<1>. HIDE DEF none
<1>1. Settled(l, S) /\ l.lagging = none
  BY RelaggedSettled
<1>2. AdvanceAll(j) = Enter(l, "advance", Cores)
  BY DEF AdvanceAll, none
<1>. HIDE DEF l
<1>3. Cores # {}
  BY CoreZero
<1>. QED
  BY <1>1, <1>2, <1>3, EnterRight DEF Settled, none

LEMMA IterateRight ==
  ASSUME NEW S, NEW j, Settled(j, S), NEW lag \in Lags
  PROVE  Right(Iterate(j, lag), S)
<1>. DEFINE l == [j EXCEPT !.lagging = lag]
<1>1. Settled(l, S) /\ l.lagging = lag
  BY RelaggedSettled
<1>2. CASE lag = {}
  BY <1>2, AdvanceAllRight DEF Iterate
<1>3. CASE lag # {}
  <2>1. Iterate(j, lag) = Enter(l, "sync", lag)
    BY <1>3 DEF Iterate
  <2>. HIDE DEF l
  <2>2. lag \in SUBSET Cores /\ lag # {} /\ lag # Cores
    BY <1>3 DEF Lags
  <2>. QED
    BY <1>1, <2>1, <2>2, EnterRight DEF Settled
<1>. QED
  BY <1>2, <1>3

LEMMA CatchUpRight ==
  ASSUME NEW S, NEW j, Settled(j, S), InTurn(j), j.phase = "sync", NEW c \in j.lagging
  PROVE  Right(CatchUp(j, c), S)
<1>. DEFINE none == {}
            a == [j EXCEPT !.lagging = none]
            b == Enter(a, "run", {c})
            cpu == IF c = 0 THEN j.current_cpu ELSE c
            l == [b EXCEPT !.current_cpu = cpu]
<1>. HIDE DEF none
<1>1. Settled(a, S) /\ a.lagging = none
  BY RelaggedSettled
<1>2. CatchUp(j, c) = l
  BY DEF CatchUp, none
<1>. HIDE DEF a
<1>3. c \in Cores /\ {c} \in SUBSET Cores /\ {c} # {} /\ none \in SUBSET Cores
  BY DEF InTurn, none
<1>4. Right(b, S)
  BY <1>1, <1>3, EnterRight DEF Settled
<1>5. b.executing = c /\ b.phase = "run" /\ b.todo = {c} /\ DOMAIN b = Fields
  <2>1. Min({c}) = c
    BY <1>3, FirstCore
  <2>. QED
    BY <1>1, <2>1, EnterFields DEF Settled, Sound, Typed
<1>. HIDE DEF b
<1>6. DOMAIN l = Fields /\ l.current_cpu = cpu /\ \A f \in Fields \ {"current_cpu"} : l[f] = b[f]
  BY <1>5 DEF Fields
<1>7. cpu \in Cores /\ (NumCores <= 2 => cpu = c)
  <2>1. j.current_cpu \in j.lagging /\ j.current_cpu \in Cores /\ j.lagging # Cores
        /\ j.lagging \subseteq Cores
    BY FirstCore DEF InTurn
  <2>2. CASE c = 0 /\ NumCores <= 2
    <3>1. Cores \subseteq {0, 1} /\ 0 \in j.lagging
      BY <2>2, KernelAssumption DEF Cores
    <3>2. j.current_cpu = 1 => j.lagging = Cores
      BY <2>1, <3>1
    <3>. QED
      BY <2>1, <2>2, <3>1, <3>2
  <2>3. CASE ~ (c = 0 /\ NumCores <= 2)
    BY <1>3, <2>1, <2>3
  <2>. QED
    BY <2>2, <2>3
<1>. HIDE DEF l, cpu
<1>8. Sound(l) /\ Created(l) /\ \A d \in Cores : FineOn(b, d, S) <=> FineOn(l, d, S)
  BY <1>4, <1>6, SameSoundCreated DEF Right
<1>9. /\ l.phase = "run" /\ l.todo = b.todo /\ l.executing = b.executing /\ l.halted = b.halted
      /\ l.lagging = b.lagging /\ l.reschedule_pending = b.reschedule_pending
  BY <1>5, <1>6 DEF Fields
<1>10. InTurn(l)
  BY <1>4, <1>6, <1>7, <1>9 DEF Right, InTurn
<1>11. Fine(l, S)
  BY <1>4, <1>5, <1>8, <1>9, <1>10 DEF Right, Fine, InTurn
<1>12. Right(l, S)
  BY <1>5, <1>6, <1>7, <1>8, <1>9, <1>10, <1>11 DEF Right, OnCore
<1>. QED
  BY <1>2, <1>12

(* Rescheduling a core leaves the threads of all cores fine. *)
LEMMA RescheduleSettled ==
  ASSUME NEW S \in RunStatuses, NEW j, Settled(j, S), NEW c \in Cores
  PROVE  LET l == Reschedule(j, c)
         IN  /\ Settled(l, S) /\ l.lagging = j.lagging /\ l.todo = j.todo /\ l.phase = j.phase
             /\ l.current_cpu = j.current_cpu /\ l.executing = j.executing
<1>. DEFINE l == Reschedule(j, c)
<1>1. Switches(j, l, c)
  BY RescheduleSwitches DEF Settled
<1>. HIDE DEF l
<1>2. ASSUME NEW d \in Cores
      PROVE  /\ FineOn(l, d, S)
             /\ l.current_thread[d] # NoThread => l.status[l.current_thread[d]] # "Unborn"
  <2>1. CASE d = c
    BY <1>1, <2>1 DEF Switches, RunsOn, FineOn, RunStatuses
  <2>2. CASE d # c
    <3>1. l.current_thread[d] = j.current_thread[d]
      BY <1>1, <2>2 DEF Switches
    <3>2. FineOn(j, d, S)
      BY DEF Settled
    <3>3. j.current_thread[d] # NoThread =>
            j.current_thread[d] \in Threads /\ core_id[j.current_thread[d]] = d
      BY DEF Settled, Sound, Typed, Placed
    <3>. QED
      BY <1>1, <2>2, <3>1, <3>2, <3>3 DEF Switches, FineOn, RunStatuses
  <2>. QED
    BY <2>1, <2>2
<1>3. Created(l)
  <2>1. Listed(l) = Listed(j) /\ Listed(j) \subseteq Threads
    BY <1>1 DEF Switches, Listed
  <2>. QED
    BY <1>1, <1>2, <2>1 DEF Switches, Created, Settled
<1>. QED
  BY <1>1, <1>2, <1>3 DEF Settled, Switches, l

LEMMA RescheduleAllSettled ==
  ASSUME NEW S \in RunStatuses, NEW j, Sound(j), Created(j),
         ~ j.reschedule_pending => \A c \in Cores : FineOn(j, c, S)
  PROVE  Settled(RescheduleAll(j), S)
<1>1. CASE j.reschedule_pending
  <2>. DEFINE l == RescheduleAll(j)
  <2>1. PICK a : /\ SwitchesTo(a, l, NumCores)
                 /\ DOMAIN a = Fields /\ \A f \in Fields \ {"reschedule_pending"} : a[f] = j[f]
    BY <1>1, RescheduleAllSwitches
  <2>. HIDE DEF l
  <2>2. a.thread_list = j.thread_list /\ a.status = j.status
    BY <2>1 DEF Fields
  <2>3. \A c \in Cores : RunsOn(l, c)
    <3>1. \A c \in Cores : c < NumCores
      BY KernelAssumption DEF Cores
    <3>. QED
      BY <2>1, <3>1 DEF SwitchesTo
  <2>4. \A c \in Cores : FineOn(l, c, S) /\ (l.current_thread[c] # NoThread =>
                                               l.status[l.current_thread[c]] # "Unborn")
    BY <2>3 DEF RunsOn, FineOn, RunStatuses
  <2>5. Listed(l) = Listed(j) /\ Listed(j) \subseteq Threads
    BY <2>1, <2>2 DEF SwitchesTo, Listed
  <2>6. Created(l)
    BY <2>1, <2>2, <2>4, <2>5 DEF SwitchesTo, Created
  <2>. QED
    BY <2>1, <2>4, <2>6 DEF SwitchesTo, Settled, l
<1>2. CASE ~ j.reschedule_pending
  BY <1>2 DEF RescheduleAll, Settled
<1>. QED
  BY <1>1, <1>2

LEMMA AdvanceDoneRight ==
  ASSUME NEW S \in RunStatuses, Right(k, S), AdvanceDone
  PROVE  Right(k', S)
<1>. DEFINE j == IF is_new_3ds THEN Reschedule(k, k.current_cpu) ELSE k
            rest == k.todo \ {k.current_cpu}
<1>1. /\ k.phase \in {"sync", "advance"} /\ Settled(k, S) /\ k.current_cpu \in Cores /\ InTurn(k)
  BY DEF AdvanceDone, Advancing, Right, Fine, InTurn, Settled
<1>2. /\ Settled(j, S) /\ j.lagging = k.lagging /\ j.todo = k.todo /\ j.phase = k.phase
      /\ j.current_cpu = k.current_cpu /\ j.executing = k.executing
  BY <1>1, RescheduleSettled
<1>3. \/ rest # {} /\ k' = Enter(j, k.phase, rest)
      \/ rest = {} /\ k.phase = "advance" /\ k' = Enter(j, "run", Cores)
      \/ rest = {} /\ k.phase = "sync" /\ k' = AdvanceAll(j)
      \/ rest = {} /\ k.phase = "sync" /\ \E c \in k.lagging : k' = CatchUp(j, c)
  BY DEF AdvanceDone
<1>. HIDE DEF j
<1>4. InTurn(j)
  BY <1>1, <1>2 DEF InTurn
<1>5. CASE rest # {} /\ k' = Enter(j, k.phase, rest)
  <2>1. rest \in SUBSET Cores /\ (k.phase = "sync" => rest \subseteq j.lagging /\ j.lagging # Cores)
        /\ j.lagging \in SUBSET Cores /\ k.phase \in {"sync", "advance", "run"}
    BY <1>1, <1>2 DEF InTurn
  <2>2. \A c \in rest : FineOn(j, c, S)
    BY <1>2, <2>1 DEF Settled
  <2>. HIDE DEF rest
  <2>. QED
    BY <1>2, <1>5, <2>1, <2>2, EnterRight DEF Settled
<1>6. CASE k' = Enter(j, "run", Cores)
  <2>1. Cores # {} /\ j.lagging \in SUBSET Cores
    BY <1>4, CoreZero DEF InTurn
  <2>. QED
    BY <1>2, <1>6, <2>1, EnterRight DEF Settled
<1>7. CASE k' = AdvanceAll(j)
  BY <1>2, <1>7, AdvanceAllRight
<1>8. CASE k.phase = "sync" /\ \E c \in k.lagging : k' = CatchUp(j, c)
  BY <1>2, <1>4, <1>8, CatchUpRight
<1>. QED
  BY <1>3, <1>5, <1>6, <1>7, <1>8

LEMMA SliceEndsRight ==
  ASSUME NEW S \in RunStatuses, Right(k, S), OnCore(k), SliceEnds
  PROVE  Right(k', S)
<1>. DEFINE idle == k.current_thread[k.current_cpu] = NoThread
            j == IF idle THEN PrepareReschedule(k) ELSE k
            rest == k.todo \ {k.executing}
<1>1. Moves(k, j, {})
  BY PrepareRescheduleHalts, MovesItself DEF Right
<1>2. /\ k.phase = "run"
      /\ \/ rest # {} /\ k' = Enter(j, "run", rest)
         \/ rest = {} /\ \E lag \in Lags : k' = Iterate(RescheduleAll(j), lag)
  BY DEF SliceEnds
<1>. HIDE DEF j
<1>3. Right(j, S) /\ j.phase = "run" /\ j.todo = k.todo /\ j.executing = k.executing
  BY <1>1, <1>2, RightWaking DEF Moves, SamePlace
<1>4. CASE rest # {} /\ k' = Enter(j, "run", rest)
  <2>1. /\ rest \in SUBSET Cores /\ j.lagging \in SUBSET Cores
        /\ \A c \in rest : FineOn(j, c, S)
        /\ ~ j.reschedule_pending => \A c \in Cores : FineOn(j, c, S)
    BY <1>3 DEF Right, InTurn, Fine
  <2>. HIDE DEF rest
  <2>. QED
    BY <1>3, <1>4, <2>1, EnterRight DEF Right
<1>5. CASE \E lag \in Lags : k' = Iterate(RescheduleAll(j), lag)
  <2>1. Settled(RescheduleAll(j), S)
    BY <1>3, RescheduleAllSettled DEF Right, Fine
  <2>. QED
    BY <1>5, <2>1, IterateRight
<1>. QED
  BY <1>2, <1>4, <1>5

LEMMA FireWakeupRight ==
  ASSUME NEW S \in RunStatuses, Right(k, S), OnCore(k), NEW t \in Threads, FireWakeup(t)
  PROVE  Right(k', S)
<1>. DEFINE j == [k EXCEPT !.wakeup_events[t][k.current_cpu] = @ - 1]
            l == ThreadWakeupCallback(j, t)
<1>1. DOMAIN j = Fields /\ \A f \in Fields \ Books : j[f] = k[f]
  BY DEF Right, Sound, Typed, Fields, Books
<1>2. k' = l
  BY DEF FireWakeup
<1>. HIDE DEF j
<1>3. Moves(k, j, {}) /\ Sound(j)
  <2>1. Sound(k)
    BY DEF Right
  <2>2. Moves(k, j, {})
    BY <1>1, <2>1, BooksMove
  <2>. QED
    BY <2>2 DEF Moves
<1>4. Moves(j, l, {})
  BY <1>3, ThreadWakeupCallbackWakes, WakesMoves
<1>. HIDE DEF l
<1>. QED
  BY <1>2, <1>3, <1>4, MovesOn, RightWaking

LEMMA FireTimerRight ==
  ASSUME NEW S \in RunStatuses, Right(k, S), OnCore(k), NEW tm \in Timers, FireTimer(tm)
  PROVE  Right(k', S)
<1>. DEFINE j == [k EXCEPT !.timer_events[tm][k.current_cpu] = @ - 1]
            l == SignalTimer(j, tm)
<1>1. DOMAIN j = Fields /\ \A f \in Fields \ Books : j[f] = k[f]
  BY DEF Right, Sound, Typed, Fields, Books
<1>2. k' = l
  BY DEF FireTimer
<1>. HIDE DEF j
<1>3. Moves(k, j, {}) /\ Sound(j)
  <2>1. Sound(k)
    BY DEF Right
  <2>2. Moves(k, j, {})
    BY <1>1, <2>1, BooksMove
  <2>. QED
    BY <2>2 DEF Moves
<1>4. Moves(j, l, {})
  BY <1>3, SignalTimerMoves
<1>. HIDE DEF l
<1>. QED
  BY <1>2, <1>3, <1>4, MovesOn, RightWaking

LEMMA RunLoopRight ==
  ASSUME NEW S \in RunStatuses, Right(k, S), OnCore(k), RunLoop
  PROVE  Right(k', S)
BY AdvanceDoneRight, SliceEndsRight, FireWakeupRight, FireTimerRight DEF RunLoop

-----------------------------------------------------------------------------
(* System calls. *)

(* The caller is the thread of the executing core. *)
LEMMA GuestFacts ==
  ASSUME NEW S \in RunStatuses, Right(k, S), OnCore(k), Guest
  PROVE  /\ Cur \in Threads /\ k.current_thread[k.current_cpu] = Cur /\ k.status[Cur] \in S
         /\ core_id[Cur] = k.current_cpu /\ k.current_cpu \in Cores /\ k.phase = "run"
         /\ Sound(k) /\ DOMAIN k = Fields
<1>1. k.phase = "run" /\ ~ k.halted /\ Cur # NoThread
  BY DEF Guest
<1>2. k.current_cpu \in Cores /\ k.executing = k.current_cpu /\ k.current_cpu \in k.todo
  BY <1>1, FirstCore DEF OnCore, Right, InTurn
<1>3. Sound(k) /\ DOMAIN k = Fields
  BY DEF Right, Sound, Typed
<1>4. k.current_thread[k.current_cpu] = Cur
  BY DEF Cur
<1>5. Cur \in Threads /\ core_id[Cur] = k.current_cpu
  BY <1>1, <1>2, <1>3, <1>4 DEF Sound, Typed, Placed
<1>6. k.status[Cur] \in S
  BY <1>1, <1>2, <1>4 DEF Right, Fine, FineOn
<1>. QED
  BY <1>1, <1>2, <1>3, <1>4, <1>5, <1>6

(* The result is left in r0. *)
LEMMA ReturnRight ==
  ASSUME NEW S \in RunStatuses, OnCore(k), NEW j, Right(j, S), SamePlace(k, j), NEW result,
         Return(j, result)
  PROVE  Right(k', S)
<1>0. PICK cpu, cur, none : cpu = k.current_cpu /\ cur = Cur /\ none = "none"
  OBVIOUS
<1>. DEFINE l == [j EXCEPT !.r0[cpu] = result, !.woken_by[cur] = none]
<1>1. k' = l
  BY <1>0 DEF Return
<1>2. DOMAIN l = Fields /\ \A f \in Fields \ Books : l[f] = j[f]
  BY Zenon DEF Right, Sound, Typed, Fields, Books
<1>. HIDE DEF l
<1>3. Sound(j) /\ OnCore(j)
  BY DEF Right, OnCore, SamePlace
<1>4. Moves(j, l, {})
  BY <1>2, <1>3, BooksMove
<1>. QED
  BY <1>1, <1>3, <1>4, RightWaking

(* A call that wakes threads. *)
LEMMA WakingCall ==
  ASSUME NEW S \in RunStatuses, Right(k, S), OnCore(k), NEW j, Moves(k, j, {}), NEW result,
         Return(j, result)
  PROVE  Right(k', S)
<1>1. Right(j, S) /\ SamePlace(k, j)
  BY RightWaking DEF Moves
<1>. QED
  BY <1>1, ReturnRight

(* The kernel with another status of one thread. *)
WithStatus(j, t, st) == [j EXCEPT !.status[t] = st]

(* A call in which the calling thread starts to wait. *)
LEMMA SuspendingCall ==
  ASSUME NEW S \in RunStatuses, Right(k, S), OnCore(k), Guest, NEW st \in WaitingStatus, NEW j,
         Moves(WithStatus(k, Cur, st), j, {}), Halts(j), NEW result, Return(j, result)
  PROVE  Right(k', S)
<1>1. /\ Cur \in Threads /\ k.current_thread[k.current_cpu] = Cur /\ k.status[Cur] \in S
      /\ k.phase = "run" /\ Sound(k)
  BY GuestFacts
<1>2. Right(j, S)
  BY <1>1, RightSuspended DEF WithStatus
<1>3. SamePlace(k, j)
  <2>1. PICK l, cur : l = WithStatus(k, cur, st) /\ cur = Cur
    OBVIOUS
  <2>2. DOMAIN l = Fields /\ \A f \in Fields \ {"status"} : l[f] = k[f]
    BY <1>1, <2>1 DEF WithStatus, Sound, Typed, Fields
  <2>3. SamePlace(l, j)
    BY <2>1 DEF Moves
  <2>. QED
    BY <2>2, <2>3 DEF SamePlace, Fields
<1>. QED
  BY <1>2, <1>3, ReturnRight

(* The thread is of a waiting status, and the other fields are sound. *)
LEMMA SuspendedSound ==
  ASSUME NEW S \in RunStatuses, Right(k, S), OnCore(k), Guest, NEW st \in WaitingStatus
  PROVE  Sound(WithStatus(k, Cur, st))
<1>1. Cur \in Threads /\ k.status[Cur] \in S /\ Sound(k)
  BY GuestFacts
<1>2. k.status[Cur] \notin {"Ready", "Unborn"}
  BY <1>1 DEF RunStatuses
<1>. QED
  BY <1>1, <1>2, StatusChange DEF WithStatus

(* The thread joins the lists of the objects. *)
Joins(j, t, objects) == ForEach(objects, j, LAMBDA x, o : AddWaitingThread(x, t, o))

LEMMA JoinsWake ==
  ASSUME NEW j, Sound(j), NEW t \in Threads, NEW objects \in Seq(WaitObjects)
  PROVE  Wakes(j, Joins(j, t, objects))
<1>. DEFINE loop == [does |-> "join", of |-> t]
            F(f) == [n \in 0 .. Len(objects) |->
                       IF n = 0 THEN j ELSE AddWaitingThread(f[n - 1], t, objects[n])]
            g == CHOOSE f : f = F(f)
<1>1. Len(objects) \in Nat /\ \A i \in 1 .. Len(objects) : objects[i] \in WaitObjects
  OBVIOUS
<1>2. \A l, x : Body(loop, l, x) = AddWaitingThread(l, t, x)
  BY DEF Body
<1>3. Joins(j, t, objects) = g[Len(objects)]
  BY DEF Joins, ForEach
<1>. HIDE DEF loop
<1>4. \A f : F(f) = States(loop, objects, j, f)
  BY <1>2 DEF States
<1>5. g = States(loop, objects, j, g)
  <2>. HIDE DEF F
  <2>1. PICK f : f = States(loop, objects, j, f)
    BY <1>1, StatesExist, Zenon
  <2>2. f = F(f)
    BY <1>4, <2>1
  <2>3. g = F(g)
    BY <2>2
  <2>. QED
    BY <1>4, <2>3
<1>. HIDE DEF g
<1>6. \A l : \A i \in 1 .. Len(objects) :
        Wakes(j, l) => Wakes(l, Body(loop, l, objects[i]))
  BY <1>1, <1>2, AddWaitingThreadWakes DEF Wakes
<1>. QED
  BY <1>1, <1>3, <1>5, <1>6, LoopWakes

(* wait_objects and the other fields of a thread that starts to wait. *)
LEMMA WaitObjectsWakes ==
  ASSUME NEW j, Sound(j), NEW t \in Threads, NEW objects \in Seq(WaitObjects)
  PROVE  Wakes(j, [j EXCEPT !.wait_objects[t] = objects])
<1>. DEFINE l == [j EXCEPT !.wait_objects[t] = objects]
<1>1. /\ DOMAIN l = Fields /\ \A f \in Fields \ {"wait_objects"} : l[f] = j[f]
      /\ l.wait_objects = [j.wait_objects EXCEPT ![t] = objects]
  BY DEF Sound, Typed, Fields
<1>2. l.wait_objects \in [Threads -> Seq(WaitObjects)]
  BY <1>1 DEF Sound, Typed
<1>. HIDE DEF l
<1>3. \A f \in Kept : l[f] = j[f]
  BY <1>1 DEF Fields, Kept
<1>4. /\ l.priority = j.priority /\ l.held_mutexes = j.held_mutexes
      /\ l.waiting_threads = j.waiting_threads /\ l.holding_thread = j.holding_thread
      /\ l.arb_waiting = j.arb_waiting
  BY <1>1 DEF Fields
<1>5. /\ l.priority \in [Mutexes -> Level] /\ l.held_mutexes \in [Threads -> SUBSET Mutexes]
      /\ l.holding_thread \in [Mutexes -> Threads \cup {NoThread}]
      /\ l.waiting_threads \in [WaitObjects -> Seq(Threads)]
      /\ l.arb_waiting \in [Arbiters -> Seq(Threads)]
  BY <1>4 DEF Sound, Typed
<1>6. Wakes(j, l)
  BY <1>1, <1>2, <1>3, <1>5, DataWakes, ZenonT(30)
<1>. QED
  BY <1>6 DEF l

LEMMA CallbackWakes ==
  ASSUME NEW j, Sound(j), NEW t, NEW callback
  PROVE  Wakes(j, [j EXCEPT !.wakeup_callback[t] = callback])
<1>. DEFINE l == [j EXCEPT !.wakeup_callback[t] = callback]
<1>1. Aside(j, l)
  BY DEF Sound, Typed, Aside, SameThreads, SameLoop, StillHalted, Fields
<1>. QED
  BY <1>1, AsideWakes

LEMMA SuspendMoves ==
  ASSUME NEW S \in RunStatuses, Right(k, S), OnCore(k), Guest, NEW st \in WaitingStatus,
         NEW objects \in Seq(WaitObjects), NEW timeout
  PROVE  /\ Moves(WithStatus(k, Cur, st), Suspend(objects, st, timeout), {})
         /\ Halts(Suspend(objects, st, timeout))
<1>0. PICK sync : sync = "sync"
  OBVIOUS
<1>. DEFINE a == WithStatus(k, Cur, st)
            b == Joins(a, Cur, objects)
            c == [b EXCEPT !.wait_objects[Cur] = objects]
            d == WakeAfterDelay(c, Cur, timeout)
            e == [d EXCEPT !.wakeup_callback[Cur] = sync]
            f == PrepareReschedule(e)
<1>1. Cur \in Threads
  BY <1>0, GuestFacts
<1>2. Suspend(objects, st, timeout) = f
  BY <1>0 DEF Suspend, WithStatus, Joins
<1>3. Sound(a)
  BY <1>0, SuspendedSound
<1>. HIDE DEF a
<1>4. Wakes(a, b) /\ Sound(b)
  <2>1. Wakes(a, b)
    BY <1>1, <1>3, JoinsWake
  <2>. QED
    BY <2>1 DEF Wakes
<1>. HIDE DEF b
<1>5. Wakes(b, c) /\ Sound(c)
  BY <1>1, <1>4, WaitObjectsWakes DEF Wakes
<1>. HIDE DEF c
<1>6. Moves(a, b, {}) /\ Moves(b, c, {})
  BY <1>4, <1>5, WakesMoves
<1>7. Moves(c, d, {}) /\ Sound(d)
  <2>1. Moves(c, d, {})
    BY <1>5, WakeAfterDelayMoves
  <2>. QED
    BY <2>1 DEF Moves
<1>. HIDE DEF d
<1>8. Wakes(d, e) /\ Sound(e)
  BY <1>7, CallbackWakes, Zenon DEF Wakes
<1>. HIDE DEF e
<1>9. Moves(d, e, {})
  BY <1>8, WakesMoves
<1>10. Moves(e, f, {}) /\ Halts(f)
  BY <1>8, PrepareRescheduleHalts
<1>. HIDE DEF f
<1>11. Moves(a, c, {})
  BY <1>6, MovesOn
<1>12. Moves(a, e, {})
  BY <1>7, <1>9, <1>11, MovesOn
<1>13. Moves(a, f, {})
  BY <1>10, <1>12, MovesOn
<1>. QED
  BY <1>0, <1>2, <1>10, <1>13 DEF a

(* A wait for the objects. *)
LEMMA SuspendRight ==
  ASSUME NEW S \in RunStatuses, Right(k, S), OnCore(k), Guest, NEW st \in WaitingStatus,
         NEW objects \in Seq(WaitObjects), NEW timeout, NEW result,
         Return(Suspend(objects, st, timeout), result)
  PROVE  Right(k', S)
BY SuspendMoves, SuspendingCall

(* The objects are acquired one after the other. *)
Acquires(j, t, objects) == ForEach(objects, j, LAMBDA x, o : Acquire(x, t, o))

LEMMA AcquiresWake ==
  ASSUME NEW j, Sound(j), NEW t \in Threads, NEW objects \in Seq(WaitObjects)
  PROVE  Wakes(j, Acquires(j, t, objects))
<1>. DEFINE loop == [does |-> "acquire", of |-> t]
            F(f) == [n \in 0 .. Len(objects) |->
                       IF n = 0 THEN j ELSE Acquire(f[n - 1], t, objects[n])]
            g == CHOOSE f : f = F(f)
<1>1. Len(objects) \in Nat /\ \A i \in 1 .. Len(objects) : objects[i] \in WaitObjects
  OBVIOUS
<1>2. \A l, x : Body(loop, l, x) = Acquire(l, t, x)
  BY DEF Body
<1>3. Acquires(j, t, objects) = g[Len(objects)]
  BY DEF Acquires, ForEach
<1>. HIDE DEF loop
<1>4. \A f : F(f) = States(loop, objects, j, f)
  BY <1>2 DEF States
<1>5. g = States(loop, objects, j, g)
  <2>. HIDE DEF F
  <2>1. PICK f : f = States(loop, objects, j, f)
    BY <1>1, StatesExist, Zenon
  <2>2. f = F(f)
    BY <1>4, <2>1
  <2>3. g = F(g)
    BY <2>2
  <2>. QED
    BY <1>4, <2>3
<1>. HIDE DEF g
<1>6. \A l : \A i \in 1 .. Len(objects) :
        Wakes(j, l) => Wakes(l, Body(loop, l, objects[i]))
  BY <1>1, <1>2, AcquireWakes DEF Wakes
<1>. QED
  BY <1>1, <1>3, <1>5, <1>6, LoopWakes

(* What a program may name. *)
LEMMA ProgramFacts ==
  ASSUME program \in DOMAIN Programs
  PROVE  /\ WaitOne \subseteq WaitObjects /\ WaitLists \subseteq Seq(WaitObjects)
         /\ Priorities \in [Threads -> SUBSET Level]
         /\ MainThreads \in Seq(Threads) /\ Len(MainThreads) > 0 /\ DelayedStart \subseteq BOOLEAN
         /\ \A i, n \in DOMAIN MainThreads : MainThreads[i] = MainThreads[n] => i = n
BY ProgramAssumption DEF WaitOne, WaitLists, Priorities, MainThreads, DelayedStart, Of

LEMMA WaitSynchronization1Right ==
  ASSUME NEW S \in RunStatuses, Right(k, S), OnCore(k), NEW o \in WaitObjects, NEW timeout,
         SVC_WaitSynchronization1(o, timeout)
  PROVE  Right(k', S)
<1>1. Guest
  BY DEF SVC_WaitSynchronization1
<1>2. Sound(k) /\ Cur \in Threads
  BY <1>1, GuestFacts
<1>3. Moves(k, Acquire(k, Cur, o), {}) /\ Moves(k, k, {})
  BY <1>2, AcquireWakes, WakesMoves, MovesItself
<1>4. \/ Return(Acquire(k, Cur, o), "Success") \/ Return(k, "Timeout")
      \/ Return(Suspend(<<o>>, "WaitSynchAny", timeout), "Timeout")
  BY DEF SVC_WaitSynchronization1
<1>5. <<o>> \in Seq(WaitObjects) /\ "WaitSynchAny" \in WaitingStatus
  BY DEF WaitingStatus
<1>6. CASE Return(Suspend(<<o>>, "WaitSynchAny", timeout), "Timeout")
  BY <1>1, <1>5, <1>6, SuspendRight, Zenon
<1>. QED
  BY <1>3, <1>4, <1>6, WakingCall

LEMMA WaitSynchronizationAllRight ==
  ASSUME NEW S \in RunStatuses, Right(k, S), OnCore(k), NEW objects \in Seq(WaitObjects),
         NEW timeout, SVC_WaitSynchronizationAll(objects, timeout)
  PROVE  Right(k', S)
<1>1. Guest
  BY DEF SVC_WaitSynchronizationAll
<1>2. Sound(k) /\ Cur \in Threads
  BY <1>1, GuestFacts
<1>3. Moves(k, Acquires(k, Cur, objects), {}) /\ Moves(k, k, {})
  BY <1>2, AcquiresWake, WakesMoves, MovesItself
<1>4. \/ Return(Acquires(k, Cur, objects), "Success") \/ Return(k, "Timeout")
      \/ Return(Suspend(objects, "WaitSynchAll", timeout), "Timeout")
  BY DEF SVC_WaitSynchronizationAll, Acquires
<1>5. "WaitSynchAll" \in WaitingStatus
  BY DEF WaitingStatus
<1>6. CASE Return(Suspend(objects, "WaitSynchAll", timeout), "Timeout")
  BY <1>1, <1>5, <1>6, SuspendRight
<1>. QED
  BY <1>3, <1>4, <1>6, WakingCall

LEMMA WaitSynchronizationAnyRight ==
  ASSUME NEW S \in RunStatuses, Right(k, S), OnCore(k), NEW objects \in Seq(WaitObjects),
         NEW timeout, SVC_WaitSynchronizationAny(objects, timeout)
  PROVE  Right(k', S)
<1>. DEFINE available == {i \in DOMAIN objects : ~ ShouldWait(k, Cur, objects[i])}
            o == objects[Min(available)]
<1>1. Guest
  BY DEF SVC_WaitSynchronizationAny
<1>2. Sound(k) /\ Cur \in Threads
  BY <1>1, GuestFacts
<1>3. \/ available # {} /\ Return(Acquire(k, Cur, o), "Success")
      \/ Return(k, "Timeout")
      \/ Return(Suspend(objects, "WaitSynchAny", timeout), "Timeout")
  BY DEF SVC_WaitSynchronizationAny
<1>4. "WaitSynchAny" \in WaitingStatus
  BY DEF WaitingStatus
<1>5. CASE available # {} /\ Return(Acquire(k, Cur, o), "Success")
  <2>1. available \in SUBSET Nat /\ available \subseteq DOMAIN objects
    OBVIOUS
  <2>. HIDE DEF available
  <2>2. Min(available) \in DOMAIN objects
    BY <1>5, <2>1, MinProperty, Zenon
  <2>3. o \in WaitObjects
    BY <2>2
  <2>. HIDE DEF o
  <2>4. Moves(k, Acquire(k, Cur, o), {})
    BY <1>2, <2>3, AcquireWakes, WakesMoves
  <2>. QED
    BY <1>5, <2>4, WakingCall
<1>6. CASE Return(k, "Timeout")
  BY <1>2, <1>6, MovesItself, WakingCall
<1>7. CASE Return(Suspend(objects, "WaitSynchAny", timeout), "Timeout")
  BY <1>1, <1>4, <1>7, SuspendRight
<1>. QED
  BY <1>3, <1>5, <1>6, <1>7

(* The calls on mutexes, events, semaphores and timers. *)
LEMMA ObjectCallsRight ==
  ASSUME NEW S \in RunStatuses, Right(k, S), OnCore(k),
         \/ \E m \in Mutexes : SVC_ReleaseMutex(m)
         \/ \E e \in Events : SVC_SignalEvent(e)
         \/ \E e \in Events : SVC_ClearEvent(e)
         \/ \E tm \in Timers : SVC_ClearTimer(tm)
         \/ \E s \in Semaphores, n \in Int : SVC_ReleaseSemaphore(s, n)
         \/ \E tm \in Timers, initial, interval \in BOOLEAN : SVC_SetTimer(tm, initial, interval)
         \/ \E tm \in Timers : SVC_CancelTimer(tm)
  PROVE  Right(k', S)
<1>1. SUFFICES ASSUME NEW j, NEW result, Guest, Return(j, result), Guest => Moves(k, j, {})
               PROVE  Right(k', S)
  <2>1. Guest => Sound(k) /\ Cur \in Threads
    BY GuestFacts
  <2>2. ASSUME NEW m \in Mutexes, SVC_ReleaseMutex(m)
        PROVE  Right(k', S)
    <3>1. Guest /\ Return(Release(k, Cur, m), ReleaseResult(k, Cur, m))
      BY <2>2 DEF SVC_ReleaseMutex
    <3>2. Moves(k, Release(k, Cur, m), {})
      BY <2>1, <3>1, ReleaseWakes, WakesMoves
    <3>. QED
      BY <1>1, <3>1, <3>2
  <2>3. ASSUME NEW e \in Events, SVC_SignalEvent(e)
        PROVE  Right(k', S)
    <3>1. Guest /\ Return(Signal(k, e), "Success")
      BY <2>3 DEF SVC_SignalEvent
    <3>2. Moves(k, Signal(k, e), {})
      BY <2>1, <3>1, SignalWakes, WakesMoves
    <3>. QED
      BY <1>1, <3>1, <3>2
  <2>4. ASSUME NEW o \in Events \cup Timers, Guest, Return([k EXCEPT !.signaled[o] = FALSE], "Success")
        PROVE  Right(k', S)
    <3>1. PICK no : no = FALSE
      BY Zenon
    <3>. DEFINE l == [k EXCEPT !.signaled[o] = no]
    <3>2. Wakes(k, l)
      BY <2>1, <2>4, CountWakes, Zenon
    <3>3. Return(l, "Success")
      BY <2>4, <3>1, Zenon
    <3>. HIDE DEF l
    <3>4. Moves(k, l, {})
      BY <3>2, WakesMoves
    <3>. QED
      BY <1>1, <2>4, <3>3, <3>4
  <2>5. ASSUME NEW s \in Semaphores, NEW n \in Int, SVC_ReleaseSemaphore(s, n)
        PROVE  Right(k', S)
    <3>1. Guest /\ (Return(ReleaseSemaphoreCount(k, s, n), "Success") \/ Return(k, "Error"))
      BY <2>5 DEF SVC_ReleaseSemaphore
    <3>2. Moves(k, ReleaseSemaphoreCount(k, s, n), {}) /\ Moves(k, k, {})
      BY <2>1, <3>1, ReleaseSemaphoreCountWakes, WakesMoves, MovesItself
    <3>. QED
      BY <1>1, <3>1, <3>2
  <2>6. ASSUME NEW tm \in Timers, NEW initial, NEW interval,
               SVC_SetTimer(tm, initial, interval) \/ SVC_CancelTimer(tm)
        PROVE  Right(k', S)
    <3>1. Guest /\ \/ Return(SetTimer(k, tm, initial, interval), "Success")
                   \/ Return(Cancel(k, tm), "Success")
      BY <2>6 DEF SVC_SetTimer, SVC_CancelTimer
    <3>2. Moves(k, SetTimer(k, tm, initial, interval), {}) /\ Moves(k, Cancel(k, tm), {})
      BY <2>1, <3>1, SetTimerMoves
    <3>. QED
      BY <1>1, <3>1, <3>2
  <2>. QED
    BY <2>2, <2>3, <2>4, <2>5, <2>6, Zenon DEF SVC_ClearEvent, SVC_ClearTimer, Clear
<1>. QED
  BY <1>1, WakingCall

LEMMA CreateThreadCallRight ==
  ASSUME NEW S \in RunStatuses, Right(k, S), OnCore(k), NEW t \in Threads, NEW p \in Level,
         SVC_CreateThread(t, p)
  PROVE  Right(k', S)
<1>. DEFINE j == CreateThread(k, t, p, TRUE)
<1>1. Guest /\ k.status[t] = "Unborn" /\ Return(PrepareReschedule(j), "Success")
  BY Zenon DEF SVC_CreateThread
<1>2. SamePlace(k, j) /\ Right(j, S)
  <2>1. PICK ready \in BOOLEAN : ready = TRUE
    BY ZenonT(30)
  <2>2. SamePlace(k, CreateThread(k, t, p, ready))
    BY <1>1, CreateThreadSound, Zenon DEF Right
  <2>. QED
    BY <1>1, <2>1, <2>2, RightCreate, Zenon
<1>. HIDE DEF j
<1>3. Sound(j) /\ OnCore(j)
  BY <1>2 DEF Right, OnCore, SamePlace
<1>4. Moves(j, PrepareReschedule(j), {})
  BY <1>3, PrepareRescheduleHalts
<1>5. Right(PrepareReschedule(j), S) /\ SamePlace(j, PrepareReschedule(j))
  BY <1>2, <1>3, <1>4, RightWaking DEF Moves
<1>6. SamePlace(k, PrepareReschedule(j))
  BY <1>2, <1>5 DEF SamePlace
<1>. QED
  BY <1>1, <1>5, <1>6, ReturnRight

(* Thread::SetPriority *)
LEMMA SetPriorityMoves ==
  ASSUME NEW j, Sound(j), NEW t \in Threads, NEW p \in Level, NEW X
  PROVE  Moves(j, SetPriority(j, t, p), X)
<1>. DEFINE b == BoostPriority(j, t, p)
            l == [b EXCEPT !.nominal_priority[t] = p]
<1>1. Wakes(j, b)
  BY BoostWakes
<1>2. Moves(j, b, X) /\ Sound(b)
  BY <1>1, WakesMoves DEF Wakes
<1>3. SetPriority(j, t, p) = l
  BY DEF SetPriority
<1>. HIDE DEF b
<1>4. /\ DOMAIN l = Fields /\ \A f \in Fields \ {"nominal_priority"} : l[f] = b[f]
      /\ l.nominal_priority \in [Threads -> Level]
  BY <1>2 DEF Sound, Typed, Fields
<1>. HIDE DEF l
<1>5. Typed(l)
  BY <1>2, <1>4, ZenonT(30) DEF Sound, Typed, Fields
<1>6. /\ l.status = b.status /\ l.current_priority = b.current_priority
      /\ l.ready_queue = b.ready_queue /\ l.current_thread = b.current_thread
      /\ l.thread_list = b.thread_list /\ SamePlace(b, l) /\ StillHalted(b, l)
  BY <1>4 DEF Fields, SamePlace, StillHalted
<1>7. Queued(l) /\ Placed(l)
  BY <1>2, <1>6, SameQueues
<1>8. Moves(b, l, X)
  BY <1>5, <1>6, <1>7 DEF Moves, Sound, Listed
<1>. QED
  BY <1>2, <1>3, <1>8, MovesOn

(* The mutexes in S pass the priority of their waiters on. *)
Passes(j, S) ==
  ForEach(MutexOrder, j, LAMBDA x, m : IF m \in S THEN UpdateMutexPriority(x, m) ELSE x)

LEMMA PassesWake ==
  ASSUME NEW j, Sound(j), NEW S
  PROVE  Wakes(j, Passes(j, S))
<1>. DEFINE loop == [does |-> "pass", of |-> S]
            F(f) == [n \in 0 .. Len(MutexOrder) |->
                       IF n = 0 THEN j
                       ELSE IF MutexOrder[n] \in S THEN UpdateMutexPriority(f[n - 1], MutexOrder[n])
                       ELSE f[n - 1]]
            g == CHOOSE f : f = F(f)
<1>1. Len(MutexOrder) \in Nat /\ \A i \in 1 .. Len(MutexOrder) : MutexOrder[i] \in Mutexes
  BY KernelAssumption
<1>2. \A l, x : Body(loop, l, x) = IF x \in S THEN UpdateMutexPriority(l, x) ELSE l
  BY DEF Body
<1>3. Passes(j, S) = g[Len(MutexOrder)]
  BY DEF Passes, ForEach
<1>. HIDE DEF loop
<1>4. \A f : F(f) = States(loop, MutexOrder, j, f)
  BY <1>2 DEF States
<1>5. g = States(loop, MutexOrder, j, g)
  <2>. HIDE DEF F
  <2>1. PICK f : f = States(loop, MutexOrder, j, f)
    BY <1>1, StatesExist, ZenonT(30)
  <2>2. f = F(f)
    BY <1>4, <2>1
  <2>3. g = F(g)
    BY <2>2
  <2>. QED
    BY <1>4, <2>3
<1>. HIDE DEF g
<1>6. \A l : \A i \in 1 .. Len(MutexOrder) :
        Wakes(j, l) => Wakes(l, Body(loop, l, MutexOrder[i]))
  BY <1>1, <1>2, UpdateMutexPriorityWakes, WakesItself DEF Wakes
<1>. QED
  BY <1>1, <1>3, <1>5, <1>6, LoopWakes

LEMMA SetThreadPriorityRight ==
  ASSUME NEW S \in RunStatuses, Right(k, S), OnCore(k), NEW t \in Threads, NEW p \in Level,
         SVC_SetThreadPriority(t, p)
  PROVE  Right(k', S)
<1>. DEFINE a == SetPriority(k, t, p)
            b == UpdateThreadPriority(a, t)
            c == Passes(b, b.pending_mutexes[t])
            d == PrepareReschedule(c)
<1>1. Guest /\ Return(d, "Success")
  BY DEF SVC_SetThreadPriority, Passes
<1>2. Sound(k)
  BY <1>1, GuestFacts
<1>3. Moves(k, a, {}) /\ Sound(a)
  <2>1. Moves(k, a, {})
    BY <1>2, SetPriorityMoves
  <2>. QED
    BY <2>1, Zenon DEF Moves
<1>. HIDE DEF a
<1>4. Wakes(a, b) /\ Sound(b)
  BY <1>3, UpdateThreadPriorityWakes, ZenonT(30) DEF Wakes
<1>. HIDE DEF b
<1>5. Wakes(b, c) /\ Sound(c)
  BY <1>4, PassesWake DEF Wakes
<1>. HIDE DEF c
<1>6. Moves(c, d, {})
  BY <1>5, PrepareRescheduleHalts
<1>. HIDE DEF d
<1>7. Moves(a, b, {}) /\ Moves(b, c, {})
  BY <1>4, <1>5, WakesMoves
<1>8. Moves(k, b, {})
  BY <1>3, <1>7, MovesOn
<1>9. Moves(k, c, {})
  BY <1>7, <1>8, MovesOn
<1>10. Moves(k, d, {})
  BY <1>6, <1>9, MovesOn
<1>. QED
  BY <1>1, <1>10, WakingCall

(* A call that ends threads: that of another core only if S allows a dead one there. *)
LEMMA EndingCall ==
  ASSUME NEW S \in RunStatuses, Right(k, S), OnCore(k), Guest, NEW X, NEW j, Moves(k, j, X),
         \A c \in Cores \ {k.current_cpu} : k.current_thread[c] \in X => "Dead" \in S,
         Halts(j) \/ (Cur \in X => "Dead" \in S), NEW result, Return(j, result)
  PROVE  Right(k', S)
<1>1. k.current_thread[k.current_cpu] = Cur /\ k.phase = "run"
  BY GuestFacts
<1>2. Right(j, S)
  BY <1>1, RightMoves
<1>3. SamePlace(k, j)
  BY DEF Moves
<1>. QED
  BY <1>2, <1>3, ReturnRight

LEMMA ExitThreadRight ==
  ASSUME NEW S \in RunStatuses, Right(k, S), OnCore(k), SVC_ExitThread
  PROVE  Right(k', S)
<1>. DEFINE cpu == k.current_cpu
            j == ExitCurrentThread(k, cpu)
<1>1. Guest /\ Return(j, "none")
  BY DEF SVC_ExitThread
<1>2. /\ Cur \in Threads /\ k.current_thread[cpu] = Cur /\ k.status[Cur] \in S
      /\ core_id[Cur] = cpu /\ cpu \in Cores /\ Sound(k)
  BY <1>1, GuestFacts
<1>3. Cur # NoThread /\ k.status[Cur] # "Unborn"
  BY <1>1, <1>2 DEF Guest, RunStatuses
<1>4. Moves(k, j, {Cur}) /\ Halts(j)
  BY <1>2, <1>3, ExitCurrentThreadMoves
<1>5. \A c \in Cores \ {cpu} : k.current_thread[c] # Cur
  BY <1>2, <1>3 DEF Sound, Placed
<1>. HIDE DEF j
<1>. QED
  BY <1>1, <1>4, <1>5, EndingCall

LEMMA SleepThreadRight ==
  ASSUME NEW S \in RunStatuses, Right(k, S), OnCore(k), NEW timeout, SVC_SleepThread(timeout)
  PROVE  Right(k', S)
<1>0. PICK st \in WaitingStatus : st = "WaitSleep"
  BY DEF WaitingStatus
<1>. DEFINE a == WithStatus(k, Cur, st)
            b == WakeAfterDelay(a, Cur, timeout)
            c == PrepareReschedule(b)
<1>1. Guest /\ (Return(k, "none") \/ Return(c, "none"))
  BY <1>0 DEF SVC_SleepThread, WithStatus
<1>2. Sound(k)
  BY <1>1, GuestFacts
<1>3. CASE Return(k, "none")
  BY <1>2, <1>3, MovesItself, WakingCall
<1>4. CASE Return(c, "none")
  <2>1. Sound(a)
    BY <1>1, SuspendedSound
  <2>. HIDE DEF a
  <2>2. Moves(a, b, {})
    BY <2>1, WakeAfterDelayMoves
  <2>3. Sound(b)
    BY <2>2 DEF Moves
  <2>. HIDE DEF b
  <2>4. Moves(b, c, {}) /\ Halts(c)
    BY <2>3, PrepareRescheduleHalts
  <2>. HIDE DEF c
  <2>5. Moves(a, c, {})
    BY <2>2, <2>4, MovesOn
  <2>6. Moves(WithStatus(k, Cur, st), c, {})
    BY <2>5 DEF a
  <2>. QED
    BY <1>1, <1>4, <2>4, <2>6, SuspendingCall
<1>. QED
  BY <1>1, <1>3, <1>4

(***************************************************************************)
(* A process ends: on one core its current thread is replaced, on several  *)
(* the threads of the other cores may be left dead.                        *)
(***************************************************************************)
LEMMA TerminateRight ==
  ASSUME NEW S \in RunStatuses, Right(k, S), OnCore(k), Guest, "Dead" \in S \/ NumCores = 1,
         NEW p, NEW result, Return(TerminateProcess(k, p), result)
  PROVE  Right(k', S)
<1>. DEFINE j == TerminateProcess(k, p)
<1>1. k.current_thread[k.current_cpu] = Cur /\ k.current_cpu \in Cores /\ Sound(k)
  BY GuestFacts
<1>2. Created(k)
  BY DEF Right
<1>3. /\ Moves(k, j, Threads)
      /\ NumCores = 1 => Halts(j) \/ Moves(k, j, Threads \ {k.current_thread[0]})
  BY <1>1, <1>2, TerminateProcessMoves
<1>. HIDE DEF j
<1>4. Return(j, result)
  BY DEF j
<1>5. CASE "Dead" \in S
  BY <1>3, <1>4, <1>5, EndingCall
<1>6. CASE NumCores = 1
  <2>1. Cores = {0}
    BY <1>6 DEF Cores
  <2>2. k.current_cpu = 0 /\ Cores \ {k.current_cpu} = {}
    BY <1>1, <2>1
  <2>3. CASE Halts(j)
    BY <1>3, <1>4, <2>2, <2>3, EndingCall
  <2>4. CASE Moves(k, j, Threads \ {k.current_thread[0]})
    <3>. DEFINE X == Threads \ {Cur}
    <3>1. Moves(k, j, X) /\ Cur \notin X
      BY <1>1, <2>2, <2>4
    <3>. HIDE DEF X
    <3>. QED
      BY <1>4, <2>2, <3>1, EndingCall
  <2>. QED
    BY <1>3, <1>6, <2>3, <2>4
<1>. QED
  BY <1>5, <1>6

-----------------------------------------------------------------------------
(* The steps of the kernel. *)

(* No thread that is current on a core can be ended by a call on another. *)
Quiet == NumCores = 1 \/ (Terminable = {} /\ "ExitProcess" \notin Calls)

LEMMA SystemCallRight ==
  ASSUME NEW S \in RunStatuses, Right(k, S), OnCore(k), program \in DOMAIN Programs,
         "Dead" \in S \/ Quiet, SystemCall
  PROVE  Right(k', S)
<1>1. /\ WaitOne \subseteq WaitObjects /\ WaitLists \subseteq Seq(WaitObjects)
      /\ \A t \in Threads : Priorities[t] \subseteq Level
  BY ProgramFacts
<1>. DEFINE OnObject ==
              \/ \E m \in Mutexes : SVC_ReleaseMutex(m)
              \/ \E e \in Events : SVC_SignalEvent(e)
              \/ \E e \in Events : SVC_ClearEvent(e)
              \/ \E tm \in Timers : SVC_ClearTimer(tm)
              \/ \E s \in Semaphores, n \in Int : SVC_ReleaseSemaphore(s, n)
              \/ \E tm \in Timers, initial, interval \in BOOLEAN : SVC_SetTimer(tm, initial, interval)
              \/ \E tm \in Timers : SVC_CancelTimer(tm)
<1>0. /\ (\E m \in Used(Mutexes) : SVC_ReleaseMutex(m)) => OnObject
      /\ (\E e \in Used(Events) : SVC_SignalEvent(e) \/ SVC_ClearEvent(e)) => OnObject
      /\ (\E tm \in Used(Timers) : SVC_ClearTimer(tm) \/ SVC_CancelTimer(tm)) => OnObject
      /\ (\E s \in Used(Semaphores) : \E n \in 1 .. max_count[s] : SVC_ReleaseSemaphore(s, n)) => OnObject
      /\ (\E tm \in Used(Timers) : \E initial, interval \in BOOLEAN :
            SVC_SetTimer(tm, initial, interval)) => OnObject
  BY DEF Used
<1>6. CASE OnObject
  BY <1>6, ObjectCallsRight
<1>. HIDE DEF OnObject
<1>2. \/ \E o \in WaitOne, timeout \in Timeouts : SVC_WaitSynchronization1(o, timeout)
      \/ \E objects \in WaitLists, timeout \in Timeouts : SVC_WaitSynchronizationAll(objects, timeout)
      \/ \E objects \in WaitLists, timeout \in Timeouts : SVC_WaitSynchronizationAny(objects, timeout)
      \/ OnObject
      \/ \E t \in Threads : \E p \in Priorities[t] : SVC_CreateThread(t, p)
      \/ \E t \in Threads : \E p \in Priorities[t] : SVC_SetThreadPriority(t, p)
      \/ SVC_ExitThread
      \/ \E timeout \in Timeouts : SVC_SleepThread(timeout)
      \/ "ExitProcess" \in Calls /\ SVC_ExitProcess
      \/ \E p \in Terminable : SVC_TerminateProcess(p)
  BY <1>0, Zenon DEF SystemCall, Makes
<1>3. CASE \E o \in WaitOne, timeout \in Timeouts : SVC_WaitSynchronization1(o, timeout)
  BY <1>1, <1>3, WaitSynchronization1Right
<1>4. CASE \E objects \in WaitLists, timeout \in Timeouts : SVC_WaitSynchronizationAll(objects, timeout)
  BY <1>1, <1>4, WaitSynchronizationAllRight
<1>5. CASE \E objects \in WaitLists, timeout \in Timeouts : SVC_WaitSynchronizationAny(objects, timeout)
  BY <1>1, <1>5, WaitSynchronizationAnyRight
<1>7. CASE \E t \in Threads : \E p \in Priorities[t] : SVC_CreateThread(t, p)
  BY <1>1, <1>7, CreateThreadCallRight
<1>8. CASE \E t \in Threads : \E p \in Priorities[t] : SVC_SetThreadPriority(t, p)
  BY <1>1, <1>8, SetThreadPriorityRight
<1>9. CASE SVC_ExitThread
  BY <1>9, ExitThreadRight
<1>10. CASE \E timeout \in Timeouts : SVC_SleepThread(timeout)
  BY <1>10, SleepThreadRight
<1>11. CASE "ExitProcess" \in Calls /\ SVC_ExitProcess
  <2>1. Guest /\ Return(TerminateProcess(k, owner_process[Cur]), "none")
    BY <1>11 DEF SVC_ExitProcess
  <2>. QED
    BY <1>11, <2>1, TerminateRight DEF Quiet
<1>12. CASE \E p \in Terminable : SVC_TerminateProcess(p)
  <2>1. PICK p \in Terminable : Guest /\ Return(TerminateProcess(k, p), "Success")
    BY <1>12 DEF SVC_TerminateProcess
  <2>. QED
    BY <2>1, TerminateRight DEF Quiet
<1>. QED
  BY <1>2, <1>3, <1>4, <1>5, <1>6, <1>7, <1>8, <1>9, <1>10, <1>11, <1>12

LEMMA NextRight ==
  ASSUME NEW S \in RunStatuses, Right(k, S), OnCore(k), program \in DOMAIN Programs,
         "Dead" \in S \/ Quiet, Next
  PROVE  Right(k', S)
<1>1. RunLoop \/ SystemCall \/ k' = k
  BY DEF Next, Crashed
<1>2. CASE RunLoop
  BY <1>2, RunLoopRight
<1>3. CASE SystemCall
  BY <1>3, SystemCallRight
<1>. QED
  BY <1>1, <1>2, <1>3

-----------------------------------------------------------------------------
(* Arbiters. *)

(* So many threads that wait for the address are resumed. *)
Resumes(j, a, s) == ForEach(s, j, LAMBDA x, y : ResumeHighestPriorityThread(x, a, y))

LEMMA ResumesWake ==
  ASSUME NEW j, Sound(j), NEW a \in Arbiters, NEW s, Len(s) \in Nat
  PROVE  Wakes(j, Resumes(j, a, s))
<1>. DEFINE loop == [does |-> "signal", of |-> a]
            F(f) == [n \in 0 .. Len(s) |->
                       IF n = 0 THEN j ELSE ResumeHighestPriorityThread(f[n - 1], a, s[n])]
            g == CHOOSE f : f = F(f)
<1>2. \A l, x : Body(loop, l, x) = ResumeHighestPriorityThread(l, a, x)
  BY DEF Body
<1>3. Resumes(j, a, s) = g[Len(s)]
  BY DEF Resumes, ForEach
<1>. HIDE DEF loop
<1>4. \A f : F(f) = States(loop, s, j, f)
  BY <1>2 DEF States
<1>5. g = States(loop, s, j, g)
  <2>. HIDE DEF F
  <2>1. PICK f : f = States(loop, s, j, f)
    BY StatesExist, Zenon
  <2>2. f = F(f)
    BY <1>4, <2>1
  <2>3. g = F(g)
    BY <2>2
  <2>. QED
    BY <1>4, <2>3
<1>. HIDE DEF g
<1>6. \A l : \A i \in 1 .. Len(s) : Wakes(j, l) => Wakes(l, Body(loop, l, s[i]))
  BY <1>2, WakesSound, ResumeHighestPriorityThreadWakes
<1>. QED
  BY <1>3, <1>5, <1>6, LoopWakes

LEMMA ArbitrateSignalRight ==
  ASSUME NEW S \in RunStatuses, Right(k, S), OnCore(k), NEW a \in Arbiters, NEW address,
         NEW value \in Int, SVC_ArbitrateSignal(a, address, value)
  PROVE  Right(k', S)
<1>. DEFINE s == [i \in 1 .. value |-> address]
            j == IF value < 0 THEN ResumeAllThreads(k, a, address) ELSE Resumes(k, a, s)
<1>1. Guest /\ Return(PrepareReschedule(j), "Success")
  BY DEF SVC_ArbitrateSignal, Resumes
<1>2. Sound(k)
  BY <1>1, GuestFacts
<1>3. Wakes(k, j) /\ Sound(j)
  <2>1. CASE value < 0
    <3>1. Wakes(k, j)
      BY <1>2, <2>1, ResumeAllThreadsWakes
    <3>. QED
      BY <3>1, WakesSound, Zenon
  <2>2. CASE ~ (value < 0)
    <3>1. Len(s) \in Nat
      BY <2>2
    <3>. HIDE DEF s
    <3>2. Wakes(k, Resumes(k, a, s))
      BY <1>2, <3>1, ResumesWake
    <3>. QED
      BY <2>2, <3>2, Zenon DEF Wakes
  <2>. QED
    BY <2>1, <2>2
<1>. HIDE DEF j
<1>4. Moves(k, j, {}) /\ Moves(j, PrepareReschedule(j), {})
  BY <1>3, WakesMoves, PrepareRescheduleHalts
<1>5. Moves(k, PrepareReschedule(j), {})
  BY <1>4, MovesOn
<1>. QED
  BY <1>1, <1>5, WakingCall

(* The lists of the arbiters, the callbacks and the scheduled events may change. *)
Wait == Books \cup {"wakeup_callback", "wait_address", "arb_waiting"}

LEMMA WaitMoves ==
  ASSUME NEW j, Sound(j), NEW l, DOMAIN l = Fields, \A f \in Fields \ Wait : l[f] = j[f],
         l.arb_waiting \in [Arbiters -> Seq(Threads)]
  PROVE  Moves(j, l, {})
<1>1. Typed(l)
  BY Zenon DEF Sound, Typed, Fields, Wait, Books
<1>2. /\ l.status = j.status /\ l.current_priority = j.current_priority
      /\ l.ready_queue = j.ready_queue /\ l.current_thread = j.current_thread
      /\ l.thread_list = j.thread_list /\ SamePlace(j, l) /\ StillHalted(j, l)
  BY DEF Fields, Wait, Books, SamePlace, StillHalted
<1>3. Queued(l) /\ Placed(l)
  BY <1>2, SameQueues
<1>. QED
  BY <1>1, <1>2, <1>3 DEF Moves, Sound, Listed

LEMMA ArbitrateWaitMoves ==
  ASSUME NEW S \in RunStatuses, Right(k, S), OnCore(k), Guest, NEW a \in Arbiters, NEW address,
         NEW timeout, NEW timed
  PROVE  Moves(WithStatus(k, Cur, "WaitArb"), ArbitrateWait(k, a, address, TRUE, timeout, timed), {})
<1>0. PICK cur, arb, st : cur = Cur /\ arb = "arb" /\ st = "WaitArb"
  OBVIOUS
<1>. st \in WaitingStatus
  BY <1>0 DEF WaitingStatus
<1>. DEFINE w == WithStatus(k, cur, st)
            b == [k EXCEPT !.wakeup_callback[cur] = arb]
            c == IF timed THEN WakeAfterDelay(b, cur, timeout) ELSE k
            d == [c EXCEPT !.wait_address[cur] = address, !.status[cur] = st,
                           !.arb_waiting[a] = Append(@, cur)]
<1>1. cur \in Threads /\ Sound(k)
  BY <1>0, GuestFacts, Zenon
<1>2. Sound(w)
  BY <1>0, SuspendedSound
<1>3. DOMAIN w = Fields /\ \A f \in Fields \ {"status"} : w[f] = k[f]
  BY <1>1 DEF WithStatus, Sound, Typed, Fields
<1>4. w.status = [k.status EXCEPT ![cur] = st]
  BY <1>1 DEF WithStatus, Sound, Typed, Fields
<1>5. DOMAIN b = Fields /\ \A f \in Fields \ {"wakeup_callback"} : b[f] = k[f]
  BY <1>1 DEF Sound, Typed, Fields
<1>6. ArbitrateWait(k, a, address, TRUE, timeout, timed) = d
  BY <1>0 DEF ArbitrateWait, WaitThread
<1>. HIDE DEF w, b
<1>7. /\ DOMAIN c = Fields
      /\ \A f \in Fields \ (Books \cup {"wakeup_callback"}) : c[f] = k[f]
  <2>1. LET l == WakeAfterDelay(b, cur, timeout)
        IN  DOMAIN l = Fields /\ \A f \in Fields \ Books : l[f] = b[f]
    BY <1>5 DEF WakeAfterDelay, Fields, Books
  <2>2. DOMAIN k = Fields
    BY <1>1 DEF Sound, Typed
  <2>. QED
    BY <1>5, <2>1, <2>2
<1>8. k.arb_waiting \in [Arbiters -> Seq(Threads)]
  BY <1>1 DEF Sound, Typed
<1>9. c.arb_waiting = k.arb_waiting /\ c.status = k.status
  BY <1>7 DEF Fields, Books
<1>. HIDE DEF c
<1>10. /\ DOMAIN d = Fields /\ d.status = [c.status EXCEPT ![cur] = st]
       /\ \A f \in Fields \ {"wait_address", "status", "arb_waiting"} : d[f] = c[f]
       /\ d.arb_waiting = [c.arb_waiting EXCEPT ![a] = Append(c.arb_waiting[a], cur)]
  BY <1>7, Zenon DEF Fields
<1>. HIDE DEF d
<1>11. d.arb_waiting \in [Arbiters -> Seq(Threads)]
  BY <1>1, <1>8, <1>9, <1>10
<1>12. \A f \in Fields \ Wait : d[f] = w[f]
  <2>1. d.status = w.status
    BY <1>4, <1>9, <1>10
  <2>. QED
    BY <1>3, <1>7, <1>10, <2>1, Zenon DEF Wait
<1>13. Moves(w, d, {})
  BY <1>2, <1>10, <1>11, <1>12, WaitMoves, Zenon
<1>. QED
  BY <1>0, <1>6, <1>13, Zenon DEF w

LEMMA ArbitrateWaitRight ==
  ASSUME NEW S \in RunStatuses, Right(k, S), OnCore(k), NEW a \in Arbiters, NEW address,
         NEW value, NEW decrement \in BOOLEAN, NEW timed \in BOOLEAN, NEW timeout,
         SVC_ArbitrateWait(a, address, value, decrement, timed, timeout)
  PROVE  Right(k', S)
<1>1. PICK result : Guest /\ \/ Return(PrepareReschedule(k), result)
                             \/ Return(PrepareReschedule(
                                  ArbitrateWait(k, a, address, TRUE, timeout, timed)), result)
  <2>. DEFINE waits == memory[address] < value
              result == IF timed THEN "Timeout" ELSE "Success"
  <2>1. Guest /\ Return(PrepareReschedule(ArbitrateWait(k, a, address, waits, timeout, timed)), result)
    BY DEF SVC_ArbitrateWait
  <2>2. waits => ArbitrateWait(k, a, address, waits, timeout, timed)
                   = ArbitrateWait(k, a, address, TRUE, timeout, timed)
    BY DEF ArbitrateWait
  <2>3. ~ waits => ArbitrateWait(k, a, address, waits, timeout, timed) = k
    BY DEF ArbitrateWait
  <2>. HIDE DEF waits, result
  <2>. QED
    BY <2>1, <2>2, <2>3, Zenon
<1>2. Sound(k)
  BY <1>1, GuestFacts
<1>3. CASE Return(PrepareReschedule(k), result)
  BY <1>2, <1>3, PrepareRescheduleHalts, WakingCall
<1>4. CASE Return(PrepareReschedule(ArbitrateWait(k, a, address, TRUE, timeout, timed)), result)
  <2>1. PICK st \in WaitingStatus : st = "WaitArb"
    BY DEF WaitingStatus
  <2>2. PICK j : j = ArbitrateWait(k, a, address, TRUE, timeout, timed)
    BY Zenon
  <2>3. Moves(WithStatus(k, Cur, st), j, {})
    BY <1>1, <2>1, <2>2, ArbitrateWaitMoves, ZenonT(30)
  <2>4. Sound(j)
    BY <2>3, Zenon DEF Moves
  <2>5. Moves(j, PrepareReschedule(j), {}) /\ Halts(PrepareReschedule(j))
    BY <2>4, PrepareRescheduleHalts
  <2>6. Moves(WithStatus(k, Cur, st), PrepareReschedule(j), {})
    BY <2>3, <2>5, MovesOn
  <2>. QED
    BY <1>1, <1>4, <2>2, <2>5, <2>6, SuspendingCall, Zenon
<1>. QED
  BY <1>1, <1>3, <1>4, Zenon

LEMMA ArbNextRight ==
  ASSUME NEW S \in RunStatuses, Right(k, S), OnCore(k), program \in DOMAIN Programs,
         "Dead" \in S \/ Quiet, ArbNext
  PROVE  Right(k', S)
<1>1. Next \/ Arbitration
  BY DEF ArbNext
<1>2. CASE Next
  BY <1>2, NextRight
<1>3. CASE Arbitration
  <2>1. \/ \E a \in Arbiters, address \in Addresses, value \in Values :
             SVC_ArbitrateSignal(a, address, value)
        \/ \E a \in Arbiters, address \in Addresses, value \in Values, decrement, timed \in BOOLEAN,
              timeout \in Timeouts : SVC_ArbitrateWait(a, address, value, decrement, timed, timeout)
        \/ k' = k
    BY <1>3 DEF Arbitration, Store
  <2>2. CASE \E a \in Arbiters, address \in Addresses, value \in Values :
               SVC_ArbitrateSignal(a, address, value)
    BY <2>2, ArbiterAssumption, ArbitrateSignalRight
  <2>3. CASE \E a \in Arbiters, address \in Addresses, value \in Values, decrement, timed \in BOOLEAN,
               timeout \in Timeouts : SVC_ArbitrateWait(a, address, value, decrement, timed, timeout)
    BY <2>3, ArbitrateWaitRight
  <2>. QED
    BY <2>1, <2>2, <2>3
<1>. QED
  BY <1>1, <1>2, <1>3

-----------------------------------------------------------------------------
(* The initial states. *)

LEMMA StartRight ==
  ASSUME NEW S, NEW j, Sound(j), SamePlace(EmptyKernel, j),
         \A t \in Listed(j) : j.status[t] # "Unborn"
  PROVE  Right(j, S)
<1>1. /\ j.current_thread = [c \in Cores |-> NoThread] /\ j.phase = "advance" /\ j.todo = Cores
      /\ j.lagging = {} /\ j.current_cpu = 0 /\ j.executing = 0
  BY Zenon DEF SamePlace, EmptyKernel
<1>2. Created(j)
  BY <1>1 DEF Created
<1>3. \A c \in Cores : FineOn(j, c, S)
  BY <1>1 DEF FineOn
<1>4. Min(Cores) = 0 /\ Cores # {}
  <2>1. Cores \in SUBSET Nat /\ Cores # {} /\ \A c \in Cores : c >= 0
    BY CoreZero DEF Cores
  <2>2. Min(Cores) \in Cores /\ \A c \in Cores : Min(Cores) <= c
    BY <2>1, MinProperty
  <2>3. PICK m \in Nat : m = Min(Cores)
    BY <2>1, <2>2, Zenon
  <2>4. m <= 0
    BY <2>2, <2>3, CoreZero
  <2>5. m = 0
    BY <2>4
  <2>. QED
    BY <2>1, <2>3, <2>5
<1>5. InTurn(j)
  BY <1>1, <1>4, CoreZero DEF InTurn
<1>6. Fine(j, S) /\ OnCore(j)
  BY <1>1, <1>3 DEF Fine, OnCore
<1>. QED
  BY <1>2, <1>5, <1>6 DEF Right

LEMMA InitRight ==
  ASSUME NEW S, Init
  PROVE  Right(k, S)
<1>1. PICK p \in [Members(MainThreads) -> Level], count \in [Semaphores -> 0 .. MaxCount],
           late \in DelayedStart :
        LET created == Creates([EmptyKernel EXCEPT !.available_count = count], MainThreads, p, late)
        IN  k = IF late THEN WakeAfterDelay(WithStatus(created, MainThreads[1], "WaitSleep"),
                                            MainThreads[1], 1)
                ELSE created
  BY Zenon DEF Init, Creates, WithStatus
<1>2. /\ MainThreads \in Seq(Threads) /\ Len(MainThreads) > 0 /\ late \in BOOLEAN
      /\ \A i, n \in 1 .. Len(MainThreads) : MainThreads[i] = MainThreads[n] => i = n
  <2>1. program \in DOMAIN Programs
    BY DEF Init
  <2>2. DOMAIN MainThreads = 1 .. Len(MainThreads)
    BY <2>1, ProgramFacts
  <2>. QED
    BY <2>1, <2>2, ProgramFacts
<1>3. \A i \in 1 .. Len(MainThreads) : p[MainThreads[i]] \in Level
  BY <1>2 DEF Members
<1>. DEFINE t == MainThreads[1]
<1>4. t \in Threads
  BY <1>2
<1>5. PICK base, created, st, wait :
        /\ base = [EmptyKernel EXCEPT !.available_count = count]
        /\ created = Creates(base, MainThreads, p, late)
        /\ st = "WaitSleep" /\ wait = 1
  BY Zenon
<1>6. k = IF late THEN WakeAfterDelay(WithStatus(created, t, st), t, wait) ELSE created
  BY <1>1, <1>5
<1>7. Fresh(base) /\ \A u \in Threads : base.status[u] = "Unborn"
  BY <1>5, EmptyFresh
<1>. HIDE DEF t
<1>8. Fresh(created) /\ (late => created.status[t] = "Dormant")
  BY <1>2, <1>3, <1>5, <1>7, CreatesFresh, ZenonT(30) DEF t
<1>9. CASE ~ late
  <2>1. k = created
    BY <1>6, <1>9
  <2>. QED
    BY <1>8, <2>1, StartRight DEF Fresh
<1>10. CASE late
  <2>. DEFINE w == WithStatus(created, t, st)
              l == WakeAfterDelay(w, t, wait)
  <2>1. k = l
    BY <1>6, <1>10
  <2>2. st \in WaitingStatus /\ created.status[t] = "Dormant" /\ Sound(created)
    BY <1>5, <1>8, <1>10, Zenon DEF WaitingStatus, Fresh
  <2>3. Sound(w)
    BY <1>4, <2>2, StatusChange DEF WithStatus
  <2>4. /\ DOMAIN w = Fields /\ \A f \in Fields \ {"status"} : w[f] = created[f]
        /\ w.status = [created.status EXCEPT ![t] = st]
    BY <2>2 DEF WithStatus, Sound, Typed, Fields
  <2>. HIDE DEF w
  <2>5. Moves(w, l, {})
    BY <2>3, WakeAfterDelayMoves
  <2>. HIDE DEF l
  <2>6. SamePlace(created, w) /\ w.thread_list = created.thread_list
    BY <2>4 DEF SamePlace, Fields
  <2>7. \A u \in Listed(w) : w.status[u] # "Unborn"
    <3>1. Listed(w) = Listed(created) /\ Listed(w) \subseteq Threads
      BY <2>6 DEF Listed
    <3>. QED
      BY <1>4, <1>8, <2>2, <2>4, <3>1, Zenon DEF Fresh, Sound, Typed, WaitingStatus
  <2>8. Sound(l) /\ SamePlace(EmptyKernel, l)
    BY <1>8, <2>5, <2>6, Zenon DEF Moves, Fresh, SamePlace
  <2>9. \A u \in Listed(l) : l.status[u] # "Unborn"
    <3>1. Listed(l) \subseteq Threads
      BY DEF Listed
    <3>. QED
      BY <2>5, <2>7, <3>1 DEF Moves
  <2>. QED
    BY <2>1, <2>8, <2>9, StartRight
<1>. QED
  BY <1>9, <1>10

-----------------------------------------------------------------------------
(* The theorems. *)

(* The statuses that a core can be left with. *)
CanRun == IF Quiet THEN {"Running"} ELSE {"Running", "Dead"}

(* The inductive invariant. *)
KInv == program \in DOMAIN Programs /\ Right(k, CanRun)

(***************************************************************************)
(* The kernel takes the core that executes for the current one.  With at   *)
(* most two cores KInv implies it; with three RunLoopMultiCores can catch  *)
(* a core up and leave the kernel with it.                                 *)
(***************************************************************************)
OnExecutingCore == OnCore(k)

LEMMA CanRunFacts == CanRun \in RunStatuses /\ ("Dead" \in CanRun \/ Quiet)
BY DEF CanRun, RunStatuses

LEMMA KInvInit ==
  ASSUME Init
  PROVE  KInv
BY InitRight, Zenon DEF KInv, Init

LEMMA KInvTwoCores ==
  ASSUME NumCores <= 2, KInv
  PROVE  OnExecutingCore
BY DEF KInv, Right, OnExecutingCore

LEMMA KInvArb ==
  ASSUME KInv, OnExecutingCore, [ArbNext /\ UNCHANGED program]_vars
  PROVE  KInv'
<1>1. program' = program
  BY DEF vars
<1>2. CanRun' = CanRun
  BY <1>1 DEF CanRun, Quiet, Terminable, Calls, Of
<1>3. PICK S \in RunStatuses : S = CanRun /\ ("Dead" \in S \/ Quiet)
  BY CanRunFacts
<1>4. Right(k, S) /\ OnCore(k) /\ program \in DOMAIN Programs
  BY <1>3 DEF KInv, OnExecutingCore
<1>5. Right(k', S)
  <2>1. CASE ArbNext
    BY <1>3, <1>4, <2>1, ArbNextRight
  <2>2. CASE UNCHANGED vars
    BY <1>4, <2>2 DEF vars
  <2>. QED
    BY <2>1, <2>2
<1>. QED
  BY <1>1, <1>2, <1>3, <1>4, <1>5 DEF KInv

(* What the invariant says of the ready queues. *)
LEMMA KInvQueues ==
  ASSUME KInv
  PROVE  ReadyIffQueued
<1>1. Sound(k)
  BY DEF KInv, Right
<1>2. ASSUME NEW t \in Threads, NEW c \in Cores, NEW p \in Level
      PROVE  LET places == {i \in DOMAIN k.ready_queue[c].data[p] : k.ready_queue[c].data[p][i] = t}
             IN IF k.status[t] = "Ready" /\ c = core_id[t] /\ p = k.current_priority[t]
                  THEN \E i \in places : places = {i}
                  ELSE places = {}
  <2>. DEFINE q == k.ready_queue[c]
              D == {i \in DOMAIN q.data[p] : q.data[p][i] = t}
  <2>1. /\ Good(q)
        /\ Holds(q, t, p) <=> k.status[t] = "Ready" /\ c = core_id[t] /\ p = k.current_priority[t]
    BY <1>1 DEF Sound, Queued
  <2>. HIDE DEF q
  <2>2. Holds(q, t, p) => \E i : D = {i}
    <3>1. SUFFICES ASSUME Holds(q, t, p)
                   PROVE  \E i : D = {i}
      OBVIOUS
    <3>2. PICK i \in D : TRUE
      BY <3>1 DEF Holds
    <3>3. \A n \in D : n = i
      BY <2>1, <3>2 DEF Good
    <3>4. D = {i}
      BY <3>2, <3>3
    <3>. QED
      BY <3>4
  <2>3. ~ Holds(q, t, p) => D = {}
    BY DEF Holds
  <2>4. IF k.status[t] = "Ready" /\ c = core_id[t] /\ p = k.current_priority[t]
          THEN \E i \in D : D = {i}
          ELSE D = {}
    BY <2>1, <2>2, <2>3
  <2>. QED
    BY <2>4, Zenon DEF q
<1>3. \A t \in Threads : k.status[t] \notin {"Unborn", "Dead"} =>
        k.current_priority[t] \in Linked(k.ready_queue[core_id[t]])
  BY <1>1 DEF Sound, Queued
<1>. QED
  BY <1>2, <1>3 DEF ReadyIffQueued

(* And of the threads that run. *)
LEMMA KInvThreads ==
  ASSUME KInv, OnExecutingCore, Quiet
  PROVE  OnlyRunningThreadsExecute
<1>1. PICK S \in RunStatuses : S = {"Running"} /\ Right(k, S)
  BY DEF KInv, CanRun, RunStatuses
<1>2. Guest => k.status[Cur] = "Running"
  BY <1>1, GuestFacts DEF OnExecutingCore
<1>3. \A t \in Threads : k.status[t] = "Running" => k.current_thread[core_id[t]] = t
  BY <1>1 DEF Right, Sound, Placed
<1>. QED
  BY <1>2, <1>3 DEF OnlyRunningThreadsExecute

(***************************************************************************)
(* On one or two cores, for any threads, priorities, objects and programs: *)
(* whatever the calls of the threads, the timeouts and the timers do, a    *)
(* thread is in the ready queue of its core, once and at the level of its  *)
(* current priority, exactly while it is ready (SetPriority, BoostPriority,*)
(* ResumeFromWait, Stop and SwitchContext of thread.cpp).                  *)
(***************************************************************************)
THEOREM ReadyThreadsAreQueued ==
  ASSUME NumCores <= 2
  PROVE  ArbSpec => []ReadyIffQueued
<1>1. ArbInit => KInv
  BY KInvInit DEF ArbInit
<1>2. KInv /\ [ArbNext /\ UNCHANGED program]_vars => KInv'
  BY KInvTwoCores, KInvArb
<1>3. KInv => ReadyIffQueued
  BY KInvQueues
<1>. QED
  BY <1>1, <1>2, <1>3, PTL DEF ArbSpec

(***************************************************************************)
(* On any number of cores the ready queues are exact as long as the kernel *)
(* takes the core that executes for the current one.                       *)
(***************************************************************************)
THEOREM ReadyThreadsAreQueuedOnCore == ArbSpec /\ []OnExecutingCore => []ReadyIffQueued
<1>1. ArbInit => KInv
  BY KInvInit DEF ArbInit
<1>2. KInv /\ OnExecutingCore /\ [ArbNext /\ UNCHANGED program]_vars => KInv'
  BY KInvArb
<1>3. KInv => ReadyIffQueued
  BY KInvQueues
<1>. QED
  BY <1>1, <1>2, <1>3, PTL DEF ArbSpec

(***************************************************************************)
(* On one core the caller of every system call is a thread that the        *)
(* scheduler has made running, and no other thread is: a thread that ends, *)
(* is ended or starts to wait executes no more guest code (Reschedule and  *)
(* SwitchContext of thread.cpp, TerminateProcess of kernel.cpp).           *)
(***************************************************************************)
THEOREM CallersRun ==
  ASSUME NumCores = 1
  PROVE  ArbSpec => []OnlyRunningThreadsExecute
<1>1. ArbInit => KInv
  BY KInvInit DEF ArbInit
<1>2. KInv /\ [ArbNext /\ UNCHANGED program]_vars => KInv'
  BY KInvTwoCores, KInvArb
<1>3. KInv => OnlyRunningThreadsExecute
  BY KInvTwoCores, KInvThreads DEF Quiet
<1>. QED
  BY <1>1, <1>2, <1>3, PTL DEF ArbSpec

(***************************************************************************)
(* On two cores the same holds of programs that end no process: a process  *)
(* that is terminated can leave a dead thread on the other core until the  *)
(* end of its slice.                                                       *)
(***************************************************************************)
THEOREM CallersRunOnTwoCores ==
  ASSUME NumCores <= 2
  PROVE  ArbSpec => [](Quiet => OnlyRunningThreadsExecute)
<1>1. ArbInit => KInv
  BY KInvInit DEF ArbInit
<1>2. KInv /\ [ArbNext /\ UNCHANGED program]_vars => KInv'
  BY KInvTwoCores, KInvArb
<1>3. KInv => (Quiet => OnlyRunningThreadsExecute)
  BY KInvTwoCores, KInvThreads
<1>. QED
  BY <1>1, <1>2, <1>3, PTL DEF ArbSpec
=============================================================================
