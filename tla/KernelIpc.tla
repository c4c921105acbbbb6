------------------------------ MODULE KernelIpc ------------------------------
(***************************************************************************)
(* Requests between processes: sessions and ports (server_session.cpp,     *)
(* client_session.cpp, server_port.cpp, client_port.cpp), the system calls *)
(* on them, the services that the emulator itself implements (hle_ipc.cpp) *)
(* and srv:, which hands out the sessions of services (service/sm).        *)
(*                                                                         *)
(* A client thread sleeps from SendSyncRequest until it is answered: by a  *)
(* server thread in ReplyAndReceive, or, for an HLE session, by the        *)
(* emulator after a delay, on an event, or after an asynchronous section   *)
(* that a host thread runs.                                                *)
(***************************************************************************)
EXTENDS Kernel

CONSTANT
  pause_event    \* pause_event[t]: the event that SleepClientThread makes for t

(***************************************************************************)
(* A program also has                                                      *)
(*   Clients       the threads that hold the client ends;                  *)
(*   Servers       the threads that hold the server ends;                  *)
(*   Services      the ports that a server registers with srv:;            *)
(*   Handlers      what HLE services do: "respond", "sleep", "async";      *)
(*   ReceiveLists  the objects given to ReplyAndReceive;                   *)
(*   Closing       whether handles of sessions are closed.                 *)
(* The other ports that it uses exist from the start.                      *)
(***************************************************************************)
ASSUME IpcAssumption ==
  /\ pause_event \in [Threads -> Events]
  /\ \A t \in Threads : reset_type[pause_event[t]] = "OneShot"
  /\ \A name \in DOMAIN Programs : LET p == Programs[name] IN
       /\ p.Clients \subseteq Threads /\ p.Servers \subseteq Threads
       /\ p.Services \subseteq Ports /\ p.Closing \in BOOLEAN
       /\ p.Handlers \subseteq {"respond", "sleep", "async"}
       /\ p.ReceiveLists \subseteq Seq(Sessions \cup Ports)

Clients      == Of.Clients
Servers      == Of.Servers
Services     == Of.Services
Handlers     == Of.Handlers
ReceiveLists == Of.ReceiveLists
Closing      == Of.Closing

(* No session, and no event. *)
Null == NoThread

-----------------------------------------------------------------------------
(* HLE services. *)

(* HLERequestContext::SleepClientThread, with a new event. *)
SleepClientThread(j, t, callback, timeout) ==
  LET e      == pause_event[t]
      asleep == [j EXCEPT !.wakeup_callback[t] = callback,
                          !.signaled[e] = FALSE,
                          !.status[t] = "WaitHleEvent",
                          !.wait_objects[t] = <<e>>,
                          !.unanswered[t] = TRUE]
      listed == AddWaitingThread(asleep, t, e)
  IN  IF timeout > 0 THEN WakeAfterDelay(listed, t, timeout) ELSE listed

(* Mutant: the thread sleeps for a time only. *)
RunAsyncTimed(j, t) == [SleepClientThread(j, t, "async", 1) EXCEPT !.async[t] = TRUE]

(* HLERequestContext::RunAsync: a host thread starts with the asynchronous section. *)
RunAsync(j, t) == [SleepClientThread(j, t, "async", -1) EXCEPT !.async[t] = TRUE]

(* SRV::GetServiceHandle; a full port leaves the request without a session. *)
GetServiceHandle(j, t, p, wait_until_available) ==
  IF j.registered[p]
  THEN LET connected == Connect(j, p)
       IN  IF connected # j THEN WakeupAllWaitingThreads(connected, p) ELSE j
  ELSE IF wait_until_available THEN [SleepClientThread(j, t, p, -1) EXCEPT !.delayed[p] = pause_event[t]]
  ELSE j

(* Mutant: the client is woken before the service is there. *)
RegisterServiceSignalsFirst(j, p) ==
  IF j.registered[p] \/ j.delayed[p] = Null THEN [j EXCEPT !.registered[p] = TRUE]
  ELSE [Signal(j, j.delayed[p]) EXCEPT !.delayed[p] = Null, !.registered[p] = TRUE]

(* SRV::RegisterService: the client that has waited for the service connects. *)
RegisterService(j, p) ==
  LET added == [j EXCEPT !.registered[p] = TRUE]
  IN  IF j.registered[p] \/ j.delayed[p] = Null THEN added
      ELSE [Signal(added, j.delayed[p]) EXCEPT !.delayed[p] = Null]

-----------------------------------------------------------------------------
(* Sessions and ports. *)

(* Mutant: the server is not told. *)
HandleSyncRequestSilently(j, t, s, handled) ==
  IF s \in HleSessions
  THEN IF handled.status[t] = "Running"
       THEN WakeAfterDelay([handled EXCEPT !.status[t] = "WaitIPC"], t, 1) ELSE handled
  ELSE [j EXCEPT !.status[t] = "WaitIPC", !.request[t] = s,
                 !.pending_requesting_threads[s] = Append(@, t)]

(***************************************************************************)
(* ServerSession::HandleSyncRequest, where handled is what the HLE handler *)
(* makes of the kernel.  A thread that the handler has not put to sleep    *)
(* sleeps for IPCDelayNanoseconds.                                         *)
(***************************************************************************)
HandleSyncRequest(j, t, s, handled) ==
  LET h == IF s \in HleSessions
           THEN ASSERT(handled, handled.status[t] \in {"Running", "WaitHleEvent"}, "status after HLE")
           ELSE j
      slept == [h EXCEPT !.status[t] = "WaitIPC"]
      asked == IF h.status[t] # "Running" THEN h
               ELSE IF s \in HleSessions THEN WakeAfterDelay(slept, t, 1)
               ELSE [slept EXCEPT !.pending_requesting_threads[s] = Append(@, t), !.request[t] = s]
  IN  WakeupAllWaitingThreads(asked, s)

(* The requests of a session whose end is closed are forgotten, and nobody is woken. *)
DropRequests(j, s) ==
  [j EXCEPT !.pending_requesting_threads[s] = << >>,
            !.currently_handling[s] = NoThread,
            !.request = [t \in Threads |-> IF @[t] = s THEN Null ELSE @[t]]]

(* ClientSession::~ClientSession *)
CloseClient(j, s) ==
  IF j.server_open[s]
  THEN WakeupAllWaitingThreads([DropRequests(j, s) EXCEPT !.client_open[s] = FALSE], s)
  ELSE [j EXCEPT !.client_open[s] = FALSE]

(* Mutant: the port goes on counting the session. *)
CloseServerCounted(j, s) == [DropRequests(j, s) EXCEPT !.server_open[s] = FALSE]

(* ServerSession::~ServerSession, with ClientPort::ConnectionClosed *)
CloseServer(j, s) ==
  LET p == j.session_port[s]
  IN  [DropRequests(ASSERT(j, j.active_sessions[p] > 0, "no active session"), s) EXCEPT
         !.active_sessions[p] = @ - 1,
         !.server_open[s] = FALSE,
         !.session_port[s] = Null]

(* The server ends that a server has a handle of: those it has accepted. *)
Accepted(j) ==
  {s \in Sessions \ HleSessions :
     j.server_open[s] /\ \A p \in Ports : s \notin Members(j.pending_sessions[p])}

-----------------------------------------------------------------------------
(* System calls. *)

SVC_CreateSessionToPort(p) ==
  /\ Guest /\ Cur \in Clients
  /\ Unused(k) # {}
  /\ LET connected == Connect(k, p)
     IN  IF connected # k THEN Return(WakeupAllWaitingThreads(connected, p), "Success")
         ELSE Return(k, "Error")

(* AcceptSession: the last session to have been connected. *)
SVC_AcceptSession(p) ==
  /\ Guest /\ Cur \in Servers
  /\ IF k.pending_sessions[p] = << >> THEN Return(k, "Error")
     ELSE Return([k EXCEPT !.pending_sessions[p] = SubSeq(@, 1, Len(@) - 1)], "Success")

(* The kernel while a request is handled: the scheduler will run whatever comes of it. *)
Asking == PrepareReschedule(k)

(* SendSyncRequest, where handled is what the handler of an HLE service makes of the kernel. *)
SendSyncRequest(s, handled) ==
  /\ Guest /\ k.client_open[s]
  /\ IF k.server_open[s] THEN Return(HandleSyncRequest(Asking, Cur, s, handled), "Success")
     ELSE Return(Asking, "SessionClosed")

SVC_SendSyncRequest(s) ==
  /\ Cur \in Clients /\ s \notin HleSessions
  /\ SendSyncRequest(s, Asking)

(* Requests to a service of the emulator. *)
HleRespond(s) == "respond" \in Handlers /\ Cur \in Clients /\ SendSyncRequest(s, Asking)

HleSleep(s, timeout) ==
  /\ "sleep" \in Handlers /\ Cur \in Clients
  /\ SendSyncRequest(s, SleepClientThread(Asking, Cur, "hle", timeout))

HleAsync(s) ==
  /\ "async" \in Handlers /\ Cur \in Clients
  /\ SendSyncRequest(s, RunAsync(Asking, Cur))

(* A service signals the event that a client sleeps on, when it is asked by another one. *)
HleSignal(s, t) ==
  /\ "sleep" \in Handlers /\ Cur \in Clients /\ k.wakeup_callback[t] = "hle"
  /\ SendSyncRequest(s, Signal(Asking, pause_event[t]))

(* Requests to srv: *)
SrvGetServiceHandle(s, p, wait_until_available) ==
  /\ Cur \in Clients /\ Unused(k) # {}
  /\ SendSyncRequest(s, GetServiceHandle(Asking, Cur, p, wait_until_available))

SrvRegisterService(s, p) ==
  /\ Cur \in Servers /\ Unused(k) # {}
  /\ SendSyncRequest(s, RegisterService(Asking, p))

(* Mutant: another request of the session is resumed. *)
ReplyOldest(reply) ==
  LET asked   == k.currently_handling[reply]
      pending == k.pending_requesting_threads[reply]
      handled == [k EXCEPT !.currently_handling[reply] = NoThread]
  IN  IF asked = NoThread \/ ~ k.client_open[reply] THEN handled
      ELSE ResumeFromWait([handled EXCEPT !.request[asked] = Null],
                          IF pending = << >> THEN asked ELSE pending[1])

(* The reply of ReplyAndReceive: the thread whose request was handled is resumed. *)
Reply(reply) ==
  LET asked   == k.currently_handling[reply]
      handled == [k EXCEPT !.currently_handling[reply] = NoThread]
  IN  IF asked = NoThread \/ ~ k.client_open[reply] THEN handled
      ELSE ResumeFromWait([handled EXCEPT !.request[asked] = Null], asked)

(* The second half of ReplyAndReceive: the first object that is available, or a wait. *)
Receive(j, objects) ==
  LET available == {i \in DOMAIN objects : ~ ShouldWait(j, Cur, objects[i])}
      o         == objects[Min(available)]
      got       == Acquire(j, Cur, o)
      listed    == ForEach(objects, [j EXCEPT !.status[Cur] = "WaitSynchAny"],
                           LAMBDA x, y : AddWaitingThread(x, Cur, y))
  IN  IF available # {}
      THEN Return(got, IF o \in Sessions THEN ReceiveIPCRequest(got, o) ELSE "Success")
      ELSE Return(PrepareReschedule([listed EXCEPT !.wait_objects[Cur] = objects,
                                                   !.wakeup_callback[Cur] = "ipc"]), "Success")

SVC_ReplyAndReceive(objects, reply) ==
  /\ Guest /\ Cur \in Servers
  /\ Members(objects) \cap Sessions \subseteq Accepted(k)
  /\ LET asked == IF reply = Null THEN Null ELSE k.currently_handling[reply]
     IN  IF reply # Null /\ (asked = NoThread \/ ~ k.client_open[reply])
         THEN Return(Reply(reply), "SessionClosed")
         ELSE LET j == IF reply = Null THEN k ELSE Reply(reply)
              IN  IF objects = << >> THEN Return(j, IF reply = Null THEN "Error" ELSE "Success")
                  ELSE Receive(j, objects)

(* The last handle of an end is closed. *)
SVC_CloseClientSession(s) ==
  /\ Guest /\ Cur \in Clients /\ s \notin HleSessions /\ k.client_open[s]
  /\ Return(CloseClient(k, s), "Success")

SVC_CloseServerSession(s) ==
  /\ Guest /\ Cur \in Servers /\ s \in Accepted(k)
  /\ k.waiting_threads[s] = << >>
  /\ Return(CloseServer(k, s), "Success")

(***************************************************************************)
(* The host thread of RunAsync has done the asynchronous section and       *)
(* schedules the wakeup of the client, in thread safe mode.                *)
(***************************************************************************)
AsyncDone(t) ==
  /\ k.async[t]
  /\ k' = [k EXCEPT !.async[t] = FALSE, !.ts_wakeups[t] = @ + 1]

Ipc ==
  \/ \E p \in Used(Ports) \ Services : SVC_CreateSessionToPort(p)
  \/ \E p \in Used(Ports) : SVC_AcceptSession(p)
  \/ \E s \in Sessions : SVC_SendSyncRequest(s)
  \/ \E s \in HleSessions : HleRespond(s)
  \/ \E s \in HleSessions, timeout \in Timeouts : HleSleep(s, timeout)
  \/ \E s \in HleSessions : HleAsync(s)
  \/ \E s \in HleSessions, t \in Clients : HleSignal(s, t)
  \/ \E s \in HleSessions, p \in Services, wait \in BOOLEAN : SrvGetServiceHandle(s, p, wait)
  \/ \E s \in HleSessions, p \in Services : SrvRegisterService(s, p)
  \/ \E objects \in ReceiveLists, reply \in Accepted(k) \cup {Null} :
       SVC_ReplyAndReceive(objects, reply)
  \/ Closing /\ \E s \in Sessions : SVC_CloseClientSession(s)
  \/ Closing /\ \E s \in Sessions : SVC_CloseServerSession(s)
  \/ \E t \in Clients : AsyncDone(t)

IpcNext == Next \/ (k.fault = "none" /\ Ipc)

IpcSpec == Init /\ [][IpcNext /\ UNCHANGED program]_<<k, program>>

(* The host runs the asynchronous sections to their end. *)
FairIpcSpec ==
  /\ IpcSpec /\ Fairness
  /\ \A t \in Threads : WF_k(AsyncDone(t))

-----------------------------------------------------------------------------
(* Properties. *)

(***************************************************************************)
(* A request is kept, once, with its session and with no other, from       *)
(* SendSyncRequest until it is answered or an end of the session is        *)
(* closed: it is neither lost nor taken twice, whatever the order in which *)
(* servers receive and clients ask.                                        *)
(***************************************************************************)
RequestsKept ==
  \A t \in Threads, s \in Sessions :
    LET pending == k.pending_requesting_threads[s]
    IN  Cardinality({i \in DOMAIN pending : pending[i] = t})
          + (IF k.currently_handling[s] = t THEN 1 ELSE 0)
          = IF k.status[t] = "WaitIPC" /\ k.request[t] = s THEN 1 ELSE 0

(***************************************************************************)
(* A client goes on from its request only when the server that has taken   *)
(* the request replies to it: no other reply, and no closing, resumes it.  *)
(***************************************************************************)
OnlyRepliesResume ==
  [][\A t \in Threads :
       k.request[t] # Null /\ k.status[t] = "WaitIPC" /\ k'.status[t] # "WaitIPC" =>
         /\ k.currently_handling[k.request[t]] = t
         /\ k'.currently_handling[k.request[t]] # t]_k

(***************************************************************************)
(* A port counts the sessions whose server end exists, and has no more of  *)
(* them than it admits; those that wait to be accepted are among them,     *)
(* each once, even if their client has gone.                               *)
(***************************************************************************)
PortsCountSessions ==
  \A p \in Ports :
    LET open    == {s \in Sessions : k.server_open[s] /\ k.session_port[s] = p}
        pending == k.pending_sessions[p]
    IN  /\ k.active_sessions[p] = Cardinality(open) /\ k.active_sessions[p] <= max_sessions[p]
        /\ Members(pending) \subseteq open /\ Len(pending) = Cardinality(Members(pending))

(***************************************************************************)
(* A client of an HLE service does not go on before the response is        *)
(* written, whichever of the event and the timeout wakes it; and the       *)
(* response to a request that RunAsync handles is written after the        *)
(* asynchronous section has ended: no timeout, of this request or of an    *)
(* earlier one, ends the sleep before.                                     *)
(***************************************************************************)
ResponseFirst ==
  \A t \in Clients :
    /\ k.unanswered[t] => k.status[t] = "WaitHleEvent"
    /\ k.async[t] => k.unanswered[t]

(***************************************************************************)
(* Whatever the other threads do, these come to an end: a wait or a sleep  *)
(* with a timeout, by ThreadWakeupCallback or a signal before it; and a    *)
(* request to an HLE service that answers at once or asynchronously, when  *)
(* the wakeup, which a host thread leaves in ts_queue, reaches the event   *)
(* queue and fires.                                                        *)
(***************************************************************************)
WaitsEnd ==
  \A t \in Threads :
    (\/ k.status[t] \in WaitingStatus /\ Scheduled(k.wakeup_events[t]) > 0
     \/ k.status[t] = "WaitIPC" /\ k.request[t] = Null
     \/ k.status[t] = "WaitHleEvent" /\ k.async[t])
      ~> k.status[t] \notin WaitingStatus
=============================================================================
