---------------------------- MODULE ControlDispatch ----------------------------
(***************************************************************************)
(* The path of a control request through the process: the accept thread,   *)
(* one thread per client connection, the bounded queue they share with the *)
(* GTK main loop, the wake-up that makes the main loop drain that queue,   *)
(* and the shutdown that stops it all.                                     *)
(*                                                                         *)
(*   rust/model/src/control_socket.rs  accept_loop, serve_client, Drop     *)
(*   rust/app/src/control.rs           install_control_server              *)
(*   rust/app/src/terminal.rs          Terminal::shutdown                  *)
(*                                                                         *)
(* A client is one connection that sends one frame.  Whatever the request  *)
(* asks for, the dispatch runs it on the main loop in one piece, so a call *)
(* is only "carried out" here; what calls do is the subject of other       *)
(* modules.  Deadlines are not measured: a timer may fire at any moment it *)
(* is armed.  The contents of the event history are reduced to how many    *)
(* events name the client (EventHistory models the ring itself).           *)
(***************************************************************************)
EXTENDS Naturals, Sequences, FiniteSets

CONSTANTS
  Clients,              \* the connections
  MaxClients,           \* CONTROL_MAX_CLIENTS (32 in the code)
  MaxQueue              \* bound of the dispatch queue (128 in the code)

ASSUME ClientsAssumption == IsFiniteSet(Clients)
ASSUME BoundsAssumption == MaxClients \in Nat \ {0} /\ MaxQueue \in Nat \ {0}

VARIABLES
  pc,                   \* pc[c]: where connection c stands
  answer,               \* answer[c]: the response written (or about to be) to c
  recorded,             \* recorded[c]: events in the history that name c
  acceptor,             \* the accept thread: "accept", "drain" or "exited"
  active,               \* active_clients
  stop,                 \* ControlServer.stop
  queue,                \* the shared dispatch queue
  wakePending,          \* wake_pending
  wakes,                \* closures invoke() has put on the main context
  host,                 \* the main loop
  installed,            \* CONTROL_WAKE is Some
  batch,                \* calls drained and not yet answered, oldest first
  replied,              \* clients whose response channel holds a response
  carriedOut            \* history: calls dispatched, in order

clientVars == <<pc, answer, recorded>>
serverVars == <<acceptor, active, stop>>
wakeVars   == <<queue, wakePending, wakes>>
hostVars   == <<host, installed, batch, replied, carriedOut>>
vars == <<clientVars, serverVars, wakeVars, hostVars>>

(***************************************************************************)
(* "idle"      not connected                                               *)
(* "backlog"   connected, not yet accepted                                 *)
(* "draining"  over the client limit: the accept thread discards its frame *)
(* "reading"   its thread reads the frame                                  *)
(* "decoded"   a valid request, about to take the queue lock               *)
(* "pushed"    queued, before wake_pending.swap(true)                      *)
(* "invoking"  won the swap, before MainContext::invoke                    *)
(* "waiting"   in recv_timeout                                             *)
(* "answered"  has its response, about to write it                         *)
(* "done"      the connection is over                                      *)
(***************************************************************************)
Serving == {"reading", "decoded", "pushed", "invoking", "waiting", "answered"}
Places  == {"idle", "backlog", "draining", "done"} \union Serving

Refusals == {"busy", "limit", "rejected", "dropped"}
Answers  == {"none", "reply", "timeout"} \union Refusals

InSeq(c, s) == \E i \in DOMAIN s : s[i] = c

Init ==
  /\ pc = [c \in Clients |-> "idle"]
  /\ answer = [c \in Clients |-> "none"]
  /\ recorded = [c \in Clients |-> 0]
  /\ acceptor = "accept"
  /\ active = 0
  /\ stop = FALSE
  /\ queue = << >>
  /\ wakePending = FALSE
  /\ wakes = 0
  /\ host = "idle"
  /\ installed = TRUE
  /\ batch = << >>
  /\ replied = {}
  /\ carriedOut = << >>

--------------------------------------------------------------------------------
(* Mistakes the actions below avoid.  They are no part of the model: each  *)
(* one stands in for the action it names, to show which property notices.  *)

\* AcceptClient compares the old count with > instead of >=.
AcceptOneTooMany(c) ==
  /\ acceptor = "accept" /\ ~ stop /\ pc[c] = "backlog" /\ active <= MaxClients
  /\ active' = active + 1
  /\ pc' = [pc EXCEPT ![c] = "reading"]
  /\ UNCHANGED <<answer, recorded, acceptor, stop, wakeVars, hostVars>>

\* RefuseQueueFull tests the length after the push.
RefuseAfterPush(c) ==
  /\ pc[c] = "decoded" /\ Len(queue) >= MaxQueue
  /\ queue' = Append(queue, c)
  /\ pc' = [pc EXCEPT ![c] = "answered"]
  /\ answer' = [answer EXCEPT ![c] = "busy"]
  /\ recorded' = [recorded EXCEPT ![c] = @ + 1]
  /\ UNCHANGED <<serverVars, wakePending, wakes, hostVars>>

\* TimeOut leaves no event.
TimeOutUnrecorded(c) ==
  /\ pc[c] = "waiting" /\ c \notin replied
  /\ pc' = [pc EXCEPT ![c] = "answered"]
  /\ answer' = [answer EXCEPT ![c] = "timeout"]
  /\ UNCHANGED <<recorded, serverVars, wakeVars, hostVars>>

\* RunWake does not clear the flag.
RunWakeKeepsFlag ==
  /\ host = "idle" /\ wakes > 0 /\ wakes' = wakes - 1
  /\ host' = IF installed THEN "woken" ELSE host
  /\ UNCHANGED <<clientVars, serverVars, queue, wakePending, installed, batch, replied, carriedOut>>

\* DrainQueue takes one call for each wake-up.
DrainOneCall ==
  /\ host = "woken"
  /\ batch' = SubSeq(queue, 1, 1)
  /\ queue' = SubSeq(queue, 2, Len(queue))
  /\ host' = "dispatching"
  /\ UNCHANGED <<clientVars, serverVars, wakePending, wakes, installed, replied, carriedOut>>

\* DispatchCall takes the newest call.
DispatchNewest ==
  /\ host = "dispatching" /\ batch # << >>
  /\ carriedOut' = Append(carriedOut, batch[Len(batch)])
  /\ recorded' = [recorded EXCEPT ![batch[Len(batch)]] = @ + 1]
  /\ host' = "replying"
  /\ UNCHANGED <<pc, answer, serverVars, wakeVars, installed, batch, replied>>

\* Shutdown joins the accept thread without telling it to stop.
ShutdownWithoutStop ==
  /\ host = "idle" /\ installed
  /\ installed' = FALSE
  /\ host' = "joining"
  /\ UNCHANGED <<clientVars, serverVars, wakeVars, batch, replied, carriedOut>>

--------------------------------------------------------------------------------
(* The accept thread. *)

Connect(c) ==
  /\ pc[c] = "idle"
  /\ acceptor # "exited"
  /\ pc' = [pc EXCEPT ![c] = "backlog"]
  /\ UNCHANGED <<answer, recorded, serverVars, wakeVars, hostVars>>

\* Below the limit: count the client and start its thread.
AcceptClient(c) ==
  /\ acceptor = "accept" /\ ~ stop
  /\ pc[c] = "backlog"
  /\ active < MaxClients
  /\ active' = active + 1
  /\ pc' = [pc EXCEPT ![c] = "reading"]
  /\ UNCHANGED <<answer, recorded, acceptor, stop, wakeVars, hostVars>>

\* The thread could not be started: its closure, and the stream in it, are dropped.
SpawnFails(c) ==
  /\ acceptor = "accept" /\ ~ stop
  /\ pc[c] = "backlog"
  /\ active < MaxClients
  /\ pc' = [pc EXCEPT ![c] = "done"]
  /\ answer' = [answer EXCEPT ![c] = "dropped"]
  /\ UNCHANGED <<recorded, serverVars, wakeVars, hostVars>>

\* At the limit: undo the count, record the refusal, discard the frame.
AcceptOverLimit(c) ==
  /\ acceptor = "accept" /\ ~ stop
  /\ pc[c] = "backlog"
  /\ active >= MaxClients
  /\ recorded' = [recorded EXCEPT ![c] = @ + 1]
  /\ pc' = [pc EXCEPT ![c] = "draining"]
  /\ acceptor' = "drain"
  /\ UNCHANGED <<answer, active, stop, wakeVars, hostVars>>

DrainBusy(c) ==
  /\ acceptor = "drain"
  /\ pc[c] = "draining"
  /\ answer' = [answer EXCEPT ![c] = "limit"]
  /\ pc' = [pc EXCEPT ![c] = "done"]
  /\ acceptor' = "accept"
  /\ UNCHANGED <<recorded, active, stop, wakeVars, hostVars>>

\* The loop ends when it sees the stop flag, or on any accept error other than
\* WouldBlock and Interrupted.  The listener closes with the connections it holds.
AcceptLoopExits ==
  /\ acceptor = "accept"
  /\ acceptor' = "exited"
  /\ answer' = [c \in Clients |-> IF pc[c] = "backlog" THEN "dropped" ELSE answer[c]]
  /\ pc' = [c \in Clients |-> IF pc[c] = "backlog" THEN "done" ELSE pc[c]]
  /\ UNCHANGED <<recorded, active, stop, wakeVars, hostVars>>

AcceptStops == stop /\ AcceptLoopExits

AcceptError == ~ stop /\ AcceptLoopExits

--------------------------------------------------------------------------------
(* A client thread. *)

ReadRequest(c) ==
  /\ pc[c] = "reading"
  /\ pc' = [pc EXCEPT ![c] = "decoded"]
  /\ UNCHANGED <<answer, recorded, serverVars, wakeVars, hostVars>>

\* Wrong peer, bad or late frame, undecodable request.
RejectFrame(c) ==
  /\ pc[c] = "reading"
  /\ pc' = [pc EXCEPT ![c] = "answered"]
  /\ answer' = [answer EXCEPT ![c] = "rejected"]
  /\ recorded' = [recorded EXCEPT ![c] = @ + 1]
  /\ UNCHANGED <<serverVars, wakeVars, hostVars>>

Enqueue(c) ==
  /\ pc[c] = "decoded"
  /\ Len(queue) < MaxQueue
  /\ queue' = Append(queue, c)
  /\ pc' = [pc EXCEPT ![c] = "pushed"]
  /\ UNCHANGED <<answer, recorded, serverVars, wakePending, wakes, hostVars>>

RefuseQueueFull(c) ==
  /\ pc[c] = "decoded"
  /\ Len(queue) >= MaxQueue
  /\ pc' = [pc EXCEPT ![c] = "answered"]
  /\ answer' = [answer EXCEPT ![c] = "busy"]
  /\ recorded' = [recorded EXCEPT ![c] = @ + 1]
  /\ UNCHANGED <<serverVars, wakeVars, hostVars>>

\* wake_pending.swap(true): only the thread that finds it false invokes.
SwapWakePending(c) ==
  /\ pc[c] = "pushed"
  /\ wakePending' = TRUE
  /\ pc' = [pc EXCEPT ![c] = IF wakePending THEN "waiting" ELSE "invoking"]
  /\ UNCHANGED <<answer, recorded, serverVars, queue, wakes, hostVars>>

Invoke(c) ==
  /\ pc[c] = "invoking"
  /\ wakes' = wakes + 1
  /\ pc' = [pc EXCEPT ![c] = "waiting"]
  /\ UNCHANGED <<answer, recorded, serverVars, queue, wakePending, hostVars>>

Receive(c) ==
  /\ pc[c] = "waiting"
  /\ c \in replied
  /\ pc' = [pc EXCEPT ![c] = "answered"]
  /\ answer' = [answer EXCEPT ![c] = "reply"]
  /\ UNCHANGED <<recorded, serverVars, wakeVars, hostVars>>

\* recv_timeout expires with the channel still empty; the call stays queued.
TimeOut(c) ==
  /\ pc[c] = "waiting"
  /\ c \notin replied
  /\ pc' = [pc EXCEPT ![c] = "answered"]
  /\ answer' = [answer EXCEPT ![c] = "timeout"]
  /\ recorded' = [recorded EXCEPT ![c] = @ + 1]
  /\ UNCHANGED <<serverVars, wakeVars, hostVars>>

\* The response is written (or the write fails), then the slot is given back.
Finish(c) ==
  /\ pc[c] = "answered"
  /\ pc' = [pc EXCEPT ![c] = "done"]
  /\ active' = active - 1
  /\ UNCHANGED <<answer, recorded, acceptor, stop, wakeVars, hostVars>>

--------------------------------------------------------------------------------
(* The main loop.                                                          *)
(*   "idle"         between sources                                        *)
(*   "woken"        in the dispatch closure, flag cleared, queue not yet   *)
(*                  locked                                                 *)
(*   "dispatching"  working through the drained batch                      *)
(*   "replying"     Head(batch) carried out and recorded, response not yet *)
(*                  sent                                                   *)
(*   "joining"      in Drop for ControlServer                              *)
(*   "stopped"      the window is gone                                     *)
(* The closure's early return when the terminal is gone is not a step: it  *)
(* is reached only after shutdown, which takes the closure out first.      *)

RunWake ==
  /\ host = "idle"
  /\ wakes > 0
  /\ wakes' = wakes - 1
  /\ IF installed
     THEN wakePending' = FALSE /\ host' = "woken"
     ELSE UNCHANGED <<wakePending, host>>
  /\ UNCHANGED <<clientVars, serverVars, queue, installed, batch, replied, carriedOut>>

DrainQueue ==
  /\ host = "woken"
  /\ batch' = queue
  /\ queue' = << >>
  /\ host' = "dispatching"
  /\ UNCHANGED <<clientVars, serverVars, wakePending, wakes, installed, replied, carriedOut>>

\* dispatch_control_request and the event it leaves.
DispatchCall ==
  /\ host = "dispatching"
  /\ batch # << >>
  /\ carriedOut' = Append(carriedOut, Head(batch))
  /\ recorded' = [recorded EXCEPT ![Head(batch)] = @ + 1]
  /\ host' = "replying"
  /\ UNCHANGED <<pc, answer, serverVars, wakeVars, installed, batch, replied>>

\* The channel holds one response; a receiver that timed out is gone and the
\* send fails, which nobody looks at.
SendReply ==
  /\ host = "replying"
  /\ replied' = replied \union {Head(batch)}
  /\ batch' = Tail(batch)
  /\ host' = "dispatching"
  /\ UNCHANGED <<clientVars, serverVars, wakeVars, installed, carriedOut>>

EndBatch ==
  /\ host = "dispatching"
  /\ batch = << >>
  /\ host' = "idle"
  /\ UNCHANGED <<clientVars, serverVars, wakeVars, installed, batch, replied, carriedOut>>

\* Terminal::shutdown: take the closure, then drop the server (stop flag, join).
Shutdown ==
  /\ host = "idle"
  /\ installed
  /\ installed' = FALSE
  /\ stop' = TRUE
  /\ host' = "joining"
  /\ UNCHANGED <<clientVars, acceptor, active, wakeVars, batch, replied, carriedOut>>

JoinAcceptThread ==
  /\ host = "joining"
  /\ acceptor = "exited"
  /\ host' = "stopped"
  /\ UNCHANGED <<clientVars, serverVars, wakeVars, installed, batch, replied, carriedOut>>

--------------------------------------------------------------------------------
AcceptThread ==
  \/ AcceptStops
  \/ \E c \in Clients : AcceptClient(c) \/ AcceptOverLimit(c) \/ DrainBusy(c)

ClientThread(c) ==
  \/ ReadRequest(c) \/ RejectFrame(c)
  \/ Enqueue(c) \/ RefuseQueueFull(c)
  \/ SwapWakePending(c) \/ Invoke(c)
  \/ Receive(c) \/ TimeOut(c)
  \/ Finish(c)

MainLoop ==
  \/ RunWake \/ DrainQueue \/ DispatchCall \/ SendReply \/ EndBatch
  \/ JoinAcceptThread

Environment ==
  \/ AcceptError \/ Shutdown
  \/ \E c \in Clients : Connect(c) \/ SpawnFails(c)

Next ==
  \/ AcceptThread
  \/ MainLoop
  \/ Environment
  \/ \E c \in Clients : ClientThread(c)

Spec == Init /\ [][Next]_vars

(***************************************************************************)
(* The kernel runs every runnable thread, and the threads poll or hold a   *)
(* timer wherever they wait (accept every 10 ms, reads and recv_timeout    *)
(* with deadlines).  Nobody is obliged to connect, to quit, or to make     *)
(* accept fail.                                                            *)
(***************************************************************************)
Fairness ==
  /\ WF_vars(AcceptThread)
  /\ WF_vars(MainLoop)
  /\ \A c \in Clients : WF_vars(ClientThread(c))

FairSpec == Spec /\ Fairness

--------------------------------------------------------------------------------
(* Safety *)

\* The shape of the state.
TypeOK ==
  /\ pc \in [Clients -> Places]
  /\ answer \in [Clients -> Answers]
  /\ recorded \in [Clients -> Nat]
  /\ acceptor \in {"accept", "drain", "exited"}
  /\ active \in Nat
  /\ stop \in BOOLEAN
  /\ queue \in Seq(Clients)
  /\ wakePending \in BOOLEAN
  /\ wakes \in Nat
  /\ host \in {"idle", "woken", "dispatching", "replying", "joining", "stopped"}
  /\ installed \in BOOLEAN
  /\ batch \in Seq(Clients)
  /\ replied \subseteq Clients
  /\ carriedOut \in Seq(Clients)

\* While the dispatch closure is installed a queued call always has a wake-up on
\* its way: one the main loop holds or is running, or a client thread that has
\* still to swap the flag or to invoke.  (The flag is cleared before the queue is
\* drained, and set after the push.)
NoLostWake ==
  installed /\ queue # << >> =>
    \/ wakes > 0
    \/ host = "woken"
    \/ \E c \in Clients : pc[c] \in {"pushed", "invoking"}

\* wake_pending keeps the burst of clients down to one closure on the main context,
\* and two threads never invoke at the same time.
OneWake ==
  /\ wakes <= 1
  /\ \A c \in Clients :
       pc[c] = "invoking" =>
         wakes = 0 /\ \A d \in Clients : pc[d] = "invoking" => d = c

\* active_clients counts exactly the client threads that still hold a slot, on every
\* path through serve_client, and never passes the limit.
SlotsCounted ==
  /\ active = Cardinality({c \in Clients : pc[c] \in Serving})
  /\ active <= MaxClients

\* Accepted calls still to be carried out, and all accepted calls, oldest first.
Pending == (IF host = "replying" THEN Tail(batch) ELSE batch) \o queue
Calls == carriedOut \o Pending

\* No call is queued or carried out twice, whatever happens to its client meanwhile.
AtMostOnce ==
  \A i, j \in DOMAIN Calls : Calls[i] = Calls[j] => i = j

\* A refusal is final: no call answered with one was ever queued, and a result is
\* only reported for a call that was carried out.
AnswersMatch ==
  \A c \in Clients :
    /\ answer[c] \in Refusals => ~ InSeq(c, Calls)
    /\ answer[c] = "reply" => InSeq(c, carriedOut)

\* The history names every connection that got an answer, and names it once unless
\* the call was answered "timeout" (then it is named again if it is carried out).
Audited ==
  \A c \in Clients :
    /\ answer[c] \notin {"none", "dropped"} => recorded[c] >= 1
    /\ answer[c] # "timeout" => recorded[c] <= 1
    /\ recorded[c] <= 2

--------------------------------------------------------------------------------
(* Liveness *)

\* A queued call is carried out even if nobody else ever calls again and even when
\* its client has given up, unless the application shuts down first.
QueuedIsCarriedOut ==
  \A c \in Clients : InSeq(c, queue) ~> (InSeq(c, carriedOut) \/ ~ installed)

\* The join in Drop for ControlServer returns, whatever the clients are doing.
ShutdownCompletes == (host = "joining") ~> (host = "stopped")

--------------------------------------------------------------------------------
(* What the callers are promised. *)

Service == INSTANCE CallService WITH pending <- Pending

\* Every behaviour of the threads is a behaviour of CallService.
ServiceSpec == Service!Spec

================================================================================
