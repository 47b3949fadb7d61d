------------------------------ MODULE Shutdown ------------------------------
(***************************************************************************)
(* The service from its first request to the end of main: the two API      *)
(* servers, whose workers call the SDKSlotManager, the dealers it starts,  *)
(* the ZMQ context whose sockets the dealers open, and main, which stops   *)
(* the dealers before it stops the servers that start them.                *)
(*                                                                         *)
(* The WebSocket server and the publisher are stopped first and share no   *)
(* state with what follows: WSServer and DataPublisher say when that       *)
(* returns.  ClientHandler says which requests reach the slot manager.     *)
(***************************************************************************)
EXTENDS SDKSlotManager, Sequences

CONSTANTS
  Servers, Conns, Server, MayFail,  \* as in AdminServer; the workers are Callers
  StopOrder                         \* the order in which main stops the servers

VARIABLES
  up, acceptor, pending, worker, conn, stopPc,  \* as in AdminServer
  phase,     \* what main is at
  ctx        \* the shared ZMQ context

API == INSTANCE AdminServer WITH Workers <- Callers

ASSUME ServiceAssumption ==
  /\ API!ServerAssumption
  /\ \A s \in Servers : \E i \in DOMAIN StopOrder : StopOrder[i] = s

serverVars  == <<up, acceptor, pending, worker, conn, stopPc>>
serviceVars == <<managerVars, serverVars, phase, ctx>>

Phases == {"serve", "stop_all", "ctx", "api", "destructors", "exited", "terminated"}

ServiceInit ==
  /\ Init
  /\ API!Init
  /\ phase     = "serve"
  /\ ctx       = "open"

Alive == phase \notin {"exited", "terminated"}
-----------------------------------------------------------------------------
(* Requests                                                                *)

Start(w) ==
  /\ \E c \in Cameras, T \in (SUBSET Types) \ {{}} : StartCapture(w, c, T)
  /\ UNCHANGED phase

Stop(w) ==
  /\ \E c \in Cameras, T \in (SUBSET Types) \ {{}} : StopCapture(w, c, T)
  /\ UNCHANGED phase

\* The other commands change nothing here.
OtherCommand == UNCHANGED <<managerVars, phase>>

\* An exception of route leaves worker_loop: a parameter request without a
\* JSON body throws, and nothing catches it.
RouteThrows ==
  /\ phase' = "terminated"
  /\ UNCHANGED managerVars

HandleRequest(w) ==
  /\ API!ReadRequest(w)
  /\ Start(w) \/ Stop(w) \/ OtherCommand \/ RouteThrows
  /\ UNCHANGED ctx

\* A stop is answered once its join has returned.
Answer(w) == joining[w] = {} /\ API!Answer(w)

ServerStep ==
  /\ \/ \E s \in Servers : API!AcceptThread(s)
     \/ \E w \in Callers : API!WorkerLoop(w) \/ Answer(w) \/ API!PeerGone(w)
     \/ \E c \in Conns : API!FallsSilent(c)
  /\ UNCHANGED <<managerVars, phase, ctx>>
-----------------------------------------------------------------------------
(* Dealers and their ZMQ context                                           *)

\* The dealers that have sockets of the context open.
OpenSockets == {d \in Dealers : dealerPc[d] \notin {"none", "setup", "done"}}

\* Once zmq_ctx_destroy has been called a new socket is NULL, so a dealer
\* finds no endpoint, and zmq_poll reports nothing any more.
DealerInContext(d) ==
  /\ Dealer(d)
  /\ ctx # "open" => /\ dealerPc[d] = "setup" => dealerPc'[d] = "done"
                     /\ dealerPc[d] = "poll"  => dealerReady'[d] = {}
  /\ UNCHANGED phase

\* zmq_socket on a context that was freed is undefined.
DealerCrash(d) ==
  /\ ctx = "destroyed" /\ dealerPc[d] = "setup"
  /\ phase' = "terminated"
  /\ UNCHANGED managerVars

DealerThread(d) ==
  /\ DealerInContext(d) \/ DealerCrash(d)
  /\ UNCHANGED <<serverVars, ctx>>

Join(w, d) ==
  /\ JoinDealer(w, d)
  /\ UNCHANGED <<serverVars, phase, ctx>>
-----------------------------------------------------------------------------
(* main, from the signal on                                                *)

\* g_running is cleared by SIGINT or SIGTERM.
Signal ==
  /\ phase = "serve"
  /\ phase' = "stop_all"
  /\ UNCHANGED <<managerVars, serverVars, ctx>>

MainStopAll ==
  /\ phase \in {"stop_all", "destructors"}
  /\ StopAll
  /\ UNCHANGED <<serverVars, phase, ctx>>

TerminateContextFirst ==  \* mutant
  /\ phase = "stop_all" /\ mainPc = "run"
  /\ ctx'   = "terminating"
  /\ phase' = "ctx"
  /\ UNCHANGED <<managerVars, serverVars>>

TerminateContext ==
  /\ phase = "stop_all" /\ mainPc = "stopped"
  /\ ctx'   = "terminating"
  /\ phase' = "ctx"
  /\ UNCHANGED <<managerVars, serverVars>>

\* zmq_ctx_destroy returns when every socket is closed; config_mgr->sync().
DestroyContext ==
  /\ phase = "ctx" /\ OpenSockets = {}
  /\ ctx'   = "destroyed"
  /\ phase' = "api"
  /\ UNCHANGED <<managerVars, serverVars>>

IsNext(s) ==
  \E i \in DOMAIN StopOrder :
    /\ StopOrder[i] = s
    /\ \A j \in 1..(i - 1) : stopPc[StopOrder[j]] = "stopped"

StopServers ==
  /\ phase = "api"
  /\ \E s \in Servers : IsNext(s) /\ API!Stop(s)
  /\ UNCHANGED <<managerVars, phase, ctx>>

DestructorsSkipped ==  \* mutant
  /\ phase = "api"
  /\ \A s \in Servers : stopPc[s] = "stopped"
  /\ phase' = "exited"
  /\ UNCHANGED <<managerVars, serverVars, ctx>>

\* main returns: the destructor of the slot manager calls stop_all again.
Destructors ==
  /\ phase = "api"
  /\ \A s \in Servers : stopPc[s] = "stopped"
  /\ phase'  = "destructors"
  /\ mainPc' = "run"
  /\ UNCHANGED <<running, slotVars, bufferSlots, sdkStreaming, dealerVars, joining,
                 serverVars, ctx>>

Exit ==
  /\ phase = "destructors" /\ mainPc = "stopped"
  /\ phase' = "exited"
  /\ UNCHANGED <<managerVars, serverVars, ctx>>

Shut ==
  \/ MainStopAll
  \/ TerminateContext \/ DestroyContext
  \/ StopServers
  \/ Destructors \/ Exit
-----------------------------------------------------------------------------
ServiceNext ==
  /\ Alive
  /\ \/ \E w \in Callers : HandleRequest(w)
     \/ ServerStep
     \/ \E d \in Dealers : DealerThread(d)
     \/ \E w \in Threads, d \in Dealers : Join(w, d)
     \/ Signal
     \/ Shut

Live(A) == Alive /\ A

\* A peer that is not silent gets on with its handshake or its request.
Handshake(c) ==
  conn[c] = "handshake" /\ (API!HandshakeDone(c) \/ API!HandshakeFailed(c) \/ API!FallsSilent(c))

Request(w) ==
  /\ worker[w] \in Conns /\ conn[worker[w]] = "reading"
  /\ HandleRequest(w) \/ (API!PeerGone(w) /\ ServerStep)

\* Every thread is scheduled.  Nobody is obliged to send a request or the
\* signal, and a silent peer may stay silent.
ServiceFairness ==
  /\ \A c \in Conns   : WF_serviceVars(Live(Handshake(c) /\ ServerStep))
  /\ \A s \in Servers : WF_serviceVars(Live(API!AcceptEnds(s) /\ ServerStep))
  /\ \A w \in Callers : /\ WF_serviceVars(Live(API!WorkerLoop(w) /\ ServerStep))
                        /\ WF_serviceVars(Live(Request(w)))
                        /\ WF_serviceVars(Live(Answer(w) /\ ServerStep))
  /\ \A d \in Dealers : WF_serviceVars(Live(DealerThread(d)))
  /\ \A w \in Threads, d \in Dealers : WF_serviceVars(Live(Join(w, d)))
  /\ WF_serviceVars(Live(Shut))

ServiceSpec == ServiceInit /\ [][ServiceNext]_serviceVars /\ ServiceFairness
-----------------------------------------------------------------------------
(* Properties                                                              *)

\* The types, also of the parts.
ServiceTypeOK ==
  /\ TypeOK
  /\ API!TypeOK
  /\ phase \in Phases
  /\ ctx \in {"open", "terminating", "destroyed"}

\* An open connection is with one thread or in the queue, once: it is answered
\* and freed once.
ConnsHaveOneOwner == API!ConnsHaveOneOwner

\* When main has returned no thread of the service is left that would use the
\* objects it destroyed, whatever was served during the shutdown.
ExitLeavesNothing ==
  phase = "exited" =>
    /\ \A d \in Dealers : dealerPc[d] = "none"
    /\ \A c \in Cameras : ~capturing[c]
    /\ \A w \in Callers : worker[w] = "none" /\ joining[w] = {}
    /\ \A s \in Servers : acceptor[s] = "none"

\* What every step preserves.  A worker that joins a dealer is in a request;
\* main is past stop_all, and has joined what it took; from the destructors
\* on the servers are stopped, and nobody starts a capture any more.
JoinersAnswer ==
  \A w \in Callers : joining[w] # {} => worker[w] \in Conns /\ conn[worker[w]] = "answering"

MainJoined == mainPc = "stopped" => joining[Main] = {}

ServersStopped ==
  phase \in {"destructors", "exited"} => \A s \in Servers : stopPc[s] = "stopped"

NothingStarted ==
  /\ phase \in {"ctx", "api", "exited"} => mainPc = "stopped"
  /\ phase \in {"destructors", "exited"} /\ mainPc \in {"join", "stopped"} => CapturingSlots = {}

ServiceInv ==
  /\ IndInv
  /\ API!IndInv
  /\ phase \in Phases /\ ctx \in {"open", "terminating", "destroyed"}
  /\ JoinersAnswer
  /\ MainJoined
  /\ ServersStopped
  /\ NothingStarted

Silent == \E c \in Conns : conn[c] = "silent"

\* A stop whose dealer was revived by a later start.
StopHangs == \E w \in Callers : \E d \in joining[w] : capturing[dealerCam[d]]


\* Main has told the dealers to stop, and waits for one that was started, or
\* revived, by a start_capture served after that.
CapturingAgain ==
  phase \in {"stop_all", "ctx"} /\ mainPc \in {"join", "stopped"} /\ CapturingSlots # {}

\* The configuration is synced on shutdown, also with silent peers, unless a
\* start_capture served after stop_all has taken the dealers leaves one whose
\* end, or whose sockets, main waits for.
ConfigSynced ==
  (phase = "stop_all") ~> (phase \in {"api", "terminated"} \/ CapturingAgain)

\* The shutdown ends, unless it is held up so or a silent peer holds a thread
\* that is joined.
ShutdownReturns ==
  (phase = "stop_all") ~> (~Alive \/ CapturingAgain \/ Silent)
=============================================================================
