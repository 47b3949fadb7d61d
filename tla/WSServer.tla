------------------------------- MODULE WSServer -------------------------------
(***************************************************************************)
(* The threads of the WebSocket server and the life of its connections.    *)
(* accept_loop admits connections and erases the closed ones; each has a    *)
(* client_loop that reads and a send_loop that writes; main broadcasts and  *)
(* stops.  clients_mutex_ and each send_mutex are locks with an owner, for  *)
(* they are held across joins and while a peer is waited for.  The sockets  *)
(* have no timeouts: a peer that falls silent blocks whoever waits for it.  *)
(* What is sent is left out: at any time there may be a frame to send.      *)
(***************************************************************************)
EXTENDS Naturals, Sequences, SequencesExt

CONSTANTS Conns  \* connections; one that comes back is another one

VARIABLES
  running,       \* running_
  listening,     \* listen_fd_ is open
  clientsMutex,  \* clients_mutex_: "free" or its owner across steps
  clients,       \* clients_
  hadClients,    \* had_clients_
  active,        \* WSSClient::active
  sendRunning,   \* WSSClient::send_running
  sendMutex,     \* WSSClient::send_mutex: "free" or its owner
  ssl,           \* WSSClient::ssl: "none", "open" or "freed"
  loop,          \* where the client_loop of each connection is
  send,          \* where the send_loop of each connection is
  accept,        \* where accept_loop is
  newest,        \* its local raw: the connection being admitted
  main,          \* where main is
  silent,        \* connections whose peer will never answer the call it blocks
  cursor         \* position in clients_ of the thread that iterates over it

sessionVars == <<active, sendRunning, sendMutex, ssl, loop, send>>
listVars    == <<clients, hadClients, clientsMutex, cursor>>
flagVars    == <<running, listening>>
acceptVars  == <<accept, newest>>
serverVars  == <<listVars, flagVars, acceptVars, main, silent>>
vars        == <<sessionVars, serverVars>>

NoConn == "none"

AcceptPcs == {"top", "lock", "clean", "join_send", "join_loop", "callback", "select",
              "handshake", "push", "spawn_loop", "set_flag", "spawn_send", "exited", "crashed"}
LoopPcs   == {"none", "greet", "greeting", "loop", "lock_read", "reading", "leave",
              "clear_flag", "report", "done", "crashed"}
SendPcs   == {"none", "loop", "lock", "sending", "done"}
MainPcs   == {"serve", "lock_broadcast", "broadcast", "lock_one", "write_one", "stop",
              "unlisten", "join_threads", "lock_close", "close", "join_send", "join_loop",
              "stopped"}

\* After start().
Init ==
  /\ running = TRUE /\ listening = TRUE
  /\ clientsMutex = "free" /\ clients = <<>> /\ hadClients = FALSE /\ cursor = 1
  /\ active      = [c \in Conns |-> TRUE]
  /\ sendRunning = [c \in Conns |-> FALSE]
  /\ sendMutex   = [c \in Conns |-> "free"]
  /\ ssl         = [c \in Conns |-> "none"]
  /\ loop        = [c \in Conns |-> "none"]
  /\ send        = [c \in Conns |-> "none"]
  /\ accept = "top" /\ newest = NoConn
  /\ main = "serve" /\ silent = {}

AtCursor == clients[cursor]

LockClients(owner) == clientsMutex = "free" /\ clientsMutex' = owner /\ cursor' = 1

UnlockClients == clientsMutex' = "free" /\ cursor' = 1

Ended(pc) == pc \in {"none", "done"}

\* The process ends when a thread throws, or the checks of a build abort.
Crashed == accept = "crashed" \/ \E c \in Conns : loop[c] = "crashed"

\* Both threads of the client are joined and its SSL_shutdown is next.
ShuttingDown == (accept = "join_loop" \/ main = "join_loop") /\ Ended(loop[AtCursor])

\* The threads that are in a call of the TLS library that waits for the peer.
Users(c) ==
  {t \in {"accept", "loop", "send", "main", "closer"} :
     \/ t = "accept" /\ accept = "handshake" /\ newest = c
     \/ t = "loop"   /\ loop[c] \in {"greeting", "reading"}
     \/ t = "send"   /\ send[c] = "sending"
     \/ t = "main"   /\ main = "write_one" /\ AtCursor = c
     \/ t = "closer" /\ ShuttingDown /\ AtCursor = c}

\* The peer neither sends what is read nor takes what is written any more.
FallsSilent(c) ==
  /\ c \notin silent /\ Users(c) # {}
  /\ silent' = silent \union {c}
  /\ UNCHANGED <<sessionVars, listVars, flagVars, acceptVars, main>>

PeerAnswers(c) == c \notin silent
-----------------------------------------------------------------------------
(* accept_loop                                                             *)

AcceptTop ==
  /\ accept = "top"
  /\ accept' = IF running THEN "lock" ELSE "exited"
  /\ UNCHANGED <<sessionVars, listVars, flagVars, newest, main, silent>>

CleanLock ==
  /\ accept = "lock"
  /\ LockClients("accept")
  /\ accept' = "clean"
  /\ UNCHANGED <<sessionVars, clients, hadClients, flagVars, newest, main, silent>>

CleanVisit ==
  /\ accept = "clean"
  /\ cursor <= Len(clients)
  /\ \/ /\ active[AtCursor]
        /\ cursor' = cursor + 1
        /\ UNCHANGED <<accept, sendRunning>>
     \/ /\ ~active[AtCursor]
        /\ sendRunning' = [sendRunning EXCEPT ![AtCursor] = FALSE]
        /\ accept' = "join_send"
        /\ UNCHANGED cursor
  /\ UNCHANGED <<active, sendMutex, ssl, loop, send, clients, hadClients, clientsMutex,
                 flagVars, newest, main, silent>>

CleanJoinSend ==
  /\ accept = "join_send"
  /\ Ended(send[AtCursor])
  /\ accept' = "join_loop"
  /\ UNCHANGED <<sessionVars, listVars, flagVars, newest, main, silent>>

EraseWithoutJoin ==  \* mutant
  /\ accept = "join_loop"
  /\ PeerAnswers(AtCursor)
  /\ accept' = "clean"
  /\ ssl' = [ssl EXCEPT ![AtCursor] = "freed"]
  /\ clients' = RemoveAt(clients, cursor)
  /\ UNCHANGED <<active, sendRunning, sendMutex, loop, send, hadClients, clientsMutex, cursor,
                 flagVars, newest, main, silent>>

EraseAndSkip ==  \* mutant
  /\ accept = "join_loop"
  /\ ShuttingDown /\ PeerAnswers(AtCursor)
  /\ accept' = "clean"
  /\ ssl' = [ssl EXCEPT ![AtCursor] = "freed"]
  /\ clients' = RemoveAt(clients, cursor)
  /\ cursor' = cursor + 1
  /\ UNCHANGED <<active, sendRunning, sendMutex, loop, send, hadClients, clientsMutex,
                 flagVars, newest, main, silent>>

\* The second join; then the connection is shut down and freed and the client
\* erased.
CleanJoinLoopAndErase ==
  /\ accept = "join_loop"
  /\ ShuttingDown /\ PeerAnswers(AtCursor)
  /\ accept' = "clean"
  /\ ssl' = [ssl EXCEPT ![AtCursor] = "freed"]
  /\ clients' = RemoveAt(clients, cursor)
  /\ UNCHANGED <<active, sendRunning, sendMutex, loop, send, hadClients, clientsMutex, cursor,
                 flagVars, newest, main, silent>>

\* "Detect transition: had clients -> no clients."
CleanUnlock ==
  /\ accept = "clean"
  /\ cursor > Len(clients)
  /\ UnlockClients
  /\ IF hadClients /\ clients = <<>>
     THEN hadClients' = FALSE /\ accept' = "callback"
     ELSE accept' = "select" /\ UNCHANGED hadClients
  /\ UNCHANGED <<sessionVars, clients, flagVars, newest, main, silent>>

\* on_all_disconnected_ clears DataBuffer #2.
CleanCallback ==
  /\ accept = "callback"
  /\ accept' = "select"
  /\ UNCHANGED <<sessionVars, listVars, flagVars, newest, main, silent>>

\* Nothing within a second, a connection, or, once stop has set listen_fd_ to
\* -1, FD_SET of -1: undefined, ended by the checks of a fortified build.
AcceptSelect ==
  /\ accept = "select"
  /\ \/ accept' = "top" /\ UNCHANGED newest
     \/ /\ listening
        /\ \E c \in Conns : ssl[c] = "none" /\ newest' = c
        /\ accept' = "handshake"
     \/ ~listening /\ accept' = "crashed" /\ UNCHANGED newest
  /\ UNCHANGED <<sessionVars, listVars, flagVars, main, silent>>

\* SSL_accept and ws_handshake wait for the peer, who may try again if they fail.
AcceptHandshake ==
  /\ accept = "handshake"
  /\ PeerAnswers(newest)
  /\ \/ accept' = "push" /\ ssl' = [ssl EXCEPT ![newest] = "open"] /\ UNCHANGED newest
     \/ accept' = "top"  /\ newest' = NoConn /\ UNCHANGED ssl
  /\ UNCHANGED <<active, sendRunning, sendMutex, loop, send, listVars, flagVars, main, silent>>

AcceptPush ==
  /\ accept = "push"
  /\ clientsMutex = "free"
  /\ clients' = Append(clients, newest)
  /\ hadClients' = TRUE
  /\ accept' = "spawn_loop"
  /\ UNCHANGED <<sessionVars, clientsMutex, cursor, flagVars, newest, main, silent>>

\* The client_loop may end, and clear send_running, before it is set here.
AcceptSpawn ==
  /\ \/ /\ accept = "spawn_loop" /\ accept' = "set_flag"
        /\ loop' = [loop EXCEPT ![newest] = "greet"]
        /\ UNCHANGED <<sendRunning, send, newest>>
     \/ /\ accept = "set_flag" /\ accept' = "spawn_send"
        /\ sendRunning' = [sendRunning EXCEPT ![newest] = TRUE]
        /\ UNCHANGED <<loop, send, newest>>
     \/ /\ accept = "spawn_send" /\ accept' = "top" /\ newest' = NoConn
        /\ send' = [send EXCEPT ![newest] = "loop"]
        /\ UNCHANGED <<loop, sendRunning>>
  /\ UNCHANGED <<active, sendMutex, ssl, listVars, flagVars, main, silent>>

AcceptLoop ==
  \/ AcceptTop \/ CleanLock \/ CleanVisit \/ CleanJoinSend \/ CleanJoinLoopAndErase
  \/ CleanUnlock \/ CleanCallback
  \/ AcceptSelect \/ AcceptHandshake \/ AcceptPush \/ AcceptSpawn
-----------------------------------------------------------------------------
(* client_loop of connection c                                             *)

LoopGoto(c, from, to) == loop[c] = from /\ loop' = [loop EXCEPT ![c] = to]

\* {"status":"ready"}, sent under send_mutex.
LoopGreet(c) ==
  /\ \/ /\ LoopGoto(c, "greet", "greeting")
        /\ sendMutex[c] = "free"
        /\ sendMutex' = [sendMutex EXCEPT ![c] = "loop"]
     \/ /\ LoopGoto(c, "greeting", "loop")
        /\ PeerAnswers(c)
        /\ sendMutex' = [sendMutex EXCEPT ![c] = "free"]
  /\ UNCHANGED <<active, sendRunning, ssl, send>>

\* The condition of the loop, and select: while there is nothing to read for
\* 10 ms at a time nothing changes.
LoopHead(c) ==
  /\ IF running /\ active[c] THEN LoopGoto(c, "loop", "lock_read") ELSE LoopGoto(c, "loop", "leave")
  /\ UNCHANGED <<active, sendRunning, sendMutex, ssl, send>>

\* A frame is read under send_mutex.
LoopLock(c) ==
  /\ LoopGoto(c, "lock_read", "reading")
  /\ sendMutex[c] = "free"
  /\ sendMutex' = [sendMutex EXCEPT ![c] = "loop"]
  /\ UNCHANGED <<active, sendRunning, ssl, send>>

\* The rest of the frame arrives; or it is a close, or the connection is gone;
\* or memory for the length it announces is refused, which nothing catches.
LoopRead(c) ==
  /\ PeerAnswers(c)
  /\ \E next \in {"loop", "leave", "crashed"} : LoopGoto(c, "reading", next)
  /\ sendMutex' = [sendMutex EXCEPT ![c] = "free"]
  /\ UNCHANGED <<active, sendRunning, ssl, send>>

LeaveKeepingActive(c) ==  \* mutant
  /\ LoopGoto(c, "leave", "clear_flag")
  /\ UNCHANGED <<active, sendRunning, sendMutex, ssl, send>>

LoopLeave(c) ==
  /\ LoopGoto(c, "leave", "clear_flag")
  /\ active' = [active EXCEPT ![c] = FALSE]
  /\ UNCHANGED <<sendRunning, sendMutex, ssl, send>>

\* Whether a report is due depends on the count of the frames of all clients.
LoopClearFlag(c) ==
  /\ LoopGoto(c, "clear_flag", "report") \/ LoopGoto(c, "clear_flag", "done")
  /\ sendRunning' = [sendRunning EXCEPT ![c] = FALSE]
  /\ UNCHANGED <<active, sendMutex, ssl, send>>

\* Logs the number of clients, under clients_mutex_.
LoopReport(c) ==
  /\ LoopGoto(c, "report", "done")
  /\ clientsMutex = "free"
  /\ UNCHANGED <<active, sendRunning, sendMutex, ssl, send>>

ClientLoop(c) ==
  /\ \/ LoopGreet(c) \/ LoopHead(c) \/ LoopLock(c) \/ LoopRead(c)
     \/ LoopLeave(c) \/ LoopClearFlag(c) \/ LoopReport(c)
  /\ UNCHANGED serverVars
-----------------------------------------------------------------------------
(* send_loop of connection c                                               *)

SendGoto(c, from, to) == send[c] = from /\ send' = [send EXCEPT ![c] = to]

\* The condition of the loop, and the wait: while no frame is queued for
\* send_cv_timeout_ms_ at a time nothing changes.  Frames are queued by
\* client_loop after its greeting.
SendHead(c) ==
  /\ \/ ~(sendRunning[c] /\ active[c]) /\ SendGoto(c, "loop", "done")
     \/ /\ sendRunning[c] /\ active[c] /\ loop[c] \notin {"greet", "greeting"}
        /\ SendGoto(c, "loop", "lock")
  /\ UNCHANGED <<active, sendRunning, sendMutex, ssl, loop>>

\* A frame is sent under send_mutex.
SendLock(c) ==
  /\ SendGoto(c, "lock", "sending")
  /\ sendMutex[c] = "free"
  /\ sendMutex' = [sendMutex EXCEPT ![c] = "send"]
  /\ UNCHANGED <<active, sendRunning, ssl, loop>>

\* send_to_one: a failure ends the session.
SendFrame(c) ==
  /\ SendGoto(c, "sending", "loop")
  /\ PeerAnswers(c)
  /\ \/ UNCHANGED active
     \/ active' = [active EXCEPT ![c] = FALSE]
  /\ sendMutex' = [sendMutex EXCEPT ![c] = "free"]
  /\ UNCHANGED <<sendRunning, ssl, loop>>

SendLoop(c) ==
  /\ SendHead(c) \/ SendLock(c) \/ SendFrame(c)
  /\ UNCHANGED serverVars
-----------------------------------------------------------------------------
(* main: broadcast, then stop                                              *)

MainGoto(from, to) == main = from /\ main' = to

BroadcastRequested ==
  /\ MainGoto("serve", "lock_broadcast")
  /\ UNCHANGED <<sessionVars, listVars, flagVars, acceptVars, silent>>

BroadcastLock ==
  /\ MainGoto("lock_broadcast", "broadcast")
  /\ LockClients("main")
  /\ UNCHANGED <<sessionVars, clients, hadClients, flagVars, acceptVars, silent>>

\* An inactive client is skipped; the others are written to in turn, each
\* under its send_mutex, and all under clients_mutex_.
BroadcastVisit ==
  /\ cursor <= Len(clients)
  /\ \/ MainGoto("broadcast", "broadcast") /\ ~active[AtCursor] /\ cursor' = cursor + 1
     \/ MainGoto("broadcast", "lock_one")  /\ active[AtCursor]  /\ UNCHANGED cursor
  /\ UNCHANGED <<sessionVars, clients, hadClients, clientsMutex, flagVars, acceptVars, silent>>

BroadcastWrite ==
  /\ \/ /\ MainGoto("lock_one", "write_one")
        /\ sendMutex[AtCursor] = "free"
        /\ sendMutex' = [sendMutex EXCEPT ![AtCursor] = "main"]
        /\ UNCHANGED cursor
     \/ /\ MainGoto("write_one", "broadcast")
        /\ PeerAnswers(AtCursor)
        /\ sendMutex' = [sendMutex EXCEPT ![AtCursor] = "free"]
        /\ cursor' = cursor + 1
  /\ UNCHANGED <<active, sendRunning, ssl, loop, send, clients, hadClients, clientsMutex,
                 flagVars, acceptVars, silent>>

BroadcastUnlock ==
  /\ MainGoto("broadcast", "stop")
  /\ cursor > Len(clients)
  /\ UnlockClients
  /\ UNCHANGED <<sessionVars, clients, hadClients, flagVars, acceptVars, silent>>

StopUnlistenOnly ==  \* mutant
  /\ \/ MainGoto("stop", "unlisten")        /\ UNCHANGED listening
     \/ MainGoto("unlisten", "join_threads") /\ listening' = FALSE
  /\ UNCHANGED <<running, sessionVars, listVars, acceptVars, silent>>

StopFlags ==
  /\ \/ MainGoto("stop", "unlisten")        /\ running' = FALSE   /\ UNCHANGED listening
     \/ MainGoto("unlisten", "join_threads") /\ listening' = FALSE /\ UNCHANGED running
  /\ UNCHANGED <<sessionVars, listVars, acceptVars, silent>>

\* encode_loop never waits longer than encode_cv_timeout_ms_, so once running_
\* is clear it ends.
StopJoinThreads ==
  /\ MainGoto("join_threads", "lock_close")
  /\ accept = "exited"
  /\ ~running
  /\ UNCHANGED <<sessionVars, listVars, flagVars, acceptVars, silent>>

CloseLock ==
  /\ MainGoto("lock_close", "close")
  /\ LockClients("main")
  /\ UNCHANGED <<sessionVars, clients, hadClients, flagVars, acceptVars, silent>>

CloseVisit ==
  /\ MainGoto("close", "join_send")
  /\ cursor <= Len(clients)
  /\ active'      = [active EXCEPT ![AtCursor] = FALSE]
  /\ sendRunning' = [sendRunning EXCEPT ![AtCursor] = FALSE]
  /\ UNCHANGED <<sendMutex, ssl, loop, send, listVars, flagVars, acceptVars, silent>>

CloseJoinSend ==
  /\ MainGoto("join_send", "join_loop")
  /\ Ended(send[AtCursor])
  /\ UNCHANGED <<sessionVars, listVars, flagVars, acceptVars, silent>>

CloseJoinLoop ==
  /\ MainGoto("join_loop", "close")
  /\ ShuttingDown /\ PeerAnswers(AtCursor)
  /\ ssl' = [ssl EXCEPT ![AtCursor] = "freed"]
  /\ cursor' = cursor + 1
  /\ UNCHANGED <<active, sendRunning, sendMutex, loop, send, clients, hadClients, clientsMutex,
                 flagVars, acceptVars, silent>>

CloseUnlock ==
  /\ MainGoto("close", "stopped")
  /\ cursor > Len(clients)
  /\ clients' = <<>>
  /\ UnlockClients
  /\ UNCHANGED <<sessionVars, hadClients, flagVars, acceptVars, silent>>

MainStep ==
  \/ BroadcastLock \/ BroadcastVisit \/ BroadcastWrite \/ BroadcastUnlock
  \/ StopFlags \/ StopJoinThreads
  \/ CloseLock \/ CloseVisit \/ CloseJoinSend \/ CloseJoinLoop \/ CloseUnlock

\* Nothing happens after a crash.
Next ==
  /\ ~Crashed
  /\ \/ AcceptLoop
     \/ \E c \in Conns : ClientLoop(c) \/ SendLoop(c) \/ FallsSilent(c)
     \/ BroadcastRequested \/ MainStep

Spec == Init /\ [][Next]_vars

Alive(A) == ~Crashed /\ A

\* Each thread is scheduled, and main gets a mutex that it finds free again and
\* again; no thread need find a frame to read or to send.  Nothing is assumed
\* of the peers: nobody needs to connect, to send, to answer or to leave; nor
\* need the process be told to stop.
Fairness ==
  /\ WF_vars(Alive(AcceptLoop)) /\ SF_vars(Alive(MainStep))
  /\ \A c \in Conns : WF_vars(Alive(ClientLoop(c)) /\ loop'[c] # "lock_read")
                   /\ WF_vars(Alive(SendLoop(c)) /\ send'[c] # "lock")

FairSpec == Spec /\ Fairness
-----------------------------------------------------------------------------
(* Properties                                                              *)

\* The types; and whoever iterates over clients_ is at an element or the end.
TypeOK ==
  /\ running \in BOOLEAN /\ listening \in BOOLEAN /\ hadClients \in BOOLEAN
  /\ clientsMutex \in {"free", "accept", "main"}
  /\ clients \in Seq(Conns) /\ cursor \in Nat \ {0}
  /\ clientsMutex # "free" => cursor <= Len(clients) + 1
  /\ active \in [Conns -> BOOLEAN] /\ sendRunning \in [Conns -> BOOLEAN]
  /\ sendMutex \in [Conns -> {"free", "loop", "send", "main"}]
  /\ ssl \in [Conns -> {"none", "open", "freed"}]
  /\ loop \in [Conns -> LoopPcs] /\ send \in [Conns -> SendPcs]
  /\ accept \in AcceptPcs /\ newest \in Conns \union {NoConn}
  /\ main \in MainPcs /\ silent \subseteq Conns

ThreadsEndedWhenFreed ==
  \A c \in Conns : ssl[c] = "freed" => Ended(loop[c]) /\ Ended(send[c])

\* Whoever joins while holding clients_mutex_ joins a client that is listed and
\* has been told to end, and whose connection nobody has freed before.
JoinsOnlyClosing ==
  accept \in {"join_send", "join_loop"} \/ main \in {"join_send", "join_loop"} =>
    cursor <= Len(clients) /\ ~active[AtCursor] /\ ssl[AtCursor] = "open"

FreedLast == ThreadsEndedWhenFreed /\ JoinsOnlyClosing

\* An object of the TLS library must not be used by two threads at a time.
OneUserAtATime == \A c \in Conns : \A t, u \in Users(c) : t = u

\* The TLS session and the WSSClient of a connection are freed once, and when
\* neither of its threads is left that may use them, whoever closes the
\* connection and whenever its threads are started; and until then handshake,
\* greeting, reads, frames, broadcast and shutdown use it one after another.
SessionsUsedSafely == FreedLast /\ OneUserAtATime

\* What every step preserves.  clients_mutex_ is held across steps where
\* accept_loop or main iterates, and accept_loop has ended before main closes.
Iterating    == {"clean", "join_send", "join_loop"}
Broadcasting == {"broadcast", "lock_one", "write_one"}
Closing      == {"close", "join_send", "join_loop"}

MutexHeld ==
  /\ clientsMutex = "accept" <=> accept \in Iterating
  /\ clientsMutex = "main"   <=> main \in Closing \union Broadcasting

\* Each send_mutex is held by the thread that is in a call under it.
SendMutexHeld ==
  /\ main \in {"lock_one", "write_one"} => cursor <= Len(clients)
  /\ \A c \in Conns :
       /\ sendMutex[c] = "loop" <=> loop[c] \in {"greeting", "reading"}
       /\ sendMutex[c] = "send" <=> send[c] = "sending"
       /\ sendMutex[c] = "main" <=> main = "write_one" /\ AtCursor = c

AcceptEnded ==
  main \in {"lock_close", "stopped"} \union Closing => accept = "exited"

\* A connection is listed once, and open until the listing thread frees it; it
\* has no threads before its handshake, and gets them before it can be freed.
ListedOnce == \A i, j \in DOMAIN clients : clients[i] = clients[j] => i = j

ListedOpen ==
  \A i \in DOMAIN clients :
    ssl[clients[i]] = "open" \/ (ssl[clients[i]] = "freed" /\ main \in Closing /\ i < cursor)

NotStarted == \A c \in Conns : ssl[c] = "none" => loop[c] = "none" /\ send[c] = "none"

NewestOpen ==
  /\ accept \in {"handshake", "push", "spawn_loop", "set_flag", "spawn_send"} => newest \in Conns
  /\ accept = "handshake" => ssl[newest] = "none"
  /\ accept \in {"push", "spawn_loop", "set_flag", "spawn_send"} => ssl[newest] = "open"
  /\ accept = "push" => \A i \in DOMAIN clients : clients[i] # newest
  /\ accept \in {"push", "spawn_loop"} => loop[newest] = "none"
  /\ accept \in {"push", "spawn_loop", "set_flag", "spawn_send"} => send[newest] = "none"

SendEndedFirst == accept = "join_loop" \/ main = "join_loop" => Ended(send[AtCursor])

IndInv ==
  /\ TypeOK
  /\ MutexHeld /\ SendMutexHeld /\ AcceptEnded
  /\ ListedOnce /\ ListedOpen /\ NotStarted /\ NewestOpen
  /\ SendEndedFirst /\ FreedLast

\* The thread that joins c holds clients_mutex_, which c waits for.
Embrace ==
  \E c \in Conns :
    /\ loop[c] = "report"
    /\ cursor <= Len(clients) /\ AtCursor = c
    /\ accept = "join_loop" \/ main = "join_loop"

Hung == Crashed \/ Embrace

\* accept_loop or main waits, in vain, for a silent peer, or for a thread or a
\* send_mutex that such a peer holds.
HeldBySilentPeer ==
  \/ accept = "handshake" /\ newest \in silent
  \/ /\ accept \in {"join_send", "join_loop"}
        \/ main \in {"lock_one", "write_one", "join_send", "join_loop"}
     /\ AtCursor \in silent

\* A closed connection is erased, whatever the peers do, unless the process
\* ends, a client_loop makes its report while it is being joined, or a peer is
\* silent in its handshake, in the broadcast to it, or on the connection being
\* erased.  Silence on any other connection keeps nobody from being erased.
ClosedConnsErasedUnlessHung ==
  \A c \in Conns : loop[c] = "done" ~> (~Contains(clients, c) \/ Hung \/ HeldBySilentPeer)

\* main gets through its broadcast and stop, and joins every thread, whatever
\* the peers do, with the same exceptions.
StopReturns == main = "lock_broadcast" ~> (main = "stopped" \/ Hung \/ HeldBySilentPeer)

\* "Client disconnected (cleanup deferred to accept_loop)": accept_loop cleans
\* up, unless a silent peer holds it or the process ends.  It may not:
\* client_loop takes clients_mutex_ after it has cleared active, while
\* accept_loop holds it and joins that very client_loop.
DisconnectedErased ==
  \A c \in Conns :
    loop[c] = "clear_flag" ~>
      (~Contains(clients, c) \/ main # "serve" \/ Crashed \/ HeldBySilentPeer)
===============================================================================
