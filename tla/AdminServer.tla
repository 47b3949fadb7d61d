----------------------------- MODULE AdminServer -----------------------------
(***************************************************************************)
(* AdminServer answers HTTPS requests: an accept thread performs the TLS   *)
(* handshakes and queues the connections, and a pool of workers takes them *)
(* from the queue, one request each.  The process runs one server for      *)
(* API 2 and one for API 3; their variables are functions of the server.   *)
(*                                                                         *)
(* What a request does to the rest of the system happens in the step from  *)
(* "reading" to "answering": the module that composes the servers with the *)
(* handlers conjoins it with ReadRequest.                                  *)
(***************************************************************************)
EXTENDS Sequences

CONSTANTS
  Servers,     \* the two API servers
  Workers,     \* worker threads of all servers
  Conns,       \* client connections; bounds how many are open at a time
  Server,      \* Server[x]: the server of worker or connection x
  MayFail      \* the servers whose start may fail

VARIABLES
  up,        \* running
  acceptor,  \* where the accept thread is
  pending,   \* pending, the queue of connections
  worker,    \* where each worker is: a connection, while it handles it
  conn,      \* the life of each connection
  stopPc     \* where stop() of each server is

vars == <<up, acceptor, pending, worker, conn, stopPc>>

WorkerPcs == {"none", "head", "wait", "exited"}
ConnPcs   == {"away", "handshake", "queued", "reading", "answering", "silent"}
StopPcs   == {"none", "accept", "workers", "stopped"}

\* What the constants are; the composing module assumes it.
ServerAssumption ==
  /\ Server \in [Workers \union Conns -> Servers]
  /\ MayFail \subseteq Servers
  /\ Conns \cap (WorkerPcs \union {"accept"}) = {}

WorkersOf(s) == {w \in Workers : Server[w] = s}

\* start(): when socket, bind, listen or the certificate fail no thread is
\* created and running stays false.
Init ==
  /\ up       \in {[s \in Servers |-> s \notin failed] : failed \in SUBSET MayFail}
  /\ acceptor = [s \in Servers |-> IF up[s] THEN "accept" ELSE "none"]
  /\ worker   = [w \in Workers |-> IF up[Server[w]] THEN "head" ELSE "none"]
  /\ pending  = [s \in Servers |-> <<>>]
  /\ conn     = [c \in Conns |-> "away"]
  /\ stopPc   = [s \in Servers |-> "none"]
-----------------------------------------------------------------------------
(* The accept thread                                                       *)

\* SSL_accept has no timeout: the thread stays with one peer.
Accept(c) ==
  LET s == Server[c] IN
  /\ up[s] /\ acceptor[s] = "accept"
  /\ conn[c] = "away"
  /\ acceptor' = [acceptor EXCEPT ![s] = c]
  /\ conn'     = [conn EXCEPT ![c] = "handshake"]
  /\ UNCHANGED <<up, pending, worker, stopPc>>

\* The connection is queued, also when running was cleared meanwhile.
HandshakeDone(c) ==
  /\ conn[c] = "handshake"
  /\ acceptor' = [acceptor EXCEPT ![Server[c]] = "accept"]
  /\ pending'  = [pending EXCEPT ![Server[c]] = Append(@, c)]
  /\ conn'     = [conn EXCEPT ![c] = "queued"]
  /\ UNCHANGED <<up, worker, stopPc>>

HandshakeFailed(c) ==
  /\ acceptor[Server[c]] = c
  /\ conn[c] \in {"handshake", "silent"}
  /\ acceptor' = [acceptor EXCEPT ![Server[c]] = "accept"]
  /\ conn'     = [conn EXCEPT ![c] = "away"]
  /\ UNCHANGED <<up, pending, worker, stopPc>>

\* accept() fails once the socket is shut down.
AcceptEnds(s) ==
  /\ ~up[s] /\ acceptor[s] = "accept"
  /\ acceptor' = [acceptor EXCEPT ![s] = "exited"]
  /\ UNCHANGED <<up, pending, worker, conn, stopPc>>

\* A peer may stop sending in the handshake or in its request (external).
FallsSilent(c) ==
  /\ conn[c] \in {"handshake", "reading"}
  /\ conn' = [conn EXCEPT ![c] = "silent"]
  /\ UNCHANGED <<up, acceptor, pending, worker, stopPc>>
-----------------------------------------------------------------------------
(* The workers                                                             *)

WorkerHead(w) ==
  /\ worker[w] = "head"
  /\ worker' = [worker EXCEPT ![w] = IF up[Server[w]] THEN "wait" ELSE "exited"]
  /\ UNCHANGED <<up, acceptor, pending, conn, stopPc>>

WorkerTakeKeeping(w) ==  \* mutant
  LET s == Server[w] IN
  /\ worker[w] = "wait"
  /\ pending[s] # <<>>
  /\ worker' = [worker EXCEPT ![w] = Head(pending[s])]
  /\ conn'   = [conn EXCEPT ![Head(pending[s])] = "reading"]
  /\ UNCHANGED <<up, acceptor, pending, stopPc>>

\* The wait ends with a notification or after 200 ms; a worker that finds a
\* connection takes it, running or not.
WorkerTake(w) ==
  LET s == Server[w] IN
  /\ worker[w] = "wait"
  /\ pending[s] # <<>>
  /\ worker'  = [worker EXCEPT ![w] = Head(pending[s])]
  /\ conn'    = [conn EXCEPT ![Head(pending[s])] = "reading"]
  /\ pending' = [pending EXCEPT ![s] = Tail(@)]
  /\ UNCHANGED <<up, acceptor, stopPc>>


WorkerLeave(w) ==
  /\ worker[w] = "wait"
  /\ ~up[Server[w]] /\ pending[Server[w]] = <<>>
  /\ worker' = [worker EXCEPT ![w] = "exited"]
  /\ UNCHANGED <<up, acceptor, pending, conn, stopPc>>

\* The request is read and route calls the handler.  A peer that closes after
\* a part of its request is served what it has sent.
ReadRequest(w) ==
  /\ worker[w] \in Conns
  /\ conn[worker[w]] \in {"reading", "silent"}
  /\ conn' = [conn EXCEPT ![worker[w]] = "answering"]
  /\ UNCHANGED <<up, acceptor, pending, worker, stopPc>>

Close(w) ==
  /\ worker' = [worker EXCEPT ![w] = "head"]
  /\ conn'   = [conn EXCEPT ![worker[w]] = "away"]
  /\ UNCHANGED <<up, acceptor, pending, stopPc>>

\* SSL_write of the response, and the connection is closed.
Answer(w) ==
  /\ worker[w] \in Conns
  /\ conn[worker[w]] = "answering"
  /\ Close(w)

\* SSL_read ends without a request: there is nothing to answer.
PeerGone(w) ==
  /\ worker[w] \in Conns
  /\ conn[worker[w]] \in {"reading", "silent"}
  /\ Close(w)
-----------------------------------------------------------------------------
(* stop()                                                                  *)

StopListeningOnly(s) ==  \* mutant
  /\ stopPc[s] = "none"
  /\ stopPc' = [stopPc EXCEPT ![s] = "accept"]
  /\ UNCHANGED <<up, acceptor, pending, worker, conn>>

StopListening(s) ==
  /\ stopPc[s] = "none"
  /\ up'     = [up EXCEPT ![s] = FALSE]
  /\ stopPc' = [stopPc EXCEPT ![s] = "accept"]
  /\ UNCHANGED <<acceptor, pending, worker, conn>>

StopJoinAccept(s) ==
  /\ stopPc[s] = "accept"
  /\ acceptor[s] \in {"none", "exited"}
  /\ acceptor' = [acceptor EXCEPT ![s] = "none"]
  /\ stopPc'   = [stopPc EXCEPT ![s] = "workers"]
  /\ UNCHANGED <<up, pending, worker, conn>>

\* Connections that are still pending stay as they are.
StopJoinWorkers(s) ==
  /\ stopPc[s] = "workers"
  /\ \A w \in WorkersOf(s) : worker[w] \in {"none", "exited"}
  /\ worker' = [w \in Workers |-> IF Server[w] = s THEN "none" ELSE worker[w]]
  /\ stopPc' = [stopPc EXCEPT ![s] = "stopped"]
  /\ UNCHANGED <<up, acceptor, pending, conn>>
-----------------------------------------------------------------------------
AcceptThread(s) ==
  \/ AcceptEnds(s)
  \/ \E c \in Conns : Server[c] = s /\ (Accept(c) \/ HandshakeDone(c) \/ HandshakeFailed(c))

\* The steps of a worker outside the handler.
WorkerLoop(w) == WorkerHead(w) \/ WorkerTake(w) \/ WorkerLeave(w)

Stop(s) == StopListening(s) \/ StopJoinAccept(s) \/ StopJoinWorkers(s)

Next ==
  \/ \E s \in Servers : AcceptThread(s) \/ Stop(s)
  \/ \E w \in Workers : WorkerLoop(w) \/ ReadRequest(w) \/ Answer(w) \/ PeerGone(w)
  \/ \E c \in Conns : FallsSilent(c)

Spec == Init /\ [][Next]_vars
-----------------------------------------------------------------------------
TypeOK ==
  /\ up       \in [Servers -> BOOLEAN]
  /\ acceptor \in [Servers -> {"none", "accept", "exited"} \union Conns]
  /\ pending  \in [Servers -> Seq(Conns)]
  /\ worker   \in [Workers -> WorkerPcs \union Conns]
  /\ conn     \in [Conns -> ConnPcs]
  /\ stopPc   \in [Servers -> StopPcs]

\* An open connection, and with it its SSL object, is in one place: with the
\* accept thread, at one place of its server's queue, or with one worker of
\* that server.  It is therefore freed and closed once.
ConnsHaveOneOwner ==
  /\ \A s \in Servers : acceptor[s] \in Conns =>
       Server[acceptor[s]] = s /\ conn[acceptor[s]] \in {"handshake", "silent"}
  /\ \A s \in Servers : \A i \in DOMAIN pending[s] :
       /\ Server[pending[s][i]] = s /\ conn[pending[s][i]] = "queued"
       /\ \A j \in DOMAIN pending[s] : pending[s][i] = pending[s][j] => i = j
  /\ \A w \in Workers : worker[w] \in Conns =>
       /\ Server[worker[w]] = Server[w]
       /\ conn[worker[w]] \in {"reading", "answering", "silent"}
       /\ acceptor[Server[w]] # worker[w]
       /\ \A v \in Workers : worker[v] = worker[w] => v = w

\* What every step preserves.  A handshake is where accept_loop is, and stop
\* has joined the threads it is past.
HandshakesHeld == \A c \in Conns : conn[c] = "handshake" => acceptor[Server[c]] = c

StoppedIsIdle ==
  \A s \in Servers :
    /\ stopPc[s] \in {"workers", "stopped"} => acceptor[s] = "none"
    /\ stopPc[s] = "stopped" => \A w \in WorkersOf(s) : worker[w] = "none"

IndInv == TypeOK /\ ConnsHaveOneOwner /\ HandshakesHeld /\ StoppedIsIdle
==============================================================================
