---------------------------- MODULE WSServerProofs ----------------------------
(***************************************************************************)
(* Safety of the WebSocket server for any set of connections: nothing that *)
(* a thread of a connection may use is freed before both have ended, and   *)
(* until then one thread at a time uses it.                                *)
(***************************************************************************)
EXTENDS WSServer, SequenceTheorems, TLAPS

LEMMA RemoveAtProperties ==
  ASSUME NEW S, NEW s \in Seq(S), NEW i \in 1..Len(s)
  PROVE  /\ RemoveAt(s, i) \in Seq(S)
         /\ DOMAIN RemoveAt(s, i) = 1..(Len(s) - 1)
         /\ \A j \in 1..(Len(s) - 1) : RemoveAt(s, i)[j] = IF j < i THEN s[j] ELSE s[j + 1]
<1> DEFINE left == SubSeq(s, 1, i - 1)  right == SubSeq(s, i + 1, Len(s))
<1>1. /\ left \in Seq(S) /\ Len(left) = i - 1
      /\ \A j \in 1..(i - 1) : left[j] = s[j]
  BY SubSeqProperties
<1>2. /\ right \in Seq(S) /\ Len(right) = Len(s) - i
      /\ \A j \in 1..(Len(s) - i) : right[j] = s[i + j]
  BY SubSeqProperties
<1>3. RemoveAt(s, i) = left \o right
  BY DEF RemoveAt
<1> HIDE DEF left, right
<1>4. /\ left \o right \in Seq(S)
      /\ Len(left \o right) = Len(s) - 1
      /\ \A j \in 1..(Len(s) - 1) :
           (left \o right)[j] = IF j <= i - 1 THEN left[j] ELSE right[j - (i - 1)]
  <2>1. Len(left) + Len(right) = Len(s) - 1
    BY <1>1, <1>2
  <2>2. /\ left \o right \in Seq(S)
        /\ Len(left \o right) = Len(left) + Len(right)
        /\ \A j \in 1..(Len(left) + Len(right)) :
             (left \o right)[j] = IF j <= Len(left) THEN left[j] ELSE right[j - Len(left)]
    BY <1>1, <1>2, ConcatProperties, Zenon
  <2> QED BY <1>1, <2>1, <2>2
<1>5. \A j \in 1..(Len(s) - 1) : (left \o right)[j] = IF j < i THEN s[j] ELSE s[j + 1]
  <2> SUFFICES ASSUME NEW j \in 1..(Len(s) - 1)
               PROVE  (left \o right)[j] = IF j < i THEN s[j] ELSE s[j + 1]
    OBVIOUS
  <2>1. CASE j < i
    BY <2>1, <1>1, <1>4
  <2>2. CASE ~(j < i)
    <3>1. j - (i - 1) \in 1..(Len(s) - i) /\ i + (j - (i - 1)) = j + 1
      BY <2>2
    <3> QED BY <2>2, <3>1, <1>2, <1>4
  <2> QED BY <2>1, <2>2
<1> QED BY <1>3, <1>4, <1>5

LEMMA InitIndInv == Init => IndInv
<1> SUFFICES ASSUME Init PROVE IndInv
  OBVIOUS
<1>1. clients \in Seq(Conns) /\ cursor \in Nat \ {0} /\ DOMAIN clients = {}
  BY DEF Init
<1>2. TypeOK
  BY <1>1 DEF Init, TypeOK, AcceptPcs, LoopPcs, SendPcs, MainPcs, NoConn
<1>3. MutexHeld /\ AcceptEnded /\ ListedOnce /\ ListedOpen
  BY <1>1 DEF Init, MutexHeld, Iterating, Broadcasting, Closing, AcceptEnded, ListedOnce, ListedOpen
<1>4. NotStarted /\ NewestOpen /\ SendEndedFirst /\ FreedLast
  BY DEF Init, NotStarted, NewestOpen, SendEndedFirst, FreedLast, ThreadsEndedWhenFreed,
         JoinsOnlyClosing
<1>5. SendMutexHeld
  BY DEF Init, SendMutexHeld
<1> QED BY <1>2, <1>3, <1>4, <1>5 DEF IndInv

\* A listed connection while nobody closes the list.
LEMMA ListedAreOpen ==
  ASSUME IndInv, main \notin Closing
  PROVE  \A i \in DOMAIN clients : ssl[clients[i]] = "open" /\ clients[i] \in Conns
BY DEF IndInv, ListedOpen, TypeOK
-----------------------------------------------------------------------------
(* The threads of a connection                                             *)

\* What a step of client_loop or send_loop may change, and of whom.
LEMMA SessionStep ==
  ASSUME IndInv, NEW c \in Conns, ClientLoop(c) \/ SendLoop(c)
  PROVE  IndInv'
<1> USE DEF IndInv
<1>1. /\ UNCHANGED <<serverVars, ssl>>
      /\ active' \in [Conns -> BOOLEAN] /\ \A d \in Conns : active'[d] => active[d]
      /\ sendRunning' \in [Conns -> BOOLEAN]
      /\ \/ /\ loop[c] \in LoopPcs \ {"none", "done"} /\ UNCHANGED send
            /\ \E pc \in LoopPcs : loop' = [loop EXCEPT ![c] = pc]
         \/ /\ send[c] \in SendPcs \ {"none", "done"} /\ UNCHANGED loop
            /\ \E pc \in SendPcs : send' = [send EXCEPT ![c] = pc]
  <2>1. CASE ClientLoop(c)
    BY <2>1 DEF ClientLoop, LoopGreet, LoopHead, LoopLock, LoopRead, LoopLeave, LoopClearFlag,
                LoopReport, LoopGoto, TypeOK, LoopPcs
  <2>2. CASE SendLoop(c)
    BY <2>2 DEF SendLoop, SendHead, SendLock, SendFrame, SendGoto, TypeOK, SendPcs
  <2> QED BY <2>1, <2>2
<1>2. /\ sendMutex' \in [Conns -> {"free", "loop", "send", "main"}]
      /\ \A d \in Conns :
           /\ sendMutex'[d] = "loop" <=> loop'[d] \in {"greeting", "reading"}
           /\ sendMutex'[d] = "send" <=> send'[d] = "sending"
           /\ sendMutex'[d] = "main" <=> sendMutex[d] = "main"
  <2>1. CASE ClientLoop(c)
    BY <2>1 DEF ClientLoop, LoopGreet, LoopHead, LoopLock, LoopRead, LoopLeave, LoopClearFlag,
                LoopReport, LoopGoto, TypeOK, SendMutexHeld
  <2>2. CASE SendLoop(c)
    BY <2>2 DEF SendLoop, SendHead, SendLock, SendFrame, SendGoto, TypeOK, SendMutexHeld
  <2> QED BY <2>1, <2>2
<1>3. TypeOK'
  BY <1>1, <1>2 DEF TypeOK, serverVars, listVars, flagVars, acceptVars
<1>4. SendMutexHeld'
  BY <1>1, <1>2 DEF SendMutexHeld, AtCursor, serverVars, listVars
<1>5. ssl[c] = "open"
  BY <1>1 DEF TypeOK, NotStarted, FreedLast, ThreadsEndedWhenFreed, Ended, LoopPcs, SendPcs
<1>6. NotStarted' /\ ThreadsEndedWhenFreed'
  BY <1>1, <1>5 DEF TypeOK, NotStarted, FreedLast, ThreadsEndedWhenFreed, Ended
<1>7. SendEndedFirst' /\ JoinsOnlyClosing'
  BY <1>1 DEF TypeOK, SendEndedFirst, FreedLast, JoinsOnlyClosing, AtCursor, Ended,
              serverVars, listVars, acceptVars, SendPcs
<1>8. MutexHeld' /\ AcceptEnded' /\ ListedOnce' /\ ListedOpen'
  BY <1>1 DEF MutexHeld, AcceptEnded, ListedOnce, ListedOpen, serverVars, listVars, acceptVars
<1>9. NewestOpen'
  <2>1. \A d \in Conns : /\ loop[d] = "none" => loop'[d] = "none"
                         /\ send[d] = "none" => send'[d] = "none"
    BY <1>1 DEF TypeOK
  <2> QED BY <1>1, <2>1 DEF NewestOpen, serverVars, listVars, acceptVars
<1> QED BY <1>3, <1>4, <1>6, <1>7, <1>8, <1>9 DEF FreedLast

\* A peer that falls silent changes nothing else.
LEMMA SilentStep ==
  ASSUME IndInv, NEW c \in Conns, FallsSilent(c)
  PROVE  IndInv'
BY DEF IndInv, FallsSilent, sessionVars, listVars, flagVars, acceptVars, TypeOK, MutexHeld,
       SendMutexHeld, AcceptEnded, ListedOnce, ListedOpen, NotStarted, NewestOpen, SendEndedFirst,
       AtCursor, FreedLast, ThreadsEndedWhenFreed, JoinsOnlyClosing
-----------------------------------------------------------------------------
(* accept_loop                                                             *)

\* accept_loop takes steps only before main closes the connections.
LEMMA AcceptBeforeClose ==
  ASSUME IndInv, AcceptLoop
  PROVE  accept # "exited" /\ main \notin Closing
BY DEF IndInv, AcceptEnded, AcceptLoop, AcceptTop, CleanLock, CleanVisit, CleanJoinSend,
       CleanJoinLoopAndErase, CleanUnlock, CleanCallback, AcceptSelect, AcceptHandshake,
       AcceptPush, AcceptSpawn

\* accept_loop takes no send_mutex, starts only threads that hold none, and
\* leaves the list alone while main writes to it.
LEMMA AcceptKeepsSendMutex ==
  ASSUME IndInv, AcceptLoop
  PROVE  SendMutexHeld'
<1> USE DEF IndInv, listVars, sessionVars, acceptVars
<1>1. UNCHANGED <<main, sendMutex>>
  BY DEF AcceptLoop, AcceptTop, CleanLock, CleanVisit, CleanJoinSend, CleanJoinLoopAndErase,
         CleanUnlock, CleanCallback, AcceptSelect, AcceptHandshake, AcceptPush, AcceptSpawn
<1>2. main \in {"lock_one", "write_one"} => UNCHANGED <<clients, cursor>>
  BY DEF MutexHeld, Broadcasting, Iterating,
         AcceptLoop, AcceptTop, CleanLock, LockClients, CleanVisit, CleanJoinSend,
         CleanJoinLoopAndErase, CleanUnlock, CleanCallback, AcceptSelect, AcceptHandshake,
         AcceptPush, AcceptSpawn
<1>3. \/ UNCHANGED <<loop, send>>
      \/ /\ newest \in Conns /\ loop[newest] = "none" /\ UNCHANGED send
         /\ loop' = [loop EXCEPT ![newest] = "greet"]
      \/ /\ newest \in Conns /\ send[newest] = "none" /\ UNCHANGED loop
         /\ send' = [send EXCEPT ![newest] = "loop"]
  <2>1. CASE AcceptSpawn
    BY <2>1 DEF AcceptSpawn, NewestOpen
  <2>2. CASE ~AcceptSpawn
    BY <2>2 DEF AcceptLoop, AcceptTop, CleanLock, CleanVisit, CleanJoinSend, CleanJoinLoopAndErase,
         CleanUnlock, CleanCallback, AcceptSelect, AcceptHandshake, AcceptPush
  <2> QED BY <2>1, <2>2
<1>4. \A c \in Conns :
        /\ loop'[c] \in {"greeting", "reading"} <=> loop[c] \in {"greeting", "reading"}
        /\ send'[c] = "sending" <=> send[c] = "sending"
  BY <1>3 DEF TypeOK
<1> QED BY <1>1, <1>2, <1>4 DEF SendMutexHeld, AtCursor

LEMMA CleanIndInv ==
  ASSUME IndInv, CleanLock \/ CleanVisit \/ CleanJoinSend \/ CleanUnlock \/ CleanCallback
  PROVE  IndInv'
<1> USE DEF IndInv, sessionVars, listVars, flagVars
<1>1. main \notin Closing
  BY AcceptBeforeClose DEF AcceptLoop
<1>s. SendMutexHeld'
  BY AcceptKeepsSendMutex DEF AcceptLoop
<1>2. CASE CleanVisit
  <2> USE <1>2 DEF CleanVisit
  <2>0. cursor' \in Nat \ {0} /\ cursor' <= Len(clients) + 1
    <3>1. Len(clients) \in Nat
      BY DEF TypeOK
    <3> QED BY <3>1 DEF TypeOK, MutexHeld, Iterating
  <2>1. TypeOK'
    BY <2>0 DEF TypeOK, AcceptPcs
  <2>2. cursor \in DOMAIN clients /\ ssl[AtCursor] = "open"
    BY <1>1, ListedAreOpen DEF TypeOK, AtCursor
  <2>3. FreedLast'
    BY <1>1, <2>2 DEF TypeOK, FreedLast, ThreadsEndedWhenFreed, JoinsOnlyClosing, AtCursor, Closing
  <2>4. ListedOpen' /\ SendEndedFirst'
    BY <1>1 DEF ListedOpen, SendEndedFirst, Closing
  <2> QED BY <1>s, <2>1, <2>3, <2>4 DEF MutexHeld, Iterating, Broadcasting, AcceptEnded, ListedOnce, NotStarted, NewestOpen
<1>3. CASE CleanJoinSend
  BY <1>1, <1>s, <1>3 DEF CleanJoinSend, TypeOK, AcceptPcs, MutexHeld, Iterating, Broadcasting, Closing, AcceptEnded, ListedOnce,
     ListedOpen, NotStarted, NewestOpen, SendEndedFirst, AtCursor, FreedLast, ThreadsEndedWhenFreed,
     JoinsOnlyClosing
<1>4. CASE CleanLock \/ CleanUnlock \/ CleanCallback
  <2> USE <1>4 DEF CleanLock, LockClients, UnlockClients, CleanUnlock, CleanCallback
  <2>0. cursor' \in Nat \ {0} /\ (clientsMutex' # "free" => cursor' <= Len(clients) + 1)
    <3>1. Len(clients) \in Nat
      BY DEF TypeOK
    <3> QED BY <3>1 DEF TypeOK, MutexHeld, Iterating
  <2>1. TypeOK'
    BY <2>0 DEF TypeOK, AcceptPcs
  <2>2. MutexHeld' /\ AcceptEnded'
    BY <1>1 DEF MutexHeld, Iterating, Broadcasting, Closing, AcceptEnded
  <2>3. ListedOnce' /\ ListedOpen' /\ NotStarted' /\ NewestOpen'
    BY <1>1 DEF ListedOnce, ListedOpen, NotStarted, NewestOpen
  <2>4. SendEndedFirst' /\ FreedLast'
    BY <1>1 DEF SendEndedFirst, FreedLast, ThreadsEndedWhenFreed, JoinsOnlyClosing, Closing
  <2> QED BY <1>s, <2>1, <2>2, <2>3, <2>4
<1> QED BY <1>2, <1>3, <1>4

LEMMA EraseIndInv ==
  ASSUME IndInv, CleanJoinLoopAndErase
  PROVE  IndInv'
<1> USE DEF IndInv, CleanJoinLoopAndErase
<1>1. main \notin Closing
  BY AcceptBeforeClose DEF AcceptLoop
<1>s. SendMutexHeld'
  BY AcceptKeepsSendMutex DEF AcceptLoop
<1>2. cursor \in 1..Len(clients) /\ AtCursor = clients[cursor] /\ AtCursor \in Conns
  BY DEF FreedLast, JoinsOnlyClosing, TypeOK, AtCursor
<1>3. /\ clients' \in Seq(Conns) /\ DOMAIN clients' = 1..(Len(clients) - 1)
      /\ \A j \in 1..(Len(clients) - 1) :
           clients'[j] = IF j < cursor THEN clients[j] ELSE clients[j + 1]
  BY <1>2, RemoveAtProperties DEF TypeOK
<1>4. \A j \in DOMAIN clients' : \E k \in DOMAIN clients :
        /\ k # cursor /\ clients'[j] = clients[k]
        /\ k = IF j < cursor THEN j ELSE j + 1
  BY <1>2, <1>3 DEF TypeOK
<1>5. TypeOK'
  <2>1. Len(clients') = Len(clients) - 1 /\ Len(clients) \in Nat
    BY <1>2, <1>3 DEF TypeOK
  <2> QED BY <1>2, <1>3, <2>1 DEF TypeOK, AcceptPcs, flagVars
<1>6. ListedOnce'
  BY <1>2, <1>3, <1>4 DEF ListedOnce, TypeOK
<1>7. ListedOpen'
  <2> SUFFICES ASSUME NEW j \in DOMAIN clients' PROVE ssl'[clients'[j]] = "open"
    BY DEF ListedOpen
  <2>1. PICK k \in DOMAIN clients : k # cursor /\ clients'[j] = clients[k]
    BY <1>4
  <2>2. clients[k] # AtCursor /\ clients[k] \in Conns /\ ssl[clients[k]] = "open"
    BY <1>1, <1>2, <2>1, ListedAreOpen DEF ListedOnce, TypeOK
  <2> QED BY <1>s, <2>1, <2>2 DEF TypeOK
<1>8. NotStarted' /\ FreedLast'
  BY <1>1, <1>2 DEF ShuttingDown, NotStarted, FreedLast, ThreadsEndedWhenFreed, JoinsOnlyClosing,
                    SendEndedFirst, TypeOK, Closing
<1>9. MutexHeld' /\ AcceptEnded' /\ NewestOpen' /\ SendEndedFirst'
  BY <1>1 DEF MutexHeld, Iterating, Broadcasting, AcceptEnded, NewestOpen, SendEndedFirst, Closing
<1> QED BY <1>s, <1>5, <1>6, <1>7, <1>8, <1>9

LEMMA AdmitIndInv ==
  ASSUME IndInv, AcceptTop \/ AcceptSelect \/ AcceptHandshake \/ AcceptSpawn
  PROVE  IndInv'
<1> USE DEF IndInv, listVars, flagVars
<1>1. main \notin Closing
  BY AcceptBeforeClose DEF AcceptLoop
<1>s. SendMutexHeld'
  BY AcceptKeepsSendMutex DEF AcceptLoop
<1>2. CASE AcceptTop
  BY <1>1, <1>s, <1>2 DEF AcceptTop, sessionVars, TypeOK, AcceptPcs, MutexHeld, Iterating, Broadcasting, Closing, AcceptEnded,
     ListedOnce, ListedOpen, NotStarted, NewestOpen, SendEndedFirst, FreedLast, ThreadsEndedWhenFreed,
     JoinsOnlyClosing
<1>3. CASE AcceptSelect
  <2> USE <1>3 DEF AcceptSelect, sessionVars
  <2>1. TypeOK'
    BY DEF TypeOK, AcceptPcs
  <2>2. NewestOpen'
    BY DEF NewestOpen
  <2> QED BY <1>s, <1>1, <2>1, <2>2 DEF MutexHeld, Iterating, Broadcasting, Closing, AcceptEnded, ListedOnce, ListedOpen,
             NotStarted, SendEndedFirst, FreedLast, ThreadsEndedWhenFreed, JoinsOnlyClosing
<1>4. CASE AcceptHandshake
  <2> USE <1>4 DEF AcceptHandshake
  <2>1. newest \in Conns /\ ssl[newest] = "none" /\ loop[newest] = "none" /\ send[newest] = "none"
    BY DEF NewestOpen, NotStarted
  <2>2. \A i \in DOMAIN clients : clients[i] # newest
    BY <1>1, <2>1, ListedAreOpen
  <2>3. TypeOK'
    BY DEF TypeOK, AcceptPcs
  <2>4. ListedOpen'
    BY <1>1, <2>2, ListedAreOpen DEF ListedOpen, TypeOK
  <2>5. NewestOpen' /\ NotStarted' /\ ThreadsEndedWhenFreed'
    BY <2>1, <2>2 DEF NewestOpen, NotStarted, FreedLast, ThreadsEndedWhenFreed, Ended, TypeOK
  <2>6. MutexHeld' /\ AcceptEnded' /\ ListedOnce' /\ SendEndedFirst' /\ JoinsOnlyClosing'
    BY <1>1 DEF MutexHeld, Iterating, Broadcasting, Closing, AcceptEnded, ListedOnce, SendEndedFirst, JoinsOnlyClosing
  <2> QED BY <1>s, <2>3, <2>4, <2>5, <2>6 DEF FreedLast
<1>5. CASE AcceptSpawn
  <2> USE <1>5 DEF AcceptSpawn
  <2>1. newest \in Conns /\ ssl[newest] = "open"
    BY DEF NewestOpen
  <2>2. TypeOK'
    BY <2>1 DEF TypeOK, AcceptPcs, LoopPcs, SendPcs
  <2>3. NotStarted' /\ ThreadsEndedWhenFreed'
    BY <2>1 DEF NotStarted, FreedLast, ThreadsEndedWhenFreed, TypeOK
  <2>4. MutexHeld' /\ AcceptEnded' /\ ListedOnce' /\ ListedOpen' /\ NewestOpen'
    BY <1>1 DEF MutexHeld, Iterating, Broadcasting, AcceptEnded, ListedOnce, ListedOpen, NewestOpen
  <2>5. SendEndedFirst' /\ JoinsOnlyClosing'
    BY <1>1 DEF Closing, SendEndedFirst, JoinsOnlyClosing
  <2> QED BY <1>s, <2>2, <2>3, <2>4, <2>5 DEF FreedLast
<1> QED BY <1>2, <1>3, <1>4, <1>5

LEMMA PushIndInv ==
  ASSUME IndInv, AcceptPush
  PROVE  IndInv'
<1> USE DEF IndInv, AcceptPush
<1>1. main \notin Closing
  BY AcceptBeforeClose DEF AcceptLoop
<1>s. SendMutexHeld'
  BY AcceptKeepsSendMutex DEF AcceptLoop
<1>2. /\ newest \in Conns /\ ssl[newest] = "open"
      /\ \A i \in DOMAIN clients : clients[i] # newest
  BY DEF NewestOpen
<1>3. /\ clients' \in Seq(Conns) /\ Len(clients') = Len(clients) + 1
      /\ DOMAIN clients' = DOMAIN clients \union {Len(clients) + 1}
      /\ DOMAIN clients = 1..Len(clients) /\ Len(clients) \in Nat
      /\ \A i \in DOMAIN clients : clients'[i] = clients[i]
      /\ clients'[Len(clients) + 1] = newest
  BY <1>2 DEF TypeOK
<1>4. TypeOK'
  BY <1>3 DEF TypeOK, AcceptPcs, sessionVars, flagVars
<1>5. ListedOnce'
  BY <1>2, <1>3 DEF ListedOnce
<1>6. ListedOpen'
  BY <1>1, <1>2, <1>3, ListedAreOpen DEF ListedOpen, sessionVars
<1>7. NotStarted' /\ NewestOpen' /\ ThreadsEndedWhenFreed'
  BY <1>2 DEF NotStarted, NewestOpen, FreedLast, ThreadsEndedWhenFreed, sessionVars
<1>8. MutexHeld' /\ AcceptEnded' /\ SendEndedFirst' /\ JoinsOnlyClosing'
  BY <1>1 DEF MutexHeld, Iterating, Broadcasting, Closing, AcceptEnded, SendEndedFirst, JoinsOnlyClosing
<1> QED BY <1>s, <1>4, <1>5, <1>6, <1>7, <1>8 DEF FreedLast

LEMMA AcceptIndInv ==
  ASSUME IndInv, AcceptLoop
  PROVE  IndInv'
BY CleanIndInv, EraseIndInv, AdmitIndInv, PushIndInv DEF AcceptLoop
-----------------------------------------------------------------------------
(* main                                                                    *)

\* Steps that touch no connection.
LEMMA MainBookkeeping ==
  ASSUME IndInv,
         \/ BroadcastRequested \/ BroadcastLock \/ BroadcastVisit \/ BroadcastUnlock
         \/ StopFlags \/ StopJoinThreads \/ CloseLock
  PROVE  IndInv'
<1> USE DEF IndInv, BroadcastRequested, BroadcastLock, BroadcastVisit, BroadcastUnlock, StopFlags,
            StopJoinThreads, CloseLock, MainGoto, LockClients,
            UnlockClients
<1>0. cursor' \in Nat \ {0} /\ (clientsMutex' # "free" => cursor' <= Len(clients) + 1)
  <2>1. Len(clients) \in Nat
    BY DEF TypeOK
  <2> QED BY <2>1 DEF TypeOK, listVars, MutexHeld, Broadcasting
<1>1. /\ UNCHANGED <<sessionVars, acceptVars, clients, hadClients, silent>>
      /\ running' \in BOOLEAN /\ listening' \in BOOLEAN
      /\ main' \in MainPcs
      /\ clientsMutex' \in {"free", "accept", "main"}
  BY <1>0 DEF TypeOK, listVars, flagVars, MainPcs
<1>2. TypeOK'
  BY <1>0, <1>1 DEF TypeOK, sessionVars, acceptVars
<1>3. main \notin Closing /\ (main' \in Closing => main' = "close")
  BY DEF Closing
<1>4. MutexHeld'
  BY DEF MutexHeld, Iterating, Broadcasting, Closing, acceptVars, listVars
<1>5. AcceptEnded'
  BY DEF AcceptEnded, Closing, acceptVars
<1>6. accept \in {"join_send", "join_loop"} => cursor' = cursor
  BY DEF MutexHeld, Iterating, Broadcasting, Closing, acceptVars, listVars
<1>7. SendEndedFirst' /\ FreedLast'
  BY <1>1, <1>3, <1>6 DEF SendEndedFirst, FreedLast, ThreadsEndedWhenFreed, JoinsOnlyClosing,
     AtCursor, Closing, sessionVars, acceptVars
<1>8. ListedOnce' /\ ListedOpen' /\ NotStarted' /\ NewestOpen'
  BY <1>1, <1>3 DEF ListedOnce, ListedOpen, NotStarted, NewestOpen, sessionVars, acceptVars
<1>9. SendMutexHeld'
  BY <1>1 DEF SendMutexHeld, AtCursor, sessionVars, listVars
<1> QED BY <1>2, <1>4, <1>5, <1>7, <1>8, <1>9

\* main writes to the client it is at, whose send_mutex it takes and gives back.
LEMMA WriteIndInv ==
  ASSUME IndInv, BroadcastWrite
  PROVE  IndInv'
<1> USE DEF IndInv, BroadcastWrite, MainGoto
<1>1. cursor \in DOMAIN clients /\ AtCursor = clients[cursor] /\ AtCursor \in Conns
  BY DEF SendMutexHeld, TypeOK, AtCursor
<1>0. cursor' \in Nat \ {0} /\ cursor' <= Len(clients) + 1
  BY <1>1 DEF TypeOK
<1>2. main \notin Closing /\ main' \notin Closing /\ clientsMutex = "main" /\ accept \notin Iterating
  BY DEF MutexHeld, Broadcasting, Closing
<1>3. TypeOK'
  BY <1>0, <1>1 DEF TypeOK, MainPcs, flagVars, acceptVars
<1>4. SendMutexHeld'
  BY <1>1 DEF SendMutexHeld, AtCursor, TypeOK
<1>5. MutexHeld' /\ AcceptEnded' /\ ListedOnce' /\ ListedOpen' /\ NotStarted' /\ NewestOpen'
  BY <1>2 DEF MutexHeld, Broadcasting, AcceptEnded, Closing, ListedOnce, ListedOpen, NotStarted,
              NewestOpen, acceptVars
<1>6. SendEndedFirst' /\ FreedLast'
  BY <1>2 DEF SendEndedFirst, FreedLast, ThreadsEndedWhenFreed, JoinsOnlyClosing, Iterating, Closing,
              acceptVars
<1> QED BY <1>3, <1>4, <1>5, <1>6

LEMMA CloseIndInv ==
  ASSUME IndInv, CloseVisit \/ CloseJoinSend \/ CloseJoinLoop \/ CloseUnlock
  PROVE  IndInv'
<1> USE DEF IndInv, MainGoto, listVars, flagVars, acceptVars
<1>1. accept = "exited"
  BY DEF CloseVisit, CloseJoinSend, CloseJoinLoop, CloseUnlock, AcceptEnded, Closing
<1>s. SendMutexHeld'
  BY DEF SendMutexHeld, CloseVisit, CloseJoinSend, CloseJoinLoop, CloseUnlock, sessionVars
<1>2. CASE CloseVisit
  <2> USE <1>2 DEF CloseVisit
  <2>1. cursor \in DOMAIN clients /\ AtCursor \in Conns /\ ssl[AtCursor] = "open"
    BY DEF TypeOK, ListedOpen, AtCursor
  <2>2. TypeOK'
    BY DEF TypeOK, MainPcs
  <2>3. FreedLast'
    BY <1>1, <2>1 DEF FreedLast, ThreadsEndedWhenFreed, JoinsOnlyClosing, AtCursor, TypeOK
  <2> QED BY <1>s, <1>1, <2>2, <2>3 DEF MutexHeld, Iterating, Broadcasting, Closing, AcceptEnded, ListedOnce, ListedOpen,
             NotStarted, NewestOpen, SendEndedFirst
<1>3. CASE CloseJoinSend
  BY <1>s, <1>1, <1>3 DEF CloseJoinSend, sessionVars, TypeOK, MainPcs, MutexHeld, Iterating, Broadcasting, Closing, AcceptEnded,
     ListedOnce, ListedOpen, NotStarted, NewestOpen, SendEndedFirst, AtCursor, FreedLast,
     ThreadsEndedWhenFreed, JoinsOnlyClosing
<1>4. CASE CloseJoinLoop
  <2> USE <1>4 DEF CloseJoinLoop
  <2>1. cursor \in DOMAIN clients /\ AtCursor = clients[cursor] /\ AtCursor \in Conns
    BY DEF TypeOK, FreedLast, JoinsOnlyClosing, AtCursor
  <2>0. cursor' \in Nat \ {0} /\ cursor' <= Len(clients) + 1
    BY <2>1 DEF TypeOK
  <2>2. TypeOK'
    BY <2>0 DEF TypeOK, MainPcs
  <2>3. ListedOpen'
    <3> SUFFICES ASSUME NEW i \in DOMAIN clients
                 PROVE  \/ ssl'[clients[i]] = "open"
                        \/ ssl'[clients[i]] = "freed" /\ i < cursor'
      BY DEF ListedOpen, Closing
    <3>1. CASE i = cursor
      BY <2>1, <3>1 DEF TypeOK
    <3>2. CASE i # cursor
      <4>1. clients[i] # AtCursor /\ clients[i] \in Conns
        BY <2>1, <3>2 DEF ListedOnce, TypeOK
      <4>2. ssl'[clients[i]] = ssl[clients[i]]
        BY <4>1 DEF TypeOK
      <4>3. i < cursor => i < cursor'
        BY DEF TypeOK
      <4> QED BY <4>2, <4>3 DEF ListedOpen
    <3> QED BY <3>1, <3>2
  <2>4. NotStarted' /\ FreedLast'
    BY <1>1, <2>1 DEF NotStarted, FreedLast, ThreadsEndedWhenFreed, JoinsOnlyClosing,
                      ShuttingDown, SendEndedFirst, TypeOK
  <2>5. MutexHeld' /\ AcceptEnded' /\ ListedOnce' /\ NewestOpen' /\ SendEndedFirst'
    BY <1>1 DEF MutexHeld, Iterating, Broadcasting, Closing, AcceptEnded, ListedOnce, NewestOpen, SendEndedFirst
  <2> QED BY <1>s, <2>2, <2>3, <2>4, <2>5
<1>5. CASE CloseUnlock
  <2> USE <1>5 DEF CloseUnlock, UnlockClients
  <2>1. DOMAIN clients' = {} /\ clients' \in Seq(Conns)
    OBVIOUS
  <2>2. TypeOK'
    BY <2>1 DEF TypeOK, MainPcs, sessionVars
  <2>3. ListedOnce' /\ ListedOpen'
    BY <2>1 DEF ListedOnce, ListedOpen
  <2>4. MutexHeld' /\ AcceptEnded' /\ NotStarted' /\ NewestOpen' /\ SendEndedFirst' /\ FreedLast'
    BY <1>1 DEF MutexHeld, Iterating, Broadcasting, Closing, AcceptEnded, NotStarted, NewestOpen, SendEndedFirst,
       FreedLast, ThreadsEndedWhenFreed, JoinsOnlyClosing, sessionVars
  <2> QED BY <1>s, <2>2, <2>3, <2>4
<1> QED BY <1>2, <1>3, <1>4, <1>5
-----------------------------------------------------------------------------
(* The theorems                                                            *)

LEMMA StutterIndInv == IndInv /\ UNCHANGED vars => IndInv'
BY DEF IndInv, vars, sessionVars, serverVars, listVars, flagVars, acceptVars, TypeOK, MutexHeld,
       SendMutexHeld, AcceptEnded, ListedOnce, ListedOpen, NotStarted, NewestOpen, SendEndedFirst, AtCursor,
       FreedLast, ThreadsEndedWhenFreed, JoinsOnlyClosing

LEMMA NextIndInv == IndInv /\ [Next]_vars => IndInv'
<1> SUFFICES ASSUME IndInv, [Next]_vars PROVE IndInv'
  OBVIOUS
<1>1. CASE AcceptLoop
  BY <1>1, AcceptIndInv
<1>2. CASE \E c \in Conns : ClientLoop(c) \/ SendLoop(c) \/ FallsSilent(c)
  BY <1>2, SessionStep, SilentStep
<1>3. CASE BroadcastRequested \/ MainStep
  BY <1>3, MainBookkeeping, WriteIndInv, CloseIndInv DEF MainStep
<1>4. CASE UNCHANGED vars
  BY <1>4, StutterIndInv
<1> QED BY <1>1, <1>2, <1>3, <1>4 DEF Next

LEMMA IndInvAlways == Spec => []IndInv
BY InitIndInv, NextIndInv, PTL DEF Spec

\* The types of the server's state, for any number of connections.
THEOREM ServerTypeCorrect == Spec => []TypeOK
<1>1. IndInv => TypeOK
  BY DEF IndInv
<1> QED BY <1>1, IndInvAlways, PTL

\* One thread uses a connection at a time: before its handshake is over nobody
\* else knows it, then its send_mutex is held, and who shuts it down has joined.
LEMMA OneUser == IndInv => OneUserAtATime
<1> SUFFICES ASSUME IndInv, NEW c \in Conns PROVE \A t, u \in Users(c) : t = u
  BY DEF OneUserAtATime
<1> USE DEF IndInv
<1>1. "accept" \in Users(c) => ssl[c] = "none" /\ accept = "handshake"
  BY DEF Users, NewestOpen
<1>2. "loop" \in Users(c) => sendMutex[c] = "loop" /\ ssl[c] # "none" /\ ~Ended(loop[c])
  BY DEF Users, SendMutexHeld, NotStarted, Ended
<1>3. "send" \in Users(c) => sendMutex[c] = "send" /\ ssl[c] # "none" /\ ~Ended(send[c])
  BY DEF Users, SendMutexHeld, NotStarted, Ended
<1>4. "main" \in Users(c) => sendMutex[c] = "main" /\ ssl[c] = "open" /\ clientsMutex = "main"
                              /\ main = "write_one"
  <2>1. main = "write_one" => cursor \in DOMAIN clients
    BY DEF SendMutexHeld, TypeOK
  <2> QED BY <2>1 DEF Users, SendMutexHeld, ListedOpen, MutexHeld, Broadcasting, Closing, AtCursor
<1>5. "closer" \in Users(c) =>
        /\ ssl[c] = "open" /\ Ended(loop[c]) /\ Ended(send[c])
        /\ clientsMutex = "accept" \/ main = "join_loop"
        /\ accept # "handshake" 
  BY DEF Users, ShuttingDown, FreedLast, JoinsOnlyClosing, SendEndedFirst, MutexHeld, Iterating,
         AcceptEnded, Closing
<1> QED BY <1>1, <1>2, <1>3, <1>4, <1>5, Zenon DEF Users

\* However accept_loop, main and the two threads of each connection interleave,
\* and whichever peers fall silent, a connection is freed once, by the thread
\* that has joined both of its threads, and used by one thread at a time.
THEOREM ConnectionsUsedSafely == Spec => []SessionsUsedSafely
<1>1. IndInv => SessionsUsedSafely
  BY OneUser DEF IndInv, SessionsUsedSafely
<1> QED BY <1>1, IndInvAlways, PTL
===============================================================================
