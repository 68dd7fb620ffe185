-------------------------- MODULE XdrSessions_proof ---------------------------
(***************************************************************************)
(* Theorems about XdrSessions, for every set of clients, every capacity of *)
(* the queues and every bound.                                             *)
(***************************************************************************)
EXTENDS XdrSessions, SequenceTheorems, TLAPS

-------------------------------------------------------------------------------
(* A queue, and what a session takes from it, is a run of line numbers.    *)
EndsAt(s, m) == \A i \in 1..Len(s) : s[i] = m - Len(s) + i

(* A queue that has been pushed m lines keeps all of them or the last ones. *)
Holds(s, m, capacity) == Len(s) = IF m <= capacity THEN m ELSE capacity

(* Pushing a line keeps a queue a run, full or complete. *)
LEMMA PushedRun ==
  ASSUME NEW s \in Seq(Nat), NEW m \in Nat, NEW capacity \in Nat \ {0},
         EndsAt(s, m), Holds(s, m, capacity)
  PROVE  /\ Pushed(s, m + 1, capacity) \in Seq(Nat)
         /\ EndsAt(Pushed(s, m + 1, capacity), m + 1)
         /\ Holds(Pushed(s, m + 1, capacity), m + 1, capacity)
<1> DEFINE kept == IF Len(s) >= capacity THEN Tail(s) ELSE s
<1>0. Len(s) \in Nat /\ m + 1 \in Nat
  BY LenProperties
<1>1. kept \in Seq(Nat) /\ EndsAt(kept, m)
      /\ Len(kept) = (IF m < capacity THEN m ELSE capacity - 1)
  <2>1. CASE Len(s) >= capacity
    <3>1. s # <<>>
      BY <1>0, <2>1, EmptySeq
    <3>2. /\ Tail(s) \in Seq(Nat) /\ Len(Tail(s)) = Len(s) - 1
          /\ \A i \in 1..Len(Tail(s)) : Tail(s)[i] = s[i + 1]
      BY <3>1, HeadTailProperties
    <3>3. EndsAt(Tail(s), m)
      BY <1>0, <3>2 DEF EndsAt
    <3> QED
      BY <1>0, <2>1, <3>2, <3>3 DEF Holds
  <2>2. CASE ~(Len(s) >= capacity)
    BY <1>0, <2>2 DEF Holds
  <2> QED
    BY <2>1, <2>2
<1>2. Pushed(s, m + 1, capacity) = Append(kept, m + 1)
  BY DEF Pushed
<1> HIDE DEF kept
<1>3. /\ Append(kept, m + 1) \in Seq(Nat)
      /\ Len(Append(kept, m + 1)) = Len(kept) + 1
      /\ \A i \in 1..Len(kept) : Append(kept, m + 1)[i] = kept[i]
      /\ Append(kept, m + 1)[Len(kept) + 1] = m + 1
  BY <1>0, <1>1, AppendProperties
<1>4. EndsAt(Append(kept, m + 1), m + 1)
  <2> SUFFICES ASSUME NEW i \in 1..(Len(kept) + 1)
               PROVE  Append(kept, m + 1)[i] = (m + 1) - (Len(kept) + 1) + i
    BY <1>3 DEF EndsAt
  <2>1. Len(kept) \in Nat
    BY <1>1
  <2>2. CASE i = Len(kept) + 1
    BY <1>3, <2>1, <2>2
  <2>3. CASE i # Len(kept) + 1
    <3>1. i \in 1..Len(kept)
      BY <2>1, <2>3
    <3> QED
      BY <1>1, <1>3, <2>1, <3>1 DEF EndsAt
  <2> QED
    BY <2>2, <2>3
<1>5. Holds(Append(kept, m + 1), m + 1, capacity)
  BY <1>0, <1>1, <1>3 DEF Holds
<1> QED
  BY <1>2, <1>3, <1>4, <1>5

(* What a session takes from a run: the lines after its own position.      *)
LEMMA NewerRun ==
  ASSUME NEW s \in Seq(Nat), NEW m \in Nat, NEW n \in Nat,
         EndsAt(s, m), Len(s) <= m, n <= m
  PROVE  /\ NewerLines(s, n) \in Seq(Nat)
         /\ EndsAt(NewerLines(s, n), m)
         /\ Len(NewerLines(s, n)) = IF m - n < Len(s) THEN m - n ELSE Len(s)
<1> DEFINE first == IF m - n < Len(s) THEN Len(s) - (m - n) + 1 ELSE 1
           Splits(i) == \A j \in 1..Len(s) : j >= i <=> s[j] > n
<1>1. Len(s) \in Nat /\ first \in 1..(Len(s) + 1)
  BY LenProperties
<1>2. Splits(first)
  BY SMTT(30), <1>1 DEF EndsAt
<1>3. ASSUME NEW i \in 1..(Len(s) + 1), Splits(i) PROVE i = first
  <2> HIDE DEF first
  <2>1. ~(i < first)
    <3> SUFFICES ASSUME i < first PROVE FALSE
      OBVIOUS
    <3>1. i \in 1..Len(s) /\ i >= i /\ ~(i >= first)
      BY <1>1
    <3> QED
      BY <1>2, <1>3, <3>1
  <2>2. ~(first < i)
    <3> SUFFICES ASSUME first < i PROVE FALSE
      OBVIOUS
    <3>1. first \in 1..Len(s) /\ first >= first /\ ~(first >= i)
      BY <1>1
    <3> QED
      BY <1>2, <1>3, <3>1
  <2> QED
    BY <1>1, <2>1, <2>2
<1>4. FirstNewer(s, n) = first
  <2>1. FirstNewer(s, n) = CHOOSE i \in 1..(Len(s) + 1) : Splits(i)
    BY DEF FirstNewer
  <2> HIDE DEF Splits, first
  <2> QED
    BY <1>1, <1>2, <1>3, <2>1
<1>5. NewerLines(s, n) = SubSeq(s, first, Len(s))
  BY <1>4 DEF NewerLines
<1> DEFINE new == SubSeq(s, first, Len(s))
<1>6. /\ new \in Seq(Nat)
      /\ Len(new) = Len(s) - first + 1
      /\ \A i \in 1..(Len(s) - first + 1) : new[i] = s[first + i - 1]
  <2> HIDE DEF first
  <2>1. \A i \in first..Len(s) : s[i] \in Nat
    BY <1>1, ElementOfSeq
  <2> QED
    BY <1>1, <2>1, SubSeqProperties
<1>7. EndsAt(new, m)
  <2> HIDE DEF first, new
  <2> SUFFICES ASSUME NEW i \in 1..Len(new) PROVE new[i] = m - Len(new) + i
    BY DEF EndsAt
  <2>1. i \in 1..(Len(s) - first + 1) /\ first + i - 1 \in 1..Len(s)
    BY <1>1, <1>6
  <2>2. new[i] = s[first + i - 1] /\ s[first + i - 1] = m - Len(s) + (first + i - 1)
    BY <1>6, <2>1 DEF EndsAt
  <2> QED
    BY <1>1, <1>6, <2>1, <2>2
<1>8. Len(new) = IF m - n < Len(s) THEN m - n ELSE Len(s)
  <2> HIDE DEF new
  <2> QED
    BY <1>1, <1>6
<1> QED
  BY <1>5, <1>6, <1>7, <1>8

(* The last line of a run. *)
LEMMA RunNewest ==
  ASSUME NEW s \in Seq(Nat), NEW m \in Nat, EndsAt(s, m), s # <<>>
  PROVE  s[Len(s)] = m /\ Len(s) \in Nat \ {0}
  BY LenProperties, EmptySeq DEF EndsAt

(* Sending the first line of a run. *)
LEMMA RunTail ==
  ASSUME NEW s \in Seq(Nat), NEW m \in Nat, EndsAt(s, m), s # <<>>
  PROVE  /\ Head(s) = m - Len(s) + 1
         /\ Tail(s) \in Seq(Nat) /\ Len(Tail(s)) = Len(s) - 1
         /\ EndsAt(Tail(s), m)
  BY HeadTailProperties, LenProperties, EmptySeq DEF EndsAt

-------------------------------------------------------------------------------
(* The queues, which only the producers change. *)
QueueInv ==
  /\ queue \in [Queues -> Seq(Nat)] /\ nextSeq \in [Queues -> Nat \ {0}]
  /\ \A q \in Queues : /\ EndsAt(queue[q], nextSeq[q] - 1)
                       /\ Holds(queue[q], nextSeq[q] - 1, Capacity[q])

(* The two halves of a session's behaviour leave the queues alone. *)
LEMMA SessionsKeepQueues ==
  ASSUME NEW c \in Clients, SessionRuns(c) \/ Peer(c)
  PROVE  UNCHANGED pushed
  BY DEF SessionRuns, Peer, Peek, JoinQueue, TakeLines, SendLine, CheckSession,
         FmdxTimeout, EndOfStream, SendFails, CloseSession, Accept, Authenticated,
         HandshakeDone, Command, SessionKeeps

LEMMA ServerKeepsQueues ==
  AcceptStep \/ BeginStop \/ StopStep => UNCHANGED <<pushed, reading, commands, fmdx>>
  BY DEF AcceptStep, CheckRunning, AcceptFails, Register, Spawn, BeginStop, StopStep,
         ShutClients, JoinAcceptThread, TakeThreads, JoinClients, StopKeeps, session

LEMMA QueueInit == Init => QueueInv
<1> SUFFICES ASSUME Init PROVE QueueInv
  OBVIOUS
<1>1. <<>> \in Seq(Nat) /\ Len(<<>>) = 0
  BY EmptySeq
<1>2. \A q \in Queues : Capacity[q] \in Nat \ {0}
  BY CapacityAssumption DEF Capacity
<1> QED
  BY <1>1, <1>2 DEF Init, QueueInv, EndsAt, Holds

LEMMA QueueStep == QueueInv /\ [Next]_vars => QueueInv'
<1> SUFFICES ASSUME QueueInv, [Next]_vars PROVE QueueInv'
  OBVIOUS
<1>1. CASE UNCHANGED pushed
  BY <1>1 DEF QueueInv, pushed
<1>2. ASSUME NEW q \in Queues, PushOne(q) PROVE QueueInv'
  <2>1. nextSeq[q] - 1 \in Nat /\ queue[q] \in Seq(Nat) /\ Capacity[q] \in Nat \ {0}
    BY CapacityAssumption DEF QueueInv, Capacity
  <2> DEFINE new == Pushed(queue[q], nextSeq[q], Capacity[q])
  <2>2. new \in Seq(Nat) /\ EndsAt(new, nextSeq[q]) /\ Holds(new, nextSeq[q], Capacity[q])
    <3>1. (nextSeq[q] - 1) + 1 = nextSeq[q]
      BY DEF QueueInv
    <3> QED
      BY <2>1, <3>1, PushedRun DEF QueueInv
  <2>3. queue' = [queue EXCEPT ![q] = new] /\ nextSeq' = [nextSeq EXCEPT ![q] = @ + 1]
    BY <1>2 DEF PushOne, Push
  <2> HIDE DEF new
  <2>4. queue' \in [Queues -> Seq(Nat)] /\ nextSeq' \in [Queues -> Nat \ {0}]
    BY <2>2, <2>3 DEF QueueInv
  <2>5. ASSUME NEW p \in Queues
        PROVE  /\ EndsAt(queue'[p], nextSeq'[p] - 1)
               /\ Holds(queue'[p], nextSeq'[p] - 1, Capacity[p])
    <3>1. CASE p = q
      <4>1. queue'[p] = new /\ nextSeq'[p] - 1 = nextSeq[q]
        BY <2>3, <3>1 DEF QueueInv
      <4> QED
        BY <2>2, <3>1, <4>1
    <3>2. CASE p # q
      BY <2>3, <3>2 DEF QueueInv
    <3> QED
      BY <3>1, <3>2
  <2> QED
    BY <2>4, <2>5 DEF QueueInv, EndsAt, Holds
<1>3. CASE PushGroup
  <2> DEFINE n == nextSeq["rds"]
             one == Pushed(queue["rds"], n, RdsCapacity)
             two == Pushed(one, n + 1, RdsCapacity)
  <2>1. "rds" \in Queues /\ n \in Nat \ {0} /\ n - 1 \in Nat /\ Capacity["rds"] = RdsCapacity
    BY DEF QueueInv, Queues, Capacity
  <2>2. one \in Seq(Nat) /\ EndsAt(one, n) /\ Holds(one, n, RdsCapacity)
    <3>1. (n - 1) + 1 = n
      BY <2>1
    <3> QED
      BY <2>1, <3>1, PushedRun, CapacityAssumption DEF QueueInv
  <2>3. two \in Seq(Nat) /\ EndsAt(two, n + 1) /\ Holds(two, n + 1, RdsCapacity)
    <3> HIDE DEF one, n
    <3> QED
      BY <2>1, <2>2, PushedRun, CapacityAssumption
  <2>4. queue' = [queue EXCEPT !["rds"] = two] /\ nextSeq' = [nextSeq EXCEPT !["rds"] = @ + 2]
    BY <1>3 DEF PushGroup
  <2> HIDE DEF two
  <2>5. queue' \in [Queues -> Seq(Nat)] /\ nextSeq' \in [Queues -> Nat \ {0}]
    <3>1. nextSeq["rds"] + 2 \in Nat \ {0}
      BY <2>1
    <3> QED
      BY <2>3, <2>4, <3>1 DEF QueueInv
  <2>6. ASSUME NEW p \in Queues
        PROVE  /\ EndsAt(queue'[p], nextSeq'[p] - 1)
               /\ Holds(queue'[p], nextSeq'[p] - 1, Capacity[p])
    <3>1. CASE p = "rds"
      <4>1. queue'[p] = two /\ nextSeq'[p] - 1 = n + 1
        BY <2>1, <2>4, <3>1 DEF QueueInv
      <4> QED
        BY <2>1, <2>3, <3>1, <4>1
    <3>2. CASE p # "rds"
      BY <2>4, <3>2 DEF QueueInv
    <3> QED
      BY <3>1, <3>2
  <2> QED
    BY <2>5, <2>6 DEF QueueInv, EndsAt, Holds
<1> QED
  BY <1>1, <1>2, <1>3, SessionsKeepQueues, ServerKeepsQueues DEF Next, vars

-------------------------------------------------------------------------------
(* Where the threads are, and who is still to be joined. *)
PlaceType ==
  /\ stopping \in StopPlaces /\ acceptor \in AcceptPlaces
  /\ place \in [Clients -> Places]
  /\ incoming \in SUBSET Clients /\ fmdx \in SUBSET Clients
  /\ registered \in SUBSET Clients /\ threads \in SUBSET Clients
  /\ joining \in SUBSET Clients /\ shut \in SUBSET Clients /\ late \in SUBSET Clients
  /\ commands \in 0..MaxCommands

Unstarted == {"away", "accepted"}
FmdxPlaces == {"handshake", "check", "recv", "leaving", "gone"}

Joinable ==
  /\ \A c \in Clients : place[c] = "accepted" <=> c \in incoming
  /\ acceptor \in {"check", "accept", "done"} => incoming = {}
  /\ stopping \in {"takeThreads", "joinClients", "returned"} => acceptor = "done"
  /\ \A c \in Clients : place[c] \notin Unstarted \cup {"gone"} => c \in threads \cup joining
  /\ \A c \in registered : place[c] \notin {"away", "gone"}
  /\ stopping \in {"joinClients", "returned"} => threads = {}
  /\ stopping # "joinClients" => joining = {}

Protocols ==
  /\ \A c \in fmdx : place[c] \in FmdxPlaces
  /\ \A c \in Clients : place[c] = "handshake" => c \in fmdx

PlaceInv == PlaceType /\ Joinable /\ Protocols

LEMMA PlaceInit == Init => PlaceInv
<1>1. Init => PlaceType
  BY BoundsAssumption DEF Init, PlaceType, StopPlaces, AcceptPlaces, Places
<1>2. Init => Joinable /\ Protocols
  BY DEF Init, Joinable, Protocols, Unstarted
<1> QED
  BY <1>1, <1>2 DEF PlaceInv

(* A started session that moves on, and unregisters before it is over. *)
LEMMA SessionMoves ==
  ASSUME PlaceInv, NEW c \in Clients, NEW to \in Places \ Unstarted,
         UNCHANGED <<stopping, acceptor, incoming, threads, joining, shut, late>>,
         place[c] \notin Unstarted \cup {"gone"},
         place' = [place EXCEPT ![c] = to],
         \/ UNCHANGED registered /\ to # "gone"
         \/ registered' = registered \ {c},
         \/ UNCHANGED fmdx /\ (c \in fmdx => to \in FmdxPlaces) /\ to # "handshake"
         \/ fmdx' = fmdx \cup {c} /\ to = "handshake",
         commands' \in 0..MaxCommands
  PROVE  PlaceInv'
<1>1. PlaceType'
  BY DEF PlaceInv, PlaceType
<1>2. Joinable'
  BY DEF PlaceInv, PlaceType, Joinable, Unstarted
<1>3. Protocols'
  BY DEF PlaceInv, PlaceType, Protocols, FmdxPlaces
<1> QED
  BY <1>1, <1>2, <1>3 DEF PlaceInv

LEMMA PlaceSession ==
  ASSUME PlaceInv, NEW c \in Clients, SessionRuns(c) \/ Peer(c)
  PROVE  PlaceInv'
<1> USE SessionMoves DEF SessionKeeps, server, session
<1>0. /\ place[c] \in Places /\ commands \in 0..MaxCommands
      /\ c \in fmdx => place[c] \in FmdxPlaces
  BY DEF PlaceInv, PlaceType, Protocols
<1>1. ASSUME NEW xFirst \in BOOLEAN, Peek(c, xFirst) PROVE PlaceInv'
  <2>1. c \notin fmdx /\ place[c] = "peek"
    BY <1>0, <1>1 DEF Peek, Moves, FmdxPlaces
  <2>2. CASE xFirst
    BY <1>0, <1>1, <2>1, <2>2 DEF Peek, Moves, Places, Unstarted
  <2>3. CASE ~xFirst
    BY <1>0, <1>1, <2>1, <2>3 DEF Peek, Moves, Places, Unstarted
  <2> QED
    BY <2>2, <2>3
<1>2. ASSUME NEW q \in Queues, JoinQueue(c, q) PROVE PlaceInv'
  <2>1. c \notin fmdx /\ place[c] \in {"joinRds", "joinScan"}
    BY <1>0, <1>2 DEF JoinQueue, Moves, FmdxPlaces
  <2>2. PICK to \in {"joinScan", "check"} : place' = [place EXCEPT ![c] = to]
    BY <1>2 DEF JoinQueue, Moves
  <2> QED
    BY <1>0, <1>2, <2>1, <2>2 DEF JoinQueue, Places, RdsReading, Unstarted
<1>3. ASSUME NEW q \in Queues, TakeLines(c, q) PROVE PlaceInv'
  <2>1. c \notin fmdx /\ place[c] \in {"recv", "takeScan"}
    BY <1>0, <1>3 DEF TakeLines, Moves, FmdxPlaces, TakePlace, Queues
  <2>2. PICK to \in {"sendRds", "sendScan", "takeScan", "check"} :
          place' = [place EXCEPT ![c] = to]
    BY <1>3 DEF TakeLines, Moves, NextPlace, SendPlace
  <2> QED
    BY <1>0, <1>3, <2>1, <2>2 DEF TakeLines, Places, RdsReading, Unstarted
<1>4. ASSUME NEW q \in Queues, SendLine(c, q) PROVE PlaceInv'
  <2>1. c \notin fmdx /\ place[c] \in {"sendRds", "sendScan"}
    BY <1>0, <1>4 DEF SendLine, Moves, FmdxPlaces, SendPlace
  <2>2. PICK to \in {"sendRds", "sendScan", "takeScan", "check"} :
          place' = [place EXCEPT ![c] = to]
    BY <1>4 DEF SendLine, Moves, NextPlace, SendPlace
  <2> QED
    BY <1>0, <1>4, <2>1, <2>2 DEF SendLine, Places, RdsReading, Unstarted
<1>5. CASE CheckSession(c)
  <2>1. PICK to \in {"recv", "leaving"} : place' = [place EXCEPT ![c] = to]
    BY <1>5 DEF CheckSession, Leaves
  <2> QED
    BY <1>0, <1>5, <2>1 DEF CheckSession, Places, RdsReading, Unstarted, FmdxPlaces
<1>6. CASE FmdxTimeout(c) \/ Command(c)
  <2>1. commands' \in 0..MaxCommands
    BY <1>0, <1>6, BoundsAssumption DEF FmdxTimeout, Command
  <2> QED
    BY <1>0, <1>6, <2>1
       DEF FmdxTimeout, Command, Moves, Places, RdsReading, Unstarted, FmdxPlaces
<1>7. CASE EndOfStream(c) \/ SendFails(c)
  BY <1>0, <1>7 DEF EndOfStream, SendFails, Leaves, Places, Unstarted, FmdxPlaces
<1>8. CASE CloseSession(c)
  BY <1>0, <1>8 DEF CloseSession, Moves, Places, Unstarted, FmdxPlaces
<1>9. CASE Authenticated(c)
  <2>1. c \notin fmdx
    BY <1>0, <1>9 DEF Authenticated, Moves, FmdxPlaces
  <2> QED
    BY <1>0, <1>9, <2>1 DEF Authenticated, Moves, Places, Unstarted
<1>10. CASE HandshakeDone(c)
  BY <1>0, <1>10 DEF HandshakeDone, Moves, Places, RdsReading, Unstarted, FmdxPlaces
<1>11. CASE Accept(c)
  <2>1. PlaceType'
    BY <1>11 DEF Accept, PlaceInv, PlaceType, AcceptPlaces, Places
  <2>2. Joinable'
    BY <1>11 DEF Accept, PlaceInv, PlaceType, Joinable, Unstarted
  <2>3. Protocols'
    BY <1>0, <1>11 DEF Accept, PlaceInv, PlaceType, Protocols, FmdxPlaces
  <2> QED
    BY <2>1, <2>2, <2>3 DEF PlaceInv
<1> QED
  BY <1>1, <1>2, <1>3, <1>4, <1>5, <1>6, <1>7, <1>8, <1>9, <1>10, <1>11
     DEF SessionRuns, Peer

LEMMA PlaceStep == PlaceInv /\ [Next]_vars => PlaceInv'
<1> SUFFICES ASSUME PlaceInv, [Next]_vars PROVE PlaceInv'
  OBVIOUS
<1> USE DEF PlaceInv, PlaceType, StopPlaces, AcceptPlaces, StopKeeps, session
<1>1. ASSUME NEW c \in Clients, SessionRuns(c) \/ Peer(c) PROVE PlaceInv'
  BY <1>1, PlaceSession
<1>2. CASE CheckRunning \/ AcceptFails
  BY <1>2 DEF CheckRunning, AcceptFails, Joinable, Protocols
<1>3. CASE Register
  BY <1>3 DEF Register, Joinable, Protocols
<1>4. CASE Spawn
  <2>1. \A c \in Clients : place'[c] = IF c \in incoming THEN "peek" ELSE place[c]
    BY <1>4 DEF Spawn
  <2>2. PlaceType'
    BY <1>4 DEF Spawn, Places
  <2>3. Joinable'
    BY <1>4, <2>1 DEF Spawn, Joinable, Unstarted
  <2>4. Protocols'
    <3>1. \A c \in incoming : place[c] = "accepted" /\ c \notin fmdx
      BY DEF Joinable, Protocols, FmdxPlaces
    <3> QED
      BY <1>4, <2>1, <3>1 DEF Spawn, Protocols
  <2> QED
    BY <2>2, <2>3, <2>4
<1>5. CASE BeginStop \/ ShutClients \/ JoinAcceptThread
  BY <1>5 DEF BeginStop, ShutClients, JoinAcceptThread, Joinable, Protocols
<1>6. CASE TakeThreads
  BY <1>6 DEF TakeThreads, Joinable, Protocols
<1>7. CASE JoinClients
  BY <1>7 DEF JoinClients, Joinable, Protocols, Unstarted
<1>8. CASE (\E q \in Queues : PushOne(q)) \/ PushGroup
  BY <1>8 DEF PushOne, PushGroup, server, Joinable, Protocols
<1>9. CASE UNCHANGED vars
  BY <1>9 DEF vars, server, Joinable, Protocols
<1> QED
  BY <1>1, <1>2, <1>3, <1>4, <1>5, <1>6, <1>7, <1>8, <1>9
     DEF Next, AcceptStep, StopStep

(* When XDRServer::stop has returned, the accept thread and every session  *)
(* thread are over, and no socket is registered: nothing of the server can *)
(* call into the objects that the caller is about to destroy.              *)
THEOREM AllJoined == Spec => []JoinedAll
<1>1. PlaceInv => JoinedAll
  BY DEF PlaceInv, PlaceType, Joinable, JoinedAll, Unstarted
<1> QED
  BY <1>1, PlaceInit, PlaceStep, PTL DEF Spec

-------------------------------------------------------------------------------
(* What the sessions have taken and sent. *)
Reader(c, q) == c \in Clients \ fmdx /\ place[c] \in ReadingPlaces(q)

Position(c, q) ==
  /\ lastSeq[c][q] <= nextSeq[q] - 1
  /\ ~Reader(c, q) => lastSeq[c][q] = 0

Outbox(c) ==
  /\ \A q \in Queues : place[c] = SendPlace(q) =>
       lines[c] # <<>> /\ EndsAt(lines[c], lastSeq[c][q])
  /\ place[c] \notin {"sendRds", "sendScan"} => lines[c] = <<>>

ReadInv ==
  /\ lastSeq \in [Clients -> [Queues -> Nat]]
  /\ lines \in [Clients -> Seq(Nat)]
  /\ \A c \in Clients : Outbox(c) /\ \A q \in Queues : Position(c, q)

SessionInv == QueueInv /\ PlaceInv /\ ReadInv

LEMMA ReadInit == Init => ReadInv
<1>1. <<>> \in Seq(Nat)
  BY EmptySeq
<1> QED
  BY <1>1 DEF Init, ReadInv, Outbox, Position, SendPlace, Reader

(* The newest line of a queue is the one pushed last. *)
LEMMA NewestIsLast ==
  ASSUME QueueInv, NEW q \in Queues
  PROVE  NewestSeq(q) = nextSeq[q] - 1
<1>1. /\ queue[q] \in Seq(Nat) /\ nextSeq[q] - 1 \in Nat
      /\ EndsAt(queue[q], nextSeq[q] - 1) /\ Holds(queue[q], nextSeq[q] - 1, Capacity[q])
      /\ Capacity[q] \in Nat \ {0}
  BY CapacityAssumption DEF QueueInv, Capacity
<1>2. CASE queue[q] = <<>>
  <2>1. Len(queue[q]) = 0
    BY <1>2, EmptySeq
  <2> QED
    BY <1>1, <1>2, <2>1 DEF NewestSeq, Holds
<1>3. CASE queue[q] # <<>>
  BY <1>1, <1>3, RunNewest DEF NewestSeq
<1> QED
  BY <1>2, <1>3

(* What a poll finds: nothing when the session is up to date, and else the *)
(* lines after its position that are still queued.                         *)
LEMMA PollFinds ==
  ASSUME SessionInv, NEW c \in Clients, NEW q \in Queues
  PROVE  LET new == NewerLines(queue[q], lastSeq[c][q])
             last == nextSeq[q] - 1
         IN  /\ new \in Seq(Nat) /\ EndsAt(new, last)
             /\ new = <<>> => lastSeq[c][q] = last
             /\ new # <<>> =>
                  /\ lastSeq[c][q] < last
                  /\ Head(new) - 1 = IF lastSeq[c][q] < last - Capacity[q]
                                     THEN last - Capacity[q] ELSE lastSeq[c][q]
<1> DEFINE new == NewerLines(queue[q], lastSeq[c][q])
           last == nextSeq[q] - 1
           pos == lastSeq[c][q]
<1>1. /\ queue[q] \in Seq(Nat) /\ last \in Nat /\ EndsAt(queue[q], last)
      /\ Holds(queue[q], last, Capacity[q]) /\ Capacity[q] \in Nat \ {0}
      /\ pos \in Nat /\ pos <= last /\ Len(queue[q]) \in Nat
  BY CapacityAssumption, LenProperties
     DEF SessionInv, QueueInv, ReadInv, Position, Capacity
<1>2. Len(queue[q]) <= last
  BY <1>1 DEF Holds
<1>3. /\ new \in Seq(Nat) /\ EndsAt(new, last)
      /\ Len(new) = IF last - pos < Len(queue[q]) THEN last - pos ELSE Len(queue[q])
  BY <1>1, <1>2, NewerRun
<1> HIDE DEF new
<1>4. CASE new = <<>>
  <2>1. Len(new) = 0
    BY <1>4, EmptySeq
  <2>2. last > 0 => Len(queue[q]) > 0
    BY <1>1 DEF Holds
  <2>3. last - pos = 0 \/ Len(queue[q]) = 0
    BY <1>3, <2>1
  <2>4. pos = last
    BY <1>1, <2>2, <2>3
  <2> QED
    BY <1>3, <1>4, <2>4 DEF new
<1>5. CASE new # <<>>
  <2>1. Head(new) = last - Len(new) + 1 /\ Len(new) \in Nat \ {0}
    <3>1. last \in Nat /\ new \in Seq(Nat) /\ EndsAt(new, last) /\ new # <<>>
      BY <1>1, <1>3, <1>5
    <3> HIDE DEF last
    <3> QED BY <3>1, RunTail, RunNewest
  <2>2. pos < last
    BY <1>1, <1>3, <2>1
  <2>3. Head(new) - 1 = IF pos < last - Capacity[q] THEN last - Capacity[q] ELSE pos
    <3> HIDE DEF last, pos
    <3>1. Len(queue[q]) = IF last <= Capacity[q] THEN last ELSE Capacity[q]
      BY <1>1 DEF Holds
    <3>2. Head(new) - 1 = last - Len(new)
      BY <1>1, <2>1
    <3>3. CASE last <= Capacity[q]
      BY <1>1, <1>3, <3>1, <3>2, <3>3
    <3>4. CASE last > Capacity[q]
      BY SMTT(30), <1>1, <1>3, <3>1, <3>2, <3>4
    <3> QED
      BY <1>1, <3>3, <3>4
  <2> QED
    BY <1>3, <1>5, <2>2, <2>3 DEF new
<1> QED
  BY <1>4, <1>5

-------------------------------------------------------------------------------
(* Every step keeps ReadInv and is a step of LineLog or stutters there.    *)
Refines == ReadInv' /\ [Log!Next]_(Log!logVars)

Sends == {"sendRds", "sendScan"}

(* Steps that neither take, send nor drop lines.                           *)
LEMMA QuietStep ==
  ASSUME SessionInv, UNCHANGED <<lastSeq, lines, nextSeq>>,
         \A d \in Clients, q \in Queues : Reader(d, q)' <=> Reader(d, q),
         \A d \in Clients :
           place'[d] = place[d] \/ (place[d] \notin Sends /\ place'[d] \notin Sends)
  PROVE  Refines
<1>1. ReadInv'
  <2>1. \A d \in Clients : Outbox(d)'
    BY DEF SessionInv, ReadInv, Outbox, Sends, SendPlace, EndsAt
  <2>2. \A d \in Clients, q \in Queues : Position(d, q)'
    BY DEF SessionInv, ReadInv, Position
  <2> QED
    BY <2>1, <2>2 DEF SessionInv, ReadInv
<1>2. LogLast' = LogLast /\ LogFetched' = LogFetched
  BY DEF LogLast, LogFetched
<1>3. LogPresent' = LogPresent
  <2>1. \A q \in Queues : {d \in Clients \ fmdx' : place'[d] \in ReadingPlaces(q)}
                            = {d \in Clients \ fmdx : place[d] \in ReadingPlaces(q)}
    BY DEF Reader
  <2> QED
    BY <2>1 DEF LogPresent
<1>4. LogDelivered' = LogDelivered
  <2>1. \A d \in Clients, q \in Queues : Sending(d, q)' <=> Sending(d, q)
    BY DEF Sending, SendPlace, Sends
  <2> QED
    BY <2>1 DEF LogDelivered
<1> QED
  BY <1>1, <1>2, <1>3, <1>4 DEF Refines, Log!logVars

(* A quiet step of one session. *)
LEMMA QuietMove ==
  ASSUME SessionInv, NEW c \in Clients, NEW to,
         UNCHANGED <<lastSeq, lines, nextSeq>>,
         place' = [place EXCEPT ![c] = to], place[c] \notin Sends, to \notin Sends,
         fmdx' \in {fmdx, fmdx \cup {c}},
         \A q \in Queues : Reader(c, q)' <=> Reader(c, q)
  PROVE  Refines
<1>1. \A d \in Clients : d # c => place'[d] = place[d] /\ (d \in fmdx' <=> d \in fmdx)
  BY DEF SessionInv, PlaceInv, PlaceType
<1>2. \A d \in Clients, q \in Queues : Reader(d, q)' <=> Reader(d, q)
  BY <1>1 DEF Reader
<1>3. place'[c] = to
  BY DEF SessionInv, PlaceInv, PlaceType
<1> QED
  BY <1>1, <1>2, <1>3, QuietStep

(* ReadInv holds after a step of one session if it holds of that session.  *)
LEMMA OneSession ==
  ASSUME SessionInv, NEW c \in Clients, NEW to,
         place' = [place EXCEPT ![c] = to], UNCHANGED <<fmdx, nextSeq>>,
         NEW pos \in [Queues -> Nat], NEW out \in Seq(Nat),
         lastSeq' = [lastSeq EXCEPT ![c] = pos], lines' = [lines EXCEPT ![c] = out],
         Outbox(c)', \A q \in Queues : Position(c, q)'
  PROVE  ReadInv'
<1>1. lastSeq' \in [Clients -> [Queues -> Nat]] /\ lines' \in [Clients -> Seq(Nat)]
  BY DEF SessionInv, ReadInv
<1>2. \A d \in Clients : d # c =>
        place'[d] = place[d] /\ lastSeq'[d] = lastSeq[d] /\ lines'[d] = lines[d]
  BY DEF SessionInv, PlaceInv, PlaceType, ReadInv
<1>3. ASSUME NEW d \in Clients, d # c PROVE Outbox(d)' /\ \A q \in Queues : Position(d, q)'
  <2>1. Outbox(d)'
    BY <1>2, <1>3 DEF SessionInv, ReadInv, Outbox, EndsAt
  <2>2. \A q \in Queues : Position(d, q)'
    BY <1>2, <1>3 DEF SessionInv, ReadInv, Position, Reader
  <2> QED
    BY <2>1, <2>2
<1> QED
  BY <1>1, <1>3 DEF ReadInv

(* A session that ends is a reader that leaves. *)
LEMMA LeaveStep ==
  ASSUME SessionInv, NEW c \in Clients, Leaves(c), UNCHANGED <<fmdx, nextSeq>>
  PROVE  Refines
<1>1. place' = [place EXCEPT ![c] = "leaving"] /\ place'[c] = "leaving"
  BY DEF Leaves, SessionInv, PlaceInv, PlaceType
<1> DEFINE zero == [q \in Queues |-> 0]
<1>2. /\ lastSeq' = [lastSeq EXCEPT ![c] = zero] /\ lines' = [lines EXCEPT ![c] = <<>>]
      /\ lastSeq'[c] = zero /\ lines'[c] = <<>>
  BY DEF Leaves, SessionInv, ReadInv
<1>3. Outbox(c)'
  BY <1>1, <1>2 DEF Outbox, SendPlace
<1>4. \A q \in Queues : Position(c, q)'
  BY <1>1, <1>2 DEF SessionInv, QueueInv, Position
<1>5. ReadInv'
  <2>1. zero \in [Queues -> Nat] /\ <<>> \in Seq(Nat)
    BY EmptySeq
  <2> HIDE DEF zero
  <2> QED
    BY <1>1, <1>2, <1>3, <1>4, <2>1, OneSession
<1>6. \A d \in Clients : d # c =>
        place'[d] = place[d] /\ lastSeq'[d] = lastSeq[d] /\ lines'[d] = lines[d]
  BY <1>1, <1>2 DEF SessionInv, PlaceInv, PlaceType, ReadInv
<1>7. LogLast' = LogLast
  BY DEF LogLast
<1>8. LogPresent' = [q \in Queues |-> LogPresent[q] \ {c}]
  <2>1. \A q \in Queues : {d \in Clients \ fmdx' : place'[d] \in ReadingPlaces(q)}
                = {d \in Clients \ fmdx : place[d] \in ReadingPlaces(q)} \ {c}
    BY <1>1, <1>6 DEF ReadingPlaces, RdsReading, ScanReading
  <2> QED
    BY <2>1 DEF LogPresent
<1>9. LogFetched' = [q \in Queues |-> [LogFetched[q] EXCEPT ![c] = 0]]
  <2>1. \A q \in Queues, d \in Clients :
          lastSeq'[d][q] = IF d = c THEN 0 ELSE lastSeq[d][q]
    BY <1>2, <1>6
  <2> QED
    BY <2>1 DEF LogFetched
<1>10. LogDelivered' = [q \in Queues |-> [LogDelivered[q] EXCEPT ![c] = 0]]
  <2>1. \A q \in Queues, d \in Clients :
          (IF Sending(d, q)' THEN Head(lines'[d]) - 1 ELSE lastSeq'[d][q])
            = IF d = c THEN 0
              ELSE IF Sending(d, q) THEN Head(lines[d]) - 1 ELSE lastSeq[d][q]
    BY <1>1, <1>2, <1>6 DEF Sending, SendPlace
  <2> QED
    BY <2>1 DEF LogDelivered
<1>11. Log!Leave(c)
  BY <1>7, <1>8, <1>9, <1>10 DEF Log!Leave
<1> QED
  BY <1>5, <1>11 DEF Refines, Log!Next

(* The tables of LineLog, compared entry by entry. *)
IsTable(f) == f = [p \in Queues |-> [d \in Clients |-> f[p][d]]]

LEMMA OneEntry ==
  ASSUME NEW f, NEW g, IsTable(f), IsTable(g),
         NEW q \in Queues, NEW c \in Clients, NEW v,
         \A p \in Queues, d \in Clients :
           g[p][d] = IF p = q /\ d = c THEN v ELSE f[p][d]
  PROVE  g = [f EXCEPT ![q][c] = v]
<1> DEFINE h == [f EXCEPT ![q] = [f[q] EXCEPT ![c] = v]]
<1>1. DOMAIN f = Queues /\ DOMAIN g = Queues
  BY DEF IsTable
<1>2. \A p \in Queues : f[p] = [d \in Clients |-> f[p][d]] /\ g[p] = [d \in Clients |-> g[p][d]]
  BY DEF IsTable
<1>3. h = [p \in Queues |-> IF p = q THEN [f[q] EXCEPT ![c] = v] ELSE f[p]]
  BY <1>1
<1>4. ASSUME NEW p \in Queues PROVE g[p] = h[p]
  <2>1. CASE p = q
    <3>1. h[p] = [f[q] EXCEPT ![c] = v]
      BY <1>3, <2>1
    <3>2. [f[q] EXCEPT ![c] = v] = [d \in Clients |-> IF d = c THEN v ELSE f[q][d]]
      BY <1>2
    <3>3. [d \in Clients |-> g[p][d]] = [d \in Clients |-> IF d = c THEN v ELSE f[q][d]]
      BY <2>1
    <3> QED
      BY <1>2, <3>1, <3>2, <3>3
  <2>2. CASE p # q
    <3>1. [d \in Clients |-> g[p][d]] = [d \in Clients |-> f[p][d]]
      BY <2>2
    <3> QED
      BY <1>2, <1>3, <2>2, <3>1
  <2> QED
    BY <2>1, <2>2
<1>5. g = [p \in Queues |-> g[p]] /\ h = [p \in Queues |-> h[p]]
  BY <1>3 DEF IsTable
<1>6. [p \in Queues |-> g[p]] = [p \in Queues |-> h[p]]
  BY <1>4
<1> QED
  BY <1>5, <1>6

LEMMA LogTables ==
  IsTable(LogFetched) /\ IsTable(LogFetched') /\ IsTable(LogDelivered) /\ IsTable(LogDelivered')
  BY DEF IsTable, LogFetched, LogDelivered

(* A session that finds its place in a queue joins as a reader. *)
LEMMA JoinStep ==
  ASSUME SessionInv, NEW c \in Clients, NEW q \in Queues, JoinQueue(c, q)
  PROVE  Refines
<1> DEFINE to == IF q = "rds" THEN "joinScan" ELSE "check"
           pos == [lastSeq[c] EXCEPT ![q] = NewestSeq(q)]
<1>1. /\ place' = [place EXCEPT ![c] = to] /\ place'[c] = to
      /\ place[c] = IF q = "rds" THEN "joinRds" ELSE "joinScan"
  BY DEF JoinQueue, Moves, SessionInv, PlaceInv, PlaceType
<1>2. c \notin fmdx /\ UNCHANGED <<fmdx, lines, nextSeq>>
  BY <1>1 DEF JoinQueue, SessionKeeps, pushed, SessionInv, PlaceInv, Protocols, FmdxPlaces
<1>3. NewestSeq(q) = nextSeq[q] - 1 /\ nextSeq[q] - 1 \in Nat
  BY NewestIsLast DEF SessionInv, QueueInv
<1>4. lines[c] = <<>>
  BY <1>1 DEF SessionInv, ReadInv, Outbox
<1>5. /\ lastSeq' = [lastSeq EXCEPT ![c] = pos] /\ lastSeq'[c] = pos
      /\ pos \in [Queues -> Nat] /\ pos[q] = nextSeq[q] - 1
      /\ \A p \in Queues : p # q => pos[p] = lastSeq[c][p]
  BY <1>3 DEF JoinQueue, SessionInv, ReadInv
<1>6. \A p \in Queues : Reader(c, p)' <=> Reader(c, p) \/ p = q
  BY <1>1, <1>2 DEF Reader, ReadingPlaces, RdsReading, ScanReading, Queues
<1>7. Outbox(c)'
  BY <1>1, <1>2, <1>4 DEF Outbox, SendPlace
<1>8. \A p \in Queues : Position(c, p)'
  BY <1>2, <1>3, <1>5, <1>6 DEF SessionInv, ReadInv, Position
<1>9. lines' = [lines EXCEPT ![c] = <<>>] /\ <<>> \in Seq(Nat)
  BY <1>2, <1>4, EmptySeq DEF SessionInv, ReadInv
<1> HIDE DEF to, pos
<1>10. ReadInv'
  BY <1>1, <1>2, <1>5, <1>7, <1>8, <1>9, OneSession
<1>11. \A d \in Clients : d # c => place'[d] = place[d] /\ lastSeq'[d] = lastSeq[d]
  BY <1>1, <1>5 DEF SessionInv, PlaceInv, PlaceType, ReadInv
<1>12. LogLast' = LogLast /\ LogLast[q] = nextSeq[q] - 1
  BY <1>2 DEF LogLast
<1>13. c \notin LogPresent[q] /\ LogPresent' = [LogPresent EXCEPT ![q] = @ \cup {c}]
  <2>1. \A p \in Queues : {d \in Clients \ fmdx' : place'[d] \in ReadingPlaces(p)}
          = {d \in Clients \ fmdx : place[d] \in ReadingPlaces(p)}
              \cup (IF p = q THEN {c} ELSE {})
    BY <1>2, <1>6, <1>11 DEF Reader
  <2>2. ~Reader(c, q)
    BY <1>1 DEF Reader, ReadingPlaces, RdsReading, ScanReading
  <2> QED
    BY <2>1, <2>2 DEF LogPresent, Reader
<1>14. LogFetched' = [LogFetched EXCEPT ![q][c] = LogLast[q]]
  <2>1. \A p \in Queues, d \in Clients :
          lastSeq'[d][p] = IF p = q /\ d = c THEN nextSeq[q] - 1 ELSE lastSeq[d][p]
    BY <1>5, <1>11
  <2>2. \A p \in Queues, d \in Clients :
          LogFetched'[p][d] = IF p = q /\ d = c THEN LogLast[q] ELSE LogFetched[p][d]
    BY <1>12, <2>1 DEF LogFetched
  <2> QED
    BY <2>2, LogTables, OneEntry DEF IsTable
<1>15. LogDelivered' = [LogDelivered EXCEPT ![q][c] = LogLast[q]]
  <2>1. \A p \in Queues, d \in Clients :
          (IF Sending(d, p)' THEN Head(lines'[d]) - 1 ELSE lastSeq'[d][p])
            = IF p = q /\ d = c THEN nextSeq[q] - 1
              ELSE IF Sending(d, p) THEN Head(lines[d]) - 1 ELSE lastSeq[d][p]
    BY <1>1, <1>2, <1>5, <1>11 DEF Sending, SendPlace, to
  <2>2. \A p \in Queues, d \in Clients :
          LogDelivered'[p][d] = IF p = q /\ d = c THEN LogLast[q] ELSE LogDelivered[p][d]
    BY <1>12, <2>1 DEF LogDelivered
  <2> QED
    BY <2>2, LogTables, OneEntry DEF IsTable
<1>16. Log!Join(q, c)
  BY <1>12, <1>13, <1>14, <1>15 DEF Log!Join
<1> QED
  BY <1>10, <1>16 DEF Refines, Log!Next

(* A poll is a fetch: what it skips was pushed out of the queue.           *)
LEMMA TakeStep ==
  ASSUME SessionInv, NEW c \in Clients, NEW q \in Queues, TakeLines(c, q)
  PROVE  Refines
<1> DEFINE new == NewerLines(queue[q], lastSeq[c][q])
           to == IF new = <<>> THEN NextPlace(q) ELSE SendPlace(q)
           last == nextSeq[q] - 1
<1>1. /\ place' = [place EXCEPT ![c] = to] /\ place'[c] = to /\ place[c] = TakePlace(q)
      /\ lines' = [lines EXCEPT ![c] = new] /\ lines'[c] = new
  BY DEF TakeLines, Moves, SessionInv, PlaceInv, PlaceType, ReadInv
<1>2. UNCHANGED <<fmdx, nextSeq>>
  BY DEF TakeLines, SessionKeeps, pushed
<1>3. c \notin fmdx
  BY <1>1 DEF TakeLines, TakePlace, SessionInv, PlaceInv, Protocols, FmdxPlaces
<1>4. /\ new \in Seq(Nat) /\ EndsAt(new, last) /\ last \in Nat
      /\ new = <<>> => lastSeq[c][q] = last
      /\ new # <<>> =>
           /\ lastSeq[c][q] < last
           /\ Head(new) - 1 = IF lastSeq[c][q] < last - Capacity[q]
                              THEN last - Capacity[q] ELSE lastSeq[c][q]
  <2>1. last \in Nat
    BY DEF SessionInv, QueueInv
  <2> QED
    BY <2>1, PollFinds
<1>5. lines[c] = <<>>
  BY <1>1 DEF SessionInv, ReadInv, Outbox, TakePlace
<1>6. lastSeq' = [lastSeq EXCEPT ![c][q] = IF new = <<>> THEN @ ELSE NewestSeq(q)]
  BY DEF TakeLines
<1>7. NewestSeq(q) = last
  BY NewestIsLast DEF SessionInv
<1>8. \A p \in Queues : Reader(c, p) /\ Reader(c, p)'
  BY <1>1, <1>2, <1>3
     DEF Reader, ReadingPlaces, RdsReading, ScanReading, TakePlace, NextPlace, SendPlace,
         SessionInv, PlaceInv, PlaceType
<1> HIDE DEF new, last
<1>9. CASE new = <<>>
  <2>1. lines' = lines /\ lastSeq' = lastSeq
    BY <1>1, <1>5, <1>6, <1>9 DEF SessionInv, ReadInv
  <2>2. to \notin Sends /\ place[c] \notin Sends
    BY <1>1, <1>9 DEF TakePlace, NextPlace, Sends
  <2> HIDE DEF to
  <2> QED
    BY <1>1, <1>2, <1>8, <2>1, <2>2, QuietMove
<1>10. CASE new # <<>>
  <2> DEFINE pos == [lastSeq[c] EXCEPT ![q] = last]
  <2>1. /\ lastSeq' = [lastSeq EXCEPT ![c] = pos] /\ lastSeq'[c] = pos
        /\ pos \in [Queues -> Nat] /\ pos[q] = last
        /\ \A p \in Queues : p # q => pos[p] = lastSeq[c][p]
    BY <1>4, <1>6, <1>7, <1>10 DEF SessionInv, ReadInv
  <2>2. to = SendPlace(q)
    BY <1>10
  <2>3. Outbox(c)'
    <3>1. \A p \in Queues : SendPlace(p) = SendPlace(q) => p = q
      BY DEF SendPlace, Queues
    <3>2. place'[c] = SendPlace(q) /\ lines'[c] = new /\ lastSeq'[c][q] = last
          /\ SendPlace(q) \in {"sendRds", "sendScan"}
      BY <1>1, <2>1, <2>2 DEF SendPlace
    <3> QED
      BY <1>4, <1>10, <3>1, <3>2 DEF Outbox, EndsAt
  <2>4. \A p \in Queues : Position(c, p)'
    BY <1>2, <1>4, <1>8, <2>1 DEF SessionInv, ReadInv, Position, last
  <2> HIDE DEF to, pos
  <2>5. ReadInv'
    BY <1>1, <1>2, <1>4, <2>1, <2>3, <2>4, OneSession
  <2>6. \A d \in Clients : d # c =>
          place'[d] = place[d] /\ lastSeq'[d] = lastSeq[d] /\ lines'[d] = lines[d]
    BY <1>1, <2>1 DEF SessionInv, PlaceInv, PlaceType, ReadInv
  <2>7. LogLast' = LogLast /\ LogLast[q] = last
    BY <1>2 DEF LogLast, last
  <2>8. c \in LogPresent[q] /\ LogPresent' = LogPresent
    <3>1. \A p \in Queues : {d \in Clients \ fmdx' : place'[d] \in ReadingPlaces(p)}
                              = {d \in Clients \ fmdx : place[d] \in ReadingPlaces(p)}
      BY <1>2, <1>8, <2>6 DEF Reader
    <3> QED
      BY <1>8, <3>1 DEF LogPresent, Reader
  <2>9. LogFetched' = [LogFetched EXCEPT ![q][c] = LogLast[q]]
    <3>1. \A p \in Queues, d \in Clients :
            lastSeq'[d][p] = IF p = q /\ d = c THEN last ELSE lastSeq[d][p]
      BY <2>1, <2>6
    <3>2. \A p \in Queues, d \in Clients :
            LogFetched'[p][d] = IF p = q /\ d = c THEN LogLast[q] ELSE LogFetched[p][d]
      BY <2>7, <3>1 DEF LogFetched
    <3> QED
      BY <3>2, LogTables, OneEntry DEF IsTable
  <2>10. \A p \in Queues : ~Sending(c, p)
    BY <1>1 DEF Sending, TakePlace, SendPlace
  <2>11. /\ Sending(c, q)'
         /\ \A p \in Queues : p # q => ~Sending(c, p)'
    BY <1>1, <2>2 DEF Sending, SendPlace, Queues
  <2>12. LogDelivered[q][c] = lastSeq[c][q] /\ LogFetched[q][c] = lastSeq[c][q]
    BY <2>10 DEF LogDelivered, LogFetched
  <2>13. LogDelivered' =
           [LogDelivered EXCEPT ![q][c] = Log!Later(@, LogLast[q] - Capacity[q])]
    <3> DEFINE skip == Log!Later(lastSeq[c][q], last - Capacity[q])
    <3>1. Head(new) - 1 = skip
      BY <1>4, <1>10 DEF Log!Later
    <3> HIDE DEF skip
    <3>2. \A p \in Queues, d \in Clients :
            (IF Sending(d, p)' THEN Head(lines'[d]) - 1 ELSE lastSeq'[d][p])
              = IF p = q /\ d = c THEN skip
                ELSE IF Sending(d, p) THEN Head(lines[d]) - 1 ELSE lastSeq[d][p]
      <4>1. \A p \in Queues, d \in Clients : d # c => (Sending(d, p)' <=> Sending(d, p))
        BY <2>6 DEF Sending
      <4> QED
        BY <1>1, <2>1, <2>6, <2>10, <2>11, <3>1, <4>1
    <3>3. \A p \in Queues, d \in Clients :
            LogDelivered'[p][d] = IF p = q /\ d = c THEN skip ELSE LogDelivered[p][d]
      BY <3>2 DEF LogDelivered
    <3>4. LogDelivered' = [LogDelivered EXCEPT ![q][c] = skip]
      BY <3>3, LogTables, OneEntry DEF IsTable
    <3>5. skip = Log!Later(LogDelivered[q][c], LogLast[q] - Capacity[q])
      BY <2>7, <2>12 DEF skip
    <3> QED
      BY <3>4, <3>5
  <2>14. Log!Fetch(q, c)
    BY <2>7, <2>8, <2>9, <2>12, <2>13 DEF Log!Fetch
  <2> QED
    BY <2>5, <2>14 DEF Refines, Log!Next
<1> QED
  BY <1>9, <1>10

(* A line that is sent is delivered. *)
LEMMA SendStep ==
  ASSUME SessionInv, NEW c \in Clients, NEW q \in Queues, SendLine(c, q)
  PROVE  Refines
<1> DEFINE to == IF Len(lines[c]) = 1 THEN NextPlace(q) ELSE SendPlace(q)
           out == lines[c]
           pos == lastSeq[c]
<1>1. /\ place' = [place EXCEPT ![c] = to] /\ place'[c] = to /\ place[c] = SendPlace(q)
      /\ lines' = [lines EXCEPT ![c] = Tail(out)] /\ lines'[c] = Tail(out)
      /\ lastSeq' = lastSeq /\ lastSeq' = [lastSeq EXCEPT ![c] = pos]
  BY DEF SendLine, Moves, SessionInv, PlaceInv, PlaceType, ReadInv
<1>2. UNCHANGED <<fmdx, nextSeq>>
  BY DEF SendLine, SessionKeeps, pushed
<1>3. c \notin fmdx
  BY <1>1 DEF SendPlace, SessionInv, PlaceInv, Protocols, FmdxPlaces
<1>4. /\ out \in Seq(Nat) /\ out # <<>> /\ EndsAt(out, pos[q])
      /\ pos \in [Queues -> Nat] /\ pos[q] \in Nat
  BY <1>1 DEF SessionInv, ReadInv, Outbox
<1>5. /\ Head(out) = pos[q] - Len(out) + 1 /\ Len(out) \in Nat \ {0}
      /\ Tail(out) \in Seq(Nat) /\ Len(Tail(out)) = Len(out) - 1
      /\ EndsAt(Tail(out), pos[q])
  <2> HIDE DEF out, pos
  <2> QED
    BY <1>4, RunTail, RunNewest
<1>6. Len(out) = 1 <=> Tail(out) = <<>>
  <2> HIDE DEF out, pos
  <2>1. Len(out) = 1 <=> Len(Tail(out)) = 0
    BY <1>5
  <2>2. Tail(out) = <<>> <=> Len(Tail(out)) = 0
    BY <1>5, EmptySeq
  <2> QED
    BY <2>1, <2>2
<1>7. Len(out) # 1 => Tail(out) # <<>> /\ Head(Tail(out)) = pos[q] - Len(out) + 2
  <2> HIDE DEF out, pos
  <2> SUFFICES ASSUME Len(out) # 1
               PROVE  Tail(out) # <<>> /\ Head(Tail(out)) = pos[q] - Len(out) + 2
    OBVIOUS
  <2>1. Tail(out) # <<>>
    BY <1>6
  <2>2. Head(Tail(out)) = pos[q] - Len(Tail(out)) + 1
    BY <1>4, <1>5, <2>1, RunTail
  <2> QED
    BY SMTT(30), <1>4, <1>5, <2>1, <2>2
<1>8. \A p \in Queues : Reader(c, p)' <=> Reader(c, p)
  BY <1>1, <1>2
     DEF Reader, ReadingPlaces, RdsReading, ScanReading, NextPlace, SendPlace
<1>9. Outbox(c)'
  <2>1. \A p \in Queues : SendPlace(p) = SendPlace(q) => p = q
    BY DEF SendPlace, Queues
  <2>2. CASE Len(out) = 1
    <3>1. place'[c] \notin {"sendRds", "sendScan"} /\ lines'[c] = <<>>
      <4>1. NextPlace(q) \in {"takeScan", "check"}
        BY DEF NextPlace
      <4>2. to = NextPlace(q)
        BY <2>2
      <4> HIDE DEF out, to
      <4> QED
        BY <1>1, <1>6, <2>2, <4>1, <4>2
    <3> QED
      BY <3>1 DEF Outbox, SendPlace
  <2>3. CASE Len(out) # 1
    <3>1. /\ place'[c] = SendPlace(q) /\ SendPlace(q) \in {"sendRds", "sendScan"}
          /\ lines'[c] # <<>> /\ EndsAt(lines'[c], lastSeq'[c][q])
      BY <1>1, <1>5, <1>7, <2>3 DEF SendPlace
    <3> QED
      BY <2>1, <3>1 DEF Outbox, EndsAt
  <2> QED
    BY <2>2, <2>3
<1>10. \A p \in Queues : Position(c, p)'
  BY <1>1, <1>2, <1>8 DEF SessionInv, ReadInv, Position
<1>11. to \notin Sends \/ to = SendPlace(q)
  BY DEF NextPlace, Sends
<1>12. \A p \in Queues :
         /\ Sending(c, p) <=> p = q
         /\ Sending(c, p)' <=> p = q /\ Len(out) # 1
  BY <1>1 DEF Sending, SendPlace, NextPlace, Queues
<1> HIDE DEF to, out, pos
<1>13. ReadInv'
  BY <1>1, <1>2, <1>4, <1>5, <1>9, <1>10, OneSession
<1>14. \A d \in Clients : d # c =>
         place'[d] = place[d] /\ lastSeq'[d] = lastSeq[d] /\ lines'[d] = lines[d]
  BY <1>1 DEF SessionInv, PlaceInv, PlaceType, ReadInv
<1>15. LogLast' = LogLast /\ LogFetched' = LogFetched
  BY <1>1, <1>2 DEF LogLast, LogFetched
<1>16. c \in LogPresent[q] /\ LogPresent' = LogPresent
  <2>1. \A p \in Queues : {d \in Clients \ fmdx' : place'[d] \in ReadingPlaces(p)}
                            = {d \in Clients \ fmdx : place[d] \in ReadingPlaces(p)}
    BY <1>2, <1>8, <1>14 DEF Reader
  <2> QED
    BY <1>1, <1>3, <2>1 DEF LogPresent, ReadingPlaces, RdsReading, ScanReading, SendPlace, Queues
<1>17. /\ LogDelivered[q][c] = pos[q] - Len(out) /\ LogFetched[q][c] = pos[q]
  <2>1. LogDelivered[q][c] = Head(lines[c]) - 1
    BY <1>12 DEF LogDelivered
  <2> QED
    BY <1>4, <1>5, <2>1 DEF LogFetched, out, pos
<1>18. LogDelivered' = [LogDelivered EXCEPT ![q][c] = @ + 1]
  <2> DEFINE one == LogDelivered[q][c] + 1
  <2>1. one = pos[q] - Len(out) + 1
    BY <1>4, <1>5, <1>17
  <2>2. (IF Len(out) # 1 THEN Head(Tail(out)) - 1 ELSE pos[q]) = one
    <3>1. CASE Len(out) = 1
      BY <1>4, <2>1, <3>1
    <3>2. CASE Len(out) # 1
      <4>1. Head(Tail(out)) = pos[q] - Len(out) + 2
        BY <1>7, <3>2
      <4> QED
        BY <1>4, <1>5, <2>1, <3>2, <4>1
    <3> QED
      BY <3>1, <3>2
  <2>3. \A d \in Clients, p \in Queues : d # c => (Sending(d, p)' <=> Sending(d, p))
    BY <1>14 DEF Sending
  <2>4. lastSeq'[c] = pos /\ lastSeq[c] = pos
    BY <1>1 DEF pos
  <2> HIDE DEF one
  <2>5. \A p \in Queues, d \in Clients :
          (IF Sending(d, p)' THEN Head(lines'[d]) - 1 ELSE lastSeq'[d][p])
            = IF p = q /\ d = c THEN one
              ELSE IF Sending(d, p) THEN Head(lines[d]) - 1 ELSE lastSeq[d][p]
    <3> TAKE p \in Queues, d \in Clients
    <3>1. CASE d # c
      BY <1>14, <2>3, <3>1
    <3>2. CASE d = c /\ p # q
      BY <1>12, <2>4, <3>2
    <3>3. CASE d = c /\ p = q
      <4>1. lines'[d] = Tail(out) /\ lastSeq'[d][p] = pos[q]
        BY <1>1, <2>4, <3>3
      <4>2. Sending(d, p)' <=> Len(out) # 1
        BY <1>12, <3>3
      <4> QED
        BY <2>2, <3>3, <4>1, <4>2
    <3> QED
      BY <3>1, <3>2, <3>3
  <2>6. \A p \in Queues, d \in Clients :
          LogDelivered'[p][d] = IF p = q /\ d = c THEN one ELSE LogDelivered[p][d]
    BY <2>5 DEF LogDelivered
  <2>7. LogDelivered' = [LogDelivered EXCEPT ![q][c] = one]
    BY <2>6, LogTables, OneEntry DEF IsTable
  <2> QED
    BY <2>7 DEF one
<1>19. LogDelivered[q][c] < LogFetched[q][c]
  BY <1>4, <1>5, <1>17
<1>20. Log!Deliver(q, c)
  BY <1>15, <1>16, <1>18, <1>19 DEF Log!Deliver
<1> QED
  BY <1>13, <1>20 DEF Refines, Log!Next

(* A push makes the log longer, and nobody's position is beyond its end.   *)
LEMMA PublishStep ==
  ASSUME SessionInv, UNCHANGED <<session, reading>>, NEW q \in Queues, NEW n \in {1, 2},
         nextSeq' = [nextSeq EXCEPT ![q] = @ + n]
  PROVE  Refines
<1>1. UNCHANGED <<place, fmdx, lastSeq, lines>>
  BY DEF session, reading
<1>2. \A p \in Queues : nextSeq'[p] = IF p = q THEN nextSeq[p] + n ELSE nextSeq[p]
  BY DEF SessionInv, QueueInv
<1>3. ReadInv'
  <2>1. ASSUME NEW d \in Clients, NEW p \in Queues PROVE Position(d, p)'
    <3>1. nextSeq'[p] >= nextSeq[p] /\ nextSeq'[p] \in Nat /\ nextSeq[p] \in Nat
          /\ lastSeq[d][p] \in Nat
      BY <1>2 DEF SessionInv, QueueInv, ReadInv
    <3>2. Position(d, p) /\ (Reader(d, p)' <=> Reader(d, p))
      BY <1>1 DEF SessionInv, ReadInv, Reader
    <3> QED
      BY <1>1, <3>1, <3>2 DEF Position
  <2>2. \A d \in Clients : Outbox(d)'
    BY <1>1 DEF SessionInv, ReadInv, Outbox, EndsAt
  <2> QED
    BY <1>1, <2>1, <2>2 DEF SessionInv, ReadInv
<1>4. LogLast' = [LogLast EXCEPT ![q] = @ + n]
  <2>1. \A p \in Queues : nextSeq'[p] - 1 = IF p = q THEN (nextSeq[p] - 1) + n ELSE nextSeq[p] - 1
    BY <1>2 DEF SessionInv, QueueInv
  <2> QED
    BY <2>1 DEF LogLast
<1>5. UNCHANGED <<LogPresent, LogFetched, LogDelivered>>
  BY <1>1 DEF LogPresent, LogFetched, LogDelivered, Sending
<1>6. Log!Publish(q, n)
  BY <1>4, <1>5 DEF Log!Publish
<1> QED
  BY <1>3, <1>6 DEF Refines, Log!Next

(* The steps of the accept thread and of stop: a started session is not    *)
(* yet a reader.                                                           *)
LEMMA ServerRefines ==
  ASSUME SessionInv, AcceptStep \/ BeginStop \/ StopStep
  PROVE  Refines
<1>1. UNCHANGED <<lastSeq, lines, nextSeq, fmdx>>
  BY ServerKeepsQueues DEF pushed, reading
<1>2. \A d \in Clients : \/ place'[d] = place[d]
                         \/ place[d] = "accepted" /\ place'[d] = "peek"
  <2>1. CASE Spawn
    BY <2>1 DEF Spawn, SessionInv, PlaceInv, Joinable
  <2>2. CASE ~Spawn
    BY <2>2 DEF AcceptStep, CheckRunning, AcceptFails, Register, BeginStop, StopStep,
                ShutClients, JoinAcceptThread, TakeThreads, JoinClients, StopKeeps, session
  <2> QED
    BY <2>1, <2>2
<1>3. \A d \in Clients, q \in Queues : Reader(d, q)' <=> Reader(d, q)
  BY <1>1, <1>2 DEF Reader, ReadingPlaces, RdsReading, ScanReading
<1> QED
  BY <1>1, <1>2, <1>3, QuietStep DEF Sends

(* The steps of a session and of its peer. *)
LEMMA SessionRefines ==
  ASSUME SessionInv, NEW c \in Clients, SessionRuns(c) \/ Peer(c)
  PROVE  Refines
<1> USE DEF SessionKeeps, pushed, reading
<1>0. (c \in fmdx => place[c] \in FmdxPlaces) /\ (place[c] = "handshake" => c \in fmdx)
  BY DEF SessionInv, PlaceInv, Protocols
<1> USE DEF ReadingPlaces, RdsReading, ScanReading, Sends
<1>1. ASSUME NEW xFirst \in BOOLEAN, Peek(c, xFirst) PROVE Refines
  <2>1. PICK to \in {"handshake", "auth"} : place' = [place EXCEPT ![c] = to]
    BY <1>1 DEF Peek, Moves
  <2>2. place[c] = "peek" /\ place'[c] = to
    BY <1>1, <2>1 DEF Peek, Moves, SessionInv, PlaceInv, PlaceType
  <2>3. \A q \in Queues : Reader(c, q)' <=> Reader(c, q)
    BY <2>2 DEF Reader
  <2>4. fmdx' \in {fmdx, fmdx \cup {c}} /\ UNCHANGED <<lastSeq, lines, nextSeq>>
    BY <1>1 DEF Peek
  <2> QED
    BY <2>1, <2>2, <2>3, <2>4, QuietMove
<1>2. CASE Authenticated(c) \/ HandshakeDone(c)
  <2>1. PICK to \in {"joinRds", "check"} :
          place' = [place EXCEPT ![c] = to] /\ (to = "check" => place[c] = "handshake")
    BY <1>2 DEF Authenticated, HandshakeDone, Moves
  <2>2. place[c] \in {"auth", "handshake"} /\ place'[c] = to
    BY <1>2, <2>1 DEF Authenticated, HandshakeDone, Moves, SessionInv, PlaceInv, PlaceType
  <2>3. UNCHANGED <<lastSeq, lines, nextSeq, fmdx>>
    BY <1>2 DEF Authenticated, HandshakeDone
  <2>4. \A q \in Queues : Reader(c, q)' <=> Reader(c, q)
    BY <1>0, <2>1, <2>2, <2>3 DEF Reader
  <2> QED
    BY <2>1, <2>2, <2>3, <2>4, QuietMove
<1>3. CASE Command(c) \/ FmdxTimeout(c) \/ (CheckSession(c) /\ Running)
  <2>1. PICK to \in {"recv", "check"} : place' = [place EXCEPT ![c] = to]
    BY <1>3 DEF Command, FmdxTimeout, CheckSession, Moves
  <2>2. place[c] \in {"recv", "check"} /\ place'[c] = to
    BY <1>3, <2>1 DEF Command, FmdxTimeout, CheckSession, Moves, SessionInv, PlaceInv, PlaceType
  <2>3. UNCHANGED <<lastSeq, lines, nextSeq, fmdx>>
    BY <1>3 DEF Command, FmdxTimeout, CheckSession
  <2>4. \A q \in Queues : Reader(c, q)' <=> Reader(c, q)
    BY <2>2, <2>3 DEF Reader
  <2> QED
    BY <2>1, <2>2, <2>3, <2>4, QuietMove
<1>4. CASE CloseSession(c) \/ Accept(c)
  <2>1. PICK to \in {"gone", "accepted"} : place' = [place EXCEPT ![c] = to]
    BY <1>4 DEF CloseSession, Accept, Moves
  <2>2. place[c] \in {"leaving", "away"} /\ place'[c] = to
    BY <1>4, <2>1 DEF CloseSession, Accept, Moves, SessionInv, PlaceInv, PlaceType
  <2>3. UNCHANGED <<lastSeq, lines, nextSeq, fmdx>>
    BY <1>4 DEF CloseSession, Accept
  <2>4. \A q \in Queues : Reader(c, q)' <=> Reader(c, q)
    BY <2>2, <2>3 DEF Reader
  <2> QED
    BY <2>1, <2>2, <2>3, <2>4, QuietMove
<1>5. CASE EndOfStream(c) \/ SendFails(c) \/ (CheckSession(c) /\ ~Running)
  <2>1. Leaves(c) /\ UNCHANGED <<fmdx, nextSeq>>
    BY <1>5 DEF EndOfStream, SendFails, CheckSession
  <2> QED
    BY <2>1, LeaveStep
<1>6. ASSUME NEW q \in Queues, JoinQueue(c, q) \/ TakeLines(c, q) \/ SendLine(c, q)
      PROVE  Refines
  BY <1>6, JoinStep, TakeStep, SendStep
<1> QED
  BY <1>1, <1>2, <1>3, <1>4, <1>5, <1>6 DEF SessionRuns, Peer

LEMMA SessionInit == Init => SessionInv /\ Log!Init
<1>1. Init => Log!Init
  <2> SUFFICES ASSUME Init PROVE Log!Init
    OBVIOUS
  <2>1. LogLast = [q \in Queues |-> 0]
    BY DEF Init, LogLast
  <2>2. LogPresent = [q \in Queues |-> {}]
    BY DEF Init, LogPresent, ReadingPlaces, RdsReading, ScanReading
  <2>3. LogFetched = [q \in Queues |-> [c \in Clients |-> 0]]
    BY DEF Init, LogFetched
  <2>4. LogDelivered = [q \in Queues |-> [c \in Clients |-> 0]]
    BY DEF Init, LogDelivered, Sending, SendPlace
  <2> QED
    BY <2>1, <2>2, <2>3, <2>4 DEF Log!Init
<1> QED
  BY <1>1, QueueInit, PlaceInit, ReadInit DEF SessionInv

LEMMA SessionStep == SessionInv /\ [Next]_vars => SessionInv' /\ [Log!Next]_(Log!logVars)
<1> SUFFICES ASSUME SessionInv, [Next]_vars PROVE SessionInv' /\ [Log!Next]_(Log!logVars)
  OBVIOUS
<1>1. CASE UNCHANGED vars
  <2>1. UNCHANGED <<lastSeq, lines, nextSeq, place, fmdx>>
    BY <1>1 DEF vars, reading, pushed, session
  <2> QED
    BY <2>1, QuietStep, QueueStep, PlaceStep DEF SessionInv, Refines, Reader
<1>2. ASSUME NEW q \in Queues, PushOne(q) PROVE Refines
  BY <1>2, PublishStep DEF PushOne, Push
<1>3. ASSUME PushGroup PROVE Refines
  <2>1. PICK q \in Queues, n \in {1, 2} : q = "rds" /\ n = 2
    BY DEF Queues
  <2>2. UNCHANGED <<session, reading>> /\ nextSeq' = [nextSeq EXCEPT ![q] = @ + n]
    BY <1>3, <2>1 DEF PushGroup
  <2> QED
    BY <2>1, <2>2, PublishStep
<1>4. QueueInv' /\ PlaceInv'
  BY QueueStep, PlaceStep DEF SessionInv
<1>5. CASE Next
  <2>1. Refines
    <3>1. CASE AcceptStep \/ BeginStop \/ StopStep
      BY <3>1, ServerRefines
    <3>2. CASE \E c \in Clients : SessionRuns(c) \/ Peer(c)
      BY <3>2, SessionRefines
    <3> QED
      BY <1>2, <1>3, <1>5, <3>1, <3>2 DEF Next
  <2> QED
    BY <1>4, <2>1 DEF Refines, SessionInv
<1> QED
  BY <1>1, <1>5

(* The sessions and their queues implement the line log: for any number of *)
(* clients and any capacity, a session is sent the lines pushed after it   *)
(* joined in order and once, and misses only what a full queue dropped.    *)
THEOREM LinesKeepPromise == Spec => KeepsLinePromise
<1>1. Spec => Log!Spec
  BY SessionInit, SessionStep, PTL DEF Spec, Log!Spec
<1> QED
  BY <1>1 DEF KeepsLinePromise

(* Every variable keeps its type, and neither queue outgrows its capacity. *)
THEOREM TypeCorrect == Spec => []TypeOK
<1>1. SessionInv => TypeOK
  <2> SUFFICES ASSUME SessionInv PROVE TypeOK
    OBVIOUS
  <2>1. \A q \in Queues : Len(queue[q]) <= Capacity[q]
    <3> TAKE q \in Queues
    <3>1. /\ Capacity[q] \in Nat /\ nextSeq[q] - 1 \in Nat
          /\ Holds(queue[q], nextSeq[q] - 1, Capacity[q])
      BY CapacityAssumption DEF SessionInv, QueueInv, Capacity
    <3> QED
      BY <3>1 DEF Holds
  <2> QED
    BY <2>1 DEF TypeOK, SessionInv, QueueInv, PlaceInv, PlaceType, ReadInv
<1> QED
  BY <1>1, SessionInit, SessionStep, PTL DEF Spec

===============================================================================
