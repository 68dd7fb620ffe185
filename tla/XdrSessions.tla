----------------------------- MODULE XdrSessions ------------------------------
(***************************************************************************)
(* The life of the XDR server: the accept thread, one thread per client    *)
(* session, the two bounded line queues they read (RDS and scan lines),    *)
(* and XDRServer::stop.  What commands do to the request state is the      *)
(* subject of TunerControl; here a command is traffic that keeps a session *)
(* from polling its queues.                                                *)
(*                                                                         *)
(* A line is its sequence number.  The peers and the kernel's sockets are  *)
(* the environment: a peer may talk, stay silent or hang up at any time.   *)
(***************************************************************************)
EXTENDS Integers, Sequences

CONSTANTS
  Clients,       \* connections that may be made, each at most once
  RdsCapacity,   \* lines kept in m_rdsQueue (256 in the code)
  ScanCapacity,  \* lines kept in m_scanQueue (8 in the code)
  MaxRdsLines,   \* bound: lines pushed to the RDS queue
  MaxScanLines,  \* bound: lines pushed to the scan queue
  MaxCommands    \* bound: commands received in a behaviour

ASSUME CapacityAssumption == RdsCapacity \in Nat \ {0} /\ ScanCapacity \in Nat \ {0}
ASSUME BoundsAssumption ==
  MaxRdsLines \in Nat /\ MaxScanLines \in Nat /\ MaxCommands \in Nat

Queues == {"rds", "scan"}
Capacity == [q \in Queues |-> IF q = "rds" THEN RdsCapacity ELSE ScanCapacity]

MaxLines == [q \in Queues |-> IF q = "rds" THEN MaxRdsLines ELSE MaxScanLines]

VARIABLES
  stopping,    \* where the main thread is in stop(); "serving" before
  acceptor,    \* where the accept thread is
  incoming,    \* the connections it has accepted and not yet started
  place,       \* where each session's thread is
  fmdx,        \* sessions that speak the FM-DX protocol
  registered,  \* m_clientSockets
  threads,     \* m_clientThreads
  joining,     \* the threads stop() has taken to join
  shut,        \* sockets shut down by stop()
  late,        \* history: sessions registered too late to be shut down
  queue,       \* the sequence numbers in m_rdsQueue and m_scanQueue
  nextSeq,     \* m_rdsNextSeq and m_scanNextSeq
  lastSeq,     \* lastRdsSeq and lastScanSeq of each session
  lines,       \* the lines each session has taken and not yet sent
  commands     \* what is left of MaxCommands

server == <<stopping, acceptor, incoming, registered, threads, joining, shut, late>>
session == <<place, fmdx>>
reading == <<lastSeq, lines>>
pushed == <<queue, nextSeq>>
vars == <<server, session, reading, pushed, commands>>

StopPlaces == {"serving", "shutClients", "joinAccept", "takeThreads",
               "joinClients", "returned"}
AcceptPlaces == {"check", "accept", "register", "spawn", "done"}
RdsReading == {"joinScan", "check", "recv", "sendRds", "takeScan", "sendScan"}
ScanReading == RdsReading \ {"joinScan"}
Places == RdsReading \cup
  {"away", "accepted", "peek", "auth", "handshake", "joinRds",
   "leaving", "gone"}

TypeOK ==
  /\ stopping \in StopPlaces /\ acceptor \in AcceptPlaces
  /\ place \in [Clients -> Places]
  /\ incoming \in SUBSET Clients /\ fmdx \in SUBSET Clients
  /\ registered \in SUBSET Clients /\ threads \in SUBSET Clients
  /\ joining \in SUBSET Clients /\ shut \in SUBSET Clients /\ late \in SUBSET Clients
  /\ queue \in [Queues -> Seq(Nat)]
  /\ \A q \in Queues : Len(queue[q]) <= Capacity[q]
  /\ nextSeq \in [Queues -> Nat \ {0}]
  /\ lastSeq \in [Clients -> [Queues -> Nat]]
  /\ lines \in [Clients -> Seq(Nat)]
  /\ commands \in 0..MaxCommands

Running == stopping = "serving"   \* m_running

Init ==
  /\ stopping = "serving" /\ acceptor = "check"
  /\ incoming = {} /\ registered = {} /\ threads = {} /\ joining = {}
  /\ shut = {} /\ late = {}
  /\ place = [c \in Clients |-> "away"] /\ fmdx = {}
  /\ queue = [q \in Queues |-> <<>>] /\ nextSeq = [q \in Queues |-> 1]
  /\ lastSeq = [c \in Clients |-> [q \in Queues |-> 0]]
  /\ lines = [c \in Clients |-> <<>>]
  /\ commands = MaxCommands

-------------------------------------------------------------------------------
(***************************************************************************)
(* Producers: the RDS worker pushes up to two lines of a group under one   *)
(* lock, the scan engine one line of a sweep.  Both are over before stop.  *)
(***************************************************************************)
(* Mutant: one line too many is kept. *)
PushedLate(s, n, capacity) == Append(IF Len(s) > capacity THEN Tail(s) ELSE s, n)

Pushed(s, n, capacity) == Append(IF Len(s) >= capacity THEN Tail(s) ELSE s, n)

Push(q) ==
  /\ nextSeq[q] <= MaxLines[q]
  /\ queue' = [queue EXCEPT ![q] = Pushed(@, nextSeq[q], Capacity[q])]
  /\ nextSeq' = [nextSeq EXCEPT ![q] = @ + 1]

PushOne(q) == Running /\ Push(q) /\ UNCHANGED <<server, session, reading, commands>>

PushGroup ==
  /\ Running
  /\ nextSeq["rds"] + 1 <= MaxRdsLines
  /\ queue' = [queue EXCEPT !["rds"] =
                 Pushed(Pushed(@, nextSeq["rds"], RdsCapacity),
                        nextSeq["rds"] + 1, RdsCapacity)]
  /\ nextSeq' = [nextSeq EXCEPT !["rds"] = @ + 2]
  /\ UNCHANGED <<server, session, reading, commands>>

-------------------------------------------------------------------------------
(***************************************************************************)
(* The accept thread, and stop().                                          *)
(***************************************************************************)
CheckRunning ==
  /\ acceptor = "check"
  /\ acceptor' = IF Running THEN "accept" ELSE "done"
  /\ UNCHANGED <<stopping, incoming, registered, threads, joining, shut, late,
                 session, reading, pushed, commands>>

(* accept() may still return a connection while stop() closes the socket.  *)
Accept(c) ==
  /\ acceptor = "accept" /\ place[c] = "away"
  /\ stopping \in {"serving", "shutClients", "joinAccept"}
  /\ incoming' = {c} /\ acceptor' = "register"
  /\ place' = [place EXCEPT ![c] = "accepted"]
  /\ UNCHANGED <<stopping, registered, threads, joining, shut, late, fmdx, reading,
                 pushed, commands>>

AcceptFails ==
  /\ acceptor = "accept" /\ ~Running
  /\ acceptor' = "check"
  /\ UNCHANGED <<stopping, incoming, registered, threads, joining, shut, late,
                 session, reading, pushed, commands>>

Register ==
  /\ acceptor = "register"
  /\ registered' = registered \cup incoming
  /\ acceptor' = "spawn"
  /\ late' = IF stopping \in {"serving", "shutClients"} THEN late ELSE late \cup incoming
  /\ UNCHANGED <<stopping, incoming, threads, joining, shut, session, reading,
                 pushed, commands>>

Spawn ==
  /\ acceptor = "spawn"
  /\ threads' = threads \cup incoming
  /\ place' = [c \in Clients |-> IF c \in incoming THEN "peek" ELSE place[c]]
  /\ incoming' = {} /\ acceptor' = "check"
  /\ UNCHANGED <<stopping, registered, joining, shut, late, fmdx, reading, pushed, commands>>

StopKeeps == UNCHANGED <<acceptor, incoming, registered, session, reading, pushed, commands>>

BeginStop ==
  /\ stopping = "serving" /\ stopping' = "shutClients"
  /\ StopKeeps /\ UNCHANGED <<threads, joining, shut, late>>

(* Mutant: stop does not wake the sessions. *)
ShutNobody ==
  /\ stopping = "shutClients" /\ stopping' = "joinAccept"
  /\ StopKeeps /\ UNCHANGED <<threads, joining, shut, late>>

ShutClients ==
  /\ stopping = "shutClients" /\ stopping' = "joinAccept"
  /\ shut' = shut \cup registered
  /\ StopKeeps /\ UNCHANGED <<threads, joining, late>>

(* Mutant: the client threads are joined without waiting for the acceptor. *)
SkipAcceptThread ==
  /\ stopping = "joinAccept" /\ stopping' = "takeThreads"
  /\ StopKeeps /\ UNCHANGED <<threads, joining, shut, late>>

JoinAcceptThread ==
  /\ stopping = "joinAccept" /\ acceptor = "done"
  /\ stopping' = "takeThreads"
  /\ StopKeeps /\ UNCHANGED <<threads, joining, shut, late>>

TakeThreads ==
  /\ stopping = "takeThreads" /\ stopping' = "joinClients"
  /\ joining' = threads /\ threads' = {}
  /\ StopKeeps /\ UNCHANGED <<shut, late>>

JoinClients ==
  /\ stopping = "joinClients" /\ \A c \in joining : place[c] = "gone"
  /\ stopping' = "returned" /\ joining' = {}
  /\ StopKeeps /\ UNCHANGED <<threads, shut, late>>

StopStep == ShutClients \/ JoinAcceptThread \/ TakeThreads \/ JoinClients
AcceptStep == CheckRunning \/ AcceptFails \/ Register \/ Spawn

-------------------------------------------------------------------------------
(***************************************************************************)
(* handleClient: which protocol, the blocking handshake or authentication, *)
(* and for an XDR session the place in the queues from which it reads.     *)
(***************************************************************************)
Moves(c, from, to) == place[c] = from /\ place' = [place EXCEPT ![c] = to]
SessionKeeps == UNCHANGED <<server, pushed>>

Peek(c, xFirst) ==
  /\ Moves(c, "peek", IF xFirst THEN "handshake" ELSE "auth")
  /\ fmdx' = IF xFirst THEN fmdx \cup {c} ELSE fmdx
  /\ SessionKeeps /\ UNCHANGED <<reading, commands>>

Authenticated(c) ==
  /\ Moves(c, "auth", "joinRds")
  /\ SessionKeeps /\ UNCHANGED <<fmdx, reading, commands>>

HandshakeDone(c) ==
  /\ Moves(c, "handshake", "check")
  /\ SessionKeeps /\ UNCHANGED <<fmdx, reading, commands>>

NewestSeq(q) == IF queue[q] = <<>> THEN 0 ELSE queue[q][Len(queue[q])]

(* Mutant: a new session is sent what was queued before it came. *)
JoinOldest(c, q) ==
  /\ Moves(c, IF q = "rds" THEN "joinRds" ELSE "joinScan",
              IF q = "rds" THEN "joinScan" ELSE "check")
  /\ SessionKeeps /\ UNCHANGED <<fmdx, reading, commands>>

JoinQueue(c, q) ==
  /\ Moves(c, IF q = "rds" THEN "joinRds" ELSE "joinScan",
              IF q = "rds" THEN "joinScan" ELSE "check")
  /\ lastSeq' = [lastSeq EXCEPT ![c][q] = NewestSeq(q)]
  /\ SessionKeeps /\ UNCHANGED <<fmdx, lines, commands>>

-------------------------------------------------------------------------------
(***************************************************************************)
(* The session loop: a receive with a timeout, and on each timeout of an   *)
(* XDR session the new lines of both queues, taken under the queue's lock  *)
(* and sent without it.                                                    *)
(***************************************************************************)
Leaves(c) ==
  /\ place' = [place EXCEPT ![c] = "leaving"]
  /\ lastSeq' = [lastSeq EXCEPT ![c] = [q \in Queues |-> 0]]
  /\ lines' = [lines EXCEPT ![c] = <<>>]

CheckSession(c) ==
  /\ place[c] = "check"
  /\ IF Running
     THEN place' = [place EXCEPT ![c] = "recv"] /\ UNCHANGED reading
     ELSE Leaves(c)
  /\ SessionKeeps /\ UNCHANGED <<fmdx, commands>>

Command(c) ==
  /\ commands > 0 /\ Moves(c, "recv", "check")
  /\ commands' = commands - 1
  /\ SessionKeeps /\ UNCHANGED <<fmdx, reading>>

(* An FM-DX session has nothing to do on a timeout.  *)
FmdxTimeout(c) ==
  /\ c \in fmdx \ shut
  /\ Moves(c, "recv", "check")
  /\ SessionKeeps /\ UNCHANGED <<fmdx, reading, commands>>

(* The peer hung up, failed to authenticate or sent an oversized line, a   *)
(* signal line could not be sent, or stop() shut the socket down.          *)
EndOfStream(c) ==
  /\ place[c] \in {"auth", "handshake", "recv"}
  /\ Leaves(c)
  /\ SessionKeeps /\ UNCHANGED <<fmdx, commands>>

(* Mutant: the line sent last is taken again. *)
FirstNotOlder(s, n) ==
  CHOOSE i \in 1..(Len(s) + 1) : \A j \in 1..Len(s) : j >= i <=> s[j] >= n

FirstNewer(s, n) ==
  CHOOSE i \in 1..(Len(s) + 1) : \A j \in 1..Len(s) : j >= i <=> s[j] > n

NewerLines(s, n) == SubSeq(s, FirstNewer(s, n), Len(s))

TakePlace(q) == IF q = "rds" THEN "recv" ELSE "takeScan"
SendPlace(q) == IF q = "rds" THEN "sendRds" ELSE "sendScan"
NextPlace(q) == IF q = "rds" THEN "takeScan" ELSE "check"

(* Mutant: the scan queue is compared with the RDS position. *)
TakeIfNewerThanRds(c, q) ==
  /\ q = "rds" => c \notin fmdx \cup shut
  /\ LET new == IF NewestSeq(q) > lastSeq[c]["rds"]
                THEN NewerLines(queue[q], lastSeq[c][q]) ELSE <<>>
     IN  /\ Moves(c, TakePlace(q), IF new = <<>> THEN NextPlace(q) ELSE SendPlace(q))
         /\ lines' = [lines EXCEPT ![c] = new]
         /\ lastSeq' = [lastSeq EXCEPT ![c][q] = IF new = <<>> THEN @ ELSE NewestSeq(q)]
  /\ SessionKeeps /\ UNCHANGED <<fmdx, commands>>

(* The RDS lines are taken when a receive timed out, the scan lines after  *)
(* them.                                                                   *)
TakeLines(c, q) ==
  /\ q = "rds" => c \notin fmdx \cup shut
  /\ LET new == NewerLines(queue[q], lastSeq[c][q])
     IN  /\ Moves(c, TakePlace(q), IF new = <<>> THEN NextPlace(q) ELSE SendPlace(q))
         /\ lines' = [lines EXCEPT ![c] = new]
         /\ lastSeq' = [lastSeq EXCEPT ![c][q] = IF new = <<>> THEN @ ELSE NewestSeq(q)]
  /\ SessionKeeps /\ UNCHANGED <<fmdx, commands>>

SendLine(c, q) ==
  /\ c \notin shut
  /\ Moves(c, SendPlace(q), IF Len(lines[c]) = 1 THEN NextPlace(q) ELSE SendPlace(q))
  /\ lines' = [lines EXCEPT ![c] = Tail(@)]
  /\ SessionKeeps /\ UNCHANGED <<fmdx, lastSeq, commands>>

SendFails(c) ==
  /\ place[c] \in {"sendRds", "sendScan"}
  /\ Leaves(c)
  /\ SessionKeeps /\ UNCHANGED <<fmdx, commands>>

(* removeClientSocket, closeSocket, and the thread is over. *)
CloseSession(c) ==
  /\ Moves(c, "leaving", "gone")
  /\ registered' = registered \ {c}
  /\ UNCHANGED <<stopping, acceptor, incoming, threads, joining, shut, late, fmdx,
                 reading, pushed, commands>>

(* What a session's thread does without its peer. *)
SessionRuns(c) ==
  \/ \E xFirst \in BOOLEAN : Peek(c, xFirst)
  \/ \E q \in Queues : JoinQueue(c, q) \/ TakeLines(c, q) \/ SendLine(c, q)
  \/ CheckSession(c) \/ FmdxTimeout(c) \/ (c \in shut /\ EndOfStream(c))
  \/ SendFails(c) \/ CloseSession(c)

Peer(c) ==
  \/ Accept(c) \/ Authenticated(c) \/ HandshakeDone(c)
  \/ Command(c) \/ EndOfStream(c)

Next ==
  \/ \E q \in Queues : PushOne(q)
  \/ PushGroup \/ AcceptStep \/ BeginStop \/ StopStep
  \/ \E c \in Clients : SessionRuns(c) \/ Peer(c)

Spec == Init /\ [][Next]_vars

(* The server's threads keep running; peers owe it nothing, and nobody has *)
(* to stop it.                                                             *)
Fairness ==
  /\ WF_vars(AcceptStep) /\ WF_vars(StopStep)
  /\ \A c \in Clients : WF_vars(SessionRuns(c))

FairSpec == Spec /\ Fairness

-------------------------------------------------------------------------------
(***************************************************************************)
(* Properties.                                                             *)
(***************************************************************************)
ReadingPlaces(q) == IF q = "rds" THEN RdsReading ELSE ScanReading
Sending(c, q) == place[c] = SendPlace(q)

LogLast == [q \in Queues |-> nextSeq[q] - 1]
LogPresent == [q \in Queues |-> {c \in Clients \ fmdx : place[c] \in ReadingPlaces(q)}]
LogFetched == [q \in Queues |-> [c \in Clients |-> lastSeq[c][q]]]
LogDelivered ==
  [q \in Queues |-> [c \in Clients |->
     IF Sending(c, q) THEN Head(lines[c]) - 1 ELSE lastSeq[c][q]]]

Log == INSTANCE LineLog WITH
  Readers <- Clients, last <- LogLast, present <- LogPresent,
  fetched <- LogFetched, delivered <- LogDelivered

(* Every session gets its lines in order, once, and loses one only to the  *)
(* bound of the queue, whatever is pushed while it polls and sends.        *)
KeepsLinePromise == Log!Spec

(* When stop() returns nothing of the server is left that could call back  *)
(* into Application::run, which is about to return.                        *)
JoinedAll ==
  stopping = "returned" =>
    /\ acceptor = "done" /\ registered = {} /\ threads = {}
    /\ \A c \in Clients : place[c] \in {"away", "gone"}

(* stop() returns whatever the peers do, unless a connection was accepted  *)
(* and not yet registered when the sockets were shut down.                 *)
StopReturns == stopping # "serving" ~> stopping = "returned" \/ late # {}

(* A session that only listens is up to date with both queues in the end.  *)
CatchesUp ==
  \A c \in Clients, q \in Queues :
    <>[](Running /\ c \notin fmdx /\ place[c] \in ScanReading =>
           lastSeq[c][q] = nextSeq[q] - 1)
===============================================================================
