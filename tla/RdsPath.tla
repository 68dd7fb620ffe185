------------------------------- MODULE RdsPath --------------------------------
(***************************************************************************)
(* From the demodulated signal to the programme identification (PI) shown  *)
(* to clients: the main loop hands blocks to the RDS worker, the worker's  *)
(* decoder reports groups, and the XDR server debounces their PI; retunes  *)
(* clear all three.  How a frequency is requested is the subject of        *)
(* TunerControl, how lines reach the sessions that of XdrSessions.         *)
(*                                                                         *)
(* A station stands for its frequency, its signal and its PI.              *)
(***************************************************************************)
EXTENDS Integers, Sequences, FiniteSets

CONSTANTS
  Stations,
  FirstStation,  \* the frequency the program starts with
  None,          \* no station: silence, a missing block A, no PI
  QueueLimit,    \* kQueueLimit: blocks the worker's queue holds (32)
  Window,        \* groups the PI debounce looks back on (64)
  MuteBlocks,    \* blocks muted after a retune (40 ms)
  Backlog,       \* blocks the device may hold that the loop has not read
  MaxBlocks,     \* bound: blocks the loop reads
  MaxGroups,     \* bound: groups the decoder reports
  MaxTunes       \* bound: tunes the clients request

ASSUME StationsAssumption == None \notin Stations /\ FirstStation \in Stations
ASSUME SizesAssumption ==
  QueueLimit \in Nat \ {0} /\ Window \in Nat \ {0} /\ MuteBlocks \in Nat
(* The loop keeps up with the device: what was received before a retune is *)
(* read while the mute lasts.                                              *)
ASSUME BacklogAssumption == Backlog \in Nat /\ Backlog <= MuteBlocks
ASSUME BoundsAssumption ==
  MaxBlocks \in Nat /\ MaxGroups \in Nat /\ MaxTunes \in Nat

VARIABLES
  main,       \* where the main loop is
  requested, pending,   \* requestedFrequencyHz and pendingFrequency
  asking,     \* the tune an XDR session has shown and not yet requested
  tunes,      \* what is left of MaxTunes
  tuned,      \* the station the device receives
  shown,      \* XDRServer::m_frequency
  mute,       \* blocks still to be muted
  device,     \* the stations of the blocks received and not yet read
  sent,       \* blocks offered to the worker
  queue,      \* m_queue: the blocks waiting
  reset, stop,\* m_reset and m_stop
  worker,     \* where the worker thread is
  block,      \* the block it holds
  register,   \* stations with bits in the group being assembled
  groups,     \* what is left of MaxGroups
  pi,         \* the debounce state of the XDR server
  fed,        \* history: the last block decoded
  lost,       \* history: the blocks dropped
  heard       \* history: the groups reported since the PI was cleared

tuning == <<requested, pending, asking, tunes>>
receiver == <<tuned, mute, device>>
feed == <<sent, queue, reset, stop>>
decoder == <<worker, block, register, groups>>
history == <<fed, lost>>
piState == <<pi, heard>>
vars == <<main, tuning, receiver, shown, feed, decoder, piState, history>>

NoBlock == [n |-> 0, of |-> None]
Blocks == [n : 0..MaxBlocks, of : Stations \cup {None}]
(* A group as far as its block A goes: received, corrected or missing.     *)
Groups == [pi : Stations, err : {0, 1}] \cup [pi : {None}, err : {3}]

MainPlaces == {"run", "publish", "mute", "raise", "clear", "stopping", "join", "stopped"}
WorkerPlaces == {"test", "wait", "asleep", "decode", "report", "done"}

TypeOK ==
  /\ main \in MainPlaces /\ worker \in WorkerPlaces
  /\ requested \in Stations /\ tuned \in Stations /\ shown \in Stations
  /\ pending \in BOOLEAN /\ reset \in BOOLEAN /\ stop \in BOOLEAN
  /\ asking \in Stations \cup {None}
  /\ tunes \in 0..MaxTunes /\ groups \in 0..MaxGroups /\ mute \in 0..MuteBlocks
  /\ device \in Seq(Stations) /\ Len(device) <= Backlog
  /\ sent \in 0..MaxBlocks /\ fed \in 0..MaxBlocks /\ lost \in SUBSET (0..MaxBlocks)
  /\ queue \in Seq(Blocks) /\ Len(queue) <= QueueLimit
  /\ block \in Blocks /\ register \in SUBSET Stations
  /\ pi \in [of : [0..(Window - 1) -> Stations \cup {None}],
             errs : SUBSET (0..(Window - 1)), pos : 0..(Window - 1),
             fill : 0..Window, last : Stations \cup {None}]
  /\ heard \in Seq(Groups)

ClearedPi ==
  [of |-> [i \in 0..(Window - 1) |-> None], errs |-> {}, pos |-> Window - 1,
   fill |-> 0, last |-> None]

Init ==
  /\ main = "run" /\ worker = "test"
  /\ tuned = FirstStation /\ requested = FirstStation /\ shown = FirstStation
  /\ pending = FALSE /\ asking = None /\ tunes = MaxTunes
  /\ mute = MuteBlocks /\ device = <<>>
  /\ sent = 0 /\ queue = <<>> /\ reset = FALSE /\ stop = FALSE
  /\ block = NoBlock /\ register = {} /\ groups = MaxGroups
  /\ pi = ClearedPi /\ heard = <<>> /\ fed = 0 /\ lost = {}

-------------------------------------------------------------------------------
(* Clients.  An XDR session shows the frequency before it requests it; the *)
(* REST interface only requests it.                                        *)

XdrShow(s) ==
  /\ asking = None /\ tunes > 0
  /\ tunes' = tunes - 1 /\ shown' = s /\ asking' = s
  /\ UNCHANGED <<main, requested, pending, receiver, feed, decoder, piState, history>>

XdrRequest ==
  /\ asking # None
  /\ requested' = asking /\ pending' = TRUE /\ asking' = None
  /\ UNCHANGED <<main, tunes, shown, receiver, feed, decoder, piState, history>>

RestTune(s) ==
  /\ tunes > 0
  /\ tunes' = tunes - 1 /\ requested' = s /\ pending' = TRUE
  /\ UNCHANGED <<main, asking, shown, receiver, feed, decoder, piState, history>>

(* The device (external) receives the station it is tuned to.              *)
Receive ==
  /\ Len(device) < Backlog
  /\ device' = Append(device, tuned)
  /\ UNCHANGED <<main, tuning, tuned, mute, shown, feed, decoder, piState, history>>

-------------------------------------------------------------------------------
(* The main loop.                                                          *)

(* The worker holds the queue's lock between its test and its sleep.       *)
LockFree == worker # "wait"

Notified == IF worker = "asleep" THEN "test" ELSE worker

Retune ==
  /\ main = "run" /\ pending
  /\ pending' = FALSE /\ tuned' = requested /\ main' = "publish"
  /\ UNCHANGED <<requested, asking, tunes, mute, device, shown, feed, decoder, piState,
                 history>>

(* The device refuses the frequency: the request is dropped.               *)
RetuneFails ==
  /\ main = "run" /\ pending
  /\ pending' = FALSE
  /\ UNCHANGED <<main, requested, asking, tunes, receiver, shown, feed, decoder, piState,
                 history>>

(* setFrequencyState clears the PI unless the frequency is already shown.  *)
ClearPi ==
  /\ main = "publish" /\ main' = "mute"
  /\ IF tuned # shown THEN pi' = ClearedPi /\ heard' = <<>> ELSE UNCHANGED piState
  /\ UNCHANGED <<tuning, receiver, shown, feed, decoder, history>>

(* Mutant: a retune lets the mute run out. *)
KeptMute == mute

Rearmed == MuteBlocks

PublishFrequency ==
  /\ main = "mute" /\ main' = "raise"
  /\ shown' = tuned /\ mute' = Rearmed
  /\ UNCHANGED <<tuning, tuned, device, feed, decoder, piState, history>>

(* requestReset raises the flag first and empties the queue after it.      *)
RaiseReset ==
  /\ main = "raise" /\ main' = "clear" /\ reset' = TRUE
  /\ UNCHANGED <<tuning, receiver, shown, sent, queue, stop, decoder, piState, history>>

ClearQueue ==
  /\ main = "clear" /\ LockFree
  /\ main' = "run" /\ queue' = <<>>
  /\ lost' = lost \cup {queue[i].n : i \in 1..Len(queue)}
  /\ worker' = Notified
  /\ UNCHANGED <<tuning, receiver, shown, sent, reset, stop, block, register, groups,
                 piState, fed>>

(* Mutant: one block too many is kept. *)
EnqueuedLate(b) == IF Len(queue) > QueueLimit THEN queue ELSE Append(queue, b)

(* Mutant: the oldest block makes room. *)
EnqueuedOverOldest(b) ==
  IF Len(queue) >= QueueLimit THEN Append(Tail(queue), b) ELSE Append(queue, b)

(* The newest block is the one dropped when the queue is full.             *)
Enqueued(b) == IF Len(queue) >= QueueLimit THEN queue ELSE Append(queue, b)

ReadBlock ==
  /\ main = "run" /\ LockFree /\ sent < MaxBlocks /\ device # <<>>
  /\ device' = Tail(device) /\ mute' = (IF mute > 0 THEN mute - 1 ELSE 0)
  /\ sent' = sent + 1
  /\ queue' = Enqueued([n |-> sent + 1, of |-> IF mute > 0 THEN None ELSE Head(device)])
  /\ IF Len(queue) >= QueueLimit
     THEN lost' = lost \cup {sent + 1} /\ worker' = worker
     ELSE lost' = lost /\ worker' = Notified
  /\ UNCHANGED <<main, tuning, tuned, shown, reset, stop, block, register, groups, piState,
                 fed>>

(* stop() stores, notifies without the lock, and joins.                    *)
StopWorker ==
  /\ main = "run" /\ main' = "stopping" /\ stop' = TRUE
  /\ UNCHANGED <<tuning, receiver, shown, sent, queue, reset, decoder, piState, history>>

NotifyStop ==
  /\ main = "stopping" /\ main' = "join" /\ worker' = Notified
  /\ UNCHANGED <<tuning, receiver, shown, feed, block, register, groups, piState, history>>

JoinWorker ==
  /\ main = "join" /\ worker = "done" /\ main' = "stopped"
  /\ UNCHANGED <<tuning, receiver, shown, feed, decoder, piState, history>>

MainStep ==
  \/ Retune \/ RetuneFails \/ ClearPi \/ PublishFrequency \/ RaiseReset \/ ClearQueue
  \/ ReadBlock \/ StopWorker \/ NotifyStop \/ JoinWorker

-------------------------------------------------------------------------------
(* The worker.                                                             *)

Remaining == IF queue = <<>> THEN <<>> ELSE Tail(queue)

(* Under the lock: leave, or take the flag and the oldest block.           *)
TakeBlock ==
  IF stop
  THEN worker' = "done" /\ UNCHANGED <<reset, queue, block, register>>
  ELSE /\ reset' = FALSE
       /\ register' = (IF reset THEN {} ELSE register)
       /\ queue' = Remaining
       /\ block' = (IF queue = <<>> THEN NoBlock ELSE Head(queue))
       /\ worker' = (IF queue = <<>> THEN "test" ELSE "decode")

WakeCondition == stop \/ reset \/ queue # <<>>

Test ==
  /\ worker = "test"
  /\ IF WakeCondition THEN TakeBlock
     ELSE worker' = "wait" /\ UNCHANGED <<reset, queue, block, register>>
  /\ UNCHANGED <<main, tuning, receiver, shown, sent, stop, groups, piState, history>>

FallAsleep ==
  /\ worker = "wait" /\ worker' = "asleep"
  /\ UNCHANGED <<main, tuning, receiver, shown, feed, block, register, groups, piState,
                 history>>

(* Mutant: the worker waits without a time limit. *)
NoTimeLimit == FALSE

(* wait_for returns after 50 ms, whatever its condition says.              *)
TimeLimit == TRUE

TimeOut ==
  /\ worker = "asleep" /\ TimeLimit /\ TakeBlock
  /\ UNCHANGED <<main, tuning, receiver, shown, sent, stop, groups, piState, history>>

Decode ==
  /\ worker = "decode" /\ worker' = "report"
  /\ register' = register \cup ({block.of} \cap Stations)
  /\ fed' = block.n
  /\ UNCHANGED <<main, tuning, receiver, shown, feed, block, groups, piState, lost>>

(* What the decoder can make of its bits: block A intact from a station    *)
(* they came from, corrected (rightly or not), or not recognised.          *)
Decodable(g) == g.err = 0 => g.pi \in register

(* evaluatePiState: 0 correct, 1 very likely, 2 likely, 3 unlikely, 4 not. *)
PiState(p, value) ==
  LET same == {i \in 0..(p.fill - 1) : p.of[i] = value}
      correct == Cardinality(same \ p.errs)
  IN  CASE correct >= 2 -> 0
        [] correct < 2 /\ Cardinality(same) >= 2 /\ correct > 0 -> 1
        [] Cardinality(same) >= 3 /\ correct = 0 -> 2
        [] Cardinality(same) = 2 /\ correct = 0 -> 3
        [] Cardinality(same) = 1 /\ correct = 1 -> 3
        [] OTHER -> 4

(* Mutant: the error bit of an overwritten entry survives. *)
EnteredOverErrors(g) ==
  LET at == (pi.pos + 1) % Window
  IN  [pi EXCEPT !.pos = at, !.of[at] = g.pi,
                 !.errs = IF g.err = 0 THEN @ ELSE @ \cup {at},
                 !.fill = IF @ < Window THEN @ + 1 ELSE @]

(* The group is written over the oldest entry, its error bit included.     *)
Entered(g) ==
  LET at == (pi.pos + 1) % Window
  IN  [pi EXCEPT !.pos = at, !.of[at] = g.pi,
                 !.errs = IF g.err = 0 THEN @ \ {at} ELSE @ \cup {at},
                 !.fill = IF @ < Window THEN @ + 1 ELSE @]

Debounced(p, g) == g.err # 3 /\ PiState(p, g.pi) <= 1

UpdateRDS(g) ==
  /\ pi' = [Entered(g) EXCEPT !.last = IF Debounced(Entered(g), g) THEN g.pi ELSE @]
  /\ heard' = Append(heard, g)

Report(g) ==
  /\ worker = "report" /\ groups > 0 /\ Decodable(g)
  /\ groups' = groups - 1 /\ register' = {block.of} \cap Stations
  /\ UpdateRDS(g)
  /\ UNCHANGED <<main, tuning, receiver, shown, feed, worker, block, history>>

EndBlock ==
  /\ worker = "report" /\ worker' = "test"
  /\ UNCHANGED <<main, tuning, receiver, shown, feed, block, register, groups, piState,
                 history>>

WorkerMoves == Test \/ FallAsleep \/ TimeOut \/ Decode \/ EndBlock

Next ==
  \/ \E s \in Stations : XdrShow(s) \/ RestTune(s)
  \/ XdrRequest \/ Receive \/ MainStep
  \/ WorkerMoves \/ \E g \in Groups : Report(g)

(* Fairness: the worker, whose decoder reports finitely many groups of a   *)
(* block, and a loop that is in the middle of a retune or a stop.          *)
Spec ==
  /\ Init /\ [][Next]_vars
  /\ WF_vars(WorkerMoves)
  /\ WF_vars(MainStep /\ main # "run")

-------------------------------------------------------------------------------
(* The worker decodes blocks in the order they were sent, and leaves out   *)
(* only those that a full queue or a reset dropped (RdsWorker::enqueue     *)
(* promises continuity under overload).                                    *)
ContinuousFeed ==
  [][worker = "decode" /\ worker' # "decode" =>
       /\ fed' > fed
       /\ (fed + 1)..(fed' - 1) \subseteq lost]_vars

(* Once a retune is over, nothing the worker has still to take comes from  *)
(* another station than the one tuned, although the device still delivers  *)
(* blocks it received before (requestReset and the mute of the MPX tap).   *)
QueueIsFresh ==
  main = "run" => \A i \in 1..Len(queue) : queue[i].of \in {tuned, None}

(* The PI shown is that of the last group since the PI was cleared that    *)
(* had a block A and whose PI at least two of the last Window groups have, *)
(* one of them intact: what the ring of 64 entries, its packed error bits  *)
(* and the five states of evaluatePiState amount to.                       *)
Alike(j) == {i \in 1..j : i > j - Window /\ heard[i].pi = heard[j].pi}

Confirmed(j) ==
  /\ heard[j].err # 3
  /\ Cardinality(Alike(j)) >= 2 /\ \E i \in Alike(j) : heard[i].err = 0

PiDebounced ==
  LET good == {j \in 1..Len(heard) : Confirmed(j)}
  IN  pi.last = IF good = {} THEN None
                ELSE heard[CHOOSE j \in good : \A k \in good : k <= j].pi

(* stop() returns: the notification may come between the worker's test and *)
(* its sleep, but the sleep has a time limit.                              *)
StopReturns == (main = "stopping") ~> (main = "stopped")

===============================================================================
