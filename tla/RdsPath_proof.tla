---------------------------- MODULE RdsPath_proof -----------------------------
(***************************************************************************)
(* Theorems about RdsPath, for every set of stations, every size of the    *)
(* queue, the debounce window, the mute and the device's backlog.          *)
(***************************************************************************)
EXTENDS RdsPath, SequenceTheorems, FiniteSetTheorems, TLAPS

-------------------------------------------------------------------------------
(* A block that is read only shortens the device's backlog.                *)
LEMMA TailType ==
  ASSUME NEW S, NEW s \in Seq(S), s # <<>>
  PROVE  /\ Tail(s) \in Seq(S) /\ Head(s) \in S /\ Len(s) \in Nat
         /\ Len(Tail(s)) = Len(s) - 1
         /\ \A i \in 1..Len(Tail(s)) : Tail(s)[i] = s[i + 1]
BY HeadTailProperties, LenProperties

(* What the queue holds after a block was offered.                         *)
LEMMA EnqueuedType ==
  ASSUME TypeOK, NEW b \in Blocks
  PROVE  /\ Enqueued(b) \in Seq(Blocks) /\ Len(Enqueued(b)) <= QueueLimit
         /\ \A i \in 1..Len(Enqueued(b)) :
              Enqueued(b)[i] = b \/ \E j \in 1..Len(queue) : Enqueued(b)[i] = queue[j]
<1>1. queue \in Seq(Blocks) /\ Len(queue) \in Nat /\ Len(queue) <= QueueLimit
  BY LenProperties DEF TypeOK
<1>2. CASE Len(queue) >= QueueLimit
  BY <1>1, <1>2 DEF Enqueued
<1>3. CASE ~(Len(queue) >= QueueLimit)
  <2>1. /\ Append(queue, b) \in Seq(Blocks) /\ Len(Append(queue, b)) = Len(queue) + 1
        /\ \A i \in 1..Len(queue) : Append(queue, b)[i] = queue[i]
        /\ Append(queue, b)[Len(queue) + 1] = b
    BY <1>1, AppendProperties
  <2>2. Enqueued(b) = Append(queue, b)
    BY <1>3 DEF Enqueued
  <2>3. QueueLimit \in Nat
    BY SizesAssumption
  <2>4. ASSUME NEW i \in 1..(Len(queue) + 1)
        PROVE  i \in 1..Len(queue) \/ i = Len(queue) + 1
    BY <1>1
  <2> QED
    BY <1>1, <1>3, <2>1, <2>2, <2>3, <2>4
<1> QED
  BY <1>2, <1>3

(* What is left of the queue after the worker took a block.                *)
LEMMA RemainingType ==
  ASSUME TypeOK
  PROVE  /\ Remaining \in Seq(Blocks) /\ Len(Remaining) <= QueueLimit
         /\ \A i \in 1..Len(Remaining) : \E j \in 1..Len(queue) : Remaining[i] = queue[j]
         /\ queue # <<>> => Head(queue) \in Blocks
<1>1. queue \in Seq(Blocks) /\ Len(queue) \in Nat /\ Len(queue) <= QueueLimit
  BY LenProperties DEF TypeOK
<1>2. QueueLimit \in Nat
  BY SizesAssumption
<1>3. CASE queue = <<>>
  BY <1>1, <1>2, <1>3, EmptySeq DEF Remaining
<1>4. CASE queue # <<>>
  <2>1. Remaining = Tail(queue)
    BY <1>4 DEF Remaining
  <2>2. /\ Tail(queue) \in Seq(Blocks) /\ Head(queue) \in Blocks
        /\ Len(Tail(queue)) = Len(queue) - 1
        /\ \A i \in 1..Len(Tail(queue)) : Tail(queue)[i] = queue[i + 1]
    BY <1>1, <1>4, TailType
  <2>3. \A i \in 1..(Len(queue) - 1) : i + 1 \in 1..Len(queue)
    BY <1>1
  <2> QED
    BY <1>1, <1>2, <2>1, <2>2, <2>3
<1> QED
  BY <1>3, <1>4

-------------------------------------------------------------------------------
(* The debounce state.                                                     *)
PiType ==
  [of : [0..(Window - 1) -> Stations \cup {None}],
   errs : SUBSET (0..(Window - 1)), pos : 0..(Window - 1),
   fill : 0..Window, last : Stations \cup {None}]

LEMMA ClearedPiType == ClearedPi \in PiType
BY SizesAssumption DEF ClearedPi, PiType

LEMMA EnteredType ==
  ASSUME pi \in PiType, NEW g \in Groups
  PROVE  Entered(g) \in PiType
<1> DEFINE at == (pi.pos + 1) % Window
<1>1. pi.pos \in Nat /\ Window \in Nat \ {0}
  BY SizesAssumption DEF PiType
<1>2. at \in 0..(Window - 1)
  BY <1>1
<1>3. g.pi \in Stations \cup {None}
  BY DEF Groups
<1> DEFINE of == [pi.of EXCEPT ![at] = g.pi]
           errs == IF g.err = 0 THEN pi.errs \ {at} ELSE pi.errs \cup {at}
           fill == IF pi.fill < Window THEN pi.fill + 1 ELSE pi.fill
<1>4. of \in [0..(Window - 1) -> Stations \cup {None}]
  BY <1>3 DEF PiType
<1>5. errs \in SUBSET (0..(Window - 1)) /\ fill \in 0..Window
  BY <1>1, <1>2 DEF PiType
<1>6. Entered(g) = [of |-> of, errs |-> errs, pos |-> at, fill |-> fill, last |-> pi.last]
  <2>1. Entered(g) = [pi EXCEPT !.pos = at, !.of = of, !.errs = errs, !.fill = fill]
    BY Zenon DEF Entered
  <2> HIDE DEF at, of, errs, fill
  <2> QED
    BY <2>1 DEF PiType
<1> HIDE DEF at, of, errs, fill
<1> QED
  BY <1>2, <1>4, <1>5, <1>6 DEF PiType

(* What the five states of evaluatePiState amount to: a PI is shown when   *)
(* two of the entries have it and one of those is intact.                  *)
LEMMA DebounceRule ==
  ASSUME NEW p \in PiType, NEW value
  PROVE  LET same == {i \in 0..(p.fill - 1) : p.of[i] = value}
         IN  PiState(p, value) <= 1 <=> Cardinality(same) >= 2 /\ same \ p.errs # {}
<1> DEFINE same == {i \in 0..(p.fill - 1) : p.of[i] = value}
           right == same \ p.errs
<1>1. p.fill \in Nat
  BY SizesAssumption DEF PiType
<1>2. IsFiniteSet(same) /\ IsFiniteSet(right) /\ right \subseteq same
  <2>1. IsFiniteSet(0..(p.fill - 1))
    BY <1>1, FS_Interval
  <2> QED
    BY <2>1, FS_Subset
<1>3. /\ Cardinality(same) \in Nat /\ Cardinality(right) \in Nat
      /\ Cardinality(right) <= Cardinality(same)
      /\ (Cardinality(right) = 0 <=> right = {})
  BY <1>2, FS_CardinalityType, FS_Subset, FS_EmptySet
<1>4. PiState(p, value) =
        CASE Cardinality(right) >= 2 -> 0
          [] Cardinality(right) < 2 /\ Cardinality(same) >= 2 /\ Cardinality(right) > 0 -> 1
          [] Cardinality(same) >= 3 /\ Cardinality(right) = 0 -> 2
          [] Cardinality(same) = 2 /\ Cardinality(right) = 0 -> 3
          [] Cardinality(same) = 1 /\ Cardinality(right) = 1 -> 3
          [] OTHER -> 4
  BY DEF PiState
<1> HIDE DEF same, right
<1>5. PiState(p, value) <= 1 <=> Cardinality(same) >= 2 /\ right # {}
  BY <1>3, <1>4
<1> QED
  BY <1>5 DEF same, right

LEMMA UpdateType ==
  ASSUME TypeOK, NEW g \in Groups, UpdateRDS(g)
  PROVE  pi' \in PiType /\ heard' \in Seq(Groups)
<1>1. pi \in PiType /\ heard \in Seq(Groups)
  BY DEF TypeOK, PiType
<1>2. Entered(g) \in PiType
  BY <1>1, EnteredType
<1>3. g.pi \in Stations \cup {None}
  BY DEF Groups
<1>4. pi' = [Entered(g) EXCEPT !.last = IF Debounced(Entered(g), g) THEN g.pi ELSE @]
  BY DEF UpdateRDS
<1>5. pi' \in PiType
  BY <1>2, <1>3, <1>4 DEF PiType
<1>6. heard' \in Seq(Groups)
  BY <1>1, AppendProperties DEF UpdateRDS
<1> QED
  BY <1>5, <1>6

-------------------------------------------------------------------------------
(* The parts of TypeOK that the steps of one thread touch.                 *)
TuningType ==
  requested \in Stations /\ pending \in BOOLEAN /\ asking \in Stations \cup {None}
  /\ tunes \in 0..MaxTunes /\ shown \in Stations

ReceiverType ==
  tuned \in Stations /\ mute \in 0..MuteBlocks /\ device \in Seq(Stations)
  /\ Len(device) <= Backlog

FeedType ==
  /\ sent \in 0..MaxBlocks /\ queue \in Seq(Blocks) /\ Len(queue) <= QueueLimit
  /\ reset \in BOOLEAN /\ stop \in BOOLEAN

DecoderType ==
  worker \in WorkerPlaces /\ block \in Blocks /\ register \in SUBSET Stations
  /\ groups \in 0..MaxGroups

HistoryType == fed \in 0..MaxBlocks /\ lost \in SUBSET (0..MaxBlocks)

PiStateType == pi \in PiType /\ heard \in Seq(Groups)

LEMMA Types ==
  TypeOK <=> /\ main \in MainPlaces /\ TuningType /\ ReceiverType /\ FeedType
             /\ DecoderType /\ HistoryType /\ PiStateType
BY DEF TypeOK, TuningType, ReceiverType, FeedType, DecoderType, HistoryType, PiStateType,
       PiType

(* The same about the next state, for the leaves below.                    *)
LEMMA NextTypes ==
  ASSUME main' \in MainPlaces, TuningType', ReceiverType', FeedType', DecoderType',
         HistoryType', PiStateType'
  PROVE  TypeOK'
BY DEF TypeOK, TuningType, ReceiverType, FeedType, DecoderType, HistoryType, PiStateType,
       PiType

LEMMA NotifiedType == ASSUME TypeOK PROVE Notified \in WorkerPlaces
BY DEF TypeOK, Notified, WorkerPlaces

(* Taking a block, or leaving, keeps the worker's and the queue's types.   *)
LEMMA TakeBlockType ==
  ASSUME TypeOK, TakeBlock
  PROVE  /\ worker' \in WorkerPlaces /\ reset' \in BOOLEAN /\ block' \in Blocks
         /\ register' \in SUBSET Stations
         /\ queue' \in Seq(Blocks) /\ Len(queue') <= QueueLimit
         /\ \A i \in 1..Len(queue') : \E j \in 1..Len(queue) : queue'[i] = queue[j]
<1>0. /\ queue \in Seq(Blocks) /\ Len(queue) <= QueueLimit /\ reset \in BOOLEAN
      /\ block \in Blocks /\ register \in SUBSET Stations
  BY DEF TypeOK
<1>1. CASE stop
  BY <1>0, <1>1 DEF TakeBlock, WorkerPlaces
<1>2. CASE ~stop
  <2>1. /\ Remaining \in Seq(Blocks) /\ Len(Remaining) <= QueueLimit
        /\ \A i \in 1..Len(Remaining) : \E j \in 1..Len(queue) : Remaining[i] = queue[j]
        /\ queue # <<>> => Head(queue) \in Blocks
    BY RemainingType
  <2>2. NoBlock \in Blocks
    BY BoundsAssumption DEF NoBlock, Blocks
  <2>3. /\ reset' = FALSE /\ register' = (IF reset THEN {} ELSE register)
        /\ queue' = Remaining
        /\ block' = (IF queue = <<>> THEN NoBlock ELSE Head(queue))
        /\ worker' = (IF queue = <<>> THEN "test" ELSE "decode")
    BY <1>2 DEF TakeBlock
  <2> QED
    BY <1>0, <2>1, <2>2, <2>3 DEF WorkerPlaces
<1> QED
  BY <1>1, <1>2

-------------------------------------------------------------------------------
(* What is in the device beyond the mute is from the station tuned, except *)
(* while a retune has not yet restarted the mute.                          *)
BacklogMuted ==
  main \notin {"publish", "mute"} =>
    \A i \in 1..Len(device) : i > mute => device[i] = tuned

FreshInv == TypeOK /\ BacklogMuted /\ QueueIsFresh

LEMMA InitFresh == Init => FreshInv
<1> SUFFICES ASSUME Init PROVE FreshInv
  OBVIOUS
<1>1. main \in MainPlaces /\ DecoderType
  BY BoundsAssumption DEF Init, MainPlaces, DecoderType, WorkerPlaces, NoBlock, Blocks
<1>2. TuningType
  <2>1. pending \in BOOLEAN
    BY Zenon DEF Init
  <2>2. requested \in Stations /\ asking = None /\ tunes \in 0..MaxTunes /\ shown \in Stations
    BY StationsAssumption, BoundsAssumption DEF Init
  <2> QED
    BY <2>1, <2>2 DEF TuningType
<1>3. device = <<>> /\ queue = <<>> /\ heard = <<>>
  BY DEF Init
<1>4. ReceiverType
  BY <1>3, StationsAssumption, BacklogAssumption, SizesAssumption, EmptySeq
     DEF Init, ReceiverType
<1>5. FeedType
  <2>1. reset \in BOOLEAN /\ stop \in BOOLEAN
    BY Zenon DEF Init
  <2>2. sent \in 0..MaxBlocks /\ queue \in Seq(Blocks) /\ Len(queue) <= QueueLimit
    BY <1>3, BoundsAssumption, SizesAssumption, EmptySeq DEF Init
  <2> QED
    BY <2>1, <2>2 DEF FeedType
<1>6. HistoryType
  BY BoundsAssumption DEF Init, HistoryType
<1>7. PiStateType
  BY <1>3, ClearedPiType, EmptySeq DEF Init, PiStateType
<1>8. TypeOK
  BY <1>1, <1>2, <1>4, <1>5, <1>6, <1>7, Types
<1>9. BacklogMuted /\ QueueIsFresh
  BY <1>3 DEF BacklogMuted, QueueIsFresh
<1> QED
  BY <1>8, <1>9 DEF FreshInv

(* A step that leaves the receiver and the feed alone and the loop where   *)
(* it is only has to keep the other types.                                 *)
LEMMA Aside ==
  ASSUME FreshInv, main' = main, UNCHANGED <<receiver, feed>>,
         TuningType', DecoderType', HistoryType', PiStateType'
  PROVE  FreshInv'
<1>1. main' \in MainPlaces /\ ReceiverType' /\ FeedType'
  BY DEF FreshInv, TypeOK, ReceiverType, FeedType, receiver, feed
<1>2. TypeOK'
  BY <1>1, NextTypes
<1>3. BacklogMuted' /\ QueueIsFresh'
  BY DEF FreshInv, BacklogMuted, QueueIsFresh, receiver, feed
<1> QED
  BY <1>2, <1>3 DEF FreshInv

(* The parts of the types that a step leaves alone.                        *)
LEMMA Frames ==
  ASSUME TypeOK
  PROVE  /\ UNCHANGED <<tuning, shown>> => TuningType'
         /\ UNCHANGED receiver => ReceiverType'
         /\ UNCHANGED feed => FeedType'
         /\ UNCHANGED decoder => DecoderType'
         /\ UNCHANGED history => HistoryType'
         /\ UNCHANGED piState => PiStateType'
BY DEF TypeOK, PiType, TuningType, ReceiverType, FeedType, DecoderType, HistoryType,
       PiStateType, tuning, receiver, feed, decoder, history, piState

LEMMA ClientStepFresh ==
  ASSUME FreshInv,
         (\E s \in Stations : XdrShow(s) \/ RestTune(s)) \/ XdrRequest \/ RetuneFails
  PROVE  FreshInv'
<1>1. TypeOK
  BY DEF FreshInv
<1>2. /\ tunes \in 0..MaxTunes /\ MaxTunes \in Nat /\ requested \in Stations
      /\ asking \in Stations \cup {None} /\ pending \in BOOLEAN /\ shown \in Stations
  BY <1>1, BoundsAssumption DEF TypeOK
<1>3. main' = main /\ UNCHANGED <<receiver, feed, decoder, piState, history>>
  BY DEF XdrShow, RestTune, XdrRequest, RetuneFails
<1>4. TuningType'
  <2>1. ASSUME NEW s \in Stations, XdrShow(s)
        PROVE  TuningType'
    BY <1>2, <2>1 DEF XdrShow, TuningType
  <2>2. ASSUME NEW s \in Stations, RestTune(s)
        PROVE  TuningType'
    BY <1>2, <2>2 DEF RestTune, TuningType
  <2>3. CASE XdrRequest
    BY <1>2, <2>3 DEF XdrRequest, TuningType
  <2>4. CASE RetuneFails
    BY <1>2, <2>4 DEF RetuneFails, TuningType
  <2> QED
    BY <2>1, <2>2, <2>3, <2>4
<1> QED
  BY <1>1, <1>3, <1>4, Frames, Aside

LEMMA ReceiveFresh ==
  ASSUME FreshInv, Receive
  PROVE  FreshInv'
<1>1. /\ TypeOK /\ device \in Seq(Stations) /\ tuned \in Stations /\ Len(device) \in Nat
      /\ mute \in 0..MuteBlocks
  BY LenProperties DEF FreshInv, TypeOK
<1>2. /\ device' = Append(device, tuned) /\ Len(device) < Backlog
      /\ main' = main /\ UNCHANGED <<tuning, tuned, mute, shown, feed, decoder, piState, history>>
  BY DEF Receive
<1>3. /\ device' \in Seq(Stations) /\ Len(device') = Len(device) + 1
      /\ \A i \in 1..Len(device) : device'[i] = device[i]
      /\ device'[Len(device) + 1] = tuned
  BY <1>1, <1>2, AppendProperties
<1>4. ReceiverType'
  BY <1>1, <1>2, <1>3, BacklogAssumption DEF ReceiverType
<1>5. TypeOK'
  <2>1. main' \in MainPlaces
    BY <1>1, <1>2 DEF TypeOK
  <2> QED
    BY <1>1, <1>2, <1>4, <2>1, Frames, NextTypes
<1>6. BacklogMuted'
  <2>1. SUFFICES ASSUME main \notin {"publish", "mute"}, NEW i \in 1..(Len(device) + 1), i > mute
                 PROVE  device'[i] = tuned
    BY <1>2, <1>3 DEF BacklogMuted
  <2>2. CASE i \in 1..Len(device)
    BY <1>3, <2>1, <2>2 DEF FreshInv, BacklogMuted
  <2>3. CASE i \notin 1..Len(device)
    BY <1>1, <1>3, <2>1, <2>3
  <2> QED
    BY <2>2, <2>3
<1>7. QueueIsFresh'
  BY <1>2 DEF FreshInv, QueueIsFresh, feed
<1> QED
  BY <1>5, <1>6, <1>7 DEF FreshInv

-------------------------------------------------------------------------------
(* The steps of a retune.                                                  *)
LEMMA RetuneFresh ==
  ASSUME FreshInv, Retune \/ ClearPi \/ PublishFrequency \/ RaiseReset
  PROVE  FreshInv'
<1>1. /\ TypeOK /\ tuned \in Stations /\ requested \in Stations /\ asking \in Stations \cup {None}
      /\ tunes \in 0..MaxTunes /\ mute \in 0..MuteBlocks /\ shown \in Stations
      /\ device \in Seq(Stations) /\ Len(device) <= Backlog /\ Len(device) \in Nat
      /\ pending \in BOOLEAN
  BY LenProperties DEF FreshInv, TypeOK
<1>2. CASE Retune
  <2>1. TuningType'
    BY <1>1, <1>2 DEF Retune, TuningType
  <2>2. ReceiverType'
    BY <1>1, <1>2 DEF Retune, ReceiverType
  <2>3. main' = "publish" /\ UNCHANGED <<feed, decoder, piState, history>>
    BY <1>2 DEF Retune
  <2>4. TypeOK'
    BY <1>1, <2>1, <2>2, <2>3, Frames, NextTypes DEF MainPlaces
  <2> QED
    BY <2>3, <2>4 DEF FreshInv, BacklogMuted, QueueIsFresh
<1>3. CASE ClearPi
  <2>1. /\ main = "publish" /\ main' = "mute"
        /\ UNCHANGED <<tuning, receiver, shown, feed, decoder, history>>
    BY <1>3 DEF ClearPi
  <2>2. PiStateType'
    <3>1. CASE UNCHANGED piState
      BY <1>1, <3>1, Frames
    <3>2. CASE pi' = ClearedPi /\ heard' = <<>>
      BY <3>2, ClearedPiType, EmptySeq DEF PiStateType
    <3> QED
      BY <1>3, <3>1, <3>2 DEF ClearPi
  <2>3. TypeOK'
    BY <1>1, <2>1, <2>2, Frames, NextTypes DEF MainPlaces
  <2> QED
    BY <2>1, <2>3 DEF FreshInv, BacklogMuted, QueueIsFresh
<1>4. CASE PublishFrequency
  <2>1. /\ main' = "raise" /\ shown' = tuned /\ mute' = MuteBlocks
        /\ UNCHANGED <<tuning, tuned, device, feed, decoder, piState, history>>
    BY <1>4 DEF PublishFrequency, Rearmed
  <2>2. TuningType' /\ ReceiverType'
    BY <1>1, <2>1, SizesAssumption DEF TuningType, ReceiverType, tuning
  <2>3. TypeOK'
    BY <1>1, <2>1, <2>2, Frames, NextTypes DEF MainPlaces
  <2>4. BacklogMuted'
    <3>1. \A i \in 1..Len(device) : ~(i > MuteBlocks)
      BY <1>1, BacklogAssumption, SizesAssumption
    <3> QED
      BY <2>1, <3>1 DEF BacklogMuted
  <2> QED
    BY <2>1, <2>3, <2>4 DEF FreshInv, QueueIsFresh
<1>5. CASE RaiseReset
  <2>1. /\ main = "raise" /\ main' = "clear" /\ reset' = TRUE
        /\ UNCHANGED <<tuning, receiver, shown, sent, queue, stop, decoder, piState, history>>
    BY <1>5 DEF RaiseReset
  <2>2. FeedType'
    BY <1>1, <2>1 DEF TypeOK, FeedType
  <2>3. TypeOK'
    BY <1>1, <2>1, <2>2, Frames, NextTypes DEF MainPlaces
  <2> QED
    BY <2>1, <2>3 DEF FreshInv, BacklogMuted, QueueIsFresh, receiver
<1> QED
  BY <1>2, <1>3, <1>4, <1>5

LEMMA ClearQueueFresh ==
  ASSUME FreshInv, ClearQueue
  PROVE  FreshInv'
<1>1. TypeOK /\ queue \in Seq(Blocks) /\ lost \in SUBSET (0..MaxBlocks)
  BY DEF FreshInv, TypeOK
<1>2. /\ main = "clear" /\ main' = "run" /\ queue' = <<>>
      /\ UNCHANGED <<tuning, receiver, shown, sent, reset, stop, block, register, groups,
                     piState, fed>>
      /\ worker' = Notified /\ lost' = lost \cup {queue[i].n : i \in 1..Len(queue)}
  BY DEF ClearQueue
<1>3. FeedType'
  BY <1>1, <1>2, EmptySeq, SizesAssumption DEF TypeOK, FeedType
<1>4. DecoderType'
  BY <1>1, <1>2, NotifiedType DEF TypeOK, DecoderType
<1>5. HistoryType'
  <2>1. \A i \in 1..Len(queue) : queue[i] \in Blocks
    BY <1>1, ElementOfSeq
  <2>2. fed \in 0..MaxBlocks
    BY <1>1 DEF TypeOK
  <2> QED
    BY <1>1, <1>2, <2>1, <2>2 DEF HistoryType, Blocks
<1>6. TypeOK'
  BY <1>1, <1>2, <1>3, <1>4, <1>5, Frames, NextTypes DEF MainPlaces
<1>7. BacklogMuted' /\ QueueIsFresh'
  BY <1>2 DEF FreshInv, BacklogMuted, QueueIsFresh, receiver
<1> QED
  BY <1>6, <1>7 DEF FreshInv

LEMMA ReadBlockFresh ==
  ASSUME FreshInv, ReadBlock
  PROVE  FreshInv'
<1> DEFINE b == [n |-> sent + 1, of |-> IF mute > 0 THEN None ELSE Head(device)]
<1>1. /\ TypeOK /\ device \in Seq(Stations) /\ sent \in 0..MaxBlocks /\ mute \in 0..MuteBlocks
      /\ MuteBlocks \in Nat /\ MaxBlocks \in Nat /\ tuned \in Stations
      /\ lost \in SUBSET (0..MaxBlocks) /\ fed \in 0..MaxBlocks /\ Len(device) <= Backlog
      /\ Backlog \in Nat
  BY SizesAssumption, BoundsAssumption, BacklogAssumption DEF FreshInv, TypeOK
<1>2. /\ main = "run" /\ sent < MaxBlocks /\ device # <<>>
      /\ device' = Tail(device) /\ mute' = (IF mute > 0 THEN mute - 1 ELSE 0)
      /\ sent' = sent + 1 /\ queue' = Enqueued(b)
      /\ lost' = lost \cup {sent + 1} \/ lost' = lost
      /\ worker' = worker \/ worker' = Notified
      /\ UNCHANGED <<main, tuning, tuned, shown, reset, stop, block, register, groups,
                     piState, fed>>
  BY DEF ReadBlock
<1>3. /\ Tail(device) \in Seq(Stations) /\ Head(device) \in Stations /\ Len(device) \in Nat
      /\ Len(Tail(device)) = Len(device) - 1
      /\ \A i \in 1..Len(Tail(device)) : Tail(device)[i] = device[i + 1]
  BY <1>1, <1>2, TailType
<1>4. b \in Blocks /\ b.of = (IF mute > 0 THEN None ELSE Head(device))
  BY <1>1, <1>2, <1>3 DEF Blocks
<1>5. Head(device) = device[1]
  BY <1>1, <1>2, HeadTailProperties
<1>6. mute = 0 => Head(device) = tuned
  <2>1. 1 \in 1..Len(device)
    BY <1>3, <1>1, <1>2, EmptySeq, LenProperties
  <2> QED
    BY <1>2, <1>5, <2>1 DEF FreshInv, BacklogMuted
<1>7. b.of \in {tuned, None}
  BY <1>1, <1>4, <1>6
<1> HIDE DEF b
<1>8. /\ Enqueued(b) \in Seq(Blocks) /\ Len(Enqueued(b)) <= QueueLimit
      /\ \A i \in 1..Len(Enqueued(b)) :
           Enqueued(b)[i] = b \/ \E j \in 1..Len(queue) : Enqueued(b)[i] = queue[j]
  BY <1>1, <1>4, EnqueuedType
<1>9. TypeOK'
  <2>1. ReceiverType'
    BY <1>1, <1>2, <1>3 DEF ReceiverType
  <2>2. FeedType'
    BY <1>1, <1>2, <1>8 DEF TypeOK, FeedType
  <2>3. DecoderType'
    BY <1>1, <1>2, NotifiedType DEF TypeOK, DecoderType
  <2>4. HistoryType'
    <3>1. lost' = lost \cup {sent + 1} => lost' \in SUBSET (0..MaxBlocks)
      BY <1>1, <1>2
    <3>2. fed' = fed
      BY <1>2
    <3> QED
      BY <1>1, <1>2, <3>1, <3>2 DEF HistoryType
  <2>5. main' \in MainPlaces
    BY <1>2 DEF MainPlaces
  <2> QED
    BY <1>1, <1>2, <2>1, <2>2, <2>3, <2>4, <2>5, Frames, NextTypes
<1>10. BacklogMuted'
  <2>1. ASSUME NEW i \in 1..Len(Tail(device)), i > mute'
        PROVE  Tail(device)[i] = tuned
    <3>1. i + 1 \in 1..Len(device) /\ i + 1 > mute
      BY <1>1, <1>2, <1>3, <2>1
    <3> QED
      BY <1>2, <1>3, <3>1 DEF FreshInv, BacklogMuted
  <2> QED
    BY <1>2, <2>1 DEF BacklogMuted
<1>11. QueueIsFresh'
  BY <1>2, <1>7, <1>8 DEF FreshInv, QueueIsFresh
<1> QED
  BY <1>9, <1>10, <1>11 DEF FreshInv

LEMMA StopFresh ==
  ASSUME FreshInv, StopWorker \/ NotifyStop \/ JoinWorker
  PROVE  FreshInv'
<1>1. TypeOK
  BY DEF FreshInv
<1>2. /\ main \in {"run", "stopping", "join"} /\ main' \in {"stopping", "join", "stopped"}
      /\ UNCHANGED <<tuning, receiver, shown, queue, sent, reset, block, register, groups,
                     piState, history>>
      /\ stop' = stop \/ stop' = TRUE
      /\ worker' = worker \/ worker' = Notified
  BY DEF StopWorker, NotifyStop, JoinWorker, feed, decoder
<1>3. FeedType'
  BY <1>1, <1>2 DEF TypeOK, FeedType
<1>4. DecoderType'
  BY <1>1, <1>2, NotifiedType DEF TypeOK, DecoderType
<1>5. TypeOK'
  BY <1>1, <1>2, <1>3, <1>4, Frames, NextTypes DEF MainPlaces
<1>6. BacklogMuted' /\ QueueIsFresh'
  BY <1>2 DEF FreshInv, BacklogMuted, QueueIsFresh, receiver
<1> QED
  BY <1>5, <1>6 DEF FreshInv

LEMMA MainStepFresh == ASSUME FreshInv, MainStep PROVE FreshInv'
BY ClientStepFresh, RetuneFresh, ClearQueueFresh, ReadBlockFresh, StopFresh DEF MainStep

-------------------------------------------------------------------------------
(* The steps of the worker.                                                *)
LEMMA TakeFresh ==
  ASSUME FreshInv, Test \/ TimeOut
  PROVE  FreshInv'
<1>1. /\ TypeOK /\ reset \in BOOLEAN /\ stop \in BOOLEAN /\ sent \in 0..MaxBlocks
      /\ queue \in Seq(Blocks) /\ Len(queue) <= QueueLimit
      /\ block \in Blocks /\ register \in SUBSET Stations /\ groups \in 0..MaxGroups
      /\ main \in MainPlaces
  BY DEF FreshInv, TypeOK
<1>2. UNCHANGED <<main, tuning, receiver, shown, sent, stop, groups, piState, history>>
  BY DEF Test, TimeOut
<1>3. TakeBlock \/ (worker' = "wait" /\ UNCHANGED <<reset, queue, block, register>>)
  BY DEF Test, TimeOut
<1>4. /\ worker' \in WorkerPlaces /\ reset' \in BOOLEAN /\ block' \in Blocks
      /\ register' \in SUBSET Stations
      /\ queue' \in Seq(Blocks) /\ Len(queue') <= QueueLimit
      /\ \A i \in 1..Len(queue') : \E j \in 1..Len(queue) : queue'[i] = queue[j]
  <2>1. CASE TakeBlock
    BY <1>1, <2>1, TakeBlockType
  <2>2. CASE worker' = "wait" /\ UNCHANGED <<reset, queue, block, register>>
    BY <1>1, <2>2 DEF WorkerPlaces
  <2> QED
    BY <1>3, <2>1, <2>2
<1>5. FeedType' /\ DecoderType'
  BY <1>1, <1>2, <1>4 DEF FeedType, DecoderType
<1>6. TypeOK'
  BY <1>1, <1>2, <1>5, Frames, NextTypes
<1>7. BacklogMuted'
  BY <1>2 DEF FreshInv, BacklogMuted, receiver
<1>8. QueueIsFresh'
  BY <1>2, <1>4 DEF FreshInv, QueueIsFresh, receiver
<1> QED
  BY <1>6, <1>7, <1>8 DEF FreshInv

LEMMA DecodeFresh ==
  ASSUME FreshInv,
         FallAsleep \/ Decode \/ EndBlock \/ \E g \in Groups : Report(g)
  PROVE  FreshInv'
<1>1. /\ TypeOK /\ block \in Blocks /\ register \in SUBSET Stations
      /\ groups \in 0..MaxGroups /\ MaxGroups \in Nat /\ worker \in WorkerPlaces
      /\ fed \in 0..MaxBlocks /\ lost \in SUBSET (0..MaxBlocks)
  BY BoundsAssumption DEF FreshInv, TypeOK
<1>2. main' = main /\ UNCHANGED <<tuning, receiver, shown, feed>>
  BY DEF FallAsleep, Decode, EndBlock, Report
<1>3. TuningType'
  BY <1>1, <1>2, Frames
<1>4. CASE FallAsleep \/ EndBlock
  <2>1. DecoderType'
    BY <1>1, <1>4 DEF FallAsleep, EndBlock, DecoderType, WorkerPlaces
  <2>2. HistoryType' /\ PiStateType'
    BY <1>1, <1>4, Frames DEF FallAsleep, EndBlock
  <2> QED
    BY <1>2, <1>3, <2>1, <2>2, Aside
<1>5. CASE Decode
  <2>1. DecoderType' /\ HistoryType'
    BY <1>1, <1>5 DEF Decode, DecoderType, HistoryType, WorkerPlaces, Blocks
  <2>2. PiStateType'
    BY <1>1, <1>5, Frames DEF Decode
  <2> QED
    BY <1>2, <1>3, <2>1, <2>2, Aside
<1>6. ASSUME NEW g \in Groups, Report(g)
      PROVE  FreshInv'
  <2>1. DecoderType'
    BY <1>1, <1>6 DEF Report, DecoderType
  <2>2. HistoryType'
    BY <1>1, <1>6, Frames DEF Report
  <2>3. PiStateType'
    BY <1>1, <1>6, UpdateType DEF Report, PiStateType
  <2> QED
    BY <1>2, <1>3, <2>1, <2>2, <2>3, Aside
<1> QED
  BY <1>4, <1>5, <1>6

-------------------------------------------------------------------------------
LEMMA NextFresh == FreshInv /\ [Next]_vars => FreshInv'
<1> SUFFICES ASSUME FreshInv, [Next]_vars PROVE FreshInv'
  OBVIOUS
<1>1. CASE UNCHANGED vars
  <2>1. /\ main' = main
        /\ UNCHANGED <<tuning, shown, receiver, feed, decoder, history, piState>>
    BY <1>1 DEF vars
  <2> QED
    BY <2>1, Frames, Aside DEF FreshInv
<1>2. CASE Next
  BY <1>2, ClientStepFresh, ReceiveFresh, MainStepFresh, TakeFresh, DecodeFresh
     DEF Next, WorkerMoves
<1> QED
  BY <1>1, <1>2

(* The state keeps its types, and the worker's queue never outgrows its    *)
(* limit (RdsWorker::enqueue).                                             *)
THEOREM TypeCorrect == Spec => []TypeOK
<1>1. FreshInv => TypeOK
  BY DEF FreshInv
<1> QED
  BY <1>1, InitFresh, NextFresh, PTL DEF Spec

(* After a retune the worker is only given the new station's blocks or     *)
(* silence (runtime_loop's retune, requestReset and the mute of the MPX    *)
(* tap), as long as the mute is no shorter than the device's backlog.      *)
THEOREM QueueFresh == Spec => []QueueIsFresh
<1>1. FreshInv => QueueIsFresh
  BY DEF FreshInv
<1> QED
  BY <1>1, InitFresh, NextFresh, PTL DEF Spec

-------------------------------------------------------------------------------
(* The blocks are numbered as they are sent: the worker decodes them in    *)
(* that order, and a number it never meets is that of a dropped block.     *)
Held == IF worker = "decode" THEN block.n ELSE fed

Numbered ==
  /\ Held \in fed..sent /\ (worker = "decode" => fed < Held)
  /\ (fed + 1)..(Held - 1) \subseteq lost
  /\ \A i, j \in 1..Len(queue) : i < j => queue[i].n < queue[j].n
  /\ \A i \in 1..Len(queue) : Held < queue[i].n /\ queue[i].n <= sent
  /\ \A m \in (Held + 1)..sent : m \in lost \/ \E i \in 1..Len(queue) : queue[i].n = m

LEMMA Numbers ==
  ASSUME TypeOK
  PROVE  /\ fed \in Nat /\ sent \in Nat /\ block.n \in Nat /\ Held \in Nat
         /\ queue \in Seq(Blocks) /\ Len(queue) \in Nat
         /\ \A i \in 1..Len(queue) : queue[i].n \in Nat
<1>1. \A b \in Blocks : b.n \in Nat
  BY BoundsAssumption DEF Blocks
<1>2. fed \in Nat /\ sent \in Nat /\ block \in Blocks /\ queue \in Seq(Blocks)
  BY BoundsAssumption DEF TypeOK
<1>3. Len(queue) \in Nat /\ \A i \in 1..Len(queue) : queue[i] \in Blocks
  BY <1>2, ElementOfSeq
<1> QED
  BY <1>1, <1>2, <1>3 DEF Held

LEMMA SameNumbers ==
  ASSUME Numbered, UNCHANGED <<sent, queue, fed, lost>>,
         worker' = "decode" <=> worker = "decode", worker = "decode" => block' = block
  PROVE  Numbered'
<1>1. Held' = Held
  BY DEF Held
<1> QED
  BY <1>1 DEF Numbered

LEMMA ClearQueueNumbers ==
  ASSUME TypeOK, Numbered, ClearQueue
  PROVE  Numbered'
<1>1. /\ queue' = <<>> /\ UNCHANGED <<sent, block, fed>> /\ worker' = Notified
      /\ lost' = lost \cup {queue[i].n : i \in 1..Len(queue)}
  BY DEF ClearQueue
<1>2. Held' = Held /\ (worker' = "decode" <=> worker = "decode")
  BY <1>1 DEF Held, Notified
<1>3. Len(queue') = 0
  BY <1>1
<1>4. \A m \in (Held + 1)..sent : m \in lost'
  BY <1>1 DEF Numbered
<1> QED
  BY <1>1, <1>2, <1>3, <1>4 DEF Numbered

LEMMA ReadBlockNumbers ==
  ASSUME TypeOK, Numbered, ReadBlock
  PROVE  Numbered'
<1> DEFINE b == [n |-> sent + 1, of |-> IF mute > 0 THEN None ELSE Head(device)]
<1>1. /\ queue' = Enqueued(b) /\ sent' = sent + 1 /\ UNCHANGED <<block, fed>>
      /\ IF Len(queue) >= QueueLimit
         THEN lost' = lost \cup {sent + 1} /\ worker' = worker
         ELSE lost' = lost /\ worker' = Notified
  BY DEF ReadBlock
<1>2. b.n = sent + 1
  OBVIOUS
<1> HIDE DEF b
<1>3. Held' = Held /\ (worker' = "decode" <=> worker = "decode")
  BY <1>1 DEF Held, Notified
<1>4. fed \in Nat /\ sent \in Nat /\ Held \in Nat /\ Held <= sent /\ Len(queue) \in Nat
      /\ \A i \in 1..Len(queue) : queue[i].n \in Nat /\ queue[i].n <= sent
  BY Numbers DEF Numbered
<1>5. CASE Len(queue) >= QueueLimit
  <2>1. queue' = queue /\ lost' = lost \cup {sent + 1}
    BY <1>1, <1>5 DEF Enqueued
  <2>2. \A m \in (Held + 1)..(sent + 1) : m \in (Held + 1)..sent \/ m = sent + 1
    BY <1>4
  <2> QED
    BY <1>1, <1>3, <1>4, <2>1, <2>2 DEF Numbered
<1>6. CASE ~(Len(queue) >= QueueLimit)
  <2>1. queue' = Append(queue, b) /\ lost' = lost
    BY <1>1, <1>6 DEF Enqueued
  <2>2. /\ Len(queue') = Len(queue) + 1 /\ queue'[Len(queue) + 1] = b
        /\ \A i \in 1..Len(queue) : queue'[i] = queue[i]
    BY <2>1, Numbers
  <2>3. \A i \in 1..Len(queue') : i \in 1..Len(queue) \/ i = Len(queue) + 1
    BY <1>4, <2>2
  <2>4. ASSUME NEW i \in 1..Len(queue'), NEW j \in 1..Len(queue'), i < j
        PROVE  queue'[i].n < queue'[j].n
    <3>1. i \in 1..Len(queue)
      BY <1>4, <2>2, <2>4
    <3>2. CASE j \in 1..Len(queue)
      BY <2>2, <2>4, <3>1, <3>2 DEF Numbered
    <3>3. CASE j = Len(queue) + 1
      <4>1. queue'[j].n = sent + 1 /\ queue'[i].n = queue[i].n
        BY <1>2, <2>2, <3>1, <3>3
      <4> QED
        BY <1>4, <3>1, <4>1
    <3> QED
      BY <2>3, <3>2, <3>3
  <2>5. ASSUME NEW i \in 1..Len(queue')
        PROVE  Held < queue'[i].n /\ queue'[i].n <= sent + 1
    <3>1. CASE i \in 1..Len(queue)
      <4>1. Held < queue[i].n /\ queue[i].n <= sent
        BY <3>1 DEF Numbered
      <4> QED
        BY <1>4, <2>2, <3>1, <4>1
    <3>2. CASE i = Len(queue) + 1
      BY <1>2, <1>4, <2>2, <3>2
    <3> QED
      BY <2>3, <3>1, <3>2
  <2>6. ASSUME NEW m \in (Held + 1)..(sent + 1)
        PROVE  m \in lost \/ \E i \in 1..Len(queue') : queue'[i].n = m
    <3>1. CASE m = sent + 1
      <4>1. Len(queue) + 1 \in 1..Len(queue')
        BY <1>4, <2>2
      <4> QED
        BY <1>2, <2>2, <3>1, <4>1
    <3>2. CASE m \in (Held + 1)..sent
      <4>1. m \in lost \/ \E i \in 1..Len(queue) : queue[i].n = m
        BY <3>2 DEF Numbered
      <4>2. 1..Len(queue) \subseteq 1..Len(queue')
        BY <1>4, <2>2
      <4> QED
        BY <2>2, <4>1, <4>2
    <3> QED
      BY <1>4, <3>1, <3>2
  <2> QED
    BY <1>1, <1>3, <1>4, <2>1, <2>4, <2>5, <2>6 DEF Numbered
<1> QED
  BY <1>5, <1>6

(* Taking the oldest block skips only numbers that were dropped.           *)
LEMMA TakeNumbers ==
  ASSUME TypeOK, Numbered, Test \/ TimeOut
  PROVE  Numbered'
<1>1. worker \in {"test", "asleep"} /\ UNCHANGED <<sent, fed, lost>> /\ Held = fed
  BY DEF Test, TimeOut, Held, history
<1>2. \/ worker' = "decode" /\ queue # <<>> /\ block' = Head(queue) /\ queue' = Tail(queue)
      \/ worker' # "decode" /\ queue' = queue
  BY DEF Test, TimeOut, TakeBlock, Remaining
<1>3. CASE worker' # "decode" /\ queue' = queue
  BY <1>1, <1>3, SameNumbers
<1>4. CASE worker' = "decode" /\ queue # <<>> /\ block' = Head(queue) /\ queue' = Tail(queue)
  <2>1. /\ queue \in Seq(Blocks) /\ Len(queue) \in Nat \ {0} /\ Head(queue) = queue[1]
        /\ Len(queue') = Len(queue) - 1
        /\ \A i \in 1..(Len(queue) - 1) : queue'[i] = queue[i + 1]
        /\ fed \in Nat /\ sent \in Nat /\ \A i \in 1..Len(queue) : queue[i].n \in Nat
    BY <1>4, Numbers, HeadTailProperties, EmptySeq
  <2>2. 1 \in 1..Len(queue) /\ \A i \in 1..(Len(queue) - 1) : i + 1 \in 1..Len(queue) /\ 1 < i + 1
    BY <2>1
  <2>3. Held' = queue[1].n /\ fed < queue[1].n /\ queue[1].n <= sent /\ queue[1].n \in Nat
    BY <1>1, <1>4, <2>1, <2>2 DEF Held, Numbered
  <2>4. \A i \in 1..(Len(queue) - 1) : queue[1].n < queue[i + 1].n /\ queue[i + 1].n <= sent
    BY <2>2 DEF Numbered
  <2>5. ASSUME NEW m \in (fed + 1)..sent
        PROVE  \/ m \in lost \/ m = queue[1].n
               \/ \E i \in 1..(Len(queue) - 1) : queue[i + 1].n = m
    <3>1. m \in lost \/ \E i \in 1..Len(queue) : queue[i].n = m
      BY <1>1 DEF Numbered
    <3>2. \A i \in 1..Len(queue) : i = 1 \/ (i - 1 \in 1..(Len(queue) - 1) /\ (i - 1) + 1 = i)
      BY <2>1
    <3> QED
      BY <3>1, <3>2
  <2>6. (fed + 1)..(queue[1].n - 1) \subseteq lost
    <3>1. ASSUME NEW m \in (fed + 1)..(queue[1].n - 1) PROVE m \in lost
      <4>1. m \in (fed + 1)..sent /\ m < queue[1].n /\ m \in Nat
        BY <2>1, <2>3
      <4>2. \A i \in 1..(Len(queue) - 1) : queue[i + 1].n # m
        BY <2>1, <2>2, <2>3, <2>4, <4>1
      <4> QED
        BY <2>3, <2>5, <4>1, <4>2
    <3> QED
      BY <3>1
  <2>7. \A m \in (queue[1].n + 1)..sent :
          m \in lost \/ \E i \in 1..(Len(queue) - 1) : queue[i + 1].n = m
    <3>1. \A m \in (queue[1].n + 1)..sent : m \in (fed + 1)..sent /\ m # queue[1].n
      BY <2>1, <2>3
    <3> QED
      BY <2>5, <3>1
  <2>8. \A i, j \in 1..(Len(queue) - 1) : i < j => queue[i + 1].n < queue[j + 1].n
    <3>1. \A i, j \in 1..(Len(queue) - 1) : i < j => i + 1 < j + 1
      BY <2>1
    <3> QED
      BY <2>2, <3>1 DEF Numbered
  <2> QED
    BY <1>1, <1>4, <2>1, <2>3, <2>4, <2>6, <2>7, <2>8 DEF Numbered
<1> QED
  BY <1>2, <1>3, <1>4

LEMMA DecodeNumbers ==
  ASSUME TypeOK, Numbered, Decode
  PROVE  Numbered'
<1>1. /\ worker = "decode" /\ worker' = "report" /\ fed' = block.n
      /\ UNCHANGED <<sent, queue, lost, block>>
  BY DEF Decode, feed
<1>2. Held' = Held /\ fed' = Held /\ Held \in Nat /\ sent \in Nat /\ fed \in Nat
  BY <1>1, Numbers DEF Held
<1>3. Held <= sent /\ (fed' + 1)..(Held' - 1) = {}
  BY <1>2 DEF Numbered
<1> QED
  BY <1>1, <1>2, <1>3 DEF Numbered

LEMMA NextNumbers ==
  ASSUME TypeOK, Numbered, [Next]_vars
  PROVE  Numbered' /\ (worker = "decode" /\ worker' # "decode" => Decode)
<1>1. CASE ClearQueue \/ ReadBlock
  <2>1. worker = "decode" => worker' = "decode"
    BY <1>1 DEF ClearQueue, ReadBlock, Notified
  <2> QED
    BY <1>1, <2>1, ClearQueueNumbers, ReadBlockNumbers
<1>2. CASE Test \/ TimeOut
  BY <1>2, TakeNumbers DEF Test, TimeOut
<1>3. CASE Decode
  BY <1>3, DecodeNumbers
<1>4. ASSUME UNCHANGED <<sent, queue, fed, lost, block>>,
             worker' = "decode" <=> worker = "decode"
      PROVE  Numbered' /\ (worker = "decode" /\ worker' # "decode" => Decode)
  BY <1>4, SameNumbers
<1>5. CASE \/ \E s \in Stations : XdrShow(s) \/ RestTune(s)
           \/ XdrRequest \/ Receive
  BY <1>4, <1>5 DEF XdrShow, RestTune, XdrRequest, Receive, feed, decoder, history
<1>6. CASE Retune \/ RetuneFails \/ ClearPi \/ PublishFrequency
  BY <1>4, <1>6 DEF Retune, RetuneFails, ClearPi, PublishFrequency, feed, decoder, history
<1>7. CASE RaiseReset \/ StopWorker \/ JoinWorker
  BY <1>4, <1>7 DEF RaiseReset, StopWorker, JoinWorker, feed, decoder, history
<1>8. CASE NotifyStop
  BY <1>4, <1>8 DEF NotifyStop, Notified, feed, history
<1>9. CASE FallAsleep \/ EndBlock \/ \E g \in Groups : Report(g)
  BY <1>4, <1>9 DEF FallAsleep, EndBlock, Report, feed, history
<1>10. CASE UNCHANGED vars
  BY <1>4, <1>10 DEF vars, feed, decoder, history
<1> QED
  BY <1>1, <1>2, <1>3, <1>5, <1>6, <1>7, <1>8, <1>9, <1>10
     DEF Next, MainStep, WorkerMoves

(* The worker decodes the blocks in the order the loop has sent them, and  *)
(* leaves out only those that a full queue (RdsWorker::enqueue) or a reset *)
(* (requestReset) dropped.                                                 *)
THEOREM FeedContinuous == Spec => ContinuousFeed
<1>1. Init => Numbered
  <2> SUFFICES ASSUME Init PROVE Numbered
    OBVIOUS
  <2>1. Held = 0 /\ fed = 0 /\ sent = 0 /\ Len(queue) = 0 /\ worker # "decode"
    BY DEF Init, Held
  <2> QED
    BY <2>1 DEF Numbered
<1>2. TypeOK /\ Numbered /\ [Next]_vars
        => [worker = "decode" /\ worker' # "decode" =>
              /\ fed' > fed
              /\ (fed + 1)..(fed' - 1) \subseteq lost]_vars
  <2> SUFFICES ASSUME TypeOK, Numbered, [Next]_vars, worker = "decode", worker' # "decode"
               PROVE  fed' > fed /\ (fed + 1)..(fed' - 1) \subseteq lost
    OBVIOUS
  <2>1. fed' = Held
    BY NextNumbers DEF Decode, Held
  <2> QED
    BY <2>1, Numbers DEF Numbered
<1>3. TypeOK /\ Numbered /\ [Next]_vars => Numbered'
  BY NextNumbers
<1> QED
  BY <1>1, <1>2, <1>3, TypeCorrect, PTL DEF Spec, ContinuousFeed

-------------------------------------------------------------------------------
(* The debounce ring holds the groups heard last: entry i is i places      *)
(* before the newest, around the end of the ring.                          *)
Slot(p, count, i) ==
  IF p.pos >= count - i THEN p.pos - (count - i) ELSE p.pos + Window - (count - i)

Mirrors(p, groupsHeard) ==
  LET count == Len(groupsHeard)
  IN  /\ p.fill < Window => /\ count = p.fill
                            /\ p.pos = IF p.fill = 0 THEN Window - 1 ELSE p.fill - 1
      /\ p.fill = Window => count >= Window
      /\ \A i \in 1..count : i > count - Window =>
           /\ p.of[Slot(p, count, i)] = groupsHeard[i].pi
           /\ Slot(p, count, i) \in p.errs <=> groupsHeard[i].err # 0

(* The places of the last groups are distinct, and are all that is filled. *)
LEMMA Slots ==
  ASSUME NEW p \in PiType, NEW groupsHeard \in Seq(Groups), Mirrors(p, groupsHeard)
  PROVE  LET count == Len(groupsHeard)
         IN  /\ \A i \in 1..count : i > count - Window =>
                  /\ Slot(p, count, i) \in 0..(p.fill - 1)
                  /\ \A j \in 1..count :
                       j > count - Window /\ i # j => Slot(p, count, i) # Slot(p, count, j)
             /\ \A k \in 0..(p.fill - 1) :
                  \E i \in 1..count : i > count - Window /\ Slot(p, count, i) = k
<1> DEFINE count == Len(groupsHeard)
<1>1. /\ count \in Nat /\ Window \in Nat \ {0} /\ p.pos \in 0..(Window - 1)
      /\ p.fill \in 0..Window
      /\ p.fill < Window => /\ count = p.fill
                            /\ p.pos = IF p.fill = 0 THEN Window - 1 ELSE p.fill - 1
      /\ p.fill = Window => count >= Window
  BY SizesAssumption DEF PiType, Mirrors
<1> HIDE DEF count
<1>2. ASSUME NEW i \in 1..count, i > count - Window
      PROVE  /\ Slot(p, count, i) \in 0..(p.fill - 1)
             /\ \A j \in 1..count :
                  j > count - Window /\ i # j => Slot(p, count, i) # Slot(p, count, j)
  BY SMTT(30), <1>1, <1>2 DEF Slot
<1>3. ASSUME NEW k \in 0..(p.fill - 1)
      PROVE  \E i \in 1..count : i > count - Window /\ Slot(p, count, i) = k
  <2>1. k \in Nat /\ k < p.fill /\ p.pos \in Nat /\ p.pos < Window /\ p.fill <= Window
    BY <1>1, <1>3
  <2>2. CASE k <= p.pos
    <3> DEFINE i == count - (p.pos - k)
    <3>1. count - i = p.pos - k /\ i \in Int
      BY <1>1, <2>1
    <3>2. i > count - Window /\ i <= count
      BY <1>1, <2>1, <2>2
    <3>3. 1 <= i
      <4>1. CASE p.fill = Window
        BY <1>1, <2>1, <2>2, <4>1
      <4>2. CASE p.fill < Window
        BY <1>1, <2>1, <2>2, <4>2
      <4> QED
        BY <2>1, <4>1, <4>2, <1>1
    <3> HIDE DEF i
    <3>4. Slot(p, count, i) = k
      BY <2>1, <3>1 DEF Slot
    <3>5. i \in 1..count
      BY <1>1, <3>1, <3>2, <3>3
    <3> QED
      BY <3>2, <3>4, <3>5
  <2>3. CASE ~(k <= p.pos)
    <3> DEFINE i == count - (p.pos + Window - k)
    <3>1. count - i = p.pos + Window - k /\ i \in Int
      BY <1>1, <2>1
    <3>2. p.fill = Window
      BY <1>1, <2>1, <2>3
    <3>3. i > count - Window /\ i <= count /\ 1 <= i
      BY <1>1, <2>1, <2>3, <3>2
    <3> HIDE DEF i
    <3>4. Slot(p, count, i) = k
      <4>1. ~(p.pos >= count - i) /\ p.pos + Window - (p.pos + Window - k) = k
        BY SMTT(30), <1>1, <2>1, <3>1
      <4> QED
        BY <3>1, <4>1 DEF Slot
    <3>5. i \in 1..count
      BY <1>1, <3>1, <3>3
    <3> QED
      BY <3>3, <3>4, <3>5
  <2> QED
    BY <2>2, <2>3
<1> QED
  BY <1>2, <1>3 DEF count

(* A set has two members when it has two different ones.                   *)
LEMMA TwoMembers ==
  ASSUME NEW S, IsFiniteSet(S)
  PROVE  Cardinality(S) >= 2 <=> \E x, y \in S : x # y
<1>1. Cardinality(S) \in Nat
  BY FS_CardinalityType
<1>2. ASSUME NEW x \in S, NEW y \in S, x # y
      PROVE  Cardinality(S) >= 2
  <2>1. IsFiniteSet({x, y}) /\ {x, y} \subseteq S
    BY FS_Subset, <1>2
  <2>2. Cardinality({x, y}) = 2
    <3>1. Cardinality({y}) = 1 /\ IsFiniteSet({y})
      BY FS_Singleton
    <3>2. {x, y} = {y} \cup {x} /\ x \notin {y}
      BY <1>2
    <3> QED
      BY <3>1, <3>2, FS_AddElement
  <2> QED
    BY <1>1, <2>1, <2>2, FS_Subset
<1>3. ASSUME Cardinality(S) >= 2
      PROVE  \E x, y \in S : x # y
  <2>1. S # {}
    BY <1>3, FS_EmptySet
  <2>2. PICK x \in S : TRUE
    BY <2>1
  <2>3. CASE S = {x}
    BY <1>1, <1>3, <2>3, FS_Singleton
  <2> QED
    BY <2>2, <2>3
<1> QED
  BY <1>2, <1>3

(* A group is confirmed, in terms of what was heard.                       *)
ConfirmedIn(groupsHeard, j) ==
  LET alike == {i \in 1..j : i > j - Window /\ groupsHeard[i].pi = groupsHeard[j].pi}
  IN  /\ groupsHeard[j].err # 3
      /\ \E i, k \in alike : i # k
      /\ \E i \in alike : groupsHeard[i].err = 0

LEMMA ConfirmedByTwo ==
  ASSUME heard \in Seq(Groups), NEW j \in 1..Len(heard)
  PROVE  Confirmed(j) <=> ConfirmedIn(heard, j)
<1>1. IsFiniteSet(Alike(j))
  <2>1. j \in Nat /\ IsFiniteSet(1..j)
    BY FS_Interval
  <2> QED
    BY <2>1, FS_Subset DEF Alike
<1>2. Cardinality(Alike(j)) >= 2 <=> \E i, k \in Alike(j) : i # k
  BY <1>1, TwoMembers
<1> QED
  BY <1>2 DEF Confirmed, ConfirmedIn, Alike

(* The ring's verdict on the newest group is that of what was heard.       *)
LEMMA RingVerdict ==
  ASSUME NEW p \in PiType, NEW groupsHeard \in Seq(Groups), Mirrors(p, groupsHeard),
         Len(groupsHeard) > 0
  PROVE  LET j == Len(groupsHeard)
         IN  Debounced(p, groupsHeard[j]) <=> ConfirmedIn(groupsHeard, j)
<1> DEFINE j == Len(groupsHeard)
           g == groupsHeard[j]
           same == {k \in 0..(p.fill - 1) : p.of[k] = g.pi}
           alike == {i \in 1..j : i > j - Window /\ groupsHeard[i].pi = g.pi}
<1>1. j \in Nat
  OBVIOUS
<1>2. Debounced(p, g) <=> g.err # 3 /\ Cardinality(same) >= 2 /\ same \ p.errs # {}
  BY DebounceRule DEF Debounced
<1>3. Cardinality(same) >= 2 <=> \E k, m \in same : k # m
  <2>1. p.fill \in Nat
    BY SizesAssumption DEF PiType
  <2>2. IsFiniteSet(same)
    BY <2>1, FS_Interval, FS_Subset
  <2> HIDE DEF same
  <2> QED
    BY <2>2, TwoMembers
<1> HIDE DEF g
<1>4. /\ \A i \in 1..j : i > j - Window =>
           /\ Slot(p, j, i) \in 0..(p.fill - 1)
           /\ \A k \in 1..j : k > j - Window /\ i # k => Slot(p, j, i) # Slot(p, j, k)
           /\ p.of[Slot(p, j, i)] = groupsHeard[i].pi
           /\ Slot(p, j, i) \in p.errs <=> groupsHeard[i].err # 0
      /\ \A k \in 0..(p.fill - 1) : \E i \in 1..j : i > j - Window /\ Slot(p, j, i) = k
  BY Slots DEF Mirrors
<1> HIDE DEF j
<1>5. \A i \in alike : Slot(p, j, i) \in same
  BY <1>4
<1>6. \A k \in same : \E i \in alike : Slot(p, j, i) = k
  BY <1>4
<1>7. (\E k, m \in same : k # m) <=> \E i, k \in alike : i # k
  <2>1. ASSUME NEW k \in same, NEW m \in same, k # m PROVE \E i, n \in alike : i # n
    BY <1>6, <2>1
  <2>2. ASSUME NEW i \in alike, NEW k \in alike, i # k PROVE \E n, m \in same : n # m
    <3>1. Slot(p, j, i) # Slot(p, j, k)
      BY <1>4, <2>2
    <3> QED
      BY <1>5, <3>1
  <2> QED
    BY <2>1, <2>2
<1>8. same \ p.errs # {} <=> \E i \in alike : groupsHeard[i].err = 0
  <2>1. ASSUME NEW k \in same \ p.errs PROVE \E i \in alike : groupsHeard[i].err = 0
    <3>1. PICK i \in alike : Slot(p, j, i) = k
      BY <1>6
    <3> QED
      BY <1>4, <3>1
  <2>2. ASSUME NEW i \in alike, groupsHeard[i].err = 0 PROVE same \ p.errs # {}
    BY <1>4, <1>5, <2>2
  <2> QED
    BY <2>1, <2>2
<1> QED
  BY <1>2, <1>3, <1>7, <1>8 DEF ConfirmedIn, g, j

(* A group that is entered takes the oldest place.                         *)
LEMMA EnteredMirrors ==
  ASSUME TypeOK, Mirrors(pi, heard), NEW g \in Groups
  PROVE  Mirrors(Entered(g), Append(heard, g))
<1> DEFINE count == Len(heard)
           at == (pi.pos + 1) % Window
           p == Entered(g)
           after == Append(heard, g)
<1>1. /\ pi \in PiType /\ heard \in Seq(Groups) /\ count \in Nat /\ Window \in Nat \ {0}
      /\ pi.pos \in 0..(Window - 1) /\ pi.fill \in 0..Window
  BY SizesAssumption DEF TypeOK, PiType
<1>2. at = IF pi.pos = Window - 1 THEN 0 ELSE pi.pos + 1
  <2>1. CASE pi.pos = Window - 1
    <3>1. at = Window % Window
      BY <1>1, <2>1
    <3> QED
      BY <1>1, <2>1, <3>1
  <2>2. CASE pi.pos # Window - 1
    <3>1. pi.pos + 1 \in 0..(Window - 1)
      BY <1>1, <2>2
    <3>2. \A m \in 0..(Window - 1) : m % Window = m
      BY <1>1
    <3> QED
      BY <2>2, <3>1, <3>2
  <2> QED
    BY <2>1, <2>2
<1>3. /\ p.pos = at /\ p.of = [pi.of EXCEPT ![at] = g.pi]
      /\ p.errs = (IF g.err = 0 THEN pi.errs \ {at} ELSE pi.errs \cup {at})
      /\ p.fill = (IF pi.fill < Window THEN pi.fill + 1 ELSE pi.fill)
      /\ pi.of \in [0..(Window - 1) -> Stations \cup {None}]
  BY <1>1 DEF Entered, PiType
<1>4. /\ Len(after) = count + 1 /\ after[count + 1] = g
      /\ \A i \in 1..count : after[i] = heard[i]
  BY <1>1
<1>5. /\ pi.fill < Window => /\ count = pi.fill
                             /\ pi.pos = IF pi.fill = 0 THEN Window - 1 ELSE pi.fill - 1
      /\ pi.fill = Window => count >= Window
      /\ \A i \in 1..count : i > count - Window =>
           /\ pi.of[Slot(pi, count, i)] = heard[i].pi
           /\ Slot(pi, count, i) \in pi.errs <=> heard[i].err # 0
  BY <1>1 DEF Mirrors
<1> HIDE DEF count, at, p, after
<1>6. /\ p.fill < Window => /\ count + 1 = p.fill
                            /\ p.pos = IF p.fill = 0 THEN Window - 1 ELSE p.fill - 1
      /\ p.fill = Window => count + 1 >= Window
  BY <1>1, <1>2, <1>3, <1>5
<1>7. Slot(p, count + 1, count + 1) = at
  BY <1>1, <1>2, <1>3 DEF Slot
<1>8. ASSUME NEW i \in 1..count, i > count + 1 - Window
      PROVE  Slot(p, count + 1, i) = Slot(pi, count, i) /\ Slot(pi, count, i) # at
             /\ Slot(pi, count, i) \in 0..(Window - 1)
  <2>1. /\ i \in Nat /\ 1 <= i /\ i <= count /\ i > count + 1 - Window
        /\ pi.pos \in Nat /\ pi.pos < Window /\ Window \in Nat /\ count \in Nat
    BY <1>1, <1>8
  <2>2. p.pos = IF pi.pos = Window - 1 THEN 0 ELSE pi.pos + 1
    BY <1>2, <1>3
  <2>3. /\ Slot(p, count + 1, i) = IF p.pos >= count + 1 - i THEN p.pos - (count + 1 - i)
                                  ELSE p.pos + Window - (count + 1 - i)
        /\ Slot(pi, count, i) = IF pi.pos >= count - i THEN pi.pos - (count - i)
                               ELSE pi.pos + Window - (count - i)
    BY <2>1, <2>2 DEF Slot
  <2>4. CASE pi.pos = Window - 1
    BY <1>2, <2>1, <2>2, <2>3, <2>4
  <2>5. CASE pi.pos # Window - 1
    BY <1>2, <2>1, <2>2, <2>3, <2>5
  <2> QED
    BY <2>4, <2>5
<1>9. ASSUME NEW i \in 1..(count + 1), i > count + 1 - Window
      PROVE  /\ p.of[Slot(p, count + 1, i)] = after[i].pi
             /\ Slot(p, count + 1, i) \in p.errs <=> after[i].err # 0
  <2>1. CASE i = count + 1
    <3>1. at \in 0..(Window - 1)
      BY <1>1, <1>2
    <3>2. Slot(p, count + 1, i) = at /\ after[i] = g
      BY <1>4, <1>7, <2>1
    <3>3. p.of[at] = g.pi
      BY <1>3, <3>1
    <3>4. at \in p.errs <=> g.err # 0
      BY <1>3
    <3> QED
      BY <3>2, <3>3, <3>4
  <2>2. CASE i \in 1..count
    <3>1. i > count - Window
      BY <1>1, <1>9
    <3> QED
      BY <1>3, <1>4, <1>5, <1>8, <1>9, <2>2, <3>1
  <2> QED
    BY <1>1, <2>1, <2>2
<1>10. Mirrors(p, after)
  <2>1. ASSUME NEW i \in 1..Len(after), i > Len(after) - Window
        PROVE  /\ p.of[Slot(p, Len(after), i)] = after[i].pi
               /\ Slot(p, Len(after), i) \in p.errs <=> after[i].err # 0
    <3>1. Len(after) = count + 1
      BY <1>4
    <3>2. i \in 1..(count + 1) /\ i > count + 1 - Window
      BY <1>1, <2>1, <3>1
    <3> QED
      BY <1>9, <3>1, <3>2
  <2>2. /\ p.fill < Window => /\ Len(after) = p.fill
                              /\ p.pos = IF p.fill = 0 THEN Window - 1 ELSE p.fill - 1
        /\ p.fill = Window => Len(after) >= Window
    BY <1>4, <1>6
  <2> QED
    BY <2>1, <2>2 DEF Mirrors
<1> QED
  BY <1>10 DEF p, after

(* The PI shown is that of the last group that was confirmed.              *)
ShowsLast(shownPi, groupsHeard) ==
  LET good == {j \in 1..Len(groupsHeard) : ConfirmedIn(groupsHeard, j)}
  IN  \/ good = {} /\ shownPi = None
      \/ \E j \in good : (\A k \in good : k <= j) /\ shownPi = groupsHeard[j].pi

PiInv == Mirrors(pi, heard) /\ ShowsLast(pi.last, heard)

LEMMA ClearedPiInv == Mirrors(ClearedPi, <<>>) /\ ShowsLast(None, <<>>)
<1>1. Window \in Nat \ {0} /\ Len(<<>>) = 0
  BY SizesAssumption
<1> QED
  BY <1>1 DEF Mirrors, ShowsLast, ClearedPi

LEMMA UpdatePi ==
  ASSUME TypeOK, PiInv, NEW g \in Groups, UpdateRDS(g)
  PROVE  PiInv'
<1> DEFINE p == Entered(g)
           after == Append(heard, g)
           n == Len(heard)
<1>1. /\ pi \in PiType /\ heard \in Seq(Groups) /\ p \in PiType /\ after \in Seq(Groups)
      /\ n \in Nat /\ Len(after) = n + 1 /\ after[n + 1] = g
      /\ \A i \in 1..n : after[i] = heard[i]
  <2>1. pi \in PiType /\ heard \in Seq(Groups)
    BY DEF TypeOK, PiType
  <2> QED
    BY <2>1, EnteredType
<1>2. Mirrors(p, after)
  BY EnteredMirrors DEF PiInv
<1>3. p.last = pi.last
  BY <1>1 DEF Entered, PiType
<1>4. /\ heard' = after
      /\ pi' = [p EXCEPT !.last = IF Debounced(p, g) THEN g.pi ELSE p.last]
  BY DEF UpdateRDS
<1> HIDE DEF p, after, n
<1>5. Mirrors(pi', heard')
  <2>1. pi'.of = p.of /\ pi'.errs = p.errs /\ pi'.pos = p.pos /\ pi'.fill = p.fill
    BY <1>1, <1>4 DEF PiType
  <2> QED
    BY <1>2, <1>4, <2>1 DEF Mirrors, Slot
<1>6. Debounced(p, g) <=> ConfirmedIn(after, n + 1)
  BY <1>1, <1>2, RingVerdict
<1>7. pi'.last = IF Debounced(p, g) THEN g.pi ELSE pi.last
  BY <1>1, <1>3, <1>4 DEF PiType
<1>8. ASSUME NEW j \in 1..n
      PROVE  ConfirmedIn(after, j) <=> ConfirmedIn(heard, j)
  <2>1. \A i \in 1..j : after[i] = heard[i]
    BY <1>1
  <2>2. j \in 1..j
    OBVIOUS
  <2> QED
    BY <2>1, <2>2 DEF ConfirmedIn
<1> DEFINE good == {j \in 1..n : ConfirmedIn(heard, j)}
           better == {j \in 1..(n + 1) : ConfirmedIn(after, j)}
<1>9. better = IF Debounced(p, g) THEN good \cup {n + 1} ELSE good
  <2>1. \A j \in 1..(n + 1) : j \in 1..n \/ j = n + 1
    BY <1>1
  <2>2. \A j \in 1..n : j \in 1..(n + 1) /\ j # n + 1
    BY <1>1
  <2>3. n + 1 \in 1..(n + 1)
    BY <1>1
  <2> QED
    BY <1>6, <1>8, <2>1, <2>2, <2>3
<1>10. \/ good = {} /\ pi.last = None
       \/ \E j \in good : (\A k \in good : k <= j) /\ pi.last = heard[j].pi
  BY DEF PiInv, ShowsLast, n
<1>11. \A j \in good : j \in 1..n
  OBVIOUS
<1> HIDE DEF good
<1>12. \/ better = {} /\ pi'.last = None
       \/ \E j \in better : (\A k \in better : k <= j) /\ pi'.last = after[j].pi
  <2>1. CASE Debounced(p, g)
    <3>1. n + 1 \in better /\ \A k \in better : k <= n + 1
      BY <1>1, <1>9, <1>11, <2>1
    <3> HIDE DEF better
    <3> QED
      BY <1>1, <1>7, <2>1, <3>1
  <2>2. CASE ~Debounced(p, g)
    <3>1. better = good /\ pi'.last = pi.last
      BY <1>7, <1>9, <2>2
    <3> HIDE DEF better
    <3> QED
      BY <1>1, <1>10, <1>11, <3>1
  <2> QED
    BY <2>1, <2>2
<1>13. ShowsLast(pi'.last, heard')
  BY <1>1, <1>4, <1>12 DEF ShowsLast
<1> QED
  BY <1>5, <1>13 DEF PiInv

LEMMA NextPi ==
  ASSUME TypeOK, PiInv, [Next]_vars
  PROVE  PiInv'
<1>1. CASE UNCHANGED piState
  BY <1>1 DEF piState, PiInv
<1>2. CASE pi' = ClearedPi /\ heard' = <<>>
  BY <1>2, ClearedPiInv DEF PiInv, ClearedPi
<1>3. ASSUME NEW g \in Groups, Report(g)
      PROVE  PiInv'
  BY <1>3, UpdatePi DEF Report
<1>4. CASE \/ \E s \in Stations : XdrShow(s) \/ RestTune(s)
           \/ XdrRequest \/ Receive
  BY <1>1, <1>4 DEF XdrShow, RestTune, XdrRequest, Receive
<1>5. CASE MainStep
  BY <1>1, <1>2, <1>5 DEF MainStep, Retune, RetuneFails, ClearPi, PublishFrequency,
     RaiseReset, ClearQueue, ReadBlock, StopWorker, NotifyStop, JoinWorker, piState
<1>6. CASE WorkerMoves
  BY <1>1, <1>6 DEF WorkerMoves, Test, FallAsleep, TimeOut, Decode, EndBlock
<1>7. CASE UNCHANGED vars
  BY <1>1, <1>7 DEF vars
<1> QED
  BY <1>3, <1>4, <1>5, <1>6, <1>7 DEF Next

(* The PI that XDRServer::updateRDS shows is that of the last group since  *)
(* the state was cleared whose PI two of the last groups have, one of them *)
(* intact, however often the ring of entries and error bits went round.    *)
THEOREM PiIsDebounced == Spec => []PiDebounced
<1>1. Init => PiInv
  BY ClearedPiInv DEF Init, PiInv, ClearedPi
<1>2. TypeOK /\ PiInv /\ [Next]_vars => PiInv'
  BY NextPi
<1>3. TypeOK /\ PiInv => PiDebounced
  <2> SUFFICES ASSUME TypeOK, PiInv PROVE PiDebounced
    OBVIOUS
  <2> DEFINE good == {j \in 1..Len(heard) : Confirmed(j)}
  <2>1. heard \in Seq(Groups) /\ Len(heard) \in Nat
    BY DEF TypeOK
  <2>2. good = {j \in 1..Len(heard) : ConfirmedIn(heard, j)}
    BY <2>1, ConfirmedByTwo
  <2>3. \/ good = {} /\ pi.last = None
        \/ \E j \in good : (\A k \in good : k <= j) /\ pi.last = heard[j].pi
    BY <2>2 DEF PiInv, ShowsLast
  <2>4. \A j \in good : j \in Nat
    OBVIOUS
  <2> HIDE DEF good
  <2>5. ASSUME NEW j \in good, \A k \in good : k <= j
        PROVE  j = CHOOSE i \in good : \A k \in good : k <= i
    <3>1. \A i \in good : (\A k \in good : k <= i) => i = j
      BY <2>4, <2>5
    <3> QED
      BY <2>5, <3>1
  <2>6. pi.last = IF good = {} THEN None
                  ELSE heard[CHOOSE j \in good : \A k \in good : k <= j].pi
    BY <2>3, <2>5
  <2> QED
    BY <2>6 DEF PiDebounced, good
<1> QED
  BY <1>1, <1>2, <1>3, TypeCorrect, PTL DEF Spec

===============================================================================
