---------------------------- MODULE IqSource_proof ----------------------------
(***************************************************************************)
(* Theorems about IqSource, for rings and requests of every size.          *)
(***************************************************************************)
EXTENDS IqSource, SequenceTheorems, TLAPS

-------------------------------------------------------------------------------
(* Positions and amounts.                                                  *)
LEMMA Sizes ==
  /\ RingSize \in Nat \ {0} /\ RingSize % 2 = 0
  /\ MaxInFlight \in Nat /\ MaxSamples \in Nat /\ MaxRequest \in Nat
  /\ Settle \in Nat \ {0} /\ EmptyLimit \in Nat \ {0}
BY RingAssumption, SettleAssumption, BoundsAssumption

CursorType ==
  readPos \in 0..(RingSize - 1) /\ writePos \in 0..(RingSize - 1) /\ full \in BOOLEAN

(* A full ring is the one whose positions meet and that is not empty.      *)
FullMeets == full => writePos = readPos

LEMMA WrappedType ==
  ASSUME NEW pos \in 0..(2 * RingSize - 1)
  PROVE  Wrapped(pos) \in 0..(RingSize - 1)
BY Sizes DEF Wrapped

LEMMA AvailableType == ASSUME CursorType PROVE Available \in 0..RingSize
BY Sizes DEF CursorType, Available

LEMMA EvenType ==
  ASSUME NEW k \in Nat
  PROVE  Even(k) \in 0..k /\ Even(k) % 2 = 0 /\ (k % 2 = 0 => Even(k) = k)
BY DEF Even

LEMMA LessType ==
  ASSUME NEW a \in Nat, NEW b \in Nat
  PROVE  Less(a, b) \in Nat /\ Less(a, b) <= a /\ Less(a, b) <= b
BY DEF Less

(* Writing goes on where the stored elements end.                          *)
LEMMA WriteFollows ==
  ASSUME CursorType, FullMeets
  PROVE  /\ Wrapped(readPos + Available) = writePos
         /\ ~full => \A i \in 0..(Available - 1) : Wrapped(readPos + i) # writePos
BY Sizes DEF CursorType, FullMeets, Available, Wrapped

(* Moving the reader over k stored elements.                               *)
LEMMA Advance ==
  ASSUME CursorType, FullMeets, NEW k \in 0..Available,
         readPos' = Wrapped(readPos + k), full' = (full /\ k = 0), writePos' = writePos
  PROVE  /\ CursorType' /\ FullMeets' /\ Available' = Available - k
         /\ \A i \in 0..(Available - k - 1) : Wrapped(readPos' + i) = Wrapped(readPos + k + i)
<1>1. /\ readPos \in 0..(RingSize - 1) /\ writePos \in 0..(RingSize - 1) /\ full \in BOOLEAN
      /\ Available \in 0..RingSize /\ RingSize \in Nat \ {0}
  BY AvailableType, Sizes DEF CursorType
<1>2. readPos' \in 0..(RingSize - 1)
  BY <1>1, WrappedType
<1>3. full' \in BOOLEAN
  BY Zenon
<1>4. full' <=> full /\ k = 0
  OBVIOUS
<1>5. FullMeets'
  BY <1>1, <1>4 DEF FullMeets, Wrapped
<1>6. Available' = Available - k
  BY <1>1, <1>4 DEF FullMeets, Wrapped, Available
<1>7. \A i \in 0..(Available - k - 1) : Wrapped(readPos' + i) = Wrapped(readPos + k + i)
  BY <1>1 DEF Wrapped
<1> QED
  BY <1>1, <1>2, <1>3, <1>5, <1>6, <1>7 DEF CursorType

(* Storing one element, over the oldest one when the ring is full.         *)
LEMMA PutCursor ==
  ASSUME CursorType, FullMeets,
         writePos' = Wrapped(writePos + 1), readPos' = Overwritten,
         full' = (writePos' = readPos')
  PROVE  /\ CursorType' /\ FullMeets'
         /\ full => Available' = Available /\ full'
         /\ ~full => Available' = Available + 1 /\ readPos' = readPos
<1>1. /\ readPos \in 0..(RingSize - 1) /\ writePos \in 0..(RingSize - 1) /\ full \in BOOLEAN
      /\ RingSize \in Nat \ {0}
  BY Sizes DEF CursorType
<1>2. readPos' \in 0..(RingSize - 1) /\ writePos' \in 0..(RingSize - 1)
  BY <1>1, WrappedType DEF Overwritten
<1>3. full' \in BOOLEAN
  BY Zenon
<1>4. full' <=> writePos' = readPos'
  OBVIOUS
<1>5. full => Available' = Available /\ full'
  BY <1>1, <1>4 DEF FullMeets, Wrapped, Available, Overwritten
<1>6. ~full => Available' = Available + 1 /\ readPos' = readPos
  BY <1>1, <1>4 DEF Wrapped, Available, Overwritten
<1> QED
  BY <1>2, <1>3, <1>4, <1>5, <1>6 DEF CursorType, FullMeets

-------------------------------------------------------------------------------
(* The invariant, by the parts that steps touch together.                  *)
SourceType == kind \in Kinds /\ lowLatency \in BOOLEAN

AmountType ==
  /\ inflight \in 0..(2 * MaxInFlight) /\ callback \in 0..(2 * MaxInFlight)
  /\ arrived \in Nat /\ Captured <= 2 * MaxSamples

StoreType ==
  ring \in [0..(RingSize - 1) -> Nat] /\ pending \in Nat \cup {None} /\ lost \in SUBSET Nat

ScanType ==
  /\ phase \in {"idle", "settle", "measure", "measured"}
  /\ settle \in 0..Settle /\ empties \in 0..EmptyLimit
  /\ tunedAt \in Nat /\ rushed \in BOOLEAN

ReadsType == out \in Seq(Nat) /\ next \in Nat /\ got \in Nat

LEMMA Types ==
  TypeOK <=> SourceType /\ AmountType /\ CursorType /\ StoreType /\ ScanType /\ ReadsType
BY DEF TypeOK, SourceType, AmountType, CursorType, StoreType, ScanType, ReadsType

LEMMA NextTypes ==
  ASSUME SourceType', AmountType', CursorType', StoreType', ScanType', ReadsType'
  PROVE  TypeOK'
BY DEF TypeOK, SourceType, AmountType, CursorType, StoreType, ScanType, ReadsType

(* While settling goes on, reads have not been empty for too long.         *)
Patient == phase = "settle" => empties < EmptyLimit

(* Only a backend with a ring uses it, and only rtl_tcp keeps a byte back, *)
(* the one received last.                                                  *)
Owned ==
  /\ FullMeets
  /\ kind = "rtltcp" => ~full /\ readPos = writePos /\ callback = 0
  /\ pending # None => kind = "rtltcp" /\ pending = arrived - 1

(* Bytes come in pairs: from the USB callback in whole buffers, unless it  *)
(* is half way through one; over TCP up to the byte that is kept back.     *)
Aligned ==
  /\ kind = "rtlsdr" =>
       /\ inflight % 2 = 0 /\ (arrived + callback) % 2 = 0
       /\ full \/ (Available + callback) % 2 = 0
  /\ kind = "rtltcp" =>
       (inflight + arrived) % 2 = 0 /\ (pending = None <=> arrived % 2 = 0)

(* The first element a later read can return.                              *)
Kept == IF pending = None THEN 0 ELSE 1
First == arrived - Available - Kept

Sequel == next <= First /\ next..(First - 1) \subseteq lost

Inv ==
  TypeOK /\ Patient /\ Owned /\ RingIsStream /\ Aligned /\ WholeSamples /\ Sequel

LEMMA InitInv == Init => Inv
<1> SUFFICES ASSUME Init PROVE Inv
  OBVIOUS
<1>1. SourceType
  BY Zenon DEF Init, SourceType
<1>2. /\ inflight = 0 /\ callback = 0 /\ arrived = 0 /\ pending = None
      /\ readPos = 0 /\ writePos = 0 /\ out = <<>> /\ next = 0 /\ got = 0 /\ lost = {}
      /\ phase = "idle" /\ settle = 0 /\ empties = 0 /\ tunedAt = 0
      /\ ring = [i \in 0..(RingSize - 1) |-> 0]
  BY DEF Init
<1>3. full = FALSE /\ rushed = FALSE
  BY DEF Init
<1>4. CursorType /\ ~full
  <2>1. full \in BOOLEAN /\ ~full
    BY <1>3, Zenon
  <2> QED
    BY <1>2, <2>1, Sizes DEF CursorType
<1>5. AmountType
  BY <1>2, Sizes DEF AmountType, Captured
<1>6. StoreType
  BY <1>2 DEF StoreType
<1>7. ScanType
  <2>1. rushed \in BOOLEAN
    BY <1>3, Zenon
  <2> QED
    BY <1>2, <2>1, Sizes DEF ScanType
<1>8. ReadsType
  BY <1>2, EmptySeq DEF ReadsType
<1>9. Available = 0
  BY <1>2, <1>4 DEF Available
<1>10. Patient /\ Owned
  BY <1>2, <1>4 DEF Patient, Owned, FullMeets
<1>11. RingIsStream
  BY <1>9 DEF RingIsStream
<1>12. Aligned
  BY <1>2, <1>9 DEF Aligned
<1>13. WholeSamples
  BY <1>2, EmptySeq DEF WholeSamples
<1>14. Sequel
  BY <1>2, <1>9 DEF Sequel, First, Kept
<1> QED
  BY <1>1, <1>4, <1>5, <1>6, <1>7, <1>8, <1>10, <1>11, <1>12, <1>13, <1>14, Types DEF Inv

-------------------------------------------------------------------------------
(* Which parts depend on what.                                             *)
LEMMA SameAvailable ==
  ASSUME UNCHANGED <<readPos, writePos, full>> PROVE Available' = Available
BY DEF Available

LEMMA SameCopy ==
  ASSUME UNCHANGED <<readPos, writePos, full, ring, arrived, kind>>, RingIsStream
  PROVE  RingIsStream'
<1>1. Available' = Available
  BY SameAvailable
<1> QED
  BY <1>1 DEF RingIsStream, Wrapped

LEMMA SameReads ==
  ASSUME UNCHANGED <<out, next, got, kind>>, ReadsType, WholeSamples
  PROVE  ReadsType' /\ WholeSamples'
BY DEF ReadsType, WholeSamples, Unit

LEMMA SameScan ==
  ASSUME UNCHANGED scan, ScanType, Patient PROVE ScanType' /\ Patient'
BY DEF ScanType, Patient, scan

LEMMA NoDifference ==
  ASSUME NEW a \in Nat, NEW b \in Nat, a = b PROVE b >= a /\ b - a = 0
OBVIOUS

LEMMA NothingBetween ==
  ASSUME NEW a, NEW b \in Int, a = b PROVE a <= b /\ a..(b - 1) = {}
OBVIOUS

(* An empty ring holds what it should.                                     *)
LEMMA EmptyRing ==
  ASSUME CursorType', readPos' = writePos', ~full'
  PROVE  Available' = 0 /\ RingIsStream' /\ FullMeets'
<1>1. /\ readPos' \in 0..(RingSize - 1) /\ writePos' \in 0..(RingSize - 1)
      /\ full' \in BOOLEAN /\ RingSize \in Nat
  BY Sizes DEF CursorType
<1>2. writePos' >= readPos' /\ writePos' - readPos' = 0
  <2>1. readPos' \in Nat /\ writePos' \in Nat
    BY <1>1
  <2> QED
    BY <2>1, NoDifference, Zenon
<1>3. Available' = IF writePos' >= readPos' THEN writePos' - readPos'
                   ELSE (RingSize - readPos') + writePos'
  BY Zenon DEF Available
<1>4. Available' = 0
  BY <1>2, <1>3, Zenon
<1> QED
  BY <1>4 DEF RingIsStream, FullMeets

(* What is stored is what arrived last.                                    *)
LEMMA StoredElements ==
  ASSUME Inv, kind # "rtltcp"
  PROVE  Stored = (arrived - Available)..(arrived - 1)
<1>1. /\ Available \in 0..RingSize /\ arrived \in Nat /\ RingSize \in Nat
      /\ readPos \in 0..(RingSize - 1)
  BY Types, AvailableType, Sizes DEF Inv, AmountType, CursorType
<1>2. \A i \in 0..(Available - 1) : ring[Wrapped(readPos + i)] = arrived - Available + i
  BY DEF Inv, RingIsStream
<1>3. ASSUME NEW x \in (arrived - Available)..(arrived - 1) PROVE x \in Stored
  <2>1. x - (arrived - Available) \in 0..(Available - 1)
    BY <1>1
  <2>2. ring[Wrapped(readPos + (x - (arrived - Available)))] = x
    BY <1>1, <1>2, <2>1
  <2> QED
    BY <2>1, <2>2 DEF Stored, Oldest
<1>4. ASSUME NEW i \in 0..(Available - 1)
      PROVE  ring[Wrapped(readPos + i)] \in (arrived - Available)..(arrived - 1)
  BY <1>1, <1>2
<1> QED
  BY <1>3, <1>4 DEF Stored, Oldest

-------------------------------------------------------------------------------
(* Counting what is discarded keeps the scan's types.                      *)
LEMMA SettlesType ==
  ASSUME ScanType, Patient, NEW s \in Seq(Nat), Settles(s)
  PROVE  ScanType' /\ Patient'
<1>1. tunedAt' = tunedAt
  BY DEF Settles
<1>2. CASE phase # "settle"
  <2>1. /\ phase' = (IF phase = "measure" /\ s # <<>> THEN "measured" ELSE phase)
        /\ settle' = settle /\ empties' = empties /\ rushed' = rushed
    BY <1>2 DEF Settles
  <2>2. rushed' \in BOOLEAN
    BY <2>1 DEF ScanType
  <2> QED
    BY <1>1, <1>2, <2>1, <2>2 DEF ScanType, Patient
<1>3. CASE phase = "settle"
  <2> DEFINE k == Len(s) \div Unit
  <2>1. /\ settle' = (IF k >= settle THEN 0 ELSE settle - k)
        /\ empties' = (IF s = <<>> THEN empties + 1 ELSE 0)
        /\ phase' = (IF settle' = 0 \/ empties' = EmptyLimit THEN "measure" ELSE "settle")
    BY <1>3 DEF Settles
  <2>2. rushed' = (rushed \/ empties' = EmptyLimit)
    BY <1>3 DEF Settles
  <2>3. k \in Nat
    <3>1. Len(s) \in Nat
      BY LenProperties
    <3>2. CASE kind = "sdrplay"
      BY <3>1, <3>2 DEF Unit
    <3>3. CASE kind # "sdrplay"
      BY <3>1, <3>3 DEF Unit
    <3> QED
      BY <3>2, <3>3
  <2> HIDE DEF k
  <2>4. settle' \in 0..Settle
    BY <2>1, <2>3, Sizes DEF ScanType
  <2>5. empties' \in 0..EmptyLimit
    BY <1>3, <2>1, Sizes DEF ScanType, Patient
  <2>6. phase' = "settle" => empties' < EmptyLimit
    BY <2>1, <2>5, Sizes
  <2>7. rushed' \in BOOLEAN
    BY <2>2, Zenon
  <2> QED
    BY <1>1, <2>1, <2>4, <2>5, <2>6, <2>7 DEF ScanType, Patient
<1> QED
  BY <1>2, <1>3

(* Storing one element.                                                    *)
LEMMA PutRing ==
  ASSUME Inv, Put
  PROVE  CursorType' /\ FullMeets' /\ RingIsStream' /\ ring' \in [0..(RingSize - 1) -> Nat]
<1>1. /\ CursorType /\ FullMeets /\ arrived \in Nat /\ ring \in [0..(RingSize - 1) -> Nat]
  BY Types DEF Inv, Owned, AmountType, StoreType
<1>2. /\ writePos' = Wrapped(writePos + 1) /\ readPos' = Overwritten
      /\ arrived' = arrived + 1 /\ ring' = [ring EXCEPT ![writePos] = arrived]
      /\ kind' = kind
  BY DEF Put, source
<1>3. full' = (writePos' = readPos')
  BY DEF Put
<1>4. /\ CursorType' /\ FullMeets'
      /\ full => Available' = Available /\ full'
      /\ ~full => Available' = Available + 1 /\ readPos' = readPos
  BY <1>1, <1>2, <1>3, PutCursor
<1>5. /\ readPos \in 0..(RingSize - 1) /\ writePos \in 0..(RingSize - 1)
      /\ Available \in 0..RingSize /\ RingSize \in Nat \ {0}
  BY <1>1, AvailableType, Sizes DEF CursorType
<1>6. ring' \in [0..(RingSize - 1) -> Nat]
  BY <1>1, <1>2, <1>5
<1>7. /\ Wrapped(readPos + Available) = writePos
      /\ ~full => \A i \in 0..(Available - 1) : Wrapped(readPos + i) # writePos
  BY <1>1, WriteFollows
<1>8. ring'[writePos] = arrived
      /\ \A p \in 0..(RingSize - 1) : p # writePos => ring'[p] = ring[p]
  BY <1>1, <1>2, <1>5
<1>9. SUFFICES ASSUME kind # "rtltcp", NEW i \in 0..(Available' - 1)
               PROVE  ring'[Wrapped(readPos' + i)] = arrived' - Available' + i
  BY <1>2, <1>4, <1>6 DEF RingIsStream, Wrapped
<1>10. \A j \in 0..(Available - 1) : ring[Wrapped(readPos + j)] = arrived - Available + j
  BY <1>9 DEF Inv, RingIsStream
<1>11. CASE ~full
  <2>1. Available' = Available + 1 /\ readPos' = readPos
    BY <1>4, <1>11
  <2>2. CASE i = Available
    BY <1>1, <1>2, <1>5, <1>7, <1>8, <2>1, <2>2
  <2>3. CASE i \in 0..(Available - 1)
    <3>1. Wrapped(readPos + i) \in 0..(RingSize - 1)
      BY <1>5, <2>3, WrappedType
    <3>2. Wrapped(readPos + i) # writePos
      BY <1>7, <1>11, <2>3
    <3>3. ring'[Wrapped(readPos + i)] = arrived - Available + i
      BY <1>8, <1>10, <2>3, <3>1, <3>2
    <3> QED
      BY <1>1, <1>2, <1>5, <2>1, <2>3, <3>3
  <2> QED
    BY <1>5, <2>1, <2>2, <2>3
<1>12. CASE full
  <2>1. Available = RingSize /\ Available' = RingSize /\ writePos = readPos
    BY <1>1, <1>4, <1>12 DEF Available, FullMeets
  <2>2. readPos' = Wrapped(readPos + 1)
    BY <1>2, <1>12 DEF Overwritten
  <2>3. CASE i = RingSize - 1
    <3>1. Wrapped(readPos' + i) = writePos
      BY <1>5, <2>1, <2>2, <2>3 DEF Wrapped
    <3> QED
      BY <1>1, <1>2, <1>5, <1>8, <2>1, <2>3, <3>1
  <2>4. CASE i \in 0..(RingSize - 2)
    <3>1. /\ Wrapped(readPos' + i) = Wrapped(readPos + (i + 1))
          /\ Wrapped(readPos' + i) # writePos
          /\ Wrapped(readPos' + i) \in 0..(RingSize - 1)
      BY <1>5, <2>1, <2>2, <2>4 DEF Wrapped
    <3>2. i + 1 \in 0..(Available - 1)
      BY <1>5, <2>1, <2>4
    <3>3. ring'[Wrapped(readPos' + i)] = arrived - Available + (i + 1)
      BY <1>8, <1>10, <3>1, <3>2
    <3> QED
      BY <1>1, <1>2, <1>5, <2>1, <2>4, <3>3
  <2> QED
    BY <1>5, <2>1, <2>3, <2>4
<1> QED
  BY <1>11, <1>12

(* What a read that follows on the last one satisfies (see Continuity).    *)
Follows ==
  got' # got => out'[1] >= next /\ next..(out'[1] - 1) \subseteq lost'

LEMMA DeliveredType ==
  ASSUME TypeOK, NEW s \in Seq(Nat), Delivered(s)
  PROVE  /\ ReadsType' /\ out' = s
         /\ next' = (IF s = <<>> THEN next ELSE s[Len(s)] + 1)
         /\ got' # got => s # <<>>
<1>1. /\ out' = s /\ next' = (IF s = <<>> THEN next ELSE s[Len(s)] + 1)
      /\ got' = got + Len(s)
  BY DEF Delivered
<1>2. next \in Nat /\ got \in Nat /\ Len(s) \in Nat
  BY LenProperties DEF TypeOK
<1>3. s # <<>> => s[Len(s)] \in Nat
  <2>1. s # <<>> => Len(s) \in 1..Len(s)
    BY <1>2, EmptySeq
  <2> QED
    BY <2>1, ElementOfSeq
<1>4. s = <<>> => Len(s) = 0
  BY EmptySeq
<1> QED
  BY <1>1, <1>2, <1>3, <1>4 DEF ReadsType

(* Elements copied from the ring after drop others were skipped.           *)
LEMMA CopiedRun ==
  ASSUME Inv, kind # "rtltcp", NEW drop \in Nat, NEW count \in Nat,
         drop + count <= Available
  PROVE  LET s == Copied(readPos + drop, count)
         IN  /\ s \in Seq(Nat) /\ Len(s) = count
             /\ \A i \in 1..count : s[i] = First + drop + i - 1
             /\ \A i \in 0..(drop - 1) : ring[Wrapped(readPos + i)] = First + i
<1> DEFINE s == Copied(readPos + drop, count)
<1>1. /\ Available \in 0..RingSize /\ arrived \in Nat /\ RingSize \in Nat \ {0}
      /\ readPos \in 0..(RingSize - 1) /\ ring \in [0..(RingSize - 1) -> Nat]
  BY Types, AvailableType, Sizes DEF Inv, AmountType, CursorType, StoreType
<1>2. First = arrived - Available
  BY <1>1 DEF Inv, Owned, First, Kept
<1>3. \A i \in 0..(Available - 1) : ring[Wrapped(readPos + i)] = First + i
  BY <1>2 DEF Inv, RingIsStream
<1>4. ASSUME NEW i \in 1..count
      PROVE  /\ ring[Wrapped(readPos + drop + i - 1)] \in Nat
             /\ ring[Wrapped(readPos + drop + i - 1)] = First + drop + i - 1
  <2>1. /\ drop + i - 1 \in 0..(Available - 1)
        /\ readPos + drop + i - 1 = readPos + (drop + i - 1)
        /\ readPos + drop + i - 1 \in 0..(2 * RingSize - 1)
    BY <1>1
  <2>2. Wrapped(readPos + drop + i - 1) \in 0..(RingSize - 1)
    BY <2>1, WrappedType
  <2>3. ring[Wrapped(readPos + (drop + i - 1))] = First + (drop + i - 1)
    BY <1>3, <2>1
  <2>4. First + (drop + i - 1) = First + drop + i - 1
    BY <1>1, <1>2
  <2> QED
    BY <1>1, <2>1, <2>2, <2>3, <2>4
<1>5. s = [i \in 1..count |-> ring[Wrapped(readPos + drop + i - 1)]]
  BY DEF Copied
<1>6. s \in Seq(Nat) /\ Len(s) = count /\ \A i \in 1..count : s[i] = First + drop + i - 1
  BY <1>4, <1>5
<1>7. \A i \in 0..(drop - 1) : ring[Wrapped(readPos + i)] = First + i
  BY <1>1, <1>3
<1> QED
  BY <1>6, <1>7

(* A read of the ring that skips drop elements and returns the next count. *)
LEMMA RingRead ==
  ASSUME Inv, kind # "rtltcp", NEW drop \in Nat, NEW count \in Nat,
         drop + count <= Available,
         readPos' = Wrapped(readPos + drop + count),
         full' = (full /\ drop + count = 0),
         UNCHANGED <<kind, ring, arrived, writePos, pending>>,
         lost' = lost \cup Oldest(drop),
         Delivered(Copied(readPos + drop, count))
  PROVE  /\ CursorType' /\ FullMeets' /\ Available' = Available - (drop + count)
         /\ RingIsStream' /\ ReadsType' /\ Sequel' /\ lost' \in SUBSET Nat
         /\ Len(out') = count /\ \A i \in 1..count : out'[i] = First + drop + i - 1
         /\ Follows /\ ScanType' /\ Patient'
<1> DEFINE s == Copied(readPos + drop, count)
<1>1. /\ Available \in 0..RingSize /\ arrived \in Nat /\ RingSize \in Nat \ {0}
      /\ readPos \in 0..(RingSize - 1) /\ CursorType /\ FullMeets /\ TypeOK /\ ScanType
      /\ Patient /\ pending = None /\ next \in Nat /\ got \in Nat /\ lost \in SUBSET Nat
  BY Types, AvailableType, Sizes DEF Inv, Owned, AmountType, CursorType, ReadsType, StoreType
<1>2. /\ s \in Seq(Nat) /\ Len(s) = count
      /\ \A i \in 1..count : s[i] = First + drop + i - 1
      /\ \A i \in 0..(drop - 1) : ring[Wrapped(readPos + i)] = First + i
  BY CopiedRun
<1>3. First = arrived - Available /\ next <= First /\ next..(First - 1) \subseteq lost
  BY <1>1 DEF Inv, Sequel, First, Kept
<1> HIDE DEF s
<1>4. ReadsType' /\ out' = s /\ (got' # got => s # <<>>)
      /\ next' = (IF s = <<>> THEN next ELSE s[Len(s)] + 1)
  <2>1. Delivered(s)
    BY DEF s
  <2> QED
    BY <1>1, <1>2, <2>1, DeliveredType
<1>5. ScanType' /\ Patient'
  <2>1. Settles(s)
    BY DEF s, Delivered
  <2> QED
    BY <1>1, <1>2, <2>1, SettlesType
<1>6. /\ CursorType' /\ FullMeets' /\ Available' = Available - (drop + count)
      /\ \A i \in 0..(Available - (drop + count) - 1) :
           Wrapped(readPos' + i) = Wrapped(readPos + (drop + count) + i)
  <2>1. drop + count \in 0..Available
    BY <1>1
  <2>2. readPos' = Wrapped(readPos + (drop + count))
    BY <1>1 DEF Wrapped
  <2> QED
    BY <1>1, <2>1, <2>2, Advance
<1>7. RingIsStream'
  <2>1. SUFFICES ASSUME NEW i \in 0..(Available' - 1)
                 PROVE  ring[Wrapped(readPos' + i)] = arrived - Available' + i
    BY DEF RingIsStream, Wrapped
  <2>2. /\ (drop + count) + i \in 0..(Available - 1)
        /\ i \in 0..(Available - (drop + count) - 1)
        /\ readPos + (drop + count) + i = readPos + ((drop + count) + i)
    BY <1>1, <1>6
  <2>3. ring[Wrapped(readPos + ((drop + count) + i))] = arrived - Available + ((drop + count) + i)
    BY <2>2 DEF Inv, RingIsStream
  <2>4. ring[Wrapped(readPos' + i)] = ring[Wrapped(readPos + ((drop + count) + i))]
    BY <1>6, <2>2
  <2>5. arrived - Available + ((drop + count) + i) = arrived - Available' + i
    BY <1>1, <1>6, <2>2
  <2> QED
    BY <2>3, <2>4, <2>5
<1>8. First..(First + drop - 1) \subseteq lost'
  <2>1. ASSUME NEW x \in First..(First + drop - 1) PROVE x \in lost'
    <3>1. x - First \in 0..(drop - 1) /\ First + (x - First) = x
      BY <1>1, <1>3
    <3>2. x \in Oldest(drop)
      BY <1>2, <3>1 DEF Oldest
    <3> QED
      BY <3>2
  <2> QED
    BY <2>1
<1>9. next..((First + drop) - 1) \subseteq lost'
  BY <1>1, <1>3, <1>8
<1>10. lost' \in SUBSET Nat
  <2>1. ASSUME NEW i \in 0..(drop - 1) PROVE ring[Wrapped(readPos + i)] \in Nat
    <3>1. ring[Wrapped(readPos + i)] = First + i
      BY <1>2
    <3>2. First \in Nat /\ i \in Nat
      BY <1>1, <1>3
    <3> QED
      BY <3>1, <3>2
  <2> QED
    BY <1>1, <2>1 DEF Oldest
<1>11. First' = First + drop + count
  BY <1>1, <1>3, <1>6 DEF First, Kept
<1>12. CASE count = 0
  <2>1. s = <<>>
    BY <1>2, <1>12, EmptySeq
  <2>2. next' = next /\ got' = got
    BY <1>4, <2>1
  <2>3. Sequel'
    BY <1>1, <1>3, <1>9, <1>11, <1>12, <2>2 DEF Sequel
  <2> QED
    BY <1>2, <1>4, <1>5, <1>6, <1>7, <1>10, <2>2, <2>3 DEF Follows
<1>13. CASE count # 0
  <2>1. s # <<>> /\ s[Len(s)] = First + drop + count - 1 /\ s[1] = First + drop
    BY <1>1, <1>2, <1>3, <1>13
  <2>2. next' = First'
    BY <1>1, <1>3, <1>4, <1>11, <2>1
  <2>3. First' \in Int
    BY <1>1, <1>3, <1>11
  <2>4. Sequel'
    <3>1. next' <= First' /\ next'..(First' - 1) = {}
      BY <2>2, <2>3, NothingBetween, Zenon
    <3> QED
      BY <3>1, Zenon DEF Sequel
  <2>5. Follows
    <3>1. out'[1] = First + drop
      BY <1>4, <2>1
    <3>2. First + drop >= next
      BY <1>1, <1>3
    <3>3. out'[1] >= next
      BY <3>1, <3>2
    <3>4. next..(out'[1] - 1) = next..((First + drop) - 1)
      BY <3>1, Zenon
    <3>5. next..(out'[1] - 1) \subseteq lost'
      BY <1>9, <3>4, Zenon
    <3> QED
      BY <3>3, <3>5 DEF Follows
  <2> QED
    BY <1>2, <1>4, <1>5, <1>6, <1>7, <1>10, <2>4, <2>5
<1> QED
  BY <1>12, <1>13

-------------------------------------------------------------------------------
(* One lemma per operation.                                                *)
LEMMA Facts ==
  ASSUME Inv
  PROVE  /\ SourceType /\ AmountType /\ CursorType /\ StoreType /\ ScanType /\ ReadsType
         /\ Patient /\ Owned /\ FullMeets /\ Available \in 0..RingSize
         /\ First \in Int /\ next <= First /\ next..(First - 1) \subseteq lost
<1>1. /\ SourceType /\ AmountType /\ CursorType /\ StoreType /\ ScanType /\ ReadsType
      /\ Patient /\ Owned /\ FullMeets /\ next <= First /\ next..(First - 1) \subseteq lost
  BY Types DEF Inv, Owned, Sequel
<1>2. Available \in 0..RingSize
  BY <1>1, AvailableType
<1>3. First \in Int
  BY <1>1, <1>2, Sizes DEF First, Kept, AmountType
<1> QED
  BY <1>1, <1>2, <1>3

(* Steps that leave the ring and the reader alone.                         *)
LEMMA Aside ==
  ASSUME Inv, UNCHANGED <<source, arrived, ring, cursor, pending, scan, history>>
  PROVE  /\ SourceType' /\ CursorType' /\ StoreType' /\ ScanType' /\ ReadsType'
         /\ Patient' /\ FullMeets' /\ RingIsStream' /\ WholeSamples' /\ Sequel' /\ Follows
         /\ Available' = Available
<1>1. /\ kind' = kind /\ lowLatency' = lowLatency /\ arrived' = arrived /\ ring' = ring
      /\ readPos' = readPos /\ writePos' = writePos /\ full' = full /\ pending' = pending
      /\ out' = out /\ next' = next /\ got' = got /\ lost' = lost /\ scan' = scan
  BY DEF source, cursor, history, reads
<1>2. Available' = Available /\ RingIsStream'
  BY <1>1, SameAvailable, SameCopy DEF Inv
<1>3. ReadsType' /\ WholeSamples' /\ ScanType' /\ Patient'
  BY <1>1, Facts, SameReads, SameScan DEF Inv
<1>4. SourceType' /\ CursorType' /\ StoreType' /\ FullMeets'
  BY <1>1, Facts DEF SourceType, CursorType, StoreType, FullMeets
<1>5. Sequel' /\ Follows
  BY <1>1, <1>2 DEF Inv, Sequel, First, Kept, Follows
<1> QED
  BY <1>2, <1>3, <1>4, <1>5

LEMMA CaptureStep == ASSUME Inv, Capture PROVE Inv' /\ Follows
<1>1. /\ inflight + Unit <= MaxInFlight * Unit /\ Captured + Unit <= MaxSamples * Unit
      /\ inflight' = inflight + Unit /\ callback' = callback
      /\ UNCHANGED <<source, arrived, ring, cursor, pending, scan, history>>
  BY DEF Capture
<1>2. kind' = kind /\ arrived' = arrived /\ full' = full /\ pending' = pending
      /\ readPos' = readPos /\ writePos' = writePos
  BY <1>1 DEF source, cursor
<1>3. /\ SourceType' /\ CursorType' /\ StoreType' /\ ScanType' /\ ReadsType'
      /\ Patient' /\ FullMeets' /\ RingIsStream' /\ WholeSamples' /\ Sequel' /\ Follows
      /\ Available' = Available
  BY <1>1, Aside
<1>4. /\ inflight \in Nat /\ callback \in 0..(2 * MaxInFlight) /\ arrived \in Nat
      /\ kind \in Kinds
  BY Facts, Sizes DEF AmountType, SourceType
<1>5. (kind = "sdrplay" /\ Unit = 1) \/ (kind # "sdrplay" /\ Unit = 2)
  BY DEF Unit
<1>6. inflight' \in 0..(2 * MaxInFlight) /\ Captured' <= 2 * MaxSamples
  <2>1. CASE Unit = 1
    BY <1>1, <1>2, <1>4, <2>1, Sizes DEF Captured
  <2>2. CASE Unit = 2
    BY <1>1, <1>2, <1>4, <2>2, Sizes DEF Captured
  <2> QED
    BY <1>5, <2>1, <2>2
<1>7. AmountType'
  BY <1>1, <1>2, <1>4, <1>6 DEF AmountType
<1>8. Aligned'
  <2>1. CASE kind = "sdrplay"
    BY <1>2, <2>1 DEF Aligned
  <2>2. CASE kind # "sdrplay"
    <3>1. inflight' = inflight + 2
      BY <1>1, <1>5, <2>2
    <3>2. inflight % 2 = 0 => inflight' % 2 = 0
      BY <1>4, <3>1
    <3>3. (inflight + arrived) % 2 = 0 => (inflight' + arrived) % 2 = 0
      BY <1>4, <3>1
    <3> QED
      BY <1>1, <1>2, <1>3, <3>2, <3>3 DEF Inv, Aligned
  <2> QED
    BY <2>1, <2>2
<1>9. Owned'
  BY <1>1, <1>2, <1>3, Facts DEF Owned
<1> QED
  BY <1>3, <1>7, <1>8, <1>9, NextTypes DEF Inv

(* What a callback takes over was in flight.                               *)
LEMMA TakenOver ==
  ASSUME Inv, NEW n \in 1..inflight, LockFree,
         callback' = n, inflight' = inflight - n, arrived' = arrived
  PROVE  AmountType'
BY Facts, Sizes DEF AmountType, Captured, LockFree

LEMMA UsbCallbackStep ==
  ASSUME Inv, NEW n \in 1..inflight, UsbCallback(n) PROVE Inv' /\ Follows
<1>1. /\ kind = "rtlsdr" /\ callback = 0 /\ n % 2 = 0
      /\ callback' = n /\ inflight' = inflight - n
      /\ UNCHANGED <<source, arrived, ring, cursor, pending, scan, history>>
  BY DEF UsbCallback, LockFree
<1>2. kind' = kind /\ arrived' = arrived /\ full' = full /\ pending' = pending
  BY <1>1 DEF source, cursor
<1>3. /\ SourceType' /\ CursorType' /\ StoreType' /\ ScanType' /\ ReadsType'
      /\ Patient' /\ FullMeets' /\ RingIsStream' /\ WholeSamples' /\ Sequel' /\ Follows
      /\ Available' = Available
  BY <1>1, Aside
<1>4. AmountType'
  BY <1>1, <1>2, TakenOver DEF LockFree
<1>5. Owned'
  BY <1>1, <1>2, <1>3, Facts DEF Owned
<1>6. Aligned'
  <2>1. /\ inflight % 2 = 0 /\ arrived % 2 = 0 /\ (full \/ Available % 2 = 0)
        /\ inflight \in Nat /\ arrived \in Nat /\ Available \in Nat /\ RingSize \in Nat
    BY <1>1, Facts, Sizes DEF Inv, Aligned, AmountType
  <2>2. /\ inflight' % 2 = 0 /\ (arrived + n) % 2 = 0
        /\ (full \/ (Available + n) % 2 = 0)
    BY <1>1, <2>1
  <2> QED
    BY <1>1, <1>2, <1>3, <2>2 DEF Aligned
<1> QED
  BY <1>3, <1>4, <1>5, <1>6, NextTypes DEF Inv

LEMMA Joined ==
  ASSUME NEW a \in Int, NEW b \in Int, NEW c \in Int, a <= b, b <= c,
         NEW L, NEW M, L \subseteq M, a..(b - 1) \subseteq L, b..(c - 1) \subseteq M
  PROVE  a <= c /\ a..(c - 1) \subseteq M
OBVIOUS

(* A ring emptied while the reader waits: what it held is lost.            *)
LEMMA EmptiedRing ==
  ASSUME Inv, Emptied, UNCHANGED <<source, ring, pending, scan, reads>>,
         First' \in Int, First <= First', lost' \in SUBSET Nat,
         lost \subseteq lost', First..(First' - 1) \subseteq lost'
  PROVE  /\ SourceType' /\ CursorType' /\ StoreType' /\ ScanType' /\ ReadsType'
         /\ Patient' /\ FullMeets' /\ RingIsStream' /\ WholeSamples' /\ Sequel' /\ Follows
         /\ Available' = 0 /\ ~full' /\ readPos' = writePos'
<1>1. /\ kind' = kind /\ lowLatency' = lowLatency /\ ring' = ring /\ pending' = pending
      /\ readPos' = 0 /\ writePos' = 0 /\ out' = out /\ next' = next /\ got' = got
      /\ scan' = scan
  BY DEF source, reads, Emptied
<1>2. full' = FALSE
  BY DEF Emptied
<1>3. CursorType' /\ ~full'
  <2>1. full' \in BOOLEAN /\ ~full'
    BY <1>2, Zenon
  <2> QED
    BY <1>1, <2>1, Sizes DEF CursorType
<1>4. Available' = 0 /\ RingIsStream' /\ FullMeets'
  BY <1>1, <1>3, EmptyRing
<1>5. ReadsType' /\ WholeSamples' /\ ScanType' /\ Patient'
  BY <1>1, Facts, SameReads, SameScan DEF Inv
<1>6. SourceType' /\ StoreType'
  BY <1>1, Facts DEF SourceType, StoreType
<1>7. Sequel' /\ Follows
  <2>1. next \in Nat /\ First \in Int /\ next <= First /\ next..(First - 1) \subseteq lost
    BY Facts DEF ReadsType
  <2>2. next <= First' /\ next..(First' - 1) \subseteq lost'
    <3>1. next \in Int
      BY <2>1
    <3> QED
      BY <2>1, <3>1, Joined, Zenon
  <2> QED
    BY <1>1, <2>2 DEF Sequel, Follows
<1> QED
  BY <1>1, <1>3, <1>4, <1>5, <1>6, <1>7

(* The SDRplay's ring is emptied, on a reset or a change of the rate.      *)
LEMMA DroppedRing ==
  ASSUME Inv, kind = "sdrplay", Emptied, lost' = lost \cup Stored, AmountType',
         UNCHANGED <<source, arrived, ring, pending, scan, reads>>
  PROVE  Inv' /\ Follows
<1>1. kind' = kind /\ arrived' = arrived /\ pending' = pending
  BY DEF source
<1>2. /\ Stored = (arrived - Available)..(arrived - 1) /\ pending = None
      /\ arrived \in Nat /\ Available \in 0..RingSize /\ RingSize \in Nat
      /\ lost \in SUBSET Nat /\ First = arrived - Available /\ First \in Int
      /\ next \in Nat /\ next <= First
  <2>1. Stored = (arrived - Available)..(arrived - 1)
    BY StoredElements
  <2>2. /\ AmountType /\ StoreType /\ ReadsType /\ Owned /\ Available \in 0..RingSize
        /\ First \in Int /\ next <= First
    BY Facts
  <2>3. pending = None
    BY <2>2 DEF Owned
  <2>4. arrived \in Nat /\ lost \in SUBSET Nat /\ next \in Nat /\ RingSize \in Nat
    BY <2>2, Sizes DEF AmountType, StoreType, ReadsType
  <2>5. First = arrived - Available
    BY <2>2, <2>3, <2>4 DEF First, Kept
  <2> QED
    BY <2>1, <2>2, <2>3, <2>4, <2>5
<1>3. First' = arrived
  <2>1. Available' = 0
    BY Sizes DEF Emptied, Available
  <2> QED
    BY <1>1, <1>2, <2>1 DEF First, Kept
<1>4. First..(First' - 1) = Stored /\ First <= First' /\ First' \in Int
  BY <1>2, <1>3
<1>5. lost' \in SUBSET Nat
  BY <1>2
<1>6. /\ SourceType' /\ CursorType' /\ StoreType' /\ ScanType' /\ ReadsType'
      /\ Patient' /\ FullMeets' /\ RingIsStream' /\ WholeSamples' /\ Sequel' /\ Follows
  BY <1>4, <1>5, EmptiedRing
<1>7. Owned' /\ Aligned'
  BY <1>1, <1>2, <1>6 DEF Owned, Aligned
<1> QED
  BY <1>6, <1>7, NextTypes DEF Inv

LEMMA SetScanWideModeStep == ASSUME Inv, SetScanWideMode PROVE Inv' /\ Follows
<1>1. /\ kind = "sdrplay" /\ Emptied /\ lost' = lost \cup Stored
      /\ UNCHANGED <<source, arrived, ring, pending, scan, reads>>
      /\ inflight' = inflight /\ callback' = callback /\ arrived' = arrived
  BY DEF SetScanWideMode
<1>2. AmountType'
  BY <1>1, Facts DEF AmountType, Captured
<1> QED
  BY <1>1, <1>2, DroppedRing

LEMMA IngestStep ==
  ASSUME Inv, NEW n \in 1..inflight, NEW again \in BOOLEAN, Ingest(n, again)
  PROVE  Inv' /\ Follows
<1>1. /\ kind = "sdrplay" /\ callback = 0 /\ callback' = n /\ inflight' = inflight - n
      /\ UNCHANGED <<source, arrived, ring, pending, scan, reads>>
  BY DEF Ingest, LockFree, reads
<1>2. kind' = kind /\ arrived' = arrived /\ pending' = pending
  BY <1>1 DEF source
<1>3. AmountType'
  BY <1>1, <1>2, TakenOver DEF LockFree
<1>4. Aligned'
  BY <1>1, <1>2 DEF Aligned
<1>5. CASE again
  <2>1. Emptied /\ lost' = lost \cup Stored
    BY <1>5 DEF Ingest
  <2> QED
    BY <1>1, <1>3, <2>1, DroppedRing
<1>6. CASE ~again
  <2>1. UNCHANGED <<source, arrived, ring, cursor, pending, scan, history>>
    BY <1>1, <1>6 DEF Ingest, history
  <2>2. /\ SourceType' /\ CursorType' /\ StoreType' /\ ScanType' /\ ReadsType'
        /\ Patient' /\ FullMeets' /\ RingIsStream' /\ WholeSamples' /\ Sequel' /\ Follows
    BY <2>1, Aside
  <2>3. Owned'
    BY <1>1, <1>2, <2>2, Facts DEF Owned
  <2> QED
    BY <1>3, <1>4, <2>2, <2>3, NextTypes DEF Inv
<1> QED
  BY <1>5, <1>6

LEMMA PutStep == ASSUME Inv, Put PROVE Inv' /\ Follows
<1>1. /\ callback > 0 /\ callback' = callback - 1 /\ arrived' = arrived + 1
      /\ kind' = kind /\ lowLatency' = lowLatency /\ inflight' = inflight
      /\ pending' = pending /\ scan' = scan
      /\ out' = out /\ next' = next /\ got' = got
      /\ writePos' = Wrapped(writePos + 1) /\ readPos' = Overwritten
      /\ lost' = IF full THEN lost \cup {ring[readPos]} ELSE lost
  BY DEF Put, source, reads
<1>2. full' = (writePos' = readPos')
  BY DEF Put
<1>3. /\ SourceType /\ AmountType /\ CursorType /\ StoreType /\ FullMeets
      /\ Available \in 0..RingSize /\ RingSize \in Nat \ {0} /\ RingSize % 2 = 0
      /\ First \in Int /\ next <= First /\ next..(First - 1) \subseteq lost /\ next \in Nat
  BY Facts, Sizes DEF ReadsType
<1>4. /\ callback \in Nat /\ inflight \in Nat /\ arrived \in Nat
      /\ readPos \in 0..(RingSize - 1)
  BY <1>3, Sizes DEF AmountType, CursorType
<1>5. kind # "rtltcp" /\ pending = None
  BY <1>1, <1>4, Facts DEF Owned
<1>6. /\ CursorType' /\ FullMeets' /\ RingIsStream' /\ ring' \in [0..(RingSize - 1) -> Nat]
  BY PutRing
<1>7. /\ full => Available' = Available /\ full' /\ Available = RingSize
      /\ ~full => Available' = Available + 1
  BY <1>1, <1>2, <1>3, PutCursor DEF Available
<1>8. AmountType'
  BY <1>1, <1>3, <1>4, Sizes DEF AmountType, Captured
<1>9. ReadsType' /\ WholeSamples' /\ ScanType' /\ Patient'
  BY <1>1, Facts, SameReads, SameScan DEF Inv
<1>10. First = arrived - Available
  BY <1>3, <1>4, <1>5 DEF First, Kept
<1>11. full => ring[readPos] = First
  <2>1. SUFFICES ASSUME full PROVE ring[readPos] = First
    OBVIOUS
  <2>2. ring[Wrapped(readPos + 0)] = arrived - Available + 0
    BY <1>3, <1>5, <1>7, <2>1 DEF Inv, RingIsStream
  <2>3. Wrapped(readPos + 0) = readPos
    BY <1>3, <1>4 DEF Wrapped
  <2> QED
    BY <1>3, <1>4, <1>10, <2>2, <2>3
<1>12. StoreType'
  <2>1. full => First \in Nat
    BY <1>3
  <2> QED
    BY <1>1, <1>3, <1>6, <1>11, <2>1 DEF StoreType
<1>13. Sequel' /\ Follows
  <2>1. First' = arrived + 1 - Available'
    BY <1>1, <1>3, <1>4, <1>5, <1>7 DEF First, Kept
  <2>2. CASE full
    <3>1. First' = First + 1 /\ lost' = lost \cup {First}
      BY <1>1, <1>3, <1>4, <1>7, <1>10, <1>11, <2>1, <2>2
    <3> QED
      BY <1>1, <1>3, <3>1 DEF Sequel, Follows
  <2>3. CASE ~full
    <3>1. First' = First /\ lost' = lost
      BY <1>1, <1>3, <1>4, <1>7, <1>10, <2>1, <2>3
    <3> QED
      BY <1>1, <1>3, <3>1 DEF Sequel, Follows
  <2> QED
    BY <2>2, <2>3
<1>14. Owned'
  BY <1>1, <1>5, <1>6 DEF Owned
<1>15. Aligned'
  <2>1. (arrived' + callback') = (arrived + callback)
    BY <1>1, <1>4
  <2>2. full' \/ Available' + callback' = Available + callback
    BY <1>1, <1>3, <1>4, <1>7
  <2>3. ~full' => ~full
    BY <1>7
  <2> QED
    BY <1>1, <1>5, <2>1, <2>2, <2>3 DEF Inv, Aligned
<1>16. SourceType'
  BY <1>1, <1>3 DEF SourceType
<1> QED
  BY <1>6, <1>8, <1>9, <1>12, <1>13, <1>14, <1>15, <1>16, NextTypes DEF Inv

(* A run of whole samples is what the rings return.                        *)
LEMMA RunIsWhole ==
  ASSUME NEW first \in Int, NEW count \in Nat, Len(out') = count, out' \in Seq(Nat),
         \A i \in 1..count : out'[i] = first + i - 1,
         kind' # "sdrplay" => first % 2 = 0 /\ count % 2 = 0
  PROVE  WholeSamples'
<1>1. \A i \in 1..(Len(out') - 1) : out'[i + 1] = out'[i] + 1
  BY Z3
<1>2. ASSUME kind' # "sdrplay", out' # <<>> PROVE out'[1] % 2 = 0 /\ Len(out') % 2 = 0
  <2>1. count > 0
    BY <1>2, EmptySeq
  <2>2. out'[1] = first
    BY <2>1
  <2> QED
    BY <1>2, <2>2
<1> QED
  BY <1>1, <1>2 DEF WholeSamples, Unit

(* The oldest element a ring still holds, or the next one to arrive.       *)
Front == arrived - Available

LEMMA ReadRtlSdrStep ==
  ASSUME Inv, NEW n \in 1..MaxRequest, ReadRtlSdr(n)
  PROVE  /\ Inv' /\ Follows
         /\ Len(out') % 2 = 0 /\ Front' >= Front + Len(out')
         /\ out' # <<>> => out'[1] >= Front
<1> DEFINE drop == Dropped(n)
           count == Even(Less(Available - drop, 2 * n))
<1>1. /\ kind = "rtlsdr" /\ callback = 0
      /\ readPos' = Wrapped(readPos + drop + count)
      /\ lost' = lost \cup Oldest(drop)
      /\ Delivered(Copied(readPos + drop, count))
      /\ UNCHANGED <<source, inflight, callback, arrived, ring, writePos, pending>>
  BY DEF ReadRtlSdr, Requested, LockFree
<1>2. full' = (full /\ drop + count = 0)
  BY DEF ReadRtlSdr
<1>3. /\ SourceType /\ AmountType /\ StoreType /\ Owned /\ pending = None
      /\ Available \in 0..RingSize /\ RingSize \in Nat /\ RingSize % 2 = 0
      /\ arrived \in Nat /\ First = arrived - Available
  BY <1>1, Facts, Sizes DEF AmountType, Owned, First, Kept
<1>4. arrived % 2 = 0 /\ inflight % 2 = 0 /\ Available % 2 = 0
  <2>1. full => Available = RingSize
    BY DEF Available
  <2>2. (arrived + 0) % 2 = 0 /\ inflight % 2 = 0 /\ (full \/ (Available + 0) % 2 = 0)
    BY <1>1 DEF Inv, Aligned
  <2> QED
    BY <1>3, <2>1, <2>2
<1>5. drop \in 0..Available /\ drop % 2 = 0
  <2>1. n \in Nat
    BY Sizes
  <2>2. CASE lowLatency /\ Available > 2 * n
    <3>1. Available - 2 * n \in 0..Available
      BY <1>3, <2>1, <2>2
    <3> QED
      BY <1>3, <2>2, <3>1, EvenType DEF Dropped
  <2>3. CASE ~(lowLatency /\ Available > 2 * n)
    BY <1>3, <2>3 DEF Dropped
  <2> QED
    BY <2>2, <2>3
<1> HIDE DEF drop
<1>6. count \in Nat /\ drop + count <= Available /\ count % 2 = 0
  <2>1. Available - drop \in Nat /\ 2 * n \in Nat
    BY <1>3, <1>5, Sizes
  <2>2. /\ Less(Available - drop, 2 * n) \in Nat
        /\ Less(Available - drop, 2 * n) <= Available - drop
    BY <2>1, LessType
  <2>3. count \in 0..Less(Available - drop, 2 * n) /\ count % 2 = 0
    BY <2>2, EvenType
  <2> HIDE DEF count
  <2> QED
    BY <1>3, <1>5, <2>2, <2>3
<1> HIDE DEF count
<1>7. kind' = kind /\ lowLatency' = lowLatency
  BY <1>1 DEF source
<1>8. /\ CursorType' /\ FullMeets' /\ Available' = Available - (drop + count)
      /\ RingIsStream' /\ ReadsType' /\ Sequel' /\ lost' \in SUBSET Nat
      /\ Len(out') = count /\ \A i \in 1..count : out'[i] = First + drop + i - 1
      /\ Follows /\ ScanType' /\ Patient'
  <2>1. drop \in Nat /\ kind # "rtltcp"
    BY <1>1, <1>3, <1>5
  <2> QED
    BY <1>1, <1>2, <1>6, <1>7, <2>1, RingRead
<1>9. WholeSamples'
  <2>1. First + drop \in Int /\ (First + drop) % 2 = 0
    BY <1>3, <1>4, <1>5
  <2> QED
    BY <1>6, <1>8, <2>1, RunIsWhole DEF ReadsType
<1>10. SourceType' /\ AmountType' /\ StoreType' /\ Owned'
  BY <1>1, <1>3, <1>7, <1>8 DEF SourceType, AmountType, Captured, StoreType, Owned
<1>11. Aligned'
  <2>1. (Available' + 0) % 2 = 0
    BY <1>3, <1>4, <1>5, <1>6, <1>8
  <2>2. (arrived + 0) % 2 = 0
    BY <1>3, <1>4
  <2> QED
    BY <1>1, <1>4, <1>7, <2>1, <2>2 DEF Aligned
<1>12. /\ Len(out') % 2 = 0 /\ Front' >= Front + Len(out')
       /\ out' # <<>> => out'[1] >= Front
  <2>1. Front = First /\ Front' = First + drop + count /\ drop \in Nat
    BY <1>1, <1>3, <1>5, <1>6, <1>8 DEF Front
  <2>2. out' # <<>> => 1 \in 1..count
    BY <1>6, <1>8, EmptySeq DEF ReadsType
  <2>3. out' # <<>> => out'[1] = First + drop + 1 - 1
    BY <1>8, <2>2
  <2> QED
    BY <1>3, <1>6, <1>8, <2>1, <2>3
<1> QED
  BY <1>8, <1>9, <1>10, <1>11, <1>12, NextTypes DEF Inv

LEMMA ReadSdrplayStep ==
  ASSUME Inv, NEW n \in 1..MaxRequest, ReadSdrplay(n) PROVE Inv' /\ Follows
<1> DEFINE count == Less(Available, n)
<1>1. /\ kind = "sdrplay" /\ callback = 0 /\ readPos' = Wrapped(readPos + count)
      /\ Delivered(Copied(readPos, count))
      /\ UNCHANGED <<source, inflight, callback, arrived, ring, writePos, pending, lost>>
  BY DEF ReadSdrplay, Requested, LockFree
<1>2. full' = (full /\ count = 0)
  BY DEF ReadSdrplay
<1>3. /\ SourceType /\ AmountType /\ StoreType /\ Owned /\ pending = None
      /\ Available \in 0..RingSize /\ RingSize \in Nat /\ readPos \in 0..(RingSize - 1)
      /\ arrived \in Nat /\ First = arrived - Available
  BY <1>1, Facts, Sizes DEF AmountType, CursorType, Owned, First, Kept
<1>4. count \in Nat /\ count <= Available
  <2>1. n \in Nat /\ Available \in Nat
    BY <1>3, Sizes
  <2> QED
    BY <2>1, LessType
<1> HIDE DEF count
<1>5. kind' = kind /\ lowLatency' = lowLatency
  BY <1>1 DEF source
<1>6. /\ CursorType' /\ FullMeets' /\ RingIsStream' /\ ReadsType' /\ Sequel'
      /\ Len(out') = count /\ \A i \in 1..count : out'[i] = First + 0 + i - 1
      /\ Follows /\ ScanType' /\ Patient'
  <2>1. /\ 0 \in Nat /\ kind # "rtltcp" /\ 0 + count <= Available
        /\ UNCHANGED <<kind, ring, arrived, writePos, pending>>
    BY <1>1, <1>3, <1>4, <1>5
  <2>2. /\ readPos + 0 + count = readPos + count /\ readPos + 0 = readPos
        /\ 0 + count = count
    BY <1>3, <1>4
  <2>3. readPos' = Wrapped(readPos + 0 + count) /\ Delivered(Copied(readPos + 0, count))
    BY <1>1, <2>2
  <2>4. lost' = lost \cup Oldest(0)
    BY <1>1 DEF Oldest
  <2>5. full' = (full /\ 0 + count = 0)
    BY <1>2, <2>2, Zenon
  <2> QED
    BY <1>4, <2>1, <2>3, <2>4, <2>5, RingRead
<1>7. WholeSamples'
  <2>1. First + 0 \in Int /\ out' \in Seq(Nat) /\ ~(kind' # "sdrplay")
    BY <1>1, <1>3, <1>5, <1>6 DEF ReadsType
  <2> QED
    BY <1>4, <1>6, <2>1, RunIsWhole
<1>8. SourceType' /\ AmountType' /\ StoreType' /\ Owned'
  BY <1>1, <1>3, <1>5, <1>6 DEF SourceType, AmountType, Captured, StoreType, Owned
<1>9. Aligned'
  BY <1>1, <1>5 DEF Aligned
<1> QED
  BY <1>6, <1>7, <1>8, <1>9, NextTypes DEF Inv

LEMMA EvenSum ==
  ASSUME NEW a \in Int, NEW b \in Int, a % 2 = 0 PROVE (a + b) % 2 = b % 2
OBVIOUS

(* The bytes an rtl_tcp read has at hand.                                  *)
LEMMA TcpBytes ==
  ASSUME Inv, kind = "rtltcp", NEW k \in 0..inflight
  PROVE  LET kept == IF pending = None THEN <<>> ELSE <<pending>>
             bytes == kept \o [i \in 1..k |-> arrived + i - 1]
         IN  /\ bytes \in Seq(Nat) /\ Len(bytes) = Kept + k
             /\ \A i \in 1..(Kept + k) : bytes[i] = arrived - Kept + i - 1
<1> DEFINE kept == IF pending = None THEN <<>> ELSE <<pending>>
           new == [i \in 1..k |-> arrived + i - 1]
           bytes == kept \o new
<1>1. /\ arrived \in Nat /\ k \in Nat /\ pending \in Nat \cup {None}
      /\ pending # None => pending = arrived - 1
  BY Facts, Sizes DEF AmountType, StoreType, Owned
<1>2. new \in Seq(Nat) /\ Len(new) = k /\ \A i \in 1..k : new[i] = arrived + i - 1
  BY <1>1
<1>3. CASE pending = None
  <2>1. kept = <<>> /\ Kept = 0
    BY <1>3 DEF Kept
  <2>2. bytes = new
    <3> HIDE DEF new
    <3> QED
      BY <1>2, <2>1, ConcatEmptySeq
  <2> HIDE DEF new, kept, bytes
  <2>3. \A i \in 1..k : bytes[i] = arrived - 0 + i - 1
    BY <1>1, <1>2, <2>2
  <2>4. bytes \in Seq(Nat) /\ Len(bytes) = Kept + k
    BY <1>1, <1>2, <2>1, <2>2
  <2>5. \A i \in 1..(Kept + k) : bytes[i] = arrived - Kept + i - 1
    BY <1>1, <2>1, <2>3
  <2> QED
    BY <2>4, <2>5 DEF new, kept, bytes
<1>4. CASE pending # None
  <2>1. kept = <<pending>> /\ Kept = 1 /\ pending = arrived - 1 /\ pending \in Nat
    BY <1>1, <1>4 DEF Kept
  <2>2. kept \in Seq(Nat) /\ Len(kept) = 1 /\ kept[1] = arrived - 1
    BY <2>1
  <2> HIDE DEF new, kept
  <2>3. /\ bytes \in Seq(Nat) /\ Len(bytes) = 1 + k
        /\ \A i \in 1..(1 + k) : bytes[i] = IF i <= 1 THEN kept[i] ELSE new[i - 1]
    <3>1. /\ kept \o new \in Seq(Nat) /\ Len(kept \o new) = Len(kept) + Len(new)
          /\ \A i \in 1..(Len(kept) + Len(new)) :
               (kept \o new)[i] = IF i <= Len(kept) THEN kept[i] ELSE new[i - Len(kept)]
      BY <1>2, <2>2, ConcatProperties, Zenon
    <3> QED
      BY <1>2, <2>2, <3>1
  <2> HIDE DEF bytes
  <2>4. ASSUME NEW i \in 1..(1 + k) PROVE bytes[i] = arrived - 1 + i - 1
    <3>1. CASE i = 1
      BY <1>1, <2>2, <2>3, <3>1
    <3>2. CASE i # 1
      <4>1. i - 1 \in 1..k
        BY <1>1, <3>2
      <4> QED
        BY <1>1, <1>2, <2>3, <3>2, <4>1
    <3> QED
      BY <3>1, <3>2
  <2> QED
    BY <2>1, <2>3, <2>4 DEF new, kept, bytes
<1> QED
  BY <1>3, <1>4

LEMMA ReadTcpStep ==
  ASSUME Inv, NEW n \in 1..MaxRequest, NEW k \in 0..inflight, ReadTcp(n, k)
  PROVE  Inv' /\ Follows
<1> DEFINE kept == IF pending = None THEN <<>> ELSE <<pending>>
           bytes == kept \o [i \in 1..k |-> arrived + i - 1]
           all == Len(bytes)
           s == SubSeq(bytes, 1, Even(all))
<1>1. /\ kind = "rtltcp" /\ callback = 0
      /\ pending' = (IF all % 2 = 1 THEN bytes[all] ELSE None)
      /\ Delivered(s) /\ inflight' = inflight - k /\ arrived' = arrived + k
      /\ UNCHANGED <<source, callback, ring, cursor, lost>>
  BY DEF ReadTcp, Requested, LockFree
<1>2. /\ SourceType /\ AmountType /\ CursorType /\ StoreType /\ ScanType /\ ReadsType
      /\ Patient /\ Owned /\ FullMeets /\ ~full /\ readPos = writePos
      /\ arrived \in Nat /\ k \in Nat /\ inflight \in 0..(2 * MaxInFlight) /\ k <= inflight
      /\ MaxInFlight \in Nat /\ TypeOK /\ next \in Nat
  BY <1>1, Facts, Sizes DEF Inv, AmountType, Owned, ReadsType
<1>3. /\ bytes \in Seq(Nat) /\ all = Kept + k /\ Kept \in {0, 1}
      /\ \A i \in 1..all : bytes[i] = arrived - Kept + i - 1
  BY <1>1, TcpBytes DEF Kept
<1>4. Available = 0 /\ First = arrived - Kept /\ next <= First
      /\ next..(First - 1) \subseteq lost
  <2>1. Available = 0
    BY <1>2, Sizes DEF CursorType, Available
  <2> QED
    BY <1>2, <1>3, <2>1, Facts DEF First
<1>5. (inflight + arrived) % 2 = 0 /\ (pending = None <=> arrived % 2 = 0)
  BY <1>1 DEF Inv, Aligned
<1>6. First % 2 = 0
  BY <1>2, <1>3, <1>4, <1>5 DEF Kept
<1> HIDE DEF bytes, all
<1>7. all \in Nat /\ Even(all) \in 0..all /\ Even(all) % 2 = 0
  <2>1. all \in Nat
    BY <1>2, <1>3
  <2> QED
    BY <2>1, EvenType
<1>8. /\ s \in Seq(Nat) /\ Len(s) = Even(all)
      /\ \A i \in 1..Even(all) : s[i] = First + i - 1
  <2>1. \A i \in 1..Even(all) : bytes[i] \in Nat
    BY SMTT(30), <1>3, <1>7, ElementOfSeq DEF all
  <2>2. s = [i \in 1..Even(all) |-> bytes[i]]
    BY <1>3, <1>7, SubSeqProperties DEF all
  <2>3. \A i \in 1..Even(all) : bytes[i] = First + i - 1
    BY <1>3, <1>4, <1>7
  <2> QED
    BY <1>7, <2>1, <2>2, <2>3
<1> HIDE DEF s
<1>9. ReadsType' /\ out' = s /\ (got' # got => s # <<>>)
      /\ next' = (IF s = <<>> THEN next ELSE s[Len(s)] + 1)
  BY <1>1, <1>2, <1>8, DeliveredType
<1>10. ScanType' /\ Patient'
  BY <1>1, <1>2, <1>8, SettlesType DEF Delivered
<1>11. /\ kind' = kind /\ lowLatency' = lowLatency /\ readPos' = readPos
       /\ writePos' = writePos /\ full' = full /\ ring' = ring /\ callback' = callback
       /\ lost' = lost
  BY <1>1 DEF source, cursor
<1>12. /\ SourceType' /\ CursorType' /\ FullMeets' /\ AmountType' /\ Available' = 0
  <2>1. Available' = 0
    BY <1>4, <1>11, SameAvailable
  <2>2. SourceType' /\ CursorType' /\ FullMeets'
    BY <1>2, <1>11 DEF SourceType, CursorType, FullMeets
  <2>3. AmountType'
    BY <1>1, <1>2, <1>11 DEF AmountType, Captured
  <2> QED
    BY <2>1, <2>2, <2>3
<1>13. First \in Int /\ arrived' = First + all /\ arrived' % 2 = all % 2
  <2>1. First \in Int /\ all \in Int /\ arrived' = First + all
    BY <1>1, <1>2, <1>3, <1>4, <1>7
  <2> QED
    BY <1>6, <2>1, EvenSum
<1>14. inflight' + arrived' = inflight + arrived
  BY <1>1, <1>2
<1>15. /\ pending' \in Nat \cup {None} /\ (pending' # None => pending' = arrived' - 1)
       /\ (pending' = None <=> arrived' % 2 = 0) /\ First' = First + Even(all)
  <2>1. CASE all % 2 = 1
    <3>1. Even(all) = all - 1
      BY <1>7, <2>1 DEF Even
    <3>2. pending' = bytes[all] /\ all \in 1..all
      BY <1>1, <1>7, <2>1
    <3>3. bytes[all] \in Nat /\ bytes[all] = First + all - 1
      BY <1>3, <1>4, <3>2, ElementOfSeq DEF all
    <3>4. pending' \in Nat /\ pending' # None /\ Kept' = 1 /\ pending' = arrived' - 1
      BY <1>7, <1>13, <3>2, <3>3 DEF None, Kept
    <3>5. First' = First + Even(all)
      BY <1>7, <1>12, <1>13, <3>1, <3>4 DEF First
    <3> QED
      BY <1>13, <2>1, <3>4, <3>5
  <2>2. CASE all % 2 # 1
    <3>1. all % 2 = 0 /\ Even(all) = all
      BY <1>7, <2>2 DEF Even
    <3>2. pending' = None /\ Kept' = 0
      BY <1>1, <2>2 DEF Kept
    <3>3. First' = First + Even(all)
      BY <1>7, <1>12, <1>13, <3>1, <3>2 DEF First
    <3> QED
      BY <1>13, <3>1, <3>2, <3>3
  <2> QED
    BY <2>1, <2>2
<1>16. Sequel' /\ Follows
  <2>1. CASE Even(all) = 0
    <3>1. s = <<>>
      BY <1>8, <2>1, EmptySeq
    <3>2. next' = next /\ got' = got /\ First' = First
      BY <1>9, <1>13, <1>15, <2>1, <3>1
    <3> QED
      BY <1>4, <1>11, <3>2 DEF Sequel, Follows
  <2>2. CASE Even(all) # 0
    <3>1. /\ s # <<>> /\ s[Len(s)] = First + Even(all) - 1 /\ s[1] = First
      BY SMTT(30), <1>7, <1>8, <1>13, <2>2
    <3>2. next' = First' /\ First' \in Int
      BY <1>7, <1>9, <1>13, <1>15, <3>1
    <3>3. Sequel'
      <4>1. next' <= First' /\ next'..(First' - 1) = {}
        BY <3>2, NothingBetween, Zenon
      <4> QED
        BY <4>1, Zenon DEF Sequel
    <3>4. out'[1] = First /\ First >= next
      BY <1>2, <1>4, <1>9, <1>13, <3>1
    <3>5. Follows
      BY <1>4, <1>11, <3>4, Zenon DEF Follows
    <3> QED
      BY <3>3, <3>5
  <2> QED
    BY <2>1, <2>2
<1>17. WholeSamples'
  <2>1. Len(out') = Even(all) /\ out' \in Seq(Nat) /\ Even(all) \in Nat
        /\ \A i \in 1..Even(all) : out'[i] = First + i - 1
    BY <1>7, <1>8, <1>9
  <2> QED
    BY <1>6, <1>7, <1>13, <2>1, RunIsWhole
<1>18. StoreType' /\ Owned' /\ Aligned' /\ RingIsStream'
  <2>1. StoreType'
    BY <1>2, <1>11, <1>15 DEF StoreType
  <2>2. Owned'
    BY <1>1, <1>2, <1>11, <1>12, <1>15 DEF Owned
  <2>3. Aligned'
    BY <1>1, <1>5, <1>11, <1>14, <1>15 DEF Aligned
  <2>4. RingIsStream'
    BY <1>1, <1>11 DEF RingIsStream
  <2> QED
    BY <2>1, <2>2, <2>3, <2>4
<1> QED
  BY <1>9, <1>10, <1>12, <1>16, <1>17, <1>18, NextTypes DEF Inv

LEMMA ScanRetuneStep == ASSUME Inv, ScanRetune PROVE Inv' /\ Follows
<1>1. /\ callback = 0 /\ FlushBuffers
      /\ phase' = "settle" /\ settle' = Settle /\ empties' = 0 /\ tunedAt' = Captured
      /\ UNCHANGED <<source, inflight, callback, arrived, ring, writePos, pending, reads>>
  BY DEF ScanRetune, LockFree
<1>2. rushed' = FALSE
  BY DEF ScanRetune
<1>3. /\ kind' = kind /\ lowLatency' = lowLatency /\ inflight' = inflight
      /\ callback' = callback /\ arrived' = arrived /\ ring' = ring /\ writePos' = writePos
      /\ pending' = pending /\ out' = out /\ next' = next /\ got' = got
  BY <1>1 DEF source, reads
<1>4. /\ SourceType /\ AmountType /\ CursorType /\ StoreType /\ ReadsType /\ Owned
      /\ FullMeets /\ arrived \in Nat /\ Available \in 0..RingSize /\ RingSize \in Nat
      /\ First \in Int /\ next \in Nat /\ next <= First /\ next..(First - 1) \subseteq lost
      /\ lost \in SUBSET Nat
  BY Facts, Sizes DEF AmountType, StoreType, ReadsType
<1>5. ScanType' /\ Patient'
  <2>1. Captured \in Nat
    BY <1>4, Sizes DEF AmountType, Captured
  <2>2. rushed' \in BOOLEAN
    BY <1>2, Zenon
  <2> QED
    BY <1>1, <2>1, <2>2, Sizes DEF ScanType, Patient
<1>6. SourceType' /\ AmountType' /\ ReadsType' /\ WholeSamples'
  BY <1>3, <1>4, SameReads DEF Inv, SourceType, AmountType, Captured
<1>7. CASE kind = "rtlsdr"
  <2>1. readPos' = writePos /\ lost' = lost \cup Stored
    BY <1>1, <1>7 DEF FlushBuffers
  <2>2. full' = FALSE
    BY <1>1, <1>7 DEF FlushBuffers
  <2>3. CursorType' /\ ~full'
    <3>1. full' \in BOOLEAN /\ ~full'
      BY <2>2, Zenon
    <3> QED
      BY <1>3, <1>4, <2>1, <3>1 DEF CursorType
  <2>4. Available' = 0 /\ RingIsStream' /\ FullMeets'
    BY <1>3, <2>1, <2>3, EmptyRing
  <2>5. Stored = (arrived - Available)..(arrived - 1) /\ pending = None
        /\ First = arrived - Available /\ First' = arrived
    BY <1>3, <1>4, <1>7, <2>4, StoredElements DEF Owned, First, Kept
  <2>6. StoreType' /\ Owned'
    BY <1>3, <1>4, <1>7, <2>1, <2>4, <2>5 DEF StoreType, Owned
  <2>7. Sequel' /\ Follows
    <3>1. /\ next \in Int /\ First' \in Int /\ First <= First' /\ lost \subseteq lost'
          /\ First..(First' - 1) \subseteq lost'
      BY <1>4, <2>1, <2>5
    <3>2. next <= First' /\ next..(First' - 1) \subseteq lost'
      BY <1>4, <3>1, Joined, Zenon
    <3> QED
      BY <1>3, <3>2 DEF Sequel, Follows
  <2>8. Aligned'
    <3>1. (arrived + callback) % 2 = 0 /\ inflight % 2 = 0 /\ 0 + callback = 0
      BY <1>1, <1>7 DEF Inv, Aligned
    <3> QED
      BY <1>3, <1>7, <2>4, <3>1 DEF Aligned
  <2> QED
    BY <1>5, <1>6, <2>3, <2>4, <2>6, <2>7, <2>8, NextTypes DEF Inv
<1>8. CASE kind # "rtlsdr"
  <2>1. readPos' = readPos /\ full' = full /\ lost' = lost
    BY <1>1, <1>8 DEF FlushBuffers
  <2>2. Available' = Available /\ RingIsStream'
    BY <1>3, <2>1, SameAvailable, SameCopy DEF Inv
  <2>3. CursorType' /\ StoreType' /\ Owned'
    BY <1>3, <1>4, <2>1 DEF CursorType, StoreType, Owned, FullMeets
  <2>4. Sequel' /\ Follows
    BY <1>3, <2>1, <2>2 DEF Inv, Sequel, First, Kept, Follows
  <2>5. Aligned'
    BY <1>3, <1>8, <2>2 DEF Inv, Aligned
  <2> QED
    BY <1>5, <1>6, <2>2, <2>3, <2>4, <2>5, NextTypes DEF Inv
<1> QED
  BY <1>7, <1>8

LEMMA ReconnectStep == ASSUME Inv, Reconnect PROVE Inv' /\ Follows
<1>1. /\ callback = 0 /\ Emptied /\ pending' = None /\ inflight' = 0 /\ arrived' = Captured
      /\ lost' = lost \cup (next..(Captured - 1))
      /\ phase' = "idle" /\ UNCHANGED <<settle, empties, tunedAt, rushed>>
      /\ UNCHANGED <<source, callback, ring, reads>>
  BY DEF Reconnect, LockFree
<1>2. /\ kind' = kind /\ lowLatency' = lowLatency /\ ring' = ring /\ callback' = 0
      /\ out' = out /\ next' = next /\ got' = got /\ readPos' = 0 /\ writePos' = 0
  BY <1>1 DEF source, reads, Emptied
<1>3. full' = FALSE
  BY <1>1 DEF Emptied
<1>4. /\ SourceType /\ AmountType /\ StoreType /\ ScanType /\ ReadsType /\ Owned
      /\ arrived \in Nat /\ inflight \in Nat /\ next \in Nat /\ next <= First
      /\ Available \in 0..RingSize /\ RingSize \in Nat
      /\ lost \in SUBSET Nat /\ Captured \in Nat /\ Captured = arrived + inflight
      /\ Captured <= 2 * MaxSamples
  <2>1. /\ SourceType /\ AmountType /\ StoreType /\ ScanType /\ ReadsType /\ Owned
        /\ next <= First /\ Available \in 0..RingSize
    BY Facts
  <2>2. arrived \in Nat /\ inflight \in Nat /\ Captured <= 2 * MaxSamples
    BY <2>1, Sizes DEF AmountType
  <2>3. Captured = arrived + inflight
    BY <1>1, <2>2 DEF Captured
  <2> QED
    BY <2>1, <2>2, <2>3, Sizes DEF StoreType, ReadsType
<1>5. CursorType' /\ ~full'
  <2>1. full' \in BOOLEAN /\ ~full'
    BY <1>3, Zenon
  <2> QED
    BY <1>2, <2>1, Sizes DEF CursorType
<1>6. Available' = 0 /\ RingIsStream' /\ FullMeets'
  BY <1>2, <1>5, EmptyRing
<1>7. SourceType' /\ AmountType' /\ StoreType' /\ ReadsType' /\ WholeSamples'
  <2>1. SourceType' /\ ReadsType' /\ WholeSamples'
    BY <1>2, <1>4, SameReads DEF Inv, SourceType
  <2>2. AmountType'
    BY <1>1, <1>2, <1>4, Sizes DEF AmountType, Captured
  <2>3. next..(Captured - 1) \subseteq Nat
    BY <1>4
  <2>4. StoreType'
    BY <1>1, <1>2, <1>4, <2>3 DEF StoreType
  <2> QED
    BY <2>1, <2>2, <2>4
<1>8. ScanType' /\ Patient'
  BY <1>1, <1>4 DEF ScanType, Patient
<1>9. Owned'
  BY <1>1, <1>2, <1>5, <1>6 DEF Owned
<1>10. Aligned'
  <2>1. kind # "sdrplay" => Captured % 2 = 0
    <3>1. CASE kind = "rtlsdr"
      <4>1. (arrived + 0) % 2 = 0 /\ inflight % 2 = 0
        BY <1>1, <3>1 DEF Inv, Aligned
      <4> QED
        BY <1>4, <4>1
    <3>2. CASE kind = "rtltcp"
      <4>1. (inflight + arrived) % 2 = 0
        BY <3>2 DEF Inv, Aligned
      <4> QED
        BY <1>4, <4>1
    <3> QED
      BY <1>4, <3>1, <3>2 DEF SourceType, Kinds
  <2>2. Captured + 0 = Captured /\ 0 + Captured = Captured /\ 0 % 2 = 0 /\ (0 + 0) % 2 = 0
    BY <1>4
  <2> QED
    BY <1>1, <1>2, <1>6, <2>1, <2>2 DEF Aligned
<1>11. Sequel' /\ Follows
  <2>1. First' = Captured /\ next <= Captured
    BY <1>1, <1>4, <1>6 DEF First, Kept
  <2> QED
    BY <1>1, <1>2, <2>1 DEF Sequel, Follows
<1> QED
  BY <1>5, <1>6, <1>7, <1>8, <1>9, <1>10, <1>11, NextTypes DEF Inv

-------------------------------------------------------------------------------
LEMMA StutterInv == ASSUME Inv, UNCHANGED vars PROVE Inv' /\ Follows
<1>1. /\ UNCHANGED <<source, arrived, ring, cursor, pending, scan, history>>
      /\ inflight' = inflight /\ callback' = callback
  BY DEF vars
<1>2. /\ SourceType' /\ CursorType' /\ StoreType' /\ ScanType' /\ ReadsType'
      /\ Patient' /\ FullMeets' /\ RingIsStream' /\ WholeSamples' /\ Sequel' /\ Follows
      /\ Available' = Available
  BY <1>1, Aside
<1>3. /\ kind' = kind /\ arrived' = arrived /\ pending' = pending /\ full' = full
      /\ readPos' = readPos /\ writePos' = writePos
  BY <1>1 DEF source, cursor
<1>4. AmountType' /\ Owned' /\ Aligned'
  BY <1>1, <1>2, <1>3, Facts DEF Inv, AmountType, Captured, Owned, Aligned
<1> QED
  BY <1>2, <1>4, NextTypes DEF Inv

LEMMA NextInv == ASSUME Inv, [Next]_vars PROVE Inv' /\ Follows
<1>1. CASE Capture
  BY <1>1, CaptureStep
<1>2. CASE Callback
  BY <1>2, UsbCallbackStep, IngestStep DEF Callback
<1>3. CASE Put
  BY <1>3, PutStep
<1>4. CASE Read
  BY <1>4, ReadRtlSdrStep, ReadSdrplayStep, ReadTcpStep DEF Read
<1>5. CASE ScanRetune
  BY <1>5, ScanRetuneStep
<1>6. CASE Reconnect
  BY <1>6, ReconnectStep
<1>7. CASE SetScanWideMode
  BY <1>7, SetScanWideModeStep
<1>8. CASE UNCHANGED vars
  BY <1>8, StutterInv
<1> QED
  BY <1>1, <1>2, <1>3, <1>4, <1>5, <1>6, <1>7, <1>8 DEF Next

LEMMA AlwaysInv == Spec => []Inv
<1>1. Inv /\ [Next]_vars => Inv'
  BY NextInv
<1> QED
  BY InitInv, <1>1, PTL DEF Spec

(* The state keeps its types; no position leaves the ring.                 *)
THEOREM TypeCorrect == Spec => []TypeOK
<1>1. Inv => TypeOK
  BY DEF Inv
<1> QED
  BY AlwaysInv, <1>1, PTL

(* A ring of any even size holds the newest elements in order, whatever    *)
(* sequence of overflows, drops, reads, flushes and resets led there.      *)
THEOREM RingStream == Spec => []RingIsStream
<1>1. Inv => RingIsStream
  BY DEF Inv
<1> QED
  BY AlwaysInv, <1>1, PTL

(* Every read of every backend returns whole I/Q pairs.                    *)
THEOREM WholePairs == Spec => []WholeSamples
<1>1. Inv => WholeSamples
  BY DEF Inv
<1> QED
  BY AlwaysInv, <1>1, PTL

(* Reads follow each other, and what is missing between them was dropped.  *)
THEOREM ReadsContinue == Spec => Continuity
<1>1. Inv /\ [Next]_vars => [got' # got => /\ out'[1] >= next
                                           /\ next..(out'[1] - 1) \subseteq lost']_vars
  BY NextInv DEF Follows
<1> QED
  BY AlwaysInv, <1>1, PTL DEF Spec, Continuity

-------------------------------------------------------------------------------
(* What was captured before a retune and not flushed is discarded while    *)
(* the scan engine settles: it has to discard no more than was in flight.  *)
Fresh ==
  kind = "rtlsdr" =>
    /\ phase = "settle" => Front + 2 * settle >= tunedAt
    /\ phase \in {"measure", "measured"} /\ ~rushed => Front >= tunedAt
    /\ phase = "measured" /\ ~rushed /\ out # <<>> => out[1] >= tunedAt

LEMMA FrontType == ASSUME Inv PROVE Front \in Int
BY Facts, Sizes DEF Front, AmountType

LEMMA NextFrontType == ASSUME Inv' PROVE Front' \in Int
<1>1. readPos' \in Int /\ writePos' \in Int /\ arrived' \in Int /\ RingSize \in Int
  BY Sizes DEF Inv, TypeOK
<1>2. Available' \in Int
  BY <1>1 DEF Available
<1> QED
  BY <1>1, <1>2 DEF Front

(* What is left to discard shrinks by what was read.                       *)
LEMMA LeftToDiscard ==
  ASSUME NEW a \in Int, NEW b \in Int, NEW t \in Int, NEW k \in Nat, NEW m \in Nat,
         b >= a + 2 * k, a + 2 * m >= t
  PROVE  /\ k >= m => b >= t
         /\ ~(k >= m) => m - k \in Nat \ {0} /\ b + 2 * (m - k) >= t
OBVIOUS

LEMMA SameLeft ==
  \A a, b, t \in Int : \A m \in Nat : b >= a => (a + 2 * m >= t => b + 2 * m >= t)
OBVIOUS

LEMMA SameFresh ==
  ASSUME Inv, Inv', Fresh, UNCHANGED <<kind, scan, out>>, Front' >= Front
  PROVE  Fresh'
<1>1. /\ Front \in Int /\ Front' \in Int /\ settle \in Nat /\ tunedAt \in Nat
      /\ settle' = settle /\ tunedAt' = tunedAt /\ phase' = phase /\ rushed' = rushed
  <2> QED
    BY FrontType, NextFrontType, Facts, Sizes DEF ScanType, scan
<1>2. Front + 2 * settle >= tunedAt => Front' + 2 * settle >= tunedAt
  <2>1. PICK a \in Int : a = Front
    BY <1>1
  <2>2. PICK b \in Int : b = Front'
    BY <1>1
  <2>3. PICK t \in Int : t = tunedAt
    BY <1>1
  <2>4. PICK m \in Nat : m = settle
    BY <1>1
  <2>5. b >= a => (a + 2 * m >= t => b + 2 * m >= t)
    BY SameLeft
  <2> QED
    BY <2>1, <2>2, <2>3, <2>4, <2>5
<1>3. Front >= tunedAt => Front' >= tunedAt
  BY <1>1
<1> QED
  BY <1>1, <1>2, <1>3, Zenon DEF Fresh

LEMMA RetuneIsFresh ==
  ASSUME Inv, ScanRetune PROVE Fresh'
<1>1. /\ callback = 0 /\ phase' = "settle" /\ settle' = Settle /\ tunedAt' = Captured
      /\ kind' = kind /\ arrived' = arrived /\ writePos' = writePos
      /\ kind = "rtlsdr" => readPos' = writePos /\ full' = FALSE
  BY DEF ScanRetune, FlushBuffers, LockFree, source
<1>2. inflight <= 2 * MaxInFlight /\ inflight \in Nat /\ arrived \in Nat
      /\ MaxInFlight \in Nat /\ Settle \in Nat /\ MaxInFlight <= Settle
  BY Facts, Sizes, SettleAssumption DEF AmountType
<1>3. SUFFICES ASSUME kind = "rtlsdr" PROVE Front' + 2 * Settle >= Captured
  BY <1>1 DEF Fresh
<1>4. writePos \in Nat
  BY Facts, Sizes DEF CursorType
<1>5. Available' = 0
  BY <1>1, <1>3, <1>4 DEF Available
<1>6. Front' = arrived /\ Captured = arrived + inflight
  BY <1>1, <1>2, <1>5 DEF Front, Captured
<1> QED
  BY <1>2, <1>6

(* A read while settling is counted; one after it is of what came later.   *)
LEMMA ReadIsFresh ==
  ASSUME Inv, Fresh, NEW n \in 1..MaxRequest, ReadRtlSdr(n) PROVE Fresh'
<1> DEFINE k == Len(out') \div 2
<1>1. /\ kind = "rtlsdr" /\ kind' = kind /\ Settles(out')
      /\ tunedAt' = tunedAt
  BY DEF ReadRtlSdr, Delivered, Settles, source
<1>2. /\ Len(out') % 2 = 0 /\ Front' >= Front + Len(out')
      /\ out' # <<>> => out'[1] >= Front
  BY ReadRtlSdrStep
<1>3. /\ Front \in Int /\ Front' \in Int /\ settle \in Nat /\ tunedAt \in Nat
      /\ Len(out') \in Nat
      /\ out' # <<>> => out'[1] \in Nat
  <2>1. Inv' /\ arrived' = arrived
    BY ReadRtlSdrStep DEF ReadRtlSdr
  <2>2. out' \in Seq(Nat)
    BY <2>1 DEF Inv, TypeOK
  <2>3. out' # <<>> => out'[1] \in Nat
    BY <2>2, EmptySeq, LenProperties, ElementOfSeq
  <2> QED
    BY <2>1, <2>2, <2>3, FrontType, NextFrontType, Facts, Sizes DEF ScanType
<1>4. Len(out') = 2 * k /\ k \in Nat
  <2>1. \A m \in Nat : m % 2 = 0 => m = 2 * (m \div 2) /\ m \div 2 \in Nat
    OBVIOUS
  <2> QED
    BY <1>2, <1>3, <2>1
<1> HIDE DEF k
<1>5. CASE phase = "settle"
  <2>1. settle' = (IF k >= settle THEN 0 ELSE settle - k)
    BY <1>1, <1>5 DEF Settles, Unit, k
  <2>2. /\ phase' = (IF settle' = 0 \/ empties' = EmptyLimit THEN "measure" ELSE "settle")
        /\ empties' = EmptyLimit => rushed'
    BY <1>1, <1>5 DEF Settles
  <2>3. Front + 2 * settle >= tunedAt
    BY <1>1, <1>5 DEF Fresh
  <2>4. Front' >= Front + 2 * k
    BY <1>2, <1>4
  <2>5. /\ k >= settle => Front' >= tunedAt
        /\ ~(k >= settle) => /\ settle - k \in Nat \ {0}
                              /\ Front' + 2 * (settle - k) >= tunedAt
    <3>1. PICK a \in Int : a = Front
      BY <1>3
    <3>2. PICK b \in Int : b = Front'
      BY <1>3
    <3>3. PICK t \in Int : t = tunedAt
      BY <1>3
    <3>4. PICK m \in Nat : m = settle
      BY <1>3
    <3>5. PICK j \in Nat : j = k
      BY <1>4
    <3>6. b >= a + 2 * j /\ a + 2 * m >= t
      BY <2>3, <2>4, <3>1, <3>2, <3>3, <3>4, <3>5
    <3>7. /\ j >= m => b >= t
          /\ ~(j >= m) => m - j \in Nat \ {0} /\ b + 2 * (m - j) >= t
      BY <3>6, LeftToDiscard
    <3> QED
      BY <3>1, <3>2, <3>3, <3>4, <3>5, <3>7
  <2>6. settle' = 0 => Front' >= tunedAt
    BY <2>1, <2>5, Zenon
  <2>7. settle' # 0 => Front' + 2 * settle' >= tunedAt
    BY <2>1, <2>5, Zenon
  <2> QED
    BY <1>1, <2>2, <2>6, <2>7 DEF Fresh
<1>6. CASE phase # "settle"
  <2>1. /\ phase' = (IF phase = "measure" /\ out' # <<>> THEN "measured" ELSE phase)
        /\ rushed' = rushed
    BY <1>1, <1>6 DEF Settles
  <2>2. phase \in {"measure", "measured"} /\ ~rushed => Front >= tunedAt
    BY <1>1 DEF Fresh
  <2>3. phase \in {"measure", "measured"} /\ ~rushed =>
          Front' >= tunedAt /\ (out' # <<>> => out'[1] >= tunedAt)
    BY <1>2, <1>3, <2>2
  <2> QED
    BY <1>1, <1>6, <2>1, <2>3 DEF Fresh
<1> QED
  BY <1>5, <1>6

LEMMA NextFresh == ASSUME Inv, Fresh, [Next]_vars PROVE Fresh'
<1>1. Inv'
  BY NextInv
<1>2. kind' = kind
  BY DEF Next, Capture, Callback, UsbCallback, Ingest, Put, Read, ReadRtlSdr, ReadSdrplay,
     ReadTcp, ScanRetune, SetScanWideMode, Reconnect, vars, source
<1>3. SUFFICES ASSUME kind = "rtlsdr" PROVE Fresh'
  BY <1>2 DEF Fresh
<1>4. CASE Capture \/ Callback \/ UNCHANGED vars
  <2>1. /\ arrived' = arrived /\ UNCHANGED <<scan, out>>
        /\ UNCHANGED <<readPos, writePos, full>>
    BY <1>3, <1>4 DEF Capture, Callback, UsbCallback, Ingest, vars, cursor, history, reads
  <2>2. Front' = Front
    BY <2>1, SameAvailable DEF Front
  <2>3. Front' >= Front
    BY <2>2, FrontType
  <2> QED
    BY <1>1, <1>2, <2>1, <2>3, SameFresh
<1>5. CASE Put
  <2>1. /\ arrived' = arrived + 1 /\ UNCHANGED <<scan, out>>
        /\ writePos' = Wrapped(writePos + 1) /\ readPos' = Overwritten
    BY <1>5 DEF Put, reads
  <2>2. full' = (writePos' = readPos')
    BY <1>5 DEF Put
  <2>3. Available' = Available \/ Available' = Available + 1
    BY <2>1, <2>2, Facts, PutCursor
  <2>4. Front' >= Front
    BY <2>1, <2>3, Facts, Sizes DEF AmountType, Front
  <2> QED
    BY <1>1, <1>2, <2>1, <2>4, SameFresh
<1>6. CASE Read
  BY <1>3, <1>6, ReadIsFresh DEF Read, ReadSdrplay, ReadTcp
<1>7. CASE ScanRetune
  BY <1>7, RetuneIsFresh
<1>8. CASE Reconnect \/ SetScanWideMode
  BY <1>3, <1>8 DEF Reconnect, SetScanWideMode, Fresh
<1> QED
  BY <1>4, <1>5, <1>6, <1>7, <1>8 DEF Next

(* What the scan engine measures after it has tuned the RTL-SDR was        *)
(* captured after that (settleAfterRetune), for every ring and every read  *)
(* size, as long as the settle window covers what is in flight and         *)
(* settling was not given up.                                              *)
THEOREM FreshMeasurements == Spec => []MeasuredFresh
<1>1. Init => Fresh
  BY DEF Init, Fresh
<1>2. Inv /\ Fresh /\ [Next]_vars => Fresh'
  BY NextFresh
<1>3. Fresh => MeasuredFresh
  BY DEF Fresh, MeasuredFresh
<1> QED
  BY <1>1, <1>2, <1>3, AlwaysInv, PTL DEF Spec

===============================================================================
