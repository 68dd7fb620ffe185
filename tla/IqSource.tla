------------------------------- MODULE IqSource -------------------------------
(***************************************************************************)
(* The I/Q stream from a tuner backend to the main loop: the byte ring of  *)
(* RTLSDRDevice between the USB thread and readIQ, the sample ring of      *)
(* SDRplayDevice between the API callback and readIQ, and the socket of    *)
(* RTLTCPClient, whose reads may end in the middle of a sample.  The scan  *)
(* engine's flush and settle reads after a retune are here too.            *)
(*                                                                         *)
(* The stream is numbered.  An element is a byte, I before Q, except for   *)
(* the SDRplay, whose element is a whole sample.                           *)
(***************************************************************************)
EXTENDS Integers, Sequences

CONSTANTS
  RingSize,     \* elements the ring holds
  MaxRequest,   \* samples one readIQ asks for at most
  MaxInFlight,  \* samples a device has captured and not yet handed over
  Settle,       \* kRetuneSettleSamples
  EmptyLimit,   \* empty reads after which settling is given up (4)
  MaxSamples    \* bound: samples captured in a behaviour

ASSUME RingAssumption == RingSize \in Nat \ {0} /\ RingSize % 2 = 0
(* The settle window covers what USB transfers in flight can hold.         *)
ASSUME SettleAssumption ==
  MaxInFlight \in Nat /\ Settle \in Nat \ {0} /\ MaxInFlight <= Settle
ASSUME BoundsAssumption ==
  MaxRequest \in Nat /\ EmptyLimit \in Nat \ {0} /\ MaxSamples \in Nat

VARIABLES
  kind, lowLatency,          \* the backend in use and its read mode
  inflight,                  \* elements captured and not handed over
  callback,                  \* elements the callback has still to store
  arrived,                   \* elements stored in the ring or received
  ring, readPos, writePos, full,
  pending,                   \* the byte rtl_tcp keeps for the next read
  phase, settle, empties,    \* where the scan engine is after a retune
  tunedAt,                   \* history: elements captured before the retune
  rushed,                    \* history: settling was given up
  out, next, got,            \* history: the last read, the element after it,
  lost                       \* how many were read, and which were dropped

source == <<kind, lowLatency>>
cursor == <<readPos, writePos, full>>
scan == <<phase, settle, empties, tunedAt, rushed>>
reads == <<out, next, got>>
history == <<reads, lost>>
vars == <<source, inflight, callback, arrived, ring, cursor, pending, scan, history>>

Kinds == {"rtlsdr", "sdrplay", "rtltcp"}
Unit == IF kind = "sdrplay" THEN 1 ELSE 2   \* elements in a sample
None == -1

Captured == arrived + callback + inflight

TypeOK ==
  /\ kind \in Kinds /\ lowLatency \in BOOLEAN
  /\ inflight \in 0..(2 * MaxInFlight) /\ callback \in 0..(2 * MaxInFlight)
  /\ arrived \in Nat /\ Captured <= 2 * MaxSamples
  /\ ring \in [0..(RingSize - 1) -> Nat]
  /\ readPos \in 0..(RingSize - 1) /\ writePos \in 0..(RingSize - 1) /\ full \in BOOLEAN
  /\ pending \in Nat \cup {None}
  /\ phase \in {"idle", "settle", "measure", "measured"}
  /\ settle \in 0..Settle /\ empties \in 0..EmptyLimit
  /\ tunedAt \in Nat /\ rushed \in BOOLEAN
  /\ out \in Seq(Nat) /\ next \in Nat /\ got \in Nat /\ lost \in SUBSET Nat

Init ==
  /\ kind \in Kinds /\ lowLatency \in BOOLEAN
  /\ inflight = 0 /\ callback = 0 /\ arrived = 0
  /\ ring = [i \in 0..(RingSize - 1) |-> 0]
  /\ readPos = 0 /\ writePos = 0 /\ full = FALSE /\ pending = None
  /\ phase = "idle" /\ settle = 0 /\ empties = 0 /\ tunedAt = 0 /\ rushed = FALSE
  /\ out = <<>> /\ next = 0 /\ got = 0 /\ lost = {}

-------------------------------------------------------------------------------
(* The ring.                                                               *)

(* Mutant: the position wraps one element too late. *)
WrappedLate(pos) == IF pos > RingSize THEN pos - RingSize ELSE pos

Wrapped(pos) == IF pos >= RingSize THEN pos - RingSize ELSE pos

(* availableBytesLocked                                                    *)
Available ==
  IF full THEN RingSize
  ELSE IF writePos >= readPos THEN writePos - readPos
  ELSE (RingSize - readPos) + writePos

(* Mutant: half samples are taken and dropped like whole ones. *)
EvenNot(k) == k

Even(k) == k - (k % 2)
Less(a, b) == IF a < b THEN a ELSE b

(* The k elements at pos, in order.                                        *)
Copied(pos, k) == [i \in 1..k |-> ring[Wrapped(pos + i - 1)]]

(* The k oldest elements in the ring, and all of them.                     *)
Oldest(k) == {ring[Wrapped(readPos + i)] : i \in 0..(k - 1)}
Stored == Oldest(Available)

(* Mutant: the writer keeps its place in an emptied ring. *)
EmptiedForReader == readPos' = 0 /\ full' = FALSE /\ UNCHANGED writePos

Emptied == readPos' = 0 /\ writePos' = 0 /\ full' = FALSE

-------------------------------------------------------------------------------
(* The device (external) captures whole samples.                           *)
Capture ==
  /\ inflight + Unit <= MaxInFlight * Unit /\ Captured + Unit <= MaxSamples * Unit
  /\ inflight' = inflight + Unit
  /\ UNCHANGED <<source, callback, arrived, ring, cursor, pending, scan, history>>

(* A callback takes the ring's lock and keeps it for its whole buffer.     *)
LockFree == callback = 0

UsbCallback(n) ==
  /\ kind = "rtlsdr" /\ LockFree
  /\ n % 2 = 0 /\ n <= inflight
  /\ callback' = n /\ inflight' = inflight - n
  /\ UNCHANGED <<source, arrived, ring, cursor, pending, scan, history>>

(* After a retune the API raises its reset flag and the ring is emptied.   *)
Ingest(n, reset) ==
  /\ kind = "sdrplay" /\ LockFree /\ n <= inflight
  /\ callback' = n /\ inflight' = inflight - n
  /\ IF reset
     THEN Emptied /\ lost' = lost \cup Stored
     ELSE UNCHANGED <<cursor, lost>>
  /\ UNCHANGED <<source, arrived, ring, pending, scan, reads>>

(* Mutant: the reader keeps its place when the ring overflows. *)
OverwrittenUnnoticed == readPos

(* The oldest element makes room.                                          *)
Overwritten == IF full THEN Wrapped(readPos + 1) ELSE readPos

Put ==
  /\ callback > 0
  /\ callback' = callback - 1 /\ arrived' = arrived + 1
  /\ ring' = [ring EXCEPT ![writePos] = arrived]
  /\ writePos' = Wrapped(writePos + 1)
  /\ readPos' = Overwritten
  /\ full' = (writePos' = readPos')
  /\ lost' = IF full THEN lost \cup {ring[readPos]} ELSE lost
  /\ UNCHANGED <<source, inflight, pending, scan, reads>>

-------------------------------------------------------------------------------
(* The scan engine counts what it discards after a retune, gives up after  *)
(* a few empty reads, and measures what it reads after that.               *)
Settles(s) ==
  /\ UNCHANGED tunedAt
  /\ IF phase # "settle"
     THEN /\ phase' = (IF phase = "measure" /\ s # <<>> THEN "measured" ELSE phase)
          /\ UNCHANGED <<settle, empties, rushed>>
     ELSE /\ settle' = (IF Len(s) \div Unit >= settle THEN 0 ELSE settle - (Len(s) \div Unit))
          /\ empties' = (IF s = <<>> THEN empties + 1 ELSE 0)
          /\ rushed' = (rushed \/ empties' = EmptyLimit)
          /\ phase' = (IF settle' = 0 \/ empties' = EmptyLimit THEN "measure" ELSE "settle")

(* A read of n samples; settling never asks for more than is left.         *)
Requested(n) == LockFree /\ (phase = "settle" => n <= settle)

Delivered(s) ==
  /\ out' = s /\ next' = (IF s = <<>> THEN next ELSE s[Len(s)] + 1)
  /\ got' = got + Len(s)
  /\ Settles(s)

(* Low latency: all but the newest whole samples asked for are dropped.    *)
Dropped(n) ==
  IF lowLatency /\ Available > 2 * n THEN Even(Available - 2 * n) ELSE 0

(* RTLSDRDevice::readIQ, at the moment its wait ends with the lock held.   *)
ReadRtlSdr(n) ==
  /\ kind = "rtlsdr" /\ Requested(n)
  /\ LET drop == Dropped(n)
         count == Even(Less(Available - drop, 2 * n))
     IN  /\ readPos' = Wrapped(readPos + drop + count)
         /\ full' = (full /\ drop + count = 0)
         /\ lost' = lost \cup Oldest(drop)
         /\ Delivered(Copied(readPos + drop, count))
  /\ UNCHANGED <<source, inflight, callback, arrived, ring, writePos, pending>>

ReadSdrplay(n) ==
  /\ kind = "sdrplay" /\ Requested(n)
  /\ LET count == Less(Available, n)
     IN  /\ readPos' = Wrapped(readPos + count)
         /\ full' = (full /\ count = 0)
         /\ Delivered(Copied(readPos, count))
  /\ UNCHANGED <<source, inflight, callback, arrived, ring, writePos, pending, lost>>

(* RTLTCPClient::readIQ receives k bytes until it has all or times out; an *)
(* odd byte is kept for the next read.                                     *)
ReadTcp(n, k) ==
  /\ kind = "rtltcp" /\ Requested(n)
  /\ LET kept == IF pending = None THEN <<>> ELSE <<pending>>
         bytes == kept \o [i \in 1..k |-> arrived + i - 1]
     IN  /\ k <= inflight /\ Len(bytes) <= 2 * n
         /\ pending' = (IF Len(bytes) % 2 = 1 THEN bytes[Len(bytes)] ELSE None)
         /\ Delivered(SubSeq(bytes, 1, Even(Len(bytes))))
  /\ inflight' = inflight - k /\ arrived' = arrived + k
  /\ UNCHANGED <<source, callback, ring, cursor, lost>>

(* Mutant: a retune leaves the ring as it is. *)
FlushNothing == UNCHANGED <<readPos, full, lost>>

(* Only the RTL-SDR has a ring to flush.                                   *)
FlushBuffers ==
  IF kind = "rtlsdr"
  THEN readPos' = writePos /\ full' = FALSE /\ lost' = lost \cup Stored
  ELSE UNCHANGED <<readPos, full, lost>>

(* runIfActive tunes a sweep's centre.                                     *)
ScanRetune ==
  /\ phase # "settle" /\ LockFree
  /\ FlushBuffers
  /\ phase' = "settle" /\ settle' = Settle /\ empties' = 0 /\ rushed' = FALSE
  /\ tunedAt' = Captured
  /\ UNCHANGED <<source, inflight, callback, arrived, ring, writePos, pending, reads>>

(* A change of the SDRplay's rate empties its ring.                        *)
SetScanWideMode ==
  /\ kind = "sdrplay" /\ LockFree
  /\ Emptied /\ lost' = lost \cup Stored
  /\ UNCHANGED <<source, inflight, callback, arrived, ring, pending, scan, reads>>

(* Disconnecting ends the callbacks; connecting empties ring and carry.    *)
Reconnect ==
  /\ LockFree
  /\ Emptied /\ pending' = None
  /\ inflight' = 0 /\ arrived' = Captured
  /\ lost' = lost \cup (next..(Captured - 1))
  /\ phase' = "idle" /\ UNCHANGED <<settle, empties, tunedAt, rushed>>
  /\ UNCHANGED <<source, callback, ring, reads>>

Read ==
  \E n \in 1..MaxRequest :
    ReadRtlSdr(n) \/ ReadSdrplay(n) \/ \E k \in 0..inflight : ReadTcp(n, k)

Callback ==
  \E n \in 1..inflight : UsbCallback(n) \/ \E reset \in BOOLEAN : Ingest(n, reset)

Next == Capture \/ Callback \/ Put \/ Read \/ ScanRetune \/ SetScanWideMode \/ Reconnect

Spec == Init /\ [][Next]_vars

-------------------------------------------------------------------------------
(* The ring always holds the elements that arrived last, in order, however *)
(* often it overflowed or was read or flushed in part.                     *)
RingIsStream ==
  kind # "rtltcp" =>
    \A i \in 0..(Available - 1) :
      ring[Wrapped(readPos + i)] = arrived - Available + i

(* What a read returns is a run of whole samples, I before Q, with nothing *)
(* missing inside it: dropping and overflowing go by whole samples, and an *)
(* odd byte waits for its partner.                                         *)
WholeSamples ==
  /\ \A i \in 1..(Len(out) - 1) : out[i + 1] = out[i] + 1
  /\ Unit = 2 /\ out # <<>> => out[1] % 2 = 0 /\ Len(out) % 2 = 0

(* Reads follow each other: nothing is delivered twice or out of order,    *)
(* and between two reads only what overflowed, was dropped for low latency *)
(* or was flushed is missing.                                              *)
Continuity ==
  [][got' # got =>
       /\ out'[1] >= next
       /\ next..(out'[1] - 1) \subseteq lost']_vars

(* What the scan engine measures after a retune was captured after it,     *)
(* unless it gave up settling (settleAfterRetune).                         *)
MeasuredFresh ==
  phase = "measured" /\ ~rushed /\ kind = "rtlsdr" /\ out # <<>> => out[1] >= tunedAt

===============================================================================
