--------------------------- MODULE AudioPath_proof ---------------------------
(***************************************************************************)
(* Theorems about AudioPath, for every selection of sinks, every size of   *)
(* ring, chunk, block and file, and every failure: no sample is lost       *)
(* unseen, a recording is what its header says, nothing stays open.        *)
(***************************************************************************)
EXTENDS AudioPath, SequenceTheorems, WellFoundedInduction, TLAPS

OpenOrder == <<"recorder", "speaker", "mpxFile", "mpxPlayer">>

Typed ==
  /\ options \in [sinks : SUBSET Sinks, backend : {"alsa", "coreaudio", "winmm"},
                  sameDevice : BOOLEAN, seekable : BOOLEAN]
  /\ frames \in Nat
  /\ handle \in [Sinks -> {"closed", "open", "ended"}]
  /\ running \in [Sinks -> BOOLEAN]
  /\ worker \in [Sinks -> {"none", "wait", "write", "done", "callback"}]
  /\ ring \in [Sinks -> Seq(Nat)] /\ chunk \in [Sinks -> Seq(Nat)]
  /\ out \in [Sinks -> Seq(Nat)]
  /\ size \in [Sinks -> Nat] /\ header \in [Sinks -> Int] /\ headers \in [Sinks -> Nat]
  /\ fatal \in [Sinks -> BOOLEAN]
  /\ fed \in [Sinks -> Nat] /\ lost \in [Sinks -> SUBSET Nat]

(* What the main thread has still to do covers what is open.               *)
Covered ==
  /\ main \in {"open", "run", "push", "close", "ended"}
  /\ main = "open" => \E k \in 1..4 :
       /\ todo = SubSeq(OpenOrder, k, 4)
       /\ \A i \in k..4 : handle[OpenOrder[i]] = "closed"
  /\ main = "push" => todo \in Seq(Sinks) \ {<<>>} /\ frames # 0
  /\ main = "close" => /\ todo \in Seq(Sinks) /\ todo # <<>>
                      /\ \A s \in Sinks : handle[s] = "open" => s \in ToSet(todo)
  /\ main = "ended" => \A s \in Sinks : handle[s] # "open"

(* A thread lives as long as its handle is open, and holds samples only    *)
(* while it writes.                                                        *)
Threads ==
  \A s \in Sinks : /\ handle[s] = "open" <=> worker[s] # "none"
                   /\ worker[s] # "write" => chunk[s] = <<>>

(* A writer runs until it is told to stop, and leaves its ring only empty  *)
(* or after it has given up; its header tells the size from then on.       *)
RecordedIn(s) ==
  /\ worker[s] # "callback" /\ size[s] = Len(out[s]) /\ size[s] <= Limit
  /\ handle[s] = "open" /\ main # "close" => running[s]
  /\ worker[s] = "done" => fatal[s] \/ (~running[s] /\ ring[s] = <<>>)
  /\ handle[s] = "ended" => fatal[s] \/ ring[s] = <<>>
  /\ handle[s] = "closed" => headers[s] = 0 /\ size[s] = 0
  /\ handle[s] = "open" /\ Seekable(s) => header[s] = 0
  /\ handle[s] = "ended" /\ Seekable(s) => header[s] \in {size[s], Torn}
  /\ handle[s] # "closed" /\ ~Seekable(s) => header[s] = Unknown /\ headers[s] = 1

Recorded == \A s \in Files : RecordedIn(s)

-------------------------------------------------------------------------------
(* The samples of one sink: given out, taken, waiting and lost.            *)
Sorted(seq) == \A i, j \in 1..Len(seq) : i < j => seq[i] < seq[j]
Before(a, b) == \A x \in ToSet(a), y \in ToSet(b) : x < y

Stream(o, c, r, l, f) ==
  /\ Sorted(o) /\ Sorted(c) /\ Sorted(r)
  /\ Before(o, c) /\ Before(o, r) /\ Before(c, r)
  /\ ToSet(o) \cup ToSet(c) \cup ToSet(r) \cup l = 1..f
  /\ (ToSet(o) \cup ToSet(c) \cup ToSet(r)) \cap l = {}

Streams == \A s \in Sinks : Stream(out[s], chunk[s], ring[s], lost[s], fed[s])

Frames ==
  \A s \in Stereo :
    /\ fed[s] % 2 = 0 /\ WholeFrames(ring[s]) /\ WholeFrames(chunk[s])
    /\ WholeFrames(out[s]) \/ fatal[s]

IInv == Typed /\ Covered /\ Threads /\ Recorded /\ Streams /\ Frames

-------------------------------------------------------------------------------
(* Sequences of samples: cutting them and joining them.                    *)
LEMMA Members ==
  ASSUME NEW a \in Seq(Nat)
  PROVE  /\ Len(a) \in Nat /\ ToSet(a) = {a[i] : i \in 1..Len(a)} /\ ToSet(a) \in SUBSET Nat
         /\ \A i \in 1..Len(a) : a[i] \in Nat
BY ElementOfSeq DEF ToSet

LEMMA Nothing ==
  /\ <<>> \in Seq(Nat) /\ Len(<<>>) = 0 /\ ToSet(<<>>) = {}
  /\ Sorted(<<>>) /\ WholeFrames(<<>>)
BY DEF ToSet, Sorted, WholeFrames

LEMMA JoinNothing == ASSUME NEW a \in Seq(Nat) PROVE a \o <<>> = a /\ <<>> \o a = a
BY ConcatEmptySeq

LEMMA JoinSorted ==
  ASSUME NEW a \in Seq(Nat), NEW b \in Seq(Nat)
  PROVE  /\ a \o b \in Seq(Nat) /\ ToSet(a \o b) = ToSet(a) \cup ToSet(b)
         /\ Sorted(a) /\ Sorted(b) /\ Before(a, b) => Sorted(a \o b)
<1>1. /\ a \o b \in Seq(Nat) /\ Len(a \o b) = Len(a) + Len(b)
      /\ Len(a) \in Nat /\ Len(b) \in Nat
      /\ \A i \in 1..(Len(a) + Len(b)) :
           (a \o b)[i] = IF i <= Len(a) THEN a[i] ELSE b[i - Len(a)]
  BY ConcatProperties
<1>2. ToSet(a \o b) = ToSet(a) \cup ToSet(b)
  <2>1. ASSUME NEW x \in ToSet(a \o b) PROVE x \in ToSet(a) \cup ToSet(b)
    <3>1. ToSet(a \o b) = {(a \o b)[i] : i \in 1..(Len(a) + Len(b))}
      BY <1>1, Members
    <3>2. PICK i \in 1..(Len(a) + Len(b)) : x = (a \o b)[i]
      BY <2>1, <3>1
    <3>3. CASE i <= Len(a)
      BY <1>1, <3>2, <3>3, Members
    <3>4. CASE ~(i <= Len(a))
      <4>1. i - Len(a) \in 1..Len(b) /\ x = b[i - Len(a)]
        BY <1>1, <3>2, <3>4
      <4> QED BY <4>1, Members
    <3> QED BY <3>3, <3>4
  <2>2. ASSUME NEW x \in ToSet(a) PROVE x \in ToSet(a \o b)
    <3>1. PICK i \in 1..Len(a) : x = a[i]
      BY <2>2, Members
    <3>2. i \in 1..(Len(a) + Len(b)) /\ (a \o b)[i] = x
      BY <1>1, <3>1
    <3> QED BY <1>1, <3>2, Members
  <2>3. ASSUME NEW x \in ToSet(b) PROVE x \in ToSet(a \o b)
    <3>1. PICK i \in 1..Len(b) : x = b[i]
      BY <2>3, Members
    <3>2. /\ Len(a) + i \in 1..(Len(a) + Len(b)) /\ (Len(a) + i) - Len(a) = i
          /\ ~(Len(a) + i <= Len(a))
      BY <1>1
    <3>3. (a \o b)[Len(a) + i] = x
      BY <1>1, <3>1, <3>2
    <3> QED BY <1>1, <3>2, <3>3, Members
  <2> QED BY <2>1, <2>2, <2>3
<1>3. ASSUME Sorted(a), Sorted(b), Before(a, b) PROVE Sorted(a \o b)
  <2> SUFFICES ASSUME NEW i \in 1..(Len(a) + Len(b)), NEW j \in 1..(Len(a) + Len(b)), i < j
               PROVE  (a \o b)[i] < (a \o b)[j]
    BY <1>1 DEF Sorted
  <2>1. CASE j <= Len(a)
    BY <1>1, <1>3, <2>1 DEF Sorted
  <2>2. CASE i <= Len(a) /\ ~(j <= Len(a))
    <3>1. j - Len(a) \in 1..Len(b) /\ i \in 1..Len(a)
      BY <1>1, <2>2
    <3>2. a[i] \in ToSet(a) /\ b[j - Len(a)] \in ToSet(b)
      BY <3>1, Members
    <3> QED BY <1>1, <1>3, <2>2, <3>2 DEF Before
  <2>3. CASE ~(i <= Len(a))
    <3>1. /\ i - Len(a) \in 1..Len(b) /\ j - Len(a) \in 1..Len(b) /\ ~(j <= Len(a))
          /\ i - Len(a) < j - Len(a)
      BY <1>1, <2>3
    <3> QED BY <1>1, <1>3, <2>3, <3>1 DEF Sorted
  <2> QED BY <2>1, <2>2, <2>3
<1> QED BY <1>1, <1>2, <1>3

LEMMA CutSorted ==
  ASSUME NEW q \in Seq(Nat), NEW n \in 0..Len(q)
  PROVE  LET a == SubSeq(q, 1, n)
             b == SubSeq(q, n + 1, Len(q))
         IN /\ a \in Seq(Nat) /\ b \in Seq(Nat) /\ a \o b = q
            /\ Len(a) = n /\ Len(b) = Len(q) - n
            /\ \A i \in 1..n : a[i] = q[i]
            /\ \A i \in 1..(Len(q) - n) : b[i] = q[n + i]
            /\ ToSet(a) \cup ToSet(b) = ToSet(q)
            /\ Sorted(q) => Sorted(a) /\ Sorted(b) /\ Before(a, b)
<1> DEFINE a == SubSeq(q, 1, n)
           b == SubSeq(q, n + 1, Len(q))
<1>1. Len(q) \in Nat /\ \A i \in 1..Len(q) : q[i] \in Nat
  BY Members
<1>2. /\ a \in Seq(Nat) /\ Len(a) = n /\ \A i \in 1..n : a[i] = q[i]
  BY <1>1, SubSeqProperties
<1>3. b \in Seq(Nat) /\ Len(b) = Len(q) - n /\ \A i \in 1..(Len(q) - n) : b[i] = q[n + i]
  <2>1. b \in Seq(Nat)
    BY <1>1, SubSeqProperties
  <2>2. Len(b) = Len(q) - n
    BY <1>1
  <2> QED BY <1>1, <2>1, <2>2
<1> HIDE DEF a, b
<1>4. a \o b = q
  <2>1. a \o b \in Seq(Nat) /\ Len(a \o b) = Len(q)
    BY <1>1, <1>2, <1>3, ConcatProperties
  <2>2. ASSUME NEW i \in 1..Len(q) PROVE (a \o b)[i] = q[i]
    <3>1. (a \o b)[i] = IF i <= n THEN a[i] ELSE b[i - n]
      BY SMTT(30), <1>1, <1>2, <1>3, ConcatProperties
    <3>2. CASE i <= n
      BY <1>2, <3>1, <3>2
    <3>3. CASE ~(i <= n)
      <4>1. i - n \in 1..(Len(q) - n) /\ n + (i - n) = i
        BY <1>1, <3>3
      <4> QED BY <1>3, <3>1, <3>3, <4>1
    <3> QED BY <3>2, <3>3
  <2> QED BY <2>1, <2>2, SeqEqual
<1>5. ToSet(a) \cup ToSet(b) = ToSet(q)
  BY <1>2, <1>3, <1>4, JoinSorted
<1>6. ASSUME Sorted(q) PROVE Sorted(a) /\ Sorted(b) /\ Before(a, b)
  <2>1. Sorted(a)
    <3> SUFFICES ASSUME NEW i \in 1..n, NEW j \in 1..n, i < j PROVE a[i] < a[j]
      BY <1>2 DEF Sorted
    <3>1. i \in 1..Len(q) /\ j \in 1..Len(q)
      BY <1>1
    <3> QED BY <1>2, <1>6, <3>1 DEF Sorted
  <2>2. Sorted(b)
    <3> SUFFICES ASSUME NEW i \in 1..(Len(q) - n), NEW j \in 1..(Len(q) - n), i < j
                 PROVE  b[i] < b[j]
      BY <1>3 DEF Sorted
    <3>1. n + i \in 1..Len(q) /\ n + j \in 1..Len(q) /\ n + i < n + j
      BY <1>1
    <3> QED BY <1>3, <1>6, <3>1 DEF Sorted
  <2>3. ASSUME NEW x \in ToSet(a), NEW y \in ToSet(b) PROVE x < y
    <3>1. ToSet(a) = {a[i] : i \in 1..n} /\ ToSet(b) = {b[i] : i \in 1..(Len(q) - n)}
      BY <1>2, <1>3, Members
    <3>2. PICK i \in 1..n : x = q[i]
      BY <1>2, <2>3, <3>1
    <3>3. PICK j \in 1..(Len(q) - n) : y = q[n + j]
      BY <1>3, <2>3, <3>1
    <3>4. i \in 1..Len(q) /\ n + j \in 1..Len(q) /\ i < n + j
      BY <1>1
    <3> QED BY <1>6, <3>2, <3>3, <3>4 DEF Sorted
  <2> QED BY <2>1, <2>2, <2>3 DEF Before
<1> QED BY <1>2, <1>3, <1>4, <1>5, <1>6 DEF a, b

LEMMA SortedAscends ==
  ASSUME NEW q \in Seq(Nat), Sorted(q) PROVE Ascending(q)
<1> SUFFICES ASSUME NEW i \in 1..(Len(q) - 1) PROVE q[i] < q[i + 1]
  BY DEF Ascending
<1>1. i \in 1..Len(q) /\ i + 1 \in 1..Len(q) /\ i < i + 1
  BY Members
<1> QED BY <1>1 DEF Sorted

LEMMA Parity ==
  /\ \A m, n \in Nat : m % 2 = 0 /\ n % 2 = 0 => (m + n) % 2 = 0
  /\ \A m, n \in Nat : m % 2 = 0 /\ n % 2 = 0 /\ m <= n => (n - m) % 2 = 0
  /\ \A i, m \in Nat : i % 2 = 1 /\ m % 2 = 0 => (m + i) % 2 = 1
  /\ \A i, m \in Nat : i % 2 = 1 /\ m % 2 = 0 /\ m <= i => (i - m) % 2 = 1
  /\ \A i, m \in Nat : i % 2 = 1 /\ m % 2 = 0 /\ i <= m => i + 1 <= m
OBVIOUS

(* Whole frames stay whole when they are joined, and when they are cut     *)
(* between frames.                                                         *)
LEMMA JoinFrames ==
  ASSUME NEW a \in Seq(Nat), NEW b \in Seq(Nat), WholeFrames(a), WholeFrames(b)
  PROVE  WholeFrames(a \o b)
<1>1. /\ Len(a \o b) = Len(a) + Len(b) /\ Len(a) \in Nat /\ Len(b) \in Nat
      /\ \A i \in 1..(Len(a) + Len(b)) :
           (a \o b)[i] = IF i <= Len(a) THEN a[i] ELSE b[i - Len(a)]
  BY ConcatProperties
<1>2. Len(a) % 2 = 0 /\ Len(b) % 2 = 0 /\ Len(a) \in Nat /\ Len(b) \in Nat
  BY <1>1 DEF WholeFrames
<1>3. ASSUME NEW i \in 1..(Len(a) + Len(b)), i % 2 = 1
      PROVE  (a \o b)[i] % 2 = 1 /\ (a \o b)[i + 1] = (a \o b)[i] + 1
  <2>1. i + 1 \in 1..(Len(a) + Len(b))
    <3>1. (Len(a) + Len(b)) % 2 = 0 /\ i \in Nat /\ i <= Len(a) + Len(b)
      BY SMTT(30), <1>2, <1>3, Parity
    <3>2. i + 1 <= Len(a) + Len(b)
      <4>1. Len(a) + Len(b) \in Nat
        BY <1>2
      <4> QED BY <1>3, <3>1, <4>1, Parity
    <3> QED BY <1>1, <1>3, <3>2
  <2>2. CASE i <= Len(a)
    <3>1. i + 1 <= Len(a) /\ i \in 1..Len(a)
      <4>1. i \in Nat /\ i \in 1..Len(a)
        BY <1>2, <2>2
      <4> QED BY <1>2, <1>3, <2>2, <4>1, Parity
    <3>2. (a \o b)[i] = a[i] /\ (a \o b)[i + 1] = a[i + 1]
      BY <1>1, <2>1, <2>2, <3>1
    <3> QED BY <1>3, <3>1, <3>2 DEF WholeFrames
  <2>3. CASE ~(i <= Len(a))
    <3>1. /\ i - Len(a) \in 1..Len(b) /\ (i - Len(a)) % 2 = 1 /\ ~(i + 1 <= Len(a))
          /\ (i + 1) - Len(a) = (i - Len(a)) + 1
      <4>1. i \in Nat /\ Len(a) <= i
        BY <1>1, <1>3, <2>3
      <4>2. (i - Len(a)) % 2 = 1
        BY <1>2, <1>3, <4>1, Parity
      <4> QED BY <1>1, <2>3, <4>2
    <3>2. (a \o b)[i] = b[i - Len(a)] /\ (a \o b)[i + 1] = b[(i - Len(a)) + 1]
      BY <1>1, <2>1, <2>3, <3>1
    <3> QED BY <3>1, <3>2 DEF WholeFrames
  <2> QED BY <2>2, <2>3
<1>4. (Len(a) + Len(b)) % 2 = 0
  BY <1>2, Parity
<1> QED BY <1>1, <1>3, <1>4 DEF WholeFrames

LEMMA CutFrames ==
  ASSUME NEW q \in Seq(Nat), WholeFrames(q), NEW n \in 0..Len(q), n % 2 = 0
  PROVE  WholeFrames(SubSeq(q, 1, n)) /\ WholeFrames(SubSeq(q, n + 1, Len(q)))
<1> DEFINE a == SubSeq(q, 1, n)
           b == SubSeq(q, n + 1, Len(q))
<1>1. /\ Len(a) = n /\ Len(b) = Len(q) - n /\ Len(q) \in Nat
      /\ \A i \in 1..n : a[i] = q[i]
      /\ \A i \in 1..(Len(q) - n) : b[i] = q[n + i]
  BY CutSorted, Members
<1> HIDE DEF a, b
<1>2. Len(q) % 2 = 0 /\ Len(q) \in Nat /\ n \in Nat /\ n <= Len(q)
  BY <1>1 DEF WholeFrames
<1>3. WholeFrames(a)
  <2>1. ASSUME NEW i \in 1..n, i % 2 = 1 PROVE a[i] % 2 = 1 /\ a[i + 1] = a[i] + 1
    <3>1. i + 1 \in 1..n /\ i \in 1..Len(q)
      BY <1>1, <2>1
    <3> QED BY <1>1, <2>1, <3>1 DEF WholeFrames
  <2> QED BY <1>1, <2>1 DEF WholeFrames
<1>4. WholeFrames(b)
  <2>1. ASSUME NEW i \in 1..(Len(q) - n), i % 2 = 1 PROVE b[i] % 2 = 1 /\ b[i + 1] = b[i] + 1
    <3>1. /\ n + i \in 1..Len(q) /\ (n + i) % 2 = 1 /\ n + (i + 1) = (n + i) + 1
      BY <1>2, <2>1, Parity
    <3>2. i + 1 \in 1..(Len(q) - n)
      <4>1. (n + i) + 1 <= Len(q)
        BY <1>2, <2>1, <3>1, Parity
      <4> QED BY <1>1, <4>1
    <3>3. q[n + i] % 2 = 1 /\ q[(n + i) + 1] = q[n + i] + 1
      BY <3>1 DEF WholeFrames
    <3> QED BY <1>1, <3>1, <3>2, <3>3
  <2>2. (Len(q) - n) % 2 = 0
    BY <1>2, Parity
  <2> QED BY <1>1, <2>1, <2>2 DEF WholeFrames
<1> QED BY <1>3, <1>4 DEF a, b

-------------------------------------------------------------------------------
(* What becomes of a stream, step by step.                                 *)

(* A chunk is taken from the ring.                                         *)
LEMMA TakeStream ==
  ASSUME NEW o \in Seq(Nat), NEW r \in Seq(Nat), NEW l \in SUBSET Nat, NEW f \in Nat,
         Stream(o, <<>>, r, l, f), NEW n \in 0..Len(r)
  PROVE  Stream(o, SubSeq(r, 1, n), SubSeq(r, n + 1, Len(r)), l, f)
<1> DEFINE a == SubSeq(r, 1, n)
           b == SubSeq(r, n + 1, Len(r))
<1>1. ToSet(a) \cup ToSet(b) = ToSet(r) /\ Sorted(a) /\ Sorted(b) /\ Before(a, b)
  BY CutSorted DEF Stream
<1> HIDE DEF a, b
<1>2. Stream(o, a, b, l, f)
  BY <1>1, Nothing DEF Stream, Before
<1> QED BY <1>2 DEF a, b

(* The chunk is given out.                                                 *)
LEMMA GiveStream ==
  ASSUME NEW o \in Seq(Nat), NEW c \in Seq(Nat), NEW r \in Seq(Nat), NEW l \in SUBSET Nat,
         NEW f \in Nat, Stream(o, c, r, l, f)
  PROVE  Stream(o \o c, <<>>, r, l, f)
<1>1. ToSet(o \o c) = ToSet(o) \cup ToSet(c) /\ Sorted(o \o c)
  BY JoinSorted DEF Stream
<1> QED BY <1>1, Nothing DEF Stream, Before

(* The chunk is lost, after its first n samples.                           *)
LEMMA LoseStream ==
  ASSUME NEW o \in Seq(Nat), NEW c \in Seq(Nat), NEW r \in Seq(Nat), NEW l \in SUBSET Nat,
         NEW f \in Nat, Stream(o, c, r, l, f), NEW n \in 0..Len(c)
  PROVE  Stream(o \o SubSeq(c, 1, n), <<>>, r, l \cup ToSet(SubSeq(c, n + 1, Len(c))), f)
<1> DEFINE a == SubSeq(c, 1, n)
           b == SubSeq(c, n + 1, Len(c))
<1>1. /\ a \in Seq(Nat) /\ b \in Seq(Nat) /\ ToSet(a) \cup ToSet(b) = ToSet(c)
      /\ Sorted(a) /\ Before(a, b)
  BY CutSorted DEF Stream
<1> HIDE DEF a, b
<1>2. ToSet(b) \in SUBSET Nat /\ ToSet(a) \in SUBSET Nat /\ ToSet(o) \in SUBSET Nat
  BY <1>1, Members
<1>3. Before(o, a)
  BY <1>1 DEF Stream, Before
<1>4. ToSet(o \o a) = ToSet(o) \cup ToSet(a) /\ Sorted(o \o a)
  BY <1>1, <1>3, JoinSorted DEF Stream
<1>5. \A x \in ToSet(b) : x \notin ToSet(a) /\ x \notin ToSet(o) /\ x \notin ToSet(r)
  <2>1. \A x, y \in Nat : x < y => x # y
    OBVIOUS
  <2>2. ToSet(r) \in SUBSET Nat
    BY Members
  <2> QED BY <1>1, <1>2, <2>1, <2>2 DEF Stream, Before
<1>6. Stream(o \o a, <<>>, r, l \cup ToSet(b), f)
  BY <1>1, <1>4, <1>5, Nothing DEF Stream, Before
<1> QED BY <1>6 DEF a, b

(* The ring loses its first n samples.                                     *)
LEMMA DropStream ==
  ASSUME NEW o \in Seq(Nat), NEW c \in Seq(Nat), NEW r \in Seq(Nat), NEW l \in SUBSET Nat,
         NEW f \in Nat, Stream(o, c, r, l, f), NEW n \in 0..Len(r)
  PROVE  Stream(o, c, SubSeq(r, n + 1, Len(r)), l \cup ToSet(SubSeq(r, 1, n)), f)
<1> DEFINE a == SubSeq(r, 1, n)
           b == SubSeq(r, n + 1, Len(r))
<1>1. /\ a \in Seq(Nat) /\ b \in Seq(Nat) /\ ToSet(a) \cup ToSet(b) = ToSet(r)
      /\ Sorted(b) /\ Before(a, b)
  BY CutSorted DEF Stream
<1> HIDE DEF a, b
<1>2. /\ ToSet(a) \in SUBSET Nat /\ ToSet(b) \in SUBSET Nat /\ ToSet(o) \in SUBSET Nat
      /\ ToSet(c) \in SUBSET Nat
  BY <1>1, Members
<1>3. \A x \in ToSet(a) : x \notin ToSet(b) /\ x \notin ToSet(o) /\ x \notin ToSet(c)
  <2>1. \A x, y \in Nat : x < y => x # y
    OBVIOUS
  <2> QED BY <1>1, <1>2, <2>1 DEF Stream, Before
<1>4. Stream(o, c, b, l \cup ToSet(a), f)
  BY <1>1, <1>3 DEF Stream, Before
<1> QED BY <1>4 DEF a, b

(* A block of n samples is offered; the first of them may be dropped.      *)
LEMMA OfferStream ==
  ASSUME NEW o \in Seq(Nat), NEW c \in Seq(Nat), NEW r \in Seq(Nat), NEW l \in SUBSET Nat,
         NEW f \in Nat, Stream(o, c, r, l, f), NEW n \in Nat, NEW start \in 0..n
  PROVE  LET block == [i \in 1..n |-> f + i]
         IN /\ block \in Seq(Nat) /\ Len(block) = n
            /\ Stream(o, c, r \o SubSeq(block, start + 1, n),
                      l \cup ToSet(SubSeq(block, 1, start)), f + n)
<1> DEFINE block == [i \in 1..n |-> f + i]
           a == SubSeq(block, 1, start)
           b == SubSeq(block, start + 1, n)
<1>1. block \in Seq(Nat) /\ Len(block) = n
  OBVIOUS
<1>2. Sorted(block)
  BY <1>1 DEF Sorted
<1>3. ToSet(block) = (f + 1)..(f + n)
  <2>1. ASSUME NEW x \in (f + 1)..(f + n) PROVE x \in ToSet(block)
    <3>1. x - f \in 1..n /\ x = f + (x - f)
      BY <2>1
    <3> QED BY <1>1, <3>1, Members
  <2>2. ASSUME NEW x \in ToSet(block) PROVE x \in (f + 1)..(f + n)
    <3>1. PICK i \in 1..n : x = f + i
      BY <1>1, <2>2 DEF ToSet
    <3> QED BY <3>1
  <2> QED BY <2>1, <2>2
<1> HIDE DEF block
<1>4. /\ a \in Seq(Nat) /\ b \in Seq(Nat) /\ ToSet(a) \cup ToSet(b) = (f + 1)..(f + n)
      /\ Sorted(b) /\ Before(a, b)
  BY <1>1, <1>2, <1>3, CutSorted
<1> HIDE DEF a, b
<1>5. /\ \A x \in ToSet(o) \cup ToSet(c) \cup ToSet(r) \cup l : x \in 1..f
      /\ \A x \in ToSet(a) \cup ToSet(b) : x \in (f + 1)..(f + n)
  BY <1>4 DEF Stream
<1>6. /\ \A x \in 1..f, y \in (f + 1)..(f + n) : x < y /\ x # y
      /\ 1..(f + n) = 1..f \cup (f + 1)..(f + n)
      /\ \A x, y \in (f + 1)..(f + n) : x < y => x # y
  OBVIOUS
<1>7. Before(r, b) /\ Before(c, b) /\ Before(o, b)
  BY <1>5, <1>6 DEF Before
<1>8. ToSet(r \o b) = ToSet(r) \cup ToSet(b) /\ Sorted(r \o b)
  BY <1>4, <1>7, JoinSorted DEF Stream
<1>9. Before(o, r \o b) /\ Before(c, r \o b)
  BY <1>7, <1>8 DEF Stream, Before
<1>10. \A x \in ToSet(a) : x \notin ToSet(b)
  BY <1>4, <1>5, <1>6 DEF Before
<1>11. Stream(o, c, r \o b, l \cup ToSet(a), f + n)
  <2>1. ToSet(o) \cup ToSet(c) \cup ToSet(r \o b) \cup (l \cup ToSet(a)) = 1..(f + n)
    BY <1>4, <1>6, <1>8 DEF Stream
  <2>2. (ToSet(o) \cup ToSet(c) \cup ToSet(r \o b)) \cap (l \cup ToSet(a)) = {}
    BY <1>5, <1>6, <1>8, <1>10 DEF Stream
  <2> QED BY <1>8, <1>9, <2>1, <2>2 DEF Stream
<1> QED BY <1>1, <1>11 DEF a, b, block

-------------------------------------------------------------------------------
(* The types.                                                              *)
LEMMA Bounds ==
  /\ Capacity \in Nat \ {0} /\ Capacity % 2 = 0 /\ Chunk \in Nat \ {0} /\ Chunk % 2 = 0
  /\ Limit \in Nat /\ BlockSizes \subseteq Nat \ {0}
BY RingAssumption, BoundsAssumption

LEMMA LeastType ==
  ASSUME NEW a \in Nat, NEW b \in Nat
  PROVE  Least(a, b) \in Nat /\ Least(a, b) <= a /\ Least(a, b) <= b
BY DEF Least

LEMMA WantedType ==
  ASSUME NEW a \in Nat, NEW b \in Nat
  PROVE  /\ Least(a, b) \in 0..a
         /\ 2 * Least(a \div 2, b) \in 0..a /\ (2 * Least(a \div 2, b)) % 2 = 0
<1>1. a \div 2 \in Nat /\ 2 * (a \div 2) <= a
  OBVIOUS
<1>2. Least(a \div 2, b) \in Nat /\ Least(a \div 2, b) <= a \div 2
  BY <1>1, LeastType
<1>3. \A k \in Nat : (2 * k) % 2 = 0
  OBVIOUS
<1>4. 2 * Least(a \div 2, b) \in 0..a
  BY <1>1, <1>2
<1>5. Least(a, b) \in 0..a
  BY DEF Least
<1> QED BY <1>2, <1>3, <1>4, <1>5

LEMMA CutType ==
  ASSUME NEW q \in Seq(Nat), NEW n \in 0..Len(q)
  PROVE  /\ SubSeq(q, 1, n) \in Seq(Nat) /\ SubSeq(q, n + 1, Len(q)) \in Seq(Nat)
         /\ ToSet(SubSeq(q, 1, n)) \in SUBSET Nat
         /\ ToSet(SubSeq(q, n + 1, Len(q))) \in SUBSET Nat
BY CutSorted, Members

(* What Push takes and drops, of a block of n samples.                     *)
LEMMA PushType ==
  ASSUME Typed, NEW s \in Sinks, NEW n \in Nat
  PROVE  /\ Block(s, n) \in Seq(Nat) /\ Len(Block(s, n)) = n
         /\ Start(s, n) \in 0..n /\ Overflow(s, n) \in 0..Len(ring[s])
         /\ s \in Stereo /\ n % 2 = 0 /\ Len(ring[s]) % 2 = 0 =>
              Start(s, n) % 2 = 0 /\ Overflow(s, n) % 2 = 0
<1>1. /\ fed[s] \in Nat /\ ring[s] \in Seq(Nat) /\ Len(ring[s]) \in Nat
      /\ Capacity \in Nat /\ Capacity % 2 = 0
  BY Bounds DEF Typed
<1>2. Block(s, n) \in Seq(Nat) /\ Len(Block(s, n)) = n
  BY <1>1 DEF Block
<1>3. Start(s, n) \in 0..n
  BY <1>1 DEF Start
<1>4. Overflow(s, n) \in 0..Len(ring[s])
  BY <1>1, <1>3 DEF Overflow
<1>5. ASSUME n % 2 = 0, Len(ring[s]) % 2 = 0
      PROVE  Start(s, n) % 2 = 0 /\ Overflow(s, n) % 2 = 0
  <2>1. Start(s, n) % 2 = 0
    BY <1>1, <1>5, Parity DEF Start
  <2>2. (n - Start(s, n)) % 2 = 0 /\ n - Start(s, n) \in Nat
    BY <1>3, <1>5, <2>1, Parity
  <2>3. \A a, b, c \in Nat : a % 2 = 0 /\ b % 2 = 0 /\ c % 2 = 0 => (a + b - c) % 2 = 0
    OBVIOUS
  <2>4. (Len(ring[s]) + (n - Start(s, n)) - Capacity) % 2 = 0
    BY <1>1, <1>5, <2>2, <2>3
  <2>5. Overflow(s, n) \in {0, Len(ring[s]), Len(ring[s]) + (n - Start(s, n)) - Capacity}
    BY DEF Overflow
  <2>6. Overflow(s, n) % 2 = 0
    <3>1. CASE Overflow(s, n) = 0
      BY <3>1
    <3>2. CASE Overflow(s, n) = Len(ring[s])
      BY <1>5, <3>2
    <3>3. CASE Overflow(s, n) = Len(ring[s]) + (n - Start(s, n)) - Capacity
      BY <2>4, <3>3
    <3> QED BY <2>5, <3>1, <3>2, <3>3
  <2> QED BY <2>1, <2>6
<1> QED BY <1>2, <1>3, <1>4, <1>5

(* Opening: a sink is skipped, fails or opens, a file with its header.     *)
LEMMA OpenCases ==
  ASSUME Covered, OpenStep
  PROVE  \E s \in Sinks :
           /\ main = "open" /\ s = Head(todo)
           /\ \/ SkipOpen(s) \/ OpenFails(s)
              \/ \E thr \in {"wait", "callback"} :
                   /\ Opened(s, thr)
                   /\ \/ s \in Files /\ thr = "wait" /\ WriteHeader(s)
                      \/ s \notin Files /\ UNCHANGED <<header, headers>>
<1>1. main = "open" /\ Head(todo) \in Sinks
  <2>1. main = "open"
    BY DEF OpenStep
  <2>2. PICK k \in 1..4 : todo = SubSeq(OpenOrder, k, 4)
    BY <2>1 DEF Covered
  <2>3. Head(todo) = OpenOrder[k]
    BY <2>2 DEF OpenOrder
  <2> QED BY <2>1, <2>3 DEF OpenOrder, Sinks
<1> DEFINE s == Head(todo)
<1>2. SkipOpen(s) \/ OpenFile(s) \/ OpenSpeaker(s) \/ OpenMpxPlayer(s)
  BY DEF OpenStep
<1> HIDE DEF s
<1>3. ASSUME OpenDevice(s), s \notin Files
      PROVE  OpenFails(s) \/ \E thr \in {"wait", "callback"} :
                               Opened(s, thr) /\ UNCHANGED <<header, headers>>
  BY <1>3 DEF OpenDevice, NoDevice, OpenCoreAudio, OpenAlsa, OpenWinmm
<1>4. SkipOpen(s) \/ OpenFails(s)
        \/ \E thr \in {"wait", "callback"} :
             /\ Opened(s, thr)
             /\ \/ s \in Files /\ thr = "wait" /\ WriteHeader(s)
                \/ s \notin Files /\ UNCHANGED <<header, headers>>
  <2>1. CASE OpenFile(s)
    BY <2>1 DEF OpenFile
  <2>2. CASE OpenSpeaker(s)
    BY <1>3, <2>2 DEF OpenSpeaker, Files
  <2>3. CASE OpenMpxPlayer(s)
    BY <1>3, <2>3 DEF OpenMpxPlayer, Files
  <2> QED BY <1>2, <2>1, <2>2, <2>3
<1> QED BY <1>1, <1>4 DEF s

(* Closing: a sink is skipped, told to stop, or joined.                    *)
LEMMA CloseCases ==
  ASSUME Covered, CloseStep
  PROVE  \E s \in Sinks : /\ main = "close" /\ s = Head(todo) /\ todo \in Seq(Sinks)
                          /\ todo # <<>>
                          /\ SkipClose(s) \/ StopThread(s) \/ Join(s)
<1>1. main = "close" /\ todo \in Seq(Sinks) /\ todo # <<>>
  BY DEF CloseStep, Covered
<1>2. Head(todo) \in Sinks
  BY <1>1
<1> QED BY <1>1, <1>2 DEF CloseStep

(* A push offers a number n of samples.                                    *)
Pushed(s, n) ==
  /\ ring' = [ring EXCEPT ![s] = SubSeq(ring[s], Overflow(s, n) + 1, Len(ring[s]))
                                   \o SubSeq(Block(s, n), Start(s, n) + 1, n)]
  /\ lost' = [lost EXCEPT ![s] = (lost[s] \cup ToSet(SubSeq(ring[s], 1, Overflow(s, n))))
                                   \cup ToSet(SubSeq(Block(s, n), 1, Start(s, n)))]
  /\ fed' = [fed EXCEPT ![s] = fed[s] + n]

LEMMA PushOffers ==
  ASSUME Typed, Covered, NEW s \in Sinks, Push(s)
  PROVE  \E n \in Nat : Pushed(s, n) /\ (s \in Stereo => n = 2 * frames)
<1>1. frames \in Nat /\ frames # 0
  BY DEF Push, Typed, Covered
<1>2. ASSUME NEW n \in IF s \in Stereo THEN {2 * frames} ELSE (frames - 1)..(frames + 1)
      PROVE  n \in Nat /\ (s \in Stereo => n = 2 * frames)
  BY <1>1, <1>2
<1>3. \E n \in IF s \in Stereo THEN {2 * frames} ELSE (frames - 1)..(frames + 1) :
        Pushed(s, n)
  BY Zenon DEF Push, Pushed
<1> QED BY <1>2, <1>3

LEMMA TypedInit == Init => Typed
<1> SUFFICES ASSUME Init PROVE Typed
  OBVIOUS
<1>1. /\ options \in [sinks : SUBSET Sinks, backend : {"alsa", "coreaudio", "winmm"},
                      sameDevice : BOOLEAN, seekable : BOOLEAN]
  BY SelectionsAssumption DEF Init
<1>2. <<>> \in Seq(Nat) /\ {} \in SUBSET Nat
  OBVIOUS
<1> QED BY <1>1, <1>2 DEF Init, Typed

(* A driver asks for no more than the ring has.                            *)
LEMMA RenderWithin ==
  ASSUME Typed, NEW wanted \in 1..Chunk
  PROVE  /\ 2 * Least(Len(ring["speaker"]) \div 2, wanted) \in 0..Len(ring["speaker"])
         /\ (2 * Least(Len(ring["speaker"]) \div 2, wanted)) % 2 = 0
         /\ Least(Len(ring["mpxPlayer"]), wanted) \in 0..Len(ring["mpxPlayer"])
<1>1. "speaker" \in Sinks /\ "mpxPlayer" \in Sinks /\ wanted \in Nat
  BY Bounds DEF Sinks
<1>2. Len(ring["speaker"]) \in Nat /\ Len(ring["mpxPlayer"]) \in Nat
  BY <1>1, Members DEF Typed
<1> QED BY <1>1, <1>2, WantedType

LEMMA TypedStep == ASSUME Typed, Covered, [Next]_vars PROVE Typed'
<1>1. CASE OpenStep
  <2>1. PICK s \in Sinks :
          \/ SkipOpen(s) \/ OpenFails(s)
          \/ \E thr \in {"wait", "callback"} :
               Opened(s, thr) /\ (WriteHeader(s) \/ UNCHANGED <<header, headers>>)
    BY <1>1, OpenCases
  <2>2. CASE SkipOpen(s) \/ OpenFails(s)
    BY <2>2 DEF SkipOpen, OpenFails, Typed, sinks, thread, file, flow
  <2>3. ASSUME NEW thr \in {"wait", "callback"}, Opened(s, thr),
               WriteHeader(s) \/ UNCHANGED <<header, headers>>
        PROVE  Typed'
    <3>1. header' \in [Sinks -> Int] /\ headers' \in [Sinks -> Nat]
      <4>1. CASE WriteHeader(s)
        <5>1. (IF Seekable(s) THEN size[s] ELSE Unknown) \in Int /\ headers[s] + 1 \in Nat
          BY DEF Typed, Unknown
        <5> QED BY <4>1, <5>1 DEF WriteHeader, Typed
      <4>2. CASE UNCHANGED <<header, headers>>
        BY <4>2 DEF Typed
      <4> QED BY <2>3, <4>1, <4>2
    <3>2. /\ handle' \in [Sinks -> {"closed", "open", "ended"}]
          /\ running' \in [Sinks -> BOOLEAN]
          /\ worker' \in [Sinks -> {"none", "wait", "write", "done", "callback"}]
      BY <2>3 DEF Opened, Typed
    <3> QED BY <2>3, <3>1, <3>2 DEF Opened, Typed, flow
  <2> QED BY <2>1, <2>2, <2>3
<1>2. CASE StartBlock
  BY <1>2, Bounds DEF StartBlock, Typed, sinks, thread, file, flow
<1>3. ASSUME NEW s \in Sinks, Push(s) PROVE Typed'
  <2>1. PICK n \in Nat : Pushed(s, n)
    BY <1>3, PushOffers
  <2>2. ring[s] \in Seq(Nat) /\ fed[s] \in Nat /\ lost[s] \in SUBSET Nat
    BY DEF Typed
  <2>3. /\ Block(s, n) \in Seq(Nat) /\ Len(Block(s, n)) = n
        /\ Start(s, n) \in 0..n /\ Overflow(s, n) \in 0..Len(ring[s])
    BY PushType
  <2>4. /\ SubSeq(ring[s], Overflow(s, n) + 1, Len(ring[s])) \in Seq(Nat)
        /\ SubSeq(Block(s, n), Start(s, n) + 1, n) \in Seq(Nat)
        /\ ToSet(SubSeq(ring[s], 1, Overflow(s, n))) \in SUBSET Nat
        /\ ToSet(SubSeq(Block(s, n), 1, Start(s, n))) \in SUBSET Nat
    BY <2>2, <2>3, CutType
  <2>5. SubSeq(ring[s], Overflow(s, n) + 1, Len(ring[s]))
          \o SubSeq(Block(s, n), Start(s, n) + 1, n) \in Seq(Nat)
    BY <2>4, ConcatProperties
  <2>6. /\ ring' \in [Sinks -> Seq(Nat)] /\ fed' \in [Sinks -> Nat]
        /\ lost' \in [Sinks -> SUBSET Nat]
    <3> DEFINE waiting == SubSeq(ring[s], Overflow(s, n) + 1, Len(ring[s]))
                            \o SubSeq(Block(s, n), Start(s, n) + 1, n)
               gone == (lost[s] \cup ToSet(SubSeq(ring[s], 1, Overflow(s, n))))
                         \cup ToSet(SubSeq(Block(s, n), 1, Start(s, n)))
    <3>1. /\ ring' = [ring EXCEPT ![s] = waiting] /\ lost' = [lost EXCEPT ![s] = gone]
          /\ fed' = [fed EXCEPT ![s] = fed[s] + n]
      BY <2>1 DEF Pushed
    <3>2. waiting \in Seq(Nat) /\ gone \in SUBSET Nat
      BY <2>2, <2>4, <2>5
    <3> HIDE DEF waiting, gone
    <3> QED BY <2>2, <3>1, <3>2 DEF Typed
  <2> QED BY <1>3, <2>6 DEF Push, Typed, thread, file
<1>4. CASE ClearRealtimeQueue
  <2>1. "speaker" \in Sinks /\ ToSet(ring["speaker"]) \in SUBSET Nat /\ <<>> \in Seq(Nat)
    BY Members DEF Typed, Sinks
  <2> QED BY <1>4, <2>1 DEF ClearRealtimeQueue, Typed, thread, file
<1>5. ASSUME NEW s \in Sinks, SkipPush(s) \/ Quit PROVE Typed'
  BY <1>5 DEF SkipPush, Quit, Typed, sinks, thread, file, flow
<1>6. CASE CloseStep
  <2>1. PICK s \in Sinks : SkipClose(s) \/ StopThread(s) \/ Join(s)
    BY <1>6, CloseCases
  <2>2. CASE SkipClose(s)
    BY <2>2 DEF SkipClose, Typed, sinks, thread, file, flow
  <2>3. CASE StopThread(s)
    BY <2>3 DEF StopThread, Typed, file, flow
  <2>4. CASE Join(s)
    <3>1. header' \in [Sinks -> Int] /\ headers' \in [Sinks -> Nat]
      BY SMTT(30), <2>4 DEF Join, FinalHeader, WriteHeader, Unknown, Torn, Typed
    <3> QED BY <2>4, <3>1 DEF Join, Typed, flow
  <2> QED BY <2>1, <2>2, <2>3, <2>4
<1>7. ASSUME NEW s \in Sinks, NEW n \in 0..Len(ring[s]), Render(s, n) PROVE Typed'
  <2>1. SubSeq(ring[s], 1, n) \in Seq(Nat) /\ SubSeq(ring[s], n + 1, Len(ring[s])) \in Seq(Nat)
    BY CutType DEF Typed
  <2>2. out[s] \o SubSeq(ring[s], 1, n) \in Seq(Nat)
    BY <2>1, ConcatProperties DEF Typed
  <2> QED BY <1>7, <2>1, <2>2 DEF Render, Typed, thread, file
<1>8. ASSUME NEW s \in Sinks, TakeChunk(s) PROVE Typed'
  <2>1. Least(Chunk, Len(ring[s])) \in 0..Len(ring[s])
    <3>1. Len(ring[s]) \in Nat /\ Chunk \in Nat
      BY Bounds, Members DEF Typed
    <3> QED BY <3>1 DEF Least
  <2>2. /\ SubSeq(ring[s], 1, Least(Chunk, Len(ring[s]))) \in Seq(Nat)
        /\ SubSeq(ring[s], Least(Chunk, Len(ring[s])) + 1, Len(ring[s])) \in Seq(Nat)
    BY <2>1, CutType DEF Typed
  <2> QED BY <1>8, <2>2 DEF TakeChunk, Take, Typed, file, flow
<1>9. ASSUME NEW s \in Sinks, ExitThread(s) \/ PrepareFails(s) PROVE Typed'
  BY <1>9 DEF ExitThread, PrepareFails, Typed, file, flow
<1>10. ASSUME NEW s \in Sinks, WriteData(s) PROVE Typed'
  <2>1. /\ chunk[s] \in Seq(Nat) /\ Len(chunk[s]) \in Nat /\ out[s] \in Seq(Nat)
        /\ <<>> \in Seq(Nat) /\ out[s] \o chunk[s] \in Seq(Nat) /\ size[s] \in Nat
    BY ConcatProperties DEF Typed
  <2>2. ASSUME NEW n \in 0..Len(chunk[s]), GaveUp(s, n)
        PROVE  /\ out' \in [Sinks -> Seq(Nat)] /\ size' \in [Sinks -> Nat]
               /\ lost' \in [Sinks -> SUBSET Nat] /\ fatal' \in [Sinks -> BOOLEAN]
               /\ worker' \in [Sinks -> {"none", "wait", "write", "done", "callback"}]
    <3>1. /\ SubSeq(chunk[s], 1, n) \in Seq(Nat)
          /\ ToSet(SubSeq(chunk[s], n + 1, Len(chunk[s]))) \in SUBSET Nat
      BY <2>1, CutType
    <3>2. out[s] \o SubSeq(chunk[s], 1, n) \in Seq(Nat)
      BY <2>1, <3>1, ConcatProperties
    <3> QED BY <2>1, <2>2, <3>1, <3>2 DEF GaveUp, Typed
  <2>3. /\ out' \in [Sinks -> Seq(Nat)] /\ size' \in [Sinks -> Nat]
        /\ lost' \in [Sinks -> SUBSET Nat] /\ fatal' \in [Sinks -> BOOLEAN]
        /\ worker' \in [Sinks -> {"none", "wait", "write", "done", "callback"}]
    <3>1. CASE \E n \in 0..Len(chunk[s]) : GaveUp(s, n)
      BY <2>2, <3>1
    <3>2. CASE /\ out' = [out EXCEPT ![s] = @ \o chunk[s]]
               /\ size' = [size EXCEPT ![s] = @ + Len(chunk[s])]
               /\ worker' = [worker EXCEPT ![s] = "wait"] /\ UNCHANGED <<lost, fatal>>
      BY <2>1, <3>2 DEF Typed
    <3>3. 0 \in 0..Len(chunk[s]) /\ 0..(Len(chunk[s]) - 1) \subseteq 0..Len(chunk[s])
      BY <2>1
    <3> QED BY <1>10, <3>1, <3>2, <3>3 DEF WriteData
  <2> QED BY <1>10, <2>1, <2>3 DEF WriteData, Typed
<1>11. ASSUME NEW s \in Sinks, Play(s) PROVE Typed'
  <2>1. /\ ToSet(chunk[s]) \in SUBSET Nat /\ <<>> \in Seq(Nat)
        /\ out[s] \o chunk[s] \in Seq(Nat)
    BY Members, ConcatProperties DEF Typed
  <2>2. out' \in [Sinks -> Seq(Nat)] /\ lost' \in [Sinks -> SUBSET Nat]
    <3>1. CASE out' = [out EXCEPT ![s] = @ \o chunk[s]] /\ UNCHANGED lost
      BY <2>1, <3>1 DEF Typed
    <3>2. CASE lost' = [lost EXCEPT ![s] = @ \cup ToSet(chunk[s])] /\ UNCHANGED out
      BY <2>1, <3>2 DEF Typed
    <3> QED BY <1>11, <3>1, <3>2 DEF Play
  <2>3. /\ chunk' \in [Sinks -> Seq(Nat)]
        /\ worker' \in [Sinks -> {"none", "wait", "write", "done", "callback"}]
    BY <1>11, <2>1 DEF Play, Typed
  <2> QED BY <1>11, <2>2, <2>3 DEF Play, Typed, file
<1>12. CASE UNCHANGED vars
  BY <1>12 DEF vars, Typed, sinks, thread, file, flow
<1>13. CASE RenderSpeaker \/ RenderMpx
  <2> QED BY <1>7, <1>13, RenderWithin DEF RenderSpeaker, RenderMpx, Sinks
<1> QED
  BY <1>1, <1>2, <1>3, <1>4, <1>5, <1>6, <1>8, <1>9, <1>10, <1>11, <1>12, <1>13
     DEF Next, PushStep, WorkerStep, PlayAlsa, PlayWinmm, PlayMpx, Sinks

-------------------------------------------------------------------------------
(* No sample goes its way unseen.                                          *)
LEMMA StreamsStep ==
  ASSUME Typed, Covered, Threads, Streams, [Next]_vars PROVE Streams'
<1>1. ASSUME UNCHANGED <<ring, chunk, out, lost, fed>> PROVE Streams'
  BY <1>1 DEF Streams
<1>2. CASE OpenStep
  <2>1. PICK s \in Sinks : SkipOpen(s) \/ OpenFails(s) \/ \E thr : Opened(s, thr)
    BY <1>2, OpenCases
  <2> QED BY <1>1, <2>1 DEF SkipOpen, OpenFails, Opened, sinks, thread, flow
<1>3. CASE StartBlock \/ Quit
  BY <1>1, <1>3 DEF StartBlock, Quit, sinks, thread, flow
<1>4. ASSUME NEW s \in Sinks, Push(s) PROVE Streams'
  <2>1. PICK n \in Nat : Pushed(s, n)
    BY <1>4, PushOffers
  <2>2. /\ out[s] \in Seq(Nat) /\ chunk[s] \in Seq(Nat) /\ ring[s] \in Seq(Nat)
        /\ fed[s] \in Nat /\ lost[s] \in SUBSET Nat
        /\ Stream(out[s], chunk[s], ring[s], lost[s], fed[s])
    BY DEF Typed, Streams
  <2>3. Start(s, n) \in 0..n /\ Overflow(s, n) \in 0..Len(ring[s])
    BY PushType
  <2> DEFINE rest == SubSeq(ring[s], Overflow(s, n) + 1, Len(ring[s]))
             gone == lost[s] \cup ToSet(SubSeq(ring[s], 1, Overflow(s, n)))
  <2>4. Stream(out[s], chunk[s], rest, gone, fed[s])
    BY <2>2, <2>3, DropStream
  <2>5. rest \in Seq(Nat) /\ gone \in SUBSET Nat
    BY <2>2, <2>3, CutType
  <2> HIDE DEF rest, gone
  <2>6. Stream(out[s], chunk[s], rest \o SubSeq(Block(s, n), Start(s, n) + 1, n),
               gone \cup ToSet(SubSeq(Block(s, n), 1, Start(s, n))), fed[s] + n)
    BY <2>2, <2>3, <2>4, <2>5, OfferStream DEF Block
  <2>7. /\ UNCHANGED <<out, chunk>>
        /\ ring' = [ring EXCEPT ![s] = rest \o SubSeq(Block(s, n), Start(s, n) + 1, n)]
        /\ lost' = [lost EXCEPT ![s] = gone \cup ToSet(SubSeq(Block(s, n), 1, Start(s, n)))]
        /\ fed' = [fed EXCEPT ![s] = fed[s] + n]
    BY <1>4, <2>1 DEF Push, Pushed, thread, rest, gone
  <2> QED BY <2>6, <2>7 DEF Streams, Typed
<1>5. CASE ClearRealtimeQueue
  <2> DEFINE s == "speaker"
  <2>1. s \in Sinks
    BY DEF Sinks
  <2>2. /\ out[s] \in Seq(Nat) /\ chunk[s] \in Seq(Nat) /\ ring[s] \in Seq(Nat)
        /\ fed[s] \in Nat /\ lost[s] \in SUBSET Nat
        /\ Stream(out[s], chunk[s], ring[s], lost[s], fed[s])
    BY <2>1 DEF Typed, Streams
  <2>3. Stream(out[s], chunk[s], <<>>, lost[s] \cup ToSet(ring[s]), fed[s])
    BY <2>2, Nothing DEF Stream, Before
  <2> QED BY <1>5, <2>1, <2>3 DEF ClearRealtimeQueue, Streams, Typed, thread
<1>6. ASSUME NEW s \in Sinks, SkipPush(s) PROVE Streams'
  BY <1>1, <1>6 DEF SkipPush, sinks, thread, flow
<1>7. CASE CloseStep
  <2>1. PICK s \in Sinks : SkipClose(s) \/ StopThread(s) \/ Join(s)
    BY <1>7, CloseCases
  <2> QED BY <1>1, <2>1 DEF SkipClose, StopThread, Join, sinks, thread, flow
<1>8. ASSUME NEW s \in Sinks, worker[s] = "callback", NEW n \in 0..Len(ring[s]), Render(s, n)
      PROVE  Streams'
  <2>1. /\ out[s] \in Seq(Nat) /\ ring[s] \in Seq(Nat)
        /\ fed[s] \in Nat /\ lost[s] \in SUBSET Nat
        /\ chunk[s] = <<>> /\ Stream(out[s], <<>>, ring[s], lost[s], fed[s])
    BY <1>8 DEF Typed, Streams, Threads
  <2> DEFINE a == SubSeq(ring[s], 1, n)
             b == SubSeq(ring[s], n + 1, Len(ring[s]))
  <2>2. Stream(out[s], a, b, lost[s], fed[s])
    BY <2>1, TakeStream
  <2>3. a \in Seq(Nat) /\ b \in Seq(Nat)
    BY <2>1, CutType
  <2> HIDE DEF a, b
  <2>4. Stream(out[s] \o a, <<>>, b, lost[s], fed[s])
    BY <2>1, <2>2, <2>3, GiveStream
  <2>5. /\ out' = [out EXCEPT ![s] = out[s] \o a] /\ ring' = [ring EXCEPT ![s] = b]
        /\ UNCHANGED <<chunk, lost, fed>>
    BY <1>8 DEF Render, thread, a, b
  <2> QED BY <2>1, <2>4, <2>5 DEF Streams, Typed
<1>9. ASSUME NEW s \in Sinks, TakeChunk(s) PROVE Streams'
  <2>1. /\ out[s] \in Seq(Nat) /\ ring[s] \in Seq(Nat)
        /\ fed[s] \in Nat /\ lost[s] \in SUBSET Nat
        /\ chunk[s] = <<>> /\ Stream(out[s], <<>>, ring[s], lost[s], fed[s])
    BY <1>9 DEF TakeChunk, Typed, Streams, Threads
  <2>2. Least(Chunk, Len(ring[s])) \in 0..Len(ring[s])
    <3>1. Len(ring[s]) \in Nat /\ Chunk \in Nat
      BY <2>1, Bounds, Members
    <3> QED BY <3>1 DEF Least
  <2> DEFINE n == Least(Chunk, Len(ring[s]))
             a == SubSeq(ring[s], 1, n)
             b == SubSeq(ring[s], n + 1, Len(ring[s]))
  <2>3. Stream(out[s], a, b, lost[s], fed[s])
    BY <2>1, <2>2, TakeStream
  <2>4. /\ chunk' = [chunk EXCEPT ![s] = a] /\ ring' = [ring EXCEPT ![s] = b]
        /\ UNCHANGED <<out, lost, fed>>
    BY <1>9 DEF TakeChunk, Take, flow
  <2> HIDE DEF a, b
  <2> QED BY <2>3, <2>4 DEF Streams, Typed
<1>10. ASSUME NEW s \in Sinks, ExitThread(s) \/ PrepareFails(s) PROVE Streams'
  BY <1>1, <1>10 DEF ExitThread, PrepareFails, flow
<1>11. ASSUME NEW s \in Sinks
       PROVE  /\ Stream(out[s] \o chunk[s], <<>>, ring[s], lost[s], fed[s])
              /\ Stream(out[s], <<>>, ring[s], lost[s] \cup ToSet(chunk[s]), fed[s])
              /\ \A n \in 0..Len(chunk[s]) :
                   Stream(out[s] \o SubSeq(chunk[s], 1, n), <<>>, ring[s],
                          lost[s] \cup ToSet(SubSeq(chunk[s], n + 1, Len(chunk[s]))), fed[s])
  <2>1. /\ out[s] \in Seq(Nat) /\ chunk[s] \in Seq(Nat) /\ ring[s] \in Seq(Nat)
        /\ fed[s] \in Nat /\ lost[s] \in SUBSET Nat
        /\ Stream(out[s], chunk[s], ring[s], lost[s], fed[s])
    BY DEF Typed, Streams
  <2>2. Stream(out[s] \o chunk[s], <<>>, ring[s], lost[s], fed[s])
    BY <2>1, GiveStream
  <2>3. \A n \in 0..Len(chunk[s]) :
          Stream(out[s] \o SubSeq(chunk[s], 1, n), <<>>, ring[s],
                 lost[s] \cup ToSet(SubSeq(chunk[s], n + 1, Len(chunk[s]))), fed[s])
    BY <2>1, LoseStream
  <2>4. Stream(out[s], <<>>, ring[s], lost[s] \cup ToSet(chunk[s]), fed[s])
    <3>1. 0 \in 0..Len(chunk[s]) /\ Len(chunk[s]) \in Nat
      BY <2>1, Members
    <3>2. SubSeq(chunk[s], 1, 0) = <<>> /\ SubSeq(chunk[s], 0 + 1, Len(chunk[s])) = chunk[s]
      BY <2>1, SubSeqFull
    <3>3. out[s] \o <<>> = out[s]
      BY <2>1, JoinNothing
    <3> QED BY <2>3, <3>1, <3>2, <3>3
  <2> QED BY <2>2, <2>3, <2>4
<1>12. ASSUME NEW s \in Sinks, WriteData(s) PROVE Streams'
  <2>1. chunk' = [chunk EXCEPT ![s] = <<>>] /\ UNCHANGED <<ring, fed>>
    BY <1>12 DEF WriteData
  <2>2. CASE out' = [out EXCEPT ![s] = out[s] \o chunk[s]] /\ UNCHANGED lost
    BY <1>11, <2>1, <2>2 DEF Streams, Typed
  <2>3. ASSUME NEW n \in 0..Len(chunk[s]), GaveUp(s, n) PROVE Streams'
    <3>1. Stream(out[s] \o SubSeq(chunk[s], 1, n), <<>>, ring[s],
                 lost[s] \cup ToSet(SubSeq(chunk[s], n + 1, Len(chunk[s]))), fed[s])
      BY <1>11
    <3> QED BY <2>1, <2>3, <3>1 DEF GaveUp, Streams, Typed
  <2>4. Len(chunk[s]) \in Nat
    BY Members DEF Typed
  <2>5. 0 \in 0..Len(chunk[s]) /\ 0..(Len(chunk[s]) - 1) \subseteq 0..Len(chunk[s])
    BY <2>4
  <2> QED BY <1>12, <2>2, <2>3, <2>5 DEF WriteData
<1>13. ASSUME NEW s \in Sinks, Play(s) PROVE Streams'
  <2>1. chunk' = [chunk EXCEPT ![s] = <<>>] /\ UNCHANGED <<ring, fed>>
    BY <1>13 DEF Play, file
  <2>2. CASE out' = [out EXCEPT ![s] = out[s] \o chunk[s]] /\ UNCHANGED lost
    BY <1>11, <2>1, <2>2 DEF Streams, Typed
  <2>3. CASE lost' = [lost EXCEPT ![s] = lost[s] \cup ToSet(chunk[s])] /\ UNCHANGED out
    BY <1>11, <2>1, <2>3 DEF Streams, Typed
  <2> QED BY <1>13, <2>2, <2>3 DEF Play
<1>14. CASE RenderSpeaker \/ RenderMpx
  BY <1>8, <1>14, RenderWithin DEF RenderSpeaker, RenderMpx, Sinks
<1>15. CASE UNCHANGED vars
  BY <1>1, <1>15 DEF vars, sinks, thread, flow
<1> QED
  BY <1>2, <1>3, <1>4, <1>5, <1>6, <1>7, <1>9, <1>10, <1>12, <1>13, <1>14, <1>15
     DEF Next, PushStep, WorkerStep, PlayAlsa, PlayWinmm, PlayMpx, Sinks

-------------------------------------------------------------------------------
(* Left and right stay together.                                           *)
LEMMA BlockFrames ==
  ASSUME Typed, NEW s \in Sinks, NEW n \in Nat, n % 2 = 0, fed[s] % 2 = 0
  PROVE  WholeFrames(Block(s, n))
<1>1. /\ Len(Block(s, n)) = n /\ fed[s] \in Nat
      /\ \A i \in 1..n : Block(s, n)[i] = fed[s] + i
  BY DEF Block, Typed
<1>2. ASSUME NEW i \in 1..n, i % 2 = 1
      PROVE  Block(s, n)[i] % 2 = 1 /\ Block(s, n)[i + 1] = Block(s, n)[i] + 1
  <2>1. i \in Nat /\ i + 1 \in 1..n /\ (fed[s] + i) % 2 = 1
    <3>1. i \in Nat /\ i <= n
      OBVIOUS
    <3>2. i + 1 <= n /\ (fed[s] + i) % 2 = 1
      BY <1>1, <1>2, <3>1, Parity
    <3> QED BY <3>1, <3>2
  <2> QED BY <1>1, <2>1
<1> QED BY <1>1, <1>2 DEF WholeFrames

LEMMA FramesStep ==
  ASSUME Typed, Covered, Threads, Frames, [Next]_vars PROVE Frames'
<1>1. ASSUME UNCHANGED <<ring, chunk, out, fed, fatal>> PROVE Frames'
  BY <1>1 DEF Frames
<1>2. CASE OpenStep
  <2>1. PICK s \in Sinks : SkipOpen(s) \/ OpenFails(s) \/ \E thr : Opened(s, thr)
    BY <1>2, OpenCases
  <2> QED BY <1>1, <2>1 DEF SkipOpen, OpenFails, Opened, sinks, thread, flow, file
<1>3. CASE StartBlock \/ Quit
  BY <1>1, <1>3 DEF StartBlock, Quit, sinks, thread, flow, file
<1>4. ASSUME NEW s \in Sinks, Push(s) PROVE Frames'
  <2>1. PICK n \in Nat : Pushed(s, n) /\ (s \in Stereo => n = 2 * frames)
    BY <1>4, PushOffers
  <2>2. ASSUME s \in Stereo
        PROVE  /\ (fed[s] + n) % 2 = 0
               /\ WholeFrames(SubSeq(ring[s], Overflow(s, n) + 1, Len(ring[s]))
                                \o SubSeq(Block(s, n), Start(s, n) + 1, n))
    <3>1. /\ ring[s] \in Seq(Nat) /\ fed[s] \in Nat /\ frames \in Nat
          /\ fed[s] % 2 = 0 /\ WholeFrames(ring[s])
      BY <2>2 DEF Typed, Frames
    <3>2. n % 2 = 0
      BY <2>1, <2>2, <3>1
    <3>3. Len(ring[s]) % 2 = 0
      BY <3>1 DEF WholeFrames
    <3>4. /\ Block(s, n) \in Seq(Nat) /\ Len(Block(s, n)) = n
          /\ Start(s, n) \in 0..n /\ Overflow(s, n) \in 0..Len(ring[s])
          /\ Start(s, n) % 2 = 0 /\ Overflow(s, n) % 2 = 0
      BY <2>2, <3>2, <3>3, PushType
    <3>5. WholeFrames(Block(s, n))
      BY <3>1, <3>2, BlockFrames
    <3>6. /\ WholeFrames(SubSeq(ring[s], Overflow(s, n) + 1, Len(ring[s])))
          /\ SubSeq(ring[s], Overflow(s, n) + 1, Len(ring[s])) \in Seq(Nat)
      BY <3>1, <3>4, CutFrames, CutType
    <3>7. /\ WholeFrames(SubSeq(Block(s, n), Start(s, n) + 1, n))
          /\ SubSeq(Block(s, n), Start(s, n) + 1, n) \in Seq(Nat)
      BY <3>4, <3>5, CutFrames, CutType
    <3>8. (fed[s] + n) % 2 = 0
      BY <3>1, <3>2, Parity
    <3> QED BY <3>6, <3>7, <3>8, JoinFrames
  <2> DEFINE waiting == SubSeq(ring[s], Overflow(s, n) + 1, Len(ring[s]))
                          \o SubSeq(Block(s, n), Start(s, n) + 1, n)
  <2>3. /\ ring' = [ring EXCEPT ![s] = waiting] /\ fed' = [fed EXCEPT ![s] = fed[s] + n]
        /\ UNCHANGED <<chunk, out, fatal>> /\ (s \in Stereo => WholeFrames(waiting))
    BY <1>4, <2>1, <2>2 DEF Push, Pushed, thread, file
  <2> HIDE DEF waiting
  <2> QED BY <2>2, <2>3 DEF Frames, Typed, Stereo, Sinks
<1>5. CASE ClearRealtimeQueue
  BY <1>5, Nothing DEF ClearRealtimeQueue, Frames, Typed, thread, file, Stereo, Sinks
<1>6. ASSUME NEW s \in Sinks, SkipPush(s) PROVE Frames'
  BY <1>1, <1>6 DEF SkipPush, sinks, thread, flow, file
<1>7. CASE CloseStep
  <2>1. PICK s \in Sinks : SkipClose(s) \/ StopThread(s) \/ Join(s)
    BY <1>7, CloseCases
  <2> QED BY <1>1, <2>1 DEF SkipClose, StopThread, Join, sinks, thread, flow, file
<1>8. ASSUME NEW s \in Sinks, NEW n \in 0..Len(ring[s]), s \in Stereo => n % 2 = 0
      PROVE  s \in Stereo => /\ WholeFrames(SubSeq(ring[s], 1, n))
                            /\ WholeFrames(SubSeq(ring[s], n + 1, Len(ring[s])))
                            /\ SubSeq(ring[s], 1, n) \in Seq(Nat)
  BY <1>8, CutFrames, CutType DEF Frames, Typed
<1>9. ASSUME NEW s \in Sinks, NEW n \in 0..Len(ring[s]), s \in Stereo => n % 2 = 0,
             Render(s, n)
      PROVE  Frames'
  <2>1. s \in Stereo => WholeFrames(out[s] \o SubSeq(ring[s], 1, n)) \/ fatal[s]
    BY <1>8, <1>9, JoinFrames DEF Frames, Typed
  <2> DEFINE a == out[s] \o SubSeq(ring[s], 1, n)
             b == SubSeq(ring[s], n + 1, Len(ring[s]))
  <2>2. /\ out' = [out EXCEPT ![s] = a] /\ ring' = [ring EXCEPT ![s] = b]
        /\ UNCHANGED <<chunk, fed, fatal>> /\ (s \in Stereo => WholeFrames(b))
        /\ (s \in Stereo => WholeFrames(a) \/ fatal[s])
    BY <1>8, <1>9, <2>1 DEF Render, thread, file
  <2> HIDE DEF a, b
  <2> QED BY <2>2 DEF Frames, Typed, Stereo, Sinks
<1>10. ASSUME NEW s \in Sinks, TakeChunk(s) PROVE Frames'
  <2> DEFINE n == Least(Chunk, Len(ring[s]))
             a == SubSeq(ring[s], 1, n)
             b == SubSeq(ring[s], n + 1, Len(ring[s]))
  <2>1. n \in 0..Len(ring[s])
    <3>1. Len(ring[s]) \in Nat /\ Chunk \in Nat
      BY Bounds, Members DEF Typed
    <3> QED BY <3>1 DEF Least
  <2>2. s \in Stereo => n % 2 = 0
    BY Bounds DEF Least, Frames, WholeFrames
  <2>3. /\ chunk' = [chunk EXCEPT ![s] = a] /\ ring' = [ring EXCEPT ![s] = b]
        /\ UNCHANGED <<out, fed, fatal>>
        /\ (s \in Stereo => WholeFrames(a) /\ WholeFrames(b))
    BY <1>8, <1>10, <2>1, <2>2 DEF TakeChunk, Take, flow, file
  <2> HIDE DEF a, b
  <2> QED BY <2>3 DEF Frames, Typed, Stereo, Sinks
<1>11. ASSUME NEW s \in Sinks, ExitThread(s) \/ PrepareFails(s) PROVE Frames'
  BY <1>1, <1>11 DEF ExitThread, PrepareFails, flow, file
<1>12. ASSUME NEW s \in Sinks
       PROVE  s \in Stereo => WholeFrames(out[s] \o chunk[s]) \/ fatal[s]
  BY JoinFrames DEF Frames, Typed
<1>13. ASSUME NEW s \in Sinks, WriteData(s) PROVE Frames'
  <2>1. chunk' = [chunk EXCEPT ![s] = <<>>] /\ UNCHANGED <<ring, fed>>
    BY <1>13 DEF WriteData
  <2>2. CASE out' = [out EXCEPT ![s] = out[s] \o chunk[s]] /\ UNCHANGED fatal
    BY <1>12, <2>1, <2>2, Nothing DEF Frames, Typed, Stereo, Sinks
  <2>3. ASSUME NEW n, GaveUp(s, n) PROVE Frames'
    BY <2>1, <2>3, Nothing DEF GaveUp, Frames, Typed, Stereo, Sinks
  <2> QED BY <1>13, <2>2, <2>3 DEF WriteData
<1>14. ASSUME NEW s \in Sinks, Play(s) PROVE Frames'
  <2>1. chunk' = [chunk EXCEPT ![s] = <<>>] /\ UNCHANGED <<ring, fed, fatal>>
    BY <1>14 DEF Play, file
  <2>2. out' = [out EXCEPT ![s] = out[s] \o chunk[s]] \/ UNCHANGED out
    BY <1>14 DEF Play
  <2>3. CASE out' = [out EXCEPT ![s] = out[s] \o chunk[s]]
    BY <1>12, <2>1, <2>3, Nothing DEF Frames, Typed, Stereo, Sinks
  <2>4. CASE UNCHANGED out
    BY <2>1, <2>4, Nothing DEF Frames, Typed, Stereo, Sinks
  <2> QED BY <2>2, <2>3, <2>4
<1>15. CASE RenderSpeaker \/ RenderMpx
  BY <1>9, <1>15, RenderWithin DEF RenderSpeaker, RenderMpx, Sinks, Stereo
<1>16. CASE UNCHANGED vars
  BY <1>1, <1>16 DEF vars, sinks, thread, flow, file
<1> QED
  BY <1>2, <1>3, <1>4, <1>5, <1>6, <1>7, <1>10, <1>11, <1>13, <1>14, <1>15, <1>16
     DEF Next, PushStep, WorkerStep, PlayAlsa, PlayWinmm, PlayMpx, Sinks

-------------------------------------------------------------------------------
(* The main thread closes what it has opened.                              *)
LEMMA RestOfList ==
  ASSUME NEW list \in Seq(Sinks), list # <<>>
  PROVE  /\ Tail(list) \in Seq(Sinks)
         /\ \A s \in ToSet(list) : s = Head(list) \/ s \in ToSet(Tail(list))
<1>1. /\ Len(list) \in Nat \ {0} /\ Tail(list) \in Seq(Sinks)
      /\ Len(Tail(list)) = Len(list) - 1 /\ Head(list) = list[1]
      /\ \A i \in 1..(Len(list) - 1) : Tail(list)[i] = list[i + 1]
  BY HeadTailProperties, EmptySeq
<1>2. ASSUME NEW i \in 1..Len(list) PROVE list[i] = Head(list) \/ list[i] \in ToSet(Tail(list))
  <2>1. CASE i = 1
    BY <1>1, <2>1
  <2>2. CASE i # 1
    <3>1. i - 1 \in 1..(Len(list) - 1) /\ (i - 1) + 1 = i
      BY <1>1, <2>2
    <3>2. DOMAIN Tail(list) = 1..(Len(list) - 1)
      BY <1>1
    <3> QED BY <1>1, <3>1, <3>2 DEF ToSet
  <2> QED BY <2>1, <2>2
<1>3. DOMAIN list = 1..Len(list)
  OBVIOUS
<1> QED BY <1>1, <1>2, <1>3 DEF ToSet

LEMMA LiteralSets ==
  /\ <<"recorder", "speaker", "mpxFile", "mpxPlayer">> \in Seq(Sinks)
  /\ <<"mpxFile", "mpxPlayer", "recorder", "speaker">> \in Seq(Sinks) \ {<<>>}
  /\ <<"mpxPlayer", "speaker", "recorder", "mpxFile">> \in Seq(Sinks) \ {<<>>}
  /\ Sinks \subseteq ToSet(<<"mpxPlayer", "speaker", "recorder", "mpxFile">>)
BY DEF Sinks, ToSet

LEMMA UndoCovers ==
  /\ Undo("mpxFile") \in Seq(Sinks) \ {<<>>}
  /\ {"recorder", "speaker"} \subseteq ToSet(Undo("mpxFile"))
  /\ Undo("mpxPlayer") \in Seq(Sinks) \ {<<>>}
  /\ {"recorder", "speaker", "mpxFile"} \subseteq ToSet(Undo("mpxPlayer"))
  /\ \A s \in {"recorder", "speaker"} : /\ Undo(s) \in Seq(Sinks) \ {<<>>}
                                        /\ Sinks \subseteq ToSet(Undo(s))
BY DEF Undo, Sinks, ToSet

LEMMA CoveredStep ==
  ASSUME Typed, Covered, Threads, [Next]_vars PROVE Covered'
<1>1. CASE OpenStep
  <2>1. PICK s \in Sinks :
          /\ main = "open" /\ s = Head(todo)
          /\ SkipOpen(s) \/ OpenFails(s) \/ \E thr : Opened(s, thr)
    BY <1>1, OpenCases
  <2>2. PICK k \in 1..4 : todo = SubSeq(OpenOrder, k, 4)
                          /\ \A i \in k..4 : handle[OpenOrder[i]] = "closed"
    BY <2>1 DEF Covered
  <2>3. /\ s = OpenOrder[k]
        /\ Tail(todo) = IF k = 4 THEN <<>> ELSE SubSeq(OpenOrder, k + 1, 4)
        /\ k < 4 => SubSeq(OpenOrder, k + 1, 4) # <<>>
    BY SMTT(30), <2>1, <2>2 DEF OpenOrder
  <2>4. CASE OpenFails(s)
    <3>1. \A t \in Sinks : handle'[t] = "open" => t \in ToSet(Undo(s))
      BY <2>2, <2>3, <2>4, UndoCovers DEF OpenFails, sinks, OpenOrder, Sinks
    <3>2. Undo(s) \in Seq(Sinks) \ {<<>>}
      BY SMTT(30), <2>3, UndoCovers DEF OpenOrder
    <3> QED BY <2>4, <3>1, <3>2 DEF OpenFails, Covered
  <2>5. ASSUME todo' = Tail(todo), main' = IF todo' = <<>> THEN "run" ELSE "open",
               \A t \in Sinks \ {s} : handle'[t] = handle[t]
        PROVE  Covered'
    <3>1. CASE k = 4
      BY <2>3, <2>5, <3>1 DEF Covered
    <3>2. CASE k # 4
      <4>1. k + 1 \in 1..4 /\ todo' = SubSeq(OpenOrder, k + 1, 4) /\ main' = "open"
        BY <2>3, <2>5, <3>2
      <4>2. \A i \in (k + 1)..4 : OpenOrder[i] \in Sinks \ {s}
        BY <2>3 DEF OpenOrder, Sinks
      <4>3. \A i \in (k + 1)..4 : handle'[OpenOrder[i]] = "closed"
        BY <2>2, <2>5, <4>2
      <4> QED BY <4>1, <4>3 DEF Covered
    <3> QED BY <3>1, <3>2
  <2>6. CASE SkipOpen(s)
    BY <2>5, <2>6 DEF SkipOpen, sinks
  <2>7. ASSUME NEW thr, Opened(s, thr) PROVE Covered'
    BY <2>5, <2>7 DEF Opened, Typed
  <2> QED BY <2>1, <2>4, <2>6, <2>7
<1>2. CASE StartBlock
  BY <1>2, LiteralSets, Bounds DEF StartBlock, Covered
<1>3. ASSUME NEW s \in Sinks, Push(s) \/ SkipPush(s) PROVE Covered'
  <2>1. main = "push" /\ main' \in {"run", "push"} /\ todo' = Tail(todo) /\ UNCHANGED frames
        /\ (main' = "push" => todo' # <<>>)
    BY <1>3 DEF Push, SkipPush
  <2>2. todo \in Seq(Sinks) /\ todo # <<>> /\ frames # 0
    BY <2>1 DEF Covered
  <2>3. todo' \in Seq(Sinks)
    BY <2>1, <2>2, RestOfList
  <2> QED BY <2>1, <2>2, <2>3 DEF Covered
<1>4. CASE ClearRealtimeQueue
  BY <1>4 DEF ClearRealtimeQueue, Covered
<1>5. CASE Quit
  BY <1>5, LiteralSets DEF Quit, Covered
<1>6. CASE CloseStep
  <2>1. PICK s \in Sinks : /\ main = "close" /\ s = Head(todo) /\ todo \in Seq(Sinks)
                           /\ todo # <<>>
                           /\ SkipClose(s) \/ StopThread(s) \/ Join(s)
    BY <1>6, CloseCases
  <2>2. \A t \in Sinks : handle[t] = "open" => t \in ToSet(todo)
    BY <2>1 DEF Covered
  <2>3. CASE StopThread(s)
    BY <2>1, <2>2, <2>3 DEF StopThread, Covered
  <2>4. CASE SkipClose(s) \/ Join(s)
    <3>1. /\ todo' = Tail(todo) /\ main' = (IF todo' = <<>> THEN "ended" ELSE "close")
          /\ handle'[s] # "open" /\ \A t \in Sinks \ {s} : handle'[t] = handle[t]
      BY <2>4 DEF SkipClose, Join, NextToClose, Typed, sinks
    <3>2. Tail(todo) \in Seq(Sinks)
          /\ \A t \in ToSet(todo) : t = s \/ t \in ToSet(Tail(todo))
      BY <2>1, RestOfList
    <3>3. \A t \in Sinks : handle'[t] = "open" => t \in ToSet(todo')
      BY <2>2, <3>1, <3>2
    <3>4. todo' = <<>> => \A t \in Sinks : handle'[t] # "open"
      BY <3>3 DEF ToSet
    <3> QED BY <3>1, <3>2, <3>3, <3>4 DEF Covered
  <2> QED BY <2>1, <2>3, <2>4
<1>7. ASSUME UNCHANGED <<main, todo, frames, handle>> PROVE Covered'
  BY <1>7 DEF Covered
<1>8. ASSUME NEW s \in Sinks, WorkerStep(s) \/ PrepareFails(s) PROVE Covered'
  BY <1>7, <1>8 DEF WorkerStep, PrepareFails, TakeChunk, ExitThread, WriteData, PlayAlsa,
     PlayWinmm, PlayMpx, Play
<1>9. CASE RenderSpeaker \/ RenderMpx
  BY <1>7, <1>9 DEF RenderSpeaker, RenderMpx, Render
<1>10. CASE UNCHANGED vars
  BY <1>7, <1>10 DEF vars, sinks
<1> QED
  BY <1>1, <1>2, <1>3, <1>4, <1>5, <1>6, <1>8, <1>9, <1>10 DEF Next, PushStep

-------------------------------------------------------------------------------
(* Threads live as long as their handles are open.                         *)
LEMMA ThreadsStep ==
  ASSUME Typed, Covered, Threads, [Next]_vars PROVE Threads'
<1>1. ASSUME UNCHANGED <<handle, worker, chunk>> PROVE Threads'
  BY <1>1 DEF Threads
<1>2. CASE OpenStep
  <2>1. PICK s \in Sinks : /\ main = "open" /\ s = Head(todo)
                           /\ \/ SkipOpen(s) \/ OpenFails(s)
                              \/ \E thr \in {"wait", "callback"} : Opened(s, thr)
    BY <1>2, OpenCases
  <2>2. handle[s] = "closed"
    <3>1. PICK k \in 1..4 : todo = SubSeq(OpenOrder, k, 4)
                            /\ \A i \in k..4 : handle[OpenOrder[i]] = "closed"
      BY <2>1 DEF Covered
    <3>2. s = OpenOrder[k]
      BY <2>1, <3>1 DEF OpenOrder
    <3> QED BY <3>1, <3>2
  <2>3. chunk[s] = <<>>
    BY <2>2 DEF Threads
  <2>4. ASSUME NEW thr \in {"wait", "callback"}, Opened(s, thr) PROVE Threads'
    BY <2>3, <2>4 DEF Opened, Threads, Typed
  <2> QED BY <1>1, <2>1, <2>4 DEF SkipOpen, OpenFails, sinks, thread
<1>3. CASE StartBlock \/ Quit \/ ClearRealtimeQueue
  BY <1>1, <1>3 DEF StartBlock, Quit, ClearRealtimeQueue, sinks, thread
<1>4. ASSUME NEW s \in Sinks, Push(s) \/ SkipPush(s) PROVE Threads'
  BY <1>1, <1>4 DEF Push, SkipPush, sinks, thread
<1>5. CASE CloseStep
  <2>1. PICK s \in Sinks : SkipClose(s) \/ StopThread(s) \/ Join(s)
    BY <1>5, CloseCases
  <2>2. CASE SkipClose(s) \/ StopThread(s)
    BY <1>1, <2>2 DEF SkipClose, StopThread, sinks, thread
  <2>3. CASE Join(s)
    BY <2>3 DEF Join, Threads, Typed
  <2> QED BY <2>1, <2>2, <2>3
<1>6. ASSUME NEW s \in Sinks, TakeChunk(s) PROVE Threads'
  BY <1>6 DEF TakeChunk, Take, Threads, Typed
<1>7. ASSUME NEW s \in Sinks, ExitThread(s) \/ PrepareFails(s) PROVE Threads'
  <2>1. CASE ExitThread(s)
    BY <2>1 DEF ExitThread, Threads, Typed, file, flow
  <2>2. CASE PrepareFails(s)
    BY <2>2 DEF PrepareFails, Threads, Typed, file, flow
  <2> QED BY <1>7, <2>1, <2>2
<1>8. ASSUME NEW s \in Sinks, WriteData(s) PROVE Threads'
  <2>1. /\ chunk' = [chunk EXCEPT ![s] = <<>>] /\ UNCHANGED handle
        /\ worker[s] # "none"
        /\ \/ worker' = [worker EXCEPT ![s] = "wait"]
           \/ worker' = [worker EXCEPT ![s] = "done"]
    BY <1>8 DEF WriteData, GaveUp
  <2> QED BY <2>1 DEF Threads, Typed
<1>9. ASSUME NEW s \in Sinks, Play(s) PROVE Threads'
  BY <1>9 DEF Play, Threads, Typed
<1>10. CASE RenderSpeaker \/ RenderMpx
  BY <1>1, <1>10 DEF RenderSpeaker, RenderMpx, Render, thread
<1>11. CASE UNCHANGED vars
  BY <1>1, <1>11 DEF vars, sinks, thread
<1> QED
  BY <1>2, <1>3, <1>4, <1>5, <1>6, <1>7, <1>8, <1>9, <1>10, <1>11
     DEF Next, PushStep, WorkerStep, PlayAlsa, PlayWinmm, PlayMpx

-------------------------------------------------------------------------------
(* A recording is whole, and its header is true.                           *)
LEMMA RecordedStep ==
  ASSUME Typed, Covered, Covered', Threads, Recorded, [Next]_vars PROVE Recorded'
<1> USE DEF Recorded
<1>1. UNCHANGED options /\ (main = "close" => main' \in {"close", "ended"})
  <2>1. CASE OpenStep
    BY <2>1, OpenCases DEF SkipOpen, OpenFails, Opened
  <2>2. CASE CloseStep
    BY <2>2, CloseCases DEF SkipClose, StopThread, Join, NextToClose
  <2>3. CASE StartBlock \/ Quit \/ ClearRealtimeQueue \/ PushStep
    BY <2>3 DEF StartBlock, Quit, ClearRealtimeQueue, PushStep, Push, SkipPush
  <2>4. ASSUME NEW s \in Sinks, WorkerStep(s) \/ PrepareFails(s)
        PROVE  UNCHANGED <<options, main>>
    BY <2>4 DEF WorkerStep, TakeChunk, ExitThread, WriteData, PlayAlsa, PlayWinmm, PlayMpx,
       Play, PrepareFails
  <2>5. CASE RenderSpeaker \/ RenderMpx
    BY <2>5 DEF RenderSpeaker, RenderMpx, Render
  <2> QED BY <2>1, <2>2, <2>3, <2>4, <2>5 DEF Next, vars
<1>2. ASSUME NEW t \in Files, handle'[t] = handle[t], running'[t] = running[t],
             worker'[t] = worker[t], ring'[t] = ring[t], size'[t] = size[t],
             header'[t] = header[t], headers'[t] = headers[t], fatal'[t] = fatal[t],
             out'[t] = out[t]
      PROVE  RecordedIn(t)'
  <2>1. handle'[t] = "open" => main' # "ended"
    BY DEF Covered, Files, Sinks
  <2>2. main' # "close" => main # "close" \/ handle'[t] # "open"
    BY <1>1, <2>1
  <2> QED BY <1>1, <1>2, <2>2 DEF RecordedIn, Seekable
<1>3. ASSUME UNCHANGED <<handle, running, worker, ring, size, header, headers, fatal, out>>
      PROVE  Recorded'
  BY <1>2, <1>3
<1>4. Files \subseteq Sinks /\ "speaker" \notin Files /\ "mpxPlayer" \notin Files
  BY DEF Files, Sinks
<1>5. CASE OpenStep
  <2>1. PICK s \in Sinks :
          /\ main = "open" /\ s = Head(todo)
          /\ \/ SkipOpen(s) \/ OpenFails(s)
             \/ \E thr \in {"wait", "callback"} :
                  /\ Opened(s, thr)
                  /\ \/ s \in Files /\ thr = "wait" /\ WriteHeader(s)
                     \/ s \notin Files /\ UNCHANGED <<header, headers>>
    BY <1>5, OpenCases
  <2>2. CASE SkipOpen(s) \/ OpenFails(s)
    BY <1>3, <2>2 DEF SkipOpen, OpenFails, sinks, thread, file, flow
  <2>3. ASSUME NEW thr \in {"wait", "callback"}, Opened(s, thr),
               \/ s \in Files /\ thr = "wait" /\ WriteHeader(s)
               \/ s \notin Files /\ UNCHANGED <<header, headers>>
        PROVE  Recorded'
    <3>1. ASSUME NEW t \in Files, t # s PROVE RecordedIn(t)'
      BY <1>2, <1>4, <2>3, <3>1 DEF Opened, WriteHeader, Typed, flow
    <3>2. ASSUME s \in Files PROVE RecordedIn(s)'
      <4>1. handle[s] = "closed"
        <5>1. PICK k \in 1..4 : todo = SubSeq(OpenOrder, k, 4)
                                /\ \A i \in k..4 : handle[OpenOrder[i]] = "closed"
          BY <2>1 DEF Covered
        <5>2. s = OpenOrder[k]
          BY <2>1, <5>1 DEF OpenOrder
        <5> QED BY <5>1, <5>2
      <4>2. thr = "wait" /\ WriteHeader(s)
        BY <2>3, <3>2
      <4>3. /\ size[s] = 0 /\ headers[s] = 0 /\ size[s] = Len(out[s]) /\ size[s] <= Limit
        BY <3>2, <4>1 DEF RecordedIn
      <4>4. /\ header'[s] = (IF Seekable(s) THEN 0 ELSE Unknown) /\ headers'[s] = 1
            /\ handle'[s] = "open" /\ running'[s] /\ worker'[s] = "wait"
            /\ size'[s] = size[s] /\ out'[s] = out[s]
        <5>1. /\ header'[s] = (IF Seekable(s) THEN 0 ELSE Unknown)
              /\ headers'[s] = headers[s] + 1
          BY <4>2, <4>3 DEF WriteHeader, Typed
        <5>2. headers'[s] = 1
          BY <4>3, <5>1
        <5> QED BY <2>3, <4>2, <5>1, <5>2 DEF Opened, Typed, flow
      <4> QED BY <1>1, <4>3, <4>4 DEF RecordedIn, Seekable
    <3> QED BY <3>1, <3>2
  <2> QED BY <2>1, <2>2, <2>3
<1>6. CASE StartBlock \/ Quit
  BY <1>3, <1>6 DEF StartBlock, Quit, sinks, thread, file, flow
<1>7. CASE ClearRealtimeQueue
  BY <1>2, <1>4, <1>7 DEF ClearRealtimeQueue, Typed, thread, file
<1>8. ASSUME NEW s \in Sinks, Push(s) PROVE Recorded'
  <2>1. UNCHANGED <<handle, running, worker, chunk, size, header, headers, fatal, out>>
    BY <1>8 DEF Push, thread, file
  <2>2. ASSUME NEW t \in Files, t # s PROVE RecordedIn(t)'
    <3>1. ring'[t] = ring[t]
      BY <1>4, <1>8, <2>2 DEF Push, Typed
    <3> QED BY <1>2, <2>1, <3>1
  <2>3. ASSUME s \in Files PROVE RecordedIn(s)'
    <3>1. handle[s] = "open" /\ main = "push" /\ running[s] /\ RecordedIn(s)
      BY <1>8, <2>3 DEF Push, RecordedIn
    <3> QED BY <1>1, <2>1, <3>1 DEF RecordedIn, Seekable
  <2> QED BY <2>2, <2>3
<1>9. ASSUME NEW s \in Sinks, SkipPush(s) PROVE Recorded'
  BY <1>3, <1>9 DEF SkipPush, sinks, thread, file, flow
<1>10. CASE CloseStep
  <2>1. PICK s \in Sinks : main = "close" /\ (SkipClose(s) \/ StopThread(s) \/ Join(s))
    BY <1>10, CloseCases
  <2>2. CASE SkipClose(s)
    BY <1>3, <2>2 DEF SkipClose, sinks, thread, file, flow
  <2>3. CASE StopThread(s)
    <3>1. ASSUME NEW t \in Files, t # s PROVE RecordedIn(t)'
      BY <1>2, <1>4, <2>3, <3>1 DEF StopThread, Typed, file, flow
    <3>2. ASSUME s \in Files PROVE RecordedIn(s)'
      <4>1. /\ UNCHANGED <<main, handle, worker, chunk, ring, size, header, headers, fatal, out>>
            /\ running[s] /\ RecordedIn(s) /\ main' = "close"
        BY <2>1, <2>3, <3>2 DEF StopThread, file, flow
      <4> QED BY <1>1, <4>1 DEF RecordedIn, Seekable
    <3> QED BY <3>1, <3>2
  <2>4. CASE Join(s)
    <3>1. ASSUME NEW t \in Files, t # s PROVE RecordedIn(t)'
      BY <1>2, <1>4, <2>4, <3>1 DEF Join, FinalHeader, WriteHeader, Typed, flow
    <3>2. ASSUME s \in Files PROVE RecordedIn(s)'
      <4>1. /\ UNCHANGED <<running, ring, chunk, size, fatal, out>>
            /\ handle[s] = "open" /\ handle'[s] = "ended" /\ worker'[s] = "none"
            /\ worker[s] \in {"done", "callback"} /\ RecordedIn(s)
        BY <2>4, <3>2 DEF Join, Typed, flow
      <4>2. fatal[s] \/ ring[s] = <<>>
        BY <4>1 DEF RecordedIn
      <4>3. Seekable(s) => header'[s] \in {size[s], Torn}
        BY <2>4, <3>2 DEF Join, FinalHeader, WriteHeader, Typed
      <4>4. ~Seekable(s) => header'[s] = header[s] /\ headers'[s] = headers[s]
        BY <2>4 DEF Join
      <4> QED BY <1>1, <4>1, <4>2, <4>3, <4>4 DEF RecordedIn, Seekable
    <3> QED BY <3>1, <3>2
  <2> QED BY <2>1, <2>2, <2>3, <2>4
<1>11. ASSUME NEW s \in Sinks, TakeChunk(s) PROVE Recorded'
  <2>1. ASSUME NEW t \in Files, t # s PROVE RecordedIn(t)'
    BY <1>2, <1>4, <1>11, <2>1 DEF TakeChunk, Take, Typed, file, flow
  <2>2. ASSUME s \in Files PROVE RecordedIn(s)'
    <3>1. /\ UNCHANGED <<main, handle, running, size, header, headers, fatal, out>>
          /\ worker[s] = "wait" /\ worker'[s] = "write" /\ RecordedIn(s)
          /\ handle[s] = "open"
      BY <1>4, <1>11, <2>2 DEF TakeChunk, Take, Typed, Threads, file, flow
    <3> QED BY <1>1, <3>1 DEF RecordedIn, Seekable
  <2> QED BY <2>1, <2>2
<1>12. ASSUME NEW s \in Sinks, ExitThread(s) PROVE Recorded'
  <2>1. ASSUME NEW t \in Files, t # s PROVE RecordedIn(t)'
    BY <1>2, <1>4, <1>12, <2>1 DEF ExitThread, Typed, file, flow
  <2>2. ASSUME s \in Files PROVE RecordedIn(s)'
    <3>1. /\ UNCHANGED <<main, handle, running, ring, size, header, headers, fatal, out>>
          /\ worker'[s] = "done" /\ ~running[s] /\ ring[s] = <<>> /\ RecordedIn(s)
      BY <1>4, <1>12, <2>2 DEF ExitThread, Typed, file, flow
    <3> QED BY <1>1, <3>1 DEF RecordedIn, Seekable
  <2> QED BY <2>1, <2>2
<1>13. ASSUME NEW s \in Sinks, WriteData(s) PROVE Recorded'
  <2>1. /\ s \in Files /\ worker[s] = "write" /\ RecordedIn(s) /\ handle[s] = "open"
        /\ UNCHANGED <<main, handle, running, ring, header, headers>>
    BY <1>13 DEF WriteData, Threads
  <2>2. /\ out[s] \in Seq(Nat) /\ chunk[s] \in Seq(Nat) /\ Len(out[s]) \in Nat
        /\ Len(chunk[s]) \in Nat /\ size[s] = Len(out[s]) /\ size[s] <= Limit
        /\ Limit \in Nat
    BY <2>1, Bounds, Members DEF Typed, RecordedIn
  <2>3. ASSUME NEW c \in Seq(Nat), size[s] + Len(c) <= Limit,
               out' = [out EXCEPT ![s] = out[s] \o c],
               size' = [size EXCEPT ![s] = size[s] + Len(c)],
               \/ worker' = [worker EXCEPT ![s] = "wait"] /\ UNCHANGED fatal
               \/ /\ worker' = [worker EXCEPT ![s] = "done"]
                  /\ fatal' = [fatal EXCEPT ![s] = TRUE]
        PROVE  Recorded'
    <3>1. ASSUME NEW t \in Files, t # s PROVE RecordedIn(t)'
      BY <1>2, <1>4, <2>1, <2>3, <3>1 DEF Typed
    <3>2. RecordedIn(s)'
      <4>1. /\ out'[s] = out[s] \o c /\ size'[s] = size[s] + Len(c)
            /\ \/ worker'[s] = "wait" /\ fatal'[s] = fatal[s]
               \/ worker'[s] = "done" /\ fatal'[s]
        BY <2>1, <2>3 DEF Typed, Files, Sinks
      <4>2. size'[s] = Len(out'[s]) /\ size'[s] <= Limit
        <5>1. Len(out[s] \o c) = Len(out[s]) + Len(c) /\ Len(c) \in Nat
          BY <2>2, <2>3, ConcatProperties, Members
        <5> QED BY <2>2, <2>3, <4>1, <5>1
      <4> QED BY <1>1, <2>1, <4>1, <4>2 DEF RecordedIn, Seekable
    <3> QED BY <3>1, <3>2
  <2>4. CASE /\ Fits(s)
             /\ out' = [out EXCEPT ![s] = @ \o chunk[s]]
             /\ size' = [size EXCEPT ![s] = @ + Len(chunk[s])]
             /\ worker' = [worker EXCEPT ![s] = "wait"] /\ UNCHANGED fatal
    BY <2>2, <2>3, <2>4 DEF Fits
  <2>5. ASSUME NEW n \in 0..Len(chunk[s]), GaveUp(s, n), size[s] + n <= Limit PROVE Recorded'
    <3> DEFINE c == SubSeq(chunk[s], 1, n)
    <3>1. c \in Seq(Nat) /\ Len(c) = n
      BY <2>2, CutSorted
    <3>2. /\ out' = [out EXCEPT ![s] = out[s] \o c]
          /\ size' = [size EXCEPT ![s] = size[s] + Len(c)]
          /\ worker' = [worker EXCEPT ![s] = "done"] /\ fatal' = [fatal EXCEPT ![s] = TRUE]
      BY <2>5, <3>1 DEF GaveUp
    <3> HIDE DEF c
    <3> QED BY <2>3, <2>5, <3>1, <3>2
  <2>6. CASE Fits(s) /\ \E n \in 0..(Len(chunk[s]) - 1) : GaveUp(s, n)
    <3>1. PICK n \in 0..(Len(chunk[s]) - 1) : GaveUp(s, n)
      BY <2>6
    <3>2. n \in 0..Len(chunk[s]) /\ size[s] + n <= Limit
      <4>1. size[s] + Len(chunk[s]) <= Limit
        BY <2>6 DEF Fits
      <4>2. size[s] \in Nat /\ Len(chunk[s]) \in Nat /\ Limit \in Nat
        BY <2>2
      <4>3. \A a, b, l \in Nat : \A m \in 0..(b - 1) :
              a + b <= l => m \in 0..b /\ a + m <= l
        OBVIOUS
      <4> QED BY <4>1, <4>2, <4>3
    <3> QED BY <2>5, <3>1, <3>2
  <2>7. CASE GaveUp(s, 0)
    BY <2>2, <2>5, <2>7
  <2> QED BY <1>13, <2>4, <2>6, <2>7 DEF WriteData
<1>14. ASSUME NEW s \in Sinks \ Files, Play(s) \/ PrepareFails(s) PROVE Recorded'
  <2>1. ASSUME NEW t \in Files PROVE RecordedIn(t)'
    BY <1>2, <1>4, <1>14, <2>1 DEF Play, PrepareFails, Typed, file, flow
  <2> QED BY <2>1
<1>15. ASSUME NEW s \in Sinks \ Files, NEW n, Render(s, n) PROVE Recorded'
  <2>1. ASSUME NEW t \in Files PROVE RecordedIn(t)'
    BY <1>2, <1>4, <1>15, <2>1 DEF Render, Typed, thread, file
  <2> QED BY <2>1
<1>16. CASE RenderSpeaker \/ RenderMpx
  BY <1>4, <1>15, <1>16 DEF RenderSpeaker, RenderMpx, Sinks
<1>17. ASSUME NEW s \in Sinks, PlayAlsa(s) \/ PlayWinmm(s) \/ PlayMpx(s) \/ PrepareFails(s)
       PROVE  Recorded'
  BY <1>4, <1>14, <1>17 DEF PlayAlsa, PlayWinmm, PlayMpx, PrepareFails
<1>18. CASE UNCHANGED vars
  BY <1>3, <1>18 DEF vars, sinks, thread, file, flow
<1> QED
  BY <1>5, <1>6, <1>7, <1>8, <1>9, <1>10, <1>11, <1>12, <1>13, <1>16, <1>17, <1>18
     DEF Next, PushStep, WorkerStep

-------------------------------------------------------------------------------
LEMMA Started == Init => Covered /\ Threads /\ Recorded /\ Streams /\ Frames
<1> SUFFICES ASSUME Init PROVE Covered /\ Threads /\ Recorded /\ Streams /\ Frames
  OBVIOUS
<1>1. Covered
  <2>1. main = "open" /\ todo = SubSeq(OpenOrder, 1, 4)
    BY DEF Init, OpenOrder
  <2>2. \A i \in 1..4 : handle[OpenOrder[i]] = "closed"
    BY DEF Init, OpenOrder, Sinks
  <2> QED BY <2>1, <2>2 DEF Covered
<1>2. Threads
  BY DEF Init, Threads
<1>3. Recorded
  BY Bounds, Nothing DEF Init, Recorded, RecordedIn, Files, Sinks
<1>4. Streams
  <2>1. Stream(<<>>, <<>>, <<>>, {}, 0)
    BY Nothing DEF Stream, Before
  <2> QED BY <2>1 DEF Init, Streams
<1>5. Frames
  BY Nothing DEF Init, Frames, Stereo, Sinks
<1> QED BY <1>1, <1>2, <1>3, <1>4, <1>5

LEMMA IInvHolds == Spec => []IInv
<1>1. Init => IInv
  BY TypedInit, Started DEF IInv
<1>2. IInv /\ [Next]_vars => IInv'
  BY TypedStep, CoveredStep, ThreadsStep, RecordedStep, StreamsStep, FramesStep DEF IInv
<1> QED BY <1>1, <1>2, PTL DEF Spec

-------------------------------------------------------------------------------
(* Every sample the main loop offered to a sink is in its file or with its *)
(* device, in the hands of its thread, in its ring, or was dropped, exactly*)
(* one of these and in order, and the two channels of stereo never come    *)
(* apart: whatever the rings of AudioOutput, WavWriter and MpxAudioOutput  *)
(* drop when they are full, a retune clears or a write loses.              *)
THEOREM NoSampleUnseen == Spec => []StreamKept
<1>1. ASSUME IInv PROVE StreamKept
  <2> SUFFICES ASSUME NEW s \in Sinks
               PROVE  LET kept == out[s] \o chunk[s] \o ring[s]
                      IN /\ Ascending(kept)
                         /\ ToSet(kept) \cup lost[s] = 1..fed[s]
                         /\ ToSet(kept) \cap lost[s] = {}
                         /\ s \in Stereo => /\ WholeFrames(ring[s]) /\ WholeFrames(chunk[s])
                                           /\ (WholeFrames(out[s]) \/ fatal[s])
    BY DEF StreamKept
  <2>1. /\ out[s] \in Seq(Nat) /\ chunk[s] \in Seq(Nat) /\ ring[s] \in Seq(Nat)
        /\ Stream(out[s], chunk[s], ring[s], lost[s], fed[s])
    BY <1>1 DEF IInv, Typed, Streams
  <2> DEFINE gone == out[s] \o chunk[s]
             kept == gone \o ring[s]
  <2>2. gone \in Seq(Nat) /\ ToSet(gone) = ToSet(out[s]) \cup ToSet(chunk[s]) /\ Sorted(gone)
    BY <2>1, JoinSorted DEF Stream
  <2> HIDE DEF gone
  <2>3. Before(gone, ring[s])
    BY <2>1, <2>2 DEF Stream, Before
  <2>4. kept \in Seq(Nat) /\ ToSet(kept) = ToSet(gone) \cup ToSet(ring[s]) /\ Sorted(kept)
    BY <2>1, <2>2, <2>3, JoinSorted DEF Stream
  <2> HIDE DEF kept
  <2>5. Ascending(kept)
    BY <2>4, SortedAscends
  <2>6. ToSet(kept) \cup lost[s] = 1..fed[s] /\ ToSet(kept) \cap lost[s] = {}
    BY <2>1, <2>2, <2>4 DEF Stream
  <2>7. s \in Stereo => /\ WholeFrames(ring[s]) /\ WholeFrames(chunk[s])
                        /\ (WholeFrames(out[s]) \/ fatal[s])
    BY <1>1 DEF IInv, Frames
  <2> QED BY <2>5, <2>6, <2>7 DEF kept, gone
<1> QED BY <1>1, IInvHolds, PTL

(* A recording that was closed (AudioOutput::shutdown, WavWriter::stop)    *)
(* holds every sample that was still waiting, unless its writer had given  *)
(* up after a failed or an overlong write; a header that can be patched    *)
(* announces exactly what the file holds, or the patch failed half-way, and*)
(* a pipe got one header only.                                             *)
THEOREM RecordingsTrue == Spec => []RecordingTrue
<1>1. ASSUME IInv PROVE RecordingTrue
  <2> SUFFICES ASSUME NEW s \in Files, handle[s] = "ended"
               PROVE  /\ ~fatal[s] => ring[s] = <<>> /\ chunk[s] = <<>>
                      /\ header[s] \in {Len(out[s]), Torn, Unknown} /\ Len(out[s]) <= Limit
                      /\ (header[s] = Unknown) <=> ~Seekable(s)
                      /\ ~Seekable(s) => headers[s] = 1
    BY DEF RecordingTrue
  <2>1. s \in Sinks /\ RecordedIn(s) /\ chunk[s] = <<>>
    <3>1. s \in Sinks
      BY DEF Files, Sinks
    <3>2. worker[s] = "none"
      BY <1>1, <3>1 DEF IInv, Threads, Typed
    <3> QED BY <1>1, <3>1, <3>2 DEF IInv, Threads, Recorded
  <2>2. Len(out[s]) \in Nat
    BY <1>1, <2>1 DEF IInv, Typed
  <2>3. Unknown # Torn /\ Unknown \notin Nat
    BY DEF Unknown, Torn
  <2>4. size[s] = Len(out[s]) /\ Len(out[s]) <= Limit
    BY <2>1 DEF RecordedIn
  <2>5. CASE Seekable(s)
    <3>1. header[s] \in {Len(out[s]), Torn}
      BY <2>1, <2>4, <2>5 DEF RecordedIn
    <3>2. header[s] # Unknown
      BY <2>2, <2>3, <3>1
    <3> QED BY <2>1, <2>4, <2>5, <3>1, <3>2 DEF RecordedIn
  <2>6. CASE ~Seekable(s)
    BY <2>1, <2>4, <2>6 DEF RecordedIn
  <2> QED BY <2>5, <2>6
<1> QED BY <1>1, IInvHolds, PTL

(* However the program ends, after a start that failed half-way as well,   *)
(* every file and device it has opened is closed and every thread joined.  *)
THEOREM AllClosed == Spec => []NothingLeftOpen
<1>1. IInv => NothingLeftOpen
  BY DEF IInv, Covered, Threads, NothingLeftOpen
<1> QED BY <1>1, IInvHolds, PTL
===============================================================================
