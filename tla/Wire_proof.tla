------------------------------ MODULE Wire_proof ------------------------------
(***************************************************************************)
(* Theorems about Wire, for every stream, every way TCP cuts it and every  *)
(* limit.                                                                  *)
(***************************************************************************)
EXTENDS Wire, SequenceTheorems, FiniteSetTheorems, WellFoundedInduction, TLAPS

Bytes == Seq(STRING)

LEMMA Sizes ==
  /\ Chunk \in Nat \ {0} /\ LineLimit \in Nat \ {0} /\ RequestLimit \in Nat \ {0}
  /\ HandshakeMax \in Nat \ {0} /\ LoginMax \in Nat \ {0}
  /\ Chunk < LineLimit
BY WireAssumption

-------------------------------------------------------------------------------
(* Sequences of bytes: what a slice and a first occurrence are.            *)
LEMMA BytesType ==
  ASSUME NEW s \in Bytes
  PROVE  /\ Len(s) \in Nat /\ DOMAIN s = 1..Len(s)
         /\ \A i \in 1..Len(s) : s[i] \in STRING
         /\ ToSet(s) = {s[i] : i \in 1..Len(s)}
         /\ Len(s) = 0 <=> s = <<>>
<1>1. Len(s) \in Nat /\ DOMAIN s = 1..Len(s)
  BY LenProperties DEF Bytes
<1>2. \A i \in 1..Len(s) : s[i] \in STRING
  BY ElementOfSeq DEF Bytes
<1>3. Len(s) = 0 <=> s = <<>>
  BY EmptySeq DEF Bytes
<1> QED
  BY <1>1, <1>2, <1>3 DEF ToSet

LEMMA Slice ==
  ASSUME NEW s \in Bytes, NEW a \in Nat, NEW b \in Nat, a <= b, b <= Len(s)
  PROVE  /\ SubSeq(s, a + 1, b) \in Bytes
         /\ Len(SubSeq(s, a + 1, b)) = b - a
         /\ \A i \in 1..(b - a) : SubSeq(s, a + 1, b)[i] = s[a + i]
<1>1. \A i \in (a + 1)..b : s[i] \in STRING
  BY BytesType
<1>2. /\ SubSeq(s, a + 1, b) \in Bytes
      /\ Len(SubSeq(s, a + 1, b)) = IF a + 1 <= b THEN (b - (a + 1)) + 1 ELSE 0
      /\ \A i \in 1..((b - (a + 1)) + 1) : SubSeq(s, a + 1, b)[i] = s[((a + 1) + i) - 1]
  BY <1>1, SubSeqProperties DEF Bytes
<1>3. (b - (a + 1)) + 1 = b - a /\ (~(a + 1 <= b) => b - a = 0)
  OBVIOUS
<1>4. \A i \in 1..(b - a) : ((a + 1) + i) - 1 = a + i
  OBVIOUS
<1> QED
  BY <1>2, <1>3, <1>4

LEMMA SameBytes ==
  ASSUME NEW s \in Bytes, NEW t \in Bytes, Len(s) = Len(t),
         \A i \in 1..Len(s) : s[i] = t[i]
  PROVE  s = t
BY SeqEqual DEF Bytes

LEMMA Least ==
  ASSUME NEW T \in SUBSET Nat, T # {}
  PROVE  \E k \in T : \A n \in T : k <= n
<1>1. PICK k \in T : \A n \in T : ~(<<n, k>> \in OpToRel(<, Nat))
  BY NatLessThanWellFounded, WFMin
<1>2. \A n \in T : ~(n < k)
  BY <1>1 DEF OpToRel
<1> QED
  BY <1>2

LEMMA FindFirst ==
  ASSUME NEW s \in Bytes, NEW b, b \in ToSet(s)
  PROVE  /\ Find(b, s) \in 1..Len(s) /\ s[Find(b, s)] = b
         /\ \A i \in 1..Len(s) : s[i] = b => Find(b, s) <= i
<1> DEFINE I == {i \in 1..Len(s) : s[i] = b}
<1>1. Len(s) \in Nat /\ I \in SUBSET Nat /\ I # {}
  BY BytesType
<1>2. \E k \in I : \A n \in I : k <= n
  BY <1>1, Least
<1>3. Find(b, s) = CHOOSE k \in I : \A n \in I : k <= n
  BY <1>1 DEF Find, SelectInSeq, Min
<1> QED
  BY <1>2, <1>3

LEMMA FindIs ==
  ASSUME NEW s \in Bytes, NEW b, NEW k \in 1..Len(s), s[k] = b,
         \A i \in 1..Len(s) : s[i] = b => k <= i
  PROVE  b \in ToSet(s) /\ Find(b, s) = k
<1>1. b \in ToSet(s) /\ Len(s) \in Nat
  BY BytesType
<1> QED
  BY <1>1, FindFirst

-------------------------------------------------------------------------------
(* The positions of a set in their order.                                  *)
UpToPos(P, i) == {j \in P : j <= i}

LEMMA Counted ==
  ASSUME NEW n \in Nat, NEW P \in SUBSET (1..n), NEW i \in Nat
  PROVE  /\ IsFiniteSet(UpToPos(P, i)) /\ Cardinality(UpToPos(P, i)) \in Nat
         /\ IsFiniteSet(P) /\ Cardinality(P) \in Nat
         /\ Cardinality(UpToPos(P, i)) <= Cardinality(P)
         /\ i >= n => UpToPos(P, i) = P
<1>1. IsFiniteSet(1..n)
  BY FS_Interval
<1>2. IsFiniteSet(P)
  BY <1>1, FS_Subset
<1>3. UpToPos(P, i) \in SUBSET P
  BY DEF UpToPos
<1>4. IsFiniteSet(UpToPos(P, i)) /\ Cardinality(UpToPos(P, i)) <= Cardinality(P)
  BY <1>2, <1>3, FS_Subset
<1>5. ASSUME i >= n PROVE UpToPos(P, i) = P
  <2>1. \A j \in P : j <= i
    BY <1>5
  <2> QED
    BY <2>1 DEF UpToPos
<1> QED
  BY <1>2, <1>4, <1>5, FS_CardinalityType

(* A position more counts one more, if it is of the set.                   *)
LEMMA CountNext ==
  ASSUME NEW n \in Nat, NEW P \in SUBSET (1..n), NEW i \in Nat
  PROVE  Cardinality(UpToPos(P, i + 1)) =
           IF i + 1 \in P THEN Cardinality(UpToPos(P, i)) + 1
                          ELSE Cardinality(UpToPos(P, i))
<1>1. IsFiniteSet(UpToPos(P, i)) /\ Cardinality(UpToPos(P, i)) \in Nat
  BY Counted
<1>2. i + 1 \notin UpToPos(P, i)
  BY DEF UpToPos
<1>3. CASE i + 1 \in P
  <2>1. UpToPos(P, i + 1) = UpToPos(P, i) \cup {i + 1}
    <3>1. \A j \in P : j <= i + 1 <=> (j <= i \/ j = i + 1)
      OBVIOUS
    <3>2. i + 1 <= i + 1
      OBVIOUS
    <3> QED
      BY <1>3, <3>1, <3>2 DEF UpToPos
  <2> QED
    BY <1>1, <1>2, <1>3, <2>1, FS_AddElement
<1>4. CASE i + 1 \notin P
  <2>1. UpToPos(P, i + 1) = UpToPos(P, i)
    <3>1. \A j \in P : j # i + 1 => (j <= i + 1 <=> j <= i)
      OBVIOUS
    <3> QED
      BY <1>4, <3>1 DEF UpToPos
  <2> QED
    BY <1>4, <2>1
<1> QED
  BY <1>3, <1>4

(* Between two positions without one of the set nothing is counted.        *)
LEMMA CountSame ==
  ASSUME NEW P \in SUBSET Nat, NEW i \in Nat, NEW k \in Nat, i <= k,
         \A j \in P : ~(i < j /\ j <= k)
  PROVE  UpToPos(P, i) = UpToPos(P, k)
<1>1. \A j \in P : j \in Nat
  OBVIOUS
<1>2. \A j \in P : j <= i <=> j <= k
  BY <1>1
<1> QED
  BY <1>2 DEF UpToPos

LEMMA CountLess ==
  ASSUME NEW n \in Nat, NEW P \in SUBSET (1..n), NEW i \in Nat, NEW k \in P, i < k
  PROVE  Cardinality(UpToPos(P, i)) < Cardinality(UpToPos(P, k))
<1>0. k \in Nat
  OBVIOUS
<1>1. UpToPos(P, i) \in SUBSET UpToPos(P, k)
  <2>1. \A j \in P : j <= i => j <= k
    OBVIOUS
  <2> QED
    BY <2>1 DEF UpToPos
<1>2. k \in UpToPos(P, k) /\ k \notin UpToPos(P, i)
  BY <1>0 DEF UpToPos
<1>3. IsFiniteSet(UpToPos(P, k)) /\ Cardinality(UpToPos(P, k)) \in Nat
      /\ Cardinality(UpToPos(P, i)) \in Nat
  BY <1>0, Counted
<1>4. Cardinality(UpToPos(P, i)) <= Cardinality(UpToPos(P, k))
      /\ (Cardinality(UpToPos(P, k)) = Cardinality(UpToPos(P, i)) =>
            UpToPos(P, k) = UpToPos(P, i))
  BY <1>1, <1>3, FS_Subset
<1> QED
  BY <1>2, <1>3, <1>4

LEMMA NthIs ==
  ASSUME NEW n \in Nat, NEW P \in SUBSET (1..n), NEW i \in P
  PROVE  Nth(P, Cardinality(UpToPos(P, i))) = i
<1> DEFINE c == Cardinality(UpToPos(P, i))
<1>1. \A k \in P : Cardinality(UpToPos(P, k)) = c => k = i
  <2> TAKE k \in P
  <2>1. k \in Nat /\ i \in Nat /\ c \in Nat /\ Cardinality(UpToPos(P, k)) \in Nat
    BY Counted
  <2>2. CASE k < i
    <3>1. Cardinality(UpToPos(P, k)) < c
      BY <2>1, <2>2, CountLess
    <3> QED
      BY <2>1, <3>1
  <2>3. CASE i < k
    <3>1. c < Cardinality(UpToPos(P, k))
      BY <2>1, <2>3, CountLess
    <3> QED
      BY <2>1, <3>1
  <2> QED
    BY <2>1, <2>2, <2>3
<1>2. Nth(P, c) = CHOOSE k \in P : Cardinality(UpToPos(P, k)) = c
  BY DEF Nth, UpToPos
<1> QED
  BY <1>1, <1>2

LEMMA NthExists ==
  ASSUME NEW n \in Nat, NEW P \in SUBSET (1..n), NEW k \in 1..Cardinality(P)
  PROVE  Nth(P, k) \in P /\ Cardinality(UpToPos(P, Nth(P, k))) = k
<1>1. Cardinality(P) \in Nat /\ UpToPos(P, n) = P
  BY Counted
<1> DEFINE T == {m \in Nat : Cardinality(UpToPos(P, m)) >= k}
<1>2. n \in T
  BY <1>1
<1>3. PICK m \in T : \A j \in T : m <= j
  BY <1>2, Least
<1>4. m # 0
  <2>1. UpToPos(P, 0) = {}
    <3>1. \A j \in P : ~(j <= 0)
      OBVIOUS
    <3> QED
      BY <3>1 DEF UpToPos
  <2>2. Cardinality(UpToPos(P, 0)) = 0
    BY <2>1, FS_EmptySet
  <2> QED
    BY <1>1, <1>3, <2>2
<1>5. m - 1 \in Nat /\ m - 1 \notin T /\ (m - 1) + 1 = m
  BY <1>3, <1>4
<1>6. Cardinality(UpToPos(P, m - 1)) \in Nat /\ Cardinality(UpToPos(P, m)) \in Nat
  BY <1>5, Counted
<1>7. Cardinality(UpToPos(P, m)) =
        IF m \in P THEN Cardinality(UpToPos(P, m - 1)) + 1
                   ELSE Cardinality(UpToPos(P, m - 1))
  BY <1>5, CountNext
<1>8. ~(Cardinality(UpToPos(P, m - 1)) >= k) /\ Cardinality(UpToPos(P, m)) >= k
  BY <1>3, <1>5
<1>9. m \in P /\ Cardinality(UpToPos(P, m)) = k
  BY <1>1, <1>6, <1>7, <1>8
<1> QED
  BY <1>9, NthIs

-------------------------------------------------------------------------------
(* What the slices of the model are.                                       *)
LEMMA RestIs ==
  ASSUME NEW s \in Bytes, NEW k \in 0..Len(s)
  PROVE  /\ Rest(s, k) \in Bytes /\ Len(Rest(s, k)) = Len(s) - k
         /\ \A i \in 1..(Len(s) - k) : Rest(s, k)[i] = s[k + i]
<1>1. Len(s) \in Nat /\ k \in Nat /\ k <= Len(s) /\ Len(s) <= Len(s)
  BY BytesType
<1> QED
  BY <1>1, Slice DEF Rest

LEMMA TrimmedIs ==
  ASSUME NEW s \in Bytes
  PROVE  Trimmed(s) \in Bytes
<1>1. CASE s # <<>>
  <2>1. Len(s) - 1 \in Nat /\ 0 <= Len(s) - 1 /\ Len(s) - 1 <= Len(s) /\ 0 + 1 = 1
    BY <1>1, BytesType
  <2>2. SubSeq(s, 1, Len(s) - 1) \in Bytes
    BY <2>1, Slice
  <2> QED
    BY <2>2 DEF Trimmed, Front
<1>2. CASE s = <<>>
  BY <1>2 DEF Trimmed
<1> QED
  BY <1>1, <1>2

LEMMA UpToNulIs ==
  ASSUME NEW s \in Bytes
  PROVE  /\ UpToNul(s) \in Bytes /\ Len(UpToNul(s)) \in 0..Len(s)
         /\ "nul" \notin ToSet(s) => UpToNul(s) = s
<1>1. Len(s) \in Nat
  BY BytesType
<1>2. CASE "nul" \in ToSet(s)
  <2>1. PICK k \in 1..Len(s) : k = Find("nul", s)
    BY <1>2, FindFirst
  <2>2. k - 1 \in Nat /\ 0 <= k - 1 /\ k - 1 <= Len(s) /\ (k - 1) - 0 = k - 1 /\ 0 + 1 = 1
    BY <1>1
  <2>3. SubSeq(s, 1, k - 1) \in Bytes /\ Len(SubSeq(s, 1, k - 1)) = k - 1
    BY <1>1, <2>2, Slice
  <2> QED
    BY <1>2, <2>1, <2>2, <2>3 DEF UpToNul
<1>3. CASE "nul" \notin ToSet(s)
  BY <1>1, <1>3 DEF UpToNul
<1> QED
  BY <1>2, <1>3

LEMMA LineIs ==
  ASSUME buffer \in Bytes, WholeLine
  PROVE  /\ Line \in Bytes /\ Rest(buffer, Find("nl", buffer)) \in Bytes
         /\ Find("nl", buffer) \in 1..Len(buffer)
<1>1. PICK k \in 1..Len(buffer) : k = Find("nl", buffer)
  BY FindFirst DEF WholeLine
<1>2. Len(buffer) \in Nat /\ k - 1 \in Nat /\ 0 <= k - 1 /\ k - 1 <= Len(buffer)
      /\ 0 + 1 = 1 /\ k \in 0..Len(buffer)
  BY BytesType
<1>3. SubSeq(buffer, 1, k - 1) \in Bytes
  BY <1>2, Slice
<1>4. Line \in Bytes
  BY <1>1, <1>3, TrimmedIs DEF Line
<1> QED
  BY <1>1, <1>2, <1>4, RestIs

LEMMA ConcatIs ==
  ASSUME NEW s \in Bytes, NEW t \in Bytes
  PROVE  /\ s \o t \in Bytes /\ Len(s \o t) = Len(s) + Len(t)
         /\ \A i \in 1..(Len(s) + Len(t)) :
              (s \o t)[i] = IF i <= Len(s) THEN s[i] ELSE t[i - Len(s)]
BY ConcatProperties DEF Bytes

LEMMA ArrivedIs ==
  ASSUME stream \in Bytes, sent \in 0..Len(stream), at \in 0..sent
  PROVE  /\ Arrived \in Bytes /\ Len(Arrived) = sent - at
         /\ "nl" \in ToSet(Arrived) =>
              \E n \in 1..(sent - at) : n = Len(LineBytes) + 1 /\ Find("nl", Arrived) = n
<1>1. Len(stream) \in Nat /\ at \in Nat /\ sent \in Nat /\ at <= sent /\ sent <= Len(stream)
  BY BytesType
<1>2. Arrived \in Bytes /\ Len(Arrived) = sent - at
  BY <1>1, Slice DEF Arrived
<1>3. ASSUME "nl" \in ToSet(Arrived)
      PROVE  \E n \in 1..(sent - at) : n = Len(LineBytes) + 1 /\ Find("nl", Arrived) = n
  <2>1. PICK n \in 1..(sent - at) : n = Find("nl", Arrived)
    BY <1>2, <1>3, FindFirst
  <2>2. n - 1 \in Nat /\ 0 <= n - 1 /\ n - 1 <= sent - at /\ (n - 1) - 0 = n - 1 /\ 0 + 1 = 1
    BY <1>1
  <2>3. Len(SubSeq(Arrived, 1, n - 1)) = n - 1
    BY <1>2, <2>2, Slice
  <2>4. Len(LineBytes) = n - 1
    BY <1>3, <2>1, <2>3 DEF LineBytes
  <2>5. n = Len(LineBytes) + 1
    BY <1>1, <2>4
  <2> QED
    BY <2>1, <2>5
<1> QED
  BY <1>2, <1>3

-------------------------------------------------------------------------------
(* What a line or a body asks for, the callbacks handle.                   *)
Callbacks ==
  {"Y", "A", "M", "D", "F", "Z", "Q", "C", "I", "B", "V", "W", "T", "start", "stop"}
Handled == {c \in [to : Callbacks, value : Int] :
              c.to \in DOMAIN Handles => c.value \in Handles[c.to]}

LEMMA OneOrNone ==
  ASSUME NEW S, NEW T, S \in SUBSET T, S = {} \/ \E x \in T : S = {x}
  PROVE  SetToSeq(S) \in Seq(T)
<1>1. CASE S = {}
  <2>1. Cardinality(S) = 0
    BY <1>1, FS_EmptySet
  <2>2. \E f \in [1..0 -> S] : IsInjective(f)
    <3>1. [i \in 1..0 |-> 0] \in [1..0 -> S]
      OBVIOUS
    <3>2. IsInjective([i \in 1..0 |-> 0])
      BY DEF IsInjective
    <3> QED
      BY <3>1, <3>2
  <2>3. SetToSeq(S) \in [1..0 -> S]
    BY <2>1, <2>2 DEF SetToSeq
  <2>4. 0 \in Nat /\ [1..0 -> S] \subseteq [1..0 -> T]
    OBVIOUS
  <2> QED
    BY <2>3, <2>4, SeqDef
<1>2. CASE \E x \in T : S = {x}
  <2>1. PICK x \in T : S = {x}
    BY <1>2
  <2>2. Cardinality(S) = 1
    BY <2>1, FS_Singleton
  <2>3. [i \in 1..1 |-> x] \in [1..1 -> S] /\ IsInjective([i \in 1..1 |-> x])
    BY <2>1 DEF IsInjective
  <2>4. SetToSeq(S) \in [1..1 -> S]
    BY <2>2, <2>3 DEF SetToSeq
  <2>5. SetToSeq(S) \in [1..1 -> T] /\ 1 \in Nat
    BY <2>4
  <2>6. \E n \in Nat : SetToSeq(S) \in [1..n -> T]
    BY <2>5
  <2> QED
    BY <2>6, SeqDef
<1> QED
  BY <1>1, <1>2

LEMMA ValueIs ==
  ASSUME NEW line
  PROVE  Value(line) = {} \/ \E v \in {1, 999, -999} : Value(line) = {v}
<1>1. \A b \in DOMAIN Number : Number[b] \in {1, 999, -999}
  BY DEF Number
<1> QED
  BY <1>1 DEF Value

LEMMA ClampIs ==
  ASSUME NEW v \in Int, NEW low \in Int, NEW high \in Int, low <= high
  PROVE  Clamp(v, low, high) \in low..high
BY DEF Clamp

Within(range, letter) ==
  /\ range[1] \in Int /\ range[2] \in Int /\ range[1] <= range[2]
  /\ letter \in DOMAIN Handles => range[1]..range[2] \subseteq Handles[letter]

LEMMA Tables ==
  /\ DOMAIN XdrRange = {"Y", "A", "M", "D", "F", "Z", "Q", "C", "I"}
  /\ DOMAIN FmdxRange = {"A", "D", "F"}
  /\ DOMAIN Handles = {"Y", "A", "D", "F", "B", "V", "Z"}
BY DEF XdrRange, FmdxRange, Handles

LEMMA Ranges ==
  /\ \A letter \in DOMAIN XdrRange : Within(XdrRange[letter], letter)
  /\ \A letter \in DOMAIN FmdxRange : Within(FmdxRange[letter], letter)
<1>1. Within(XdrRange["Y"], "Y")
  <2>1. XdrRange["Y"][1] = 0 /\ XdrRange["Y"][2] = 100 /\ Handles["Y"] = 0..100
    BY DEF XdrRange, Handles
  <2> QED
    BY <2>1, Tables DEF Within
<1>2. Within(XdrRange["A"], "A")
  <2>1. XdrRange["A"][1] = 0 /\ XdrRange["A"][2] = 3 /\ Handles["A"] = 0..3
    BY DEF XdrRange, Handles
  <2> QED
    BY <2>1, Tables DEF Within
<1>3. Within(XdrRange["M"], "M")
  <2>1. XdrRange["M"][1] = 0 /\ XdrRange["M"][2] = 1
    BY DEF XdrRange
  <2> QED
    BY <2>1, Tables DEF Within
<1>4. Within(XdrRange["D"], "D")
  <2>1. XdrRange["D"][1] = 0 /\ XdrRange["D"][2] = 2 /\ Handles["D"] = 0..2
    BY DEF XdrRange, Handles
  <2> QED
    BY <2>1, Tables DEF Within
<1>5. Within(XdrRange["F"], "F")
  <2>1. XdrRange["F"][1] = 0 /\ XdrRange["F"][2] = 2 /\ Handles["F"] = 0..2
    BY DEF XdrRange, Handles
  <2> QED
    BY <2>1, Tables DEF Within
<1>6. Within(XdrRange["Z"], "Z")
  <2>1. XdrRange["Z"][1] = 0 /\ XdrRange["Z"][2] = 9 /\ Handles["Z"] = 0..9
    BY DEF XdrRange, Handles
  <2> QED
    BY <2>1, Tables DEF Within
<1>7. Within(XdrRange["Q"], "Q")
  <2>1. XdrRange["Q"][1] = 0 /\ XdrRange["Q"][2] = 100
    BY DEF XdrRange
  <2> QED
    BY <2>1, Tables DEF Within
<1>8. Within(XdrRange["C"], "C")
  <2>1. XdrRange["C"][1] = -1 /\ XdrRange["C"][2] = 1
    BY DEF XdrRange
  <2> QED
    BY <2>1, Tables DEF Within
<1>9. Within(XdrRange["I"], "I")
  <2>1. XdrRange["I"][1] = 0 /\ XdrRange["I"][2] = 1000
    BY DEF XdrRange
  <2> QED
    BY <2>1, Tables DEF Within
<1>10. Within(FmdxRange["A"], "A")
  <2>1. FmdxRange["A"][1] = 0 /\ FmdxRange["A"][2] = 2 /\ Handles["A"] = 0..3
    BY DEF FmdxRange, Handles
  <2> QED
    BY <2>1, Tables DEF Within
<1>11. Within(FmdxRange["D"], "D")
  <2>1. FmdxRange["D"][1] = 0 /\ FmdxRange["D"][2] = 2 /\ Handles["D"] = 0..2
    BY DEF FmdxRange, Handles
  <2> QED
    BY <2>1, Tables DEF Within
<1>12. Within(FmdxRange["F"], "F")
  <2>1. FmdxRange["F"][1] = 0 /\ FmdxRange["F"][2] = 2 /\ Handles["F"] = 0..2
    BY DEF FmdxRange, Handles
  <2> QED
    BY <2>1, Tables DEF Within
<1> QED
  BY <1>1, <1>2, <1>3, <1>4, <1>5, <1>6,
     <1>7, <1>8, <1>9, <1>10, <1>11, <1>12, Tables

(* A call with a value that its callback handles, or that no range limits. *)
LEMMA CallIs ==
  ASSUME NEW to \in Callbacks, NEW v \in Int, to \in DOMAIN Handles => v \in Handles[to]
  PROVE  Call(to, v) \in Handled
BY DEF Call, Handled

LEMMA NoLimit ==
  ASSUME NEW to \in {"T", "W", "start", "stop"}, NEW v \in Int
  PROVE  Call(to, v) \in Handled
<1>1. to \in Callbacks /\ to \notin DOMAIN Handles
  BY Tables DEF Callbacks
<1> QED
  BY <1>1, CallIs

LEMMA OnOff ==
  ASSUME NEW v \in Int
  PROVE  Call("B", IF v = 0 THEN 0 ELSE 1) \in Handled
<1>1. Handles["B"] = 0..1
  BY DEF Handles
<1>2. "B" \in Callbacks /\ 0 \in 0..1 /\ 1 \in 0..1 /\ 0 \in Int /\ 1 \in Int
  BY DEF Callbacks
<1>3. Call("B", 0) \in Handled /\ Call("B", 1) \in Handled
  BY <1>1, <1>2, CallIs
<1> QED
  BY <1>3

LEMMA OneCall ==
  ASSUME NEW c \in Handled
  PROVE  <<c>> \in Seq(Handled)
OBVIOUS

LEMMA XdrHandled ==
  ASSUME NEW line \in Bytes, line # <<>>
  PROVE  XdrCalls(line) \in Seq(Handled)
<1> DEFINE letter == line[1]
           arg == Value(line)
<1>1. letter \in DOMAIN XdrRange => letter \in Callbacks
  BY Tables DEF Callbacks
<1>2. arg = {} \/ \E v \in Int : arg = {v}
  BY ValueIs
<1>3. Call("start", 0) \in Handled /\ Call("stop", 0) \in Handled
  BY NoLimit
<1>4. <<Call("start", 0)>> \in Seq(Handled) /\ <<Call("stop", 0)>> \in Seq(Handled)
      /\ <<>> \in Seq(Handled)
  <2>1. <<>> \in Seq(Handled)
    OBVIOUS
  <2> QED
    BY <1>3, <2>1, OneCall
<1>5. ASSUME letter \in DOMAIN XdrRange
      PROVE  SetToSeq({Call(letter, Clamp(v, XdrRange[letter][1], XdrRange[letter][2])) :
                         v \in arg}) \in Seq(Handled)
  <2> DEFINE S == {Call(letter, Clamp(v, XdrRange[letter][1], XdrRange[letter][2])) :
                     v \in arg}
  <2>1. \A v \in Int :
          Call(letter, Clamp(v, XdrRange[letter][1], XdrRange[letter][2])) \in Handled
    <3> TAKE v \in Int
    <3>1. Within(XdrRange[letter], letter)
      BY <1>5, Ranges
    <3>2. PICK low, high \in Int :
            XdrRange[letter][1] = low /\ XdrRange[letter][2] = high
      BY <3>1 DEF Within
    <3>3. low <= high /\ (letter \in DOMAIN Handles => low..high \subseteq Handles[letter])
      BY <3>1, <3>2 DEF Within
    <3>4. Clamp(v, low, high) \in low..high /\ Clamp(v, low, high) \in Int
      BY <3>3, ClampIs
    <3>5. Call(letter, Clamp(v, low, high)) \in Handled
      BY <1>1, <1>5, <3>3, <3>4, CallIs
    <3> QED
      BY <3>2, <3>5
  <2>2. S \in SUBSET Handled /\ (S = {} \/ \E c \in Handled : S = {c})
    BY <1>2, <2>1
  <2> QED
    BY <2>2, OneOrNone
<1>6. SetToSeq({Call("V", Alignment(v)) : v \in arg}) \in Seq(Handled)
  <2>1. \A v \in Int : Call("V", Alignment(v)) \in Handled
    <3> TAKE v \in Int
    <3>1. Alignment(v) \in 0..36 /\ Alignment(v) \in Int
      BY DEF Alignment, Clamp
    <3>2. Handles["V"] = 0..36 /\ "V" \in Callbacks
      BY DEF Handles, Callbacks
    <3> QED
      BY <3>1, <3>2, CallIs
  <2>2. {Call("V", Alignment(v)) : v \in arg} \in SUBSET Handled
        /\ ({Call("V", Alignment(v)) : v \in arg} = {}
             \/ \E c \in Handled : {Call("V", Alignment(v)) : v \in arg} = {c})
    BY <1>2, <2>1
  <2> QED
    BY <2>2, OneOrNone
<1>7. SetToSeq({Call("W", v) : v \in arg}) \in Seq(Handled)
  <2>1. {Call("W", v) : v \in arg} \in SUBSET Handled
        /\ ({Call("W", v) : v \in arg} = {}
             \/ \E c \in Handled : {Call("W", v) : v \in arg} = {c})
    BY <1>2, NoLimit
  <2> QED
    BY <2>1, OneOrNone
<1>8. SetToSeq({Call("B", IF v = 0 THEN 0 ELSE 1) : v \in arg}) \in Seq(Handled)
  <2> DEFINE switch(v) == Call("B", IF v = 0 THEN 0 ELSE 1)
  <2>1. \A v \in Int : switch(v) \in Handled
    BY OnOff
  <2> HIDE DEF switch
  <2>2. {switch(v) : v \in arg} \in SUBSET Handled
        /\ ({switch(v) : v \in arg} = {}
             \/ \E c \in Handled : {switch(v) : v \in arg} = {c})
    BY <1>2, <2>1
  <2>3. SetToSeq({switch(v) : v \in arg}) \in Seq(Handled)
    BY <2>2, OneOrNone
  <2> QED
    BY <2>3 DEF switch
<1>9. SetToSeq({Call("T", v) : v \in arg \cap Band}) \in Seq(Handled)
  <2>1. arg \cap Band = {} \/ \E v \in Int : arg \cap Band = {v}
    BY <1>2
  <2>2. {Call("T", v) : v \in arg \cap Band} \in SUBSET Handled
        /\ ({Call("T", v) : v \in arg \cap Band} = {}
             \/ \E c \in Handled : {Call("T", v) : v \in arg \cap Band} = {c})
    BY <2>1, NoLimit
  <2> QED
    BY <2>2, OneOrNone
<1> QED
  BY <1>4, <1>5, <1>6, <1>7, <1>8, <1>9 DEF XdrCalls

LEMMA FmdxHandled ==
  ASSUME NEW line \in Bytes, line # <<>>
  PROVE  FmdxCalls(line) \in Seq(Handled)
<1> DEFINE letter == line[1]
           arg == Value(line)
           volume(v) == Clamp((Clamp(v, -100, 100) + 100) \div 2, 0, 100)
<1>1. letter \in DOMAIN FmdxRange => letter \in Callbacks
  BY Tables DEF Callbacks
<1>2. arg = {} \/ \E v \in Int : arg = {v}
  BY ValueIs
<1>3. ASSUME letter \in DOMAIN FmdxRange
      PROVE  SetToSeq({Call(letter, Clamp(v, FmdxRange[letter][1], FmdxRange[letter][2])) :
                         v \in arg}) \in Seq(Handled)
  <2> DEFINE S == {Call(letter, Clamp(v, FmdxRange[letter][1], FmdxRange[letter][2])) :
                     v \in arg}
  <2>1. \A v \in Int :
          Call(letter, Clamp(v, FmdxRange[letter][1], FmdxRange[letter][2])) \in Handled
    <3> TAKE v \in Int
    <3>1. Within(FmdxRange[letter], letter)
      BY <1>3, Ranges
    <3>2. PICK low, high \in Int :
            FmdxRange[letter][1] = low /\ FmdxRange[letter][2] = high
      BY <3>1 DEF Within
    <3>3. low <= high /\ (letter \in DOMAIN Handles => low..high \subseteq Handles[letter])
      BY <3>1, <3>2 DEF Within
    <3>4. Clamp(v, low, high) \in low..high /\ Clamp(v, low, high) \in Int
      BY <3>3, ClampIs
    <3>5. Call(letter, Clamp(v, low, high)) \in Handled
      BY <1>1, <1>3, <3>3, <3>4, CallIs
    <3> QED
      BY <3>2, <3>5
  <2>2. S \in SUBSET Handled /\ (S = {} \/ \E c \in Handled : S = {c})
    BY <1>2, <2>1
  <2> QED
    BY <2>2, OneOrNone
<1>4. SetToSeq({Call("Y", volume(v)) : v \in arg}) \in Seq(Handled)
  <2>1. \A v \in Int : Call("Y", volume(v)) \in Handled
    <3> TAKE v \in Int
    <3>1. volume(v) \in 0..100 /\ volume(v) \in Int
      BY DEF Clamp
    <3>2. Handles["Y"] = 0..100 /\ "Y" \in Callbacks
      BY DEF Handles, Callbacks
    <3> HIDE DEF volume
    <3> QED
      BY <3>1, <3>2, CallIs
  <2>2. {Call("Y", volume(v)) : v \in arg} \in SUBSET Handled
        /\ ({Call("Y", volume(v)) : v \in arg} = {}
             \/ \E c \in Handled : {Call("Y", volume(v)) : v \in arg} = {c})
    <3> HIDE DEF volume
    <3> QED
      BY <1>2, <2>1
  <2> QED
    BY <2>2, OneOrNone
<1>5. SetToSeq({Call("B", IF v = 0 THEN 0 ELSE 1) : v \in arg}) \in Seq(Handled)
  <2> DEFINE switch(v) == Call("B", IF v = 0 THEN 0 ELSE 1)
  <2>1. \A v \in Int : switch(v) \in Handled
    BY OnOff
  <2> HIDE DEF switch
  <2>2. {switch(v) : v \in arg} \in SUBSET Handled
        /\ ({switch(v) : v \in arg} = {}
             \/ \E c \in Handled : {switch(v) : v \in arg} = {c})
    BY <1>2, <2>1
  <2>3. SetToSeq({switch(v) : v \in arg}) \in Seq(Handled)
    BY <2>2, OneOrNone
  <2> QED
    BY <2>3 DEF switch
<1>6. ASSUME letter \in {"T", "W"} PROVE SetToSeq({Call(letter, v) : v \in arg}) \in Seq(Handled)
  <2>1. \A v \in Int : Call(letter, v) \in Handled
    BY <1>6, NoLimit
  <2>2. {Call(letter, v) : v \in arg} \in SUBSET Handled
        /\ ({Call(letter, v) : v \in arg} = {}
             \/ \E c \in Handled : {Call(letter, v) : v \in arg} = {c})
    BY <1>2, <2>1
  <2> QED
    BY <2>2, OneOrNone
<1>7. <<>> \in Seq(Handled)
  OBVIOUS
<1> QED
  BY <1>3, <1>4, <1>5, <1>6, <1>7 DEF FmdxCalls

LEMMA ParamsHandled ==
  ASSUME NEW body \in Bytes
  PROVE  applyParams(body) \in Seq(Handled)
<1> DEFINE known == {i \in 1..Len(body) :
                       body[i] \in DOMAIN Parameter /\ Accepted(Parameter[body[i]])}
           applied(c) == IF c.to = "Y" THEN Call("Y", Clamp(c.value, 0, 100)) ELSE c
<1>1. Len(body) \in Nat
  BY BytesType
<1>2. Cardinality(known) \in Nat
  BY <1>1, Counted
<1>3. \A b \in DOMAIN Parameter : Accepted(Parameter[b]) => applied(Parameter[b]) \in Handled
  <2>1. DOMAIN Parameter = {"volume9", "deemphasis1", "deemphasis9", "blend1", "blendLow",
                            "force_mono1", "start", "stop"}
    BY DEF Parameter
  <2>2. /\ Handles["Y"] = 0..100 /\ Handles["D"] = 0..2 /\ Handles["F"] = 0..2
        /\ Handles["B"] = 0..1 /\ {"Y", "D", "F", "B"} \subseteq Callbacks
        /\ 100 \in 0..100 /\ 1 \in 0..1 /\ 1 \in 0..2
    BY DEF Handles, Callbacks
  <2>3. applied(Parameter["volume9"]) = Call("Y", 100)
    BY DEF Parameter, Call, Clamp
  <2>4. Call("Y", 100) \in Handled /\ Call("D", 1) \in Handled /\ Call("F", 1) \in Handled
        /\ Call("B", 1) \in Handled
    BY <2>2, CallIs
  <2>5. Call("start", 0) \in Handled /\ Call("stop", 0) \in Handled
    BY NoLimit
  <2>6. /\ Parameter["deemphasis1"] = Call("D", 1) /\ Parameter["blend1"] = Call("F", 1)
        /\ Parameter["force_mono1"] = Call("B", 1) /\ Parameter["start"] = Call("start", 0)
        /\ Parameter["stop"] = Call("stop", 0)
    BY DEF Parameter
  <2>7. \A to \in {"D", "F", "B", "start", "stop"} : \A v : applied(Call(to, v)) = Call(to, v)
    BY DEF Call
  <2>8. ~Accepted(Parameter["deemphasis9"]) /\ ~Accepted(Parameter["blendLow"])
    BY DEF Parameter, Accepted, Call
  <2> HIDE DEF applied
  <2> QED
    BY <2>1, <2>3, <2>4, <2>5, <2>6, <2>7, <2>8
<1>4. \A k \in 1..Cardinality(known) : applied(Parameter[body[Nth(known, k)]]) \in Handled
  <2> TAKE k \in 1..Cardinality(known)
  <2>1. Nth(known, k) \in known
    BY <1>1, NthExists
  <2> QED
    BY <1>3, <2>1
<1>5. applyParams(body) = [k \in 1..Cardinality(known) |->
                             applied(Parameter[body[Nth(known, k)]])]
  BY DEF applyParams
<1> DEFINE m == Cardinality(known)
           f == [k \in 1..m |-> applied(Parameter[body[Nth(known, k)]])]
<1>6. f \in [1..m -> Handled]
  BY <1>4
<1>7. m \in Nat /\ applyParams(body) = f
  BY <1>2, <1>5
<1> HIDE DEF f, m
<1> QED
  BY <1>6, <1>7, SeqDef

-------------------------------------------------------------------------------
(* Types, and what each phase of a session has already decided.            *)
Before == {"peek", "handshake", "login"}

Typed ==
  /\ port \in {"xdr", "rest"} /\ stream \in Bytes
  /\ sent \in 0..Len(stream) /\ at \in 0..sent
  /\ buffer \in Bytes /\ begin \in Nat /\ calls \in Seq(Handled)
  /\ fmdx \in BOOLEAN /\ started \in BOOLEAN /\ cancel \in BOOLEAN

Phases ==
  /\ port = "rest" => phase \in {"header", "ended"}
  /\ port = "xdr" => phase \in Before \cup {"fmdx", "xdr", "ended"}
  /\ phase \in Before \cup {"header"} =>
       begin = 0 /\ calls = <<>> /\ ran = <<>> /\ started = FALSE
  /\ phase \in Before => at = 0 /\ buffer = <<>>
  /\ phase \in {"peek", "login"} => fmdx = FALSE
  /\ phase = "handshake" => fmdx = TRUE
  /\ CommandLoop => begin \in 1..at /\ fmdx = (phase = "fmdx")

LEMMA TypedInit == Init => Typed /\ Phases
<1> SUFFICES ASSUME Init PROVE Typed /\ Phases
  OBVIOUS
<1>1. stream \in Bytes /\ Len(stream) \in Nat
  <2>1. stream \in Bytes
    BY WireAssumption DEF Init, Bytes
  <2> QED
    BY <2>1, BytesType
<1>2. <<>> \in Bytes /\ <<>> \in Seq(Handled)
  BY DEF Bytes
<1>3. Typed
  <2>1. sent \in 0..Len(stream) /\ at \in 0..sent /\ begin \in Nat
    BY <1>1 DEF Init
  <2>2. buffer \in Bytes /\ calls \in Seq(Handled)
    BY <1>2 DEF Init
  <2>3. port \in {"xdr", "rest"} /\ fmdx \in BOOLEAN /\ started \in BOOLEAN
        /\ cancel \in BOOLEAN
    BY DEF Init
  <2> QED
    BY <1>1, <2>1, <2>2, <2>3 DEF Typed
<1>4. Phases
  BY DEF Init, Phases, Before, CommandLoop
<1> QED
  BY <1>3, <1>4

(* Steps that touch nothing of the session.                                *)
LEMMA TypedClient ==
  ASSUME Typed, Phases, Arrive \/ Close \/ Stop \/ UNCHANGED vars
  PROVE  Typed' /\ Phases'
<1>1. UNCHANGED <<port, stream, session, history>> /\ sent' \in 0..Len(stream) /\ sent <= sent'
  <2>1. Len(stream) \in Nat /\ sent \in 0..Len(stream)
    BY BytesType DEF Typed
  <2>2. CASE Arrive
    BY <2>1, <2>2 DEF Arrive
  <2>3. CASE Close
    BY <2>1, <2>3 DEF Close
  <2>4. CASE Stop
    BY <2>1, <2>4 DEF Stop, client
  <2>5. CASE UNCHANGED vars
    BY <2>1, <2>5 DEF vars, client
  <2> QED
    BY <2>2, <2>3, <2>4, <2>5
<1>2. Len(stream) \in Nat
  BY BytesType DEF Typed
<1>3. at' \in 0..sent'
  BY <1>1, <1>2 DEF Typed, session
<1>4. Typed'
  BY <1>1, <1>3 DEF Typed, session, history
<1>5. Phases'
  BY <1>1 DEF Phases, CommandLoop, session, history
<1> QED
  BY <1>4, <1>5

LEMMA TypedBefore ==
  ASSUME Typed, Phases, Peek \/ Handshake \/ Login
  PROVE  Typed' /\ Phases'
<1>1. port = "xdr" /\ phase \in Before
  BY DEF Typed, Phases, Peek, Handshake, Login, Before
<1>2. CASE Peek
  <2>1. Typed'
    BY <1>2 DEF Typed, Peek, client, history
  <2>2. Phases'
    BY <1>1, <1>2 DEF Phases, Peek, client, history, Before, CommandLoop
  <2> QED
    BY <2>1, <2>2
<1>3. CASE (Handshake \/ Login) /\ End /\ UNCHANGED history
  <2>1. UNCHANGED client
    BY <1>3 DEF Handshake, Login
  <2>2. Typed'
    BY <1>3, <2>1 DEF Typed, End, client, history
  <2>3. Phases'
    BY <1>1, <1>3, <2>1 DEF Phases, End, client, history, Before, CommandLoop
  <2> QED
    BY <2>2, <2>3
<1>4. ASSUME NEW next \in {"fmdx", "xdr"}, TakeLineThen(next), UNCHANGED client,
             "nl" \in ToSet(Arrived), fmdx = (next = "fmdx")
      PROVE  Typed' /\ Phases'
  <2>1. Len(stream) \in Nat /\ sent \in 0..Len(stream) /\ at \in 0..sent
    BY BytesType DEF Typed
  <2>2. PICK n \in 1..(sent - at) : n = Len(LineBytes) + 1
    BY <1>4, <2>1, ArrivedIs DEF Typed
  <2>3. at' = at + Len(LineBytes) + 1 /\ begin' = at'
    BY <1>4 DEF TakeLineThen
  <2>4. at = 0
    BY <1>1 DEF Phases
  <2>6. LineBytes \in Bytes
    <3>1. Arrived \in Bytes
      BY <2>1, ArrivedIs DEF Typed
    <3>2. n = Find("nl", Arrived)
      BY <1>4, <2>1, <2>2, ArrivedIs DEF Typed
    <3>3. n - 1 \in Nat /\ 0 <= n - 1 /\ n - 1 <= Len(Arrived) /\ 0 + 1 = 1
      BY <2>1, ArrivedIs DEF Typed
    <3>4. SubSeq(Arrived, 1, n - 1) \in Bytes
      BY <3>1, <3>3, Slice
    <3> QED
      BY <1>4, <3>2, <3>4 DEF LineBytes
  <2>7. at' = n /\ at' \in 1..sent
    <3>1. Len(LineBytes) \in Nat
      BY <2>6, BytesType
    <3> QED
      BY <2>1, <2>2, <2>3, <2>4, <3>1
  <2>8. Typed'
    BY <1>4, <2>1, <2>3, <2>7 DEF Typed, TakeLineThen, client
  <2>9. begin' \in 1..at'
    BY <2>1, <2>3, <2>7
  <2>10. phase' = next /\ fmdx' = fmdx /\ port' = port
    BY <1>4 DEF TakeLineThen, client
  <2>11. Phases'
    BY <1>1, <1>4, <2>9, <2>10 DEF Phases, Before, CommandLoop
  <2> QED
    BY <2>8, <2>11
<1>5. CASE Handshake /\ TakeLineThen("fmdx") /\ HasLine(HandshakeMax)
  <2>1. fmdx = TRUE
    BY <1>5 DEF Phases, Handshake
  <2> QED
    BY <1>4, <1>5, <2>1 DEF Handshake, HasLine
<1>6. CASE Login /\ TakeLineThen("xdr") /\ HasLine(LoginMax)
  <2>1. fmdx = FALSE
    BY <1>6 DEF Phases, Login
  <2> QED
    BY <1>4, <1>6, <2>1 DEF Login, HasLine
<1> QED
  BY <1>2, <1>3, <1>5, <1>6 DEF Handshake, Login

(* What one receive brings.                                                *)
LEMMA Segment ==
  ASSUME Typed, NEW n \in Nat, n <= sent - at
  PROVE  /\ SubSeq(stream, at + 1, at + n) \in Bytes
         /\ Len(SubSeq(stream, at + 1, at + n)) = n
         /\ \A i \in 1..n : SubSeq(stream, at + 1, at + n)[i] = stream[at + i]
         /\ at \in Nat /\ at + n \in 0..sent /\ at + n <= Len(stream) /\ Len(stream) \in Nat
<1>1. Len(stream) \in Nat /\ at \in 0..sent /\ sent \in 0..Len(stream)
  BY BytesType DEF Typed
<1>2. at \in Nat /\ at + n \in Nat /\ at <= at + n /\ at + n <= Len(stream)
      /\ (at + n) - at = n /\ at + n \in 0..sent
  BY <1>1
<1> QED
  BY <1>1, <1>2, Slice DEF Typed

LEMMA LeaveIs ==
  ASSUME Typed, LeaveLoop
  PROVE  /\ calls' \in Seq(Handled) /\ cancel' \in BOOLEAN /\ phase' = "ended"
         /\ fmdx' = fmdx /\ started' = started /\ begin' = begin /\ ran' = ran
<1>1. Call("stop", 0) \in Handled
  BY NoLimit
<1>2. Append(calls, Call("stop", 0)) \in Seq(Handled)
  BY <1>1, AppendProperties DEF Typed
<1> QED
  BY <1>2 DEF Typed, LeaveLoop

LEMMA TypedReceive ==
  ASSUME Typed, Phases, Receive
  PROVE  Typed' /\ Phases'
<1>1. PICK n \in 1..BufferSize :
        n <= sent - at /\ at' = at + n
        /\ buffer' = buffer \o UpToNul(SubSeq(stream, at + 1, at + n))
  BY DEF Receive
<1>2. n \in Nat
  BY Sizes DEF BufferSize
<1>3. SubSeq(stream, at + 1, at + n) \in Bytes /\ at' \in 0..sent /\ at \in Nat /\ at <= at'
  BY <1>1, <1>2, Segment
<1>4. buffer' \in Bytes
  BY <1>1, <1>3, UpToNulIs, ConcatIs DEF Typed
<1>5. UNCHANGED <<client, server>> /\ CommandLoop
  BY DEF Receive
<1>6. CASE LeaveLoop
  <2>1. Typed'
    BY <1>3, <1>4, <1>5, <1>6, LeaveIs DEF Typed, client
  <2>2. Phases'
    BY <1>5, <1>6, LeaveIs DEF Phases, Before, CommandLoop, client
  <2> QED
    BY <2>1, <2>2
<1>7. CASE UNCHANGED <<phase, fmdx, started, history>>
  <2>1. Typed'
    BY <1>3, <1>4, <1>5, <1>7 DEF Typed, client, history
  <2>2. begin \in 1..at => begin \in 1..at'
    BY <1>3, <1>1, <1>2
  <2>3. Phases'
    BY <1>5, <1>7, <2>2 DEF Phases, Before, CommandLoop, client, history
  <2> QED
    BY <2>1, <2>3
<1> QED
  BY <1>6, <1>7 DEF Receive

LEMMA TypedDisconnected ==
  ASSUME Typed, Phases, Disconnected
  PROVE  Typed' /\ Phases'
<1>1. LeaveLoop /\ UNCHANGED <<client, at, buffer>> /\ CommandLoop
  BY DEF Disconnected
<1>2. Typed'
  BY <1>1, LeaveIs DEF Typed, client
<1>3. Phases'
  BY <1>1, LeaveIs DEF Phases, Before, CommandLoop, client
<1> QED
  BY <1>2, <1>3

(* An executed line leaves a session in its loop, or ends it.              *)
LEMMA ExecutesIs ==
  ASSUME Typed, Phases, CommandLoop, Line \in Bytes, XdrExecutes \/ FmdxExecutes
  PROVE  /\ calls' \in Seq(Handled) /\ cancel' \in BOOLEAN /\ started' \in BOOLEAN
         /\ fmdx' = fmdx /\ begin' = begin /\ phase' \in {phase, "ended"}
<1>1. Call("stop", 0) \in Handled /\ Call("start", 0) \in Handled
  BY NoLimit
<1>2. CASE XdrExecutes
  <2>1. calls' \in Seq(Handled)
    <3>1. CASE Line = <<>>
      BY <1>2, <3>1 DEF XdrExecutes, Typed
    <3>2. CASE Line # <<>>
      <4>1. XdrCalls(Line) \in Seq(Handled)
        BY <3>2, XdrHandled
      <4>2. calls \o XdrCalls(Line) \in Seq(Handled)
        BY <4>1, ConcatProperties DEF Typed
      <4> QED
        BY <1>2, <3>2, <4>2 DEF XdrExecutes
    <3> QED
      BY <3>1, <3>2
  <2>2. cancel' \in BOOLEAN
    BY <1>2 DEF XdrExecutes, Typed
  <2> QED
    BY <1>2, <2>1, <2>2 DEF XdrExecutes, Typed
<1>3. CASE FmdxExecutes
  <2> DEFINE asked == CASE Line = <<"x">> -> <<Call("start", 0)>>
                        [] Line = <<"X">> -> <<Call("stop", 0)>>
                        [] started /\ Line \notin {<<"x">>, <<"X">>, <<>>} -> FmdxCalls(Line)
                        [] OTHER -> <<>>
             did == calls \o asked
  <2>1. asked \in Seq(Handled)
    <3>1. <<Call("start", 0)>> \in Seq(Handled) /\ <<Call("stop", 0)>> \in Seq(Handled)
      BY <1>1, OneCall
    <3>2. <<>> \in Seq(Handled)
      OBVIOUS
    <3>3. Line # <<>> => FmdxCalls(Line) \in Seq(Handled)
      BY FmdxHandled
    <3>4. CASE Line = <<"x">>
      BY <3>1, <3>4
    <3>5. CASE Line = <<"X">>
      BY <3>1, <3>5
    <3>6. CASE started /\ Line \notin {<<"x">>, <<"X">>, <<>>}
      BY <3>3, <3>6
    <3>7. CASE Line # <<"x">> /\ Line # <<"X">> /\ ~(started /\ Line # <<>>)
      BY <3>2, <3>7
    <3> QED
      BY <3>4, <3>5, <3>6, <3>7
  <2>2. did \in Seq(Handled)
    BY <2>1, ConcatProperties DEF Typed
  <2>3. Append(did, Call("stop", 0)) \in Seq(Handled)
    BY <1>1, <2>2, AppendProperties
  <2>4. calls' \in {did, Append(did, Call("stop", 0))} /\ phase' \in {phase, "ended"}
    BY <1>3 DEF FmdxExecutes
  <2>5. started' \in BOOLEAN /\ fmdx' = fmdx /\ begin' = begin /\ cancel' = cancel
    BY <1>3 DEF FmdxExecutes, Typed
  <2> HIDE DEF did
  <2> QED
    BY <2>2, <2>3, <2>4, <2>5 DEF Typed
<1> QED
  BY <1>2, <1>3

LEMMA TypedExecute ==
  ASSUME Typed, Phases, ExecuteLine
  PROVE  Typed' /\ Phases'
<1>1. CommandLoop /\ WholeLine /\ UNCHANGED <<client, server, at>>
      /\ buffer' = Rest(buffer, Find("nl", buffer))
  BY DEF ExecuteLine
<1>2. Line \in Bytes /\ buffer' \in Bytes
  BY <1>1, LineIs DEF Typed
<1>3. CASE phase' = "ended" /\ UNCHANGED <<fmdx, started, history>>
  <2>1. Typed'
    BY <1>1, <1>2, <1>3 DEF Typed, client, history
  <2>2. Phases'
    BY <1>1, <1>3 DEF Phases, Before, CommandLoop, client
  <2> QED
    BY <2>1, <2>2
<1>4. CASE XdrExecutes \/ FmdxExecutes
  <2>1. /\ calls' \in Seq(Handled) /\ cancel' \in BOOLEAN /\ started' \in BOOLEAN
        /\ fmdx' = fmdx /\ begin' = begin /\ phase' \in {phase, "ended"}
    BY <1>1, <1>2, <1>4, ExecutesIs
  <2>2. Typed'
    BY <1>1, <1>2, <2>1 DEF Typed, client
  <2>3. Phases'
    BY <1>1, <2>1 DEF Phases, Before, CommandLoop, client
  <2> QED
    BY <2>2, <2>3
<1> QED
  BY <1>3, <1>4 DEF ExecuteLine

LEMMA TypedRest ==
  ASSUME Typed, Phases, ReceiveRequest \/ Answer
  PROVE  Typed' /\ Phases'
<1>1. phase = "header" /\ port = "rest"
  BY DEF Typed, Phases, Before, ReceiveRequest, Answer, WantsHeader, WantsBody
<1>2. CASE ReceiveRequest
  <2>1. PICK n \in 1..Chunk : n <= sent - at /\ at' = at + n
                              /\ buffer' = buffer \o SubSeq(stream, at + 1, at + n)
    BY <1>2 DEF ReceiveRequest
  <2>2. n \in Nat
    BY Sizes
  <2>3. at' \in 0..sent /\ SubSeq(stream, at + 1, at + n) \in Bytes
    BY <2>1, <2>2, Segment
  <2>4. buffer' \in Bytes
    BY <2>1, <2>3, ConcatIs DEF Typed
  <2>5. UNCHANGED <<client, phase, fmdx, started, history>>
    BY <1>2 DEF ReceiveRequest
  <2>6. Typed'
    BY <2>3, <2>4, <2>5 DEF Typed, client, history
  <2>7. Phases'
    BY <1>1, <2>5 DEF Phases, Before, CommandLoop, client, history
  <2> QED
    BY <2>6, <2>7
<1>3. CASE Answer
  <2>1. phase' = "ended" /\ UNCHANGED <<client, at, buffer, fmdx, started, cancel>>
    BY <1>3 DEF Answer, End
  <2>2. calls' \in Seq(Handled) /\ begin' \in Nat
    <3>1. CASE HasHeader(buffer)
      <4>1. "end" \in ToSet(buffer)
        BY <3>1 DEF HasHeader
      <4>2. PICK k \in 1..Len(buffer) : k = Find("end", buffer)
        BY <4>1, FindFirst DEF Typed
      <4>3. Len(buffer) \in Nat /\ k \in Nat /\ k \in 0..Len(buffer)
        BY BytesType DEF Typed
      <4>4. Body(buffer) \in Bytes
        BY <4>2, <4>3, RestIs DEF Body, Typed
      <4>5. applyParams(Query(buffer) \o Body(buffer)) \in Seq(Handled)
        <5>1. 0 \in Nat /\ k - 1 \in Nat /\ 0 <= k - 1 /\ k - 1 <= Len(buffer) /\ 0 + 1 = 1
          BY <4>3
        <5>2. Query(buffer) = SubSeq(buffer, 0 + 1, k - 1)
          BY <4>2, <5>1 DEF Query
        <5>3. Query(buffer) \in Bytes
          <6>1. buffer \in Bytes
            BY DEF Typed
          <6>2. SubSeq(buffer, 0 + 1, k - 1) \in Bytes
            BY <5>1, <6>1, Slice
          <6> QED
            BY <5>2, <6>2
        <5>4. Query(buffer) \o Body(buffer) \in Bytes
          BY <4>4, <5>3, ConcatIs
        <5> QED
          BY <5>4, ParamsHandled
      <4> QED
        BY <1>3, <4>2, <4>3, <4>5 DEF Answer, Typed
    <3>2. CASE ~HasHeader(buffer)
      BY <1>3, <3>2 DEF Answer, Typed
    <3> QED
      BY <3>1, <3>2
  <2>3. Typed'
    BY <2>1, <2>2 DEF Typed, client
  <2>4. Phases'
    BY <1>1, <2>1 DEF Phases, Before, CommandLoop, client
  <2> QED
    BY <2>3, <2>4
<1> QED
  BY <1>2, <1>3

LEMMA TypedNext == Typed /\ Phases /\ [Next]_vars => Typed' /\ Phases'
BY TypedClient, TypedBefore, TypedReceive, TypedDisconnected, TypedExecute, TypedRest
   DEF Next, ServerStep

LEMMA TypedAlways == Spec => [](Typed /\ Phases)
BY TypedInit, TypedNext, PTL DEF Spec

-------------------------------------------------------------------------------
(* How sessions end.  The exit for an overlong line, which leaves the tuner *)
(* and the scan as they are, is never taken: an overlong line is noticed   *)
(* when its bytes arrive, however many lines are before it.                *)
Gap(s, a, b) == \A i \in 1..Len(s) : a < i /\ i <= b => s[i] # "nl"
Fits(s) == \A a \in 0..Len(s) : \A b \in 0..Len(s) : Gap(s, a, b) => b - a <= LineLimit

Short == CommandLoop => Fits(buffer)

LEMMA FitsFirst ==
  ASSUME NEW s \in Bytes, Fits(s), "nl" \in ToSet(s)
  PROVE  ~(Find("nl", s) - 1 > LineLimit)
<1>1. PICK k \in 1..Len(s) : k = Find("nl", s) /\ \A i \in 1..Len(s) : s[i] = "nl" => k <= i
  BY FindFirst
<1>2. Len(s) \in Nat /\ k - 1 \in 0..Len(s) /\ 0 \in 0..Len(s) /\ (k - 1) - 0 = k - 1
  BY BytesType
<1>3. Gap(s, 0, k - 1)
  BY <1>1, <1>2 DEF Gap
<1>4. k - 1 <= LineLimit
  BY <1>2, <1>3 DEF Fits
<1> QED
  BY <1>1, <1>2, <1>4, Sizes

LEMMA FitsRest ==
  ASSUME NEW s \in Bytes, NEW k \in 0..Len(s), Fits(s)
  PROVE  Fits(Rest(s, k))
<1>1. Len(s) \in Nat /\ k \in Nat /\ Rest(s, k) \in Bytes /\ Len(Rest(s, k)) = Len(s) - k
  BY BytesType, RestIs
<1>2. ASSUME NEW a \in 0..(Len(s) - k), NEW b \in 0..(Len(s) - k), Gap(Rest(s, k), a, b)
      PROVE  b - a <= LineLimit
  <2>1. a + k \in 0..Len(s) /\ b + k \in 0..Len(s) /\ (b + k) - (a + k) = b - a
    BY <1>1
  <2>2. ASSUME NEW i \in 1..Len(s), a + k < i, i <= b + k PROVE s[i] # "nl"
    <3>1. i - k \in 1..(Len(s) - k) /\ a < i - k /\ i - k <= b /\ k + (i - k) = i
      BY <1>1, <2>2
    <3>2. Rest(s, k)[i - k] # "nl"
      BY <1>1, <1>2, <3>1 DEF Gap
    <3>3. Rest(s, k)[i - k] = s[k + (i - k)]
      BY <3>1, RestIs
    <3> QED
      BY <3>1, <3>2, <3>3
  <2>3. Gap(s, a + k, b + k)
    BY <2>2 DEF Gap
  <2> QED
    BY <2>1, <2>3 DEF Fits
<1> QED
  BY <1>1, <1>2 DEF Fits

LEMMA FitsMore ==
  ASSUME NEW s \in Bytes, NEW t \in Bytes, "nl" \notin ToSet(s), Len(t) <= LineLimit,
         ~commandBufferOverflowed(s \o t)
  PROVE  Fits(s \o t)
<1> DEFINE u == s \o t
<1>1. /\ u \in Bytes /\ Len(u) = Len(s) + Len(t) /\ Len(s) \in Nat /\ Len(t) \in Nat
      /\ Len(u) \in Nat /\ \A i \in 1..Len(s) : u[i] = s[i]
  BY ConcatIs, BytesType
<1>2. LineLimit \in Nat
  BY Sizes
<1>3. \A i \in 1..Len(s) : u[i] # "nl"
  BY <1>1, BytesType
<1> HIDE DEF u
<1>4. ASSUME NEW a \in 0..Len(u), NEW b \in 0..Len(u), Gap(u, a, b)
      PROVE  b - a <= LineLimit
  <2>1. CASE "nl" \notin ToSet(u)
    <3>1. Len(u) <= LineLimit
      BY <1>1, <1>2, <2>1 DEF commandBufferOverflowed, u
    <3> QED
      BY <1>1, <1>2, <3>1
  <2>2. CASE "nl" \in ToSet(u)
    <3>1. PICK k \in 1..Len(u) : k = Find("nl", u) /\ u[k] = "nl"
      BY <1>1, <2>2, FindFirst
    <3>2. k - 1 <= LineLimit
      BY <1>1, <1>2, <2>2, <3>1 DEF commandBufferOverflowed, u
    <3>3. ~(a < k /\ k <= b)
      BY <1>4, <3>1 DEF Gap
    <3>4. k > Len(s)
      BY <1>1, <1>3, <3>1
    <3> QED
      BY <1>1, <1>2, <3>2, <3>3, <3>4
  <2> QED
    BY <2>1, <2>2
<1>5. Fits(u)
  BY <1>4 DEF Fits
<1> QED
  BY <1>5 DEF u

LEMMA ShortNext ==
  ASSUME Typed, Phases, Short, [Next]_vars
  PROVE  Short'
<1>1. CASE Receive
  <2>1. PICK n \in 1..Chunk :
          n <= sent - at /\ buffer' = buffer \o UpToNul(SubSeq(stream, at + 1, at + n))
    BY <1>1 DEF Receive, BufferSize
  <2>2. n \in Nat /\ n <= LineLimit
    BY Sizes
  <2>3. SubSeq(stream, at + 1, at + n) \in Bytes /\ Len(SubSeq(stream, at + 1, at + n)) = n
    BY <2>1, <2>2, Segment
  <2>4. PICK t \in Bytes : t = UpToNul(SubSeq(stream, at + 1, at + n)) /\ Len(t) \in 0..n
    BY <2>3, UpToNulIs
  <2>5. Len(t) <= LineLimit
    BY <2>2, <2>4, Sizes
  <2>6. CASE commandBufferOverflowed(buffer')
    <3>1. phase' = "ended"
      BY <1>1, <2>6 DEF Receive, LeaveLoop
    <3> QED
      BY <3>1 DEF Short, CommandLoop
  <2>7. CASE ~commandBufferOverflowed(buffer')
    <3>1. "nl" \notin ToSet(buffer)
      BY <1>1 DEF Receive, WholeLine
    <3>2. Fits(buffer')
      BY <2>1, <2>4, <2>5, <2>7, <3>1, FitsMore DEF Typed
    <3> QED
      BY <3>2 DEF Short
  <2> QED
    BY <2>6, <2>7
<1>2. CASE ExecuteLine
  <2>1. CommandLoop /\ WholeLine /\ buffer' = Rest(buffer, Find("nl", buffer))
    BY <1>2 DEF ExecuteLine
  <2>2. Find("nl", buffer) \in 0..Len(buffer)
    <3>1. Find("nl", buffer) \in 1..Len(buffer) /\ Len(buffer) \in Nat
      BY <2>1, LineIs, BytesType DEF Typed
    <3> QED
      BY <3>1
  <2> QED
    BY <2>1, <2>2, FitsRest DEF Short, Typed
<1>3. CASE Handshake \/ Login
  <2>1. buffer' = <<>>
    BY <1>3 DEF Phases, Before, Handshake, Login, TakeLineThen, End
  <2>2. <<>> \in Bytes /\ Len(<<>>) = 0
    BY DEF Bytes
  <2>3. Fits(<<>>)
    <3>1. \A a, b \in 0..0 : b - a <= LineLimit
      BY Sizes
    <3> QED
      BY <2>2, <3>1 DEF Fits
  <2> QED
    BY <2>1, <2>3 DEF Short
<1>4. CASE Peek \/ Disconnected \/ ReceiveRequest \/ Answer
  <2>1. ~CommandLoop'
    BY <1>4 DEF Phases, Peek, Disconnected, LeaveLoop, ReceiveRequest, Answer, End,
                WantsHeader, WantsBody, CommandLoop
  <2> QED
    BY <2>1 DEF Short
<1>5. CASE Arrive \/ Close \/ Stop \/ UNCHANGED vars
  <2>1. UNCHANGED <<phase, buffer>>
    BY <1>5 DEF Arrive, Close, Stop, vars, session
  <2> QED
    BY <2>1 DEF Short, CommandLoop
<1> QED
  BY <1>1, <1>2, <1>3, <1>4, <1>5 DEF Next, ServerStep

Stopped(cs) ==
  \A i \in 1..Len(cs) : cs[i].to = "start" => \E j \in (i + 1)..Len(cs) : cs[j].to = "stop"

Tidy ==
  /\ phase = "fmdx" /\ started = FALSE => Stopped(calls)
  /\ phase = "ended" /\ begin > 0 /\ port = "xdr" =>
       IF fmdx THEN Stopped(calls) ELSE cancel

LEMMA StoppedNow ==
  ASSUME NEW cs \in Seq(Handled)
  PROVE  Stopped(Append(cs, Call("stop", 0)))
<1> DEFINE ds == Append(cs, Call("stop", 0))
<1>1. Call("stop", 0) \in Handled
  BY NoLimit
<1>2. /\ Len(cs) \in Nat /\ Len(ds) = Len(cs) + 1 /\ ds[Len(cs) + 1] = Call("stop", 0)
      /\ \A i \in 1..Len(cs) : ds[i] = cs[i]
  BY <1>1, AppendProperties, LenProperties
<1>3. Call("stop", 0).to = "stop"
  BY DEF Call
<1> HIDE DEF ds
<1>4. ASSUME NEW i \in 1..Len(ds), ds[i].to = "start"
      PROVE  \E j \in (i + 1)..Len(ds) : ds[j].to = "stop"
  <2>1. i # Len(ds)
    BY <1>2, <1>3, <1>4
  <2>2. Len(ds) \in (i + 1)..Len(ds)
    BY <1>2, <2>1
  <2> QED
    BY <1>2, <1>3, <2>2
<1>5. Stopped(ds)
  BY <1>4 DEF Stopped
<1> QED
  BY <1>5 DEF ds

LEMMA TidyLeave ==
  ASSUME Typed, Phases, Tidy, CommandLoop, LeaveLoop, port' = port
  PROVE  Tidy'
<1>1. phase' = "ended" /\ fmdx' = fmdx
  BY DEF LeaveLoop
<1>2. CASE phase = "fmdx"
  <2>1. Stopped(calls')
    <3>1. CASE started
      BY <1>2, <3>1, StoppedNow DEF LeaveLoop, Typed
    <3>2. CASE ~started
      <4>1. calls' = calls /\ started = FALSE
        BY <1>2, <3>2 DEF LeaveLoop, Typed
      <4> QED
        BY <1>2, <4>1 DEF Tidy
    <3> QED
      BY <3>1, <3>2
  <2>2. fmdx = TRUE
    BY <1>2 DEF Phases, CommandLoop
  <2> QED
    BY <1>1, <2>1, <2>2 DEF Tidy
<1>3. CASE phase = "xdr"
  <2>1. cancel' = TRUE /\ fmdx = FALSE
    BY <1>3 DEF LeaveLoop, Phases, CommandLoop
  <2> QED
    BY <1>1, <2>1 DEF Tidy
<1> QED
  BY <1>2, <1>3 DEF CommandLoop

LEMMA TidyFmdx ==
  ASSUME Typed, Phases, Tidy, Line \in Bytes, FmdxExecutes, port' = port
  PROVE  Tidy'
<1> DEFINE asked == CASE Line = <<"x">> -> <<Call("start", 0)>>
                      [] Line = <<"X">> -> <<Call("stop", 0)>>
                      [] started /\ Line \notin {<<"x">>, <<"X">>, <<>>} -> FmdxCalls(Line)
                      [] OTHER -> <<>>
           did == calls \o asked
<1>1. phase = "fmdx" /\ fmdx = TRUE /\ fmdx' = TRUE
  BY DEF FmdxExecutes, Phases, CommandLoop
<1>2. calls \in Seq(Handled)
  BY DEF Typed
<1>3. <<"x">> # <<"X">>
  OBVIOUS
<1>4. CASE Line = <<"X">>
  <2>1. asked = <<Call("stop", 0)>>
    BY <1>3, <1>4
  <2>2. calls' = calls \o <<Call("stop", 0)>>
    BY <1>4, <2>1 DEF FmdxExecutes
  <2>3. Call("stop", 0) \in Handled
    BY NoLimit
  <2>4. calls' = Append(calls, Call("stop", 0))
    BY <1>2, <2>2, <2>3, AppendIsConcat
  <2>5. Stopped(calls')
    BY <1>2, <2>4, StoppedNow
  <2> QED
    BY <1>1, <2>5 DEF Tidy
<1>5. CASE Line = <<"x">>
  <2>1. started' = TRUE /\ phase' = "fmdx"
    BY <1>1, <1>5 DEF FmdxExecutes
  <2> QED
    BY <2>1 DEF Tidy
<1>6. CASE Line # <<"x">> /\ Line # <<"X">> /\ started = FALSE
  <2>1. asked = <<>>
    BY <1>6
  <2>2. did = calls
    BY <1>2, <2>1, ConcatEmptySeq
  <2>3. calls' = calls
    BY <1>6, <2>2 DEF FmdxExecutes
  <2>4. Stopped(calls')
    BY <1>1, <1>6, <2>3 DEF Tidy
  <2> QED
    BY <1>1, <2>4 DEF Tidy
<1>7. CASE Line # <<"x">> /\ Line # <<"X">> /\ started = TRUE
  <2>1. started' = TRUE
    BY <1>7 DEF FmdxExecutes
  <2>2. CASE phase' = "ended"
    <3>1. did \in Seq(Handled)
      <4>1. <<>> \in Seq(Handled)
        OBVIOUS
      <4>2. CASE Line = <<>>
        <5>1. asked = <<>>
          BY <1>7, <4>2
        <5> QED
          BY <1>2, <5>1, <4>1, ConcatProperties
      <4>3. CASE Line # <<>>
        <5>1. asked = FmdxCalls(Line)
          BY <1>7, <4>3
        <5>2. FmdxCalls(Line) \in Seq(Handled)
          BY <4>3, FmdxHandled
        <5> QED
          BY <1>2, <5>1, <5>2, ConcatProperties
      <4> QED
        BY <4>2, <4>3
    <3>2. calls' = Append(did, Call("stop", 0))
      BY <1>1, <1>7, <2>2 DEF FmdxExecutes
    <3>3. Stopped(calls')
      BY <3>1, <3>2, StoppedNow
    <3> QED
      BY <1>1, <3>3 DEF Tidy
  <2>3. CASE phase' = phase
    BY <1>1, <2>1, <2>3 DEF Tidy
  <2> QED
    BY <2>2, <2>3 DEF FmdxExecutes
<1> QED
  BY <1>4, <1>5, <1>6, <1>7 DEF Typed

LEMMA TidyNext ==
  ASSUME Typed, Phases, Short, Tidy, [Next]_vars
  PROVE  Tidy'
<1>1. CASE Receive
  <2>1. CommandLoop /\ port' = port
    BY <1>1 DEF Receive, client
  <2>2. CASE LeaveLoop
    BY <2>1, <2>2, TidyLeave
  <2>3. CASE UNCHANGED <<phase, fmdx, started, history>>
    BY <2>1, <2>3 DEF Tidy, history
  <2> QED
    BY <1>1, <2>2, <2>3 DEF Receive
<1>2. CASE Disconnected
  BY <1>2, TidyLeave DEF Disconnected, client
<1>3. CASE ExecuteLine
  <2>1. CommandLoop /\ WholeLine /\ port' = port
    BY <1>3 DEF ExecuteLine, client
  <2>2. ~(Find("nl", buffer) - 1 > LineLimit)
    BY <2>1, FitsFirst DEF Short, WholeLine, Typed
  <2>3. XdrExecutes \/ FmdxExecutes
    BY <1>3, <2>2 DEF ExecuteLine
  <2>4. CASE XdrExecutes
    <3>1. phase = "xdr" /\ phase' = "xdr"
      BY <2>4 DEF XdrExecutes
    <3> QED
      BY <3>1 DEF Tidy
  <2>5. Line \in Bytes
    BY <2>1, LineIs DEF Typed
  <2> QED
    BY <2>1, <2>3, <2>4, <2>5, TidyFmdx
<1>4. CASE Peek \/ Handshake \/ Login
  <2>1. calls' = <<>> /\ phase \in Before /\ begin = 0
    BY <1>4 DEF Phases, Before, Peek, Handshake, Login, TakeLineThen, history
  <2>2. Stopped(<<>>)
    BY DEF Stopped
  <2>3. phase' = "ended" => begin' = 0
    BY <1>4, <2>1 DEF Peek, Handshake, Login, TakeLineThen, history
  <2> QED
    BY <2>1, <2>2, <2>3 DEF Tidy
<1>5. CASE ReceiveRequest \/ Answer
  <2>1. port' = "rest" /\ phase' # "fmdx"
    BY <1>5 DEF Typed, Phases, Before, ReceiveRequest, Answer, WantsHeader, WantsBody, End,
                client
  <2> QED
    BY <2>1 DEF Tidy
<1>6. CASE Arrive \/ Close \/ Stop \/ UNCHANGED vars
  <2>1. UNCHANGED <<phase, started, fmdx, calls, begin, port, cancel>>
    BY <1>6 DEF Arrive, Close, Stop, vars, session, history, client
  <2> QED
    BY <2>1 DEF Tidy
<1> QED
  BY <1>1, <1>2, <1>3, <1>4, <1>5, <1>6 DEF Next, ServerStep

(* Every session that got to its commands leaves the tuner or the scan as  *)
(* it must: an FM-DX session that asked for the tuner's start has asked for *)
(* its stop afterwards, an XDR session has cancelled the scan.             *)
THEOREM SessionsEndClean == Spec => []EndsClean
<1>1. Init => Short /\ Tidy
  <2> SUFFICES ASSUME Init PROVE Short /\ Tidy
    OBVIOUS
  <2> QED
    BY DEF Init, Short, Tidy, CommandLoop
<1>2. Typed /\ Phases /\ Short /\ Tidy /\ [Next]_vars => Short' /\ Tidy'
  BY ShortNext, TidyNext
<1>3. Tidy => EndsClean
  BY DEF Tidy, EndsClean, Stopped
<1> QED
  BY <1>1, <1>2, <1>3, TypedAlways, PTL DEF Spec

-------------------------------------------------------------------------------
(* The lines of a text, in their order.  r holds those that end at d or    *)
(* before, d being the end of a line or the beginning of the text.         *)
InOrder(text, d, r) ==
  /\ d \in 0..Len(text) /\ (d # 0 => text[d] = "nl")
  /\ r \in Seq(Bytes) /\ Len(r) = Cardinality(UpToPos(Breaks(text), d))
  /\ \A k \in 1..Len(r) : r[k] = Lines(text)[k]

LEMMA BreaksIs ==
  ASSUME NEW text \in Bytes
  PROVE  /\ Breaks(text) \in SUBSET (1..Len(text)) /\ Len(text) \in Nat
         /\ Cardinality(Breaks(text)) \in Nat
         /\ Len(Lines(text)) = Cardinality(Breaks(text))
         /\ DOMAIN Lines(text) = 1..Cardinality(Breaks(text))
         /\ \A k \in 1..Cardinality(Breaks(text)) :
              Lines(text)[k] =
                Trimmed(SubSeq(text, LineEnd(text, k - 1) + 1, LineEnd(text, k) - 1))
         /\ Cardinality(UpToPos(Breaks(text), 0)) = 0
<1>1. Breaks(text) \in SUBSET (1..Len(text)) /\ Len(text) \in Nat
  BY BytesType DEF Breaks
<1>2. Cardinality(Breaks(text)) \in Nat
  BY <1>1, Counted
<1>3. UpToPos(Breaks(text), 0) = {}
  <2>1. \A j \in Breaks(text) : ~(j <= 0)
    BY <1>1
  <2> QED
    BY <2>1 DEF UpToPos
<1>4. Cardinality(UpToPos(Breaks(text), 0)) = 0
  BY <1>3, FS_EmptySet
<1>5. DOMAIN Lines(text) = 1..Cardinality(Breaks(text))
  BY DEF Lines
<1>6. Len(Lines(text)) = Cardinality(Breaks(text))
  <2>1. PICK n \in Nat : n = Cardinality(Breaks(text))
    BY <1>2
  <2>2. Lines(text) = [k \in 1..n |-> Lines(text)[k]]
    BY <2>1 DEF Lines
  <2>3. Lines(text) \in Seq({Lines(text)[k] : k \in 1..n})
    <3>1. \A k \in 1..n : Lines(text)[k] \in {Lines(text)[i] : i \in 1..n}
      OBVIOUS
    <3>2. [k \in 1..n |-> Lines(text)[k]] \in Seq({Lines(text)[i] : i \in 1..n})
      BY <3>1, IsASeq
    <3> QED
      BY <2>2, <3>2
  <2>4. DOMAIN Lines(text) = 1..Len(Lines(text)) /\ Len(Lines(text)) \in Nat
    BY <2>3, LenProperties
  <2> QED
    BY <1>5, <2>1, <2>4
<1>7. \A k \in 1..Cardinality(Breaks(text)) :
        Lines(text)[k] = Trimmed(SubSeq(text, LineEnd(text, k - 1) + 1, LineEnd(text, k) - 1))
  BY DEF Lines
<1> QED
  BY <1>1, <1>2, <1>4, <1>5, <1>6, <1>7

(* The end of a line that is counted is a break, or the beginning.         *)
LEMMA LineEndIs ==
  ASSUME NEW text \in Bytes, NEW k \in 0..Cardinality(Breaks(text))
  PROVE  /\ LineEnd(text, k) \in 0..Len(text)
         /\ Cardinality(UpToPos(Breaks(text), LineEnd(text, k))) = k
         /\ k # 0 => LineEnd(text, k) \in Breaks(text)
<1>1. CASE k = 0
  BY <1>1, BreaksIs DEF LineEnd
<1>2. CASE k # 0
  <2>1. k \in 1..Cardinality(Breaks(text))
    BY <1>2, BreaksIs
  <2>2. Nth(Breaks(text), k) \in Breaks(text)
        /\ Cardinality(UpToPos(Breaks(text), Nth(Breaks(text), k))) = k
    BY <2>1, BreaksIs, NthExists
  <2> QED
    BY <1>2, <2>2, BreaksIs DEF LineEnd
<1> QED
  BY <1>1, <1>2

LEMMA LineEndAt ==
  ASSUME NEW text \in Bytes, NEW d \in 0..Len(text), d # 0 => text[d] = "nl"
  PROVE  LineEnd(text, Cardinality(UpToPos(Breaks(text), d))) = d
<1> DEFINE c == Cardinality(UpToPos(Breaks(text), d))
<1>1. CASE d = 0
  BY <1>1, BreaksIs DEF LineEnd
<1>2. CASE d # 0
  <2>1. d \in 1..Len(text) /\ d \in Breaks(text) /\ d \in Nat
    BY <1>2, BreaksIs DEF Breaks
  <2>2. 0 < d /\ 0 \in Nat
    BY <2>1
  <2>3. Cardinality(UpToPos(Breaks(text), 0)) < c
    BY <2>1, <2>2, BreaksIs, CountLess
  <2>4. c # 0
    BY <2>3, BreaksIs
  <2>5. Nth(Breaks(text), c) = d
    BY <2>1, BreaksIs, NthIs
  <2> QED
    BY <2>4, <2>5 DEF LineEnd
<1> QED
  BY <1>1, <1>2

(* Text that arrives later changes nothing of the lines that are there.    *)
LEMMA BreaksGrow ==
  ASSUME NEW text \in Bytes, NEW more \in Bytes, NEW d \in 0..Len(text)
  PROVE  UpToPos(Breaks(text \o more), d) = UpToPos(Breaks(text), d)
<1>1. /\ text \o more \in Bytes /\ Len(text \o more) = Len(text) + Len(more)
      /\ Len(text) \in Nat /\ Len(more) \in Nat
      /\ \A i \in 1..Len(text) : (text \o more)[i] = text[i]
  BY ConcatIs, BytesType
<1>2. \A j \in Nat : j <= d => (j \in Breaks(text \o more) <=> j \in Breaks(text))
  BY <1>1 DEF Breaks
<1>3. Breaks(text \o more) \subseteq Nat /\ Breaks(text) \subseteq Nat
  BY <1>1, BreaksIs
<1> QED
  BY <1>2, <1>3 DEF UpToPos

LEMMA LineEndGrows ==
  ASSUME NEW text \in Bytes, NEW more \in Bytes, NEW k \in 0..Cardinality(Breaks(text))
  PROVE  LineEnd(text \o more, k) = LineEnd(text, k)
<1>1. CASE k = 0
  BY <1>1 DEF LineEnd
<1>2. CASE k # 0
  <2>1. PICK e : e = LineEnd(text, k) /\ e \in 0..Len(text) /\ e \in Breaks(text)
                 /\ Cardinality(UpToPos(Breaks(text), e)) = k
    BY <1>2, LineEndIs
  <2>2. Cardinality(UpToPos(Breaks(text \o more), e)) = k
    BY <2>1, BreaksGrow
  <2>3. e \in Breaks(text \o more) /\ text \o more \in Bytes
    <3>1. /\ text \o more \in Bytes /\ Len(text \o more) = Len(text) + Len(more)
          /\ Len(text) \in Nat /\ Len(more) \in Nat
          /\ \A i \in 1..Len(text) : (text \o more)[i] = text[i]
      BY ConcatIs, BytesType
    <3> QED
      BY <2>1, <3>1 DEF Breaks
  <2>4. Nth(Breaks(text \o more), k) = e
    BY <2>2, <2>3, BreaksIs, NthIs
  <2> QED
    BY <1>2, <2>1, <2>4 DEF LineEnd
<1> QED
  BY <1>1, <1>2

LEMMA SliceGrows ==
  ASSUME NEW text \in Bytes, NEW more \in Bytes, NEW a \in Nat, NEW b \in Nat,
         a <= b, b <= Len(text)
  PROVE  SubSeq(text \o more, a + 1, b) = SubSeq(text, a + 1, b)
<1>1. /\ text \o more \in Bytes /\ Len(text \o more) = Len(text) + Len(more)
      /\ Len(text) \in Nat /\ Len(more) \in Nat /\ b <= Len(text \o more)
      /\ \A i \in 1..Len(text) : (text \o more)[i] = text[i]
  BY ConcatIs, BytesType
<1>2. /\ SubSeq(text, a + 1, b) \in Bytes /\ Len(SubSeq(text, a + 1, b)) = b - a
      /\ \A i \in 1..(b - a) : SubSeq(text, a + 1, b)[i] = text[a + i]
  BY Slice
<1>3. /\ SubSeq(text \o more, a + 1, b) \in Bytes
      /\ Len(SubSeq(text \o more, a + 1, b)) = b - a
      /\ \A i \in 1..(b - a) : SubSeq(text \o more, a + 1, b)[i] = (text \o more)[a + i]
  BY <1>1, Slice
<1>4. \A i \in 1..(b - a) : a + i \in 1..Len(text)
  BY <1>1
<1>5. \A i \in 1..(b - a) : SubSeq(text \o more, a + 1, b)[i] = SubSeq(text, a + 1, b)[i]
  BY <1>1, <1>2, <1>3, <1>4
<1> QED
  BY <1>2, <1>3, <1>5, SameBytes

LEMMA Grow ==
  ASSUME NEW text \in Bytes, NEW more \in Bytes, NEW d, NEW r, InOrder(text, d, r)
  PROVE  InOrder(text \o more, d, r)
<1>1. /\ text \o more \in Bytes /\ Len(text \o more) = Len(text) + Len(more)
      /\ Len(text) \in Nat /\ Len(more) \in Nat
      /\ \A i \in 1..Len(text) : (text \o more)[i] = text[i]
  BY ConcatIs, BytesType
<1>2. d \in 0..Len(text) /\ d \in Nat /\ r \in Seq(Bytes) /\ (d # 0 => text[d] = "nl")
      /\ Len(r) = Cardinality(UpToPos(Breaks(text), d)) /\ Len(r) \in Nat
  BY <1>1, LenProperties DEF InOrder
<1>3. d \in 0..Len(text \o more) /\ (d # 0 => (text \o more)[d] = "nl")
  BY <1>1, <1>2
<1>4. UpToPos(Breaks(text \o more), d) = UpToPos(Breaks(text), d)
  BY <1>2, BreaksGrow
<1>5. Len(r) <= Cardinality(Breaks(text)) /\ Len(r) <= Cardinality(Breaks(text \o more))
  <2>1. Cardinality(UpToPos(Breaks(text), d)) <= Cardinality(Breaks(text))
    BY <1>2, BreaksIs, Counted
  <2>2. Cardinality(UpToPos(Breaks(text \o more), d)) <= Cardinality(Breaks(text \o more))
    BY <1>1, <1>2, BreaksIs, Counted
  <2> QED
    BY <1>2, <1>4, <2>1, <2>2
<1>6. ASSUME NEW k \in 1..Len(r) PROVE r[k] = Lines(text \o more)[k]
  <2>1. /\ k \in 1..Cardinality(Breaks(text)) /\ k \in 1..Cardinality(Breaks(text \o more))
        /\ k \in 0..Cardinality(Breaks(text)) /\ k - 1 \in 0..Cardinality(Breaks(text))
    <3>1. PICK m \in Nat : m = Cardinality(Breaks(text))
      BY BreaksIs
    <3>2. PICK n \in Nat : n = Cardinality(Breaks(text \o more))
      BY <1>1, BreaksIs
    <3>3. k \in 1..m /\ k \in 1..n /\ k \in 0..m /\ k - 1 \in 0..m
      BY <1>2, <1>5, <3>1, <3>2
    <3> QED
      BY <3>1, <3>2, <3>3
  <2>2. LineEnd(text \o more, k) = LineEnd(text, k)
        /\ LineEnd(text \o more, k - 1) = LineEnd(text, k - 1)
    BY <2>1, LineEndGrows
  <2>3. PICK a \in 0..Len(text) : a = LineEnd(text, k - 1)
                                  /\ Cardinality(UpToPos(Breaks(text), a)) = k - 1
    BY <2>1, LineEndIs
  <2>4. PICK b \in 0..Len(text) : b = LineEnd(text, k)
                                  /\ Cardinality(UpToPos(Breaks(text), b)) = k
                                  /\ b \in Breaks(text)
    <3>1. k # 0
      OBVIOUS
    <3> QED
      BY <2>1, <3>1, LineEndIs
  <2>5. a < b
    <3>1. CASE b < a
      <4>1. UpToPos(Breaks(text), b) \in SUBSET UpToPos(Breaks(text), a)
        <5>1. \A j \in Breaks(text) : j <= b => j <= a
          BY <3>1, BreaksIs
        <5> QED
          BY <5>1 DEF UpToPos
      <4>2. IsFiniteSet(UpToPos(Breaks(text), a))
        <5>1. a \in Nat
          BY <1>1
        <5> QED
          BY <5>1, BreaksIs, Counted
      <4>3. Cardinality(UpToPos(Breaks(text), b)) <= Cardinality(UpToPos(Breaks(text), a))
        BY <4>1, <4>2, FS_Subset
      <4> QED
        BY <2>3, <2>4, <4>3
    <3>2. CASE a = b
      BY <2>3, <2>4, <3>2
    <3> QED
      BY <1>1, <3>1, <3>2
  <2>6. SubSeq(text \o more, a + 1, b - 1) = SubSeq(text, a + 1, b - 1)
    <3>1. b - 1 \in Nat /\ a \in Nat /\ a <= b - 1 /\ b - 1 <= Len(text)
      BY <1>1, <2>5
    <3> QED
      BY <3>1, SliceGrows
  <2>7. Lines(text \o more)[k] = Trimmed(SubSeq(text \o more, a + 1, b - 1))
    BY <1>1, <2>1, <2>2, <2>3, <2>4, BreaksIs
  <2>8. Lines(text)[k] = Trimmed(SubSeq(text, a + 1, b - 1))
    BY <2>1, <2>3, <2>4, BreaksIs
  <2>9. r[k] = Lines(text)[k]
    BY DEF InOrder
  <2> QED
    BY <2>6, <2>7, <2>8, <2>9
<1> QED
  BY <1>2, <1>3, <1>4, <1>6 DEF InOrder

(* The next line of the text is the one that is executed next.             *)
LEMMA NextLine ==
  ASSUME NEW text \in Bytes, NEW d, NEW r, InOrder(text, d, r),
         NEW p, "nl" \in ToSet(Rest(text, d)), p = Find("nl", Rest(text, d))
  PROVE  /\ InOrder(text, d + p, Append(r, Trimmed(SubSeq(Rest(text, d), 1, p - 1))))
         /\ Rest(Rest(text, d), p) = Rest(text, d + p) /\ d + p \in 0..Len(text)
<1> DEFINE P == Breaks(text)
           line == Trimmed(SubSeq(Rest(text, d), 1, p - 1))
<1>1. d \in 0..Len(text) /\ d \in Nat /\ Len(text) \in Nat /\ r \in Seq(Bytes)
      /\ (d # 0 => text[d] = "nl") /\ Len(r) = Cardinality(UpToPos(P, d)) /\ Len(r) \in Nat
  BY BytesType, LenProperties DEF InOrder
<1>2. /\ Rest(text, d) \in Bytes /\ Len(Rest(text, d)) = Len(text) - d
      /\ \A i \in 1..(Len(text) - d) : Rest(text, d)[i] = text[d + i]
  BY <1>1, RestIs
<1>3. /\ p \in 1..(Len(text) - d) /\ text[d + p] = "nl"
      /\ \A i \in 1..(Len(text) - d) : text[d + i] = "nl" => p <= i
  BY <1>2, FindFirst
<1>4. d + p \in 1..Len(text) /\ d + p \in P /\ d + p \in Nat /\ (d + p) - 1 \in Nat
      /\ d <= (d + p) - 1 /\ ((d + p) - 1) + 1 = d + p
  BY <1>1, <1>3 DEF Breaks
<1>5. Cardinality(UpToPos(P, d + p)) = Len(r) + 1
  <2>1. \A j \in P : ~(d < j /\ j <= (d + p) - 1)
    <3> SUFFICES ASSUME NEW j \in P, d < j, j <= (d + p) - 1 PROVE FALSE
      OBVIOUS
    <3>1. j \in 1..Len(text) /\ text[j] = "nl"
      BY DEF Breaks
    <3>2. j - d \in 1..(Len(text) - d) /\ d + (j - d) = j /\ ~(p <= j - d)
      BY <1>1, <1>3, <3>1
    <3> QED
      BY <1>3, <3>1, <3>2
  <2>2. P \in SUBSET Nat
    BY BreaksIs
  <2>3. UpToPos(P, d) = UpToPos(P, (d + p) - 1)
    BY <1>1, <1>4, <2>1, <2>2, CountSame
  <2>4. Cardinality(UpToPos(P, ((d + p) - 1) + 1)) = Cardinality(UpToPos(P, (d + p) - 1)) + 1
    BY <1>1, <1>4, BreaksIs, CountNext
  <2> QED
    BY <1>1, <1>4, <2>3, <2>4
<1>6. Len(r) + 1 \in 1..Cardinality(P) /\ (Len(r) + 1) - 1 = Len(r)
  <2>1. Cardinality(UpToPos(P, d + p)) <= Cardinality(P) /\ Cardinality(P) \in Nat
    BY <1>1, <1>4, BreaksIs, Counted
  <2> QED
    BY <1>1, <1>5, <2>1
<1>7. LineEnd(text, Len(r)) = d /\ LineEnd(text, Len(r) + 1) = d + p
  <2>1. LineEnd(text, Cardinality(UpToPos(P, d))) = d
    BY <1>1, LineEndAt
  <2>2. LineEnd(text, Cardinality(UpToPos(P, d + p))) = d + p
    BY <1>3, <1>4, LineEndAt
  <2> QED
    BY <1>1, <1>5, <2>1, <2>2
<1>8. Lines(text)[Len(r) + 1] = Trimmed(SubSeq(text, d + 1, (d + p) - 1))
  BY <1>6, <1>7, BreaksIs
<1>9. SubSeq(Rest(text, d), 1, p - 1) \in Bytes
      /\ SubSeq(Rest(text, d), 1, p - 1) = SubSeq(text, d + 1, (d + p) - 1)
  <2>1. p - 1 \in Nat /\ 0 <= p - 1 /\ p - 1 <= Len(Rest(text, d)) /\ (p - 1) - 0 = p - 1
        /\ 0 + 1 = 1 /\ (d + p) - 1 <= Len(text) /\ ((d + p) - 1) - d = p - 1
    BY <1>1, <1>2, <1>3
  <2>2. /\ SubSeq(Rest(text, d), 1, p - 1) \in Bytes
        /\ Len(SubSeq(Rest(text, d), 1, p - 1)) = p - 1
        /\ \A i \in 1..(p - 1) : SubSeq(Rest(text, d), 1, p - 1)[i] = Rest(text, d)[i]
    <3>1. PICK q \in Nat : q = p - 1 /\ q <= Len(Rest(text, d))
      BY <2>1
    <3>2. /\ SubSeq(Rest(text, d), 0 + 1, q) \in Bytes
          /\ Len(SubSeq(Rest(text, d), 0 + 1, q)) = q - 0
          /\ \A i \in 1..(q - 0) : SubSeq(Rest(text, d), 0 + 1, q)[i] = Rest(text, d)[0 + i]
      BY <1>2, <3>1, Slice
    <3>3. q - 0 = q /\ 0 + 1 = 1 /\ \A i \in 1..q : 0 + i = i
      OBVIOUS
    <3> QED
      BY <3>1, <3>2, <3>3
  <2>3. /\ SubSeq(text, d + 1, (d + p) - 1) \in Bytes
        /\ Len(SubSeq(text, d + 1, (d + p) - 1)) = p - 1
        /\ \A i \in 1..(p - 1) : SubSeq(text, d + 1, (d + p) - 1)[i] = text[d + i]
    BY <1>1, <1>4, <2>1, Slice
  <2>4. \A i \in 1..(p - 1) : i \in 1..(Len(text) - d)
    BY <1>1, <1>3
  <2>5. \A i \in 1..(p - 1) : SubSeq(Rest(text, d), 1, p - 1)[i]
                                = SubSeq(text, d + 1, (d + p) - 1)[i]
    BY <1>2, <2>2, <2>3, <2>4
  <2> QED
    BY <2>2, <2>3, <2>5, SameBytes
<1>10. line \in Bytes /\ line = Lines(text)[Len(r) + 1]
  BY <1>8, <1>9, TrimmedIs
<1> HIDE DEF line
<1>11. /\ Append(r, line) \in Seq(Bytes) /\ Len(Append(r, line)) = Len(r) + 1
       /\ Append(r, line)[Len(r) + 1] = line
       /\ \A k \in 1..Len(r) : Append(r, line)[k] = r[k]
  BY <1>1, <1>10, AppendProperties
<1>12. \A k \in 1..Len(Append(r, line)) : Append(r, line)[k] = Lines(text)[k]
  <2>1. \A k \in 1..Len(r) : r[k] = Lines(text)[k]
    BY DEF InOrder
  <2>2. \A k \in 1..Len(Append(r, line)) : k \in 1..Len(r) \/ k = Len(r) + 1
    BY <1>1, <1>11
  <2> QED
    BY <1>10, <1>11, <2>1, <2>2
<1>13. d + p \in 0..Len(text)
  BY <1>1, <1>4
<1>14. InOrder(text, d + p, Append(r, line))
  BY <1>3, <1>5, <1>11, <1>12, <1>13 DEF InOrder
<1>15. Rest(Rest(text, d), p) = Rest(text, d + p)
  <2>1. p \in 0..Len(Rest(text, d)) /\ Len(Rest(text, d)) - p = Len(text) - (d + p)
    BY <1>1, <1>2, <1>3
  <2>2. /\ Rest(Rest(text, d), p) \in Bytes
        /\ Len(Rest(Rest(text, d), p)) = Len(text) - (d + p)
        /\ \A i \in 1..(Len(text) - (d + p)) :
             Rest(Rest(text, d), p)[i] = Rest(text, d)[p + i]
    <3>1. Rest(text, d) \in Bytes
      BY <1>2
    <3>2. /\ Rest(Rest(text, d), p) \in Bytes
          /\ Len(Rest(Rest(text, d), p)) = Len(Rest(text, d)) - p
          /\ \A i \in 1..(Len(Rest(text, d)) - p) :
               Rest(Rest(text, d), p)[i] = Rest(text, d)[p + i]
      BY <2>1, <3>1, RestIs
    <3> QED
      BY <2>1, <3>2
  <2>3. /\ Rest(text, d + p) \in Bytes /\ Len(Rest(text, d + p)) = Len(text) - (d + p)
        /\ \A i \in 1..(Len(text) - (d + p)) : Rest(text, d + p)[i] = text[(d + p) + i]
    BY <1>13, RestIs
  <2>4. \A i \in 1..(Len(text) - (d + p)) :
          p + i \in 1..(Len(text) - d) /\ (d + p) + i = d + (p + i)
    BY <1>1, <1>3
  <2>5. \A i \in 1..(Len(text) - (d + p)) : Rest(Rest(text, d), p)[i] = Rest(text, d + p)[i]
    BY <1>2, <2>2, <2>3, <2>4
  <2> QED
    BY <2>2, <2>3, <2>5, SameBytes
<1> QED
  BY <1>13, <1>14, <1>15 DEF line

(* What was executed is the beginning of the lines, all if none waits.     *)
LEMMA Executed ==
  ASSUME NEW text \in Bytes, NEW d, NEW r, InOrder(text, d, r)
  PROVE  /\ IsPrefix(r, Lines(text))
         /\ "nl" \notin ToSet(Rest(text, d)) => r = Lines(text)
<1> DEFINE P == Breaks(text)
           n == Cardinality(P)
           S == {Lines(text)[k] : k \in 1..n}
<1>1. d \in 0..Len(text) /\ d \in Nat /\ Len(text) \in Nat /\ r \in Seq(Bytes)
      /\ Len(r) = Cardinality(UpToPos(P, d)) /\ Len(r) \in Nat /\ n \in Nat
      /\ \A k \in 1..Len(r) : r[k] = Lines(text)[k]
  BY BytesType, BreaksIs, LenProperties DEF InOrder
<1>2. Len(r) <= n
  <2>1. P \in SUBSET (1..Len(text))
    BY BreaksIs
  <2>2. Cardinality(UpToPos(P, d)) <= Cardinality(P)
    BY <1>1, <2>1, Counted
  <2> QED
    BY <1>1, <2>2
<1>3. Lines(text) \in Seq(S) /\ Len(Lines(text)) = n
  <2>1. Lines(text) = [k \in 1..n |-> Lines(text)[k]]
    BY DEF Lines
  <2>2. \A k \in 1..n : Lines(text)[k] \in S
    OBVIOUS
  <2>3. n \in Nat
    BY <1>1
  <2> HIDE DEF S, n
  <2>4. Lines(text) \in [1..n -> S]
    BY <2>1, <2>2
  <2> QED
    BY <2>3, <2>4, SeqDef, LenProperties
<1>4. r \in Seq(S)
  <2> DEFINE m == Len(r)
  <2>1. m \in Nat /\ r = [k \in 1..m |-> r[k]]
    BY <1>1, LenProperties
  <2>2. \A k \in 1..m : r[k] \in S
    BY <1>1, <1>2
  <2> HIDE DEF S, m
  <2>3. r \in [1..m -> S]
    BY <2>1, <2>2
  <2> QED
    BY <2>1, <2>3, SeqDef
<1> HIDE DEF S, n
<1>5. IsPrefix(r, Lines(text))
  <2>1. SubSeq(r, 1, Len(r)) = r
    BY <1>4, SubSeqFull
  <2>2. /\ \A k \in 1..Len(r) : Lines(text)[k] \in S
    BY <1>1, <1>4, ElementOfSeq
  <2>3. /\ SubSeq(Lines(text), 1, Len(r)) \in Seq(S)
        /\ Len(SubSeq(Lines(text), 1, Len(r))) = Len(r)
        /\ \A k \in 1..Len(r) : SubSeq(Lines(text), 1, Len(r))[k] = Lines(text)[k]
    <3>1. /\ SubSeq(Lines(text), 1, Len(r)) \in Seq(S)
          /\ Len(SubSeq(Lines(text), 1, Len(r))) =
               IF 1 <= Len(r) THEN (Len(r) - 1) + 1 ELSE 0
          /\ \A k \in 1..((Len(r) - 1) + 1) :
               SubSeq(Lines(text), 1, Len(r))[k] = Lines(text)[(1 + k) - 1]
      BY <1>1, <2>2, SubSeqProperties
    <3>2. (Len(r) - 1) + 1 = Len(r) /\ (~(1 <= Len(r)) => Len(r) = 0)
          /\ \A k \in 1..Len(r) : (1 + k) - 1 = k
      BY <1>1
    <3> QED
      BY <3>1, <3>2
  <2>4. SubSeq(Lines(text), 1, Len(r)) = r
    BY <1>1, <1>4, <2>3, SeqEqual
  <2> QED
    BY <1>1, <1>2, <1>3, <2>1, <2>4 DEF IsPrefix
<1>6. ASSUME "nl" \notin ToSet(Rest(text, d)) PROVE r = Lines(text)
  <2>1. /\ Rest(text, d) \in Bytes /\ Len(Rest(text, d)) = Len(text) - d
        /\ \A i \in 1..(Len(text) - d) : Rest(text, d)[i] = text[d + i]
    BY <1>1, RestIs
  <2>2. \A i \in 1..(Len(text) - d) : text[d + i] # "nl"
    BY <1>6, <2>1, BytesType
  <2>3. \A j \in P : ~(d < j /\ j <= Len(text))
    <3> SUFFICES ASSUME NEW j \in P, d < j, j <= Len(text) PROVE FALSE
      OBVIOUS
    <3>1. j \in 1..Len(text) /\ text[j] = "nl"
      BY DEF Breaks
    <3>2. j - d \in 1..(Len(text) - d) /\ d + (j - d) = j
      BY <1>1, <3>1
    <3> QED
      BY <2>2, <3>1, <3>2
  <2>4. P \in SUBSET Nat /\ d <= Len(text)
    BY <1>1, BreaksIs
  <2>5. UpToPos(P, d) = UpToPos(P, Len(text))
    BY <1>1, <2>3, <2>4, CountSame
  <2>6. UpToPos(P, Len(text)) = P
    <3>1. \A j \in P : j <= Len(text)
      BY BreaksIs
    <3> QED
      BY <3>1 DEF UpToPos
  <2>7. Len(r) = Len(Lines(text))
    BY <1>1, <1>3, <2>5, <2>6 DEF n
  <2> QED
    BY <1>1, <1>3, <1>4, <2>7, SeqEqual
<1> QED
  BY <1>5, <1>6

-------------------------------------------------------------------------------
(* The buffer of a session holds what follows its last executed line.      *)
Ordered ==
  port = "xdr" /\ begin > 0 /\ "nul" \notin ToSet(stream) =>
    /\ Text \in Bytes
    /\ \E d \in 0..Len(Text) : /\ InOrder(Text, d, ran)
                               /\ CommandLoop => buffer = Rest(Text, d)

LEMMA TextIs ==
  ASSUME Typed, begin <= at
  PROVE  Text \in Bytes /\ Len(Text) = at - begin /\ Len(Text) \in Nat
<1>1. Len(stream) \in Nat /\ at \in Nat /\ begin \in Nat /\ at <= Len(stream)
  BY BytesType DEF Typed
<1>2. Text \in Bytes /\ Len(Text) = at - begin
  BY <1>1, Slice DEF Text, Typed
<1> QED
  BY <1>1, <1>2

(* A receive makes the text longer by what it brings.                      *)
LEMMA TextGrows ==
  ASSUME Typed, begin \in 0..at, NEW n \in Nat, n <= sent - at
  PROVE  SubSeq(stream, begin + 1, at + n) = Text \o SubSeq(stream, at + 1, at + n)
<1> DEFINE seg == SubSeq(stream, at + 1, at + n)
           whole == SubSeq(stream, begin + 1, at + n)
<1>1. /\ seg \in Bytes /\ Len(seg) = n /\ \A i \in 1..n : seg[i] = stream[at + i]
      /\ at \in Nat /\ at + n \in Nat /\ at + n <= Len(stream) /\ Len(stream) \in Nat
  BY Segment DEF Typed
<1>2. begin \in Nat /\ begin <= at /\ begin <= at + n /\ at <= Len(stream)
  BY <1>1 DEF Typed
<1>3. /\ Text \in Bytes /\ Len(Text) = at - begin
      /\ \A i \in 1..(at - begin) : Text[i] = stream[begin + i]
  BY <1>1, <1>2, Slice DEF Text, Typed
<1>4. /\ whole \in Bytes /\ Len(whole) = (at + n) - begin
      /\ \A i \in 1..((at + n) - begin) : whole[i] = stream[begin + i]
  BY <1>1, <1>2, Slice DEF Typed
<1> HIDE DEF seg, whole
<1>5. /\ Text \o seg \in Bytes /\ Len(Text \o seg) = (at - begin) + n
      /\ \A i \in 1..((at - begin) + n) :
           (Text \o seg)[i] = IF i <= at - begin THEN Text[i] ELSE seg[i - (at - begin)]
  <2>1. /\ Text \o seg \in Bytes /\ Len(Text \o seg) = Len(Text) + Len(seg)
        /\ \A i \in 1..(Len(Text) + Len(seg)) :
             (Text \o seg)[i] = IF i <= Len(Text) THEN Text[i] ELSE seg[i - Len(Text)]
    BY <1>1, <1>3, ConcatIs
  <2>2. Len(Text) = at - begin /\ Len(seg) = n
    BY <1>1, <1>3
  <2> QED
    BY <2>1, <2>2
<1>6. (at + n) - begin = (at - begin) + n
  BY <1>1, <1>2
<1>7. ASSUME NEW i \in 1..((at - begin) + n) PROVE (Text \o seg)[i] = whole[i]
  <2>1. CASE i <= at - begin
    <3>1. i \in 1..(at - begin)
      BY <1>1, <1>2, <2>1
    <3> QED
      BY <1>3, <1>4, <1>5, <1>6, <2>1, <3>1
  <2>2. CASE ~(i <= at - begin)
    <3>1. i - (at - begin) \in 1..n /\ at + (i - (at - begin)) = begin + i
      BY <1>1, <1>2, <2>2
    <3> QED
      BY <1>1, <1>4, <1>5, <1>6, <2>2, <3>1
  <2> QED
    BY <2>1, <2>2
<1>8. Text \o seg = whole
  BY <1>4, <1>5, <1>6, <1>7, SameBytes
<1> QED
  BY <1>8 DEF seg, whole

LEMMA RestGrows ==
  ASSUME NEW text \in Bytes, NEW more \in Bytes, NEW d \in 0..Len(text)
  PROVE  Rest(text \o more, d) = Rest(text, d) \o more
<1>1. /\ text \o more \in Bytes /\ Len(text \o more) = Len(text) + Len(more)
      /\ Len(text) \in Nat /\ Len(more) \in Nat /\ d \in Nat /\ d \in 0..Len(text \o more)
      /\ \A i \in 1..(Len(text) + Len(more)) :
           (text \o more)[i] = IF i <= Len(text) THEN text[i] ELSE more[i - Len(text)]
  <2>1. /\ text \o more \in Bytes /\ Len(text \o more) = Len(text) + Len(more)
        /\ \A i \in 1..(Len(text) + Len(more)) :
             (text \o more)[i] = IF i <= Len(text) THEN text[i] ELSE more[i - Len(text)]
    BY ConcatIs
  <2>2. Len(text) \in Nat /\ Len(more) \in Nat
    BY BytesType
  <2>3. d \in Nat /\ d \in 0..(Len(text) + Len(more))
    BY <2>2
  <2> QED
    BY <2>1, <2>2, <2>3
<1>2. /\ Rest(text, d) \in Bytes /\ Len(Rest(text, d)) = Len(text) - d
      /\ \A i \in 1..(Len(text) - d) : Rest(text, d)[i] = text[d + i]
  BY RestIs
<1>3. /\ Rest(text \o more, d) \in Bytes
      /\ Len(Rest(text \o more, d)) = Len(text \o more) - d
      /\ \A i \in 1..(Len(text \o more) - d) : Rest(text \o more, d)[i] = (text \o more)[d + i]
  BY <1>1, RestIs
<1>4. /\ Rest(text, d) \o more \in Bytes
      /\ Len(Rest(text, d) \o more) = (Len(text) - d) + Len(more)
      /\ \A i \in 1..((Len(text) - d) + Len(more)) :
           (Rest(text, d) \o more)[i] =
             IF i <= Len(text) - d THEN Rest(text, d)[i] ELSE more[i - (Len(text) - d)]
  <2>1. PICK u \in Bytes : u = Rest(text, d) /\ Len(u) = Len(text) - d
    BY <1>2
  <2>2. /\ u \o more \in Bytes /\ Len(u \o more) = Len(u) + Len(more)
        /\ \A i \in 1..(Len(u) + Len(more)) :
             (u \o more)[i] = IF i <= Len(u) THEN u[i] ELSE more[i - Len(u)]
    BY ConcatIs
  <2> QED
    BY <2>1, <2>2
<1>5. Len(text \o more) - d = (Len(text) - d) + Len(more)
  BY <1>1
<1>6. ASSUME NEW i \in 1..((Len(text) - d) + Len(more))
      PROVE  Rest(text \o more, d)[i] = (Rest(text, d) \o more)[i]
  <2>1. d + i \in 1..(Len(text) + Len(more)) /\ i \in 1..(Len(text \o more) - d)
    BY <1>1
  <2>2. CASE i <= Len(text) - d
    <3>1. d + i <= Len(text) /\ i \in 1..(Len(text) - d)
      BY <1>1, <2>2
    <3> QED
      BY <1>1, <1>2, <1>3, <1>4, <2>1, <2>2, <3>1
  <2>3. CASE ~(i <= Len(text) - d)
    <3>1. ~(d + i <= Len(text)) /\ (d + i) - Len(text) = i - (Len(text) - d)
      BY <1>1, <2>3
    <3> QED
      BY <1>1, <1>3, <1>4, <2>1, <2>3, <3>1
  <2> QED
    BY <2>2, <2>3
<1> QED
  BY <1>3, <1>4, <1>5, <1>6, SameBytes

LEMMA OrderedReceive ==
  ASSUME Typed, Phases, Ordered, Receive
  PROVE  Ordered'
<1>1. PICK n \in 1..Chunk :
        n <= sent - at /\ at' = at + n
        /\ buffer' = buffer \o UpToNul(SubSeq(stream, at + 1, at + n))
  BY DEF Receive, BufferSize
<1>2. n \in Nat
  BY Sizes
<1>3. CommandLoop /\ UNCHANGED <<port, stream, begin, ran>> /\ phase' \in {phase, "ended"}
  BY DEF Receive, LeaveLoop, history, client
<1>4. begin \in 0..at /\ begin <= at
  <2>1. begin \in 1..at /\ at \in Nat
    BY <1>3, BytesType DEF Phases, Typed
  <2> QED
    BY <2>1
<1> DEFINE seg == SubSeq(stream, at + 1, at + n)
<1>5. seg \in Bytes /\ Len(seg) = n /\ Len(stream) \in Nat
      /\ \A i \in 1..n : seg[i] = stream[at + i]
      /\ at + n <= Len(stream) /\ at \in Nat
  BY <1>1, <1>2, Segment
<1>6. Text' = Text \o seg
  <2>1. Text' = SubSeq(stream, begin + 1, at + n)
    BY <1>1, <1>3 DEF Text
  <2> QED
    BY <1>1, <1>2, <1>4, <2>1, TextGrows
<1>7. ASSUME port = "xdr", begin > 0, "nul" \notin ToSet(stream)
      PROVE  /\ Text' \in Bytes
             /\ \E d \in 0..Len(Text') : /\ InOrder(Text', d, ran)
                                         /\ CommandLoop => buffer' = Rest(Text', d)
  <2>1. PICK d \in 0..Len(Text) : InOrder(Text, d, ran) /\ buffer = Rest(Text, d)
    BY <1>3, <1>7 DEF Ordered
  <2>2. "nul" \notin ToSet(seg)
    <3>1. \A i \in 1..n : at + i \in 1..Len(stream)
      <4>1. PICK a \in Nat, l \in Nat : a = at /\ l = Len(stream) /\ a + n <= l
        BY <1>5
      <4>2. \A i \in 1..n : a + i \in 1..l
        BY <1>2, <4>1
      <4> QED
        BY <4>1, <4>2
    <3>2. \A i \in 1..Len(stream) : stream[i] # "nul"
      BY <1>7, BytesType DEF Typed
    <3>3. \A i \in 1..n : seg[i] # "nul"
      BY <1>5, <3>1, <3>2
    <3> HIDE DEF seg
    <3> QED
      BY <1>5, <3>3, BytesType
  <2>3. buffer' = Rest(Text, d) \o seg
    BY <1>1, <1>5, <2>1, <2>2, UpToNulIs
  <2>4. Text \in Bytes /\ Text' \in Bytes /\ Len(Text') = Len(Text) + Len(seg)
        /\ Len(Text) \in Nat
    BY <1>4, <1>5, <1>6, TextIs, ConcatIs
  <2> HIDE DEF seg
  <2>5. InOrder(Text', d, ran)
    BY <1>5, <1>6, <2>1, <2>4, Grow
  <2>6. buffer' = Rest(Text', d)
    BY <1>5, <1>6, <2>3, <2>4, RestGrows
  <2>7. d \in 0..Len(Text')
    BY <2>5 DEF InOrder
  <2> QED
    BY <2>4, <2>5, <2>6, <2>7
<1> QED
  BY <1>3, <1>7 DEF Ordered

LEMMA OrderedExecute ==
  ASSUME Typed, Phases, Ordered, ExecuteLine
  PROVE  Ordered'
<1>1. CommandLoop /\ WholeLine /\ UNCHANGED <<port, stream, begin, at>>
      /\ buffer' = Rest(buffer, Find("nl", buffer))
  BY DEF ExecuteLine, client, XdrExecutes, FmdxExecutes, history
<1>2. Text' = Text
  BY <1>1 DEF Text
<1>3. begin <= at
  <2>1. begin \in 1..at /\ at \in Nat
    BY <1>1, BytesType DEF Phases, Typed
  <2> QED
    BY <2>1
<1>4. ASSUME port = "xdr", begin > 0, "nul" \notin ToSet(stream)
      PROVE  /\ Text \in Bytes
             /\ \E d \in 0..Len(Text) : /\ InOrder(Text, d, ran')
                                        /\ CommandLoop' => buffer' = Rest(Text, d)
  <2>0. Text \in Bytes
    BY <1>3, TextIs
  <2>1. PICK d \in 0..Len(Text) : InOrder(Text, d, ran) /\ buffer = Rest(Text, d)
    BY <1>1, <1>4 DEF Ordered
  <2>2. CASE phase' = "ended" /\ UNCHANGED history
    <3>1. ~CommandLoop' /\ ran' = ran
      BY <2>2 DEF CommandLoop, history
    <3> QED
      BY <2>0, <2>1, <3>1
  <2>3. CASE ran' = Append(ran, Line)
    <3>1. Text \in Bytes
      BY <1>3, TextIs
    <3> DEFINE p == Find("nl", Rest(Text, d))
    <3>2. "nl" \in ToSet(Rest(Text, d)) /\ p = Find("nl", buffer)
      BY <1>1, <2>1 DEF WholeLine
    <3>3. Line = Trimmed(SubSeq(Rest(Text, d), 1, p - 1))
      BY <2>1, <3>2 DEF Line
    <3>4. buffer' = Rest(Rest(Text, d), p)
      BY <1>1, <2>1
    <3> HIDE DEF p
    <3>5. p = Find("nl", Rest(Text, d))
      BY DEF p
    <3>6. InOrder(Text, d + p, Append(ran, Trimmed(SubSeq(Rest(Text, d), 1, p - 1))))
          /\ Rest(Rest(Text, d), p) = Rest(Text, d + p) /\ d + p \in 0..Len(Text)
      BY <2>1, <3>1, <3>2, <3>5, NextLine
    <3> QED
      BY <2>0, <2>3, <3>3, <3>4, <3>6
  <2> QED
    BY <2>2, <2>3 DEF ExecuteLine
<1> QED
  BY <1>1, <1>2, <1>4 DEF Ordered

(* The commands begin with no text.                                        *)
LEMMA OrderedBegins ==
  ASSUME Typed, Phases, Peek \/ Handshake \/ Login
  PROVE  Ordered'
<1>1. port = "xdr" /\ phase \in Before /\ begin = 0 /\ ran = <<>> /\ buffer = <<>>
  BY DEF Typed, Phases, Peek, Handshake, Login, Before
<1>2. CASE begin' = begin
  BY <1>1, <1>2 DEF Ordered
<1>3. ASSUME NEW next, (Handshake \/ Login) /\ TakeLineThen(next)
      PROVE  Ordered'
  <2>1. begin' = at' /\ ran' = <<>> /\ buffer' = <<>> /\ stream' = stream
    BY <1>1, <1>3 DEF TakeLineThen, Handshake, Login, client
  <2>2. Typed'
    BY <1>3, TypedBefore
  <2>3. at' \in Nat /\ at' <= Len(stream') /\ Len(stream') \in Nat
    <3>1. Len(stream) \in Nat
      BY BytesType DEF Typed
    <3> QED
      BY <2>1, <2>2, <3>1 DEF Typed
  <2>4. Text' = <<>>
    <3>1. Text' = SubSeq(stream', at' + 1, at')
      BY <2>1 DEF Text
    <3>2. PICK a \in Nat, s \in Bytes : a = at' /\ s = stream' /\ a <= Len(s)
      BY <2>2, <2>3 DEF Typed
    <3>3. a - a = 0 /\ a <= a
      OBVIOUS
    <3>4. SubSeq(s, a + 1, a) \in Bytes /\ Len(SubSeq(s, a + 1, a)) = 0
      BY <3>2, <3>3, Slice
    <3> QED
      BY <3>1, <3>2, <3>4, BytesType
  <2>5. <<>> \in Bytes /\ Len(<<>>) = 0 /\ <<>> \in Seq(Bytes) /\ 0 \in 0..0
    BY DEF Bytes
  <2>6. InOrder(<<>>, 0, <<>>)
    BY <2>5, BreaksIs DEF InOrder
  <2>7. Rest(<<>>, 0) = <<>>
    <3>1. Rest(<<>>, 0) \in Bytes /\ Len(Rest(<<>>, 0)) = 0 - 0
      BY <2>5, RestIs
    <3> QED
      BY <3>1, BytesType
  <2> QED
    BY <2>1, <2>4, <2>5, <2>6, <2>7 DEF Ordered
<1> QED
  BY <1>2, <1>3 DEF Peek, Handshake, Login, history

LEMMA OrderedNext ==
  ASSUME Typed, Phases, Ordered, [Next]_vars
  PROVE  Ordered'
<1>1. CASE Disconnected
  <2>1. UNCHANGED <<port, stream, at, begin, ran>> /\ phase' = "ended"
    BY <1>1 DEF Disconnected, LeaveLoop, client
  <2>2. Text' = Text /\ ~CommandLoop'
    BY <2>1 DEF Text, CommandLoop
  <2> QED
    BY <2>1, <2>2 DEF Ordered
<1>2. CASE Arrive \/ Close \/ Stop \/ UNCHANGED vars
  <2>1. UNCHANGED <<port, stream, session, history>>
    BY <1>2 DEF Arrive, Close, Stop, vars, client
  <2>2. UNCHANGED <<at, begin, ran, buffer, phase>> /\ Text' = Text
    BY <2>1 DEF session, history, Text
  <2> QED
    BY <2>1, <2>2 DEF Ordered, CommandLoop
<1>3. CASE ReceiveRequest \/ Answer
  <2>1. port' = "rest"
    BY <1>3 DEF Typed, Phases, Before, ReceiveRequest, Answer, WantsHeader, WantsBody, client
  <2> QED
    BY <2>1 DEF Ordered
<1> QED
  BY <1>1, <1>2, <1>3, OrderedReceive, OrderedExecute, OrderedBegins DEF Next, ServerStep

-------------------------------------------------------------------------------
(* A request is what has arrived, and what has arrived of a header says    *)
(* what the whole header says.                                             *)
Whole ==
  begin > 0 /\ ~closed /\ Len(stream) - begin = ContentLength(stream)
  /\ ContentLength(stream) <= RequestLimit =>
       ran = Rest(stream, begin) /\ calls = applyParams(Query(stream) \o ran)

Posted ==
  port = "rest" =>
    /\ shut = FALSE /\ buffer = SubSeq(stream, 1, at)
    /\ Whole

LEMMA LengthIs ==
  ASSUME NEW s \in Bytes, "end" \in ToSet(s)
  PROVE  ContentLength(s) \in Nat
<1> DEFINE lengths == {i \in 1..(Find("end", s) - 1) : s[i] \in DOMAIN Declared}
<1>1. PICK e \in 1..Len(s) : e = Find("end", s)
  BY FindFirst
<1>2. \A b \in DOMAIN Declared : Declared[b] \in Nat
  <2>1. DOMAIN Declared = {"len0", "len1", "len2", "len9"}
    BY DEF Declared
  <2>2. Declared["len0"] = 0 /\ Declared["len1"] = 1 /\ Declared["len2"] = 2
        /\ Declared["len9"] = 9
    BY DEF Declared
  <2> QED
    BY <2>1, <2>2
<1>3. CASE lengths = {}
  BY <1>3 DEF ContentLength
<1>4. CASE lengths # {}
  <2>1. lengths \in SUBSET Nat
    BY <1>1, BytesType
  <2>2. \E k \in lengths : \A n \in lengths : k <= n
    BY <1>4, <2>1, Least
  <2> DEFINE first == CHOOSE i \in lengths : \A j \in lengths : i <= j
  <2>3. first \in lengths
    BY <2>2
  <2>4. ContentLength(s) = Declared[s[first]]
    BY <1>4 DEF ContentLength
  <2>5. s[first] \in DOMAIN Declared
    BY <2>3
  <2> QED
    BY <1>2, <2>4, <2>5
<1> QED
  BY <1>3, <1>4

LEMMA SameLength ==
  ASSUME NEW s \in Bytes, NEW t \in Bytes, "end" \in ToSet(s), Len(s) <= Len(t),
         \A i \in 1..Len(s) : t[i] = s[i]
  PROVE  /\ "end" \in ToSet(t) /\ Find("end", t) = Find("end", s)
         /\ ContentLength(t) = ContentLength(s)
<1>1. PICK e \in 1..Len(s) : e = Find("end", s) /\ s[e] = "end"
                             /\ \A i \in 1..Len(s) : s[i] = "end" => e <= i
  BY FindFirst
<1>2. Len(s) \in Nat /\ Len(t) \in Nat
  BY BytesType
<1>3. e \in 1..Len(t) /\ t[e] = "end" /\ \A i \in 1..Len(t) : t[i] = "end" => e <= i
  <2>1. \A i \in 1..Len(t) : ~(e <= i) => i \in 1..Len(s)
    BY <1>1, <1>2
  <2> QED
    BY <1>1, <1>2, <2>1
<1>4. "end" \in ToSet(t) /\ Find("end", t) = e
  BY <1>3, FindIs
<1>5. \A i \in 1..(e - 1) : t[i] = s[i]
  BY <1>1, <1>2
<1>6. {i \in 1..(e - 1) : t[i] \in DOMAIN Declared}
        = {i \in 1..(e - 1) : s[i] \in DOMAIN Declared}
  BY <1>5
<1> DEFINE lengths == {i \in 1..(e - 1) : s[i] \in DOMAIN Declared}
           first == CHOOSE i \in lengths : \A j \in lengths : i <= j
<1>7. ContentLength(s) = IF lengths = {} THEN 0 ELSE Declared[s[first]]
  BY <1>1 DEF ContentLength
<1>8. ContentLength(t) = IF lengths = {} THEN 0 ELSE Declared[t[first]]
  <2> DEFINE these == {i \in 1..(e - 1) : t[i] \in DOMAIN Declared}
  <2>1. ContentLength(t) = IF these = {} THEN 0
                           ELSE Declared[t[CHOOSE i \in these : \A j \in these : i <= j]]
    <3> DEFINE those == {i \in 1..(Find("end", t) - 1) : t[i] \in DOMAIN Declared}
    <3>1. ContentLength(t) = IF those = {} THEN 0
                             ELSE Declared[t[CHOOSE i \in those : \A j \in those : i <= j]]
      BY DEF ContentLength
    <3>2. those = these
      BY <1>4
    <3> HIDE DEF these, those
    <3> QED
      BY <3>1, <3>2
  <2>2. these = lengths
    BY <1>6
  <2> HIDE DEF these, lengths
  <2> QED
    BY <2>1, <2>2
<1>9. lengths # {} => first \in 1..(e - 1)
  <2>1. lengths \in SUBSET Nat
    BY <1>1
  <2>2. ASSUME lengths # {} PROVE \E k \in lengths : \A n \in lengths : k <= n
    BY <2>1, <2>2, Least
  <2>3. ASSUME lengths # {} PROVE first \in lengths
    BY <2>2, <2>3
  <2> QED
    BY <2>3
<1> HIDE DEF first, lengths
<1>10. ContentLength(t) = ContentLength(s)
  BY <1>5, <1>7, <1>8, <1>9
<1> QED
  BY <1>1, <1>4, <1>10

LEMMA PostedReceive ==
  ASSUME Typed, Phases, Posted, ReceiveRequest
  PROVE  Posted'
<1>1. PICK n \in 1..Chunk : n <= sent - at /\ at' = at + n
                            /\ buffer' = buffer \o SubSeq(stream, at + 1, at + n)
  BY DEF ReceiveRequest
<1>2. n \in Nat
  BY Sizes
<1>3. phase = "header" /\ begin = 0
  BY DEF ReceiveRequest, WantsHeader, WantsBody, Phases
<1>4. UNCHANGED <<port, stream, shut, begin>>
  BY DEF ReceiveRequest, client, server, history
<1>5. ASSUME port = "rest" PROVE buffer' = SubSeq(stream, 1, at + n)
  <2>1. buffer = Text
    BY <1>3, <1>5 DEF Posted, Text
  <2>2. 0 \in 0..at /\ begin \in 0..at
    <3>1. at \in Nat
      BY BytesType DEF Typed
    <3> QED
      BY <1>3, <3>1
  <2>3. SubSeq(stream, begin + 1, at + n) = Text \o SubSeq(stream, at + 1, at + n)
    BY <1>1, <1>2, <2>2, TextGrows
  <2>4. begin + 1 = 1
    BY <1>3
  <2> QED
    BY <1>1, <2>1, <2>3, <2>4
<1>6. Whole'
  <2>1. ~(begin' > 0)
    BY <1>3, <1>4
  <2> QED
    BY <2>1 DEF Whole
<1> QED
  BY <1>1, <1>4, <1>5, <1>6 DEF Posted

LEMMA PostedAnswer ==
  ASSUME Typed, Phases, Posted, Answer
  PROVE  Posted'
<1>1. /\ UNCHANGED <<port, stream, shut, closed, at, buffer>> /\ begin = 0
      /\ phase = "header" /\ port = "rest"
  BY DEF Answer, End, client, server, Phases, Typed, Before
<1>2. ASSUME begin' > 0, ~closed, Len(stream) - begin' = ContentLength(stream),
             ContentLength(stream) <= RequestLimit
      PROVE  ran' = Rest(stream, begin') /\ calls' = applyParams(Query(stream) \o ran')
  <2>1. HasHeader(buffer) /\ buffer[1] \notin {"options", "status"}
    BY <1>1, <1>2 DEF Answer
  <2>2. /\ ran' = Body(buffer) /\ begin' = Find("end", buffer)
        /\ calls' = applyParams(Query(buffer) \o Body(buffer))
    BY <2>1 DEF Answer
  <2>3. ~WantsBody
    BY <1>1, <1>2 DEF Answer, Gone, Posted
  <2>4. /\ buffer \in Bytes /\ "end" \in ToSet(buffer) /\ buffer = SubSeq(stream, 1, at)
        /\ stream \in Bytes /\ Len(stream) \in Nat /\ at \in Nat /\ at <= Len(stream)
    BY <1>1, <2>1, BytesType DEF Typed, HasHeader, Posted
  <2>5. Len(buffer) = at /\ \A i \in 1..at : buffer[i] = stream[i]
    <3>1. 0 \in Nat /\ 0 <= at /\ 0 + 1 = 1 /\ at - 0 = at /\ \A i \in 1..at : 0 + i = i
      BY <2>4
    <3>2. /\ Len(SubSeq(stream, 0 + 1, at)) = at - 0
          /\ \A i \in 1..(at - 0) : SubSeq(stream, 0 + 1, at)[i] = stream[0 + i]
      BY <2>4, <3>1, Slice
    <3> QED
      BY <2>4, <3>1, <3>2
  <2>6. ContentLength(stream) = ContentLength(buffer)
    BY <2>4, <2>5, SameLength
  <2>7. PICK c \in Nat : c = ContentLength(buffer)
    BY <2>4, LengthIs
  <2>8. PICK e \in 1..at : e = Find("end", buffer)
    BY <2>4, <2>5, FindFirst
  <2>9. Len(Body(buffer)) = at - e
    <3>1. e \in 0..Len(buffer)
      BY <2>4, <2>5, <2>8
    <3> QED
      BY <2>4, <2>5, <2>8, <3>1, RestIs DEF Body
  <2>10. ~(at - e < c /\ at - e < RequestLimit)
    <3>1. buffer[1] # "options"
      BY <2>1
    <3> QED
      BY <1>1, <2>1, <2>3, <2>7, <2>9, <3>1 DEF WantsBody
  <2>11. Len(stream) - e = c /\ c <= RequestLimit
    BY <1>2, <2>2, <2>6, <2>7, <2>8
  <2>12. at = Len(stream)
    BY <2>4, <2>7, <2>8, <2>10, <2>11, Sizes
  <2>13. buffer = stream
    BY <2>4, <2>5, <2>12, SameBytes
  <2> QED
    BY <2>2, <2>13 DEF Body
<1>3. Whole'
  BY <1>1, <1>2 DEF Whole
<1> QED
  BY <1>1, <1>3 DEF Posted

LEMMA PostedNext ==
  ASSUME Typed, Phases, Posted, [Next]_vars
  PROVE  Posted'
<1>1. CASE Arrive
  <2>1. UNCHANGED <<port, stream, closed, shut, at, buffer, begin, ran, calls>>
    BY <1>1 DEF Arrive, server, session, history
  <2> QED
    BY <2>1 DEF Posted, Whole
<1>2. CASE Close
  <2>1. closed' = TRUE /\ UNCHANGED <<port, stream, shut, at, buffer>>
    BY <1>2 DEF Close, server, session
  <2> QED
    BY <2>1 DEF Posted, Whole
<1>3. CASE Stop
  <2>1. shut' = (port = "xdr") /\ UNCHANGED <<port, stream, closed, at, buffer, begin, ran, calls>>
    BY <1>3 DEF Stop, client, session, history
  <2> QED
    BY <2>1 DEF Posted, Whole
<1>4. CASE UNCHANGED vars
  BY <1>4 DEF Posted, Whole, vars, client, server, session, history
<1>5. CASE Peek \/ Handshake \/ Login \/ Receive \/ Disconnected \/ ExecuteLine
  <2>1. port' = "xdr"
    BY <1>5 DEF Typed, Phases, Before, Peek, Handshake, Login, Receive, Disconnected,
                ExecuteLine, CommandLoop, client
  <2> QED
    BY <2>1 DEF Posted
<1> QED
  BY <1>1, <1>2, <1>3, <1>4, <1>5, PostedReceive, PostedAnswer DEF Next, ServerStep

(* The lines of an XDR session run whole, in their order and none twice,   *)
(* however they are cut; a REST client that sends the body it declared has *)
(* that body applied, after its query string; and no front end asks the    *)
(* main loop for what its callbacks do not handle.                         *)
THEOREM RequestsFaithful == Spec => []Faithful
<1>1. Init => Ordered /\ Posted
  <2> SUFFICES ASSUME Init PROVE Ordered /\ Posted
    OBVIOUS
  <2>1. Typed
    BY TypedInit
  <2>2. SubSeq(stream, 1, 0) = <<>>
    <3>1. Len(stream) \in Nat /\ 0 \in Nat /\ 0 <= 0 /\ 0 <= Len(stream) /\ 0 - 0 = 0
          /\ 0 + 1 = 1
      BY <2>1, BytesType DEF Typed
    <3>2. SubSeq(stream, 1, 0) \in Bytes /\ Len(SubSeq(stream, 1, 0)) = 0
      BY <2>1, <3>1, Slice DEF Typed
    <3> QED
      BY <3>2, BytesType
  <2> QED
    BY <2>2 DEF Init, Ordered, Posted, Whole
<1>2. Typed /\ Phases /\ Ordered /\ Posted /\ [Next]_vars => Ordered' /\ Posted'
  BY OrderedNext, PostedNext
<1>3. Typed /\ Phases /\ Ordered /\ Posted => Faithful
  <2> SUFFICES ASSUME Typed, Phases, Ordered, Posted PROVE Faithful
    OBVIOUS
  <2>1. ASSUME port = "xdr", begin > 0, "nul" \notin ToSet(stream)
        PROVE  /\ IsPrefix(ran, Lines(Text))
               /\ CommandLoop /\ ~WholeLine => ran = Lines(Text)
    <3>1. PICK d \in 0..Len(Text) : /\ InOrder(Text, d, ran)
                                    /\ CommandLoop => buffer = Rest(Text, d)
      BY <2>1 DEF Ordered
    <3>2. Text \in Bytes
      BY <2>1 DEF Ordered
    <3>3. IsPrefix(ran, Lines(Text))
          /\ ("nl" \notin ToSet(Rest(Text, d)) => ran = Lines(Text))
      BY <3>1, <3>2, Executed
    <3> QED
      BY <3>1, <3>3 DEF WholeLine
  <2>2. \A i \in 1..Len(calls) :
          calls[i].to \in DOMAIN Handles => calls[i].value \in Handles[calls[i].to]
    BY ElementOfSeq DEF Typed, Handled
  <2> QED
    BY <2>1, <2>2 DEF Faithful, Posted, Whole
<1> QED
  BY <1>1, <1>2, <1>3, TypedAlways, PTL DEF Spec

===============================================================================
