---------------------------- MODULE Startup_proof ----------------------------
(***************************************************************************)
(* That the program runs with what was asked, for every command line and   *)
(* every file; and that whatever happens to a start, and whenever the      *)
(* program is interrupted, all it has opened is closed at its end, and in  *)
(* an order that pulls nothing from under a thread; and that the window a  *)
(* calibration recommends is sound, whatever it has measured.              *)
(***************************************************************************)
EXTENDS Startup, SequenceTheorems, FiniteSetTheorems, WellFoundedInduction, TLAPS

(* Each way of closing, in its order.                                      *)
Plans == {Shutdown, Closes("audio"), Closes("mpxWav"), Closes("mpxAudio"), Closes("iq")}

(* What is left to close is the rest of one of them: all that is open is   *)
(* in that rest, and only what stands before it has been closed.           *)
Closing ==
  \E plan \in Plans, k \in Nat :
    /\ k <= Len(plan) /\ closing = SubSeq(plan, k + 1, Len(plan))
    /\ released = {plan[i] : i \in 1..k}
    /\ opened \subseteq {plan[i] : i \in (k + 1)..Len(plan)}

Held ==
  /\ pc \in {"load", "parse", "calibrate"} => opened = {} /\ released = {}
  /\ pc = "sweep" => opened = {"sweep"} /\ released = {}
  /\ pc = "open" => /\ released = {} /\ at \in 1..(Len(Order) + 1)
                    /\ opened \subseteq {Order[i] : i \in 1..(at - 1)}
  /\ pc = "serve" => released = {} /\ opened \subseteq Resources \ {"sweep"}
  /\ pc = "close" => Closing
  /\ pc = "ended" => opened = {}
  /\ pc \in {"load", "parse", "calibrate", "sweep", "open", "serve", "close", "ended"}

(* The plans, written out.                                                 *)
LEMMA PlanItems ==
  /\ Closes("audio") = <<"tuner">>
  /\ Closes("mpxWav") = <<"tuner", "audio">>
  /\ Closes("mpxAudio") = <<"tuner", "mpxWav", "audio">>
  /\ Closes("iq") = <<"audio", "tuner", "mpxAudio", "mpxWav">>
BY DEF Closes

LEMMA PlansAreSeqs == Plans \subseteq Seq(Resources) \ {<<>>}
<1>1. Shutdown \in Seq(Resources) \ {<<>>}
  BY DEF Shutdown, Resources
<1>2. Closes("audio") \in Seq(Resources) \ {<<>>}
  BY DEF Closes, Resources
<1>3. Closes("mpxWav") \in Seq(Resources) \ {<<>>}
  BY DEF Closes, Resources
<1>4. Closes("mpxAudio") \in Seq(Resources) \ {<<>>}
  BY DEF Closes, Resources
<1>5. Closes("iq") \in Seq(Resources) \ {<<>>}
  BY DEF Closes, Resources
<1> QED BY <1>1, <1>2, <1>3, <1>4, <1>5 DEF Plans

(* A plan that closes all that is open can be entered.                     *)
LEMMA EnterClosing ==
  ASSUME NEW plan \in Plans, closing' = plan, released' = {},
         opened' \subseteq {plan[i] : i \in 1..Len(plan)}
  PROVE  Closing'
<1>1. plan \in Seq(Resources)
  BY PlansAreSeqs
<1>2. SubSeq(plan, 1, Len(plan)) = plan
  BY <1>1, SubSeqFull
<1>3. {plan[i] : i \in 1..0} = {}
  OBVIOUS
<1>4. 0 \in Nat /\ 0 <= Len(plan) /\ 0 + 1 = 1
  BY <1>1
<1> QED BY <1>2, <1>3, <1>4 DEF Closing

(* Closing the next resource goes on with the plan.                        *)
LEMMA CloseNextKeepsPlan ==
  ASSUME Closing, closing # <<>>, closing' = Tail(closing),
         opened' = opened \ {Head(closing)}, released' = released \cup {Head(closing)}
  PROVE  Closing'
<1>1. PICK plan \in Plans, k \in Nat :
        /\ k <= Len(plan) /\ closing = SubSeq(plan, k + 1, Len(plan))
        /\ released = {plan[i] : i \in 1..k}
        /\ opened \subseteq {plan[i] : i \in (k + 1)..Len(plan)}
  BY DEF Closing
<1>2. plan \in Seq(Resources) /\ Len(plan) \in Nat
  BY PlansAreSeqs
<1>3. k < Len(plan)
  BY <1>1, <1>2
<1>4. Head(closing) = plan[k + 1] /\ closing' = SubSeq(plan, k + 2, Len(plan))
  BY <1>1, <1>2, <1>3
<1>5. released' = {plan[i] : i \in 1..(k + 1)}
  BY <1>1, <1>2, <1>4
<1>6. opened' \subseteq {plan[i] : i \in (k + 2)..Len(plan)}
  BY <1>1, <1>2, <1>4
<1>7. k + 1 \in Nat /\ k + 1 <= Len(plan) /\ (k + 1) + 1 = k + 2
  BY <1>2, <1>3
<1> QED BY <1>4, <1>5, <1>6, <1>7 DEF Closing

(* When the plan is at its end, nothing is open.                           *)
LEMMA ClosedAll == ASSUME Closing, closing = <<>> PROVE opened = {}
<1>1. PICK plan \in Plans, k \in Nat :
        /\ k <= Len(plan) /\ closing = SubSeq(plan, k + 1, Len(plan))
        /\ opened \subseteq {plan[i] : i \in (k + 1)..Len(plan)}
  BY DEF Closing
<1>2. plan \in Seq(Resources) /\ Len(plan) \in Nat
  BY PlansAreSeqs
<1>3. k = Len(plan)
  BY <1>1, <1>2
<1> QED BY <1>1, <1>2, <1>3

LEMMA HeldHolds == Spec => []Held
<1>1. Init => Held
  BY DEF Init, Held
<1>2. ASSUME Held, [Next]_vars PROVE Held'
  <2> USE <1>2
  <2>1. CASE ReadLine BY <2>1 DEF ReadLine, Held, input, resources
  <2>2. CASE NoSuchFile BY <2>2 DEF NoSuchFile, Held, Ends, resources
  <2>3. CASE Loaded BY <2>3 DEF Loaded, Held, resources
  <2>4. CASE ParseItem
    BY <2>4 DEF ParseItem, TakeItem, StopAtItem, ListAudio, Ends, Held, resources
  <2>5. CASE Parsed BY <2>5 DEF Parsed, Ends, Held, resources, Order
  <2>6. CASE OpenSweep BY <2>6 DEF OpenSweep, Ends, Held
  <2>7. CASE Measure BY <2>7 DEF Measure, Held, resources
  <2>8. CASE EndSweep BY <2>8 DEF EndSweep, Ends, Held
  <2>9. CASE Open
    <3>1. /\ pc = "open" /\ released = {} /\ released' = {} /\ at \in 1..Len(Order)
          /\ Len(Order) = 8 /\ opened \subseteq {Order[i] : i \in 1..(at - 1)}
          /\ at' = at + 1 /\ OpenNext(Order[at])
      BY <2>9 DEF Open, Held, Order
    <3>2. CASE UNCHANGED pc /\ opened' \subseteq opened \cup {Order[at]}
      <4>1. opened' \subseteq {Order[i] : i \in 1..(at' - 1)}
        BY <3>1, <3>2
      <4> QED BY <3>1, <3>2, <4>1 DEF Held
    <3>3. CASE Fatal(Order[at]) /\ pc' = "close" /\ closing' = Closes(Order[at])
               /\ UNCHANGED opened
      <4>1. /\ Closes(Order[at]) \in Plans
            /\ opened \subseteq {Closes(Order[at])[i] : i \in 1..Len(Closes(Order[at]))}
        <5>1. CASE at = 1
          BY <3>1, <5>1, PlanItems DEF Order, Plans
        <5>2. CASE at = 2
          <6>1. opened \subseteq {"audio"}
            BY <3>1, <5>2 DEF Order
          <6>2. <<"tuner", "audio">>[2] = "audio"
            OBVIOUS
          <6> QED BY <5>2, <6>1, <6>2, PlanItems DEF Order, Plans
        <5>3. CASE at = 3
          <6>1. opened \subseteq {"audio", "mpxWav"}
            BY <3>1, <5>3 DEF Order
          <6> QED BY <5>3, <6>1, PlanItems DEF Order, Plans
        <5>4. CASE at = 4
          <6>1. opened \subseteq {"audio", "mpxWav", "mpxAudio"}
            BY <3>1, <5>4 DEF Order
          <6> QED BY <5>4, <6>1, PlanItems DEF Order, Plans
        <5>5. at \in 1..4
          BY <3>1, <3>3 DEF Order, Fatal
        <5> QED BY <5>1, <5>2, <5>3, <5>4, <5>5
      <4>2. Closing'
        BY <3>1, <3>3, <4>1, EnterClosing
      <4> QED BY <3>3, <4>2 DEF Held
    <3> QED BY <3>1, <3>2, <3>3, Zenon DEF OpenNext
  <2>10. CASE EnterLoop BY <2>10 DEF EnterLoop, Held, resources, Order, Resources
  <2>11. CASE StartStop BY <2>11 DEF StartStop, Held, Resources
  <2>12. CASE Interrupt BY <2>12 DEF Interrupt, Held, resources, Closing
  <2>13. CASE LeaveLoop
    <3>1. opened \subseteq {Shutdown[i] : i \in 1..Len(Shutdown)}
      BY <2>13 DEF LeaveLoop, Held, Resources, Shutdown
    <3>2. Closing'
      BY <2>13, <3>1, EnterClosing DEF LeaveLoop, Held, Plans
    <3> QED BY <2>13, <3>2 DEF LeaveLoop, Held
  <2>14. CASE CloseNext
    <3>1. Closing'
      BY <2>14, CloseNextKeepsPlan DEF CloseNext, Held
    <3> QED BY <2>14, <3>1 DEF CloseNext, Held
  <2>15. CASE Return
    BY <2>15, ClosedAll DEF Return, Held, resources
  <2>16. CASE UNCHANGED vars BY <2>16 DEF vars, Held, resources, Closing
  <2> QED
    BY <2>1, <2>2, <2>3, <2>4, <2>5, <2>6, <2>7, <2>8, <2>9, <2>10, <2>11, <2>12,
       <2>13, <2>14, <2>15, <2>16 DEF Next
<1> QED BY <1>1, <1>2, PTL DEF Spec

(* At the end nothing is open, and nothing is closed under a thread that   *)
(* calls it, whatever failed to open and whenever the interrupt came.      *)
THEOREM ProgramGivesBack == Spec => []GivesBack
<1>1. ASSUME Held PROVE GivesBack
  <2>1. CASE pc = "close"
    <3>1. PICK plan \in Plans, k \in Nat :
            /\ released = {plan[i] : i \in 1..k}
            /\ opened \subseteq {plan[i] : i \in (k + 1)..Len(plan)}
      BY <1>1, <2>1 DEF Held, Closing
    <3>2. CASE plan = Shutdown
      BY <2>1, <3>1, <3>2 DEF Shutdown, GivesBack
    <3>3. CASE plan # Shutdown
      <4>1. {"rest", "worker"} \cap {plan[i] : i \in (k + 1)..Len(plan)} = {}
        BY <3>3, PlanItems DEF Plans
      <4> QED BY <2>1, <3>1, <4>1 DEF GivesBack
    <3> QED BY <3>2, <3>3
  <2> QED BY <1>1, <2>1 DEF Held, GivesBack
<1> QED BY <1>1, HeldHolds, PTL

-------------------------------------------------------------------------------
(* A set of positions that is not empty has a last one.                    *)
LEMMA LastPosition ==
  ASSUME NEW n \in Nat, NEW S \in SUBSET (1..n), S # {}
  PROVE  Max(S) \in S /\ \A i \in S : i <= Max(S)
<1> DEFINE T == {n - i : i \in S}
<1>1. T \subseteq Nat /\ T # {}
  <2>1. \A i \in S : n - i \in Nat
    OBVIOUS
  <2> QED BY <2>1
<1>2. PICK d \in T : \A e \in T : ~(<<e, d>> \in OpToRel(<, Nat))
  BY <1>1, NatLessThanWellFounded, WFMin
<1>3. \A e \in T : ~(e < d)
  BY <1>1, <1>2 DEF OpToRel
<1>4. PICK j \in S : d = n - j
  BY <1>2
<1>5. \A i \in S : j >= i
  <2> TAKE i \in S
  <2>1. ~(n - i < n - j) /\ i \in Int /\ j \in Int
    BY <1>3, <1>4
  <2> QED BY <2>1
<1>6. Max(S) \in S /\ \A i \in S : Max(S) >= i
  BY <1>5 DEF Max
<1> QED BY <1>6

(* A new position after all others is the last.                            *)
LEMMA NewLastPosition ==
  ASSUME NEW n \in Nat, NEW S \in SUBSET (1..(n + 1)), n + 1 \in S
  PROVE  Max(S) = n + 1
<1>1. Max(S) \in S /\ n + 1 <= Max(S)
  BY LastPosition, n + 1 \in Nat
<1>2. ASSUME NEW last \in 1..(n + 1), n + 1 <= last PROVE last = n + 1
  BY <1>2
<1> QED BY <1>1, <1>2

(* Where the file says something about a field, and the command line up to *)
(* its item n.                                                             *)
LinesOf(field) == {i \in 1..Len(lines) : field \in DOMAIN FileSets(lines[i])}
ItemsOf(field, n) ==
  {i \in 1..n : argv[i].key # "config" /\ field \in DOMAIN ItemSets(argv[i])}

InFile(field) ==
  IF LinesOf(field) # {} THEN FileSets(lines[Max(LinesOf(field))])[field]
  ELSE Defaults[field]

Heard(field, n) ==
  IF ItemsOf(field, n) # {} THEN ItemSets(argv[Max(ItemsOf(field, n))])[field]
  ELSE IF LinesOf(field) # {} THEN InFile(field)
  ELSE (Defaults ++ OptionDefaults)[field]

LEMMA HeardIsAsked == ASSUME NEW field PROVE Heard(field, Len(argv)) = Asked(field)
BY DEF Heard, Asked, InFile, ItemsOf, LinesOf

(* The settings are those of the lines read so far.                        *)
ConfigHeard ==
  /\ lines \in Seq(Lines)
  /\ DOMAIN config =
       DOMAIN Defaults \cup UNION {DOMAIN FileSets(lines[i]) : i \in 1..Len(lines)}
  /\ \A field \in DOMAIN config : config[field] = InFile(field)

(* The options are what was heard of the command line so far.              *)
OptionsHeard ==
  /\ pc = "load" => at = 1
  /\ pc = "parse" => /\ at \in 1..(Len(argv) + 1)
                     /\ \A field \in DOMAIN options : options[field] = Heard(field, at - 1)
  /\ pc \notin {"load", "parse", "ended"} =>
       \A field \in DOMAIN options : options[field] = Heard(field, Len(argv))

Heeded == argv \in Seq(Items) /\ ConfigHeard /\ OptionsHeard

(* A line puts what it sets over the settings.                             *)
LEMMA LineHeard ==
  ASSUME ConfigHeard, NEW line \in Lines, lines' = Append(lines, line),
         config' = FileSets(line) ++ config
  PROVE  ConfigHeard'
<1> DEFINE n == Len(lines)
<1>1. /\ lines \in Seq(Lines) /\ lines' \in Seq(Lines) /\ n \in Nat /\ Len(lines') = n + 1
      /\ lines'[n + 1] = line /\ \A i \in 1..n : lines'[i] = lines[i]
  BY DEF ConfigHeard
<1>2. UNION {DOMAIN FileSets(lines'[i]) : i \in 1..(n + 1)} =
        DOMAIN FileSets(line) \cup UNION {DOMAIN FileSets(lines[i]) : i \in 1..n}
  <2>1. 1..(n + 1) = 1..n \cup {n + 1}
    BY <1>1
  <2>2. UNION {DOMAIN FileSets(lines'[i]) : i \in 1..n} =
          UNION {DOMAIN FileSets(lines[i]) : i \in 1..n}
    BY <1>1
  <2> QED BY <1>1, <2>1, <2>2
<1>3. DOMAIN config' =
        DOMAIN Defaults \cup UNION {DOMAIN FileSets(lines'[i]) : i \in 1..Len(lines')}
  BY <1>1, <1>2 DEF ++, ConfigHeard
<1>4. ASSUME NEW field \in DOMAIN config' PROVE config'[field] = InFile(field)'
  <2>1. LinesOf(field)' = IF field \in DOMAIN FileSets(line)
                          THEN LinesOf(field) \cup {n + 1} ELSE LinesOf(field)
    BY <1>1 DEF LinesOf
  <2>2. LinesOf(field) \in SUBSET (1..n)
    BY DEF LinesOf
  <2>3. CASE field \in DOMAIN FileSets(line)
    <3>1. Max(LinesOf(field)') = n + 1
      BY <1>1, <2>1, <2>2, <2>3, NewLastPosition
    <3>2. config'[field] = FileSets(line)[field]
      BY <2>3 DEF ++
    <3> QED BY <1>1, <2>1, <2>3, <3>1, <3>2 DEF InFile
  <2>4. CASE field \notin DOMAIN FileSets(line)
    <3>1. field \in DOMAIN config /\ config'[field] = config[field]
      BY <1>4, <2>4 DEF ++
    <3>2. LinesOf(field) # {} => Max(LinesOf(field)) \in 1..n
      BY <1>1, <2>2, LastPosition
    <3>3. InFile(field)' = InFile(field)
      BY <1>1, <2>1, <2>4, <3>2 DEF InFile
    <3> QED BY <3>1, <3>3 DEF ConfigHeard
  <2> QED BY <2>3, <2>4
<1> QED BY <1>1, <1>3, <1>4 DEF ConfigHeard

(* The options begin with the settings.                                    *)
LEMMA SettingsHeard ==
  ASSUME ConfigHeard, NEW field \in DOMAIN (config ++ OptionDefaults)
  PROVE  (config ++ OptionDefaults)[field] = Heard(field, 0)
<1>1. ItemsOf(field, 0) = {}
  BY DEF ItemsOf
<1>2. field \in DOMAIN config <=> (field \in DOMAIN Defaults \/ LinesOf(field) # {})
  BY DEF ConfigHeard, LinesOf
<1>3. CASE field \in DOMAIN config
  <2>1. (config ++ OptionDefaults)[field] = InFile(field)
    BY <1>3, <1>1 DEF ++, ConfigHeard
  <2>2. CASE LinesOf(field) = {}
    <3>1. (Defaults ++ OptionDefaults)[field] = Defaults[field]
      BY <1>2, <1>3, <2>2 DEF ++
    <3> QED BY <1>1, <2>1, <2>2, <3>1 DEF Heard, InFile
  <2> QED BY <1>1, <2>1, <2>2 DEF Heard
<1>4. CASE field \notin DOMAIN config
  <2>1. (config ++ OptionDefaults)[field] = OptionDefaults[field]
    BY <1>4 DEF ++
  <2>2. (Defaults ++ OptionDefaults)[field] = OptionDefaults[field]
    BY <1>2, <1>4 DEF ++
  <2> QED BY <1>1, <1>2, <1>4, <2>1, <2>2 DEF Heard
<1> QED BY <1>3, <1>4

(* An item puts what it sets over the options; --config sets nothing.      *)
LEMMA ItemHeard ==
  ASSUME argv \in Seq(Items), at \in 1..Len(argv),
         \A field \in DOMAIN options : options[field] = Heard(field, at - 1),
         options' = IF argv[at].key = "config" THEN options
                    ELSE ItemSets(argv[at]) ++ options,
         UNCHANGED <<argv, lines>>,
         NEW field \in DOMAIN options'
  PROVE  options'[field] = Heard(field, at)
<1> DEFINE sets == argv[at].key # "config" /\ field \in DOMAIN ItemSets(argv[at])
<1>1. ItemsOf(field, at) = IF sets THEN ItemsOf(field, at - 1) \cup {at}
                           ELSE ItemsOf(field, at - 1)
  BY DEF ItemsOf
<1>2. /\ ItemsOf(field, at) \in SUBSET (1..((at - 1) + 1))
      /\ at - 1 \in Nat /\ (at - 1) + 1 = at
  BY DEF ItemsOf
<1>3. CASE sets
  <2>1. Max(ItemsOf(field, at)) = at
    BY <1>1, <1>2, <1>3, NewLastPosition
  <2>2. options'[field] = ItemSets(argv[at])[field]
    BY <1>3 DEF ++
  <2> QED BY <1>1, <1>3, <2>1, <2>2 DEF Heard
<1>4. CASE ~sets
  <2>1. field \in DOMAIN options /\ options'[field] = options[field]
    BY <1>4 DEF ++
  <2>2. Heard(field, at) = Heard(field, at - 1)
    BY <1>1, <1>4 DEF Heard
  <2> QED BY <2>1, <2>2
<1> QED BY <1>3, <1>4

LEMMA SameSettings ==
  ASSUME Heeded, UNCHANGED <<input, lines, config>>, OptionsHeard' PROVE Heeded'
BY DEF Heeded, ConfigHeard, InFile, LinesOf, input

LEMMA HeededHolds == Spec => []Heeded
<1>1. Init => Heeded
  <2> SUFFICES ASSUME Init PROVE Heeded
    OBVIOUS
  <2>1. argv \in Seq(Items)
    BY DEF Init
  <2>2. ConfigHeard
    <3>1. lines = <<>> /\ lines \in Seq(Lines) /\ config = Defaults
      BY DEF Init
    <3>2. \A field : LinesOf(field) = {}
      BY <3>1 DEF LinesOf
    <3> QED BY <3>1, <3>2 DEF ConfigHeard, InFile
  <2> QED BY <2>1, <2>2 DEF Heeded, Init, OptionsHeard
<1>2. ASSUME Heeded, [Next]_vars PROVE Heeded'
  <2>1. argv \in Seq(Items) /\ ConfigHeard /\ OptionsHeard
    BY <1>2 DEF Heeded
  <2>2. CASE ReadLine
    <3>1. ConfigHeard'
      BY <2>1, <2>2, LineHeard DEF ReadLine
    <3> QED BY <2>1, <2>2, <3>1 DEF ReadLine, Heeded, OptionsHeard, input
  <2>3. CASE Loaded
    <3>1. /\ pc' = "parse" /\ at' = 1 /\ UNCHANGED <<input, lines, config>>
          /\ options' = config ++ OptionDefaults
      BY <2>1, <2>3 DEF Loaded, OptionsHeard
    <3>2. 1 \in 1..(Len(argv') + 1)
      BY <2>1, <3>1 DEF input
    <3>3. ASSUME NEW field \in DOMAIN options' PROVE options'[field] = Heard(field, at - 1)'
      <4>1. options'[field] = Heard(field, 0)
        BY <2>1, <3>1, <3>3, SettingsHeard
      <4>2. at' - 1 = 0
        BY <3>1
      <4> QED BY <3>1, <4>1, <4>2 DEF Heard, InFile, LinesOf, ItemsOf, input
    <3> QED BY <1>2, <3>1, <3>2, <3>3, SameSettings DEF OptionsHeard
  <2>4. CASE ParseItem
    <3>1. /\ pc = "parse" /\ at \in 1..Len(argv) /\ UNCHANGED <<input, lines, config>>
          /\ \A field \in DOMAIN options : options[field] = Heard(field, at - 1)
      BY <2>1, <2>4 DEF ParseItem, OptionsHeard
    <3>2. CASE TakeItem(argv[at])
      <4>1. /\ pc' = "parse" /\ at' = at + 1
            /\ options' = IF argv[at].key = "config" THEN options
                          ELSE ItemSets(argv[at]) ++ options
        BY <3>1, <3>2 DEF TakeItem
      <4>2. at' \in 1..(Len(argv') + 1) /\ at' - 1 = at
        BY <2>1, <3>1, <4>1 DEF input
      <4>3. ASSUME NEW field \in DOMAIN options' PROVE options'[field] = Heard(field, at - 1)'
        <5>1. options'[field] = Heard(field, at)
          BY <2>1, <3>1, <4>1, <4>3, ItemHeard DEF input
        <5> QED BY <3>1, <4>2, <5>1 DEF Heard, InFile, LinesOf, ItemsOf, input
      <4> QED BY <1>2, <3>1, <4>1, <4>2, <4>3, SameSettings DEF OptionsHeard
    <3>3. CASE StopAtItem(argv[at])
      <4>1. pc' = "ended"
        BY <3>3 DEF StopAtItem, ListAudio, Ends
      <4> QED BY <1>2, <3>1, <4>1, SameSettings DEF OptionsHeard
    <3> QED BY <2>4, <3>2, <3>3 DEF ParseItem
  <2>5. CASE Parsed
    <3>1. /\ pc = "parse" /\ UNCHANGED <<input, lines, config, options>>
          /\ pc' \in {"ended", "calibrate", "open"} /\ at - 1 = Len(argv)
      BY <2>1, <2>5 DEF Parsed, Ends, settings, OptionsHeard
    <3>2. ASSUME NEW field \in DOMAIN options' PROVE options'[field] = Heard(field, Len(argv))'
      <4>1. options'[field] = Heard(field, Len(argv))
        BY <2>1, <3>1, <3>2 DEF OptionsHeard
      <4> QED BY <3>1, <4>1 DEF Heard, InFile, LinesOf, ItemsOf, input
    <3> QED BY <1>2, <3>1, <3>2, SameSettings DEF OptionsHeard
  <2>6. CASE NoSuchFile
    <3>1. pc' = "ended" /\ UNCHANGED <<input, lines, config>>
      BY <2>6 DEF NoSuchFile, Ends, settings
    <3> QED BY <1>2, <3>1, SameSettings DEF OptionsHeard
  <2>7. ASSUME UNCHANGED <<input, lines, config, options>>, pc \notin {"load", "parse", "ended"},
               pc' \notin {"load", "parse"}
        PROVE  Heeded'
    <3>1. ASSUME NEW field \in DOMAIN options' PROVE options'[field] = Heard(field, Len(argv))'
      <4>1. options'[field] = Heard(field, Len(argv))
        BY <2>1, <2>7, <3>1 DEF OptionsHeard
      <4> QED BY <2>7, <4>1 DEF Heard, InFile, LinesOf, ItemsOf, input
    <3> QED BY <1>2, <2>7, <3>1, SameSettings DEF OptionsHeard
  <2>8. CASE OpenSweep \/ Measure \/ EndSweep
    BY <2>7, <2>8 DEF OpenSweep, Measure, EndSweep, Ends, settings
  <2>9. CASE Open \/ EnterLoop
    BY <2>7, <2>9 DEF Open, OpenNext, EnterLoop, settings
  <2>10. CASE StartStop \/ Interrupt \/ LeaveLoop
    BY <2>7, <2>10 DEF StartStop, Interrupt, LeaveLoop, settings
  <2>11. CASE CloseNext \/ Return
    BY <2>7, <2>11 DEF CloseNext, Return, settings
  <2>12. CASE UNCHANGED vars
    BY SMTT(30), <1>2, <2>12 DEF vars, settings, input, Heeded, ConfigHeard, OptionsHeard, Heard,
       InFile, LinesOf, ItemsOf
  <2> QED
    BY <1>2, <2>2, <2>3, <2>4, <2>5, <2>6, <2>8, <2>9, <2>10, <2>11, <2>12 DEF Next
<1> QED BY <1>1, <1>2, PTL DEF Spec

(* The options a program runs with are, field by field, what the command   *)
(* line says last, then what the file says last that is allowed, then the  *)
(* default: for every command line and every file.                         *)
THEOREM RunsAsAsked == Spec => []AsAsked
<1>1. ASSUME Heeded PROVE AsAsked
  BY <1>1, HeardIsAsked DEF Heeded, OptionsHeard, AsAsked
<1> QED BY <1>1, HeededHolds, PTL

-------------------------------------------------------------------------------
(* The calibration's percentiles: the least of a set of numbers, and what  *)
(* counting says of readings in order.                                     *)
LEMMA Least ==
  ASSUME NEW T \in SUBSET Nat, T # {}
  PROVE  \E k \in T : \A n \in T : k <= n
<1>1. PICK k \in T : \A n \in T : ~(<<n, k>> \in OpToRel(<, Nat))
  BY NatLessThanWellFounded, WFMin
<1>2. \A n \in T : ~(n < k)
  BY <1>1 DEF OpToRel
<1> QED BY <1>2

Table == rows \in Seq([freq : Nat, dbfs : Int])

LEMMA Countable ==
  ASSUME Table, NEW part \in SUBSET All
  PROVE  /\ IsFiniteSet(part) /\ Cardinality(part) \in Nat
         /\ \A i \in part : rows[i].dbfs \in Int
<1>1. All = 1..Len(rows) /\ Len(rows) \in Nat /\ \A i \in 1..Len(rows) : rows[i].dbfs \in Int
  <2>1. /\ rows \in Seq([freq : Nat, dbfs : Int]) /\ DOMAIN rows = 1..Len(rows)
        /\ Len(rows) \in Nat
    BY DEF Table
  <2>2. \A i \in 1..Len(rows) : rows[i] \in [freq : Nat, dbfs : Int]
    BY <2>1, ElementOfSeq
  <2> QED BY <2>1, <2>2 DEF All
<1>2. IsFiniteSet(All)
  BY <1>1, FS_Interval
<1>3. IsFiniteSet(part)
  BY <1>2, FS_Subset
<1>4. Cardinality(part) \in Nat
  BY <1>3, FS_CardinalityType
<1> QED BY <1>1, <1>3, <1>4

LEMMA FewerIn ==
  ASSUME Table, NEW part \in SUBSET All, NEW less \in SUBSET part
  PROVE  /\ Cardinality(less) \in Nat /\ Cardinality(less) <= Cardinality(part)
         /\ less # part => Cardinality(less) < Cardinality(part)
<1>1. /\ IsFiniteSet(part) /\ Cardinality(part) \in Nat /\ Cardinality(less) \in Nat
  BY Countable
<1>2. /\ Cardinality(less) <= Cardinality(part)
      /\ Cardinality(part) = Cardinality(less) => part = less
  BY <1>1, FS_Subset
<1> QED BY <1>1, <1>2

(* Among readings one is the strongest.                                    *)
LEMMA Strongest ==
  ASSUME Table, NEW part \in SUBSET All, part # {}
  PROVE  \E i \in part : \A j \in part : rows[j].dbfs <= rows[i].dbfs
<1> DEFINE Above(i) == {j \in part : rows[j].dbfs > rows[i].dbfs}
           T == {Cardinality(Above(i)) : i \in part}
<1>1. T \in SUBSET Nat /\ T # {}
  BY Countable
<1>2. PICK k \in T : \A n \in T : k <= n
  BY <1>1, Least
<1>3. PICK i \in part : k = Cardinality(Above(i))
  BY <1>2
<1>4. ASSUME NEW j \in part, ~(rows[j].dbfs <= rows[i].dbfs) PROVE FALSE
  <2>1. rows[i].dbfs \in Int /\ rows[j].dbfs \in Int /\ \A l \in part : rows[l].dbfs \in Int
    BY Countable
  <2>2. Above(j) \in SUBSET Above(i) /\ j \in Above(i) /\ j \notin Above(j)
    BY <1>4, <2>1
  <2>3. Cardinality(Above(j)) < Cardinality(Above(i))
    BY <2>2, FewerIn
  <2>4. Cardinality(Above(i)) <= Cardinality(Above(j))
    BY <1>2, <1>3
  <2>5. Cardinality(Above(i)) \in Nat /\ Cardinality(Above(j)) \in Nat
    BY Countable
  <2> QED BY <2>3, <2>4, <2>5
<1> QED BY <1>4

(* At every index below their number a reading stands, when the readings   *)
(* are sorted: the percentile is one of them.                              *)
LEMMA OneStands ==
  ASSUME Table, NEW part \in SUBSET All, NEW index \in Nat, index < Cardinality(part)
  PROVE  \E dbfs \in {rows[i].dbfs : i \in part} : Stands(part, dbfs, index)
<1> DEFINE Reach(i) == UpTo(part, rows[i].dbfs)
           T == {n \in Nat : \E i \in part : n = Cardinality(Reach(i)) /\ index < n}
<1>1. part # {}
  BY FS_EmptySet
<1>2. \A i \in part : Reach(i) \in SUBSET part /\ Smaller(part, rows[i].dbfs) \in SUBSET part
  BY DEF UpTo, Smaller
<1>3. PICK top \in part : \A j \in part : rows[j].dbfs <= rows[top].dbfs
  BY <1>1, Strongest
<1>4. Reach(top) = part
  BY <1>3 DEF UpTo
<1>5. T # {} /\ T \in SUBSET Nat
  BY <1>4, Countable
<1>6. PICK k \in T : \A n \in T : k <= n
  BY <1>5, Least
<1>7. PICK i \in part : k = Cardinality(Reach(i)) /\ index < k
  BY <1>6
<1>8. ASSUME ~(Cardinality(Smaller(part, rows[i].dbfs)) <= index) PROVE FALSE
  <2> DEFINE below == Smaller(part, rows[i].dbfs)
  <2>1. below \in SUBSET All /\ Cardinality(below) \in Nat /\ index < Cardinality(below)
    BY <1>2, <1>8, Countable
  <2>2. below # {}
    BY <2>1, FS_EmptySet
  <2>3. PICK j \in below : \A l \in below : rows[l].dbfs <= rows[j].dbfs
    BY <2>1, <2>2, Strongest
  <2>4. \A l \in part : rows[l].dbfs \in Int
    BY Countable
  <2>5. j \in part /\ rows[j].dbfs < rows[i].dbfs
    BY <2>3 DEF Smaller
  <2>6. Reach(j) = below
    BY <2>3, <2>4, <2>5 DEF UpTo, Smaller
  <2>7. Cardinality(Reach(j)) \in T
    BY <2>1, <2>5, <2>6
  <2>8. below \in SUBSET Reach(i) /\ i \in Reach(i) /\ i \notin below
    BY <2>4 DEF UpTo, Smaller
  <2>9. Cardinality(below) < Cardinality(Reach(i))
    BY <1>2, <2>8, FewerIn
  <2> QED BY <1>6, <1>7, <2>1, <2>6, <2>7, <2>9
<1> QED BY <1>7, <1>8 DEF Stands

LEMMA PercentileStands ==
  ASSUME Table, NEW part \in SUBSET All, part # {}, NEW percent \in 0..99
  PROVE  /\ Percentile(part, percent) \in {rows[i].dbfs : i \in part}
         /\ Stands(part, Percentile(part, percent), (Cardinality(part) * percent) \div 100)
<1>1. IsFiniteSet(part) /\ Cardinality(part) \in Nat
  BY Countable
<1>2. Cardinality(part) > 0
  BY <1>1, FS_EmptySet
<1>3. /\ (Cardinality(part) * percent) \div 100 \in Nat
      /\ (Cardinality(part) * percent) \div 100 < Cardinality(part)
  <2> DEFINE n == Cardinality(part)
  <2> HIDE DEF n
  <2>1. n * percent \in Nat /\ n * percent < 100 * n
    <3>1. n \in Nat /\ n > 0 /\ percent \in Nat /\ percent < 100
      BY <1>1, <1>2 DEF n
    <3> QED BY <3>1
  <2>2. ASSUME NEW m \in Nat, m < 100 * n, n \in Nat PROVE m \div 100 \in Nat /\ m \div 100 < n
    BY <2>2
  <2>3. n \in Nat
    BY <1>1 DEF n
  <2> QED BY <2>1, <2>2, <2>3 DEF n
<1>4. \E dbfs \in {rows[i].dbfs : i \in part} :
        Stands(part, dbfs, (Cardinality(part) * percent) \div 100)
  BY <1>3, OneStands
<1> QED BY <1>4 DEF Percentile

(* When at least half of the readings are clean, the weak end of all is    *)
(* not above the strong end of the clean ones.                             *)
LEMMA WeakBelowStrong ==
  ASSUME Table, Clean # {}, 2 * Cardinality(Clean) >= Cardinality(All)
  PROVE  Percentile(All, 5) <= Percentile(Clean, 95)
<1> DEFINE a == Percentile(All, 5)
           b == Percentile(Clean, 95)
           n == Cardinality(All)
           c == Cardinality(Clean)
<1>1. Clean \in SUBSET All /\ All # {}
  BY DEF Clean, UpTo
<1>2. \A i \in All : rows[i].dbfs \in Int
  BY Countable
<1>3. a \in Int /\ Stands(All, a, (n * 5) \div 100)
  BY <1>1, <1>2, PercentileStands, 5 \in 0..99
<1>4. b \in Int /\ Stands(Clean, b, (c * 95) \div 100)
  BY SMTT(30), <1>1, <1>2, PercentileStands, 95 \in 0..99
<1>5. n \in Nat /\ c \in Nat
  BY <1>1, Countable
<1>6. ASSUME ~(a <= b) PROVE FALSE
  <2> HIDE DEF a, b
  <2>1. UpTo(Clean, b) \in SUBSET Smaller(All, a) /\ Smaller(All, a) \in SUBSET All
    BY <1>1, <1>2, <1>3, <1>4, <1>6 DEF UpTo, Smaller
  <2>2. /\ Cardinality(UpTo(Clean, b)) <= Cardinality(Smaller(All, a))
        /\ Cardinality(UpTo(Clean, b)) \in Nat /\ Cardinality(Smaller(All, a)) \in Nat
    BY <2>1, FewerIn, Countable
  <2>3. /\ Cardinality(Smaller(All, a)) <= (n * 5) \div 100
        /\ (c * 95) \div 100 < Cardinality(UpTo(Clean, b))
    BY <1>3, <1>4 DEF Stands
  <2>4. ASSUME NEW x \in Nat, NEW y \in Nat, 2 * y >= x PROVE (x * 5) \div 100 <= (y * 95) \div 100
    BY <2>4
  <2>5. (n * 5) \div 100 <= (c * 95) \div 100
    BY <1>5, <2>4
  <2>6. ASSUME NEW p \in Nat, NEW q \in Nat, NEW r \in Int, NEW s \in Int,
               p <= q, q <= r, s < p, r <= s
        PROVE  FALSE
    BY <2>6
  <2>7. (n * 5) \div 100 \in Int /\ (c * 95) \div 100 \in Int
    BY <1>5
  <2> QED BY <2>2, <2>3, <2>5, <2>6, <2>7
<1> QED BY <1>6

(* What a calibration measures, one frequency after the other.             *)
Measured == Table /\ (pc \in {"calibrate", "sweep"} => at \in Nat \ {0})

LEMMA MeasuredHolds == Spec => []Measured
<1>1. Init => Measured
  BY DEF Init, Measured, Table
<1>2. ASSUME OptionsHeard, Measured, [Next]_vars PROVE Measured'
  <2>1. CASE Measure
    <3>1. /\ UNCHANGED <<pc, resources>> /\ pc = "sweep" /\ at \in 1..Len(Sweep)
          /\ at' = at + 1
      BY <1>2, <2>1, SweepAssumption DEF Measure, Measured
    <3>2. Table'
      <4>1. CASE UNCHANGED rows
        BY <1>2, <4>1 DEF Measured, Table
      <4>2. ASSUME NEW dbfs \in Readings,
                   rows' = Append(rows, [freq |-> Sweep[at], dbfs |-> dbfs])
            PROVE  Table'
        <5>1. Sweep[at] \in Nat /\ dbfs \in Int
          BY <3>1, SweepAssumption
        <5> QED BY <1>2, <4>2, <5>1 DEF Measured, Table
      <4> QED BY <2>1, <4>1, <4>2 DEF Measure
    <3> QED BY <1>2, <3>1, <3>2 DEF Measured, resources
  <2>2. CASE EndSweep
    BY <1>2, <2>2 DEF EndSweep, Ends, Measured, Table
  <2>3. ASSUME UNCHANGED <<rows, resources>>, pc # "ended", pc' # "sweep",
               pc' = "calibrate" => at' = 1
        PROVE  Measured'
    BY <1>2, <2>3 DEF Measured, Table, resources
  <2>4. CASE ReadLine \/ NoSuchFile \/ Loaded
    BY <2>3, <2>4 DEF ReadLine, NoSuchFile, Loaded, Ends, resources
  <2>5. CASE ParseItem
    BY <2>3, <2>5 DEF ParseItem, TakeItem, StopAtItem, ListAudio, Ends
  <2>6. CASE Parsed
    BY <2>3, <2>6 DEF Parsed, Ends
  <2>7. CASE OpenSweep
    BY <1>2, <2>7 DEF OpenSweep, Ends, Measured, Table
  <2>8. CASE Open
    BY <1>2, <2>8 DEF Open, OpenNext, Measured, Table
  <2>9. CASE EnterLoop \/ StartStop \/ Interrupt \/ LeaveLoop
    BY <1>2, <2>9 DEF EnterLoop, StartStop, Interrupt, LeaveLoop, Measured, Table, resources
  <2>10. CASE CloseNext
    BY <1>2, <2>10 DEF CloseNext, Measured, Table
  <2>11. CASE Return
    BY <1>2, <2>11 DEF Return, Measured, Table, resources
  <2>12. CASE UNCHANGED vars
    BY <1>2, <2>12 DEF vars, resources, Measured, Table
  <2> QED
    BY <1>2, <2>1, <2>2, <2>4, <2>5, <2>6, <2>7, <2>8, <2>9, <2>10, <2>11, <2>12 DEF Next
<1>3. ASSUME Heeded PROVE OptionsHeard
  BY <1>3 DEF Heeded
<1> QED BY <1>1, <1>2, <1>3, HeededHolds, PTL DEF Spec

(* Whatever a calibration has measured, the window it recommends is not    *)
(* empty and ends below saturation, when at least half of the readings are *)
(* clean (calibration.cpp:190-248).                                        *)
THEOREM CalibrationSound == Spec => []WindowSound
<1>1. ASSUME Measured PROVE WindowSound
  <2>1. ASSUME Cardinality(Clean) >= MinClean, 2 * Cardinality(Clean) >= Len(rows)
        PROVE  RecommendedFloor < RecommendedCeil /\ RecommendedCeil <= Saturation
    <3>1. Table /\ Clean \in SUBSET All
      BY <1>1 DEF Measured, Clean, UpTo
    <3>2. Clean # {} /\ All # {}
      <4>1. Cardinality(Clean) \in Nat /\ MinClean \in Nat \ {0}
        BY <3>1, Countable, SweepAssumption
      <4>2. Cardinality(Clean) # 0
        BY <2>1, <4>1
      <4> QED BY <3>1, <4>2, FS_EmptySet
    <3>3. Cardinality(All) = Len(rows)
      <4>1. All = 1..Len(rows) /\ Len(rows) \in Nat
        BY <3>1 DEF Table, All
      <4>2. Cardinality(1..Len(rows)) = Len(rows)
        <5>1. Cardinality(1..Len(rows)) = IF 1 > Len(rows) THEN 0 ELSE Len(rows) - 1 + 1
          BY <4>1, 1 \in Int, Len(rows) \in Int, FS_Interval
        <5> QED BY <4>1, <5>1
      <4> QED BY <4>1, <4>2
    <3>4. Percentile(All, 5) <= Percentile(Clean, 95)
      BY <2>1, <3>1, <3>2, <3>3, WeakBelowStrong
    <3>5. Percentile(All, 5) \in {rows[i].dbfs : i \in All}
      BY <3>1, <3>2, PercentileStands, 5 \in 0..99
    <3>6. Percentile(Clean, 95) \in {rows[i].dbfs : i \in Clean}
      BY <3>1, <3>2, PercentileStands, 95 \in 0..99
    <3>7. \A i \in All : rows[i].dbfs \in Int
      BY <3>1, Countable
    <3>8. /\ Percentile(All, 5) \in Int /\ Percentile(Clean, 95) \in Int
          /\ Percentile(Clean, 95) <= Saturation /\ Saturation \in Int
      BY <3>5, <3>6, <3>7, SweepAssumption DEF Clean, UpTo
    <3>9. Strong = Percentile(Clean, 95)
      BY <2>1 DEF Strong
    <3>10. \A x, y \in Int : Min({x, y}) = IF x <= y THEN x ELSE y
      BY DEF Min
    <3>11. RecommendedCeil = IF Strong + 3 <= Saturation THEN Strong + 3 ELSE Saturation
      BY <3>8, <3>9, <3>10 DEF RecommendedCeil
    <3> QED BY <3>4, <3>8, <3>9, <3>11 DEF RecommendedFloor
  <2> QED BY <1>1, <2>1 DEF Measured, WindowSound
<1> QED BY <1>1, MeasuredHolds, PTL
===============================================================================
