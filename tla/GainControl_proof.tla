-------------------------- MODULE GainControl_proof --------------------------
(***************************************************************************)
(* Theorems about GainControl, for all configurations, clients and signals.*)
(***************************************************************************)
EXTENDS GainControl, SequenceTheorems, TLAPS

Registers == {"manual", "agc", "gain"}

(* What applyRtlGainAndAgc would write if it ran now.                      *)
Plan == Writes(isImsAgcEnabled, calculateAppliedGainDb)

(* No request waits for the loop, and no handler has stored a value whose  *)
(* flag it still has to store.                                             *)
Clean == ~pendAGC /\ ~pendGain /\ Len(xdr) # 1

Applied == \A i \in 1..Len(Plan) : dev[Plan[i].reg] = Plan[i].to

(* The loop has written the plan up to what is still to do.                *)
Partly ==
  \E k \in 1..Len(Plan) :
    /\ todo = SubSeq(Plan, k, Len(Plan))
    /\ \A i \in 1..Len(Plan) : i < k => dev[Plan[i].reg] = Plan[i].to

FlagStores == {[agc |-> TRUE], [gain |-> TRUE]}

(* A handler stores a value, then its flag.                                *)
XdrShape ==
  \/ xdr = <<>>
  \/ \E f \in FlagStores : xdr = <<f>>
  \/ \E v, f : f \in FlagStores /\ xdr = <<v, f>>

LoopShape ==
  /\ pc \in {"top", "take", "setBand", "load", "loadGain", "write", "read", "step",
             "bandwidth"}
  /\ back \in {"take", "setBand", "top"}
  /\ dev = [r \in Registers |-> dev[r]]
  /\ session \in [active : BOOLEAN, connected : BOOLEAN, handle : BOOLEAN]
  /\ session.handle => session.connected
  /\ overridden \in BOOLEAN
  /\ pendAGC \in BOOLEAN /\ pendGain \in BOOLEAN

(* Unless a request is on its way or REST has interfered, the registers    *)
(* are those of the plan, or the loop is on its way there.                 *)
OnItsWay ==
  session.handle /\ ~overridden /\ Clean =>
    /\ pc \notin {"load", "loadGain", "write"} => Applied
    /\ pc = "loadGain" => ims = isImsAgcEnabled
    /\ pc = "write" => Partly

IInv == XdrShape /\ LoopShape /\ OnItsWay

-------------------------------------------------------------------------------
(* A plan writes two or three registers, each of them once.                *)
LEMMA PlanWrites ==
  /\ Len(Plan) \in {2, 3}
  /\ \A i \in 1..Len(Plan) : Plan[i].reg \in Registers
  /\ \A i, j \in 1..Len(Plan) : i # j => Plan[i].reg # Plan[j].reg
BY DEF Plan, Writes, Manual, AGC, Gain, Registers

LEMMA PlanIsSeq == \E S : Plan \in Seq(S)
<1>1. CASE setup.rspAgc \/ (~setup.sdrpp /\ isImsAgcEnabled)
  <2>1. Plan = <<Manual(FALSE), AGC(TRUE)>>
    BY <1>1 DEF Plan, Writes
  <2>2. Plan \in Seq({Manual(FALSE), AGC(TRUE)})
    BY <2>1
  <2> QED BY <2>2
<1>2. CASE ~(setup.rspAgc \/ (~setup.sdrpp /\ isImsAgcEnabled))
  <2>1. PICK a, b, c : Plan = <<a, b, c>>
    BY <1>2 DEF Plan, Writes
  <2>2. Plan \in Seq({a, b, c})
    BY <2>1
  <2> QED BY <2>2
<1> QED BY <1>1, <1>2

(* Writing the next register of the plan.                                  *)
LEMMA WriteNext ==
  ASSUME session.handle, dev = [r \in Registers |-> dev[r]],
         Partly, dev' = Write(Head(todo)), todo' = Tail(todo), Plan' = Plan
  PROVE  IF Tail(todo) = <<>> THEN Applied' ELSE Partly'
<1>1. PICK k \in 1..Len(Plan) :
        /\ todo = SubSeq(Plan, k, Len(Plan))
        /\ \A i \in 1..Len(Plan) : i < k => dev[Plan[i].reg] = Plan[i].to
  BY DEF Partly
<1>2. PICK S : Plan \in Seq(S)
  BY PlanIsSeq
<1>3. Len(Plan) \in Nat /\ k \in Nat /\ k >= 1 /\ k <= Len(Plan)
  BY <1>2
<1>4. Head(todo) = Plan[k] /\ Tail(todo) = SubSeq(Plan, k + 1, Len(Plan))
  <2>1. Len(Plan) \in k..Len(Plan)
    BY <1>3
  <2> QED BY <1>1, <1>2, <2>1, HeadTailOfSubSeq
<1>5. dev' = [dev EXCEPT ![Plan[k].reg] = Plan[k].to]
  BY <1>4 DEF Write
<1>6. Plan[k].reg \in Registers
  BY <1>3, PlanWrites
<1>7. dev'[Plan[k].reg] = Plan[k].to
  BY <1>5, <1>6
<1>8. ASSUME NEW i \in 1..(k - 1)
      PROVE  dev'[Plan[i].reg] = Plan[i].to
  <2>1. i \in 1..Len(Plan) /\ i # k /\ k \in 1..Len(Plan)
    BY <1>3
  <2>2. Plan[i].reg # Plan[k].reg /\ Plan[i].reg \in Registers
    BY <2>1, PlanWrites
  <2>3. dev'[Plan[i].reg] = dev[Plan[i].reg]
    BY <1>5, <2>2
  <2>4. i < k
    BY <1>3
  <2>5. dev[Plan[i].reg] = Plan[i].to
    BY <2>1, <2>4, <1>1, Zenon
  <2> QED BY <2>3, <2>5
<1>9. \A i \in 1..k : dev'[Plan[i].reg] = Plan[i].to
  BY <1>3, <1>7, <1>8
<1>10. CASE Tail(todo) = <<>>
  <2>1. SubSeq(Plan, k + 1, Len(Plan)) = <<>>
    BY <1>4, <1>10, Zenon
  <2>2. k = Len(Plan)
    <3>1. CASE k + 1 <= Len(Plan)
      <4>1. \A i \in (k + 1)..Len(Plan) : Plan[i] \in S
        BY <1>2, <1>3
      <4>2. /\ SubSeq(Plan, k + 1, Len(Plan)) \in Seq(S)
            /\ Len(SubSeq(Plan, k + 1, Len(Plan))) = Len(Plan) - (k + 1) + 1
        BY <3>1, <4>1, <1>3, SubSeqProperties
      <4>3. Len(SubSeq(Plan, k + 1, Len(Plan))) = 0
        BY <2>1, <4>2, EmptySeq
      <4> QED BY <4>2, <4>3, <3>1, <1>3
    <3> QED BY <3>1, <1>3
  <2> QED BY <1>9, <1>10, <2>2 DEF Applied
<1>11. CASE Tail(todo) # <<>>
  <2>1. k + 1 \in 1..Len(Plan)
    <3>1. CASE k = Len(Plan)
      <4>1. SubSeq(Plan, k + 1, Len(Plan)) = <<>>
        BY <3>1, <1>3, SubSeqEmpty
      <4> QED BY <4>1, <1>4, <1>11
    <3>2. CASE k # Len(Plan)
      BY <3>2, <1>3
    <3> QED BY <3>1, <3>2
  <2>2. todo' = SubSeq(Plan, k + 1, Len(Plan))
    BY <1>4
  <2>3. \A i \in 1..Len(Plan) : i < k + 1 => dev'[Plan[i].reg] = Plan[i].to
    BY <1>9, <1>3
  <2> DEFINE From(n) == /\ todo' = SubSeq(Plan', n, Len(Plan'))
                        /\ \A i \in 1..Len(Plan') : i < n => dev'[Plan'[i].reg] = Plan'[i].to
  <2>4. \E n \in 1..Len(Plan') : From(n)
    <3>1. k + 1 \in 1..Len(Plan') /\ todo' = SubSeq(Plan', k + 1, Len(Plan'))
      BY <2>1, <2>2, Zenon
    <3>2. \A i \in 1..Len(Plan') : i < k + 1 => dev'[Plan'[i].reg] = Plan'[i].to
      BY <2>3, Zenon
    <3>3. From(k + 1)
      BY <3>1, <3>2, Zenon
    <3> HIDE DEF From
    <3> QED BY <3>1, <3>3, Zenon
  <2>5. Partly'
    BY <2>4 DEF Partly
  <2> QED BY <2>5, <1>11
<1> QED BY <1>10, <1>11

-------------------------------------------------------------------------------
LEMMA InitIInv == Init => IInv
<1> SUFFICES ASSUME Init PROVE IInv
  OBVIOUS
<1>1. XdrShape
  BY DEF Init, XdrShape
<1>2. dev = [r \in Registers |-> dev[r]]
  BY DEF Init, Registers
<1>3. LoopShape
  BY <1>2 DEF Init, LoopShape
<1>4. OnItsWay
  BY DEF Init, OnItsWay
<1> QED BY <1>1, <1>3, <1>4 DEF IInv

(* The actions that touch neither the requests nor the device nor the loop.*)
Aside == UNCHANGED <<setup, requests, dev, session, overridden, loop>>

LEMMA AsideKeeps ==
  ASSUME IInv, Aside, XdrShape', Len(xdr) = 1 <=> Len(xdr') = 1
  PROVE  IInv'
<1> USE DEF Aside, requests, loop
<1>1. LoopShape'
  BY DEF IInv, LoopShape
<1>2. Plan' = Plan /\ isImsAgcEnabled' = isImsAgcEnabled
  BY DEF Plan, isImsAgcEnabled, calculateAppliedGainDb, Writes, agcModeToGainDb
<1>3. (Applied' <=> Applied) /\ (Partly' <=> Partly)
  BY <1>2 DEF Applied, Partly
<1>4. Clean' <=> Clean
  BY DEF Clean
<1>5. OnItsWay'
  BY <1>2, <1>3, <1>4 DEF IInv, OnItsWay
<1> QED BY <1>1, <1>5 DEF IInv

(* A command stores its value, which makes it a handler on its way, and    *)
(* then its flag, which makes it a request that waits for the loop.        *)
LEMMA CommandStoresKeeps ==
  ASSUME IInv, CommandStores
  PROVE  IInv'
<1> USE DEF CommandStores
<1>1. LoopShape'
  BY DEF IInv, LoopShape, loop
<1>2. CASE \E f \in FlagStores : xdr = <<f>>
  <2>1. PICK f \in FlagStores : xdr = <<f>>
    BY <1>2
  <2>2. xdr' = <<>> /\ Head(xdr) = f
    BY <2>1
  <2>3. pendAGC' \/ pendGain'
    <3>1. "agc" \in DOMAIN f \/ "gain" \in DOMAIN f
      BY DEF FlagStores
    <3>2. /\ pendAGC' = (pendAGC \/ "agc" \in DOMAIN f)
          /\ pendGain' = (pendGain \/ "gain" \in DOMAIN f)
      BY <2>2
    <3> QED BY <3>1, <3>2
  <2>4. XdrShape' /\ OnItsWay'
    BY <2>2, <2>3 DEF XdrShape, OnItsWay, Clean
  <2> QED BY <1>1, <2>4 DEF IInv
<1>3. CASE \E v, f : f \in FlagStores /\ xdr = <<v, f>>
  <2>1. PICK v, f : f \in FlagStores /\ xdr = <<v, f>>
    BY <1>3
  <2>2. xdr' = <<f>>
    BY <2>1
  <2>3. XdrShape' /\ OnItsWay'
    BY <2>1, <2>2 DEF XdrShape, OnItsWay, Clean
  <2> QED BY <1>1, <2>3 DEF IInv
<1> QED BY <1>2, <1>3 DEF IInv, XdrShape

(* The steps of the loop that write nothing leave the requests alone.      *)
LEMMA LoopKeeps ==
  ASSUME IInv, Loop
  PROVE  IInv'
<1>0. XdrShape'
  BY DEF IInv, XdrShape, Loop, LoopStop, LoopStart, Reassert, Pass, TakePending,
         SetBandwidth, LoadIms, LoadGain, WriteRegister, ReadNothing, LoadRung, StoreRung,
         AdjustBandwidth
<1>1. ASSUME UNCHANGED <<setup, mode, flags>>
      PROVE  Plan' = Plan /\ isImsAgcEnabled' = isImsAgcEnabled
  BY <1>1 DEF Plan, isImsAgcEnabled, calculateAppliedGainDb, Writes, agcModeToGainDb
<1>2. ASSUME UNCHANGED <<setup, mode, flags, dev>>
      PROVE  Applied' <=> Applied
  BY <1>1, <1>2 DEF Applied
<1>3. CASE LoopStop
  BY <1>0, <1>3 DEF LoopStop, IInv, LoopShape, OnItsWay, loop, requests
<1>14. ASSUME NEW next \in {"take", "top"}, ConnectThen(next), UNCHANGED requests
       PROVE  IInv'
  <2>1. CASE /\ session' = [session EXCEPT !.connected = FALSE, !.handle = FALSE]
             /\ pc' = "top"
             /\ UNCHANGED <<dev, back, ims, todo, rung, overridden>>
    <3>1. LoopShape'
      BY <1>14, <2>1 DEF IInv, LoopShape, requests
    <3>2. OnItsWay'
      BY <2>1 DEF IInv, LoopShape, OnItsWay
    <3> QED BY <1>0, <3>1, <3>2 DEF IInv
  <2>2. CASE /\ session' = [active |-> TRUE, connected |-> TRUE, handle |-> TRUE]
             /\ dev' = [manual |-> FALSE, agc |-> FALSE, gain |-> 0]
             /\ Apply(next)
    <3>1. dev' = [r \in Registers |-> dev'[r]]
      BY <2>2 DEF Registers
    <3>2. LoopShape'
      BY <1>14, <2>2, <3>1 DEF IInv, LoopShape, Apply, requests
    <3>3. OnItsWay'
      BY <2>2 DEF Apply, OnItsWay
    <3> QED BY <1>0, <3>2, <3>3 DEF IInv
  <2> QED BY <1>14, <2>1, <2>2 DEF ConnectThen
<1>4. CASE LoopStart
  <2> USE <1>4 DEF LoopStart
  <2>1. CASE session.active
    <3>1. UNCHANGED <<setup, mode, flags, dev, pendAGC, pendGain, xdr, pc, ims, todo, back>>
          /\ UNCHANGED <<session, overridden>>
      BY <2>1 DEF loop, requests
    <3>2. Plan' = Plan /\ isImsAgcEnabled' = isImsAgcEnabled
      BY <1>1, <3>1
    <3>3. (Applied' <=> Applied) /\ (Partly' <=> Partly)
      BY <3>1, <3>2 DEF Applied, Partly
    <3> QED BY <1>0, <3>1, <3>2, <3>3 DEF IInv, LoopShape, OnItsWay, Clean
  <2>2. CASE ~session.active
    BY <1>14, <2>2
  <2> QED BY <2>1, <2>2
<1>5. CASE Reassert
  BY <1>0, <1>5 DEF Reassert, Apply, IInv, LoopShape, OnItsWay, requests
<1>6. CASE Pass
  <2>1. UNCHANGED <<setup, mode, flags, dev, pendAGC, pendGain, xdr>>
    BY <1>6 DEF Pass, requests
  <2>2. LoopShape'
    BY <1>6, <2>1 DEF Pass, IInv, LoopShape
  <2>3. OnItsWay'
    BY <1>2, <1>6, <2>1 DEF Pass, IInv, OnItsWay, Clean
  <2> QED BY <1>0, <2>2, <2>3 DEF IInv
<1>7. CASE TakePending
  <2> USE <1>7 DEF TakePending
  <2>1. CASE session.connected /\ (pendAGC \/ pendGain)
    BY <1>0, <2>1 DEF Apply, IInv, LoopShape, OnItsWay
  <2>2. CASE ~(session.connected /\ (pendAGC \/ pendGain))
    <3>1. UNCHANGED <<setup, mode, flags, dev, xdr, session, overridden>>
      BY <2>2
    <3>2. LoopShape'
      BY <2>2, <3>1 DEF IInv, LoopShape
    <3>3. OnItsWay'
      BY <1>2, <2>2, <3>1 DEF IInv, LoopShape, OnItsWay, Clean
    <3> QED BY <1>0, <3>2, <3>3 DEF IInv
  <2> QED BY <2>1, <2>2
<1>8. CASE LoadIms
  <2>1. UNCHANGED <<setup, mode, flags, dev, pendAGC, pendGain, xdr>>
    BY <1>8 DEF LoadIms, requests
  <2>2. LoopShape'
    BY <1>8, <2>1 DEF LoadIms, IInv, LoopShape
  <2>3. OnItsWay'
    BY <1>1, <1>8, <2>1 DEF LoadIms, OnItsWay
  <2> QED BY <1>0, <2>2, <2>3 DEF IInv
<1>9. CASE LoadGain
  <2>1. UNCHANGED <<setup, mode, flags, dev, pendAGC, pendGain, xdr, session, overridden>>
    BY <1>9 DEF LoadGain, requests
  <2>2. LoopShape'
    BY <1>9, <2>1 DEF LoadGain, IInv, LoopShape
  <2>3. ASSUME session'.handle, ~overridden', Clean'
        PROVE  Partly'
    <3>1. ims = isImsAgcEnabled
      BY <1>9, <2>1, <2>3 DEF LoadGain, IInv, OnItsWay, Clean
    <3>2. todo' = Plan /\ Plan' = Plan
      BY <1>1, <1>9, <2>1, <3>1 DEF LoadGain, Plan
    <3>3. PICK S : Plan \in Seq(S)
      BY PlanIsSeq
    <3>4. todo' = SubSeq(Plan, 1, Len(Plan)) /\ 1 \in 1..Len(Plan)
      BY <3>2, <3>3, PlanWrites
    <3> QED BY <3>2, <3>4 DEF Partly
  <2>4. OnItsWay'
    BY <1>9, <2>3 DEF LoadGain, OnItsWay
  <2> QED BY <1>0, <2>2, <2>4 DEF IInv
<1>10. CASE WriteRegister
  <2>1. UNCHANGED <<setup, mode, flags, pendAGC, pendGain, xdr, session, overridden, back>>
    BY <1>10 DEF WriteRegister, requests
  <2>2. dev' = [r \in Registers |-> dev'[r]]
    BY <1>10 DEF WriteRegister, Write, IInv, LoopShape
  <2>3. LoopShape'
    BY <1>10, <2>1, <2>2 DEF WriteRegister, IInv, LoopShape
  <2>4. ASSUME session'.handle, ~overridden', Clean'
        PROVE  IF pc' = "write" THEN Partly' ELSE Applied'
    <3>1. Partly /\ session.handle /\ dev = [r \in Registers |-> dev[r]]
      BY <1>10, <2>1, <2>4 DEF WriteRegister, IInv, LoopShape, OnItsWay, Clean
    <3>2. Plan' = Plan
      BY <1>1, <2>1
    <3>3. IF Tail(todo) = <<>> THEN Applied' ELSE Partly'
      BY <1>10, <3>1, <3>2, WriteNext DEF WriteRegister
    <3> QED BY <1>10, <3>3 DEF WriteRegister, IInv, LoopShape
  <2>5. pc' \in {"write", "take", "setBand", "top"}
    BY <1>10 DEF WriteRegister, IInv, LoopShape
  <2>6. OnItsWay'
    BY <2>4, <2>5 DEF OnItsWay
  <2> QED BY <1>0, <2>3, <2>6 DEF IInv
<1>11. CASE LoadRung
  <2>1. UNCHANGED <<setup, mode, flags, dev, pendAGC, pendGain, xdr, session, overridden>>
        /\ pc = "read" /\ pc' \in {"bandwidth", "step"} /\ back' = back
    BY <1>11 DEF LoadRung, requests
  <2>2. LoopShape'
    BY <2>1 DEF IInv, LoopShape
  <2>3. OnItsWay'
    BY <1>2, <2>1 DEF IInv, OnItsWay, Clean
  <2> QED BY <1>0, <2>2, <2>3 DEF IInv
<1>12. CASE StoreRung
  BY <1>0, <1>12 DEF StoreRung, IInv, LoopShape, OnItsWay, Clean
<1>13. CASE AdjustBandwidth
  <2>1. UNCHANGED <<setup, mode, flags, dev, pendAGC, pendGain, xdr, session, overridden>>
        /\ pc = "bandwidth" /\ pc' = "top" /\ back' = back
    BY <1>13 DEF AdjustBandwidth, requests
  <2>2. LoopShape'
    BY <2>1 DEF IInv, LoopShape
  <2>3. OnItsWay'
    BY <1>2, <2>1 DEF IInv, OnItsWay, Clean
  <2> QED BY <1>0, <2>2, <2>3 DEF IInv
<1>15. CASE SetBandwidth
  <2>1. UNCHANGED <<setup, mode, flags, dev, pendAGC, pendGain, xdr, session, overridden>>
        /\ pc = "setBand" /\ pc' = "read" /\ back' = back
    BY <1>15 DEF SetBandwidth, requests
  <2>2. LoopShape'
    BY <2>1 DEF IInv, LoopShape
  <2>3. OnItsWay'
    BY <1>2, <2>1 DEF IInv, OnItsWay, Clean
  <2> QED BY <1>0, <2>2, <2>3 DEF IInv
<1>16. CASE ReadNothing
  <2>1. CASE pc' = "top" /\ UNCHANGED <<session, dev, back, ims, todo, rung, overridden>>
    <3>1. LoopShape' /\ ~session'.handle
      BY <1>16, <2>1 DEF ReadNothing, IInv, LoopShape, requests
    <3> QED BY <1>0, <3>1 DEF IInv, OnItsWay
  <2>2. CASE ConnectThen("top")
    BY <1>14, <1>16, <2>2 DEF ReadNothing
  <2> QED BY <1>16, <2>1, <2>2 DEF ReadNothing
<1> QED BY <1>3, <1>4, <1>5, <1>6, <1>7, <1>8, <1>9, <1>10, <1>11, <1>12, <1>13, <1>15, <1>16
        DEF Loop

LEMMA NextIInv == IInv /\ [Next]_vars => IInv'
<1> SUFFICES ASSUME IInv, [Next]_vars PROVE IInv'
  OBVIOUS
<1>1. CASE Command
  <2>1. xdr = <<>> /\ \E v, f : f \in FlagStores /\ xdr' = <<v, f>>
    BY <1>1 DEF Command, Stores, FlagStores
  <2>2. XdrShape' /\ Len(xdr) # 1 /\ Len(xdr') # 1
    BY <2>1 DEF XdrShape
  <2> QED BY <1>1, <2>2, AsideKeeps DEF Command, Aside
<1>2. CASE CommandStores
  BY <1>2, CommandStoresKeeps
<1>3. CASE \/ AskBandwidth \/ BandwidthFlag \/ AskStartStop \/ RestCall \/ Tick
           \/ SignalChanges \/ UNCHANGED vars
  <2>1. Aside /\ xdr' = xdr
    BY <1>3 DEF AskBandwidth, BandwidthFlag, AskStartStop, RestCall, Tick, SignalChanges,
                vars, Aside
  <2>2. XdrShape'
    BY <2>1 DEF IInv, XdrShape
  <2> QED BY <2>1, <2>2, AsideKeeps
<1>4. CASE RestWrites
  <2>1. XdrShape'
    BY <1>4 DEF RestWrites, IInv, XdrShape
  <2>2. dev' = [r \in Registers |-> dev'[r]]
    BY <1>4 DEF RestWrites, Write, IInv, LoopShape
  <2>3. LoopShape' /\ OnItsWay'
    BY <1>4, <2>2 DEF RestWrites, IInv, LoopShape, OnItsWay, requests, loop
  <2> QED BY <2>1, <2>3 DEF IInv
<1>5. CASE Loop
  BY <1>5, LoopKeeps
<1>6. CASE Loss
  <2>1. XdrShape'
    BY <1>6 DEF Loss, IInv, XdrShape
  <2>2. LoopShape' /\ ~session'.handle
    BY <1>6 DEF Loss, IInv, LoopShape, requests, loop
  <2> QED BY <2>1, <2>2 DEF IInv, OnItsWay
<1> QED BY <1>1, <1>2, <1>3, <1>4, <1>5, <1>6 DEF Next

-------------------------------------------------------------------------------
(* The registers say what the requests ask for whenever nothing is on its  *)
(* way: no A or G command is lost between the handlers' stores, the loop's *)
(* exchange of the flags and its loads, whatever the configuration.        *)
THEOREM SpecGainApplied == Spec => []GainApplied
<1>1. IInv => GainApplied
  BY DEF IInv, OnItsWay, Clean, Applied, Plan, GainApplied
<1> QED BY <1>1, InitIInv, NextIInv, PTL DEF Spec
===============================================================================
