-------------------------- MODULE TunerControl_proof --------------------------
(***************************************************************************)
(* Theorems about TunerControl, for every number of clients, every set of  *)
(* frequencies and bandwidths and every bound.                             *)
(***************************************************************************)
EXTENDS TunerControl, TLAPS

-------------------------------------------------------------------------------
(* Type correctness: the initial states. *)
LEMMA TypeInit == Init => TypeOK
<1> SUFFICES ASSUME Init PROVE TypeOK
  OBVIOUS
<1>1. PICK connected \in BOOLEAN : Init!(connected)
  BY FlagsAssumption DEF Init
<1> QED
  BY <1>1, FlagsAssumption, FreqsAssumption, BandwidthsAssumption, BoundsAssumption
     DEF TypeOK, ReqType, XdrType, UsersType, LoopType, ScanType, DevType,
         BudgetType, HistType, UserPlaces, MainPlaces, Rates

(* A component of the state that a step leaves alone keeps its type. *)
LEMMA TypeFrame ==
  ASSUME TypeOK
  PROVE  /\ UNCHANGED req => ReqType'
         /\ UNCHANGED xdr => XdrType'
         /\ UNCHANGED running => running' \in BOOLEAN
         /\ UNCHANGED users => UsersType'
         /\ UNCHANGED mpc => mpc' \in MainPlaces
         /\ UNCHANGED loop => LoopType'
         /\ UNCHANGED scan => ScanType'
         /\ UNCHANGED dev => DevType'
         /\ UNCHANGED budget => BudgetType'
         /\ UNCHANGED hist => HistType'
  BY DEF TypeOK, ReqType, XdrType, UsersType, LoopType, ScanType, DevType,
         BudgetType, HistType, users

(* Sending a command spends one of the budget. *)
LEMMA TypeSend ==
  ASSUME TypeOK, NEW u, NEW letter, Send(u, letter)
  PROVE  BudgetType'
  BY BoundsAssumption DEF TypeOK, BudgetType, Send

LEMMA TypeUser == TypeOK /\ UserStep => TypeOK'
<1> SUFFICES ASSUME TypeOK, UserStep PROVE TypeOK'
  OBVIOUS
<1> USE TypeFrame, TypeSend DEF MainUnchanged, SendLocked
<1>1. ASSUME NEW u \in LineClients, NEW f \in Freqs, LineTune(u, f)
      PROVE  TypeOK'
  <2>1. XdrType' /\ HistType'
    BY <1>1 DEF LineTune, TypeOK, XdrType, HistType
  <2>2. UsersType'
    BY <1>1 DEF LineTune, TypeOK, UsersType, UserPlaces, Users
  <2> QED
    BY <1>1, <2>1, <2>2 DEF LineTune, TypeOK
<1>2. ASSUME NEW u \in RestThreads, NEW f \in Freqs, RestTune(u, f)
      PROVE  TypeOK'
  <2>1. ReqType' /\ HistType'
    BY <1>2 DEF RestTune, StoreFrequency, TypeOK, ReqType, HistType
  <2>2. UsersType'
    BY <1>2 DEF RestTune, StoreFrequency, TypeOK, UsersType, UserPlaces, Users
  <2> QED
    BY <1>2, <2>1, <2>2 DEF RestTune, StoreFrequency, TypeOK
<1>3. ASSUME NEW u \in Users, NEW bw \in Bandwidths, SetBandwidth(u, bw)
      PROVE  TypeOK'
  <2>1. ReqType' /\ HistType'
    BY <1>3 DEF SetBandwidth, TypeOK, ReqType, HistType
  <2>2. UsersType'
    BY <1>3 DEF SetBandwidth, TypeOK, UsersType, UserPlaces
  <2> QED
    BY <1>3, <2>1, <2>2 DEF SetBandwidth, TypeOK
<1>4. ASSUME NEW u \in Users, Start(u)
      PROVE  TypeOK'
  <2>1. ReqType' /\ HistType'
    BY <1>4 DEF Start, RequestStart, TypeOK, ReqType, HistType
  <2>2. UsersType'
    BY <1>4 DEF Start, TypeOK, UsersType
  <2> QED
    BY <1>4, <2>1, <2>2 DEF Start, TypeOK
<1>5. ASSUME NEW u \in XdrClients, XdrStop(u)
      PROVE  TypeOK'
  <2>1. XdrType' /\ UsersType'
    BY <1>5 DEF XdrStop, TypeOK, XdrType, UsersType, UserPlaces
  <2> QED
    BY <1>5, <2>1 DEF XdrStop, TypeOK
<1>6. ASSUME NEW u \in FmdxClients \cup RestThreads, PlainStop(u)
      PROVE  TypeOK'
  <2>1. ReqType' /\ HistType' /\ UsersType'
    BY <1>6 DEF PlainStop, RequestStop, TypeOK, ReqType, HistType, UsersType
  <2> QED
    BY <1>6, <2>1 DEF PlainStop, TypeOK
<1>7. ASSUME NEW u \in FmdxClients, FmdxClose(u)
      PROVE  TypeOK'
  <2>1. ReqType' /\ HistType' /\ UsersType'
    BY <1>7 DEF FmdxClose, RequestStop, TypeOK, ReqType, HistType, UsersType
  <2> QED
    BY <1>7, <2>1 DEF FmdxClose, TypeOK
<1>8. ASSUME NEW u \in XdrClients, NEW continuous \in BOOLEAN, XdrScan(u, continuous)
      PROVE  TypeOK'
  <2>1. XdrType' /\ UsersType'
    BY <1>8 DEF XdrScan, TypeOK, XdrType, UsersType, UserPlaces
  <2> QED
    BY <1>8, <2>1 DEF XdrScan, TypeOK
<1>9. ASSUME NEW u \in XdrClients, NEW bw \in Bandwidths, XdrScanBandwidth(u, bw)
      PROVE  TypeOK'
  <2>1. XdrType' /\ UsersType'
    BY <1>9 DEF XdrScanBandwidth, TypeOK, XdrType, UsersType
  <2> QED
    BY <1>9, <2>1 DEF XdrScanBandwidth, TypeOK
<1>10. ASSUME NEW u \in XdrClients, XdrCancel(u)
       PROVE  TypeOK'
  <2>1. XdrType' /\ UsersType'
    BY <1>10 DEF XdrCancel, TypeOK, XdrType, UsersType
  <2> QED
    BY <1>10, <2>1 DEF XdrCancel, TypeOK
<1>11. ASSUME NEW u \in Users, UserContinues(u)
       PROVE  TypeOK'
  <2> USE DEF TypeOK, UsersType, UserPlaces
  <2>1. CASE LineTuneRequest(u)
    <3>1. ReqType' /\ HistType' /\ UsersType'
      BY <2>1 DEF LineTuneRequest, StoreFrequency, ReqType, HistType
    <3> QED
      BY <2>1, <3>1 DEF LineTuneRequest
  <2>2. CASE TunePending(u)
    <3>1. ReqType' /\ UsersType'
      BY <2>2 DEF TunePending, ReqType
    <3> QED
      BY <2>2, <3>1 DEF TunePending
  <2>3. CASE BandwidthPending(u)
    <3>1. ReqType' /\ UsersType'
      BY <2>3 DEF BandwidthPending, ReqType
    <3> QED
      BY <2>3, <3>1 DEF BandwidthPending
  <2>4. CASE XdrStopRequest(u)
    <3>1. ReqType' /\ HistType' /\ UsersType'
      BY <2>4 DEF XdrStopRequest, RequestStop, ReqType, HistType
    <3> QED
      BY <2>4, <3>1 DEF XdrStopRequest
  <2>5. CASE XdrScanPending(u)
    <3>1. XdrType' /\ UsersType'
      BY <2>5 DEF XdrScanPending, XdrType
    <3> QED
      BY <2>5, <3>1 DEF XdrScanPending
  <2> QED
    BY <1>11, <2>1, <2>2, <2>3, <2>4, <2>5 DEF UserContinues
<1> QED
  BY <1>1, <1>2, <1>3, <1>4, <1>5, <1>6, <1>7, <1>8, <1>9, <1>10, <1>11 DEF UserStep

-------------------------------------------------------------------------------
(* Type correctness: the device and the main loop. *)

(* A control transfer spends at most one of the glitches. *)
LEMMA TypeControl ==
  ASSUME TypeOK, NEW ok \in BOOLEAN, Control(ok)
  PROVE  BudgetType'
  BY BoundsAssumption DEF TypeOK, BudgetType, DevType, Control

LEMMA TypeConnect ==
  ASSUME TypeOK, NEW ok \in BOOLEAN, Connect(ok)
  PROVE  BudgetType' /\ DevType'
<1>1. BudgetType'
  BY BoundsAssumption DEF TypeOK, BudgetType, DevType, Connect
<1>2. DevType'
  BY DEF TypeOK, ReqType, DevType, Rates, Connect
<1> QED
  BY <1>1, <1>2

LEMMA TypeScanRate ==
  ASSUME TypeOK, NEW ok \in BOOLEAN, NEW rate \in Rates, SetScanWideMode(rate, ok)
  PROVE  BudgetType' /\ DevType'
<1>1. BudgetType'
  BY TypeControl, TypeFrame DEF SetScanWideMode
<1>2. DevType'
  BY DEF TypeOK, DevType, Rates, SetScanWideMode
<1> QED
  BY <1>1, <1>2

LEMMA TypeMain == TypeOK /\ MainStep => TypeOK'
<1> SUFFICES ASSUME TypeOK, MainStep PROVE TypeOK'
  OBVIOUS
<1> USE DEF At, Goto, shared, users
<1>0. /\ ReqType /\ XdrType /\ LoopType /\ ScanType /\ DevType /\ BudgetType
      /\ HistType /\ mpc \in MainPlaces
  BY DEF TypeOK
<1>1. CASE TakeStop
  <2>1. ReqType'
    BY <1>1, <1>0 DEF TakeStop, ReqType
  <2> QED
    BY <1>1, <2>1, TypeFrame DEF TakeStop, TypeOK, MainPlaces
<1>2. CASE StopTuner
  <2>1. ReqType' /\ LoopType' /\ DevType'
    BY <1>2, <1>0 DEF StopTuner, ReqType, LoopType, DevType
  <2> QED
    BY <1>2, <2>1, TypeFrame DEF StopTuner, TypeOK, MainPlaces
<1>3. CASE TakeStart
  <2>1. ReqType'
    BY <1>3, <1>0 DEF TakeStart, ReqType
  <2> QED
    BY <1>3, <2>1, TypeFrame DEF TakeStart, TypeOK, MainPlaces
<1>4. CASE Exit
  <2>1. LoopType' /\ DevType'
    BY <1>4, <1>0 DEF Exit, LoopType, DevType
  <2> QED
    BY <1>4, <2>1, TypeFrame DEF Exit, TypeOK, MainPlaces
<1>5. CASE ReadCurrentFrequency
  <2>1. LoopType'
    BY <1>5, <1>0 DEF ReadCurrentFrequency, LoopType, ReqType
  <2> QED
    BY <1>5, <2>1, TypeFrame DEF ReadCurrentFrequency, TypeOK, MainPlaces
<1>6. CASE ConsumeScanStart
  <2>1. XdrType'
    BY <1>6, <1>0 DEF ConsumeScanStart, XdrType
  <2>2. ScanType'
    <3>1. /\ xdr.scanContinuous \in BOOLEAN
          /\ loop.currentFreq \in Freqs /\ loop.appliedBw \in Bandwidths
      BY <1>0 DEF XdrType, LoopType
    <3>2. CASE xdr.scanStart
      BY <1>6, <1>0, <3>1, <3>2 DEF ConsumeScanStart, ScanType
    <3>3. CASE ~xdr.scanStart
      BY <1>6, <1>0, <3>3 DEF ConsumeScanStart, ScanType
    <3> QED BY <3>2, <3>3
  <2>3. ReqType'
    BY <1>6, <1>0 DEF ConsumeScanStart, XdrType, ReqType
  <2>4. HistType'
    <3>1. PICK c \in BOOLEAN : c = (~scan.active /\ NothingInFlight)
      OBVIOUS
    <3>2. req.freq \in Freqs /\ loop.appliedBw \in Bandwidths
      BY <1>0 DEF ReqType, LoopType
    <3> QED
      BY <1>6, <1>0, <3>1, <3>2 DEF ConsumeScanStart, HistType
  <2> QED
    BY <1>6, <2>1, <2>2, <2>3, <2>4, TypeFrame DEF ConsumeScanStart, TypeOK, MainPlaces
<1>7. CASE ConsumeScanCancel
  <2>1. XdrType' /\ ScanType' /\ HistType'
    BY <1>7, <1>0 DEF ConsumeScanCancel, XdrType, ScanType, HistType
  <2> QED
    BY <1>7, <2>1, TypeFrame DEF ConsumeScanCancel, TypeOK, MainPlaces
<1>8. CASE TakeFrequency
  <2>1. ReqType'
    BY <1>8, <1>0 DEF TakeFrequency, ReqType
  <2> QED
    BY <1>8, <2>1, TypeFrame DEF TakeFrequency, TypeOK, MainPlaces
<1>9. CASE PublishFrequency
  <2>1. XdrType'
    BY <1>9, <1>0 DEF PublishFrequency, XdrType, LoopType
  <2>2. LoopType'
    BY <1>9, <1>0, BoundsAssumption DEF PublishFrequency, LoopType
  <2>3. HistType'
    BY <1>9, <1>0 DEF PublishFrequency, HistType
  <2> QED
    BY <1>9, <2>1, <2>2, <2>3, TypeFrame DEF PublishFrequency, TypeOK, MainPlaces
<1>10. CASE TakeBandwidth
  <2>1. ReqType' /\ LoopType'
    BY <1>10, <1>0 DEF TakeBandwidth, ReqType, LoopType
  <2> QED
    BY <1>10, <2>1, TypeFrame DEF TakeBandwidth, TypeOK, MainPlaces
<1>11. CASE AbortSweep
  <2>1. XdrType' /\ ScanType'
    BY <1>11, <1>0 DEF AbortSweep, XdrType, ScanType
  <2> QED
    BY <1>11, <2>1, TypeFrame DEF AbortSweep, TypeOK, MainPlaces
<1>12. CASE SweepDone
  BY <1>12, TypeFrame DEF SweepDone, TypeOK, MainPlaces
<1>13. CASE EndSweep
  <2>1. ScanType'
    BY <1>13, <1>0 DEF EndSweep, ScanType
  <2> QED
    BY <1>13, <2>1, TypeFrame DEF EndSweep, TypeOK, MainPlaces
<1>14. CASE RestoreBandwidth
  <2>1. ReqType'
    BY <1>14, <1>0 DEF RestoreBandwidth, ReqType, ScanType
  <2> QED
    BY <1>14, <2>1, TypeFrame DEF RestoreBandwidth, TypeOK, MainPlaces
<1>15. CASE ReadBlock
  <2> DEFINE mute == IF loop.mute > 0 THEN loop.mute - 1 ELSE 0
  <2>1. mute \in 0..MuteBlocks /\ 0 \in 0..ReadFailureLimit
    BY <1>0, BoundsAssumption DEF LoopType
  <2>2. loop' = [loop EXCEPT !.failures = 0, !.mute = mute]
    BY <1>15 DEF ReadBlock
  <2> HIDE DEF mute
  <2>3. LoopType'
    BY <1>0, <2>1, <2>2 DEF LoopType
  <2>4. HistType'
    BY <1>15, <1>0 DEF ReadBlock, HistType
  <2> QED
    BY <1>15, <2>3, <2>4, TypeFrame DEF ReadBlock, TypeOK, MainPlaces
<1>16. CASE ReadNothing
  <2>1. PICK failures \in 0..ReadFailureLimit, connected \in BOOLEAN :
          loop' = [loop EXCEPT !.failures = failures, !.connected = connected]
    <3>1. (IF loop.failures < ReadFailureLimit
           THEN loop.failures + 1 ELSE ReadFailureLimit) \in 0..ReadFailureLimit
      BY <1>0, BoundsAssumption DEF LoopType
    <3> QED
      BY <1>16, <3>1 DEF ReadNothing
  <2>2. LoopType'
    BY <1>0, <2>1 DEF LoopType
  <2>3. DevType'
    BY <1>16, <1>0 DEF ReadNothing, DevType
  <2>4. BudgetType'
    BY <1>16, TypeControl DEF ReadNothing
  <2> QED
    BY <1>16, <2>2, <2>3, <2>4, TypeFrame, TypeControl DEF ReadNothing, TypeOK, MainPlaces
<1>17. ASSUME NEW ok \in BOOLEAN, ConnectTuner(ok)
       PROVE  TypeOK'
  <2>1. LoopType'
    <3>1. MuteBlocks \in 0..MuteBlocks
      BY BoundsAssumption
    <3> QED
      BY <1>17, <1>0, <3>1 DEF ConnectTuner, LoopType
  <2>2. HistType'
    BY <1>17, <1>0 DEF ConnectTuner, HistType
  <2> QED
    BY <1>17, <2>1, <2>2, TypeFrame, TypeConnect DEF ConnectTuner, TypeOK, MainPlaces
<1>18. ASSUME NEW ok \in BOOLEAN, Retune(ok)
       PROVE  TypeOK'
  <2>1. LoopType'
    BY <1>18, <1>0 DEF Retune, ReqType, LoopType
  <2>2. HistType'
    BY <1>18, <1>0 DEF Retune, HistType
  <2>3. DevType'
    BY <1>18, <1>0 DEF Retune, ReqType, DevType
  <2> QED
    BY <1>18, <2>1, <2>2, <2>3, TypeFrame, TypeControl DEF Retune, TypeOK, MainPlaces
<1>19. ASSUME NEW ok \in BOOLEAN, SwitchScanRate(ok)
       PROVE  TypeOK'
  <2>1. BudgetType' /\ DevType'
    <3>1. CASE scan.active /\ ~scan.wide
      BY <1>19, <3>1, TypeScanRate DEF SwitchScanRate, Rates
    <3>2. CASE ~scan.active /\ scan.wide
      BY <1>19, <3>2, TypeScanRate DEF SwitchScanRate, Rates
    <3>3. CASE scan.active = scan.wide
      BY <1>19, <3>3, TypeFrame DEF SwitchScanRate
    <3> QED
      BY <1>0, <3>1, <3>2, <3>3 DEF ScanType
  <2>2. ScanType'
    <3>1. 1 \in 1..(SweepCenters + 1)
      BY BoundsAssumption
    <3>2. dev'.inputRate \in Rates /\ "narrow" \in Rates
      BY <2>1 DEF DevType, Rates
    <3> QED
      BY <1>19, <1>0, <3>1, <3>2 DEF SwitchScanRate, ScanType
  <2>3. HistType'
    BY <1>19, <1>0 DEF SwitchScanRate, HistType
  <2>4. mpc' \in MainPlaces
    BY <1>19 DEF SwitchScanRate, Goto, MainPlaces
  <2>5. UNCHANGED <<shared, users, loop>>
    BY <1>19 DEF SwitchScanRate
  <2> QED
    BY <2>1, <2>2, <2>3, <2>4, <2>5, TypeFrame, <1>0 DEF shared, TypeOK
<1>20. ASSUME NEW ok \in BOOLEAN, SweepTune(ok)
       PROVE  TypeOK'
  <2>1. DevType' /\ HistType'
    BY <1>20, <1>0 DEF SweepTune, DevType, HistType
  <2>2. ScanType'
    <3>1. scan.step <= SweepCenters => scan.step + 1 \in 1..(SweepCenters + 1)
      BY <1>0, BoundsAssumption DEF ScanType
    <3> QED
      BY <1>20, <1>0, <3>1 DEF SweepTune, ScanType
  <2> QED
    BY <1>20, <2>1, <2>2, TypeFrame, TypeControl DEF SweepTune, TypeOK, MainPlaces
<1>21. ASSUME NEW ok \in BOOLEAN, RestoreFrequency(ok)
       PROVE  TypeOK'
  <2>1. ReqType'
    BY <1>21, <1>0 DEF RestoreFrequency, ReqType, ScanType
  <2>2. LoopType'
    BY <1>21, <1>0, BoundsAssumption DEF RestoreFrequency, LoopType
  <2>3. HistType'
    BY <1>21, <1>0 DEF RestoreFrequency, HistType
  <2>4. DevType'
    BY <1>21, <1>0 DEF RestoreFrequency, DevType, ScanType
  <2>5. mpc' \in MainPlaces
    BY <1>21, <1>0 DEF RestoreFrequency, ScanType, MainPlaces
  <2> QED
    BY <1>21, <2>1, <2>2, <2>3, <2>4, <2>5, TypeFrame, TypeControl
       DEF RestoreFrequency, TypeOK, MainPlaces
<1>22. ASSUME NEW ok \in BOOLEAN, Reconnect(ok)
       PROVE  TypeOK'
  <2>1. LoopType'
    <3>1. 0 \in 0..ReadFailureLimit
      BY BoundsAssumption
    <3> QED
      BY <1>22, <1>0, <3>1 DEF Reconnect, LoopType
  <2>2. HistType'
    BY <1>22, <1>0 DEF Reconnect, HistType
  <2> QED
    BY <1>22, <2>1, <2>2, TypeFrame, TypeConnect DEF Reconnect, TypeOK, MainPlaces
<1>23. ASSUME NEW ok \in BOOLEAN, NEW uncovered \in BOOLEAN, Fallback(uncovered, ok)
       PROVE  TypeOK'
  <2>1. DevType'
    BY <1>23, <1>0 DEF Fallback, DevType
  <2>2. HistType'
    BY <1>23, <1>0 DEF Fallback, HistType
  <2>3. BudgetType'
    BY <1>23, TypeFrame, TypeControl DEF Fallback
  <2> QED
    BY <1>23, <2>1, <2>2, <2>3, TypeFrame, TypeControl DEF Fallback, TypeOK, MainPlaces
<1> QED
  BY <1>1, <1>2, <1>3, <1>4, <1>5, <1>6, <1>7, <1>8, <1>9, <1>10, <1>11, <1>12,
     <1>13, <1>14, <1>15, <1>16, <1>17, <1>18, <1>19, <1>20, <1>21, <1>22, <1>23
     DEF MainStep

LEMMA TypeDevice == TypeOK /\ (Unplug \/ Plug \/ Interrupt) => TypeOK'
<1> SUFFICES ASSUME TypeOK, Unplug \/ Plug \/ Interrupt PROVE TypeOK'
  OBVIOUS
<1> USE TypeFrame DEF TypeOK, shared, users
<1>1. CASE Unplug
  <2>1. DevType'
    BY <1>1 DEF Unplug, DevType
  <2>2. BudgetType'
    BY <1>1, BoundsAssumption DEF Unplug, BudgetType
  <2> QED
    BY <1>1, <2>1, <2>2 DEF Unplug
<1>2. CASE Plug
  <2>1. DevType'
    BY <1>2 DEF Plug, DevType
  <2> QED
    BY <1>2, <2>1 DEF Plug
<1>3. CASE Interrupt
  BY <1>3 DEF Interrupt
<1> QED
  BY <1>1, <1>2, <1>3

LEMMA TypeStep == TypeOK /\ [Next]_vars => TypeOK'
<1>1. TypeOK /\ UNCHANGED vars => TypeOK'
  BY TypeFrame DEF vars, users, TypeOK
<1> QED
  BY <1>1, TypeUser, TypeMain, TypeDevice DEF Next

(* Whatever the users, the device and the main loop do, the state stays in *)
(* its types; the settle mute counter, which the code keeps unsigned, and  *)
(* the failure count in particular never leave their range.                *)
THEOREM TypeCorrect == Spec => []TypeOK
  BY TypeInit, TypeStep, PTL DEF Spec

-------------------------------------------------------------------------------
(***************************************************************************)
(* Start and stop.  What the users can do to the main loop is only to      *)
(* store requests.                                                         *)
(***************************************************************************)
LEMMA UsersOnlyRequest == UserStep => MainUnchanged
  BY DEF UserStep, LineTune, RestTune, SetBandwidth, Start, XdrStop, PlainStop,
         FmdxClose, XdrScan, XdrScanBandwidth, XdrCancel, UserContinues,
         LineTuneRequest, TunePending, BandwidthPending, XdrStopRequest,
         XdrScanPending

(* A user step leaves the start and stop flags alone, or it is itself the  *)
(* latest start or stop request.                                           *)
LEMMA UsersStartStop ==
  ASSUME TypeOK, UserStep
  PROVE  \/ /\ req'.start = req.start /\ req'.stop = req.stop
            /\ hist'.intent = hist.intent
         \/ hist'.intent = "start"
         \/ req'.stop
<1> USE DEF TypeOK, ReqType, HistType
<1>1. ASSUME NEW u \in Users, UserContinues(u)
      PROVE  \/ /\ req'.start = req.start /\ req'.stop = req.stop
                /\ hist'.intent = hist.intent
             \/ req'.stop
  BY <1>1 DEF UserContinues, LineTuneRequest, StoreFrequency, TunePending,
              BandwidthPending, XdrStopRequest, RequestStop, XdrScanPending
<1>2. ASSUME NEW u \in Users, Start(u)
      PROVE  hist'.intent = "start"
  BY <1>2 DEF Start, RequestStart
<1>3. ASSUME NEW u \in Users, PlainStop(u) \/ FmdxClose(u)
      PROVE  req'.stop
  BY <1>3 DEF PlainStop, FmdxClose, RequestStop
<1>4. ASSUME NEW u \in Users, NEW f \in Freqs, LineTune(u, f) \/ RestTune(u, f)
      PROVE  /\ req'.start = req.start /\ req'.stop = req.stop
             /\ hist'.intent = hist.intent
  BY <1>4 DEF LineTune, RestTune, StoreFrequency
<1>5. ASSUME NEW u \in Users, NEW bw \in Bandwidths,
             SetBandwidth(u, bw) \/ XdrScanBandwidth(u, bw)
      PROVE  /\ req'.start = req.start /\ req'.stop = req.stop
             /\ hist'.intent = hist.intent
  BY <1>5 DEF SetBandwidth, XdrScanBandwidth
<1>6. ASSUME NEW u \in Users, NEW continuous \in BOOLEAN,
             XdrStop(u) \/ XdrScan(u, continuous) \/ XdrCancel(u)
      PROVE  /\ req'.start = req.start /\ req'.stop = req.stop
             /\ hist'.intent = hist.intent
  BY <1>6 DEF XdrStop, XdrScan, XdrCancel
<1> QED
  BY <1>1, <1>2, <1>3, <1>4, <1>5, <1>6 DEF UserStep, Users, LineClients

(* The steps of a pass after TakeStart: they neither take requests to      *)
(* start or stop nor change whether the tuner is in use.                   *)
PassStep ==
  \/ ReadCurrentFrequency \/ ConsumeScanStart \/ ConsumeScanCancel
  \/ TakeFrequency \/ PublishFrequency \/ TakeBandwidth
  \/ AbortSweep \/ SweepDone \/ EndSweep \/ RestoreBandwidth
  \/ ReadBlock \/ ReadNothing
  \/ \E ok \in BOOLEAN :
       \/ Retune(ok) \/ SwitchScanRate(ok) \/ SweepTune(ok)
       \/ RestoreFrequency(ok) \/ Reconnect(ok)
       \/ \E uncovered \in BOOLEAN : Fallback(uncovered, ok)

PassPlaces == MainPlaces \ {"top", "stopping", "checkStart", "connecting", "exited"}

PassKeeps ==
  /\ req'.start = req.start /\ req'.stop = req.stop
  /\ hist'.intent = hist.intent
  /\ loop'.tunerActive = loop.tunerActive
  /\ mpc \in PassPlaces /\ mpc' \in PassPlaces \cup {"top"}

LEMMA PassFrame ==
  ASSUME TypeOK, PassStep
  PROVE  PassKeeps
<1> USE DEF At, Goto, shared, PassPlaces, MainPlaces, PassKeeps
<1>0. ReqType /\ LoopType /\ HistType /\ ScanType
  BY DEF TypeOK
<1>1. CASE ReadCurrentFrequency \/ ConsumeScanStart \/ ConsumeScanCancel
  <2>1. CASE ReadCurrentFrequency
    BY <2>1, <1>0 DEF ReadCurrentFrequency, LoopType
  <2>2. CASE ConsumeScanStart
    <3>1. \/ UNCHANGED req
          \/ req' = [req EXCEPT !.bw = xdr.scanBw, !.bwPending = TRUE]
      BY <2>2 DEF ConsumeScanStart
    <3>2. req'.start = req.start /\ req'.stop = req.stop
      BY <3>1, <1>0 DEF ReqType
    <3>3. hist'.intent = hist.intent
      BY <2>2, <1>0 DEF ConsumeScanStart, HistType
    <3> QED
      BY <2>2, <3>2, <3>3 DEF ConsumeScanStart
  <2>3. CASE ConsumeScanCancel
    BY <2>3, <1>0 DEF ConsumeScanCancel, HistType
  <2> QED
    BY <1>1, <2>1, <2>2, <2>3
<1>2. CASE TakeFrequency \/ PublishFrequency \/ TakeBandwidth
  BY <1>2, <1>0 DEF TakeFrequency, PublishFrequency, TakeBandwidth, ReqType, LoopType, HistType
<1>3. CASE AbortSweep \/ SweepDone \/ EndSweep \/ RestoreBandwidth
  BY <1>3, <1>0 DEF AbortSweep, SweepDone, EndSweep, RestoreBandwidth, ReqType
<1>4. CASE ReadBlock \/ ReadNothing
  BY <1>4, <1>0 DEF ReadBlock, ReadNothing, LoopType, HistType
<1>5. ASSUME NEW ok \in BOOLEAN, Retune(ok) \/ SwitchScanRate(ok) \/ SweepTune(ok)
      PROVE  PassKeeps
  BY <1>5, <1>0 DEF Retune, SwitchScanRate, SweepTune, LoopType, HistType
<1>6. ASSUME NEW ok \in BOOLEAN, RestoreFrequency(ok) \/ Reconnect(ok)
      PROVE  PassKeeps
  <2>1. CASE RestoreFrequency(ok)
    BY <2>1, <1>0 DEF RestoreFrequency, ReqType, LoopType, HistType, ScanType
  <2>2. CASE Reconnect(ok)
    BY <2>2, <1>0 DEF Reconnect, LoopType, HistType
  <2> QED
    BY <1>6, <2>1, <2>2
<1>7. ASSUME NEW ok \in BOOLEAN, NEW uncovered \in BOOLEAN, Fallback(uncovered, ok)
      PROVE  PassKeeps
  BY <1>7, <1>0 DEF Fallback, HistType
<1> QED
  BY <1>1, <1>2, <1>3, <1>4, <1>5, <1>6, <1>7 DEF PassStep

(* Every step is a user's, one of the first steps of a pass, or one of the *)
(* rest of the pass, or the device's.                                      *)
LEMMA StepCases ==
  ASSUME [Next]_vars
  PROVE  \/ UserStep \/ TakeStop \/ StopTuner \/ TakeStart \/ Exit \/ PassStep
         \/ \E ok \in BOOLEAN : ConnectTuner(ok)
         \/ Unplug \/ Plug \/ Interrupt \/ UNCHANGED vars
  BY DEF Next, MainStep, PassStep

LEMMA StopWinsStep ==
  ASSUME TypeOK, StopWins, [Next]_vars
  PROVE  StopWins'
<1> USE DEF At, Goto, shared, StopWins
<1>0. ReqType /\ LoopType /\ HistType
  BY DEF TypeOK
<1>1. CASE UserStep
  BY <1>1, UsersStartStop, UsersOnlyRequest DEF MainUnchanged
<1>2. CASE TakeStop
  BY <1>2, <1>0 DEF TakeStop, ReqType
<1>3. CASE StopTuner
  BY <1>3, <1>0 DEF StopTuner, ReqType, LoopType
<1>4. CASE TakeStart
  BY <1>4, <1>0 DEF TakeStart, ReqType
<1>5. CASE Exit
  BY <1>5, <1>0 DEF Exit, LoopType
<1>6. CASE PassStep
  BY <1>6, PassFrame DEF PassKeeps, PassPlaces, MainPlaces
<1>7. ASSUME NEW ok \in BOOLEAN, ConnectTuner(ok)
      PROVE  StopWins'
  BY <1>7, <1>0 DEF ConnectTuner, HistType
<1>8. CASE Unplug \/ Plug \/ Interrupt \/ UNCHANGED vars
  BY <1>8 DEF Unplug, Plug, Interrupt, vars
<1> QED
  BY <1>1, <1>2, <1>3, <1>4, <1>5, <1>6, <1>7, <1>8, StepCases

(* Once the last of all start and stop requests was a stop and the main    *)
(* loop has taken it, no older start can switch the tuner on again:        *)
(* clearing the pending start with the stop (application.cpp:929-935) is   *)
(* enough, whatever the order in which the threads store their requests.   *)
THEOREM StopWinsAlways == Spec => []StopWins
<1>1. Init => StopWins
  BY DEF Init, StopWins
<1> QED
  BY <1>1, TypeCorrect, StopWinsStep, PTL DEF Spec

(* Which places imply what about the session.  A pass beyond the start     *)
(* check belongs to a tuner in use, a connect to one that is not.          *)
PlacesKnown ==
  /\ mpc \in PassPlaces => loop.tunerActive
  /\ mpc = "connecting" => ~loop.tunerActive
  /\ IdleIsDisconnected

(* The rest of a pass opens a device only to reconnect. *)
LEMMA PlacesKnownStep ==
  ASSUME TypeOK, PlacesKnown, [Next]_vars
  PROVE  PlacesKnown'
<1> USE DEF At, Goto, shared, PlacesKnown, IdleIsDisconnected
<1>0. ReqType /\ LoopType /\ DevType /\ mpc \in MainPlaces
  BY DEF TypeOK
<1>1. CASE UserStep
  BY <1>1, UsersOnlyRequest DEF MainUnchanged
<1>2. CASE TakeStop
  BY <1>2 DEF TakeStop, PassPlaces
<1>3. CASE StopTuner
  BY <1>3, <1>0 DEF StopTuner, LoopType, DevType, PassPlaces
<1>4. CASE TakeStart
  BY <1>4, <1>0 DEF TakeStart, PassPlaces
<1>5. CASE Exit
  BY <1>5, <1>0 DEF Exit, LoopType, DevType, PassPlaces
<1>6. CASE PassStep
  BY <1>6, PassFrame DEF PassKeeps, PassPlaces
<1>7. ASSUME NEW ok \in BOOLEAN, ConnectTuner(ok)
      PROVE  PlacesKnown'
  BY <1>7, <1>0 DEF ConnectTuner, Connect, LoopType, DevType, PassPlaces
<1>8. CASE Unplug \/ Plug \/ Interrupt \/ UNCHANGED vars
  BY <1>8, <1>0 DEF Unplug, Plug, Interrupt, vars, DevType
<1> QED
  BY <1>1, <1>2, <1>3, <1>4, <1>5, <1>6, <1>7, <1>8, StepCases

(* An idle tuner has released the device: no step of any thread leaves a   *)
(* session open behind a stop or a failed connect.                         *)
THEOREM IdleDisconnected == Spec => []IdleIsDisconnected
<1>1. Init => PlacesKnown
  BY FlagsAssumption DEF Init, PlacesKnown, IdleIsDisconnected, PassPlaces
<1>2. PlacesKnown => IdleIsDisconnected
  BY DEF PlacesKnown
<1> QED
  BY <1>1, <1>2, TypeCorrect, PlacesKnownStep, PTL DEF Spec

-------------------------------------------------------------------------------
(***************************************************************************)
(* Tuning.  Between taking the pending flag and publishing, the loop holds *)
(* the frequency it tuned to in a local; a request that arrives meanwhile  *)
(* is still half stored or pending.                                        *)
(***************************************************************************)
PublishesRequested ==
  mpc = "publish" =>
    /\ dev.freq = loop.target
    /\ NoTuneHalfStored /\ ~req.freqPending => loop.target = req.freq

SweepsWhileActive == mpc = "sweep" => scan.active

TuneInv ==
  PublishesRequested /\ SweepsWhileActive /\ XdrAgreement /\ TunedAgreement

(* What a user step does to the tune request: it is half way through one,  *)
(* or it has just completed one, or it has nothing to do with one.         *)
TuneRequestKept ==
  /\ req'.freq = req.freq /\ req'.freqPending = req.freqPending
  /\ xdr'.frequency = xdr.frequency
  /\ NoTuneInFlight' => NoTuneInFlight
  /\ NoTuneHalfStored' => NoTuneHalfStored

LineTuneBegun ==
  /\ req'.freq = req.freq /\ req'.freqPending = req.freqPending
  /\ ~NoTuneInFlight'
  /\ NoTuneHalfStored' => NoTuneHalfStored

UserTunes ==
  /\ hist'.dropped = hist.dropped
  /\ \/ TuneRequestKept
     \/ LineTuneBegun
     \/ ~NoTuneInFlight' /\ ~NoTuneHalfStored'
     \/ req'.freqPending

(* A user at u who moves to a place outside a tune leaves the others' alone. *)
LEMMA OtherUsersKeep ==
  ASSUME UsersType, NEW u \in Users, NEW place,
         upc' = [upc EXCEPT ![u] = place],
         upc[u] \notin {"tuneRequest", "tunePending"}
  PROVE  /\ NoTuneInFlight' => NoTuneInFlight
         /\ NoTuneHalfStored' => NoTuneHalfStored
  BY DEF UsersType, NoTuneInFlight, NoTuneHalfStored

LEMMA UsersTune ==
  ASSUME TypeOK, UserStep
  PROVE  UserTunes
<1>0. ReqType /\ XdrType /\ HistType /\ UsersType
  BY DEF TypeOK
<1>1. ASSUME NEW u \in LineClients, NEW f \in Freqs, LineTune(u, f)
      PROVE  UserTunes
  <2>1. u \in Users /\ upc[u] = "idle" /\ upc' = [upc EXCEPT ![u] = "tuneRequest"]
    BY <1>1 DEF LineTune, SendLocked, Send, Users
  <2>2. ~NoTuneInFlight'
    BY <1>0, <2>1 DEF UsersType, NoTuneInFlight
  <2>3. NoTuneHalfStored' => NoTuneHalfStored
    BY <1>0, <2>1, OtherUsersKeep
  <2> QED
    BY <1>0, <1>1, <2>2, <2>3 DEF LineTune, HistType, UserTunes, LineTuneBegun
<1>2. ASSUME NEW u \in Users, NEW f \in Freqs, StoreFrequency(u, f)
      PROVE  UserTunes
  BY <1>0, <1>2 DEF StoreFrequency, HistType, UsersType, UserTunes,
                    NoTuneInFlight, NoTuneHalfStored
<1>3. ASSUME NEW u \in Users, TunePending(u)
      PROVE  UserTunes
  BY <1>0, <1>3 DEF TunePending, ReqType, UserTunes
<1>4. ASSUME NEW u \in Users, NEW place,
             upc[u] \notin {"tuneRequest", "tunePending"},
             UNCHANGED upc \/ upc' = [upc EXCEPT ![u] = place],
             req'.freq = req.freq, req'.freqPending = req.freqPending,
             xdr'.frequency = xdr.frequency, hist'.dropped = hist.dropped
      PROVE  UserTunes
  <2>1. CASE UNCHANGED upc
    BY <1>4, <2>1 DEF UserTunes, TuneRequestKept, NoTuneInFlight, NoTuneHalfStored
  <2>2. CASE upc' = [upc EXCEPT ![u] = place]
    BY <1>0, <1>4, <2>2, OtherUsersKeep DEF UserTunes, TuneRequestKept
  <2> QED
    BY <1>4, <2>1, <2>2
<1>5. ASSUME NEW u \in Users, NEW bw \in Bandwidths, SetBandwidth(u, bw)
      PROVE  UserTunes
  BY <1>0, <1>4, <1>5 DEF SetBandwidth, SendLocked, Send, ReqType, HistType
<1>6. ASSUME NEW u \in Users, Start(u)
      PROVE  UserTunes
  BY <1>0, <1>4, <1>6 DEF Start, SendLocked, Send, RequestStart, ReqType, HistType
<1>7. ASSUME NEW u \in Users, PlainStop(u)
      PROVE  UserTunes
  BY <1>0, <1>4, <1>7 DEF PlainStop, Send, RequestStop, ReqType, HistType
<1>8. ASSUME NEW u \in Users, FmdxClose(u)
      PROVE  UserTunes
  BY <1>0, <1>4, <1>8 DEF FmdxClose, Send, RequestStop, ReqType, HistType
<1>9. ASSUME NEW u \in Users, XdrStop(u)
      PROVE  UserTunes
  BY <1>0, <1>4, <1>9 DEF XdrStop, SendLocked, Send, XdrType
<1>10. ASSUME NEW u \in Users, NEW continuous \in BOOLEAN, XdrScan(u, continuous)
       PROVE  UserTunes
  BY <1>0, <1>4, <1>10 DEF XdrScan, SendLocked, Send, XdrType
<1>11. ASSUME NEW u \in Users, NEW bw \in Bandwidths, XdrScanBandwidth(u, bw)
       PROVE  UserTunes
  BY <1>0, <1>4, <1>11 DEF XdrScanBandwidth, SendLocked, Send, XdrType
<1>12. ASSUME NEW u \in Users, XdrCancel(u)
       PROVE  UserTunes
  BY <1>0, <1>4, <1>12 DEF XdrCancel, Send, XdrType
<1>13. ASSUME NEW u \in Users, BandwidthPending(u)
       PROVE  UserTunes
  BY <1>0, <1>4, <1>13 DEF BandwidthPending, ReqType
<1>14. ASSUME NEW u \in Users, XdrStopRequest(u)
       PROVE  UserTunes
  BY <1>0, <1>4, <1>14 DEF XdrStopRequest, RequestStop, ReqType, HistType
<1>15. ASSUME NEW u \in Users, XdrScanPending(u)
       PROVE  UserTunes
  BY <1>0, <1>4, <1>15 DEF XdrScanPending, XdrType
<1>16. ASSUME NEW u \in Users, NEW f \in Freqs, RestTune(u, f) \/ LineTuneRequest(u)
       PROVE  UserTunes
  <2>1. uarg[u] \in Freqs
    BY <1>0 DEF UsersType
  <2> QED
    BY <1>2, <1>16, <2>1 DEF RestTune, LineTuneRequest
<1>17. ASSUME NEW u \in Users, UserContinues(u)
       PROVE  UserTunes
  BY <1>3, <1>13, <1>14, <1>15, <1>16, <1>17, FreqsAssumption DEF UserContinues
<1> QED
  BY <1>1, <1>5, <1>6, <1>7, <1>8, <1>9, <1>10, <1>11, <1>12, <1>16, <1>17
     DEF UserStep, Users, LineClients

(* A step that leaves the tune request, the shown and the tuned frequency  *)
(* alone, and neither connects, nor ends a scan, nor leaves a place the    *)
(* agreements except, keeps them.                                          *)
Excepted == {"retune", "publish", "fallback", "endSweep", "restoreBandwidth",
             "restoreFrequency"}

TuneUntouched ==
  /\ req'.freq = req.freq /\ req'.freqPending = req.freqPending
  /\ xdr'.frequency = xdr.frequency
  /\ UNCHANGED upc
  /\ hist'.dropped = hist.dropped
  /\ dev'.freq = dev.freq

LEMMA UntouchedKeeps ==
  ASSUME TuneInv, TuneUntouched,
         mpc \notin Excepted, mpc' \notin {"publish", "sweep"},
         loop'.connected => loop.connected,
         scan'.active = scan.active
  PROVE  TuneInv'
  BY DEF TuneInv, TuneUntouched, Excepted, PublishesRequested, SweepsWhileActive,
         XdrAgreement, TunedAgreement, NoTuneInFlight, NoTuneHalfStored

LEMMA TuneUserStep ==
  ASSUME TypeOK, TuneInv, UserStep
  PROVE  TuneInv'
<1>1. UNCHANGED <<mpc, loop, scan, dev>>
  BY UsersOnlyRequest DEF MainUnchanged
<1>2. UserTunes
  BY UsersTune
<1> QED
  BY <1>1, <1>2 DEF TuneInv, UserTunes, TuneRequestKept, LineTuneBegun,
     PublishesRequested, SweepsWhileActive, XdrAgreement, TunedAgreement

LEMMA TuneMainStep ==
  ASSUME TypeOK, TuneInv, MainStep
  PROVE  TuneInv'
<1> USE DEF At, Goto, shared, users
<1>0. ReqType /\ XdrType /\ LoopType /\ ScanType /\ DevType /\ HistType
  BY DEF TypeOK
<1>1. CASE TakeStop
  BY <1>0, <1>1, UntouchedKeeps DEF TakeStop, ReqType, TuneUntouched, Excepted
<1>2. CASE StopTuner
  BY <1>0, <1>2, UntouchedKeeps
     DEF StopTuner, ReqType, LoopType, DevType, TuneUntouched, Excepted
<1>3. CASE TakeStart
  BY <1>0, <1>3, UntouchedKeeps DEF TakeStart, ReqType, TuneUntouched, Excepted
<1>4. CASE Exit
  BY <1>0, <1>4, UntouchedKeeps DEF Exit, LoopType, DevType, TuneUntouched, Excepted
<1>5. CASE ReadCurrentFrequency
  BY <1>0, <1>5, UntouchedKeeps DEF ReadCurrentFrequency, LoopType, TuneUntouched, Excepted
<1>6. CASE ConsumeScanStart
  <2>1. \/ UNCHANGED <<req, xdr, scan, hist>>
        \/ scan'.active
    BY <1>0, <1>6 DEF ConsumeScanStart, ScanType
  <2>2. \/ UNCHANGED req
        \/ req' = [req EXCEPT !.bw = xdr.scanBw, !.bwPending = TRUE]
    BY <1>6 DEF ConsumeScanStart
  <2>3. req'.freq = req.freq /\ req'.freqPending = req.freqPending
    BY <1>0, <2>2 DEF ReqType
  <2>4. xdr'.frequency = xdr.frequency
    BY <1>0, <1>6 DEF ConsumeScanStart, XdrType
  <2>5. hist'.dropped = hist.dropped
    BY <1>0, <1>6 DEF ConsumeScanStart, HistType
  <2>6. mpc = "scanStart" /\ mpc' = "scanCancel" /\ UNCHANGED <<upc, loop, dev>>
    BY <1>6 DEF ConsumeScanStart
  <2> QED
    BY <2>1, <2>3, <2>4, <2>5, <2>6
       DEF TuneInv, PublishesRequested, SweepsWhileActive, XdrAgreement,
           TunedAgreement, NoTuneInFlight, NoTuneHalfStored
<1>7. CASE ConsumeScanCancel
  <2>1. /\ mpc = "scanCancel" /\ mpc' \in {"restoreBandwidth", "takeFrequency"}
        /\ UNCHANGED <<req, upc, loop, dev>>
    BY <1>7 DEF ConsumeScanCancel
  <2>2. xdr'.frequency = xdr.frequency /\ hist'.dropped = hist.dropped
    BY <1>0, <1>7 DEF ConsumeScanCancel, XdrType, HistType
  <2>3. \/ mpc' = "restoreBandwidth" \/ ~loop.connected
        \/ scan'.active = scan.active
    BY <1>0, <1>7 DEF ConsumeScanCancel, ScanType, XdrType
  <2> QED
    BY <2>1, <2>2, <2>3
       DEF TuneInv, PublishesRequested, SweepsWhileActive, XdrAgreement,
           TunedAgreement, NoTuneInFlight, NoTuneHalfStored
<1>8. CASE TakeFrequency
  <2>1. CASE loop.connected /\ req.freqPending
    BY <1>8, <2>1 DEF TakeFrequency, TuneInv, PublishesRequested,
       SweepsWhileActive, XdrAgreement, TunedAgreement
  <2>2. CASE ~(loop.connected /\ req.freqPending)
    BY <1>8, <2>2, UntouchedKeeps DEF TakeFrequency, TuneUntouched, Excepted
  <2> QED
    BY <2>1, <2>2
<1>9. CASE PublishFrequency
  <2>1. /\ mpc = "publish" /\ mpc' = "bandwidth"
        /\ UNCHANGED <<req, upc, dev>>
    BY <1>9 DEF PublishFrequency
  <2>2. xdr'.frequency = loop.target
    BY <1>0, <1>9 DEF PublishFrequency, XdrType
  <2>3. NoTuneInFlight => NoTuneHalfStored
    BY DEF NoTuneInFlight, NoTuneHalfStored
  <2> QED
    BY <2>1, <2>2, <2>3 DEF TuneInv, PublishesRequested, SweepsWhileActive,
       XdrAgreement, TunedAgreement, NoTuneInFlight, NoTuneHalfStored
<1>10. CASE TakeBandwidth
  <2>1. req'.freq = req.freq /\ req'.freqPending = req.freqPending
    BY <1>0, <1>10 DEF TakeBandwidth, ReqType
  <2>2. loop'.connected = loop.connected
    BY <1>0, <1>10 DEF TakeBandwidth, LoopType
  <2> QED
    BY <1>10, <2>1, <2>2, UntouchedKeeps DEF TakeBandwidth, TuneUntouched, Excepted
<1>11. CASE AbortSweep
  BY <1>0, <1>11 DEF AbortSweep, XdrType, TuneInv, PublishesRequested,
     SweepsWhileActive, XdrAgreement, TunedAgreement, NoTuneInFlight, NoTuneHalfStored
<1>12. CASE SweepDone
  BY <1>12 DEF SweepDone, TuneInv, PublishesRequested, SweepsWhileActive,
     XdrAgreement, TunedAgreement, NoTuneInFlight, NoTuneHalfStored
<1>13. CASE EndSweep
  <2>1. mpc' = "restoreBandwidth" \/ (mpc' = "top" /\ scan'.active)
    <3>1. CASE scan.continuous /\ scan.active
      <4>1. scan' = [scan EXCEPT !.active = TRUE, !.after = "top"] /\ mpc' = "top"
        BY <1>13, <3>1 DEF EndSweep
      <4> QED
        BY <1>0, <4>1 DEF ScanType
    <3>2. CASE ~(scan.continuous /\ scan.active)
      BY <1>13, <3>2 DEF EndSweep
    <3> QED
      BY <3>1, <3>2
  <2> QED
    BY <1>13, <2>1 DEF EndSweep, TuneInv, PublishesRequested, SweepsWhileActive,
       XdrAgreement, TunedAgreement, NoTuneInFlight, NoTuneHalfStored
<1>14. CASE RestoreBandwidth
  BY <1>0, <1>14 DEF RestoreBandwidth, ReqType, TuneInv, PublishesRequested,
     SweepsWhileActive, XdrAgreement, TunedAgreement, NoTuneInFlight, NoTuneHalfStored
<1>15. CASE ReadBlock
  <2>1. loop'.connected = loop.connected /\ hist'.dropped = hist.dropped
    BY <1>0, <1>15 DEF ReadBlock, LoopType, HistType
  <2> QED
    BY <1>15, <2>1, UntouchedKeeps DEF ReadBlock, TuneUntouched, Excepted
<1>16. CASE ReadNothing
  <2>1. (loop'.connected => loop.connected) /\ dev'.freq = dev.freq
    BY <1>0, <1>16 DEF ReadNothing, LoopType, DevType
  <2> QED
    BY <1>16, <2>1, UntouchedKeeps DEF ReadNothing, TuneUntouched, Excepted
<1>17. ASSUME NEW ok \in BOOLEAN, ConnectTuner(ok) \/ Reconnect(ok)
       PROVE  TuneInv'
  <2>1. loop'.connected => dev'.freq = req.freq
    BY <1>0, <1>17 DEF ConnectTuner, Reconnect, Connect, LoopType, DevType
  <2>2. hist'.dropped = hist.dropped
    BY <1>0, <1>17 DEF ConnectTuner, Reconnect, HistType
  <2>3. /\ mpc \in {"connecting", "reconnect"} /\ mpc' \in {"control", "top"}
        /\ UNCHANGED <<req, xdr, upc, scan>>
    BY <1>17 DEF ConnectTuner, Reconnect
  <2> QED
    BY <2>1, <2>2, <2>3 DEF TuneInv, PublishesRequested, SweepsWhileActive,
       XdrAgreement, TunedAgreement, NoTuneInFlight, NoTuneHalfStored
<1>18. ASSUME NEW ok \in BOOLEAN, Retune(ok)
       PROVE  TuneInv'
  <2>1. CASE ok
    BY <1>0, <1>18, <2>1 DEF Retune, LoopType, DevType, HistType, TuneInv,
       PublishesRequested, SweepsWhileActive, XdrAgreement, TunedAgreement,
       NoTuneInFlight, NoTuneHalfStored
  <2>2. CASE ~ok
    <3>1. hist'.dropped
      BY <1>0, <1>18, <2>2 DEF Retune, HistType
    <3> QED
      BY <1>18, <2>2, <3>1 DEF Retune, TuneInv, PublishesRequested,
         SweepsWhileActive, XdrAgreement, TunedAgreement
  <2> QED
    BY <2>1, <2>2
<1>19. ASSUME NEW ok \in BOOLEAN, SwitchScanRate(ok)
       PROVE  TuneInv'
  <2>1. dev'.freq = dev.freq
    BY <1>0, <1>19 DEF SwitchScanRate, SetScanWideMode, DevType
  <2>2. scan'.active = scan.active
    BY <1>0, <1>19 DEF SwitchScanRate, ScanType
  <2>3. /\ mpc = "scanMode" /\ mpc' \in {"sweep", "read"}
        /\ mpc' = "sweep" => scan.active
        /\ UNCHANGED <<req, xdr, upc, loop>>
    BY <1>19 DEF SwitchScanRate
  <2>4. hist'.dropped = hist.dropped
    BY <1>0, <1>19 DEF SwitchScanRate, HistType
  <2> QED
    BY <2>1, <2>2, <2>3, <2>4 DEF TuneInv, PublishesRequested, SweepsWhileActive,
       XdrAgreement, TunedAgreement, NoTuneInFlight, NoTuneHalfStored
<1>20. ASSUME NEW ok \in BOOLEAN, SweepTune(ok)
       PROVE  TuneInv'
  <2>1. hist'.dropped = hist.dropped
    BY <1>0, <1>20 DEF SweepTune, HistType
  <2>2. mpc' = "fallback" \/ (mpc' = "sweep" /\ scan'.active)
    <3>1. CASE ok
      <4>1. scan' = [scan EXCEPT !.step = @ + 1] /\ mpc' = mpc /\ mpc = "sweep"
        BY <1>20, <3>1 DEF SweepTune
      <4> QED
        BY <1>0, <4>1 DEF ScanType, TuneInv, SweepsWhileActive
    <3>2. CASE ~ok
      BY <1>20, <3>2 DEF SweepTune
    <3> QED
      BY <3>1, <3>2
  <2>3. mpc = "sweep" /\ UNCHANGED <<req, xdr, upc, loop>>
    BY <1>20 DEF SweepTune
  <2> QED
    BY <2>1, <2>2, <2>3 DEF TuneInv, PublishesRequested, SweepsWhileActive,
       XdrAgreement, TunedAgreement, NoTuneInFlight, NoTuneHalfStored
<1>21. ASSUME NEW ok \in BOOLEAN, RestoreFrequency(ok)
       PROVE  TuneInv'
  <2>1. req'.freqPending
    BY <1>0, <1>21 DEF RestoreFrequency, ReqType
  <2>2. mpc' \in {"takeFrequency", "top"}
    BY <1>0, <1>21 DEF RestoreFrequency, ScanType
  <2> QED
    BY <2>1, <2>2 DEF TuneInv, PublishesRequested, SweepsWhileActive,
       XdrAgreement, TunedAgreement
<1>22. ASSUME NEW ok \in BOOLEAN, NEW uncovered \in BOOLEAN, Fallback(uncovered, ok)
       PROVE  TuneInv'
  <2>1. hist'.dropped = hist.dropped
    BY <1>0, <1>22 DEF Fallback, HistType
  <2> QED
    BY <1>22, <2>1 DEF Fallback, TuneInv, PublishesRequested, SweepsWhileActive,
       XdrAgreement, TunedAgreement, NoTuneInFlight, NoTuneHalfStored
<1> QED
  BY <1>1, <1>2, <1>3, <1>4, <1>5, <1>6, <1>7, <1>8, <1>9, <1>10, <1>11, <1>12,
     <1>13, <1>14, <1>15, <1>16, <1>17, <1>18, <1>19, <1>20, <1>21, <1>22
     DEF MainStep

LEMMA TuneStep ==
  ASSUME TypeOK, TuneInv, [Next]_vars
  PROVE  TuneInv'
<1>1. CASE Unplug \/ Plug \/ Interrupt \/ UNCHANGED vars
  <2>1. /\ UNCHANGED <<req, xdr, upc, mpc, loop, scan, hist>>
        /\ dev'.freq = dev.freq
    BY <1>1 DEF TypeOK, DevType, Unplug, Plug, Interrupt, vars, shared, users
  <2> QED
    BY <2>1 DEF TuneInv, PublishesRequested, SweepsWhileActive, XdrAgreement,
       TunedAgreement, NoTuneInFlight, NoTuneHalfStored
<1> QED
  BY <1>1, TuneUserStep, TuneMainStep DEF Next

LEMMA TuneInit == Init => TuneInv
  BY DEF Init, TuneInv, PublishesRequested, SweepsWhileActive, XdrAgreement,
     TunedAgreement

(* The shown frequency is the requested one whenever no request is on its  *)
(* way and the device did not refuse the last retune.  It rests on the     *)
(* pending flag being taken before the requested frequency is loaded       *)
(* (runtime_loop.cpp:42-43), while every writer stores in the other order. *)
THEOREM XdrAlwaysAgrees == Spec => []XdrAgreement
<1>1. TuneInv => XdrAgreement
  BY DEF TuneInv
<1> QED
  BY <1>1, TuneInit, TypeCorrect, TuneStep, PTL DEF Spec

(* With nothing pending and no scan on, the device is tuned to the         *)
(* requested frequency: no interleaving of the users' two stores with the  *)
(* loop's two loads, no reconnect and no scan loses a request.             *)
THEOREM TunedAlwaysAgrees == Spec => []TunedAgreement
<1>1. TuneInv => TunedAgreement
  BY DEF TuneInv
<1> QED
  BY <1>1, TuneInit, TypeCorrect, TuneStep, PTL DEF Spec

-------------------------------------------------------------------------------
(***************************************************************************)
(* The settle mute.  Without automatic reconnects every way to change what *)
(* the device receives arms the mute before the next block is read; a      *)
(* sweep changes it many times, so only its end counts.                    *)
(***************************************************************************)
Unmuted == {"publish", "fallback", "endSweep", "restoreBandwidth", "restoreFrequency"}

MuteInv ==
  /\ loop.connected /\ hist.unsettled /\ ~scan.active /\ mpc \notin Unmuted =>
       loop.mute = MuteBlocks
  /\ mpc = "sweep" => scan.active
  /\ mpc = "read" /\ loop.connected => ~scan.active
  /\ mpc # "reconnect"

LEMMA MuteMainStep ==
  ASSUME ~AutoReconnect, TypeOK, MuteInv, MainStep
  PROVE  MuteInv'
<1> USE DEF At, Goto, shared, users, MuteInv, Unmuted
<1>0. LoopType /\ ScanType /\ HistType
  BY DEF TypeOK
<1>1. CASE TakeStop \/ TakeStart \/ SweepDone \/ RestoreBandwidth \/ TakeFrequency
  BY <1>1 DEF TakeStop, TakeStart, SweepDone, RestoreBandwidth, TakeFrequency
<1>2. CASE StopTuner \/ Exit
  BY <1>0, <1>2 DEF StopTuner, Exit, LoopType
<1>3. CASE ReadCurrentFrequency \/ TakeBandwidth
  BY <1>0, <1>3 DEF ReadCurrentFrequency, TakeBandwidth, LoopType
<1>4. CASE ConsumeScanStart
  <2>1. scan'.active \/ UNCHANGED <<scan, hist>>
    BY <1>0, <1>4 DEF ConsumeScanStart, ScanType
  <2> QED
    BY <1>4, <2>1 DEF ConsumeScanStart
<1>5. CASE ConsumeScanCancel
  <2>1. \/ mpc' = "restoreBandwidth" \/ ~loop.connected
        \/ (scan'.active = scan.active /\ mpc' = "takeFrequency")
    BY <1>0, <1>5 DEF ConsumeScanCancel, ScanType
  <2>2. hist'.unsettled = hist.unsettled
    BY <1>0, <1>5 DEF ConsumeScanCancel, HistType
  <2>3. mpc = "scanCancel" /\ mpc' \in {"restoreBandwidth", "takeFrequency"}
    BY <1>5 DEF ConsumeScanCancel
  <2> QED
    BY <1>5, <2>1, <2>2, <2>3 DEF ConsumeScanCancel
<1>6. CASE PublishFrequency
  <2>1. loop'.mute = MuteBlocks
    BY <1>0, <1>6 DEF PublishFrequency, LoopType
  <2> QED
    BY <1>6, <2>1 DEF PublishFrequency
<1>7. CASE AbortSweep
  BY <1>7 DEF AbortSweep
<1>8. CASE EndSweep
  <2>1. mpc' = "restoreBandwidth" \/ (mpc' = "top" /\ scan'.active)
    <3>1. CASE scan.continuous /\ scan.active
      <4>1. scan' = [scan EXCEPT !.active = TRUE, !.after = "top"] /\ mpc' = "top"
        BY <1>8, <3>1 DEF EndSweep
      <4> QED
        BY <1>0, <4>1 DEF ScanType
    <3>2. CASE ~(scan.continuous /\ scan.active)
      BY <1>8, <3>2 DEF EndSweep
    <3> QED
      BY <3>1, <3>2
  <2> QED
    BY <2>1
<1>9. CASE ReadBlock
  BY <1>0, <1>9 DEF ReadBlock, HistType
<1>10. CASE ReadNothing
  <2>1. loop'.mute = loop.mute /\ loop'.connected = loop.connected
    BY <1>0, <1>10 DEF ReadNothing, LoopType
  <2>2. mpc = "read" /\ mpc' = "top" /\ UNCHANGED <<scan, hist>>
    BY <1>10 DEF ReadNothing
  <2> QED
    BY <2>1, <2>2
<1>11. ASSUME NEW ok \in BOOLEAN, ConnectTuner(ok)
       PROVE  MuteInv'
  <2>1. loop'.mute = MuteBlocks
    BY <1>0, <1>11 DEF ConnectTuner, LoopType
  <2>2. mpc' \in {"control", "top"}
    BY <1>11 DEF ConnectTuner
  <2> QED
    BY <2>1, <2>2
<1>12. ASSUME NEW ok \in BOOLEAN, Retune(ok)
       PROVE  MuteInv'
  <2>1. CASE ok
    BY <1>12, <2>1 DEF Retune
  <2>2. CASE ~ok
    <3>1. hist'.unsettled = hist.unsettled
      BY <1>0, <1>12, <2>2 DEF Retune, HistType
    <3> QED
      BY <1>12, <2>2, <3>1 DEF Retune
  <2> QED
    BY <2>1, <2>2
<1>13. ASSUME NEW ok \in BOOLEAN, SwitchScanRate(ok)
       PROVE  MuteInv'
  <2>1. scan'.active = scan.active
    BY <1>0, <1>13 DEF SwitchScanRate, ScanType
  <2>2. /\ mpc = "scanMode"
        /\ mpc' = IF scan.active /\ loop.connected THEN "sweep" ELSE "read"
        /\ UNCHANGED loop
    BY <1>13 DEF SwitchScanRate
  <2>3. hist'.unsettled = hist.unsettled
    BY <1>0, <1>13 DEF SwitchScanRate, HistType
  <2> QED
    BY <2>1, <2>2, <2>3
<1>14. ASSUME NEW ok \in BOOLEAN, SweepTune(ok)
       PROVE  MuteInv'
  <2>1. CASE ok
    <3>1. scan' = [scan EXCEPT !.step = @ + 1] /\ mpc = "sweep" /\ mpc' = mpc
      BY <1>14, <2>1 DEF SweepTune
    <3>2. scan'.active
      BY <1>0, <3>1 DEF ScanType
    <3> QED
      BY <3>1, <3>2
  <2>2. CASE ~ok
    BY <1>14, <2>2 DEF SweepTune
  <2> QED
    BY <2>1, <2>2
<1>15. ASSUME NEW ok \in BOOLEAN, RestoreFrequency(ok)
       PROVE  MuteInv'
  <2>1. loop'.mute = MuteBlocks
    BY <1>0, <1>15 DEF RestoreFrequency, LoopType
  <2>2. mpc' \in {"takeFrequency", "top"}
    BY <1>0, <1>15 DEF RestoreFrequency, ScanType
  <2> QED
    BY <2>1, <2>2
<1>16. ASSUME NEW ok \in BOOLEAN, Reconnect(ok)
       PROVE  FALSE
  BY <1>16 DEF Reconnect
<1>17. ASSUME NEW ok \in BOOLEAN, NEW uncovered \in BOOLEAN, Fallback(uncovered, ok)
       PROVE  MuteInv'
  BY <1>17 DEF Fallback
<1> QED
  BY <1>1, <1>2, <1>3, <1>4, <1>5, <1>6, <1>7, <1>8, <1>9, <1>10, <1>11, <1>12,
     <1>13, <1>14, <1>15, <1>16, <1>17 DEF MainStep

LEMMA MuteStep ==
  ASSUME ~AutoReconnect, TypeOK, MuteInv, [Next]_vars
  PROVE  MuteInv'
<1>1. CASE UserStep
  <2>1. hist'.unsettled = hist.unsettled
    <3>1. HistType
      BY DEF TypeOK
    <3> QED
      BY <1>1, <3>1 DEF HistType, UserStep, LineTune, RestTune, StoreFrequency,
         SetBandwidth, Start, RequestStart, XdrStop, PlainStop, RequestStop,
         FmdxClose, XdrScan, XdrScanBandwidth, XdrCancel, UserContinues,
         LineTuneRequest, TunePending, BandwidthPending, XdrStopRequest,
         XdrScanPending
  <2> QED
    BY <1>1, <2>1, UsersOnlyRequest DEF MuteInv, MainUnchanged
<1>2. CASE Unplug \/ Plug \/ Interrupt \/ UNCHANGED vars
  BY <1>2 DEF MuteInv, Unplug, Plug, Interrupt, vars, shared, users
<1> QED
  BY <1>1, <1>2, MuteMainStep DEF Next

(* Without automatic reconnects, the first block after a start, a retune   *)
(* or a scan is processed with the whole settle mute still to run          *)
(* (application.cpp:924, 950; runtime_loop.cpp:60).                        *)
THEOREM SettleAlwaysMuted == ~AutoReconnect => (Spec => []SettleMuted)
<1> SUFFICES ASSUME ~AutoReconnect PROVE Spec => []SettleMuted
  OBVIOUS
<1>1. Init => MuteInv
  BY DEF Init, MuteInv
<1>2. TypeOK /\ MuteInv /\ [Next]_vars => MuteInv'
  BY MuteStep
<1>3. MuteInv => SettleMuted
  BY DEF MuteInv, SettleMuted, Unmuted
<1> QED
  BY <1>1, <1>2, <1>3, TypeCorrect, PTL DEF Spec

-------------------------------------------------------------------------------
(***************************************************************************)
(* Rates.  A control transfer can only fail on a dead handle, so the rate  *)
(* the code remembers is the one a live device delivers.  That fails with  *)
(* a transfer a live SDRplay refuses: setScanWideMode looks at no result.  *)
(***************************************************************************)
TransfersSucceed == SdrPlay => MaxGlitches = 0

RateInv ==
  /\ dev.handle => loop.connected
  /\ dev.handle /\ ~scan.wide => dev.rate = "narrow"
  /\ ~SdrPlay => dev.rate = "narrow"
  /\ mpc = "read" /\ loop.connected => ~scan.active /\ ~scan.wide
  /\ mpc = "reconnect" => ~loop.connected /\ ~scan.wide

(* What every step but a connect and the switch of the rate does: it may   *)
(* lose the device, but opens none, and leaves the rates alone.            *)
RatesKept ==
  /\ dev'.handle => dev.handle
  /\ dev'.rate = dev.rate /\ dev'.inputRate = dev.inputRate
  /\ scan'.wide = scan.wide /\ scan'.wideRate = scan.wideRate
  /\ hist'.restarted = hist.restarted
  /\ loop'.connected => loop.connected
  /\ dev'.handle /\ loop.connected => loop'.connected
  /\ mpc' = "read" => mpc = "read" /\ scan'.active = scan.active
  /\ mpc' = "reconnect" =>
       \/ mpc = "reconnect"
       \/ mpc = "read" /\ loop.connected /\ ~loop'.connected

RateSteps ==
  \E ok \in BOOLEAN : ConnectTuner(ok) \/ Reconnect(ok) \/ SwitchScanRate(ok)

LEMMA RatesFrame ==
  ASSUME TypeOK, [Next]_vars, ~RateSteps
  PROVE  RatesKept
<1> USE DEF At, Goto, shared, users, RatesKept
<1>0. LoopType /\ ScanType /\ DevType /\ HistType
  BY DEF TypeOK
<1>1. CASE UserStep \/ Interrupt \/ UNCHANGED vars
  BY <1>0, <1>1, UsersOnlyRequest DEF MainUnchanged, Interrupt, vars, HistType,
     UserStep, LineTune, RestTune, StoreFrequency,
     SetBandwidth, Start, RequestStart, XdrStop, PlainStop, RequestStop,
     FmdxClose, XdrScan, XdrScanBandwidth, XdrCancel, UserContinues,
     LineTuneRequest, TunePending, BandwidthPending, XdrStopRequest,
     XdrScanPending
<1>2. CASE Unplug \/ Plug
  BY <1>0, <1>2 DEF Unplug, Plug, DevType
<1>3. CASE TakeStop \/ TakeStart \/ TakeFrequency \/ RestoreBandwidth \/ SweepDone
  BY <1>3 DEF TakeStop, TakeStart, TakeFrequency, RestoreBandwidth, SweepDone
<1>4. CASE StopTuner \/ Exit
  BY <1>0, <1>4 DEF StopTuner, Exit, LoopType, DevType
<1>5. CASE ReadCurrentFrequency \/ PublishFrequency \/ TakeBandwidth \/ ReadBlock
  BY <1>0, <1>5 DEF ReadCurrentFrequency, PublishFrequency, TakeBandwidth, ReadBlock,
     LoopType, HistType
<1>6. CASE ConsumeScanStart \/ ConsumeScanCancel \/ AbortSweep \/ EndSweep
  BY <1>0, <1>6 DEF ConsumeScanStart, ConsumeScanCancel, AbortSweep, EndSweep, ScanType,
     HistType
<1>7. CASE ReadNothing
  BY <1>0, <1>7 DEF ReadNothing, LoopType, DevType
<1>8. ASSUME NEW ok \in BOOLEAN, Retune(ok) PROVE RatesKept
  BY <1>0, <1>8 DEF Retune, LoopType, DevType, HistType
<1>9. ASSUME NEW ok \in BOOLEAN, SweepTune(ok) PROVE RatesKept
  BY <1>0, <1>9 DEF SweepTune, ScanType, DevType, HistType
<1>10. ASSUME NEW ok \in BOOLEAN, RestoreFrequency(ok) PROVE RatesKept
  BY <1>0, <1>10 DEF RestoreFrequency, LoopType, DevType, ScanType, HistType
<1>11. ASSUME NEW ok \in BOOLEAN, NEW uncovered \in BOOLEAN, Fallback(uncovered, ok)
       PROVE  RatesKept
  BY <1>0, <1>11 DEF Fallback, DevType, HistType
<1> QED
  BY <1>1, <1>2, <1>3, <1>4, <1>5, <1>6, <1>7, <1>8, <1>9, <1>10, <1>11
     DEF Next, MainStep, RateSteps

(* What a switch of the scan rate does to a connected device.              *)
LEMMA RateSwitched ==
  ASSUME TransfersSucceed, TypeOK, NEW rate \in Rates, NEW ok \in BOOLEAN,
         SetScanWideMode(rate, ok)
  PROVE  /\ dev'.handle = dev.handle
         /\ SdrPlay /\ loop.connected /\ dev.handle =>
              dev'.rate = rate /\ dev'.inputRate = rate
         /\ ~(SdrPlay /\ loop.connected) => UNCHANGED dev
<1>1. DevType /\ BudgetType
  BY DEF TypeOK
<1>2. SdrPlay => budget.glitches = 0
  BY <1>1, BoundsAssumption DEF BudgetType, TransfersSucceed
<1>3. CASE SdrPlay /\ loop.connected
  <2>1. ok = dev.handle
    BY <1>1, <1>2, <1>3 DEF SetScanWideMode, Control, DevType
  <2>2. dev' = [dev EXCEPT !.inputRate = rate, !.rate = IF ok THEN rate ELSE @]
    BY <1>3 DEF SetScanWideMode
  <2> QED
    BY <1>1, <1>3, <2>1, <2>2 DEF DevType
<1>4. CASE ~(SdrPlay /\ loop.connected)
  BY <1>4 DEF SetScanWideMode
<1> QED
  BY <1>3, <1>4

LEMMA RateStep ==
  ASSUME TransfersSucceed, TypeOK, PlacesKnown, RateInv, [Next]_vars
  PROVE  RateInv'
<1> USE DEF At, Goto, shared
<1>0. LoopType /\ ScanType /\ DevType
  BY DEF TypeOK
<1>1. CASE ~RateSteps
  BY <1>1, RatesFrame DEF RatesKept, RateInv
<1>2. ASSUME NEW ok \in BOOLEAN, ConnectTuner(ok) \/ Reconnect(ok)
      PROVE  RateInv'
  <2>1. loop'.connected = ok /\ mpc' # "read" /\ UNCHANGED scan
    BY <1>0, <1>2 DEF ConnectTuner, Reconnect, LoopType
  <2>2. Connect(ok) /\ ~dev.handle
    BY <1>2 DEF ConnectTuner, Reconnect, PlacesKnown, IdleIsDisconnected, RateInv
  <2>3. dev'.handle => ok /\ dev'.rate = "narrow"
    BY <1>0, <2>2 DEF Connect, DevType
  <2>4. ~SdrPlay => dev'.rate = "narrow"
    BY <1>0, <2>2 DEF Connect, DevType, RateInv
  <2>5. mpc' # "reconnect"
    BY <1>2 DEF ConnectTuner, Reconnect
  <2> QED
    BY <2>1, <2>3, <2>4, <2>5 DEF RateInv
<1>3. ASSUME NEW ok \in BOOLEAN, SwitchScanRate(ok)
      PROVE  RateInv'
  <2>0. /\ mpc' = IF scan.active /\ loop.connected THEN "sweep" ELSE "read"
        /\ UNCHANGED loop
    BY <1>3 DEF SwitchScanRate
  <2>1. CASE scan.active /\ ~scan.wide
    <3>1. SetScanWideMode("wide", ok) /\ scan'.wide /\ scan'.active
      BY <1>0, <1>3, <2>1 DEF SwitchScanRate, ScanType
    <3> QED
      BY <2>0, <2>1, <3>1, RateSwitched DEF RateInv, Rates
  <2>2. CASE ~scan.active /\ scan.wide
    <3>1. SetScanWideMode("narrow", ok) /\ ~scan'.wide /\ ~scan'.active
      BY <1>0, <1>3, <2>2 DEF SwitchScanRate, ScanType
    <3> QED
      BY <2>0, <2>2, <3>1, RateSwitched DEF RateInv, Rates
  <2>3. CASE scan.active = scan.wide
    <3>1. UNCHANGED dev /\ scan'.wide = scan.wide /\ scan'.active = scan.active
      BY <1>0, <1>3, <2>3 DEF SwitchScanRate, ScanType
    <3> QED
      BY <2>0, <2>3, <3>1 DEF RateInv
  <2> QED
    BY <1>0, <2>1, <2>2, <2>3 DEF ScanType
<1> QED
  BY <1>1, <1>2, <1>3 DEF RateSteps

(* The demodulator is only fed IQ at the decimated rate, whatever commands *)
(* come and wherever the device is lost: the scan leaves the wide rate     *)
(* before the first block is read (runtime_loop.cpp:102-105), and every    *)
(* connect starts decimated.                                               *)
THEOREM DemodRateKept == TransfersSucceed => (Spec => []DemodRate)
<1> SUFFICES ASSUME TransfersSucceed PROVE Spec => []DemodRate
  OBVIOUS
<1>1. Init => PlacesKnown /\ RateInv
  BY FlagsAssumption DEF Init, PlacesKnown, IdleIsDisconnected, PassPlaces, RateInv
<1>2. TypeOK /\ PlacesKnown /\ RateInv /\ [Next]_vars => PlacesKnown' /\ RateInv'
  BY PlacesKnownStep, RateStep
<1>3. RateInv => DemodRate
  BY DEF RateInv, DemodRate
<1> QED
  BY <1>1, <1>2, <1>3, TypeCorrect, PTL DEF Spec

(* The exception is the wide rate held over a restart of the device.       *)
SweepInv ==
  /\ dev.handle => dev.rate = dev.inputRate
  /\ dev.handle /\ scan.wide /\ ~hist.restarted => scan.wideRate = dev.rate
  /\ dev.handle /\ hist.restarted => dev.rate = "narrow"
  /\ hist.restarted => scan.wide /\ scan.wideRate = "wide"
  /\ ~SdrPlay => scan.wideRate = "narrow"

LEMMA SweepStep ==
  ASSUME TransfersSucceed, TypeOK, PlacesKnown, RateInv, SweepInv, [Next]_vars
  PROVE  SweepInv'
<1> USE DEF At, Goto, shared
<1>0. ScanType /\ DevType /\ HistType
  BY DEF TypeOK
<1>1. CASE ~RateSteps
  BY <1>1, RatesFrame DEF RatesKept, SweepInv
<1>2. ASSUME NEW ok \in BOOLEAN, ConnectTuner(ok)
      PROVE  SweepInv'
  <2>1. UNCHANGED scan
    BY <1>2 DEF ConnectTuner
  <2>2. hist'.restarted = (hist.restarted \/ (ok /\ ScanRate = "wide"))
    BY <1>0, <1>2 DEF ConnectTuner, HistType
  <2>3. Connect(ok) /\ ~dev.handle
    BY <1>2 DEF ConnectTuner, PlacesKnown, IdleIsDisconnected, RateInv
  <2>4. dev'.handle => ok /\ dev'.rate = "narrow" /\ dev'.inputRate = "narrow"
    BY <1>0, <2>3 DEF Connect, DevType
  <2>5. scan.wide => ScanRate = scan.wideRate
    BY DEF ScanRate
  <2>6. ScanRate = "wide" => scan.wide /\ scan.wideRate = "wide"
    BY DEF ScanRate
  <2>7. scan.wideRate = "wide" \/ scan.wideRate = "narrow"
    BY <1>0 DEF ScanType, Rates
  <2> QED
    BY <2>1, <2>2, <2>4, <2>5, <2>6, <2>7 DEF SweepInv
<1>3. ASSUME NEW ok \in BOOLEAN, Reconnect(ok)
      PROVE  SweepInv'
  <2>1. ~scan.wide /\ UNCHANGED scan
    BY <1>3 DEF Reconnect, RateInv
  <2>2. hist'.restarted = hist.restarted
    BY <1>0, <1>3 DEF Reconnect, HistType
  <2>3. Connect(ok) /\ ~dev.handle
    BY <1>3 DEF Reconnect, RateInv
  <2>4. dev'.handle => dev'.rate = "narrow" /\ dev'.inputRate = "narrow"
    BY <1>0, <2>3 DEF Connect, DevType
  <2> QED
    BY <2>1, <2>2, <2>4 DEF SweepInv
<1>4. ASSUME NEW ok \in BOOLEAN, SwitchScanRate(ok)
      PROVE  SweepInv'
  <2>0. hist'.restarted = (hist.restarted /\ scan.active = scan.wide)
    BY <1>0, <1>4 DEF SwitchScanRate, HistType
  <2> dev.handle => loop.connected /\ dev.rate = dev.inputRate
    BY DEF RateInv, SweepInv
  <2>1. CASE scan.active /\ ~scan.wide
    <3>1. /\ SetScanWideMode("wide", ok)
          /\ scan'.wideRate = IF SdrPlay THEN dev'.inputRate ELSE "narrow"
      BY <1>0, <1>4, <2>1 DEF SwitchScanRate, ScanType
    <3>2. dev'.handle => dev'.rate = dev'.inputRate
      BY <3>1, RateSwitched DEF Rates
    <3>3. ~SdrPlay => dev'.rate = "narrow"
      BY <3>1, RateSwitched DEF RateInv, Rates
    <3>4. ~hist'.restarted
      BY <2>0, <2>1
    <3> QED
      BY <3>1, <3>2, <3>3, <3>4 DEF SweepInv
  <2>2. CASE ~scan.active /\ scan.wide
    <3>1. SetScanWideMode("narrow", ok) /\ ~scan'.wide /\ scan'.wideRate = "narrow"
      BY <1>0, <1>4, <2>2 DEF SwitchScanRate, ScanType
    <3>2. dev'.handle => dev'.rate = dev'.inputRate
      BY <3>1, RateSwitched DEF Rates
    <3>3. ~hist'.restarted
      BY <2>0, <2>2
    <3> QED
      BY <3>1, <3>2, <3>3 DEF SweepInv
  <2>3. CASE scan.active = scan.wide
    <3>1. /\ UNCHANGED dev
          /\ scan'.wide = scan.wide /\ scan'.wideRate = scan.wideRate
      BY <1>0, <1>4, <2>3 DEF SwitchScanRate, ScanType
    <3>2. hist'.restarted = hist.restarted
      BY <1>0, <2>0, <2>3 DEF HistType
    <3> QED
      BY <3>1, <3>2 DEF SweepInv
  <2> QED
    BY <1>0, <2>1, <2>2, <2>3 DEF ScanType
<1> QED
  BY <1>1, <1>2, <1>3, <1>4 DEF RateSteps

(* A sweep computes its channels with the rate the device really delivers, *)
(* over every stop, start, cancel, loss and reconnect, except after a stop *)
(* and a start under a scan that holds the wide rate; then it never does   *)
(* until that scan ends (runtime_loop.cpp:97-107).                         *)
THEOREM SweepRateKept == TransfersSucceed => (Spec => []SweepRateKnown)
<1> SUFFICES ASSUME TransfersSucceed PROVE Spec => []SweepRateKnown
  OBVIOUS
<1> DEFINE Strong == PlacesKnown /\ RateInv /\ SweepInv
<1>1. Init => Strong
  BY FlagsAssumption DEF Init, PlacesKnown, IdleIsDisconnected, PassPlaces, RateInv,
     SweepInv
<1>2. TypeOK /\ Strong /\ [Next]_vars => Strong'
  BY PlacesKnownStep, RateStep, SweepStep
<1>3. Strong => SweepRateKnown
  BY DEF RateInv, SweepInv, SweepRateKnown, ScanRate
<1> QED
  BY <1>1, <1>2, <1>3, TypeCorrect, PTL DEF Spec

-------------------------------------------------------------------------------
(***************************************************************************)
(* What a scan restores.  As long as nobody asks for a frequency or a      *)
(* bandwidth, the request and what the scan saved are what was in force    *)
(* when it began, and after it the bandwidth is in force or pending again. *)
(***************************************************************************)
NobodyAsks ==
  \A u \in Users : upc[u] \notin {"tuneRequest", "tunePending", "bandwidthPending"}

BandwidthInForce == IF req.bwPending THEN req.bw ELSE loop.appliedBw

RestoreAhead == {"fallback", "endSweep", "restoreBandwidth"}
TuneTaken == {"retune", "publish", "bandwidth", "scanMode", "read"}
BandwidthTaken == {"scanMode", "read"}

Undisturbed ==
  /\ NobodyAsks
  /\ req.freq = hist.preFreq
  /\ scan.restoreFreq = hist.preFreq /\ scan.restoreBw = hist.preBw
  /\ ~scan.active /\ mpc \notin RestoreAhead => BandwidthInForce = hist.preBw
  /\ loop.connected /\ mpc \in TuneTaken => ~req.freqPending
  /\ mpc \in BandwidthTaken => ~req.bwPending

ScanInv == (hist.clean => Undisturbed) /\ SweepsWhileActive

(* A step that leaves the requests, what was saved and what is applied     *)
(* alone keeps the invariant, unless it moves where the invariant asks     *)
(* for more.                                                               *)
ScanUntouched ==
  /\ hist'.clean => hist.clean
  /\ hist'.preFreq = hist.preFreq /\ hist'.preBw = hist.preBw
  /\ NobodyAsks => NobodyAsks'
  /\ req'.freq = req.freq /\ req'.freqPending = req.freqPending
  /\ req'.bw = req.bw /\ req'.bwPending = req.bwPending
  /\ scan'.restoreFreq = scan.restoreFreq /\ scan'.restoreBw = scan.restoreBw
  /\ loop'.appliedBw = loop.appliedBw
  /\ loop'.connected => loop.connected

LEMMA UntouchedScan ==
  ASSUME ScanInv, ScanUntouched,
         mpc' = "sweep" => scan'.active,
         ~scan'.active /\ mpc' \notin RestoreAhead => ~scan.active /\ mpc \notin RestoreAhead,
         mpc' \in TuneTaken => mpc \in TuneTaken,
         mpc' \in BandwidthTaken => mpc \in BandwidthTaken
  PROVE  ScanInv'
  BY DEF ScanInv, ScanUntouched, Undisturbed, SweepsWhileActive, BandwidthInForce

(* A user who asks for a frequency or a bandwidth disturbs a scan; every   *)
(* other user leaves all of it alone.                                      *)
LEMMA UsersDisturb ==
  ASSUME TypeOK, UserStep, NobodyAsks
  PROVE  ~hist'.clean \/ ScanUntouched
<1> USE DEF NobodyAsks, ScanUntouched
<1>0. ReqType /\ XdrType /\ HistType /\ UsersType
  BY DEF TypeOK
<1>1. ASSUME NEW u \in Users, NEW f \in Freqs, LineTune(u, f) \/ StoreFrequency(u, f)
      PROVE  ~hist'.clean
  BY <1>0, <1>1 DEF LineTune, StoreFrequency, HistType
<1>2. ASSUME NEW u \in Users, NEW bw \in Bandwidths, SetBandwidth(u, bw)
      PROVE  ~hist'.clean
  BY <1>0, <1>2 DEF SetBandwidth, HistType
<1>3. UNCHANGED <<scan, loop>>
  BY UsersOnlyRequest DEF MainUnchanged
<1>4. ASSUME NEW u \in Users, Start(u)
      PROVE  ScanUntouched
  BY <1>0, <1>3, <1>4 DEF Start, RequestStart, ReqType, HistType
<1>5. ASSUME NEW u \in Users, PlainStop(u) \/ FmdxClose(u)
      PROVE  ScanUntouched
  BY <1>0, <1>3, <1>5 DEF PlainStop, FmdxClose, RequestStop, ReqType, HistType
<1>6. ASSUME NEW u \in Users, XdrStop(u) \/ XdrCancel(u)
      PROVE  ScanUntouched
  BY <1>0, <1>3, <1>6 DEF XdrStop, XdrCancel, UsersType
<1>7. ASSUME NEW u \in Users, NEW continuous \in BOOLEAN, XdrScan(u, continuous)
      PROVE  ScanUntouched
  BY <1>0, <1>3, <1>7 DEF XdrScan, UsersType
<1>8. ASSUME NEW u \in Users, NEW bw \in Bandwidths, XdrScanBandwidth(u, bw)
      PROVE  ScanUntouched
  BY <1>0, <1>3, <1>8 DEF XdrScanBandwidth
<1>9. ASSUME NEW u \in Users, UserContinues(u)
      PROVE  ScanUntouched
  <2>1. XdrStopRequest(u) \/ XdrScanPending(u)
    BY <1>9 DEF UserContinues, LineTuneRequest, TunePending, BandwidthPending
  <2> QED
    BY <1>0, <1>3, <2>1 DEF XdrStopRequest, XdrScanPending, RequestStop, ReqType,
       HistType, UsersType
<1>10. ASSUME NEW u \in Users, NEW f \in Freqs, RestTune(u, f)
       PROVE  ~hist'.clean
  BY <1>1, <1>10 DEF RestTune
<1> QED
  BY <1>1, <1>2, <1>4, <1>5, <1>6, <1>7, <1>8, <1>9, <1>10 DEF UserStep, Users, LineClients

LEMMA ScanMainStep ==
  ASSUME TypeOK, ScanInv, MainStep
  PROVE  ScanInv'
<1> USE DEF At, Goto, shared, users, RestoreAhead, TuneTaken, BandwidthTaken
<1>0. ReqType /\ XdrType /\ LoopType /\ ScanType /\ HistType
  BY DEF TypeOK
<1>1. UNCHANGED upc
  BY DEF MainStep, TakeStop, StopTuner, TakeStart, Exit, ConnectTuner,
     ReadCurrentFrequency, ConsumeScanStart, ConsumeScanCancel,
     TakeFrequency, PublishFrequency, TakeBandwidth, AbortSweep, SweepDone, EndSweep,
     RestoreBandwidth, ReadBlock, ReadNothing, Retune, SwitchScanRate, SweepTune,
     RestoreFrequency, Reconnect, Fallback
<1>2. NobodyAsks' = NobodyAsks
  BY <1>1 DEF NobodyAsks
<1>3. CASE TakeStop \/ TakeStart
  BY <1>0, <1>2, <1>3, UntouchedScan DEF TakeStop, TakeStart, ReqType, ScanUntouched
<1>4. CASE StopTuner \/ Exit
  BY <1>0, <1>2, <1>4, UntouchedScan DEF StopTuner, Exit, ReqType, LoopType, ScanUntouched
<1>5. CASE ReadCurrentFrequency
  BY <1>0, <1>2, <1>5, UntouchedScan DEF ReadCurrentFrequency, LoopType, ScanUntouched
<1>6. CASE ConsumeScanStart
  <2>1. CASE xdr.scanStart
    <3>1. /\ scan'.active /\ scan'.restoreFreq = loop.currentFreq
          /\ scan'.restoreBw = loop.appliedBw
      BY <1>0, <1>6, <2>1 DEF ConsumeScanStart, ScanType
    <3>2. req'.freq = req.freq
      BY <1>0, <1>6, <2>1 DEF ConsumeScanStart, ReqType
    <3>3. /\ hist'.preFreq = req.freq /\ hist'.preBw = loop.appliedBw
          /\ hist'.clean => NothingInFlight
      BY <1>0, <1>6, <2>1 DEF ConsumeScanStart, HistType
    <3>4. mpc' = "scanCancel"
      BY <1>6 DEF ConsumeScanStart
    <3> QED
      BY <1>2, <3>1, <3>2, <3>3, <3>4 DEF ScanInv, Undisturbed, SweepsWhileActive,
         NothingInFlight, NobodyAsks
  <2>2. CASE ~xdr.scanStart
    BY <1>2, <1>6, <2>2, UntouchedScan DEF ConsumeScanStart, ScanUntouched
  <2> QED
    BY <2>1, <2>2
<1>7. CASE ConsumeScanCancel
  <2>1. /\ mpc = "scanCancel" /\ UNCHANGED <<req, loop>>
        /\ mpc' \in {"restoreBandwidth", "takeFrequency"}
    BY <1>7 DEF ConsumeScanCancel
  <2>2. /\ scan'.active => scan.active
        /\ scan'.restoreFreq = scan.restoreFreq /\ scan'.restoreBw = scan.restoreBw
        /\ hist'.preFreq = hist.preFreq /\ hist'.preBw = hist.preBw
        /\ hist'.clean => hist.clean
    BY <1>0, <1>7 DEF ConsumeScanCancel, ScanType, HistType
  <2>3. hist'.clean /\ mpc' # "restoreBandwidth" /\ ~scan'.active => ~scan.active
    BY <1>0, <1>7 DEF ConsumeScanCancel, ScanType, HistType
  <2> QED
    BY <1>2, <2>1, <2>2, <2>3 DEF ScanInv, Undisturbed, SweepsWhileActive, BandwidthInForce
<1>8. CASE TakeFrequency
  <2>1. /\ req'.freq = req.freq /\ req'.bw = req.bw /\ req'.bwPending = req.bwPending
        /\ loop.connected => ~req'.freqPending
    BY <1>0, <1>8 DEF TakeFrequency, ReqType
  <2>2. mpc = "takeFrequency" /\ mpc' \in {"retune", "bandwidth"} /\ UNCHANGED <<scan, loop, hist>>
    BY <1>8 DEF TakeFrequency
  <2> QED
    BY <1>2, <2>1, <2>2 DEF ScanInv, Undisturbed, SweepsWhileActive, BandwidthInForce
<1>9. CASE PublishFrequency
  BY <1>0, <1>2, <1>9, UntouchedScan
     DEF PublishFrequency, XdrType, LoopType, HistType, ScanUntouched
<1>10. CASE TakeBandwidth
  <2>1. /\ req'.freq = req.freq /\ req'.freqPending = req.freqPending /\ ~req'.bwPending
        /\ loop'.appliedBw = BandwidthInForce /\ loop'.connected = loop.connected
    BY <1>0, <1>10 DEF TakeBandwidth, ReqType, LoopType, BandwidthInForce
  <2>2. mpc = "bandwidth" /\ mpc' = "scanMode" /\ UNCHANGED <<scan, hist>>
    BY <1>10 DEF TakeBandwidth
  <2>3. BandwidthInForce' = BandwidthInForce
    BY <2>1 DEF BandwidthInForce
  <2> QED
    BY <1>2, <2>1, <2>2, <2>3 DEF ScanInv, Undisturbed, SweepsWhileActive
<1>11. CASE AbortSweep
  BY <1>0, <1>2, <1>11, UntouchedScan DEF AbortSweep, ScanType, ScanUntouched
<1>12. CASE SweepDone
  BY <1>2, <1>12, UntouchedScan DEF SweepDone, ScanUntouched
<1>13. CASE EndSweep
  <2>1. /\ scan'.restoreFreq = scan.restoreFreq /\ scan'.restoreBw = scan.restoreBw
        /\ mpc' = "restoreBandwidth" \/ (mpc' = "top" /\ scan'.active)
    BY <1>0, <1>13 DEF EndSweep, ScanType
  <2>2. mpc = "endSweep" /\ UNCHANGED <<req, loop, hist>>
    BY <1>13 DEF EndSweep
  <2> QED
    BY <1>2, <2>1, <2>2 DEF ScanInv, Undisturbed, SweepsWhileActive
<1>14. CASE RestoreBandwidth
  <2>1. /\ req'.freq = req.freq /\ req'.bwPending /\ req'.bw = scan.restoreBw
    BY <1>0, <1>14 DEF RestoreBandwidth, ReqType
  <2>2. mpc' = "restoreFrequency" /\ UNCHANGED <<loop, scan, hist>>
    BY <1>14 DEF RestoreBandwidth
  <2> QED
    BY <1>2, <2>1, <2>2 DEF ScanInv, Undisturbed, SweepsWhileActive, BandwidthInForce
<1>15. CASE ReadBlock \/ ReadNothing
  BY <1>0, <1>2, <1>15, UntouchedScan
     DEF ReadBlock, ReadNothing, LoopType, HistType, ScanUntouched
<1>16. ASSUME NEW ok \in BOOLEAN, ConnectTuner(ok) \/ Reconnect(ok)
       PROVE  ScanInv'
  <2>1. loop'.appliedBw = loop.appliedBw
    BY <1>0, <1>16 DEF ConnectTuner, Reconnect, LoopType
  <2>2. /\ hist'.clean = hist.clean
        /\ hist'.preFreq = hist.preFreq /\ hist'.preBw = hist.preBw
    BY <1>0, <1>16 DEF ConnectTuner, Reconnect, HistType
  <2>3. /\ mpc \in {"connecting", "reconnect"} /\ mpc' \in {"control", "top"}
        /\ UNCHANGED <<req, scan>>
    BY <1>16 DEF ConnectTuner, Reconnect
  <2> QED
    BY <1>2, <2>1, <2>2, <2>3 DEF ScanInv, Undisturbed, SweepsWhileActive, BandwidthInForce
<1>17. ASSUME NEW ok \in BOOLEAN, Retune(ok)
       PROVE  ScanInv'
  BY <1>0, <1>2, <1>17, UntouchedScan DEF Retune, LoopType, HistType, ScanUntouched
<1>18. ASSUME NEW ok \in BOOLEAN, SwitchScanRate(ok)
       PROVE  ScanInv'
  <2>1. /\ scan'.active = scan.active /\ scan'.restoreFreq = scan.restoreFreq
        /\ scan'.restoreBw = scan.restoreBw
    BY <1>0, <1>18 DEF SwitchScanRate, ScanType
  <2>2. /\ mpc = "scanMode" /\ UNCHANGED <<req, loop>>
        /\ mpc' = IF scan.active /\ loop.connected THEN "sweep" ELSE "read"
    BY <1>18 DEF SwitchScanRate
  <2>3. /\ hist'.clean = hist.clean
        /\ hist'.preFreq = hist.preFreq /\ hist'.preBw = hist.preBw
    BY <1>0, <1>18 DEF SwitchScanRate, HistType
  <2> QED
    BY <1>2, <2>1, <2>2, <2>3, UntouchedScan DEF ScanUntouched
<1>19. ASSUME NEW ok \in BOOLEAN, SweepTune(ok)
       PROVE  ScanInv'
  <2>1. /\ scan'.restoreFreq = scan.restoreFreq /\ scan'.restoreBw = scan.restoreBw
        /\ mpc' = "fallback" \/ (mpc' = "sweep" /\ scan'.active = scan.active)
    BY <1>0, <1>19 DEF SweepTune, ScanType
  <2>2. /\ hist'.clean = hist.clean
        /\ hist'.preFreq = hist.preFreq /\ hist'.preBw = hist.preBw
    BY <1>0, <1>19 DEF SweepTune, HistType
  <2>3. mpc = "sweep" /\ UNCHANGED <<req, loop>>
    BY <1>19 DEF SweepTune
  <2> QED
    BY <1>2, <2>1, <2>2, <2>3, UntouchedScan DEF ScanUntouched, ScanInv, SweepsWhileActive
<1>20. ASSUME NEW ok \in BOOLEAN, RestoreFrequency(ok)
       PROVE  ScanInv'
  <2>1. /\ req'.freq = scan.restoreFreq
        /\ req'.bw = req.bw /\ req'.bwPending = req.bwPending
    BY <1>0, <1>20 DEF RestoreFrequency, ReqType
  <2>2. loop'.appliedBw = loop.appliedBw
    BY <1>0, <1>20 DEF RestoreFrequency, LoopType
  <2>3. /\ hist'.clean = hist.clean
        /\ hist'.preFreq = hist.preFreq /\ hist'.preBw = hist.preBw
    BY <1>0, <1>20 DEF RestoreFrequency, HistType
  <2>4. mpc = "restoreFrequency" /\ mpc' \in {"takeFrequency", "top"} /\ UNCHANGED scan
    BY <1>0, <1>20 DEF RestoreFrequency, ScanType
  <2> QED
    BY <1>2, <2>1, <2>2, <2>3, <2>4 DEF ScanInv, Undisturbed, SweepsWhileActive, BandwidthInForce
<1>21. ASSUME NEW ok \in BOOLEAN, NEW uncovered \in BOOLEAN, Fallback(uncovered, ok)
       PROVE  ScanInv'
  BY <1>0, <1>2, <1>21, UntouchedScan DEF Fallback, HistType, ScanUntouched
<1> QED
  BY <1>3, <1>4, <1>5, <1>6, <1>7, <1>8, <1>9, <1>10, <1>11, <1>12, <1>13, <1>14,
     <1>15, <1>16, <1>17, <1>18, <1>19, <1>20, <1>21 DEF MainStep

LEMMA ScanStep == ASSUME TypeOK, ScanInv, [Next]_vars PROVE ScanInv'
<1>1. CASE UserStep
  <2>1. UNCHANGED <<mpc, loop, scan>>
    BY <1>1, UsersOnlyRequest DEF MainUnchanged
  <2>2. CASE hist.clean
    <3>1. ~hist'.clean \/ ScanUntouched
      BY <1>1, <2>2, UsersDisturb DEF ScanInv, Undisturbed
    <3>2. ~hist'.clean => ScanInv'
      BY <2>1 DEF ScanInv, SweepsWhileActive
    <3> QED
      BY <2>1, <3>1, <3>2, UntouchedScan DEF ScanInv, SweepsWhileActive
  <2>3. CASE ~hist.clean
    <3>1. ~hist'.clean
      BY <1>1, <2>3 DEF TypeOK, HistType, UserStep, LineTune, RestTune, StoreFrequency,
         SetBandwidth, Start, RequestStart, XdrStop, PlainStop, RequestStop,
         FmdxClose, XdrScan, XdrScanBandwidth, XdrCancel, UserContinues,
         LineTuneRequest, TunePending, BandwidthPending, XdrStopRequest,
         XdrScanPending
    <3> QED
      BY <2>1, <3>1 DEF ScanInv, SweepsWhileActive
  <2> QED
    BY <2>2, <2>3
<1>2. CASE Unplug \/ Plug \/ Interrupt \/ UNCHANGED vars
  <2>1. UNCHANGED <<req, upc, mpc, loop, scan, hist>>
    BY <1>2 DEF Unplug, Plug, Interrupt, vars, shared, users
  <2> QED
    BY <2>1 DEF ScanInv, Undisturbed, SweepsWhileActive, BandwidthInForce, NobodyAsks
<1> QED
  BY <1>1, <1>2, ScanMainStep DEF Next

(* A scan that nobody interfered with leaves the requested, tuned and      *)
(* shown frequency and the bandwidth as it found them, cancelled or not,   *)
(* over stops, starts and reconnects (scan_engine.cpp:31-60).              *)
THEOREM ScanAlwaysRestores == Spec => []ScanRestores
<1>1. Init => TuneInv /\ ScanInv
  <2>1. Init => ~hist.clean /\ mpc = "top"
    BY DEF Init
  <2> QED
    BY <2>1, TuneInit DEF ScanInv, SweepsWhileActive
<1>2. TypeOK /\ TuneInv /\ ScanInv /\ [Next]_vars => TuneInv' /\ ScanInv'
  BY TuneStep, ScanStep
<1>3. TuneInv /\ ScanInv => ScanRestores
  <2> SUFFICES ASSUME TuneInv, Undisturbed,
                      mpc = "read", ~scan.active, loop.connected, ~hist.dropped
               PROVE  /\ loop.appliedBw = hist.preBw
                      /\ {req.freq, dev.freq, xdr.frequency} = {hist.preFreq}
    BY DEF ScanInv, ScanRestores
  <2>1. NoTuneInFlight /\ NoTuneHalfStored /\ ~req.freqPending
    BY DEF Undisturbed, NobodyAsks, NoTuneInFlight, NoTuneHalfStored, TuneTaken
  <2>2. dev.freq = req.freq /\ xdr.frequency = req.freq
    BY <2>1 DEF TuneInv, XdrAgreement, TunedAgreement
  <2>3. loop.appliedBw = hist.preBw
    BY DEF Undisturbed, BandwidthInForce, RestoreAhead, BandwidthTaken
  <2> QED
    BY <2>2, <2>3 DEF Undisturbed
<1> QED
  BY <1>1, <1>2, <1>3, TypeCorrect, PTL DEF Spec

===============================================================================
