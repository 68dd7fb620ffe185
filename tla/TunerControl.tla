----------------------------- MODULE TunerControl -----------------------------
(***************************************************************************)
(* The control plane of the tuner: the client threads and the REST thread  *)
(* that store requests in shared atomics (XdrFacade::installCallbacks,     *)
(* XDRServer::processCommand, the REST Controls), and the main loop of     *)
(* Application::run that takes them: stop, start, scan control, retune,    *)
(* bandwidth, scan sweep, reading IQ and reconnecting.                     *)
(*                                                                         *)
(* Every access to a shared atomic that another thread may observe between *)
(* two others is a step of its own.  The main loop is sequential: mpc is   *)
(* the place it has reached in its pass.  The IQ device is external.       *)
(***************************************************************************)
EXTENDS Naturals

CONSTANTS
  XdrClients,        \* threads running handleXdrClient
  FmdxClients,       \* threads running handleFmdxClient
  RestThreads,       \* the REST accept thread (it serves one request at a time)
  Commands,          \* the command letters the users send
  Freqs,             \* frequencies users ask for
  InitialFreq,       \* frequency of the configuration
  ScanCenter,        \* stands for every centre frequency a sweep tunes to
  Bandwidths,        \* channel bandwidths in Hz; 0 is "default"
  SdrPlay,           \* the source is an SDRplay (wide scan mode, failure events)
  AutoReconnect,     \* [reconnection] auto_reconnect
  AutoStart,         \* --auto-start
  MayInterrupt,      \* SIGINT or SIGTERM may arrive
  ReadFailureLimit,  \* empty reads before a reconnect (20 in the code)
  SweepCenters,      \* centre frequencies of one sweep
  MuteBlocks,        \* blocks the retune mute lasts
  MaxCommands,       \* bound: commands sent in a behaviour
  MaxUnplugs,        \* bound: times the device is pulled out
  MaxGlitches        \* bound: control transfers or reads that fail on a live device

LineClients == XdrClients \cup FmdxClients
Users == LineClients \cup RestThreads
CommandLetters == {"T", "W", "x", "X", "S", "Sm", "Sw", "cancel", "close"}

ASSUME UsersAssumption ==
  /\ XdrClients \cap FmdxClients = {}
  /\ LineClients \cap RestThreads = {}
  /\ Commands \subseteq CommandLetters
ASSUME FreqsAssumption == InitialFreq \in Freqs /\ ScanCenter \notin Freqs
ASSUME BandwidthsAssumption == Bandwidths \subseteq Nat /\ 0 \in Bandwidths
ASSUME FlagsAssumption ==
  /\ SdrPlay \in BOOLEAN /\ AutoReconnect \in BOOLEAN
  /\ AutoStart \in BOOLEAN /\ MayInterrupt \in BOOLEAN
ASSUME BoundsAssumption ==
  /\ ReadFailureLimit \in Nat \ {0} /\ SweepCenters \in Nat \ {0}
  /\ MuteBlocks \in Nat \ {0}
  /\ MaxCommands \in Nat /\ MaxUnplugs \in Nat /\ MaxGlitches \in Nat

VARIABLES
  req,      \* XdrCommandState and the start/stop flags of Application::run
  xdr,      \* the XDRServer members the main loop reads or writes
  running,  \* g_running
  upc,      \* the store each user performs next
  uarg,     \* the frequency of a user's T command in progress
  started,  \* tunerStarted of each FM-DX session
  mpc,      \* where the main loop is
  loop,     \* locals of Application::run and the TunerSession
  scan,     \* ScanEngine and the scan locals of the main loop
  dev,      \* the IQ device
  budget,   \* what is left of the bounds
  hist      \* history variables, read only by the properties

shared == <<req, xdr, running>>
users == <<upc, uarg, started>>
vars == <<req, xdr, running, upc, uarg, started, mpc, loop, scan, dev, budget, hist>>

UserPlaces == {"idle", "tuneRequest", "tunePending", "bandwidthPending", "stop",
               "scanPending"}
MainPlaces == {"top", "stopping", "checkStart", "connecting", "control",
               "scanStart", "scanCancel", "takeFrequency", "retune", "publish",
               "bandwidth", "scanMode", "sweep", "fallback", "endSweep",
               "restoreBandwidth", "restoreFrequency", "read", "reconnect",
               "exited"}
Rates == {"narrow", "wide"}   \* 256 kHz, and the undecimated SDRplay rate

ReqType ==
  req \in [freq : Freqs, freqPending : BOOLEAN, bw : Bandwidths,
           bwPending : BOOLEAN, start : BOOLEAN, stop : BOOLEAN]
XdrType ==
  xdr \in [frequency : Freqs, scanStart : BOOLEAN, scanCancel : BOOLEAN,
           scanContinuous : BOOLEAN, scanBw : Bandwidths]
UsersType ==
  /\ upc \in [Users -> UserPlaces]
  /\ uarg \in [Users -> Freqs]
  /\ started \in [FmdxClients -> BOOLEAN]
LoopType ==
  loop \in [tunerActive : BOOLEAN, connected : BOOLEAN,
            failures : 0..ReadFailureLimit, appliedBw : Bandwidths,
            currentFreq : Freqs, target : Freqs, mute : 0..MuteBlocks]
ScanType ==
  scan \in [active : BOOLEAN, continuous : BOOLEAN, restoreFreq : Freqs,
            restoreBw : Bandwidths, step : 1..(SweepCenters + 1),
            wide : BOOLEAN, wideRate : Rates, after : {"takeFrequency", "top"}]
DevType ==
  dev \in [present : BOOLEAN, handle : BOOLEAN,
           freq : Freqs \cup {ScanCenter}, rate : Rates, inputRate : Rates]
BudgetType ==
  budget \in [commands : 0..MaxCommands, unplugs : 0..MaxUnplugs,
              glitches : 0..MaxGlitches]
HistType ==
  hist \in [intent : {"none", "start", "stop"}, dropped : BOOLEAN,
            unsettled : BOOLEAN, preFreq : Freqs, preBw : Bandwidths,
            clean : BOOLEAN, restarted : BOOLEAN]

TypeOK ==
  /\ ReqType /\ XdrType /\ running \in BOOLEAN
  /\ UsersType /\ mpc \in MainPlaces /\ LoopType
  /\ ScanType /\ DevType /\ BudgetType /\ HistType

(* --auto-start connects before the loop; the connect may fail. *)
Init ==
  \E connected \in IF AutoStart THEN BOOLEAN ELSE {FALSE} :
    /\ req = [freq |-> InitialFreq, freqPending |-> FALSE, bw |-> 0,
              bwPending |-> FALSE, start |-> FALSE, stop |-> FALSE]
    /\ xdr = [frequency |-> InitialFreq, scanStart |-> FALSE,
              scanCancel |-> FALSE, scanContinuous |-> FALSE, scanBw |-> 0]
    /\ running = TRUE
    /\ upc = [u \in Users |-> "idle"]
    /\ uarg = [u \in Users |-> InitialFreq]
    /\ started = [u \in FmdxClients |-> FALSE]
    /\ mpc = "top"
    /\ loop = [tunerActive |-> connected, connected |-> connected,
               failures |-> 0, appliedBw |-> 0, currentFreq |-> InitialFreq,
               target |-> InitialFreq, mute |-> MuteBlocks]
    /\ scan = [active |-> FALSE, continuous |-> FALSE,
               restoreFreq |-> InitialFreq, restoreBw |-> 0, step |-> 1,
               wide |-> FALSE, wideRate |-> "narrow", after |-> "top"]
    /\ dev = [present |-> connected \/ ~AutoStart, handle |-> connected,
              freq |-> InitialFreq, rate |-> "narrow", inputRate |-> "narrow"]
    /\ budget = [commands |-> MaxCommands, unplugs |-> MaxUnplugs,
                 glitches |-> MaxGlitches]
    /\ hist = [intent |-> "none", dropped |-> FALSE, unsettled |-> TRUE,
               preFreq |-> InitialFreq, preBw |-> 0, clean |-> FALSE,
               restarted |-> FALSE]

-------------------------------------------------------------------------------
(***************************************************************************)
(* Users.  processCommand and processFmdxCommand run under m_callbackMutex, *)
(* so a line client begins such a command only while no other is inside    *)
(* one; the FM-DX x and X lines and the REST handlers take no lock.        *)
(***************************************************************************)
MutexFree == \A v \in LineClients : upc[v] = "idle"

Send(u, letter) ==
  /\ letter \in Commands
  /\ upc[u] = "idle"
  /\ budget.commands > 0
  /\ budget' = [budget EXCEPT !.commands = @ - 1]

SendLocked(u, letter) == Send(u, letter) /\ MutexFree

MainUnchanged == UNCHANGED <<running, mpc, loop, scan, dev>>

(* T of a line client: m_frequency first, then the frequency callback. *)
LineTune(u, f) ==
  /\ SendLocked(u, "T")
  /\ u \in FmdxClients => started[u]
  /\ xdr' = [xdr EXCEPT !.frequency = f]
  /\ uarg' = [uarg EXCEPT ![u] = f]
  /\ upc' = [upc EXCEPT ![u] = "tuneRequest"]
  /\ hist' = [hist EXCEPT !.clean = FALSE]
  /\ MainUnchanged /\ UNCHANGED <<req, started>>

StoreFrequency(u, f) ==
  /\ req' = [req EXCEPT !.freq = f]
  /\ upc' = [upc EXCEPT ![u] = "tunePending"]
  /\ hist' = [hist EXCEPT !.clean = FALSE]

LineTuneRequest(u) ==
  /\ upc[u] = "tuneRequest"
  /\ StoreFrequency(u, uarg[u])
  /\ MainUnchanged /\ UNCHANGED <<xdr, uarg, started, budget>>

RestTune(u, f) ==
  /\ Send(u, "T")
  /\ StoreFrequency(u, f)
  /\ MainUnchanged /\ UNCHANGED <<xdr, uarg, started>>

TunePending(u) ==
  /\ upc[u] = "tunePending"
  /\ req' = [req EXCEPT !.freqPending = TRUE]
  /\ upc' = [upc EXCEPT ![u] = "idle"]
  /\ MainUnchanged /\ UNCHANGED <<xdr, uarg, started, budget, hist>>

SetBandwidth(u, bw) ==
  /\ IF u \in LineClients THEN SendLocked(u, "W") ELSE Send(u, "W")
  /\ u \in FmdxClients => started[u]
  /\ req' = [req EXCEPT !.bw = bw]
  /\ upc' = [upc EXCEPT ![u] = "bandwidthPending"]
  /\ hist' = [hist EXCEPT !.clean = FALSE]
  /\ MainUnchanged /\ UNCHANGED <<xdr, uarg, started>>

BandwidthPending(u) ==
  /\ upc[u] = "bandwidthPending"
  /\ req' = [req EXCEPT !.bwPending = TRUE]
  /\ upc' = [upc EXCEPT ![u] = "idle"]
  /\ MainUnchanged /\ UNCHANGED <<xdr, uarg, started, budget, hist>>

RequestStart ==
  /\ req' = [req EXCEPT !.start = TRUE]
  /\ hist' = [hist EXCEPT !.intent = "start"]

RequestStop ==
  /\ req' = [req EXCEPT !.stop = TRUE]
  /\ hist' = [hist EXCEPT !.intent = "stop"]

Start(u) ==
  /\ IF u \in XdrClients THEN SendLocked(u, "x") ELSE Send(u, "x")
  /\ RequestStart
  /\ started' = [v \in FmdxClients |-> v = u \/ started[v]]
  /\ MainUnchanged /\ UNCHANGED <<xdr, upc, uarg>>

(* X of an XDR client cancels the scan before it asks for the stop. *)
XdrStop(u) ==
  /\ SendLocked(u, "X")
  /\ xdr' = [xdr EXCEPT !.scanCancel = TRUE]
  /\ upc' = [upc EXCEPT ![u] = "stop"]
  /\ MainUnchanged /\ UNCHANGED <<req, uarg, started, hist>>

XdrStopRequest(u) ==
  /\ upc[u] = "stop"
  /\ RequestStop
  /\ upc' = [upc EXCEPT ![u] = "idle"]
  /\ MainUnchanged /\ UNCHANGED <<xdr, uarg, started, budget>>

(* X of FM-DX or REST only asks for the stop.  *)
PlainStop(u) ==
  /\ Send(u, "X")
  /\ RequestStop
  /\ started' = [v \in FmdxClients |-> v # u /\ started[v]]
  /\ MainUnchanged /\ UNCHANGED <<xdr, upc, uarg>>

(* An FM-DX session that had started the tuner stops it when it ends. *)
FmdxClose(u) ==
  /\ started[u]
  /\ Send(u, "close")
  /\ RequestStop
  /\ started' = [started EXCEPT ![u] = FALSE]
  /\ MainUnchanged /\ UNCHANGED <<xdr, upc, uarg>>

XdrScan(u, continuous) ==
  /\ SendLocked(u, IF continuous THEN "Sm" ELSE "S")
  /\ xdr' = [xdr EXCEPT !.scanContinuous = continuous]
  /\ upc' = [upc EXCEPT ![u] = "scanPending"]
  /\ MainUnchanged /\ UNCHANGED <<req, uarg, started, hist>>

XdrScanPending(u) ==
  /\ upc[u] = "scanPending"
  /\ xdr' = [xdr EXCEPT !.scanStart = TRUE]
  /\ upc' = [upc EXCEPT ![u] = "idle"]
  /\ MainUnchanged /\ UNCHANGED <<req, uarg, started, budget, hist>>

XdrScanBandwidth(u, bw) ==
  /\ SendLocked(u, "Sw")
  /\ xdr' = [xdr EXCEPT !.scanBw = bw]
  /\ MainUnchanged /\ UNCHANGED <<req, upc, uarg, started, hist>>

(* An empty line, or the end of an XDR session: neither takes the lock. *)
XdrCancel(u) ==
  /\ Send(u, "cancel")
  /\ xdr' = [xdr EXCEPT !.scanCancel = TRUE]
  /\ MainUnchanged /\ UNCHANGED <<req, upc, uarg, started, hist>>

UserContinues(u) ==
  \/ LineTuneRequest(u) \/ TunePending(u) \/ BandwidthPending(u)
  \/ XdrStopRequest(u) \/ XdrScanPending(u)

UserStep ==
  \/ \E u \in LineClients, f \in Freqs : LineTune(u, f)
  \/ \E u \in RestThreads, f \in Freqs : RestTune(u, f)
  \/ \E u \in Users, bw \in Bandwidths : SetBandwidth(u, bw)
  \/ \E u \in Users : Start(u)
  \/ \E u \in XdrClients : XdrStop(u)
  \/ \E u \in FmdxClients \cup RestThreads : PlainStop(u)
  \/ \E u \in FmdxClients : FmdxClose(u)
  \/ \E u \in XdrClients, continuous \in BOOLEAN : XdrScan(u, continuous)
  \/ \E u \in XdrClients, bw \in Bandwidths : XdrScanBandwidth(u, bw)
  \/ \E u \in XdrClients : XdrCancel(u)
  \/ \E u \in Users : UserContinues(u)

-------------------------------------------------------------------------------
(***************************************************************************)
(* The device, as the tuner backends use it: a control transfer succeeds   *)
(* on a live handle, unless it glitches; pulling the device out kills the  *)
(* handle for good, plugging it back in lets the next connect succeed.     *)
(***************************************************************************)
Control(ok) ==
  /\ ok => dev.handle
  /\ ~ok => ~dev.handle \/ budget.glitches > 0
  /\ budget' = IF ~ok /\ dev.handle THEN [budget EXCEPT !.glitches = @ - 1]
                                    ELSE budget

(* TunerSession::connect: a backend that opens but cannot be tuned is      *)
(* closed again.  SDRplay restarts decimated whatever it was doing before. *)
Connect(ok) ==
  /\ ok => dev.present
  /\ ~ok => ~dev.present \/ budget.glitches > 0
  /\ budget' = IF ~ok /\ dev.present THEN [budget EXCEPT !.glitches = @ - 1]
                                     ELSE budget
  /\ dev' = IF ok
            THEN [dev EXCEPT !.handle = TRUE, !.freq = req.freq,
                             !.rate = "narrow", !.inputRate = "narrow"]
            ELSE IF dev.present THEN [dev EXCEPT !.inputRate = "narrow"]
                                ELSE dev

(* effectiveScanRate of handleControlAndScan. *)
ScanRate == IF scan.wide THEN scan.wideRate ELSE "narrow"

(* SDRplayDevice::setScanWideMode: m_inputRate changes even when the       *)
(* transfers fail.  RTL sources have no wide mode.                         *)
SetScanWideMode(rate, ok) ==
  IF SdrPlay /\ loop.connected
  THEN /\ Control(ok)
       /\ dev' = [dev EXCEPT !.inputRate = rate, !.rate = IF ok THEN rate ELSE @]
  ELSE ok /\ UNCHANGED <<dev, budget>>

Unplug ==
  /\ dev.present /\ budget.unplugs > 0
  /\ dev' = [dev EXCEPT !.present = FALSE, !.handle = FALSE]
  /\ budget' = [budget EXCEPT !.unplugs = @ - 1]
  /\ UNCHANGED <<shared, users, mpc, loop, scan, hist>>

Plug ==
  /\ ~dev.present
  /\ dev' = [dev EXCEPT !.present = TRUE]
  /\ UNCHANGED <<shared, users, mpc, loop, scan, budget, hist>>

Interrupt ==
  /\ MayInterrupt /\ running
  /\ running' = FALSE
  /\ UNCHANGED <<req, xdr, users, mpc, loop, scan, dev, budget, hist>>

-------------------------------------------------------------------------------
(***************************************************************************)
(* The main loop: start and stop.                                          *)
(***************************************************************************)
At(place) == mpc = place
Goto(place) == mpc' = place

TakeStop ==
  /\ At("top") /\ running
  /\ Goto(IF req.stop THEN "stopping" ELSE "checkStart")
  /\ req' = [req EXCEPT !.stop = FALSE]
  /\ UNCHANGED <<xdr, running, users, loop, scan, dev, budget, hist>>

(* Mutant: a start that was waiting survives the stop. *)
StopKeepsStart ==
  /\ At("stopping")
  /\ loop' = [loop EXCEPT !.tunerActive = FALSE, !.connected = FALSE]
  /\ dev' = [dev EXCEPT !.handle = FALSE]
  /\ Goto("checkStart")
  /\ UNCHANGED <<shared, users, scan, budget, hist>>

(* Mutant: the session stays connected after a stop. *)
StopKeepsSession ==
  /\ At("stopping")
  /\ req' = [req EXCEPT !.start = FALSE]
  /\ loop' = [loop EXCEPT !.tunerActive = FALSE]
  /\ Goto("checkStart")
  /\ UNCHANGED <<xdr, running, users, scan, dev, budget, hist>>

(* A stop also throws away a start that is waiting. *)
StopTuner ==
  /\ At("stopping")
  /\ req' = [req EXCEPT !.start = FALSE]
  /\ loop' = [loop EXCEPT !.tunerActive = FALSE, !.connected = FALSE]
  /\ dev' = [dev EXCEPT !.handle = FALSE]
  /\ Goto("checkStart")
  /\ UNCHANGED <<xdr, running, users, scan, budget, hist>>

(* A start of an active tuner is ignored; an idle loop goes round again. *)
TakeStart ==
  /\ At("checkStart")
  /\ req' = [req EXCEPT !.start = FALSE]
  /\ Goto(IF loop.tunerActive THEN "control"
          ELSE IF req.start THEN "connecting" ELSE "top")
  /\ UNCHANGED <<xdr, running, users, loop, scan, dev, budget, hist>>

(* A start resets neither the scan nor the wide rate it holds; the history *)
(* remembers that the device was restarted, decimated, under a wide scan.  *)
ConnectTuner(ok) ==
  /\ At("connecting")
  /\ Connect(ok)
  /\ loop' = [loop EXCEPT !.tunerActive = ok, !.connected = ok,
                          !.mute = MuteBlocks]
  /\ hist' = [hist EXCEPT !.unsettled = @ \/ ok,
                          !.restarted = @ \/ (ok /\ ScanRate = "wide")]
  /\ Goto(IF ok THEN "control" ELSE "top")
  /\ UNCHANGED <<shared, users, scan>>

(* Mutant: the program exits without disconnecting the session. *)
ExitConnected ==
  /\ At("top") /\ ~running
  /\ Goto("exited")
  /\ UNCHANGED <<shared, users, loop, scan, dev, budget, hist>>

(* The loop ends and shutdownResources disconnects the session. *)
Exit ==
  /\ At("top") /\ ~running
  /\ Goto("exited")
  /\ loop' = [loop EXCEPT !.connected = FALSE]
  /\ dev' = [dev EXCEPT !.handle = FALSE]
  /\ UNCHANGED <<shared, users, scan, budget, hist>>

-------------------------------------------------------------------------------
(***************************************************************************)
(* handleControlAndScan: scan control, retune, bandwidth.                  *)
(***************************************************************************)
ReadCurrentFrequency ==
  /\ At("control")
  /\ loop' = [loop EXCEPT !.currentFreq = req.freq]
  /\ Goto("scanStart")
  /\ UNCHANGED <<shared, users, scan, dev, budget, hist>>

(* No user request is in flight, so what the scan saves is what is in force. *)
NothingInFlight ==
  /\ ~req.bwPending /\ loop.currentFreq = req.freq
  /\ \A u \in Users : upc[u] \notin {"tuneRequest", "tunePending", "bandwidthPending"}

(* Mutant: the bandwidth to restore is saved after the scan's own was set. *)
SaveScanBandwidth ==
  /\ At("scanStart")
  /\ IF xdr.scanStart
     THEN LET own == IF xdr.scanBw > 0 THEN xdr.scanBw ELSE req.bw
          IN  /\ xdr' = [xdr EXCEPT !.scanStart = FALSE]
              /\ scan' = [scan EXCEPT !.active = TRUE,
                                      !.continuous = xdr.scanContinuous,
                                      !.restoreFreq = loop.currentFreq,
                                      !.restoreBw = own]
              /\ req' = [req EXCEPT !.bw = own, !.bwPending = @ \/ xdr.scanBw > 0]
              /\ hist' = [hist EXCEPT !.preFreq = req.freq,
                                      !.preBw = loop.appliedBw,
                                      !.clean = ~scan.active /\ NothingInFlight]
     ELSE UNCHANGED <<xdr, scan, req, hist>>
  /\ Goto("scanCancel")
  /\ UNCHANGED <<running, users, loop, dev, budget>>

ConsumeScanStart ==
  /\ At("scanStart")
  /\ IF xdr.scanStart
     THEN /\ xdr' = [xdr EXCEPT !.scanStart = FALSE]
          /\ scan' = [scan EXCEPT !.active = TRUE,
                                  !.continuous = xdr.scanContinuous,
                                  !.restoreFreq = loop.currentFreq,
                                  !.restoreBw = loop.appliedBw]
          /\ req' = IF xdr.scanBw > 0
                    THEN [req EXCEPT !.bw = xdr.scanBw, !.bwPending = TRUE]
                    ELSE req
          /\ hist' = [hist EXCEPT !.preFreq = req.freq,
                                  !.preBw = loop.appliedBw,
                                  !.clean = ~scan.active /\ NothingInFlight]
     ELSE UNCHANGED <<xdr, scan, req, hist>>
  /\ Goto("scanCancel")
  /\ UNCHANGED <<running, users, loop, dev, budget>>

(* The cancel is taken after the start.  Without a session nothing is      *)
(* restored.                                                               *)
ConsumeScanCancel ==
  /\ At("scanCancel")
  /\ xdr' = [xdr EXCEPT !.scanCancel = FALSE]
  /\ LET restore == xdr.scanCancel /\ scan.active /\ loop.connected
     IN  /\ scan' = [scan EXCEPT !.active = @ /\ ~xdr.scanCancel,
                                 !.after = IF restore THEN "takeFrequency" ELSE @]
         /\ Goto(IF restore THEN "restoreBandwidth" ELSE "takeFrequency")
         /\ hist' = [hist EXCEPT
              !.clean = @ /\ (xdr.scanCancel /\ scan.active => restore)]
  /\ UNCHANGED <<req, running, users, loop, dev, budget>>

TakeFrequency ==
  /\ At("takeFrequency")
  /\ LET take == loop.connected /\ req.freqPending
     IN  /\ req' = IF take THEN [req EXCEPT !.freqPending = FALSE] ELSE req
         /\ Goto(IF take THEN "retune" ELSE "bandwidth")
  /\ UNCHANGED <<xdr, running, users, loop, scan, dev, budget, hist>>

(* Mutant: tune to the frequency read before the pending flag was taken. *)
RetuneToCurrent(ok) ==
  /\ At("retune")
  /\ Control(ok)
  /\ dev' = [dev EXCEPT !.freq = IF ok THEN loop.currentFreq ELSE @]
  /\ loop' = [loop EXCEPT !.target = IF ok THEN loop.currentFreq ELSE @]
  /\ hist' = [hist EXCEPT !.dropped = @ \/ ~ok, !.unsettled = @ \/ ok]
  /\ Goto(IF ok THEN "publish" ELSE "bandwidth")
  /\ UNCHANGED <<shared, users, scan>>

(* A retune that fails is only logged: the request is gone. *)
Retune(ok) ==
  /\ At("retune")
  /\ Control(ok)
  /\ IF ok
     THEN /\ dev' = [dev EXCEPT !.freq = req.freq]
          /\ loop' = [loop EXCEPT !.target = req.freq]
          /\ hist' = [hist EXCEPT !.unsettled = TRUE]
          /\ Goto("publish")
     ELSE /\ hist' = [hist EXCEPT !.dropped = TRUE]
          /\ Goto("bandwidth")
          /\ UNCHANGED <<dev, loop>>
  /\ UNCHANGED <<shared, users, scan>>

(* Mutant: a retune no longer reaches the XDR server. *)
RetuneUnpublished ==
  /\ At("publish")
  /\ loop' = [loop EXCEPT !.mute = MuteBlocks]
  /\ hist' = [hist EXCEPT !.dropped = FALSE]
  /\ Goto("bandwidth")
  /\ UNCHANGED <<shared, users, scan, dev, budget>>

(* Mutant: a retune does not arm the settle mute. *)
RetuneUnmuted ==
  /\ At("publish")
  /\ xdr' = [xdr EXCEPT !.frequency = loop.target]
  /\ hist' = [hist EXCEPT !.dropped = FALSE]
  /\ Goto("bandwidth")
  /\ UNCHANGED <<req, running, users, loop, scan, dev, budget>>

(* Mutant: the pending flag is cleared when the retune is over. *)
RetuneClearsLate ==
  /\ At("publish")
  /\ req' = [req EXCEPT !.freqPending = FALSE]
  /\ xdr' = [xdr EXCEPT !.frequency = loop.target]
  /\ loop' = [loop EXCEPT !.mute = MuteBlocks]
  /\ hist' = [hist EXCEPT !.dropped = FALSE]
  /\ Goto("bandwidth")
  /\ UNCHANGED <<running, users, scan, dev, budget>>

(* setFrequencyState, and the settle mute that a retune arms. *)
PublishFrequency ==
  /\ At("publish")
  /\ xdr' = [xdr EXCEPT !.frequency = loop.target]
  /\ loop' = [loop EXCEPT !.mute = MuteBlocks]
  /\ hist' = [hist EXCEPT !.dropped = FALSE]
  /\ Goto("bandwidth")
  /\ UNCHANGED <<req, running, users, scan, dev, budget>>

TakeBandwidth ==
  /\ At("bandwidth")
  /\ req' = [req EXCEPT !.bwPending = FALSE]
  /\ loop' = [loop EXCEPT !.appliedBw = IF req.bwPending THEN req.bw ELSE @]
  /\ Goto("scanMode")
  /\ UNCHANGED <<xdr, running, users, scan, dev, budget, hist>>

(* Mutant: the wide rate is never left again. *)
ScanRateNeverNarrowed(ok) ==
  /\ At("scanMode")
  /\ IF scan.active /\ ~scan.wide
     THEN /\ SetScanWideMode("wide", ok)
          /\ scan' = [scan EXCEPT !.wide = TRUE, !.step = 1,
                                  !.wideRate = IF SdrPlay THEN dev'.inputRate
                                                          ELSE "narrow"]
     ELSE /\ ok
          /\ scan' = [scan EXCEPT !.wide = scan.active, !.step = 1]
          /\ UNCHANGED <<dev, budget>>
  /\ hist' = [hist EXCEPT !.restarted = @ /\ scan.active = scan.wide]
  /\ Goto(IF scan.active /\ loop.connected THEN "sweep" ELSE "read")
  /\ UNCHANGED <<shared, users, loop>>

(* Mutant: the sweep ignores the rate the device answered. *)
ScanRateUnused(ok) ==
  /\ At("scanMode")
  /\ IF scan.active # scan.wide
     THEN SetScanWideMode(IF scan.active THEN "wide" ELSE "narrow", ok)
     ELSE ok /\ UNCHANGED <<dev, budget>>
  /\ scan' = [scan EXCEPT !.wide = scan.active, !.step = 1]
  /\ hist' = [hist EXCEPT !.restarted = @ /\ scan.active = scan.wide]
  /\ Goto(IF scan.active /\ loop.connected THEN "sweep" ELSE "read")
  /\ UNCHANGED <<shared, users, loop>>

(* Follow the scan with the SDRplay scan rate, then sweep if a scan is on. *)
SwitchScanRate(ok) ==
  /\ At("scanMode")
  /\ IF scan.active /\ ~scan.wide
     THEN /\ SetScanWideMode("wide", ok)
          /\ scan' = [scan EXCEPT !.wide = TRUE, !.step = 1,
                                  !.wideRate = IF SdrPlay THEN dev'.inputRate
                                                          ELSE "narrow"]
     ELSE IF ~scan.active /\ scan.wide
     THEN /\ SetScanWideMode("narrow", ok)
          /\ scan' = [scan EXCEPT !.wide = FALSE, !.step = 1,
                                  !.wideRate = "narrow"]
     ELSE /\ ok
          /\ scan' = [scan EXCEPT !.step = 1]
          /\ UNCHANGED <<dev, budget>>
  /\ hist' = [hist EXCEPT !.restarted = @ /\ scan.active = scan.wide]
  /\ Goto(IF scan.active /\ loop.connected THEN "sweep" ELSE "read")
  /\ UNCHANGED <<shared, users, loop>>

-------------------------------------------------------------------------------
(***************************************************************************)
(* ScanEngine::runIfActive, and restoreAfterScan.                          *)
(***************************************************************************)
SweepInterrupted == ~running \/ xdr.scanCancel

(* Mutant: a cancelled sweep leaves the scan active. *)
AbortOneSweep ==
  /\ At("sweep") /\ scan.step <= SweepCenters
  /\ SweepInterrupted
  /\ xdr' = IF running THEN [xdr EXCEPT !.scanCancel = FALSE] ELSE xdr
  /\ Goto("fallback")
  /\ UNCHANGED <<req, running, users, loop, scan, dev, budget, hist>>

AbortSweep ==
  /\ At("sweep") /\ scan.step <= SweepCenters
  /\ SweepInterrupted
  /\ xdr' = IF running THEN [xdr EXCEPT !.scanCancel = FALSE] ELSE xdr
  /\ scan' = [scan EXCEPT !.active = FALSE]
  /\ Goto("fallback")
  /\ UNCHANGED <<req, running, users, loop, dev, budget, hist>>

SweepTune(ok) ==
  /\ At("sweep") /\ scan.step <= SweepCenters
  /\ ~SweepInterrupted
  /\ Control(ok)
  /\ IF ok
     THEN /\ dev' = [dev EXCEPT !.freq = ScanCenter]
          /\ scan' = [scan EXCEPT !.step = @ + 1]
          /\ hist' = [hist EXCEPT !.unsettled = TRUE]
          /\ UNCHANGED mpc
     ELSE /\ scan' = [scan EXCEPT !.active = FALSE]
          /\ Goto("fallback")
          /\ UNCHANGED <<dev, hist>>
  /\ UNCHANGED <<shared, users, loop>>

SweepDone ==
  /\ At("sweep") /\ scan.step > SweepCenters
  /\ Goto("fallback")
  /\ UNCHANGED <<shared, users, loop, scan, dev, budget, hist>>

(* Channels no capture covered are sampled with further retunes, which     *)
(* look at neither the cancel flag nor g_running.  A sweep that never      *)
(* reached its first centre has covered none.                              *)
Fallback(uncovered, ok) ==
  /\ At("fallback")
  /\ scan.step = 1 => uncovered
  /\ IF uncovered
     THEN /\ Control(ok)
          /\ dev' = [dev EXCEPT !.freq = IF ok THEN ScanCenter ELSE @]
          /\ hist' = [hist EXCEPT !.unsettled = @ \/ ok]
     ELSE ok /\ UNCHANGED <<dev, budget, hist>>
  /\ Goto("endSweep")
  /\ UNCHANGED <<shared, users, loop, scan>>

EndSweep ==
  /\ At("endSweep")
  /\ LET over == ~scan.continuous \/ ~scan.active
     IN  /\ scan' = [scan EXCEPT !.active = ~over, !.after = "top"]
         /\ Goto(IF over THEN "restoreBandwidth" ELSE "top")
  /\ UNCHANGED <<shared, users, loop, dev, budget, hist>>

RestoreBandwidth ==
  /\ At("restoreBandwidth")
  /\ req' = [req EXCEPT !.bw = scan.restoreBw, !.bwPending = TRUE]
  /\ Goto("restoreFrequency")
  /\ UNCHANGED <<xdr, running, users, loop, scan, dev, budget, hist>>

RestoreFrequency(ok) ==
  /\ At("restoreFrequency")
  /\ req' = [req EXCEPT !.freq = scan.restoreFreq, !.freqPending = TRUE]
  /\ Control(ok)
  /\ dev' = [dev EXCEPT !.freq = IF ok THEN scan.restoreFreq ELSE @]
  /\ loop' = [loop EXCEPT !.mute = MuteBlocks]
  /\ hist' = [hist EXCEPT !.unsettled = TRUE]
  /\ Goto(scan.after)
  /\ UNCHANGED <<xdr, running, users, scan>>

-------------------------------------------------------------------------------
(***************************************************************************)
(* Reading IQ, and TunerSession::noteReadFailureAndMaybeReconnect.         *)
(***************************************************************************)
(* Mutant: the mute counter is decremented below zero. *)
ReadBlockUnderflow ==
  /\ At("read") /\ loop.connected /\ dev.handle
  /\ loop' = [loop EXCEPT !.failures = 0, !.mute = @ - 1]
  /\ hist' = [hist EXCEPT !.unsettled = FALSE]
  /\ Goto("top")
  /\ UNCHANGED <<shared, users, scan, dev, budget>>

ReadBlock ==
  /\ At("read") /\ loop.connected /\ dev.handle
  /\ loop' = [loop EXCEPT !.failures = 0,
                          !.mute = IF @ > 0 THEN @ - 1 ELSE 0]
  /\ hist' = [hist EXCEPT !.unsettled = FALSE]
  /\ Goto("top")
  /\ UNCHANGED <<shared, users, scan, dev, budget>>

(* Mutant: only a device that reports its own failure is reconnected. *)
ReadNothingReported ==
  /\ At("read")
  /\ Control(FALSE)
  /\ LET reconnect == AutoReconnect /\ loop.connected /\ SdrPlay /\ ~dev.handle
     IN  /\ loop' = [loop EXCEPT !.connected = @ /\ ~reconnect]
         /\ Goto(IF reconnect THEN "reconnect" ELSE "top")
  /\ UNCHANGED <<shared, users, scan, dev, hist>>

(* The count saturates at the limit: the code only compares it with it.    *)
ReadNothing ==
  /\ At("read")
  /\ Control(FALSE)
  /\ LET failures == IF loop.failures < ReadFailureLimit
                     THEN loop.failures + 1 ELSE ReadFailureLimit
         deviceFailed == SdrPlay /\ ~dev.handle
         reconnect == /\ AutoReconnect /\ loop.connected
                      /\ deviceFailed \/ failures >= ReadFailureLimit
     IN  /\ loop' = [loop EXCEPT !.failures = failures,
                                 !.connected = @ /\ ~reconnect]
         /\ dev' = [dev EXCEPT !.handle = @ /\ ~reconnect]
         /\ Goto(IF reconnect THEN "reconnect" ELSE "top")
  /\ UNCHANGED <<shared, users, scan, hist>>

Reconnect(ok) ==
  /\ At("reconnect")
  /\ Connect(ok)
  /\ loop' = [loop EXCEPT !.connected = ok, !.failures = 0]
  /\ hist' = [hist EXCEPT !.unsettled = @ \/ ok]
  /\ Goto("top")
  /\ UNCHANGED <<shared, users, scan>>

MainStep ==
  \/ TakeStop \/ StopTuner \/ TakeStart \/ Exit
  \/ ReadCurrentFrequency \/ ConsumeScanStart \/ ConsumeScanCancel
  \/ TakeFrequency \/ PublishFrequency \/ TakeBandwidth
  \/ AbortSweep \/ SweepDone \/ EndSweep \/ RestoreBandwidth
  \/ ReadBlock \/ ReadNothing
  \/ \E ok \in BOOLEAN :
       \/ ConnectTuner(ok) \/ Retune(ok) \/ SwitchScanRate(ok) \/ SweepTune(ok)
       \/ RestoreFrequency(ok) \/ Reconnect(ok)
       \/ \E uncovered \in BOOLEAN : Fallback(uncovered, ok)

Next == UserStep \/ MainStep \/ Unplug \/ Plug \/ Interrupt

Spec == Init /\ [][Next]_vars

(* The main thread and a thread inside a command keep running; a device    *)
(* that was pulled out is plugged back in.  Nobody has to send a command,  *)
(* pull the device out or interrupt the program.                           *)
Fairness ==
  /\ WF_vars(MainStep)
  /\ \A u \in Users : WF_vars(UserContinues(u))
  /\ WF_vars(Plug)

FairSpec == Spec /\ Fairness

-------------------------------------------------------------------------------
(***************************************************************************)
(* Properties.                                                             *)
(***************************************************************************)
NoTuneInFlight == \A u \in Users : upc[u] \notin {"tuneRequest", "tunePending"}
NoTuneHalfStored == \A u \in Users : upc[u] # "tunePending"

(* Once the last of all start and stop requests was a stop and the main    *)
(* loop has taken it, no older start can switch the tuner on again.        *)
StopWins ==
  hist.intent = "stop" /\ ~req.stop /\ mpc # "stopping" =>
    ~req.start /\ mpc # "connecting" /\ ~loop.tunerActive

(* An idle tuner has released the device, whichever thread stopped it.     *)
IdleIsDisconnected ==
  ~loop.tunerActive => ~loop.connected /\ ~dev.handle

(* Whoever asked last, XDR, FM-DX or REST, the frequency XDR clients are   *)
(* told is the requested one as soon as no request is on its way, unless   *)
(* the device refused the last retune.                                     *)
XdrAgreement ==
  /\ NoTuneInFlight /\ ~req.freqPending
  /\ mpc \notin {"retune", "publish"}
  /\ ~hist.dropped
  => xdr.frequency = req.freq

(* No request is lost between the two stores of a user and the two loads   *)
(* of the main loop: with nothing pending and no scan the device is tuned  *)
(* to the requested frequency.                                             *)
TunedAgreement ==
  /\ NoTuneHalfStored /\ ~req.freqPending
  /\ loop.connected /\ ~hist.dropped /\ ~scan.active
  /\ mpc \notin {"retune", "fallback", "endSweep", "restoreBandwidth",
                  "restoreFrequency"}
  => dev.freq = req.freq

(* The first block after a start, a retune or a scan is processed with the *)
(* whole settle mute still to run.                                         *)
SettleMuted ==
  mpc = "read" /\ loop.connected /\ dev.handle /\ hist.unsettled =>
    loop.mute = MuteBlocks

(* A scan nobody interfered with leaves the receiver as it found it: the   *)
(* requested, tuned and shown frequency and the bandwidth in force.        *)
ScanRestores ==
  /\ mpc = "read" /\ hist.clean /\ ~scan.active
  /\ loop.connected /\ ~hist.dropped
  => /\ loop.appliedBw = hist.preBw
     /\ {req.freq, dev.freq, xdr.frequency} = {hist.preFreq}

(* The demodulator is only fed IQ at the decimated rate it is built for.   *)
DemodRate ==
  mpc = "read" /\ loop.connected /\ dev.handle => dev.rate = "narrow"

(* A sweep computes its channels with the rate the device really delivers, *)
(* over every cancel, new scan, loss and reconnect, with exactly one       *)
(* exception: after a stop and a start under a scan that holds the wide    *)
(* rate the engine goes on with the wide rate on a device that restarted   *)
(* decimated (runtime_loop.cpp:97-107), until that scan ends.               *)
SweepRateKnown ==
  mpc = "sweep" /\ dev.handle => (ScanRate = dev.rate <=> ~hist.restarted)

(* When requests stop coming, device, request and shown frequency end up   *)
(* equal for good.                                                         *)
SettlesTuned ==
  <>[](/\ loop.tunerActive /\ loop.connected /\ dev.handle
       /\ ~scan.active /\ ~hist.dropped
       => dev.freq = req.freq /\ xdr.frequency = req.freq)

(* A session does not sit on a dead device handle for ever.                *)
DeadHandleReleased ==
  loop.tunerActive /\ loop.connected /\ ~dev.handle
    ~> dev.handle \/ ~loop.connected

(* A cancel is never overtaken: it ends a single or continuous scan while  *)
(* the tuner runs, also when it lands in the middle of a sweep.            *)
CancelEndsScan ==
  xdr.scanCancel /\ loop.tunerActive
    ~> ~scan.active \/ ~loop.tunerActive \/ mpc = "exited"

(* An interrupt ends the program with the device released, from any place, *)
(* a continuous scan included.                                             *)
ShutdownCompletes == ~running ~> mpc = "exited" /\ ~dev.handle

(* A tuner in use whose device dropped is connected again once the device  *)
(* is back (USER-MANUAL.md:215).                                           *)
ReconnectsAfterLoss ==
  loop.tunerActive /\ dev.present
    ~> loop.connected \/ ~loop.tunerActive \/ ~dev.present

===============================================================================
