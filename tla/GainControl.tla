----------------------------- MODULE GainControl -----------------------------
(***************************************************************************)
(* Who sets the tuner's gain, and the channel's bandwidth.  The main loop  *)
(* writes the device's registers from what was requested: by XDR clients,  *)
(* by the automatic ladder, which reacts to overload and headroom, and by  *)
(* the adaptive bandwidth, which reacts to the SNR.  The REST server       *)
(* writes the same registers from its own thread.  The device may be lost  *)
(* at any time; the session then connects it again, or stays disconnected. *)
(***************************************************************************)
EXTENDS Integers, Sequences

CONSTANTS
  Setups,     \* configurations: [mode, gain, sdrpp, direct, rspAgc, allow, adaptive]
  AskedModes, \* the arguments of A commands
  AskedGains, \* the gains set over REST, in dB
  AskedBands, \* the bandwidths asked for by clients, in kHz
  Signals,    \* what is received: [level, excess, snr], the tuned channel's level at
              \* a gain of 0 dB in dBFS, what its neighbours add to it, and its SNR
  ClipHeavy, ClipNone, \* levels beyond which more than 2 % of the samples clip,
                       \* and below which fewer than 0.05 % do
  MaxInputs   \* bound: commands, REST calls, losses and changes of the signal

ASSUME GainAssumption ==
  /\ \A s \in Setups :
       /\ s.mode \in 0..3 /\ s.gain \in Int
       /\ {s.sdrpp, s.direct, s.rspAgc, s.allow} \subseteq BOOLEAN
       /\ s.adaptive \in {"off", "conservative", "aggressive"}
  /\ AskedModes \subseteq Int /\ AskedGains \subseteq Int /\ AskedBands \subseteq Nat
  /\ Signals \subseteq [level : Int, excess : Nat, snr : Int]
  /\ ClipHeavy \in Int /\ ClipNone \in Int /\ ClipNone < ClipHeavy
  /\ MaxInputs \in Nat

VARIABLES
  setup,
  mode, flags,       \* requestedAGCMode; requestedCustomGain as [ceq, ims]
  pendAGC, pendGain, \* pendingAGC, pendingGain
  xdr,               \* what an XDR handler still stores, in its order
  rest,              \* the registers a REST handler still writes
  dev,               \* the device's registers
  session,           \* [active, connected, handle]: tunerActive, rtlConnected, and
                     \* whether the device behind them is open and alive
  asked,             \* a start or a stop asked for, or "none"
  overridden,        \* history: REST wrote a register since the loop last began to
  pc, back,          \* the main loop, and where it goes on after writing
  ims, todo,         \* what it has loaded, the registers it still writes
  rung, timer,       \* the rung it is about to store; which hysteresis timers elapsed
  signal,            \* what is received
  band, left         \* the bandwidth (owed: a handler still stores the flag, taken:
                     \* the loop has taken it); what is left of the bound

requests == <<mode, flags, pendAGC, pendGain>>
loop == <<pc, back, ims, todo, rung>>
vars == <<setup, requests, xdr, rest, dev, session, asked, overridden, loop, timer,
          signal, band, left>>

Clamp(v, low, high) == IF v < low THEN low ELSE IF v > high THEN high ELSE v

Input == left > 0 /\ left' = left - 1

-------------------------------------------------------------------------------
(* What the requests mean for the device                                   *)

isImsAgcEnabled == setup.gain < 0 /\ flags.ims

agcModeToGainDb(m) ==
  (IF setup.direct /\ ~setup.sdrpp THEN <<18, 12, 7, 0>> ELSE <<44, 36, 30, 24>>)[m + 1]

calculateAppliedGainDb ==
  Clamp(IF setup.gain >= 0 THEN setup.gain
        ELSE agcModeToGainDb(mode) + (IF flags.ceq THEN 4 ELSE 0), 0, 49)

SdrppGain == 20
SdrppAgc == TRUE

(* applyRtlGainAndAgc: the registers it writes, in its order               *)
Manual(on) == [reg |-> "manual", to |-> on]
AGC(on) == [reg |-> "agc", to |-> on]
Gain(db) == [reg |-> "gain", to |-> db]

Writes(isIms, db) ==
  IF setup.rspAgc THEN <<Manual(FALSE), AGC(TRUE)>>
  ELSE IF setup.sdrpp
  THEN <<Manual(TRUE), Gain(IF setup.gain >= 0 THEN Clamp(setup.gain, 0, 49) ELSE SdrppGain),
         AGC(SdrppAgc)>>
  ELSE IF isIms THEN <<Manual(FALSE), AGC(TRUE)>>
  ELSE <<Manual(TRUE), AGC(FALSE), Gain(db)>>

(* A register of a device that is not open keeps its value.                *)
Write(w) == IF session.handle THEN [dev EXCEPT ![w.reg] = w.to] ELSE dev

-------------------------------------------------------------------------------
(* The measured signal                                                     *)

dbfs == signal.level + dev.gain
Clips(limit) == dbfs + signal.excess > limit
Overload == Clips(ClipHeavy) \/ dbfs > -5
HeadroomWide == ~Clips(ClipNone) /\ dbfs < -8
Headroom == ~Clips(ClipNone) /\ dbfs < -20

decideAutoGainStep(currentMode, downElapsed, upElapsed) ==
  IF Overload /\ downElapsed /\ currentMode < 3 THEN 1
  ELSE IF Headroom /\ upElapsed /\ currentMode > 0 THEN -1
  ELSE 0

LadderOn == ~setup.sdrpp /\ setup.gain < 0 /\ ~isImsAgcEnabled

pickAdaptiveBandwidth ==
  CASE setup.adaptive = "off" -> 0
    [] setup.adaptive = "aggressive" ->
         IF signal.snr > 25 THEN 200 ELSE IF signal.snr > 15 THEN 130 ELSE IF signal.snr > 8 THEN 95
         ELSE IF signal.snr > 3 THEN 56 ELSE 36
    [] OTHER -> IF signal.snr > 20 THEN 194 ELSE IF signal.snr > 10 THEN 142 ELSE 95

MinStep == 20
Near(a, b) == a - b < MinStep /\ b - a < MinStep

(* Hysteresis: not the last target again, not within two seconds of the    *)
(* last change, and not for a small step.                                  *)
BandwidthChange ==
  LET proposed == pickAdaptiveBandwidth
  IN IF proposed > 0 /\ proposed # band.lastTarget /\ timer.band
        /\ ~Near(proposed, band.applied)
     THEN proposed ELSE 0

-------------------------------------------------------------------------------
Init ==
  /\ setup \in Setups
  /\ mode = setup.mode /\ flags = [ceq |-> FALSE, ims |-> FALSE]
  /\ pendAGC = FALSE /\ pendGain = FALSE /\ xdr = <<>> /\ rest = <<>>
  /\ dev = [manual |-> FALSE, agc |-> FALSE, gain |-> 0]
  /\ session = [active |-> FALSE, connected |-> FALSE, handle |-> FALSE]
  /\ asked = "start" /\ overridden = FALSE
  /\ pc = "top" /\ back = "take" /\ ims = FALSE /\ todo = <<>> /\ rung = 0
  /\ timer = [down |-> TRUE, up |-> TRUE, band |-> TRUE]
  /\ signal \in Signals
  /\ band = [requested |-> 0, pending |-> FALSE, owed |-> FALSE, taken |-> FALSE,
             applied |-> 0, lastTarget |-> 0, user |-> FALSE]
  /\ left = MaxInputs

-------------------------------------------------------------------------------
(* XDR clients: A and G commands, if the configuration lets them           *)

AcceptsGain == ~setup.sdrpp /\ setup.gain < 0 /\ setup.allow

StoresFlagFirst(value, flag) == <<flag, value>>
Stores(value, flag) == <<value, flag>>

Command ==
  /\ xdr = <<>> /\ AcceptsGain /\ Input
  /\ \/ \E m \in AskedModes : xdr' = Stores([mode |-> Clamp(m, 0, 3)], [agc |-> TRUE])
     \/ \E f \in [ceq : BOOLEAN, ims : BOOLEAN] :
          xdr' = Stores([flags |-> f], [gain |-> TRUE])
  /\ UNCHANGED <<setup, requests, rest, dev, session, asked, overridden, loop, timer,
                 signal, band>>

CommandStores ==
  /\ xdr # <<>> /\ xdr' = Tail(xdr)
  /\ LET s == Head(xdr)
     IN /\ mode' = IF "mode" \in DOMAIN s THEN s.mode ELSE mode
        /\ flags' = IF "flags" \in DOMAIN s THEN s.flags ELSE flags
        /\ pendAGC' = (pendAGC \/ "agc" \in DOMAIN s)
        /\ pendGain' = (pendGain \/ "gain" \in DOMAIN s)
  /\ UNCHANGED <<setup, rest, dev, session, asked, overridden, loop, timer, signal,
                 band, left>>

(* A bandwidth, over XDR, FM-DX or REST: its value, then its flag.         *)
AskBandwidth ==
  /\ ~band.owed /\ Input
  /\ \E b \in AskedBands :
       band' = [band EXCEPT !.requested = b, !.owed = TRUE, !.user = TRUE]
  /\ UNCHANGED <<setup, requests, xdr, rest, dev, session, asked, overridden, loop,
                 timer, signal>>

BandwidthFlag ==
  /\ band.owed /\ band' = [band EXCEPT !.pending = TRUE, !.owed = FALSE]
  /\ UNCHANGED <<setup, requests, xdr, rest, dev, session, asked, overridden, loop,
                 timer, signal, left>>

(* A start or a stop.                                                      *)
AskStartStop ==
  /\ Input /\ asked' \in {"start", "stop"}
  /\ UNCHANGED <<setup, requests, xdr, rest, dev, session, overridden, loop, timer,
                 signal, band>>

-------------------------------------------------------------------------------
(* REST: gain_db, agc and rtl_agc write the registers themselves.          *)

RestCall ==
  /\ rest = <<>> /\ Input
  /\ \/ \E db \in AskedGains : rest' = <<Manual(TRUE), Gain(Clamp(db, 0, 50))>>
     \/ \E on \in BOOLEAN : rest' \in {<<Manual(~on), AGC(on)>>, <<AGC(on)>>}
  /\ UNCHANGED <<setup, requests, xdr, dev, session, asked, overridden, loop, timer,
                 signal, band>>

RestWrites ==
  /\ rest # <<>>
  /\ dev' = Write(Head(rest)) /\ rest' = Tail(rest) /\ overridden' = TRUE
  /\ UNCHANGED <<setup, requests, xdr, session, asked, loop, timer, signal, band, left>>

-------------------------------------------------------------------------------
(* The main loop: stop and start, then a reassertion when it is due or     *)
(* after a retune, the pending requests, a block of the signal.            *)

Apply(next) ==
  /\ pc' = "load" /\ back' = next /\ overridden' = FALSE
  /\ UNCHANGED <<ims, todo, rung>>

LoopStop ==
  /\ pc = "top" /\ asked = "stop"
  /\ session' = [active |-> FALSE, connected |-> FALSE, handle |-> FALSE]
  /\ asked' = "none"
  /\ UNCHANGED <<setup, requests, xdr, rest, dev, overridden, loop, timer, signal, band,
                 left>>

(* connect() programs the registers of a device that has just been opened; *)
(* when it fails the session stays disconnected, and the pass ends.        *)
ConnectThen(next) ==
  \/ /\ session' = [session EXCEPT !.connected = FALSE, !.handle = FALSE]
     /\ pc' = "top"
     /\ UNCHANGED <<dev, back, ims, todo, rung, overridden>>
  \/ /\ session' = [active |-> TRUE, connected |-> TRUE, handle |-> TRUE]
     /\ dev' = [manual |-> FALSE, agc |-> FALSE, gain |-> 0]
     /\ Apply(next)

(* A start of an active tuner is ignored, connected or not.                *)
LoopStart ==
  /\ pc = "top" /\ asked = "start" /\ asked' = "none"
  /\ IF session.active THEN UNCHANGED <<session, dev, loop, overridden>>
     ELSE ConnectThen("take")
  /\ UNCHANGED <<setup, requests, xdr, rest, timer, signal, band, left>>

Reassert ==
  /\ pc = "top" /\ asked = "none" /\ session.active /\ session.connected
  /\ Apply("take")
  /\ UNCHANGED <<setup, requests, xdr, rest, dev, session, asked, timer, signal, band,
                 left>>

Pass ==
  /\ pc = "top" /\ asked = "none" /\ session.active
  /\ pc' = "take"
  /\ UNCHANGED <<setup, requests, xdr, rest, dev, session, asked, overridden, back, ims,
                 todo, rung, timer, signal, band, left>>

(* The flags are taken whether or not the session is connected: without a  *)
(* device what they asked for waits for the next connect.                  *)
TakePending ==
  /\ pc = "take"
  /\ pendAGC' = FALSE /\ pendGain' = FALSE
  /\ band' = [band EXCEPT !.pending = FALSE, !.taken = band.pending]
  /\ IF session.connected /\ (pendAGC \/ pendGain) THEN Apply("setBand")
     ELSE pc' = "setBand" /\ UNCHANGED <<back, ims, todo, rung, overridden>>
  /\ UNCHANGED <<setup, mode, flags, xdr, rest, dev, session, asked, timer, signal, left>>

SetBandwidth ==
  /\ pc = "setBand" /\ pc' = "read"
  /\ band' = [band EXCEPT !.taken = FALSE,
                          !.applied = IF band.taken THEN band.requested ELSE @]
  /\ UNCHANGED <<setup, requests, xdr, rest, dev, session, asked, overridden, back, ims,
                 todo, rung, timer, signal, left>>

(* A lost device delivers nothing: the pass ends, after some such passes   *)
(* the session, if it is connected, closes the device and connects again.  *)
ReadNothing ==
  /\ pc = "read" /\ ~session.handle
  /\ \/ pc' = "top" /\ UNCHANGED <<session, dev, back, ims, todo, rung, overridden>>
     \/ session.connected /\ ConnectThen("top")
  /\ UNCHANGED <<setup, requests, xdr, rest, asked, timer, signal, band, left>>

(* applyRtlGainAndAgc loads the flags, then the mode and the flags again,  *)
(* and writes one register after the other.                                *)
LoadIms ==
  /\ pc = "load" /\ ims' = isImsAgcEnabled /\ pc' = "loadGain"
  /\ UNCHANGED <<setup, requests, xdr, rest, dev, session, asked, overridden, back, todo,
                 rung, timer, signal, band, left>>

LoadGain ==
  /\ pc = "loadGain" /\ todo' = Writes(ims, calculateAppliedGainDb)
  /\ pc' = "write" /\ ims' = FALSE
  /\ UNCHANGED <<setup, requests, xdr, rest, dev, session, asked, overridden, back,
                 rung, timer, signal, band, left>>

WriteRegister ==
  /\ pc = "write"
  /\ dev' = Write(Head(todo)) /\ todo' = Tail(todo)
  /\ pc' = IF Tail(todo) = <<>> THEN back ELSE pc
  /\ UNCHANGED <<setup, requests, xdr, rest, session, asked, overridden, back, ims,
                 rung, timer, signal, band, left>>

(* A block has been read.  maybeAdjustAutoGain loads the rung and decides, *)
(* then stores the next and its flag, which nobody else takes.             *)
LoadRung ==
  /\ pc = "read" /\ session.handle
  /\ LET step == IF LadderOn THEN decideAutoGainStep(mode, timer.down, timer.up) ELSE 0
     IN IF step = 0 THEN pc' = "bandwidth" /\ UNCHANGED <<rung, timer>>
        ELSE /\ pc' = "step" /\ rung' = mode + step
             /\ timer' = [timer EXCEPT !.down = @ /\ step # 1, !.up = @ /\ step # -1]
  /\ UNCHANGED <<setup, requests, xdr, rest, dev, session, asked, overridden, back, ims,
                 todo, signal, band, left>>

StoreRung ==
  /\ pc = "step" /\ pc' = "bandwidth"
  /\ mode' = rung /\ pendAGC' = TRUE /\ rung' = 0
  /\ UNCHANGED <<setup, flags, pendGain, xdr, rest, dev, session, asked, overridden,
                 back, ims, todo, timer, signal, band, left>>

(* The loop is alone in taking the flag it stores after the value.         *)
AdjustBandwidth ==
  /\ pc = "bandwidth" /\ pc' = "top"
  /\ IF BandwidthChange = 0 THEN UNCHANGED <<band, timer>>
     ELSE /\ band' = [band EXCEPT !.requested = BandwidthChange, !.pending = TRUE,
                                  !.lastTarget = BandwidthChange, !.user = FALSE]
          /\ timer' = [timer EXCEPT !.band = FALSE]
  /\ UNCHANGED <<setup, requests, xdr, rest, dev, session, asked, overridden, back, ims,
                 todo, rung, signal, left>>

-------------------------------------------------------------------------------
(* The device is pulled out, or the link to it breaks.                     *)
Loss ==
  /\ session.handle /\ Input
  /\ session' = [session EXCEPT !.handle = FALSE]
  /\ UNCHANGED <<setup, requests, xdr, rest, dev, asked, overridden, loop, timer, signal,
                 band>>

Tick ==
  /\ \E t \in DOMAIN timer : ~timer[t] /\ timer' = [timer EXCEPT ![t] = TRUE]
  /\ UNCHANGED <<setup, requests, xdr, rest, dev, session, asked, overridden, loop,
                 signal, band, left>>

SignalChanges ==
  /\ Input
  /\ signal' \in Signals
  /\ UNCHANGED <<setup, requests, xdr, rest, dev, session, asked, overridden, loop,
                 timer, band>>

Loop ==
  \/ LoopStop \/ LoopStart \/ Reassert \/ Pass \/ TakePending \/ SetBandwidth
  \/ LoadIms \/ LoadGain \/ WriteRegister \/ ReadNothing \/ LoadRung \/ StoreRung
  \/ AdjustBandwidth

Next ==
  \/ Command \/ CommandStores \/ AskBandwidth \/ BandwidthFlag \/ AskStartStop
  \/ RestCall \/ RestWrites \/ Loop \/ Loss \/ Tick \/ SignalChanges

(* The loop runs, handlers that have begun end, and time passes.           *)
Spec ==
  /\ Init /\ [][Next]_vars
  /\ WF_vars(Loop) /\ WF_vars(CommandStores) /\ WF_vars(BandwidthFlag)
  /\ WF_vars(RestWrites) /\ WF_vars(Tick)

-------------------------------------------------------------------------------
(* With no request pending and no handler on its way, the registers say    *)
(* what the requests ask for: no A or G command is lost between the store  *)
(* of its value, the store of its flag, the loop's exchange of the flag    *)
(* and its loads, and none while the tuner is closed, the device lost or   *)
(* its reconnect failed, once the device is open again; unless REST has    *)
(* written a register since the loop last began to write them.             *)
GainApplied ==
  pc = "top" /\ session.handle /\ xdr = <<>> /\ ~pendAGC /\ ~pendGain /\ ~overridden =>
    LET writes == Writes(isImsAgcEnabled, calculateAppliedGainDb)
    IN \A i \in 1..Len(writes) : dev[writes[i].reg] = writes[i].to

(* When the signal and the clients leave it alone, the ladder settles: it  *)
(* neither pumps nor stays below a rung the signal has headroom for; and   *)
(* the bandwidth follows the SNR, unless a client has set it since.        *)
Settles ==
  <>[](session.handle =>
         /\ LadderOn => decideAutoGainStep(mode, TRUE, TRUE) = 0
         /\ setup.adaptive # "off" /\ ~band.user =>
              Near(pickAdaptiveBandwidth, band.applied))
===============================================================================
