# A formal model of FM-SDR-Tuner

TLA+ modules that model FM-SDR-Tuner from its command line to its sockets and
sound devices (all but the signal processing itself), TLC configurations that check them on small instances, and theorems that TLAPS proves for every
value of the constants. `PROJECT.json` holds the machine-readable part:
components, runs, mutants, the map from definitions to source lines, findings,
hazards and theorems.

    tlc -workers 2 -config TunerControl_control.cfg MCTunerControl
    tlapm TunerControl_proof.tla

## 1. The system

One process. The main thread (`Application::run`) owns the tuner and the audio
path; other threads talk to it through atomics, bounded queues and callbacks.

| Component | State | Operations | Talks to |
|---|---|---|---|
| Main control loop (`application.cpp`, `runtime_loop.cpp`) | `tunerActive`, `currentFrequency`, scan locals, mute counter | start, stop, retune, bandwidth, scan rate, sweep, read, shut down | takes requests from `XdrCommandState`, drives the session, publishes to the XDR server |
| Tuner session (`tuner_session.cpp`) | connected, read failures | connect, disconnect, count failures, reconnect | tuner backends |
| Scan engine (`scan_engine.cpp`) | active, continuous, saved frequency and bandwidth | take start and cancel, sweep, sample leftovers, restore | reads the XDR server's cancel flag, tunes the device |
| XDR command state and facade (`xdr_facade.cpp`) | one value and one pending flag per request | the server's callbacks | written by client threads, taken by the main loop |
| XDR server (`xdr_server.cpp`) | current frequency, scan flags, RDS and scan line queues, PI state, sessions, threads | commands, pushing lines, sessions, start and stop | client threads against the main and RDS threads |
| REST server (`rest_server.cpp`) | the connection being served | tune, bandwidth, start, stop, gain, volume, deemphasis, blend, mono | its thread stores the same requests and writes the gain registers itself |
| Tuner backends (`rtl_sdr_device.cpp`, `rtl_tcp_client.cpp`, `sdrplay_device.cpp`) | handle, IQ ring, rates | connect, tune, read IQ | USB or API callback thread against the reading main thread |
| RDS worker and PI state (`rds_worker.cpp`) | block queue, reset flag, decoder | enqueue, reset, decode | main thread against the worker; pushes groups to the XDR server |
| WAV writer, audio and MPX outputs (`wav_writer.cpp`, `audio_output.cpp`, `mpx_audio_output.cpp`) | sample rings, writer threads, files, devices | open, push, drain, close | main thread against a writer thread or an audio callback |
| Auto gain, adaptive bandwidth (`auto_gain_policy.h`, `adaptive_bandwidth.cpp`) | hysteresis timers, last target | step per block | read-modify-write against client commands; reads the signal levels |
| Configuration, command line, calibration (`config.cpp`, `app_options.cpp`, `calibration.cpp`, `main.cpp`) | options; table of readings | load, parse, sweep once, or open everything and run | decides which of the other parts exist |
| RDS block synchronisation (`redsea_port`) | bit register, sync state | one bit at a time | inside the RDS worker |
| DSP blocks | arithmetic | one block at a time | between reading and the sinks |

What makes it hard:

* **Two-step requests.** A user stores a value and then a flag; the loop clears
  the flag and then loads the value. Three kinds of client do it at once.
* **Long passes.** The loop can be inside a sweep, a control transfer or a read
  when a stop, start, cancel, tune or SIGINT arrives.
* **Three copies of the frequency** (requested, shown to XDR clients, tuned).
* **Devices that vanish**, fail one transfer, or fail to reopen.
* **State that outlives its premise**: the scan's wide rate, saved frequency
  and PI state after a stop, a reconnect or a retune.
* **Bounded queues** between producers and consumers of different speed.
* **Byte streams** that TCP cuts anywhere, read by two line protocols and HTTP.
* **Registers with two writers**: the main loop and the REST thread set the gain.
* **Partial starts**: every resource that fails to open leaves others to close.

What each part must get right: no request lost or resurrected, the three
frequencies agree once requests have settled (main loop, XDR server); the
device is held exactly while it is used (session); a scan leaves no trace
(scan engine); every queue keeps order and never repeats a line (XDR server);
whole I/Q pairs are dropped (rings); everything recorded is written (WAV
writer); `stop()` returns (servers); a decoded group belongs to the station
tuned (RDS worker); a gain request reaches the device and the ladder settles
(gain); a command runs whole, once and in order (protocols); the program runs
with what was asked and gives back what it opened (start-up).

The lines where each hazard bites are listed in `PROJECT.json` under `hazards`.

## 2. The modules

| Module | Models | Runs | Theorems |
|---|---|---|---|
| `TunerControl` | requests of the clients and the REST thread, the main loop, session, scan engine and device | `control`, `scan`, `progress`, `reconnect` | `TunerControl_proof` |
| `LineLog` | abstract: what a reader of a bounded line queue is promised | through `XdrSessions` | |
| `XdrSessions` | the XDR server's threads, sessions and line queues, and `stop()`; implements `LineLog` | `lines` | `XdrSessions_proof` |
| `RdsPath` | a retune's way through mute, RDS worker and PI debounce: main loop, worker thread, XDR server | `rds` | `RdsPath_proof` |
| `IqSource` | the I/Q stream from the three backends to the reader, and the scan engine's settling | `iq` | `IqSource_proof` |
| `AudioPath` | the samples' way from the main loop through rings and threads to files and devices; opening and closing the sinks | `audio` | `AudioPath_proof` |
| `GainControl` | the gain registers and their two writers, the automatic ladder, the adaptive bandwidth | `gain`, `pump` | `GainControl_proof` |
| `Wire` | bytes to requests: the two XDR protocols and the REST port | `wire` | `Wire_proof` |
| `Startup` | options from file and command line, calibration, opening and closing all resources | `startup` | `Startup_proof` |

`MC*` modules fix symmetry sets and the values a `.cfg` file cannot spell
(records, streams, negative numbers); all other values are in the `.cfg` files.
The modules meet where one part hands over to the next: `Wire` ends at the
callbacks whose effect on the loop `TunerControl` and `GainControl` model,
`XdrSessions` has the threads around `Wire`'s sessions, `RdsPath` and
`AudioPath` take what `IqSource` delivers, and `Startup` decides which of them
exist.

### TunerControl

The unit of atomicity is one access to an atomic another thread can observe.
A user (a client thread or the REST thread) is at a place `upc`, the next store
of the command it is executing; the main loop is at a place `mpc` in its pass
through `Application::run`. `req` is `XdrCommandState` with the start and stop
flags, `xdr` the members of `XDRServer` the loop shares, `loop`, `scan` and
`dev` the locals of the loop, the scan engine and the device. `hist` holds
history variables that no action's guard reads.

* Users: `LineTune` ... `RestTune` and `StoreFrequency`, `TunePending` are the
  three stores of a tune; `Start`, `XdrStop`, `PlainStop`, `FmdxClose` the
  start and stop callbacks; `XdrScan...`, `XdrCancel` the scan commands. A
  session's command lock makes FM-DX commands exclude each other (`MutexFree`).
* Main loop, in the order of the code: `TakeStop`, `TakeStart`, scan control,
  `TakeFrequency`/`Retune`/`PublishFrequency`, `TakeBandwidth`,
  `SwitchScanRate`, the sweep (`SweepTune`, `Fallback`, `EndSweep`), the
  restore, and `ReadBlock`/`ReadNothing`/`Reconnect`.
* The device (external) can vanish, come back, and fail single transfers.

Abstractions: a frequency is a value; every centre of a sweep is one value; a
sweep's spectrum is the choice whether channels were left uncovered; the gain,
its reassert and the automatic gain and bandwidth steps are `GainControl`'s;
volume, deemphasis, mono and blend requests are left out (no property reads
them); the start and retune mutes are one constant,
counted in blocks; the read-failure count saturates at its limit; the two
stores of `restoreAfterScan` and its tune are one step, since nothing else
stores the requested frequency in between on that thread and the users'
interleavings around it are kept by the steps before and after.

### XdrSessions and LineLog

A line is its sequence number. `place` is where each session's thread is,
`acceptor` and `stopping` where the accept thread and `stop()` are; `queue`,
`nextSeq` are the two deques and their counters under their mutexes; `lastSeq`
and `lines` are locals of `handleXdrClient`. A poll is `TakeLines` for the RDS
queue and, after its lines were sent one by one (`SendLine`), `TakeLines` for
the scan queue. `PushGroup` pushes the two lines of a decoded group under one
lock. Commands are traffic that delays a poll; their effect is `TunerControl`.
A send is one step that succeeds or fails; a send that blocks for ever on a
peer that never reads is outside the model, as are the periodic signal line's
contents and a second `start()`.

`LineLog` knows readers and numbered lines only: a reader joins at the end of
the log, fetches up to the end, skips only what no queue of that capacity can
still hold, and is delivered the rest one at a time. `KeepsLinePromise` says
that `XdrSessions` implements it under the mapping at the end of the module:
`delivered` is the line before the first one still to be sent.

### RdsPath

A station stands for its frequency, its signal and its PI; a block is numbered
and carries the station it was demodulated from, or `None` when it was muted.
The main loop's retune is split at what another thread can see: `Retune` (or
`RetuneFails`), `ClearPi` (under the RDS mutex, and only when `m_frequency`
differs), `PublishFrequency` with the mute, `RaiseReset` (an atomic), and
`ClearQueue` (under the queue's mutex). The worker is at `test`, between test
and sleep with the mutex held (`wait`), `asleep`, at `decode` or at `report`.
`stop()` is three steps, because its notification takes no lock.

What the demodulator makes of its bits is a choice (`Decodable`): a group whose
block A is intact comes from a station with bits in the register, a corrected
one may say anything, and a block A may be missing. The device (external) may
still hold `Backlog` blocks of the old station after a retune; that the mute
covers them (`BacklogAssumption`) is an assumption about a loop that keeps up
with the device. A block's telemetry, `RdsWorker::start` and the reset at the
end of a scan are left out.

### IqSource

The stream is numbered, so order, loss and alignment can be stated: element
`n` is the `n`-th byte captured (I before Q), or the `n`-th sample for the
SDRplay. `UsbCallback` and `Ingest` begin a callback, which holds the lock
while `Put` stores its elements one by one; the three `Read...` actions are
`readIQ` at the moment its wait ends, so that any amount may be there, as after
a timeout. `ScanRetune` is a sweep's tune and flush; `Settles` follows what the
scan engine has still to discard. `SetScanWideMode` and `Reconnect` empty the
ring. `out`, `next`, `got` and `lost` are history.

### AudioPath

Four sinks share one shape: a ring under a mutex, filled by the main loop and
emptied by a thread or, with CoreAudio, by a callback of the driver. `recorder`
and `speaker` are `AudioOutput`, `mpxFile` is `WavWriter`, `mpxPlayer` is
`MpxAudioOutput`. Samples are numbered, so that order, loss and the pairing of
left and right can be stated. `main` walks through the sinks with `todo`: it
opens them (`OpenStep`; the first failure closes what is open, in the order of
`Undo`), pushes each block (`Push`, with the overflow rule the four
`enqueue...` functions share: the oldest go, of the ring and of the block) and
closes them (`StopThread`, `Join`). Threads are at `wait`, `write` or `done`;
one may find its ring empty again and again, so no step is lost by leaving out
the wait's time limit. `GaveUp` is a short `fwrite` or the 4 GiB limit.

Abstractions: the volume, the resampler (a mono block may lose or gain a
sample) and the sample formats; an underrun of ALSA, which repeats a chunk on
the device, counts the chunk once; the driver's callback cannot run once the
sink is closed. A writer thread that gave up leaves its running flag set: the
ring then fills and drops until the file is closed.

### GainControl

`session` is `tunerActive`, `rtlConnected` and whether the device behind them
is alive. `mode`, `flags`, `pendAGC`, `pendGain` are the requests of
`XdrCommandState`, stored by an XDR handler value first (`Stores`), and by the
ladder (`LoadRung`, `StoreRung`) on the main thread. `Writes` is the list of
registers `applyRtlGainAndAgc` writes for each of the four strategies; the loop
loads (`LoadIms`, `LoadGain`) and writes them one by one, and `RestWrites`
comes in between from the other thread. `signal` is what is received: the
channel's level at 0 dB, what neighbours add in the band (`excess`), the SNR;
it changes at any time. Timers of the hysteresis elapse by `Tick`. The device
may vanish (`Loss`); then a read brings nothing, and the session connects again
or is left disconnected under an active tuner (`ReadNothing`). `TakePending`
clears the flags in that state too, as the code does: what they asked for
reaches the registers when the next connect programs them all.

Abstractions: the share of clipped samples is a function of the total level;
samples keep coming, and a block measured reflects the registers as they are
(the timers are far longer than what is buffered); a device that is there does
what a write says. A client's bandwidth is stored value first (`AskBandwidth`,
`BandwidthFlag`), and the loop takes the flag before it loads the value
(`TakePending`, `SetBandwidth`). The value and flag the loop stores itself, of a
rung or a bandwidth, are one step: only the loop takes those flags, so it
cannot see one of the two stores without the other.

### Wire

A byte is a string; a number or a parameter is one byte. `stream` is what a
client means to send, `Arrive` and `Close` are the client and the network,
`at` is what the server has received. `Peek` tells the protocols apart,
`Handshake` and `Login` use `recvLine`, the command loops `Receive` segments of
any length up to `Chunk` and execute lines. `XdrCalls` and `FmdxCalls` say what
a line asks for after clamping, `applyParams` what parameters ask for: the REST
server applies those of the query string (`Query`) and then those of the body,
whatever the method and path, unless it is asked for the status or for its
options. The first byte of a REST stream stands for method and path, what
stands between it and the header's end is the query or another header. What the
code does in a loop over characters or parameters is said by the positions at
which something is found (`Nth`, `Lines`, `applyParams`). The REST
server's connections are served one at a time by one thread, so one connection
is enough. Left out: what is answered, and the arguments of a scan.

### Startup

An item of the command line, or a line of the file, is a record `[key, well,
value]`; the sections, `Flags` and `Valued` give each key its values. A few keys
stand for several that behave alike, and any other key is an option the parser
refuses (`Known`). The program then calibrates
(`OpenSweep`, `Measure`, `EndSweep`) or opens the resources in `Order`; a
failure that is fatal closes what `Closes` lists. A resource is a device, file,
server or thread. `Interrupt` comes at any time; `Shutdown` is the order of the
end of `Application::run`. What is set later overrides what was set before
(`++`); the element of a sorted table that the code takes for a percentile is
found by counting the readings below it (`Percentile`).

## 3. The runs

| Run | Question | Bounds, and why they suffice |
|---|---|---|
| `control` | do tune, start and stop requests of three kinds of client survive the two-step protocol? | four commands let each of the three users be half way through one while a fourth completes; three frequencies separate requested, shown and tuned; symmetry over the two interchangeable ones is sound since no property orders them and none is temporal |
| `scan` | does a scan leave the receiver as it found it, and does everyone know the IQ rate? | three commands: a scan, its cancel and one request, or a scan, a stop and a start, that land anywhere in it; one unplug; one centre per sweep (more only repeat `SweepTune`) |
| `progress` | does everything that must happen happen? | two commands, one unplug, an interrupt at any time |
| `reconnect` | is a device that comes back opened again? | violation: the smallest instance that shows it |
| `lines` | do sessions deliver the line log, and does `stop()` end everything? | two sessions; capacity 2 with 3 RDS lines overflows while a session holds fetched lines; the scan queue uses the same operators |
| `rds` | is the worker given the tuned station only, in order; is the PI debounced; does the worker stop? | two stations; a queue of two overflows with three blocks; one tune by either kind of client; a window of two with three groups overwrites an entry and its error bit |
| `iq` | does the stream stay whole and in order, and is what a sweep measures fresh? | a ring of four bytes (two samples) overflows, wraps and is read in part with six samples; at most three samples in flight, as many as are settled |
| `audio` | is every sample played, recorded or counted as dropped; are files true and closed; does a shutdown end? | rings of 4 with blocks of 1 and 3 frames: a ring overflows, a stereo block is larger than a ring; limit 5 is reached in the middle of a file; one fault of any kind, one clear; two sinks at a time suffice since sinks share only the main thread |
| `gain` | does a gain request reach the registers; do ladder and bandwidth settle? | all four strategies, both tables; two inputs put a command and a REST call, a stop, a loss or a new signal in every order, with every connect and reconnect free to fail; longer sequences are left to the theorem |
| `pump` | does the ladder settle beside a strong neighbour? | violation: no inputs at all, only the signal |
| `wire` | do lines and bodies survive TCP; do sessions end clean; does `stop()` end them? | receives of up to 2 bytes with lines of up to 3 put every cut and the overlong line within reach; 22 streams, one per case of login, line, argument and request |
| `startup` | does the program run with what was asked and give everything back; is the calibration sound? | two items and one line, or one and two, decide every precedence; one fault; three readings from below the noise to saturation |

`scan` and `progress` have no glitches (`MaxGlitches = 0`): an SDRplay that
refuses the switch of rate without being lost leaves rate and belief different,
which the code only warns about, so `DemodRate` and `SweepRateKnown` are
claimed for devices that obey or vanish. `SweepRateKnown` says when the sweep
knows the rate of the device and when it does not: it is wrong after a stop and
a start under a wide scan (`hist.restarted`), right again once that scan has
ended, and right in every other case. The run reaches both sides. `SettleMuted` is claimed without
automatic reconnects: a reconnect inside `readIqSamples` does not restart the
mute. `ScanRestores` has the premise that no request, stop or device loss
landed in the scan (`hist.clean`).

With a window of two the run `rds` cannot reach the state "likely" of
`evaluatePiState`, which takes three entries; lemma `DebounceRule` of
`RdsPath_proof` covers all five states for every window. `MeasuredFresh` is
claimed for the RTL-SDR only, whose ring is flushed, and unless settling was
given up after `EmptyLimit` empty reads; that the settle window is as long as
the transfers in flight (`SettleAssumption`) is what the comment at
`scan_engine.cpp:76` says it is for.

The `gain` run's signals have no neighbour that is strong outside the channel
and weak in it; `pump` has nothing else. `GainApplied` says nothing while a
register that REST has written since the loop last began stands: that such a
value lasts until the next retune or reassert is what the code intends.
`WindowSound` has the premise that at least half of the readings are clean;
with almost all of them saturated the recommended floor can exceed the ceiling
(`calibration.cpp:238`). `EndsClean` also covers the early return of an
FM-DX session on an overlong complete line (`xdr_server.cpp:744`), which makes
no stop callback: it cannot be reached because a receive of at most 255 bytes
is checked against 1024 first (`Short` of `Wire_proof` shows it for all sizes
in that order), and the mutant with a larger buffer reaches it. `Faithful` says
nothing of a session that is sent a NUL byte, nor of a body beyond the limit of
a request, which the code cuts.

Every property of a passing run has a mutant in `PROJECT.json`: a plausible bug
in one mapped definition that makes the run fail.

## 4. Fairness

`TunerControl`: weak fairness of the main loop (a sequential thread that never
waits on anybody), of each user in the middle of a command (its stores do not
block), and of a device that was pulled out being plugged back in; no one is
obliged to send a command or interrupt. `XdrSessions`: weak fairness of the
accept thread, of `stop()` and of each session thread as far as it does not
depend on its peer: authentication, handshake and commands have none, so a
silent peer is allowed, and the receive timeout of an XDR or FM-DX session is.
`RdsPath`: weak fairness of the worker, whose wait has a time limit and whose
decoder reports finitely many groups of a block, and of a main loop in the
middle of a retune or a stop. `AudioPath`: weak fairness of the main thread
while it opens, pushes and closes, and of each sink's thread, whose waits have
a time limit and whose writes end; the driver's callbacks have none.
`GainControl`: of the loop, of handlers that have begun, and of the timers; no
command, REST call or change of the signal is owed, and no connect need
succeed. `Wire`: of the server's
thread only; a client may be silent, cut off or gone. `IqSource` and `Startup`
have no liveness property and no fairness.

## 5. What is proved

For every set of users and clients, all frequencies, capacities and bounds:

* `TunerControl_proof`: `TypeCorrect`; `StopWinsAlways` (by the places at which
  an older start could still be held); `IdleDisconnected` (the tuner is idle
  only at places before a connect, after the disconnect); `XdrAlwaysAgrees` and
  `TunedAlwaysAgrees` from `TuneInv`, which adds to the two agreements what
  each place of the loop between taking a request and publishing it knows about
  the target, since neither agreement is inductive there; `SettleAlwaysMuted`
  (without reconnects) from `MuteInv`.
* `XdrSessions_proof`: `AllJoined` from `PlaceInv` (every running session is in
  the registry or among the threads taken, and the accept thread is over before
  they are taken); `TypeCorrect`; and `LinesKeepPromise`, the refinement. Its
  invariant `SessionInv` says that a queue is a run of consecutive numbers that
  ends at the newest line and is complete or full (`EndsAt`, `Holds`), and that
  what a session has fetched and not sent is a run that ends at its position.
  The lemmas `PushedRun`, `NewerRun`, `RunTail` say what the three operations
  on a run do; then each kind of step is shown to publish, join, fetch,
  deliver, leave or stutter.

* `RdsPath_proof`: `TypeCorrect`, and `QueueFresh` from `FreshInv`: what the
  device holds beyond the blocks still to be muted is from the station tuned,
  except between the tune and the mute, when the queue is about to be cleared.
* `IqSource_proof`: `TypeCorrect`, `RingStream`, `WholePairs` and
  `ReadsContinue` from one invariant. `RingIsStream` alone is inductive up to
  the meaning of a full ring (`Owned`); `WholeSamples` needs `Aligned`, the
  parities of what is in flight, stored and kept back, which hold in the middle
  of a callback as well; `Continuity` needs `Sequel`, that everything between
  the last read and the oldest element still readable is lost.

* `GainControl_proof`: `SpecGainApplied`. `GainApplied` is not inductive: while
  the loop is anywhere but at its top the registers may differ. The invariant
  adds `OnItsWay` (a request that is not in the registers has its flag still
  set, or is still about to be set by the handler that stored the value) and
  `Partly` (what the loop still has to write is the end of what the requests
  ask for now, and the registers before it are right), unless REST overrode
  them or such a flag will make the loop begin again.
* `TunerControl_proof`, scans: `ScanAlwaysRestores` from `ScanInv` and
  `TuneInv`: as long as nobody interfered with a scan, nobody is in the middle
  of a request, what the engine saved is what was requested when it began, and
  the bandwidth in force is the one before it wherever the restore is behind the
  loop (`Undisturbed`). `DemodRateKept` from `RateInv`: the device is at the
  wide rate only while the engine's flag for it stands, and that flag is down
  wherever blocks are read. `SweepRateKept` from `SweepInv`: the rate the engine
  remembers is the device's, unless the device was restarted under it; then the
  engine remembers the wide rate and the device is decimated.
* `RdsPath_proof`, the rest: `FeedContinuous`, an action property, from
  `Numbered` (the queue ascends behind the block in hand, and every number that
  is neither fed nor queued is lost); `PiIsDebounced` from `PiInv`: ring and
  error bits mirror the last `Window` groups heard (`Mirrors`), wherever the
  write position is, and the PI shown is that of the last confirmed one
  (`ShowsLast`).
* `IqSource_proof`, the rest: `FreshMeasurements` from `Fresh`: the oldest
  element a read can still return is at most twice as many elements older than
  the retune as the scan engine has samples to discard.
* `AudioPath_proof`: `NoSampleUnseen`, `RecordingsTrue` and `AllClosed` from
  `IInv`: the samples given out, in hand, waiting and lost make up all that were
  offered, each once and in order (`Streams`); stereo comes in whole frames
  (`Frames`); a thread lives while its handle is open (`Threads`); a writer
  leaves its ring empty or has given up, and its header tells the size from then
  on (`Recorded`); what the main thread has still to open or close covers every
  open handle (`Covered`).
* `Startup_proof`: `ProgramGivesBack` from `Held` (what is open is among the
  resources the program has come to, and once it is ending, among those it is
  about to close); `RunsAsAsked` from `Heeded` (the options so far are what the
  lines and items so far say); `CalibrationSound`: a percentile exists, is one
  of the readings, and a higher one is no smaller, all by counting.
* `Wire_proof`: `SessionsEndClean` from `Tidy` and `Short`: no stretch without a
  line break is ever longer than `LineLimit`, since a receive brings less, so
  the exit for an overlong line is never taken. `RequestsFaithful` from
  `Ordered`: what was executed are the lines of the text received that end at
  some break, and the buffer is the text behind it. `Grow` (text that arrives
  later changes no line already there) and `NextLine` (the first line of what
  is left is the next line of the text) carry it through receives and
  executions. For REST, `Posted` says that the buffer is the beginning of the
  stream, and `SameLength` that the beginning of a stream up to the end of its
  header declares what the whole stream declares. That the values a callback is
  given are those it handles follows from the type of `calls`.

So every invariant and every action property that a run checks is also proved.

Assumptions are the `ASSUME`s of the modules (disjoint user sets, positive
capacities and limits, an even ring, a mute that covers the backlog, a settle
window that covers the transfers in flight, a receive shorter than the longest
line), and two premises that are written into theorems because a run
restricts itself to them too: `SettleAlwaysMuted` has no reconnects, and
`DemodRateKept` and `SweepRateKept` have `TransfersSucceed` (a device obeys or
vanishes, section 3).

A recursive definition is avoided where a theorem depends on it, and what would
be an induction over data is an argument by the least counterexample (lemma
`Least`, from the well-foundedness of `<`): so the k-th position of a set is
shown to exist (`NthExists`) and the first occurrence of a byte to be first.

Only model-checked: the liveness properties `SettlesTuned`,
`DeadHandleReleased`, `CancelEndsScan`, `ShutdownCompletes`, `StopReturns` (of
three modules), `CatchesUp`, `ShutdownReturns` and `Settles`, since the prover
has no rule for fairness and `ENABLED`.

## 6. Where code and documentation disagree

Two runs show a disagreement (`findings` in `PROJECT.json`):

* `reconnect`: one failed reconnect is the last, against "Reconnect
  automatically if the device drops" (`USER-MANUAL.md:215`).
* `pump`: the ladder's two thresholds are compared with levels of different
  bandwidth, so the dead-band of `auto_gain_policy.h:16-18` does not hold beside
  a strong neighbour.

Seen while modelling, without a run of its own:

* A start that reaches the loop in the same pass as the stop before it is
  thrown away (`application.cpp:930`), although the comment at `:941` says that
  a client can restart after an explicit stop.
* A REST retune that fails on a lost device is applied by the reconnect, which
  does not tell the XDR server (`tuner_session.cpp:83`).
* A stop and a start during a continuous SDRplay scan leave the sweep computing
  with the wide rate on a decimated device until that scan ends
  (`runtime_loop.cpp:97-107`). The run `scan` reaches it, and `SweepRateKnown`
  states it as the one case in which the sweep does not know the rate.
* A cancel is taken after the start in one pass (`scan_engine.cpp:45`), so one
  that is older than a scan can end it; `CancelEndsScan` says only that a cancel
  is not lost.
* A connection that is accepted just before `XDRServer::stop` and registered
  after it shut the sockets down keeps the join waiting while its client is
  silent (`xdr_server.cpp:655`), which `StopReturns` of `XdrSessions` excepts;
  `RestServer::stop` waits for a silent client in the same way
  (`rest_server.cpp:238`), which `StopReturns` of `Wire` excepts.
* `--calibrate -g 30` hands dB to a function of tenths of dB (`main.cpp:25`).
* A REST body cut short by its client is applied as far as it came
  (`rest_server.cpp:317`); a NUL byte drops the rest of its segment
  (`xdr_server.cpp:727`).

## 7. What is not modelled, and the plan

Not modelled: the DSP blocks (floating-point arithmetic without control state),
the vendored RDS demodulator and block synchronisation (computations of one
thread over long bit streams), the sound and USB libraries themselves
(external), answers, status documents and logging.

Next, most important first:

1. A bounded FIFO that counts what it drops as the abstract specification of
   `AudioPath`'s rings and of the queue of `RdsPath`, with the refinements
   proved from `Streams` and `Numbered`.
2. The steps the liveness properties rest on, as action properties: what each
   pass of the loop, each poll and each `stop()` leaves closer to its end.
3. The channel arithmetic of the scan engine as functions, checked against
   "every requested channel is measured once".
