------------------------------ MODULE AudioPath ------------------------------
(***************************************************************************)
(* What becomes of the demodulated samples: the main loop pushes every     *)
(* block into the rings of the sinks the options name, and a thread or a   *)
(* driver callback of each sink takes it from there.                       *)
(*   recorder   AudioOutput's WAV file, stereo                             *)
(*   speaker    AudioOutput's device, stereo                               *)
(*   mpxFile    WavWriter, the multiplex in a file or a pipe, mono         *)
(*   mpxPlayer  MpxAudioOutput, the multiplex on a device, mono            *)
(* The samples of a sink are numbered; in stereo the odd ones are left.    *)
(***************************************************************************)
EXTENDS Integers, Sequences, SequencesExt

CONSTANTS
  Selections,    \* the sets of sinks the options may name
  Backends,   \* the sound systems: "alsa", "coreaudio", "winmm"
  Capacity,   \* samples a ring holds
  Chunk,      \* samples a thread takes at a time
  Limit,      \* samples that fit into a WAV file (4 GiB)
  BlockSizes, \* frames of a block
  MaxSamples, \* bound: samples offered to a sink
  MaxFaults,  \* bound: operations on files and devices that fail
  MaxClears   \* bound: retunes, which clear the speaker's ring

Sinks == {"recorder", "speaker", "mpxFile", "mpxPlayer"}
Files == {"recorder", "mpxFile"}
Stereo == {"recorder", "speaker"}

ASSUME SelectionsAssumption ==
  /\ Selections \subseteq SUBSET Sinks
  /\ Backends \subseteq {"alsa", "coreaudio", "winmm"}
ASSUME RingAssumption ==
  /\ Capacity \in Nat \ {0} /\ Capacity % 2 = 0
  /\ Chunk \in Nat \ {0} /\ Chunk % 2 = 0
ASSUME BoundsAssumption ==
  /\ Limit \in Nat /\ BlockSizes \subseteq Nat \ {0}
  /\ MaxSamples \in Nat /\ MaxFaults \in Nat /\ MaxClears \in Nat

VARIABLES
  options,  \* what the command line asks for, and the machine it runs on
  main,     \* where the main thread is
  todo,     \* the sinks it still has to open, to push to or to close
  frames,   \* the frames of the block it holds
  faults, clears, \* what is left of the bounds
  handle,   \* the file or device of each sink: "closed", "open", "ended"
  running,  \* its thread's running flag
  worker,   \* where its thread is; "callback" is a thread of the driver
  ring,     \* the samples waiting, oldest first
  chunk,    \* the samples its thread has taken
  size,     \* m_dataSize: the samples written, as the writer counts them
  header,   \* the samples the file's header announces
  headers,  \* history: how often a header was written
  fatal,    \* m_fatalError: the writer has given up
  fed,      \* history: samples offered
  out,      \* history: the samples the file or the device was given
  lost      \* history: samples dropped

bounds == <<faults, clears>>
thread == <<running, worker, chunk>>
file == <<size, header, headers, fatal>>
flow == <<fed, out, lost>>
sinks == <<handle, thread, ring, file, flow>>
vars == <<options, main, todo, frames, bounds, sinks>>

Unknown == -1  \* the sizes of a stream: 0xFFFFFFFF
Torn == -2     \* a header that was not written completely

Init ==
  /\ options \in [sinks : Selections, backend : Backends, sameDevice : BOOLEAN,
                  seekable : BOOLEAN]
  /\ options.sameDevice => {"speaker", "mpxPlayer"} \subseteq options.sinks
  /\ ~options.seekable => "mpxFile" \in options.sinks
  /\ main = "open" /\ todo = <<"recorder", "speaker", "mpxFile", "mpxPlayer">>
  /\ frames = 0 /\ faults = MaxFaults /\ clears = MaxClears
  /\ handle = [s \in Sinks |-> "closed"] /\ running = [s \in Sinks |-> FALSE]
  /\ worker = [s \in Sinks |-> "none"]
  /\ ring = [s \in Sinks |-> <<>>] /\ chunk = [s \in Sinks |-> <<>>]
  /\ size = [s \in Sinks |-> 0] /\ header = [s \in Sinks |-> 0]
  /\ headers = [s \in Sinks |-> 0]
  /\ fatal = [s \in Sinks |-> FALSE] /\ fed = [s \in Sinks |-> 0]
  /\ out = [s \in Sinks |-> <<>>] /\ lost = [s \in Sinks |-> {}]

-------------------------------------------------------------------------------
(* Opening the sinks, one after the other; the first failure undoes it all *)

(* Only a regular file can have its header patched; AudioOutput expects one*)
Seekable(s) == s = "recorder" \/ options.seekable

(* writeHeader, at the beginning of the file and again when it is closed.  *)
WriteHeader(s) ==
  /\ header' = [header EXCEPT ![s] = IF Seekable(s) THEN size[s] ELSE Unknown]
  /\ headers' = [headers EXCEPT ![s] = @ + 1]

(* What a failure closes, in the order of the code: of the sinks' own      *)
(* destructors, or of the calls before the return.                         *)
Undo(s) ==
  CASE s = "mpxFile" -> <<"speaker", "recorder">>
    [] s = "mpxPlayer" -> <<"mpxFile", "speaker", "recorder">>
    [] OTHER -> <<"mpxPlayer", "mpxFile", "speaker", "recorder">>

OpenFails(s) ==
  /\ main' = "close" /\ todo' = Undo(s)
  /\ UNCHANGED <<options, frames, clears, sinks>>

Opened(s, thr) ==
  /\ handle' = [handle EXCEPT ![s] = "open"]
  /\ running' = [running EXCEPT ![s] = thr # "callback"]
  /\ worker' = [worker EXCEPT ![s] = thr]
  /\ todo' = Tail(todo) /\ main' = IF todo' = <<>> THEN "run" ELSE "open"
  /\ UNCHANGED <<options, frames, bounds, chunk, ring, size, fatal, flow>>

SkipOpen(s) ==
  /\ s \notin options.sinks
  /\ todo' = Tail(todo) /\ main' = IF todo' = <<>> THEN "run" ELSE "open"
  /\ UNCHANGED <<options, frames, bounds, sinks>>

OpenFile(s) ==
  /\ s \in Files /\ s \in options.sinks
  /\ \/ WriteHeader(s) /\ Opened(s, "wait")
     \/ faults > 0 /\ faults' = faults - 1 /\ OpenFails(s)

(* The driver of CoreAudio pulls on a thread of its own; for the others    *)
(* the program starts one.                                                 *)
OpenCoreAudio(s) == options.backend = "coreaudio" /\ Opened(s, "callback")
OpenAlsa(s) == options.backend = "alsa" /\ Opened(s, "wait")
OpenWinmm(s) == options.backend = "winmm" /\ Opened(s, "wait")

(* No device of that name, or none that takes the format.                  *)
NoDevice(s) == faults > 0 /\ faults' = faults - 1 /\ OpenFails(s)

OpenDevice(s) ==
  \/ /\ OpenCoreAudio(s) \/ OpenAlsa(s) \/ OpenWinmm(s)
     /\ UNCHANGED <<header, headers>>
  \/ NoDevice(s)

OpenSpeaker(s) == s = "speaker" /\ s \in options.sinks /\ OpenDevice(s)

(* The live multiplex shares no device with the speaker.                   *)
Clash == "speaker" \in options.sinks /\ options.sameDevice

(* WinMM cannot play it.                                                   *)
OpenMpxPlayer(s) ==
  /\ s = "mpxPlayer" /\ s \in options.sinks
  /\ IF Clash \/ options.backend = "winmm"
     THEN OpenFails(s) /\ UNCHANGED faults
     ELSE OpenDevice(s)

OpenStep ==
  /\ main = "open"
  /\ LET s == Head(todo)
     IN SkipOpen(s) \/ OpenFile(s) \/ OpenSpeaker(s) \/ OpenMpxPlayer(s)

-------------------------------------------------------------------------------
(* The main loop: one block to every sink that is open.                    *)

(* The multiplex comes first; AudioOutput::write records before it plays.  *)
StartBlock ==
  /\ main = "run"
  /\ \A s \in Sinks : fed[s] < MaxSamples
  /\ frames' \in BlockSizes
  /\ main' = "push" /\ todo' = <<"mpxFile", "mpxPlayer", "recorder", "speaker">>
  /\ UNCHANGED <<options, bounds, sinks>>

Block(s, n) == [i \in 1..n |-> fed[s] + i]

(* The oldest samples of a block larger than the ring, in whole frames.    *)
StartLate(s, n) == IF n >= Capacity THEN n - Capacity + 1 ELSE 0
Start(s, n) == IF n >= Capacity THEN n - Capacity ELSE 0

(* The oldest samples waiting, as many as the block needs.                 *)
Overflow(s, n) ==
  LET kept == n - Start(s, n)
      drop == Len(ring[s]) + kept - Capacity
  IN IF drop <= 0 THEN 0 ELSE IF drop < Len(ring[s]) THEN drop ELSE Len(ring[s])

(* The block has frames in stereo; a resampled multiplex has more or less. *)
Push(s) ==
  /\ main = "push" /\ Head(todo) = s /\ handle[s] = "open"
  /\ \E n \in IF s \in Stereo THEN {2 * frames} ELSE (frames - 1)..(frames + 1) :
       LET block == Block(s, n)
           start == Start(s, n)
           drop == Overflow(s, n)
       IN /\ ring' = [ring EXCEPT ![s] = SubSeq(@, drop + 1, Len(@))
                                           \o SubSeq(block, start + 1, n)]
          /\ lost' = [lost EXCEPT ![s] = @ \cup ToSet(SubSeq(ring[s], 1, drop))
                                           \cup ToSet(SubSeq(block, 1, start))]
          /\ fed' = [fed EXCEPT ![s] = @ + n]
  /\ todo' = Tail(todo) /\ main' = IF todo' = <<>> THEN "run" ELSE "push"
  /\ UNCHANGED <<options, frames, bounds, handle, thread, file, out>>

SkipPush(s) ==
  /\ main = "push" /\ Head(todo) = s /\ handle[s] # "open"
  /\ todo' = Tail(todo) /\ main' = IF todo' = <<>> THEN "run" ELSE "push"
  /\ UNCHANGED <<options, frames, bounds, sinks>>

(* A retune or a stop drops what the speaker has not played.               *)
ClearRealtimeQueue ==
  /\ main = "run" /\ clears > 0 /\ clears' = clears - 1
  /\ lost' = [lost EXCEPT !["speaker"] = @ \cup ToSet(ring["speaker"])]
  /\ ring' = [ring EXCEPT !["speaker"] = <<>>]
  /\ UNCHANGED <<options, main, todo, frames, faults, handle, thread, file, fed, out>>

Quit ==
  /\ main = "run"
  /\ main' = "close" /\ todo' = <<"mpxPlayer", "speaker", "recorder", "mpxFile">>
  /\ UNCHANGED <<options, frames, bounds, sinks>>

-------------------------------------------------------------------------------
(* The threads.  Every wait of theirs has a time limit, so a thread looks  *)
(* at its ring and its running flag again and again.                       *)

Least(a, b) == IF a < b THEN a ELSE b

Take(s, n) ==
  /\ chunk' = [chunk EXCEPT ![s] = SubSeq(ring[s], 1, n)]
  /\ ring' = [ring EXCEPT ![s] = SubSeq(@, n + 1, Len(@))]
  /\ worker' = [worker EXCEPT ![s] = "write"]

(* A writer takes what is there, also after the program has begun to end;  *)
(* a player stops at once.                                                 *)
TakeChunk(s) ==
  /\ worker[s] = "wait" /\ ring[s] # <<>>
  /\ s \in Files \/ running[s]
  /\ Take(s, Least(Chunk, Len(ring[s])))
  /\ UNCHANGED <<options, main, todo, frames, bounds, handle, running, file, flow>>

ExitAtOnce(s) ==
  /\ worker[s] = "wait" /\ ~running[s]
  /\ worker' = [worker EXCEPT ![s] = "done"]
  /\ UNCHANGED <<options, main, todo, frames, bounds, handle, running, ring, chunk,
                 file, flow>>
ExitDrained(s) == ring[s] = <<>> /\ ExitAtOnce(s)
ExitThread(s) ==
  /\ worker[s] = "wait" /\ ~running[s]
  /\ s \in Files => ring[s] = <<>>
  /\ worker' = [worker EXCEPT ![s] = "done"]
  /\ UNCHANGED <<options, main, todo, frames, bounds, handle, running, ring, chunk,
                 file, flow>>

(* fwrite of n samples; fewer than the chunk ends the recording.           *)
GaveUp(s, n) ==
  /\ out' = [out EXCEPT ![s] = @ \o SubSeq(chunk[s], 1, n)]
  /\ size' = [size EXCEPT ![s] = @ + n]
  /\ lost' = [lost EXCEPT ![s] = @ \cup ToSet(SubSeq(chunk[s], n + 1, Len(chunk[s])))]
  /\ fatal' = [fatal EXCEPT ![s] = TRUE]
  /\ worker' = [worker EXCEPT ![s] = "done"]

Fits(s) == size[s] + Len(chunk[s]) <= Limit

WriteData(s) ==
  /\ worker[s] = "write" /\ s \in Files
  /\ \/ /\ Fits(s)
        /\ out' = [out EXCEPT ![s] = @ \o chunk[s]]
        /\ size' = [size EXCEPT ![s] = @ + Len(chunk[s])]
        /\ worker' = [worker EXCEPT ![s] = "wait"] /\ UNCHANGED <<lost, fatal, faults>>
     \/ /\ Fits(s) /\ faults > 0 /\ faults' = faults - 1
        /\ \E n \in 0..(Len(chunk[s]) - 1) : GaveUp(s, n)
     \/ ~Fits(s) /\ GaveUp(s, 0) /\ UNCHANGED faults
  /\ chunk' = [chunk EXCEPT ![s] = <<>>]
  /\ UNCHANGED <<options, main, todo, frames, clears, handle, running, ring, header,
                 headers, fed>>

(* A device takes the chunk or loses it.                                   *)
Play(s) ==
  /\ worker[s] = "write"
  /\ \/ out' = [out EXCEPT ![s] = @ \o chunk[s]] /\ UNCHANGED <<lost, faults>>
     \/ /\ faults > 0 /\ faults' = faults - 1
        /\ lost' = [lost EXCEPT ![s] = @ \cup ToSet(chunk[s])] /\ UNCHANGED out
  /\ chunk' = [chunk EXCEPT ![s] = <<>>]
  /\ worker' = [worker EXCEPT ![s] = "wait"]
  /\ UNCHANGED <<options, main, todo, frames, clears, handle, running, ring, file, fed>>

(* After an underrun the chunk is played twice; that is counted once.      *)
PlayAlsa(s) == s = "speaker" /\ options.backend = "alsa" /\ Play(s)

PlayWinmm(s) == s = "speaker" /\ options.backend = "winmm" /\ Play(s)

PlayMpx(s) == s = "mpxPlayer" /\ Play(s)

(* CoreAudio asks for a number of frames and gets whole ones.              *)
Render(s, n) ==
  /\ n > 0
  /\ out' = [out EXCEPT ![s] = @ \o SubSeq(ring[s], 1, n)]
  /\ ring' = [ring EXCEPT ![s] = SubSeq(@, n + 1, Len(@))]
  /\ UNCHANGED <<options, main, todo, frames, bounds, handle, thread, file, fed, lost>>

RenderSpeaker ==
  /\ worker["speaker"] = "callback"
  /\ \E wanted \in 1..Chunk :
       Render("speaker", 2 * Least(Len(ring["speaker"]) \div 2, wanted))

RenderMpx ==
  /\ worker["mpxPlayer"] = "callback"
  /\ \E wanted \in 1..Chunk : Render("mpxPlayer", Least(Len(ring["mpxPlayer"]), wanted))

(* WinMM's thread ends early when it cannot prepare its buffers.           *)
PrepareFails(s) ==
  /\ worker[s] = "wait" /\ s = "speaker" /\ options.backend = "winmm" /\ out[s] = <<>>
  /\ faults > 0 /\ faults' = faults - 1
  /\ running' = [running EXCEPT ![s] = FALSE] /\ worker' = [worker EXCEPT ![s] = "done"]
  /\ UNCHANGED <<options, main, todo, frames, clears, handle, ring, chunk, file, flow>>

-------------------------------------------------------------------------------
(* Closing: tell the thread, join it, patch the header, close.             *)

NextToClose ==
  /\ todo' = Tail(todo) /\ main' = IF todo' = <<>> THEN "ended" ELSE "close"

SkipClose(s) ==
  /\ handle[s] # "open" /\ NextToClose
  /\ UNCHANGED <<options, frames, bounds, sinks>>

StopThread(s) ==
  /\ handle[s] = "open" /\ running[s]
  /\ running' = [running EXCEPT ![s] = FALSE]
  /\ UNCHANGED <<options, main, todo, frames, bounds, handle, worker, chunk, ring, file,
                 flow>>

FinalHeader(s) ==
  \/ WriteHeader(s) /\ UNCHANGED faults
  \/ /\ faults > 0 /\ faults' = faults - 1
     /\ header' = [header EXCEPT ![s] = Torn] /\ UNCHANGED headers

JoinNobody(s) ==
  /\ handle[s] = "open" /\ ~running[s]
  /\ handle' = [handle EXCEPT ![s] = "ended"]
  /\ NextToClose
  /\ UNCHANGED <<options, frames, bounds, thread, ring, file, flow>>
Join(s) ==
  /\ handle[s] = "open" /\ ~running[s] /\ worker[s] \in {"done", "callback"}
  /\ IF s \in Files /\ Seekable(s)
     THEN FinalHeader(s) ELSE UNCHANGED <<header, headers, faults>>
  /\ handle' = [handle EXCEPT ![s] = "ended"]
  /\ worker' = [worker EXCEPT ![s] = "none"]
  /\ NextToClose
  /\ UNCHANGED <<options, frames, clears, running, ring, chunk, size, fatal, flow>>

CloseStep ==
  /\ main = "close"
  /\ LET s == Head(todo) IN SkipClose(s) \/ StopThread(s) \/ Join(s)

-------------------------------------------------------------------------------
WorkerStep(s) ==
  \/ TakeChunk(s) \/ ExitThread(s) \/ WriteData(s)
  \/ PlayAlsa(s) \/ PlayWinmm(s) \/ PlayMpx(s)

PushStep == \E s \in Sinks : Push(s) \/ SkipPush(s)

Next ==
  \/ OpenStep \/ StartBlock \/ PushStep \/ ClearRealtimeQueue \/ Quit \/ CloseStep
  \/ RenderSpeaker \/ RenderMpx
  \/ \E s \in Sinks : WorkerStep(s) \/ PrepareFails(s)

(* Threads run, and no write to a file or a device blocks for ever.        *)
Spec ==
  /\ Init /\ [][Next]_vars
  /\ WF_vars(OpenStep) /\ WF_vars(PushStep) /\ WF_vars(CloseStep)
  /\ \A s \in Sinks : WF_vars(WorkerStep(s))

-------------------------------------------------------------------------------
WholeFrames(part) ==
  /\ Len(part) % 2 = 0
  /\ \A i \in 1..Len(part) : i % 2 = 1 => part[i] % 2 = 1 /\ part[i + 1] = part[i] + 1

Ascending(seq) == \A i \in 1..(Len(seq) - 1) : seq[i] < seq[i + 1]

(* Every sample offered to a sink is in its file or device, with its       *)
(* thread, in its ring, or was dropped because a ring was full, a retune   *)
(* cleared it or a write failed: exactly one of these, in order, left and  *)
(* right never apart.  A recording that gave up may end within a frame.    *)
StreamKept ==
  \A s \in Sinks :
    LET kept == out[s] \o chunk[s] \o ring[s]
    IN /\ Ascending(kept)
       /\ ToSet(kept) \cup lost[s] = 1..fed[s] /\ ToSet(kept) \cap lost[s] = {}
       /\ s \in Stereo => /\ WholeFrames(ring[s]) /\ WholeFrames(chunk[s])
                         /\ (WholeFrames(out[s]) \/ fatal[s])

(* A file that was closed holds all that was still in the ring when the    *)
(* program began to end, unless the writer had given up; its header, if it *)
(* can be patched and was, announces what the file holds, within the limit;*)
(* in a pipe no second header interrupts the samples.                      *)
RecordingTrue ==
  \A s \in Files : handle[s] = "ended" =>
    /\ ~fatal[s] => ring[s] = <<>> /\ chunk[s] = <<>>
    /\ header[s] \in {Len(out[s]), Torn, Unknown} /\ Len(out[s]) <= Limit
    /\ (header[s] = Unknown) <=> ~Seekable(s)
    /\ ~Seekable(s) => headers[s] = 1

(* However the program ends, after a failed start as well, no file or      *)
(* device stays open and no thread survives.                               *)
NothingLeftOpen ==
  main = "ended" => \A s \in Sinks : handle[s] # "open" /\ worker[s] = "none"

(* A shutdown, which joins every thread, comes to its end.                 *)
ShutdownReturns == main = "close" ~> main = "ended"
===============================================================================
