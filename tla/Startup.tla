------------------------------- MODULE Startup -------------------------------
(***************************************************************************)
(* From the command line to the running program and back: the options are  *)
(* made of defaults, an INI file and the command line; then the program    *)
(* sweeps the band once to calibrate its meter, or opens what the options  *)
(* name, serves until it is interrupted and gives everything back.         *)
(***************************************************************************)
EXTENDS Integers, Sequences, FiniteSets, FiniteSetsExt

CONSTANTS
  Items,      \* what a command line is made of: [key, well, value]; an item is
              \* not well when its value is missing or is not of its kind
  Lines,      \* the lines of an INI file, in the same form
  Band,       \* the frequencies of FM broadcast, in kHz
  Rates,      \* the I/Q rates supported
  Sweep,      \* the frequencies a calibration measures, one after the other
  Readings,   \* what it may measure, in dBFS
  Saturation, \* above this a reading is a saturated converter's
  MinClean,   \* the clean readings a percentile needs
  MaxItems, MaxInput, \* bounds: the length of the command line, and of the
              \* command line and the file together
  MaxFaults   \* bound: what cannot be opened or measured

ASSUME RatesAssumption == Rates \subseteq Nat \ {0}
ASSUME SweepAssumption ==
  /\ Sweep \in Seq(Nat) /\ Readings \subseteq Int /\ Saturation \in Int
  /\ MinClean \in Nat \ {0}
ASSUME BoundsAssumption == MaxItems \in Nat /\ MaxInput \in Nat /\ MaxFaults \in Nat

VARIABLES
  argv,     \* the command line
  autoFile, \* whether the working directory has an INI file
  pc,       \* the stage of the program
  lines,    \* history: the lines read
  config,   \* the settings of the file
  options,  \* AppOptions, made of the settings and the command line
  at,       \* the item, the frequency or the resource that comes next
  faults,   \* what is left of the bound
  opened,   \* the resources that are open, the threads that run
  closing,  \* what the function that returns still closes, in its order
  released, \* history: what it has closed
  running,  \* g_running
  rows,     \* the calibration's table
  exit      \* the exit code, -1 before the program has one

input == <<argv, autoFile>>
settings == <<lines, config, options>>
resources == <<opened, closing, released>>
vars == <<input, pc, settings, at, faults, resources, running, rows, exit>>

-------------------------------------------------------------------------------
(* Settings put over others: where both say something, theirs count.       *)
new ++ old ==
  [key \in DOMAIN new \cup DOMAIN old |-> IF key \in DOMAIN new THEN new[key] ELSE old[key]]

(* The settings, section by section: what the file may say.  A value that  *)
(* is not allowed is ignored; some numbers are moved into their range.     *)

Sources == {"rtl_sdr", "rtl_tcp", "sdrplay"}
Blends == {"soft", "normal", "aggressive"}
Ports == 0..65535
Clamp(v, low, high) == IF v < low THEN low ELSE IF v > high THEN high ELSE v

Defaults ==
  [source |-> "rtl_sdr", rate |-> 256, rtlDevice |-> 0, freq |-> 87500, gain |-> -1,
   speaker |-> TRUE, device |-> "", volume |-> 100, ppm |-> 0, lowLatency |-> FALSE,
   password |-> "", guest |-> FALSE, restOn |-> FALSE, restPort |-> 0,
   blend |-> "aggressive", blockSamples |-> 8192, agcMode |-> 2, deemphasis |-> 0,
   reconnect |-> TRUE, verbose |-> TRUE]

TunerSection == [source |-> Sources, rtlDevice |-> Nat, freq |-> Band, deemphasis |-> Int]
RtlTcpSection == [rate |-> Rates]
SdrSection == [gain |-> Int, ppm |-> Int, lowLatency |-> BOOLEAN]
AudioSection == [speaker |-> BOOLEAN, volume |-> Int, device |-> STRING]
XdrSection == [password |-> STRING, guest |-> BOOLEAN]
RestSection == [restOn |-> BOOLEAN, restPort |-> Ports]
ProcessingSection == [blend |-> Blends, blockSamples |-> Int, agcMode |-> Int]
OtherSections == [reconnect |-> BOOLEAN, verbose |-> BOOLEAN]

Allowed ==
  TunerSection ++ RtlTcpSection ++ SdrSection ++ AudioSection ++ XdrSection
    ++ RestSection ++ ProcessingSection ++ OtherSections

Moved == [volume |-> <<0, 100>>, ppm |-> <<-250, 250>>, blockSamples |-> <<1024, 32768>>]

FileSets(line) ==
  IF ~(line.well /\ line.value \in Allowed[line.key]) THEN <<>>
  ELSE [key \in {line.key} |->
          IF key \in DOMAIN Moved THEN Clamp(line.value, Moved[key][1], Moved[key][2])
          ELSE line.value]

-------------------------------------------------------------------------------
(* The command line: options without a value, and with one.                *)

OptionDefaults ==
  [wav |-> "", mpxWav |-> "", iq |-> "", mpxAudio |-> FALSE, mpxDevice |-> "",
   mpxRate |-> 0, mpxGain |-> -6, ownDevice |-> "", ownBlend |-> "",
   autoStart |-> FALSE, calibrate |-> FALSE]

Flags ==
  [audio |-> [speaker |-> TRUE], noAudio |-> [speaker |-> FALSE],
   lowLatency |-> [lowLatency |-> TRUE], noLowLatency |-> [lowLatency |-> FALSE],
   autoStart |-> [autoStart |-> TRUE], verbose |-> [verbose |-> TRUE],
   quiet |-> [verbose |-> FALSE], guest |-> [guest |-> TRUE],
   calibrate |-> [calibrate |-> TRUE], mpxAudio |-> [mpxAudio |-> TRUE]]

Names == STRING \ {""}
Valued ==
  [config |-> Names, rate |-> Rates, source |-> Sources, rtlDevice |-> Nat,
   freq |-> Band, gain |-> Int, wav |-> Names, mpxWav |-> Names, iq |-> Names,
   mpxDevice |-> Names, mpxRate |-> 8000..384000, mpxGain |-> (-24)..24,
   device |-> Names, password |-> Names, restPort |-> Ports, blend |-> Blends]

(* --device and --blend do not replace the file's setting, they override it*)
Field(key) == CASE key = "device" -> "ownDevice" [] key = "blend" -> "ownBlend"
                [] OTHER -> key

ItemSets(item) ==
  IF item.key \in DOMAIN Flags THEN Flags[item.key]
  ELSE [key \in {Field(item.key)} |-> item.value]
         ++ CASE item.key = "mpxDevice" -> [mpxAudio |-> TRUE]
              [] item.key = "restPort" -> [restOn |-> item.value # 0]
              [] OTHER -> <<>>

Known == DOMAIN Flags \cup DOMAIN Valued \cup {"help", "listAudio"}

(* What is no option, or an option whose value is not one of its kind.     *)
Refused(item) ==
  \/ item.key \notin Known
  \/ /\ item.key \in DOMAIN Valued
     /\ ~(item.well /\ item.value \in Valued[item.key])

-------------------------------------------------------------------------------
Resources == {"audio", "mpxWav", "mpxAudio", "iq", "xdr", "rest", "tuner", "worker",
              "sweep"}

Init ==
  /\ argv \in UNION {[1..n -> Items] : n \in 0..MaxItems}
  /\ autoFile \in BOOLEAN
  /\ pc = "load" /\ at = 1 /\ faults = MaxFaults
  /\ lines = <<>> /\ config = Defaults /\ options = Defaults ++ OptionDefaults
  /\ opened = {} /\ closing = <<>> /\ released = {}
  /\ running = TRUE /\ rows = <<>> /\ exit = -1

Ends(code) == pc' = "ended" /\ exit' = code
Fault == faults > 0 /\ faults' = faults - 1

-------------------------------------------------------------------------------
(* Reading the options                                                     *)

(* The command line is searched for --config before anything else is read. *)
Named == \E i \in 1..Len(argv) : argv[i].key = "config" /\ argv[i].well
HasFile == Named \/ autoFile

ReadLine ==
  /\ pc = "load" /\ HasFile /\ Len(argv) + Len(lines) < MaxInput
  /\ \E line \in Lines : /\ lines' = Append(lines, line)
                         /\ config' = FileSets(line) ++ config
  /\ UNCHANGED <<input, pc, options, at, faults, resources, running, rows, exit>>

NoSuchFile ==
  /\ pc = "load" /\ HasFile /\ lines = <<>>
  /\ Fault /\ Ends(1)
  /\ UNCHANGED <<input, settings, at, resources, running, rows>>

Loaded ==
  /\ pc = "load"
  /\ options' = config ++ OptionDefaults
  /\ pc' = "parse"
  /\ UNCHANGED <<input, lines, config, at, faults, resources, running, rows, exit>>

(* Mutant: --config brings in the file when its turn comes.                *)
TakeItemInTurn(item) ==
  /\ item.key \in DOMAIN Flags \cup DOMAIN Valued /\ ~Refused(item)
  /\ options' = (IF item.key = "config" THEN config ELSE ItemSets(item)) ++ options
  /\ at' = at + 1 /\ UNCHANGED <<pc, exit, faults>>
TakeItem(item) ==
  /\ item.key \in DOMAIN Flags \cup DOMAIN Valued /\ ~Refused(item)
  /\ options' = IF item.key = "config" THEN options ELSE ItemSets(item) ++ options
  /\ at' = at + 1 /\ UNCHANGED <<pc, exit, faults>>

ListAudio(item) ==
  /\ item.key = "listAudio"
  /\ (Ends(0) /\ UNCHANGED faults) \/ (Fault /\ Ends(1))

StopAtItem(item) ==
  /\ \/ item.key = "help" /\ Ends(0) /\ UNCHANGED faults
     \/ ListAudio(item)
     \/ Refused(item) /\ Ends(1) /\ UNCHANGED faults
  /\ UNCHANGED <<at, options>>

ParseItem ==
  /\ pc = "parse" /\ at <= Len(argv)
  /\ TakeItem(argv[at]) \/ StopAtItem(argv[at])
  /\ UNCHANGED <<input, lines, config, resources, running, rows>>

NoOutput ==
  /\ ~options.calibrate /\ ~options.speaker /\ ~options.mpxAudio
  /\ options.wav = "" /\ options.mpxWav = "" /\ options.iq = ""

Parsed ==
  /\ pc = "parse" /\ at > Len(argv)
  /\ IF NoOutput THEN Ends(1)
     ELSE pc' = (IF options.calibrate THEN "calibrate" ELSE "open") /\ UNCHANGED exit
  /\ at' = 1
  /\ UNCHANGED <<input, settings, faults, resources, running, rows>>

-------------------------------------------------------------------------------
(* Calibration                                                             *)

(* Connecting, the rate and the gain mode; what fails after the device is  *)
(* open closes it again.                                                   *)
OpenSweep ==
  /\ pc = "calibrate"
  /\ \/ opened' = {"sweep"} /\ pc' = "sweep" /\ UNCHANGED <<faults, exit>>
     \/ Fault /\ Ends(1) /\ UNCHANGED opened
  /\ UNCHANGED <<input, settings, at, closing, released, running, rows>>

(* A frequency that cannot be tuned or read is left out.                   *)
Measure ==
  /\ pc = "sweep" /\ at <= Len(Sweep)
  /\ \/ /\ \E dbfs \in Readings : rows' = Append(rows, [freq |-> Sweep[at], dbfs |-> dbfs])
        /\ UNCHANGED faults
     \/ Fault /\ UNCHANGED rows
  /\ at' = at + 1
  /\ UNCHANGED <<input, pc, settings, resources, running, exit>>

EndSweep ==
  /\ pc = "sweep" /\ at > Len(Sweep)
  /\ opened' = {} /\ released' = {"sweep"}
  /\ Ends(IF rows = <<>> THEN 1 ELSE 0)
  /\ UNCHANGED <<input, settings, at, faults, closing, running, rows>>

(* Readings are sorted, and one is taken at an index: it is the one that   *)
(* has as many before it, smaller ones and others of its value.            *)
Smaller(part, dbfs) == {i \in part : rows[i].dbfs < dbfs}
UpTo(part, dbfs) == {i \in part : rows[i].dbfs <= dbfs}
Stands(part, dbfs, index) ==
  Cardinality(Smaller(part, dbfs)) <= index /\ index < Cardinality(UpTo(part, dbfs))

Percentile(part, percent) ==
  CHOOSE dbfs \in {rows[i].dbfs : i \in part} :
    Stands(part, dbfs, (Cardinality(part) * percent) \div 100)

All == DOMAIN rows
Clean == UpTo(All, Saturation)

RecommendedFloor == Percentile(All, 5) - 3
Strong ==
  IF Cardinality(Clean) >= MinClean THEN Percentile(Clean, 95)
  ELSE Percentile(All, 95)
UnclampedCeil == Strong + 3
RecommendedCeil == Min({Strong + 3, Saturation})

-------------------------------------------------------------------------------
(* Application::run opens these in turn, if the options name them.         *)

Order == <<"audio", "mpxWav", "mpxAudio", "iq", "xdr", "rest", "tuner", "worker">>

Device == IF options.ownDevice # "" THEN options.ownDevice ELSE options.device

Wanted(r) ==
  CASE r = "mpxWav" -> options.mpxWav # ""
    [] r = "mpxAudio" -> options.mpxAudio
    [] r = "iq" -> options.iq # ""
    [] r = "rest" -> options.restOn /\ options.restPort # 0
    [] r = "tuner" -> options.autoStart
    [] OTHER -> TRUE

(* The live multiplex and the speaker are not mixed on one device.         *)
Clash == options.speaker /\ Device = options.mpxDevice

Closes(r) ==
  CASE r = "mpxWav" -> <<"tuner", "audio">>
    [] r = "mpxAudio" -> <<"tuner", "mpxWav", "audio">>
    [] r = "iq" -> <<"audio", "tuner", "mpxAudio", "mpxWav">>
    [] OTHER -> <<"tuner">>

MayFail(r) == r # "worker"
Fatal(r) == r \in {"audio", "mpxWav", "mpxAudio", "iq"}

OpenNext(r) ==
  \/ ~Wanted(r) /\ UNCHANGED <<opened, faults, pc, closing, exit>>
  \/ /\ Wanted(r) /\ ~(r = "mpxAudio" /\ Clash)
     /\ opened' = opened \cup {r} /\ UNCHANGED <<faults, pc, closing, exit>>
  \/ /\ Wanted(r) /\ MayFail(r)
     /\ IF r = "mpxAudio" /\ Clash THEN UNCHANGED faults ELSE Fault
     /\ IF Fatal(r) THEN pc' = "close" /\ closing' = Closes(r) /\ exit' = 1
        ELSE UNCHANGED <<pc, closing, exit>>
     /\ UNCHANGED opened

Open ==
  /\ pc = "open" /\ at <= Len(Order)
  /\ OpenNext(Order[at]) /\ at' = at + 1
  /\ UNCHANGED <<input, settings, released, running, rows>>

EnterLoop ==
  /\ pc = "open" /\ at > Len(Order) /\ pc' = "serve"
  /\ UNCHANGED <<input, settings, at, faults, resources, running, rows, exit>>

(* Clients start and stop the tuner while the loop runs.                   *)
StartStop ==
  /\ pc = "serve" /\ running
  /\ opened' = IF "tuner" \in opened THEN opened \ {"tuner"} ELSE opened \cup {"tuner"}
  /\ UNCHANGED <<input, pc, settings, at, faults, closing, released, running, rows, exit>>

Interrupt ==
  /\ pc \in {"open", "serve"} /\ running
  /\ running' = FALSE
  /\ UNCHANGED <<input, pc, settings, at, faults, resources, rows, exit>>

ShutdownTunerFirst ==
  <<"tuner", "worker", "rest", "mpxAudio", "audio", "mpxWav", "iq", "xdr">>
Shutdown == <<"worker", "rest", "mpxAudio", "audio", "mpxWav", "iq", "xdr", "tuner">>

LeaveLoop ==
  /\ pc = "serve" /\ ~running
  /\ pc' = "close" /\ closing' = Shutdown /\ exit' = 0
  /\ UNCHANGED <<input, settings, at, faults, opened, released, running, rows>>

CloseNext ==
  /\ pc = "close" /\ closing # <<>>
  /\ opened' = opened \ {Head(closing)} /\ released' = released \cup {Head(closing)}
  /\ closing' = Tail(closing)
  /\ UNCHANGED <<input, pc, settings, at, faults, running, rows, exit>>

Return ==
  /\ pc = "close" /\ closing = <<>> /\ pc' = "ended"
  /\ UNCHANGED <<input, settings, at, faults, resources, running, rows, exit>>

-------------------------------------------------------------------------------
Next ==
  \/ ReadLine \/ NoSuchFile \/ Loaded \/ ParseItem \/ Parsed
  \/ OpenSweep \/ Measure \/ EndSweep
  \/ Open \/ EnterLoop \/ StartStop \/ Interrupt \/ LeaveLoop \/ CloseNext \/ Return

Spec == Init /\ [][Next]_vars

-------------------------------------------------------------------------------
(* What the command line says last counts, then what the file says last    *)
(* that is allowed, then the default.                                      *)
Asked(field) ==
  LET items == {i \in 1..Len(argv) : argv[i].key # "config"
                                     /\ field \in DOMAIN ItemSets(argv[i])}
      said == {i \in 1..Len(lines) : field \in DOMAIN FileSets(lines[i])}
  IN IF items # {} THEN ItemSets(argv[Max(items)])[field]
     ELSE IF said # {} THEN FileSets(lines[Max(said)])[field]
     ELSE (Defaults ++ OptionDefaults)[field]

(* A program that gets beyond its options runs with what was asked, in     *)
(* whatever order the options stood and wherever --config was among them.  *)
AsAsked ==
  pc \in {"calibrate", "sweep", "open", "serve"} =>
    \A field \in DOMAIN options : options[field] = Asked(field)

(* Whatever could not be opened and whenever the program was interrupted,  *)
(* at its end nothing is open and no thread runs; and what a thread calls  *)
(* is not closed under it: REST handlers the tuner and the sound, the RDS  *)
(* worker and the main loop the XDR server.                                *)
GivesBack ==
  /\ pc = "ended" => opened = {}
  /\ "rest" \in opened => {"tuner", "audio"} \cap released = {}
  /\ "worker" \in opened => "xdr" \notin released

(* When at least half of the readings of a calibration, and at least       *)
(* MinClean, are clean, whatever the others are, the window it recommends  *)
(* is not empty and ends below saturation (calibration.cpp:190-248).       *)
WindowSound ==
  /\ pc = "ended" /\ released = {"sweep"}
  /\ Cardinality(Clean) >= MinClean /\ 2 * Cardinality(Clean) >= Len(rows)
  => RecommendedFloor < RecommendedCeil /\ RecommendedCeil <= Saturation
===============================================================================
