------------------------------ MODULE MCStartup ------------------------------
(* Command lines and files for TLC: every way an option is given, and how  *)
(* each kind of value is refused.                                          *)
EXTENDS Startup

Flag(key) == [key |-> key, well |-> TRUE, value |-> TRUE]
Value(key, value) == [key |-> key, well |-> TRUE, value |-> value]
Bad(key) == [key |-> key, well |-> FALSE, value |-> 0]

MCItems ==
  {Flag("help"), Flag("unknown"), Flag("listAudio"), Flag("noAudio"), Flag("autoStart"),
   Flag("calibrate"), Value("config", "ini"), Value("source", "sdrplay"),
   Value("rate", 300), Value("freq", 100000), Value("freq", 101000), Bad("gain"),
   Value("mpxWav", "f"), Value("iq", "f"), Value("mpxDevice", "d"),
   Value("device", "d"), Value("restPort", 0), Value("restPort", 8080)}

MCLines ==
  {Value("source", "rtl_tcp"), Value("source", "none"), Value("freq", 99000),
   Value("speaker", FALSE), Value("volume", 200), Value("restPort", 80),
   Value("restOn", TRUE), Bad("gain"), Value("device", "d")}

MCBand == 64000..108000
MCRates == {256, 1024, 2048}
MCSweep == <<87500, 87600, 87700>>
MCReadings == {-40, -8, -6, -2}
MCSaturation == -6
===============================================================================
