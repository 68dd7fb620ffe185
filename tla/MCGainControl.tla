---------------------------- MODULE MCGainControl ----------------------------
(* Configurations for TLC: the two gain tables, a fixed gain, the SDR++    *)
(* strategy, the RSP's own AGC, and the two adaptive bandwidths.           *)
EXTENDS GainControl

Plain == [mode |-> 2, gain |-> -1, sdrpp |-> FALSE, direct |-> TRUE, rspAgc |-> FALSE,
          allow |-> TRUE, adaptive |-> "off"]

MCLadders == {Plain, [Plain EXCEPT !.direct = FALSE, !.mode = 0]}
MCSetups ==
  MCLadders \cup
  {[Plain EXCEPT !.sdrpp = TRUE],
   [Plain EXCEPT !.direct = FALSE, !.rspAgc = TRUE],
   [Plain EXCEPT !.gain = 30, !.adaptive = "conservative"],
   [Plain EXCEPT !.gain = 30, !.adaptive = "aggressive"]}
Received(level, excess, snr) == [level |-> level, excess |-> excess, snr |-> snr]
MCQuiet == {Received(-45, 0, 5), Received(-28, 2, 18)}
MCCrowded == {Received(-60, 18, 5), Received(-50, 35, 5)}
MCClipHeavy == -7
MCClipNone == -11
===============================================================================
