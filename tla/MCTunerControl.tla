---------------------------- MODULE MCTunerControl ----------------------------
(***************************************************************************)
(* Instances of TunerControl for TLC.  The configurations give the threads *)
(* and frequencies as model values; frequencies other than the configured  *)
(* one are interchangeable, which the runs that check no liveness use.     *)
(***************************************************************************)
EXTENDS TunerControl, TLC

FreqSymmetry == Permutations(Freqs \ {InitialFreq})

===============================================================================
