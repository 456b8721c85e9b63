----------------------------- MODULE MCEmisora -----------------------------
(***************************************************************************)
(* Small instances of Emisora for TLC: time in units of about 50 ms, with  *)
(* a clock that wraps every 9 of them.                                     *)
(***************************************************************************)
EXTENDS Emisora

OneChord == {{}, {0}}
============================================================================
