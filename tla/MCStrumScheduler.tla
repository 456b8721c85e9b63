------------------------- MODULE MCStrumScheduler -------------------------
(***************************************************************************)
(* Small instances of StrumScheduler for TLC: one time unit stands for     *)
(* some 50 ms, and twice the cooldown is just over the time a strum keeps  *)
(* slots, as in the code (2 * 101 ms against 200 ms).                      *)
(***************************************************************************)
EXTENDS StrumScheduler

\* Nada, MI menor and DO mayor, which share a note.
TwoChords == {0, 3, 6}
============================================================================
