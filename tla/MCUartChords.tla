---------------------------- MODULE MCUartChords ----------------------------
(***************************************************************************)
(* Small instances of UartChords for TLC.                                  *)
(***************************************************************************)
EXTENDS UartChords

TwoWords == <<"w1", "w2">>

\* The low bits of the bytes before the buttons.
Floats == [i \in 0..1 |-> i]

\* Nada, and DO mayor and MI menor, which share a note.
Buttons == {0, 3, 6}
============================================================================
