----------------------------- MODULE MCEduCiaa -----------------------------
(***************************************************************************)
(* Small instances of EduCiaa for TLC.                                     *)
(***************************************************************************)
EXTENDS EduCiaa

\* DO mayor, MI mayor (they share a note) and RE menor.
ThreeMasks == {{0}, {0, 1}, {1, 3}}

\* DO mayor and 1000, which has no chord.
MasksWithNada == {{0}, {3}}

\* Damaged bytes that look like a header byte, like a button, and another.
NoiseBytes == {HEADER1, HEADER2, {0}, {7}}
HeaderNoise == {HEADER1}
============================================================================
