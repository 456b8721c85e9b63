---------------------------- MODULE MCReceptora ----------------------------
(***************************************************************************)
(* Small instances of Receptora for TLC.                                   *)
(***************************************************************************)
EXTENDS Receptora

\* An eight-byte struct moved as two 32-bit words, or as four halfwords.
Words     == <<0..3, 4..7>>
HalfWords == <<0..1, 2..3, 4..5, 6..7>>

Do == sendPacket({0}, VEL_NORMAL)
Re == sendPacket({1}, VEL_FUERTE)

BadHeader   == [Do EXCEPT ![0] = {}]
BadChecksum == [Do EXCEPT ![7] = {}]

ValidFrames == {Do, Re}
AllFrames   == {Do, Re, BadHeader, BadChecksum}
============================================================================
