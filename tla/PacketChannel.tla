--------------------------- MODULE PacketChannel ---------------------------
(***************************************************************************)
(* What the packet format promises whoever is at the end of the line: a    *)
(* channel that may lose packets but never alters, invents, repeats or     *)
(* reorders them.                                                          *)
(***************************************************************************)
EXTENDS Naturals, Sequences

CONSTANT Content

VARIABLES
  sent,        \* packets put into the channel
  delivered    \* for each delivery, the index of the packet and its content

chVars == <<sent, delivered>>

ChInit == sent = << >> /\ delivered = << >>

Send == /\ \E m \in Content : sent' = Append(sent, m)
        /\ UNCHANGED delivered

\* A packet later than all delivered so far; those in between are lost.
Deliver ==
  /\ \E k \in 1..Len(sent) :
       /\ \A j \in 1..Len(delivered) : delivered[j].k < k
       /\ delivered' = Append(delivered, [k |-> k, msg |-> sent[k]])
  /\ UNCHANGED sent

ChNext == Send \/ Deliver

ChSpec == ChInit /\ [][ChNext]_chVars
============================================================================
