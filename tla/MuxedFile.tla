------------------------------ MODULE MuxedFile ------------------------------
(***************************************************************************)
(* What a muxer is to be given: the header, then packets, those of a       *)
(* stream in the order of their timestamps, then the trailer, and nothing  *)
(* after it.  A packet is its timestamp.                                   *)
(***************************************************************************)
EXTENDS Naturals, Sequences

CONSTANTS Streams, Times

VARIABLES header, packets, trailer

fileVars == <<header, packets, trailer>>

Init ==
  /\ header = FALSE
  /\ packets = [s \in Streams |-> <<>>]
  /\ trailer = FALSE

WriteHeader ==
  /\ header = FALSE
  /\ header' = TRUE
  /\ UNCHANGED <<packets, trailer>>

WritePacket(s, t) ==
  /\ header = TRUE /\ trailer = FALSE
  /\ \A i \in 1..Len(packets[s]) : packets[s][i] < t
  /\ packets' = [packets EXCEPT ![s] = Append(@, t)]
  /\ UNCHANGED <<header, trailer>>

WriteTrailer ==
  /\ header = TRUE /\ trailer = FALSE
  /\ trailer' = TRUE
  /\ UNCHANGED <<header, packets>>

Next ==
  \/ WriteHeader
  \/ \E s \in Streams, t \in Times : WritePacket(s, t)
  \/ WriteTrailer

Spec == Init /\ [][Next]_fileVars
=============================================================================
