---------------------------- MODULE MCOutputFile ----------------------------
(* An instance of OutputFile for TLC: a file with two streams that are     *)
(* encoded and one that is copied, and a file with one that is encoded.    *)
EXTENDS OutputFile, SequencesExt

FourStreams == <<"a", "a", "a", "b">>
Limits == <<9, 3, 1, 1>>

TwoFiles ==
  {[f \in {"a", "b"} |-> IF f = "a" THEN a ELSE b] :
     a \in BoundedSeq({1, 2, 3}, 4) \cup BoundedSeq({0, 1, 2}, 2) \cup {<<1, 3, 2, 2, 2>>},
     b \in BoundedSeq({4}, 2)}

AllFaults == {"open", "header", "filter", "format", "encode", "write"}
=============================================================================
