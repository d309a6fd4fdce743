------------------------------ MODULE MCSeries ------------------------------
(* Series for TLC: a node of two layers, a row of the second is three of the      *)
(* first.                                                                      *)
EXTENDS Series

MCDecimation == [l \in {0} |-> 3]
MCStarts == {NoTime, 1, 2, 5}
MCEnds == {NoTime, 4, 14}
=============================================================================
