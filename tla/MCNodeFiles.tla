----------------------------- MODULE MCNodeFiles -----------------------------
(* NodeFiles for TLC.                                                          *)
EXTENDS NodeFiles

CONSTANTS a, b

\* Two connections that work on the node.
Two == {a, b}
=============================================================================
