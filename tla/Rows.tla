-------------------------------- MODULE Rows --------------------------------
(* A row is what one slot of a table file holds: a value, or NaN (unknown),    *)
(* for every metric of the node.  The operators here are the vocabulary the    *)
(* other modules share.                                                        *)
EXTENDS Integers, Sequences

CONSTANTS Metrics,   \* the metrics of the node, 0..nmetrics-1 in the code
          Values,    \* every value a table file may hold
          Samples,   \* the values a client may post
          NaN,       \* the marker of an unknown value
          Zero,      \* the value an all-zero file region reads as (0.0)
          Interval   \* seconds between two slots of the top-level table

ASSUME RowsAssumption ==
    /\ NaN \notin Values
    /\ Zero \in Values
    /\ Samples \subseteq Values
    /\ Interval \in Nat \ {0}

Row == [Metrics -> Values \union {NaN}]

\* What a client may post: null stands for NaN in the request.
PostedRow == [Metrics -> Samples \union {NaN}]

UnknownRow == [m \in Metrics |-> NaN]

\* What the file system returns for a hole left by a write beyond the end.
ZeroRow == [m \in Metrics |-> Zero]

\* Fill in any non-NaN new values over the old ones.
Merged(old, new) == [m \in Metrics |-> IF new[m] = NaN THEN old[m] ELSE new[m]]

\* Round a time down to a slot boundary (times are not negative here).
RoundDown(t) == (t \div Interval) * Interval
=============================================================================
