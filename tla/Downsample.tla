----------------------------- MODULE Downsample -----------------------------
(* How the rows of one block become one row of the next layer, for one metric:  *)
(* the accumulation loop of tsdb_update_layer, one row per step.  Tsdb takes     *)
(* the outcome as Agg.  Numbers are exact here; a mean is left as a fraction.    *)
EXTENDS Integers, Sequences, FiniteSets, FiniteSetsExt

CONSTANTS Numbers,    \* the known values a table may hold
          NaN,        \* the marker of an unknown value
          Infinity,   \* greater than every number
          Blocks      \* what one read of a block may return

ASSUME DownsampleAssumption ==
    /\ Numbers \subseteq Int
    /\ NaN \notin Int
    /\ Infinity \notin Int
    /\ NaN # Infinity
    /\ Blocks \subseteq Seq(Numbers \union {NaN})

Modes == {"Mean", "Median", "Mode", "Sum", "Min", "Max"}

VARIABLES mode,         \* the downsampling mode of the metric
          block,        \* the values read, oldest first
          count,        \* how many of them the loop has passed
          next_value,   \* the accumulator, then the value for the next layer
          valid_count,  \* known values met
          over,         \* what next_value is divided by
          pc

vars == <<mode, block, count, next_value, valid_count, over, pc>>

StartAtZero(m) == 0   \* mutant: the minimum starts like every other mode

\* The case of Max falls through to the default.
Start(m) == IF m = "Min" THEN Infinity ELSE 0

Init ==
    /\ mode \in Modes
    /\ block \in Blocks
    /\ count = 0
    /\ next_value = Start(mode)
    /\ valid_count = 0
    /\ over = 1
    /\ pc = "loop"

Less(v, w) == w = Infinity \/ v < w

\* Median and Mode are not implemented: the accumulator stays as it is.
Accumulated(acc, v) ==
    CASE mode \in {"Mean", "Sum"}    -> acc + v
      [] mode = "Min" /\ Less(v, acc) -> v
      [] mode = "Max" /\ Less(acc, v) -> v
      [] OTHER                        -> acc

SkipCounted ==   \* mutant: an unknown value counts
    /\ pc = "loop" /\ count < Len(block)
    /\ block[count + 1] = NaN
    /\ count' = count + 1
    /\ valid_count' = valid_count + 1
    /\ UNCHANGED <<mode, block, next_value, over, pc>>

Skip ==
    /\ pc = "loop" /\ count < Len(block)
    /\ block[count + 1] = NaN
    /\ count' = count + 1
    /\ UNCHANGED <<mode, block, next_value, valid_count, over, pc>>

Take ==
    /\ pc = "loop" /\ count < Len(block)
    /\ block[count + 1] # NaN
    /\ count' = count + 1
    /\ next_value' = Accumulated(next_value, block[count + 1])
    /\ valid_count' = valid_count + 1
    /\ UNCHANGED <<mode, block, over, pc>>

Complete ==
    /\ pc = "loop" /\ count = Len(block)
    /\ next_value' = IF valid_count = 0 THEN NaN ELSE next_value
    /\ over' = IF mode = "Mean" /\ valid_count # 0 THEN valid_count ELSE 1
    /\ pc' = "done"
    /\ UNCHANGED <<mode, block, count, valid_count>>

Next == Skip \/ Take \/ Complete

Spec == Init /\ [][Next]_vars

-----------------------------------------------------------------------------
(* Properties.                                                                 *)

TypeOK ==
    /\ mode \in Modes
    /\ block \in Seq(Numbers \union {NaN})
    /\ count \in 0..Len(block)
    /\ next_value \in Int \union {NaN, Infinity}
    /\ valid_count \in 0..count
    /\ over \in Nat \ {0}
    /\ pc \in {"loop", "done"}

\* The positions of the known values among the first n.
KnownRows(n) == {i \in 1..n : block[i] # NaN}

\* A block without a known value, and no other, leaves the next layer unknown: an
\* accumulator that nothing was added to never gets there as a value.
UnknownStaysUnknown ==
    pc = "done" => (next_value = NaN <=> KnownRows(Len(block)) = {})

Least(v) == /\ \E i \in KnownRows(Len(block)) : block[i] = v
            /\ \A i \in KnownRows(Len(block)) : v <= block[i]

Greatest(v) == /\ \E i \in KnownRows(Len(block)) : block[i] = v
               /\ \A i \in KnownRows(Len(block)) : v >= block[i]

Finished(m) == pc = "done" /\ mode = m /\ KnownRows(Len(block)) # {}

\* Min yields the least known value, wherever unknown ones lie between.
MinIsLeast == Finished("Min") => Least(next_value)

\* Max yields the greatest known value of a block without negative values.  Of a block
\* of negative ones it yields zero, which the accumulator starts from.
MaxOfNonNegative ==
    Finished("Max") /\ (\A i \in KnownRows(Len(block)) : block[i] >= 0) => Greatest(next_value)

\* The sum of the known values among the first n.
SumOf(n) == MapThenSumSet(LAMBDA i : block[i], KnownRows(n))

\* Sum yields the sum of the known values, Mean that sum over their number.
SumAndMean ==
    \A m \in {"Sum", "Mean"} : Finished(m) =>
        /\ next_value = SumOf(Len(block))
        /\ over = IF m = "Mean" THEN Cardinality(KnownRows(Len(block))) ELSE 1

\* Whatever is in the block, and in every mode: what the next layer gets is unknown only
\* if the block is, and is its least or greatest value where the mode says so.
BlockIsRight == TypeOK /\ UnknownStaysUnknown /\ MinIsLeast /\ MaxOfNonNegative
=============================================================================
