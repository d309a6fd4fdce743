------------------------------- MODULE MCTsdb -------------------------------
(* Small instances of Tsdb for TLC.                                            *)
EXTENDS Tsdb, TLC, FiniteSets, FiniteSetsExt

\* Values are residues; the downsampling of a block weighs each value by its
\* position, so that a value at the wrong place or a row taken twice shows.
MCModulus == 4
MCValues  == 0..MCModulus-1
MCAgg(m, f) == (MapThenSumSet(LAMBDA i : (i + 2) * f[i], DOMAIN f) + Cardinality(DOMAIN f)) % MCModulus

\* For properties that do not look at what is in the lower layers.
MCAggOne(m, f) == 1

MCWriters == Permutations(Writers)

MCDecimation0  == [l \in {} |-> 1]
MCDecimation2  == [l \in 0..0 |-> 2]
MCDecimation22 == [l \in 0..1 |-> 2]
=============================================================================
