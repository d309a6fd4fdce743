------------------------------ MODULE FlotData ------------------------------
(* What a plot does with the data it is given (jquery.flot.js 398-684): colours and *)
(* axes of the series, a first pass that cleans and copies the points, and a        *)
(* second that finds the range of the data for each axis.                          *)
EXTENDS Integers, Sequences, SequencesExt, FiniteSets, FiniteSetsExt

CONSTANTS Plots,         \* lists of series: [data, steps, base, bars, horizontal, yaxis, color]
          Null, Named,   \* no colour, or one by its name
          NotNumber, Infinite, MinusInfinite,
          fakeInfinity,
          BarWidth       \* of bars, which are centred

VARIABLES series,
          colors,     \* how many were made; which one each series has
          pass, i, j, \* where the passes are: the series and the point
          points,     \* of each series
          range       \* of each axis: datamin and datamax, Null when there are none

vars == <<series, colors, pass, i, j, points, range>>

Axes == {"x", "y1", "y2"}

NoRange == [datamin |-> Null, datamax |-> Null]

Init ==
    /\ series \in Plots
    /\ colors = [made |-> 0, of |-> <<>>]
    /\ pass = "options" /\ i = 1 /\ j = 1
    /\ points = [k \in DOMAIN series |-> <<>>]
    /\ range = [a \in Axes |-> NoRange]

-----------------------------------------------------------------------------
(* fillInSeriesOptions: a colour is Null, the number of one to be made, or a name.   *)

Numbered == {series[k].color : k \in DOMAIN series} \ {Null, Named}

Unset(upto) == Cardinality({k \in 1..upto : series[k].color = Null})

neededColors == Max({Unset(Len(series))} \union {n + 1 : n \in Numbered})

fillInSeriesOptions ==
    /\ pass = "options"
    /\ colors' = [made |-> neededColors,
                  of |-> [k \in DOMAIN series |-> IF series[k].color = Null THEN Unset(k) - 1 ELSE series[k].color]]
    /\ pass' = "first"
    /\ UNCHANGED <<series, i, j, points, range>>

-----------------------------------------------------------------------------

\* What the numbers of a point are: for which axis, and whether they must be there.
Format(s) ==
    << [for |-> "x", required |-> TRUE], [for |-> "y", required |-> TRUE] >>
    \o (IF s.base THEN << [for |-> IF s.horizontal THEN "x" ELSE "y", required |-> FALSE] >> ELSE <<>>)

AxisOf(s, f) == IF f.for = "x" THEN "x" ELSE s.yaxis

\* Axes with their range stretched to a value, which may be Null or no real one.
updateAxis(ranges, axis, value) ==
    LET old == ranges[axis]
    IN  IF value = Null THEN ranges
        ELSE [ranges EXCEPT ![axis] =
                 [datamin |-> IF (old.datamin = Null \/ value < old.datamin) /\ value # -fakeInfinity THEN value ELSE old.datamin,
                  datamax |-> IF (old.datamax = Null \/ value > old.datamax) /\ value # fakeInfinity THEN value ELSE old.datamax]]

ToNumber(value) ==
    CASE value = NotNumber -> Null [] value = Infinite -> fakeInfinity
      [] value = MinusInfinite -> -fakeInfinity [] OTHER -> value

\* The numbers of a point of the data, 0 for a base that is missing.
Copied(s, p) ==
    [m \in DOMAIN Format(s) |->
        LET value == IF p # Null /\ m <= Len(p) THEN ToNumber(p[m]) ELSE Null
        IN  IF value = Null /\ p # Null /\ ~Format(s)[m].required THEN 0 ELSE value]

Nullified(s, p) == \E m \in DOMAIN Format(s) : Format(s)[m].required /\ Copied(s, p)[m] = Null

BetweenAny(s, before, q) ==   \* mutant: a point between any two
    IF s.steps /\ before # <<>> /\ Last(before) # Null THEN <<[q EXCEPT ![2] = Last(before)[2]]>> ELSE <<>>

\* With steps a point is put between two that differ in both.
Between(s, before, q) ==
    IF s.steps /\ before # <<>> /\ Last(before) # Null /\ Last(before)[1] # q[1] /\ Last(before)[2] # q[2]
    THEN <<[q EXCEPT ![2] = Last(before)[2]]>> ELSE <<>>

FirstPass ==
    /\ pass = "first" /\ i <= Len(series) /\ j <= Len(series[i].data)
    /\ LET s == series[i]
           p == s.data[j]
           q == Copied(s, p)
       IN  IF Nullified(s, p)
           THEN /\ points' = [points EXCEPT ![i] = Append(@, Null)]
                /\ range' = FoldLeft(LAMBDA ranges, m : updateAxis(ranges, AxisOf(s, Format(s)[m]), q[m]),
                                     range, [m \in DOMAIN q |-> m])
           ELSE /\ points' = [points EXCEPT ![i] = @ \o Between(s, @, q) \o <<q>>]
                /\ UNCHANGED range
    /\ j' = j + 1
    /\ UNCHANGED <<series, colors, pass, i>>

NextSeries ==
    /\ pass = "first" /\ i <= Len(series) /\ j > Len(series[i].data)
    /\ i' = i + 1 /\ j' = 1
    /\ UNCHANGED <<series, colors, pass, points, range>>

EndOfFirst ==
    /\ pass = "first" /\ i > Len(series)
    /\ pass' = "second" /\ i' = 1
    /\ UNCHANGED <<series, colors, j, points, range>>

-----------------------------------------------------------------------------
(* The second pass reads all points by the format of the last series.               *)

format == Format(Last(series))

Values(k, for) ==
    {points[k][n][m] : n \in {l \in DOMAIN points[k] : points[k][l] # Null},
                       m \in {l \in DOMAIN Format(series[k]) \intersect DOMAIN format : format[l].for = for}}
        \ {fakeInfinity, -fakeInfinity}

\* Bars are as wide as they are in x, or in y when they lie.
Room(k, for) ==
    IF series[k].bars /\ series[k].horizontal = (for = "y") THEN BarWidth \div 2 ELSE 0

SecondPass ==
    /\ pass = "second" /\ i <= Len(series)
    /\ LET Stretch(ranges, for) ==
               LET values == Values(i, for)
                   axis   == AxisOf(series[i], [for |-> for])
               IN  IF values = {} THEN ranges
                   ELSE updateAxis(updateAxis(ranges, axis, Min(values) - Room(i, for)), axis, Max(values) + Room(i, for))
       IN  range' = Stretch(Stretch(range, "x"), "y")
    /\ i' = i + 1
    /\ UNCHANGED <<series, colors, pass, j, points>>

Next == fillInSeriesOptions \/ FirstPass \/ NextSeries \/ EndOfFirst \/ SecondPass

Spec == Init /\ [][Next]_vars

-----------------------------------------------------------------------------
(* Properties.                                                                 *)

Finished == pass = "second" /\ i > Len(series)

\* Every series has a colour that was made or a name.
ColorsExist ==
    pass # "options" => \A k \in DOMAIN series : colors.of[k] = Named \/ colors.of[k] \in 0..colors.made - 1

IsReal(value) == value \notin {Null, NotNumber, Infinite, MinusInfinite}

\* What an axis has to show of a point: its real numbers, with room for a bar where the
\* point is whole, and the base.
ToShow(s, axis) ==
    UNION {LET value == IF m <= Len(p) THEN p[m] ELSE Null
               room  == IF Nullified(s, p) \/ ~s.bars \/ s.horizontal # (Format(s)[m].for = "y") THEN 0 ELSE BarWidth \div 2
           IN  IF AxisOf(s, Format(s)[m]) # axis THEN {}
               ELSE IF IsReal(value) THEN {value - room, value + room}
               ELSE IF ~Format(s)[m].required /\ ToNumber(value) = Null THEN {0 - room, 0 + room} ELSE {}
           : m \in DOMAIN Format(s), p \in {q \in ToSet(s.data) : q # Null}}

\* The range of an axis is that of what its series have to show, with points that are
\* missing a number and values that are none, as long as all series are of one format:
\* else a series may be measured by the wrong one.
RangeIsOfData ==
    Finished /\ (\A k \in DOMAIN series : Format(series[k]) = format) =>
        \A axis \in Axes :
            LET shown == UNION {ToShow(series[k], axis) : k \in DOMAIN series}
            IN  range[axis] = IF shown = {} THEN NoRange ELSE [datamin |-> Min(shown), datamax |-> Max(shown)]

\* A series with steps goes level or upright from each point to the next, and keeps
\* the points it was given, in their order.
StepsAreSquare ==
    Finished => \A k \in DOMAIN series :
        LET ps   == points[k]
            kept == [n \in DOMAIN series[k].data |->
                        IF Nullified(series[k], series[k].data[n]) THEN Null ELSE Copied(series[k], series[k].data[n])]
            Given == SelectSeq([n \in DOMAIN ps |-> n],
                        LAMBDA n : ~(/\ series[k].steps /\ n > 1 /\ n < Len(ps)
                                     /\ \A m \in n - 1..n + 1 : ps[m] # Null
                                     /\ ps[n][1] = ps[n + 1][1] /\ ps[n][2] = ps[n - 1][2]
                                     /\ ps[n - 1][1] # ps[n + 1][1] /\ ps[n - 1][2] # ps[n + 1][2]))
        IN  /\ series[k].steps => \A n \in 1..Len(ps) - 1 :
                  ps[n] # Null /\ ps[n + 1] # Null => ps[n][1] = ps[n + 1][1] \/ ps[n][2] = ps[n + 1][2]
            /\ [n \in DOMAIN Given |-> ps[Given[n]]] = kept
=============================================================================
