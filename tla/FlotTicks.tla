----------------------------- MODULE FlotTicks -----------------------------
(* The range and the ticks of the axes of a plot (jquery.flot.js 1060-1411, 2538-   *)
(* 2597).  Numbers are in thousandths, times in seconds since 1970; a canvas asks  *)
(* for noTicks ticks unless the axis does.                                        *)
EXTENDS Integers, Sequences, SequencesExt, FiniteSetsExt

CONSTANTS Charts,     \* lists of axes of one direction: options, datamin and datamax
          noTicks, Null

VARIABLES axes,       \* with min, max, tickSize, tickDecimals and ticks once they are known
          pc, n,      \* the step of setupGrid, and the axis it is at
          d, carry    \* the generator of time ticks: the date it is at, hours left over

vars == <<axes, pc, n, d, carry>>

NoTicks(axis) == IF axis.opts.ticks \in {Null, 0} THEN noTicks ELSE axis.opts.ticks

Extent(axis) == axis.max - axis.min

\* Unknown until they are worked out: a size that is no number is Null for good.
Fresh(axis) == [min |-> 0, max |-> 0, tickSize |-> Null, tickDecimals |-> 0, ticks |-> <<>>] @@ axis

Init ==
    /\ axes \in {[i \in DOMAIN chart |-> Fresh(chart[i])] : chart \in Charts}
    /\ pc = "range" /\ n = 1 /\ d = 0 /\ carry = 0

-----------------------------------------------------------------------------
(* setRange *)

OrZero(value) == IF value = Null THEN 0 ELSE value

\* One value gets some room; it is max that gives way when both ends are the user's.
Widened(axis, min, max) ==
    LET widen == IF max = 0 THEN 1000 ELSE 10
    IN  [axis EXCEPT !.min = IF axis.opts.min = Null THEN min - widen ELSE min,
                     !.max = IF axis.opts.max = Null \/ axis.opts.min # Null THEN max + widen ELSE max]

\* A margin in per cent, that does not take values of one sign beyond zero.
Autoscaled(axis, min, max) ==
    LET room == ((max - min) * OrZero(axis.opts.autoscaleMargin)) \div 100
        low  == IF min - room < 0 /\ axis.datamin # Null /\ OrZero(axis.datamin) >= 0 THEN 0 ELSE min - room
        high == IF max + room > 0 /\ axis.datamax # Null /\ OrZero(axis.datamax) <= 0 THEN 0 ELSE max + room
        auto == axis.opts.autoscaleMargin # Null
    IN  [axis EXCEPT !.min = IF auto /\ axis.opts.min = Null THEN low ELSE min,
                     !.max = IF auto /\ axis.opts.max = Null THEN high ELSE max]

RangeOf(axis) ==
    LET min == IF axis.opts.min # Null THEN axis.opts.min ELSE OrZero(axis.datamin)
        max == IF axis.opts.max # Null THEN axis.opts.max ELSE OrZero(axis.datamax)
    IN  IF min = max THEN Widened(axis, min, max) ELSE Autoscaled(axis, min, max)

setRange ==
    /\ pc = "range"
    /\ axes' = [i \in DOMAIN axes |-> RangeOf(axes[i])]
    /\ pc' = "size"
    /\ UNCHANGED <<n, d, carry>>

-----------------------------------------------------------------------------
(* setupTickGeneration: numbers *)

Powers == {1, 10, 100, 1000, 10000, 100000, 1000000}

Places(magn) == CHOOSE p \in -3..3 : magn = IF p <= 0 THEN 1000 * 10^(-p) ELSE 10^(3 - p)

\* The power of ten below the distance of ticks, no finer than the decimals allow.
Magnitude(axis) ==
    Max({m \in Powers : m * NoTicks(axis) <= Extent(axis)}
        \union {m \in Powers : Places(m) = axis.opts.tickDecimals})

\* A tick size is 1, 2, 2.5, 5 or 10 of it, the nearest to what was asked for.
Nice(axis) ==
    LET magn == Magnitude(axis)
        k    == NoTicks(axis)
        more == axis.opts.tickDecimals = Null \/ Places(magn) + 1 <= OrZero(axis.opts.tickDecimals)
        norm(of, times) == times * Extent(axis) < of * k * magn
    IN  CASE norm(3, 2)  -> [size |-> magn, dec |-> Places(magn)]
          [] norm(3, 1) /\ 4 * Extent(axis) > 9 * k * magn /\ more
                         -> [size |-> (25 * magn) \div 10, dec |-> Places(magn) + 1]
          [] norm(3, 1)  -> [size |-> 2 * magn, dec |-> Places(magn)]
          [] norm(15, 2) -> [size |-> 5 * magn, dec |-> Places(magn)]
          [] OTHER       -> [size |-> 10 * magn, dec |-> Places(magn)]

\* With its ends the wrong way round an axis has no logarithm to take its size from.
Sized(axis) ==
    LET nice  == IF Extent(axis) > 0 THEN Nice(axis) ELSE [size |-> Null, dec |-> 0]
        least == axis.opts.minTickSize
        size  == IF least # Null /\ nice.size # Null /\ OrZero(nice.size) < OrZero(least) THEN least ELSE nice.size
    IN  [axis EXCEPT !.tickSize = IF axis.opts.tickSize # Null THEN axis.opts.tickSize ELSE size,
                     !.tickDecimals = Max({0, IF axis.opts.tickDecimals # Null THEN axis.opts.tickDecimals ELSE nice.dec})]

floorInBase(value, base) == base * (value \div base)

\* From the last multiple of the size before the range to the first at or after its end.
NumberTicks(axis) ==
    LET start == floorInBase(axis.min, axis.tickSize)
        last  == IF start >= axis.max THEN 0 ELSE -((start - axis.max) \div axis.tickSize)
    IN  IF axis.tickSize = Null THEN <<>> ELSE [i \in 1..(last + 1) |-> start + (i - 1) * axis.tickSize]

-----------------------------------------------------------------------------
(* Ticks where those of another axis are. *)

\* The axis whose ticks are taken over, if it is another one with data.
Aligned(i) ==
    LET other == axes[i].opts.alignTicksWithAxis
    IN  other # Null /\ other # i /\ axes[other].used

CopiedTicks(axis, other) ==
    [t \in DOMAIN other.ticks |->
        axis.min + ((other.ticks[t].v - other.min) * Extent(axis)) \div Extent(other)]

\* Its range first goes out to the ticks that it would have had.
ToNice(axis) ==
    LET ticks == NumberTicks(axis)
    IN  IF ticks = <<>> THEN axis
        ELSE [axis EXCEPT !.min = IF axis.opts.min = Null THEN Min({@, Head(ticks)}) ELSE @,
                          !.max = IF axis.opts.max = Null /\ Len(ticks) > 1 THEN Max({@, Last(ticks)}) ELSE @]

\* What digits after the point show of a value, in the unit of the last one.
toFixed(value, decimals) ==
    LET unit == 10^(3 - decimals)
    IN  IF decimals >= 3 THEN value
        ELSE IF value < 0 THEN -((2 * (-value) + unit) \div (2 * unit)) ELSE (2 * value + unit) \div (2 * unit)

\* One decimal more, unless the distance of ticks has a zero there.
ExtraDecimal(axis, other, before) ==
    LET ts    == CopiedTicks(axis, other)
        extra == Max({0, Places(Max({m \in Powers : m * NoTicks(before) <= Extent(before)})) + 1})
    IN  IF axis.opts.tickDecimals # Null \/ (Len(ts) > 1 /\ extra > 0 /\ toFixed(ts[2] - ts[1], extra) % 10 = 0)
        THEN axis ELSE [axis EXCEPT !.tickDecimals = extra]

SizeNumber ==
    /\ pc = "size" /\ axes[n].opts.mode = "number"
    /\ LET sized == Sized(axes[n])
           other == axes[axes[n].opts.alignTicksWithAxis]
       IN  axes' = [axes EXCEPT ![n] = IF Aligned(n) THEN ExtraDecimal(ToNice(sized), other, sized) ELSE sized]
    /\ pc' = "ticks"
    /\ UNCHANGED <<n, d, carry>>

-----------------------------------------------------------------------------
(* Dates: months are counted from year 0, days and seconds from 1970.             *)

Minute == 60
Hour   == 3600
Day    == 86400
Month  == 30 * Day
Year   == 31556952

\* The first day of a month, by the rules of the calendar in use.
FirstDay(month) ==
    LET years == (month - 2) \div 12        \* that ended before the March before it
        march == (month - 2) % 12
    IN  365 * years + years \div 4 - years \div 100 + years \div 400 + (153 * march + 2) \div 5 - 719468

MonthOf(date) ==
    LET about == 12 * 1970 + date \div Month
    IN  CHOOSE m \in (about - 12)..(about + 1) : FirstDay(m) <= date \div Day /\ date \div Day < FirstDay(m + 1)

DayOf(date)    == date \div Day - FirstDay(MonthOf(date)) + 1
HourOf(date)   == (date \div Hour) % 24
MinuteOf(date) == (date \div Minute) % 60
SecondOf(date) == date % 60

\* A month that is short of the day of the date goes on into the next one.
InMonth(date, month) == (FirstDay(month) + DayOf(date) - 1) * Day + (date % Day)

OnDay(date, day) == date + (day - DayOf(date)) * Day

(* The ticks of time: sizes are fractions of units. *)

Times(of, num, unit) == [num |-> num, of |-> of, unit |-> unit]

timeUnitSize == [second |-> 1, minute |-> Minute, hour |-> Hour, day |-> Day, month |-> Month, year |-> Year]

Seconds(size) == (size.num * timeUnitSize[size.unit]) \div size.of

Sizes ==
    [i \in 1..5 |-> Times(1, <<1, 2, 5, 10, 30>>[i], "second")]
    \o [i \in 1..5 |-> Times(1, <<1, 2, 5, 10, 30>>[i], "minute")]
    \o [i \in 1..5 |-> Times(1, <<1, 2, 4, 8, 12>>[i], "hour")]
    \o [i \in 1..3 |-> Times(1, i, "day")]
    \o <<Times(4, 1, "month"), Times(2, 1, "month")>>
    \o [i \in 1..4 |-> Times(1, <<1, 2, 3, 6>>[i], "month")]
    \o <<Times(1, 1, "year")>>

\* Years by the powers of ten below the distance asked for, which may be less than one.
Years(axis) ==
    LET delta == Extent(axis) \div NoTicks(axis)
        of    == CHOOSE k \in {1, 10, 100} : Year \div k <= delta /\ (k = 1 \/ delta < Year \div (k \div 10))
        size  == CASE 2 * delta < 3 * (Year \div of)  -> 1
                   [] delta < 3 * (Year \div of)      -> 2
                   [] 2 * delta < 15 * (Year \div of) -> 5
                   [] OTHER                           -> 10
    IN  IF size >= of THEN Times(1, size \div of, "year") ELSE Times(of, size, "year")

\* The first of the sizes that is nearer to what was asked for than the next one.
TimeSize(axis) ==
    LET least == axis.opts.minTickSize
        fits(i) == /\ 2 * Extent(axis) < (Seconds(Sizes[i]) + Seconds(Sizes[i + 1])) * NoTicks(axis)
                   /\ least # Null => Seconds(Sizes[i]) >= Seconds(least)
        found == {i \in 1..(Len(Sizes) - 1) : fits(i)}
    IN  IF found = {} THEN Years(axis) ELSE Sizes[Min(found)]

\* The date of the first tick: its unit goes down to a multiple, what is below it to zero.
FirstTick(min, size) ==
    LET step  == Seconds(size)
        month == MonthOf(min)
        down(value) == IF size.of = 1 THEN floorInBase(value, size.num) ELSE value
        a == CASE size.unit = "second" -> min - SecondOf(min) + down(SecondOf(min))
               [] size.unit = "minute" -> min - (MinuteOf(min) - down(MinuteOf(min))) * Minute
               [] size.unit = "hour"   -> min - (HourOf(min) - down(HourOf(min))) * Hour
               [] size.unit = "month"  -> InMonth(min, (month \div 12) * 12 + down(month % 12))
               [] size.unit = "year"   -> InMonth(min, down(month \div 12) * 12 + (month % 12))
               [] OTHER                -> min
        b == CASE step >= Day    -> floorInBase(a, Day)
               [] step >= Hour   -> floorInBase(a, Hour)
               [] step >= Minute -> floorInBase(a, Minute)
               [] OTHER          -> a
        c == IF step >= 4 * Day THEN OnDay(b, 1) ELSE b
    IN  IF step >= Year THEN InMonth(c, (MonthOf(c) \div 12) * 12) ELSE c

\* The next tick, and the hours that a part of a month leaves over; a bug: they
\* are forgotten.
PartUncarried(size) ==
    LET start == OnDay(d, 1)
        next  == d + (InMonth(start, MonthOf(d) + 1) - start) \div size.of
    IN  [d |-> next - HourOf(next) * Hour, carry |-> 0]

PartOfMonth(size) ==
    LET start == OnDay(d, 1)
        end   == InMonth(start, MonthOf(d) + 1)
        next  == d + carry * Hour + (end - start) \div size.of
    IN  [d |-> next - HourOf(next) * Hour, carry |-> HourOf(next)]

NextTick(size) ==
    CASE size.unit = "month" /\ size.of > 1 -> PartOfMonth(size)
      [] size.unit = "month" -> [d |-> InMonth(d, MonthOf(d) + size.num), carry |-> carry]
      [] size.unit = "year"  -> [d |-> InMonth(d, MonthOf(d) + 12 * (size.num \div size.of)), carry |-> carry]
      [] OTHER               -> [d |-> d + Seconds(size), carry |-> carry]

SizeTime ==
    /\ pc = "size" /\ axes[n].opts.mode = "time"
    /\ LET opts == axes[n].opts
           size == IF opts.tickSize # Null THEN opts.tickSize ELSE TimeSize(axes[n])
       IN  /\ axes' = [axes EXCEPT ![n].tickSize = size]
           /\ d' = FirstTick(axes[n].min, size)
    /\ carry' = 0
    /\ pc' = "ticks"
    /\ UNCHANGED n

-----------------------------------------------------------------------------
(* setTicks: the generator's, or the user's, each with its label. *)

\* What is seen of a time: how much of it depends on the size and on the range.
TimeLabel(v, axis) ==
    LET t     == Seconds(axis.tickSize)
        month == MonthOf(v) % 12
        h     == HourOf(v)
        hours == IF ~axis.opts.twelveHourClock THEN <<h>>
                 ELSE <<IF h > 12 THEN h - 12 ELSE IF h = 0 THEN 12 ELSE h, h < 12>>
    IN  CASE t < Minute -> hours \o <<MinuteOf(v), SecondOf(v)>>
          [] t < Day /\ Extent(axis) < 2 * Day -> hours \o <<MinuteOf(v)>>
          [] t < Day    -> <<month, DayOf(v)>> \o hours \o <<MinuteOf(v)>>
          [] t < Month  -> <<month, DayOf(v)>>
          [] t < Year   -> IF Extent(axis) < Year THEN <<month>> ELSE <<month, MonthOf(v) \div 12>>
          [] OTHER      -> <<MonthOf(v) \div 12>>

Label(v, axis) == IF axis.opts.mode = "time" THEN TimeLabel(v, axis) ELSE <<toFixed(v, axis.tickDecimals)>>

Labelled(values, axis) == [t \in DOMAIN values |-> [v |-> values[t], label |-> Label(values[t], axis)]]

Generates(axis) == axis.opts.userTicks = Null /\ axis.opts.ticks # 0

SetTicks ==
    /\ pc = "ticks" /\ ~(axes[n].opts.mode = "time" /\ Generates(axes[n]))
    /\ LET axis  == axes[n]
           ticks == IF axis.opts.userTicks # Null THEN axis.opts.userTicks
                    ELSE IF axis.opts.ticks = 0 THEN <<>>
                    ELSE IF Aligned(n) THEN CopiedTicks(axis, axes[axis.opts.alignTicksWithAxis])
                    ELSE NumberTicks(axis)
       IN  axes' = [axes EXCEPT ![n].ticks = Labelled(ticks, axis)]
    /\ pc' = "snap"
    /\ UNCHANGED <<n, d, carry>>

\* One turn of the loop of the time generator.
Generate ==
    /\ pc = "ticks" /\ axes[n].opts.mode = "time" /\ Generates(axes[n])
    /\ LET axis == axes[n]
           same == axis.ticks # <<>> /\ Last(axis.ticks).v = d
           next == NextTick(axis.tickSize)
       IN  /\ axes' = [axes EXCEPT ![n].ticks = @ \o Labelled(<<d>>, axis)]
           /\ pc' = IF d < axis.max /\ ~same THEN "ticks" ELSE "snap"
           /\ d' = next.d /\ carry' = next.carry
    /\ UNCHANGED n

\* An axis that scales itself begins and ends with a tick.
snapRangeToTicks ==
    /\ pc = "snap"
    /\ LET axis  == axes[n]
           snaps == OrZero(axis.opts.autoscaleMargin) # 0 /\ axis.ticks # <<>>
       IN  axes' = [axes EXCEPT
               ![n].min = IF snaps /\ axis.opts.min = Null THEN Min({@, axis.ticks[1].v}) ELSE @,
               ![n].max = IF snaps /\ axis.opts.max = Null /\ Len(axis.ticks) > 1 THEN Max({@, Last(axis.ticks).v}) ELSE @]
    /\ IF n = Len(axes) THEN pc' = "done" /\ UNCHANGED n ELSE pc' = "size" /\ n' = n + 1
    /\ UNCHANGED <<d, carry>>

Next == setRange \/ SizeNumber \/ SizeTime \/ SetTicks \/ Generate \/ snapRangeToTicks

Spec == Init /\ [][Next]_vars

-----------------------------------------------------------------------------

\* What the user's limits leave, or are the wrong way round.
Low(axis)  == IF axis.opts.min # Null THEN axis.opts.min ELSE OrZero(axis.datamin)
High(axis) == IF axis.opts.max # Null THEN axis.opts.max ELSE OrZero(axis.datamax)
Upright(axis) == Low(axis) <= High(axis)

\* An axis is never empty, and shows all of its data that the user's limits allow (setRange,
\* snapRangeToTicks).
DataIsShown ==
    \A i \in DOMAIN axes : pc # "range" /\ Upright(axes[i]) =>
        /\ axes[i].min < axes[i].max
        /\ axes[i].min <= Low(axes[i]) /\ High(axes[i]) <= axes[i].max

\* A part of a year is not a size that the generator can go by.
PartOfYear(size) == size.unit = "year" /\ size.of > 1

Own(i) == Generates(axes[i]) /\ ~Aligned(i) /\ Upright(axes[i])

\* The ticks of the generator increase, begin at or before the range and end at or just after
\* it, so that a range that is snapped to them has all of its data (setupTickGeneration).
TicksSpanRange ==
    pc = "snap" /\ Own(n) /\ (axes[n].opts.mode = "time" => ~PartOfYear(axes[n].tickSize)) =>
        LET axis == axes[n]  t == axis.ticks
        IN  /\ \A k \in 1..(Len(t) - 1) : t[k].v < t[k + 1].v /\ t[k].v < axis.max
            /\ t[1].v <= axis.min /\ Last(t).v >= axis.max

\* There are about as many as asked for, unless the user's size is another.
TicksAreFew ==
    pc = "snap" /\ Own(n) /\ axes[n].opts.tickSize = Null => Len(axes[n].ticks) <= 2 * NoTicks(axes[n]) + 2

\* Ticks next to each other can be told apart by their labels, unless the user has set the
\* decimals of an axis that takes its ticks from another.
LabelsDiffer ==
    pc = "snap" /\ (Own(n) \/ (Aligned(n) /\ axes[n].opts.tickDecimals = Null)) =>
        \A k \in 1..(Len(axes[n].ticks) - 1) :
            axes[n].ticks[k].v < axes[n].ticks[k + 1].v => axes[n].ticks[k].label # axes[n].ticks[k + 1].label

\* With months or parts of them for ticks, each month begins with one (the carry of hours).
MonthsBegin ==
    pc = "snap" /\ axes[n].opts.mode = "time" /\ Own(n)
        /\ axes[n].tickSize.unit = "month" /\ (axes[n].tickSize.of > 1 \/ axes[n].tickSize.num = 1) =>
        LET at == {axes[n].ticks[k].v : k \in DOMAIN axes[n].ticks}
        IN  \A m \in MonthOf(Min(at))..MonthOf(Max(at)) : FirstDay(m) * Day \in at

\* Aligned ticks are as far along their axis as the ticks they were taken from, if the other
\* axis was snapped to its own.
AlignedTogether ==
    \A i \in DOMAIN axes : pc = "done" /\ Aligned(i) /\ Upright(axes[i]) =>
        LET axis == axes[i]  other == axes[axis.opts.alignTicksWithAxis]
        IN  OrZero(other.opts.autoscaleMargin) # 0 /\ other.opts.min = Null /\ other.opts.max = Null =>
            /\ Len(axis.ticks) = Len(other.ticks)
            /\ \A t \in DOMAIN axis.ticks :
                   LET here  == (axis.ticks[t].v - axis.min) * Extent(other)
                       there == (other.ticks[t].v - other.min) * Extent(axis)
                   IN  here <= there /\ there < here + Extent(other)
=============================================================================
