------------------------------ MODULE MCPlots ------------------------------
(* What the parts of a plot are given, for TLC.                                   *)
EXTENDS Integers, Sequences

CONSTANTS Null, Named, NotNumber, Infinite, MinusInfinite

-----------------------------------------------------------------------------
(* FlotLines: points of a grid of four by four, twelve units apart, so that every  *)
(* crossing with the range is a whole number; a gap is followed by one point or two. *)

At(x, y) == [x |-> x, y |-> y]
Pt(x, y) == [x |-> 12 * x, y |-> 12 * y, b |-> 0]

MCLines ==
    {<<a, b>> : a, b \in {Pt(x, y) : x \in 0..3, y \in 0..3}}
    \union {<<Pt(0, 0), a, b, c>> : a \in {Pt(1, 2), Null}, b \in {Pt(3, 0), Pt(2, 1), Null},
                                    c \in {Pt(0, 1), Pt(3, 3)}}

MCAreas ==
    {<<a, b, c, d>> : a \in {Null, Pt(0, 0), Pt(0, 3)}, b \in {Null, Pt(1, 0), Pt(1, 2), Pt(1, 3)},
                      c \in {Null, Pt(2, 0), Pt(2, 3)}, d \in {Pt(3, 0), Pt(3, 1)}}
    \union {<<Pt(0, 1), b, Null, d, Pt(4, 1)>> : b \in {Pt(1, 0), Pt(1, 3)}, d \in {Pt(3, 0), Pt(3, 2)}}

MCDrawings ==
    [as : {"line"}, points : MCLines, from : {At(12, 12)}, to : {At(24, 24), At(30, 30)}]
    \union [as : {"area"}, points : MCAreas, from : {At(0, 0), At(18, 12), At(6, 12)},
            to : {At(48, 36), At(30, 24)}]
    \union [as : {"bars"}, points : {<<[x |-> x, y |-> y, b |-> b]>> : x, y \in {0, 12, 24, 36}, b \in {0, 24}},
            from : {At(12, 12)}, to : {At(24, 24)}]

MCBars == {[barLeft |-> -6, barRight |-> 6, horizontal |-> h] : h \in BOOLEAN}

-----------------------------------------------------------------------------
(* FlotData: points with a number, none, an infinite one or what is no number.      *)

MCData == {Null, <<1, 2>>, <<3, 7>>, <<5, Null>>, <<NotNumber, 9>>, <<3, Infinite>>, <<4, 4, 6>>}

Series(data, steps, base, bars, horizontal, yaxis, color) ==
    [data |-> data, steps |-> steps, base |-> base, bars |-> bars, horizontal |-> horizontal,
     yaxis |-> yaxis, color |-> color]

MCPlots ==
    {<<Series(<<a, b, c>>, FALSE, TRUE, TRUE, h, "y1", Null)>> : a, b, c \in MCData, h \in BOOLEAN}
    \union {<<Series(<<a, b, c>>, TRUE, base, FALSE, FALSE, "y1", 2)>> : a, b, c \in MCData, base \in BOOLEAN}
    \union {<<Series(<<a, b>>, FALSE, base, FALSE, FALSE, "y1", color),
              Series(<<a, b>>, FALSE, color = Named, FALSE, FALSE, y, Null)>> :
            y \in {"y1", "y2"}, a, b \in MCData, base \in BOOLEAN, color \in {Null, 1, Named}}

-----------------------------------------------------------------------------
(* FlotTicks: one axis of numbers with every option, two with the second aligned,   *)
(* one of time from half a dozen dates, among them the last of a month, over spans  *)
(* for each of the tick sizes.                                                     *)

Auto == [mode |-> "number", min |-> Null, max |-> Null, autoscaleMargin |-> Null, ticks |-> Null,
         tickDecimals |-> Null, minTickSize |-> Null, tickSize |-> Null, userTicks |-> Null,
         alignTicksWithAxis |-> Null, twelveHourClock |-> FALSE]

Axis(opts, range, used) == [opts |-> opts, datamin |-> range[1], datamax |-> range[2], used |-> used]

Ranges == {<<0, 0>>, <<3000, 3000>>, <<0, 1000>>, <<250, 9350>>, <<-4000, 13000>>, <<-700, -100>>, <<3100, 5400>>}

MCOpts ==
    {[Auto EXCEPT !.min = low, !.max = high, !.autoscaleMargin = m] :
        low \in {Null, 0, 5000}, high \in {Null, 5000}, m \in {Null, 2}}
    \union {[Auto EXCEPT !.autoscaleMargin = m, !.ticks = t, !.tickDecimals = dec, !.minTickSize = least] :
        m \in {Null, 2}, t \in {Null, 0, 4, 9}, dec \in {Null, 0, 1}, least \in {Null, 500}}
    \union {[Auto EXCEPT !.autoscaleMargin = m, !.userTicks = t, !.tickSize = size] :
        m \in {Null, 2}, t \in {Null, <<1000, 2000>>, <<>>}, size \in {Null, 3000}}

MCNumbers ==
    {<<Axis(opts, range, TRUE)>> : opts \in MCOpts, range \in Ranges \union {<<20, 1600000>>}}
    \union {<<Axis(opts, <<Null, Null>>, FALSE)>> : opts \in MCOpts}

MCAligned ==
    {<<Axis([Auto EXCEPT !.autoscaleMargin = m], range, TRUE),
       Axis([Auto EXCEPT !.autoscaleMargin = 2, !.alignTicksWithAxis = other, !.tickDecimals = dec], with, TRUE)>> :
        m \in {Null, 2}, range, with \in Ranges, other \in {1, 2}, dec \in {Null, 1}}

Starts == {1300000000, 1300000777, 1300006993, 1306800000, 1328054399, 1330491600}

Spans == {6, 40, 100, 700, 3600, 7200, 40000, 86400, 130000, 200000, 700000, 1500000, 3000000, 7000000,
          20000000, 31000000, 60000000, 165200000, 200000000, 500000000}

MCDates ==
    {<<Axis([Auto EXCEPT !.mode = "time", !.autoscaleMargin = 2, !.ticks = t, !.twelveHourClock = h], <<from, from + span>>, TRUE)>> :
        t \in {Null, 4}, h \in BOOLEAN, from \in Starts, span \in Spans}
    \union {<<Axis([Auto EXCEPT !.mode = "time", !.minTickSize = [num |-> 1, of |-> 1, unit |-> unit]], <<from, from + span>>, TRUE)>> :
        unit \in {"day", "year"}, from \in Starts, span \in {3000000, 7000000, 20000000, 60000000}}

MCCharts == MCNumbers \union MCAligned \union MCDates

-----------------------------------------------------------------------------
(* FlotGrid: up to four axes, shown or not, on each side.                           *)

OfX == [direction |-> "x", position |-> "bottom", show |-> Null, used |-> TRUE, reserveSpace |-> FALSE,
        label |-> 12, tickLength |-> Null, inverted |-> FALSE, min |-> -2, max |-> 3]
OfY == [OfX EXCEPT !.direction = "y", !.position = "left", !.label = 20]

Xs == {OfX, [OfX EXCEPT !.position = "top", !.inverted = TRUE], [OfX EXCEPT !.show = FALSE, !.tickLength = 5],
       [OfX EXCEPT !.used = FALSE, !.reserveSpace = TRUE]}
Ys == {OfY, [OfY EXCEPT !.position = "right", !.tickLength = 7], [OfY EXCEPT !.show = FALSE, !.inverted = TRUE]}

MCLayouts ==
    {<<x, y>> : x \in Xs, y \in Ys} \union {<<a, b, y>> : a, b \in Xs, y \in Ys}
    \union {<<x, a, b, c>> : x \in Xs, a, b, c \in Ys}

MCGrid == [show : BOOLEAN, axisMargin : {0, 8}, labelMargin : {3}, borderWidth : {0, 2}, minMargin : {0, 10}]

-----------------------------------------------------------------------------
(* FlotHover: one series or two, of marks or bars, some of which are not to be found. *)

Mark(x, y) == [x |-> x, y |-> y, b |-> 0]

Marked(points, marks, bars, horizontal, hoverable) ==
    [points |-> points, marks |-> marks, bars |-> bars, horizontal |-> horizontal, barWidth |-> 2,
     hoverable |-> hoverable]

Below == {Marked(points, k[1], k[2], k[3], TRUE) :
             points \in {<<a, b>> : a, b \in {Null, Mark(1, 1), Mark(1, 3), Mark(3, 2), Mark(2, -1)}}
                        \union {<<Mark(1, 1), Null, Mark(3, 1), Mark(1, 1)>>},
             k \in {<<TRUE, FALSE, FALSE>>, <<FALSE, TRUE, TRUE>>, <<TRUE, TRUE, FALSE>>}}

Above == {Marked(points, TRUE, FALSE, FALSE, k) : points \in {<<Mark(1, 1)>>, <<Mark(3, 2), Mark(2, 2)>>}, k \in BOOLEAN}
         \union {Marked(<<Mark(2, 2)>>, FALSE, TRUE, FALSE, TRUE)}

MCMarked == {<<a>> : a \in Below} \union {<<a, b>> : a \in Below, b \in Above}

MCMice == {At(x, y) : x \in {0, 5, 7, 10, 14}, y \in {-2, 2, 5, 9}}
=============================================================================
