----------------------------- MODULE FlotLines -----------------------------
(* How a plot draws a series as a line, as an area and as bars, within the range    *)
(* of its axes (jquery.flot.js 1718-1969, 2025-2148).  Coordinates are integers,    *)
(* of a scale on which the cuts come out even.                                   *)
EXTENDS Integers, Sequences, SequencesExt

CONSTANTS Drawings,  \* [as, points, from, to]: as "line", "area" or "bars"; the range of the axes
          Bars,      \* how bars are drawn: [barLeft, barRight, horizontal]
          Null       \* a point that is missing

VARIABLES what,      \* the drawing
          bars,
          i,         \* the loop
          pen,       \* where the path is, Null before
          prev,      \* prevx, prevy
          pieces,    \* the lines that were drawn
          sweep,     \* of an area: direction, y or b, segmentStart, segmentEnd, areaOpen
          path, fills,
          rectangles \* of bars: [box, edges]

vars == <<what, bars, i, pen, prev, pieces, sweep, path, fills, rectangles>>

Forward(start) == [ps |-> 1, ypos |-> "y", start |-> start, end |-> 0, areaOpen |-> FALSE]

Init ==
    /\ what \in Drawings /\ bars \in Bars
    /\ i = 0 /\ pen = Null /\ prev = Null /\ pieces = {}
    /\ sweep = Forward(0) /\ path = <<>> /\ fills = {}
    /\ rectangles = {}

Point(x, y) == [x |-> x, y |-> y]

n == Len(what.points)

\* The points of the series, from 0, and undefined beyond.
P(k) == IF k \in 0..n - 1 THEN what.points[k + 1] ELSE Null

-----------------------------------------------------------------------------
(* Clipping a segment, a pair of points, at a limit of one coordinate: from below    *)
(* with sign 1, from above with sign -1.                                         *)

Over(d, q) == IF q > 0 THEN d \div q ELSE (-d) \div (-q)

Other(c) == IF c = "x" THEN "y" ELSE "x"

\* The point of the segment at the limit.
Cut(s, c, limit) ==
    LET o == Other(c)
    IN  [s[1] EXCEPT ![c] = limit,
                     ![o] = Over((limit - s[1][c]) * (s[2][o] - s[1][o]), s[2][c] - s[1][c]) + s[1][o]]

\* Nothing is left of a segment beyond the limit.
Clip(s, c, limit, sign) ==
    LET Beyond(k) == sign * s[k][c] < sign * limit
    IN  IF s = <<>> \/ (~Beyond(1) /\ ~Beyond(2)) THEN s
        ELSE IF Beyond(1) /\ Beyond(2) THEN <<>>
        ELSE IF Beyond(1) THEN <<Cut(s, c, limit), s[2]>>
        ELSE <<s[1], Cut(s, c, limit)>>

ClipTo(s, c) == Clip(Clip(s, c, what.from[c], 1), c, what.to[c], -1)

-----------------------------------------------------------------------------
(* plotLine                                                                    *)

LineDone == i >= n - 1

\* A segment that goes on where the last one ended needs no moveTo.
Piece(s) == <<IF s[1] = prev THEN pen ELSE s[1], s[2]>>

plotLine ==
    /\ what.as = "line" /\ ~LineDone
    /\ i' = i + 1
    /\ LET s == IF P(i) = Null \/ P(i + 1) = Null THEN <<>>
                ELSE ClipTo(ClipTo(<<Point(P(i).x, P(i).y), Point(P(i + 1).x, P(i + 1).y)>>, "y"), "x")
       IN  IF s = <<>> THEN UNCHANGED <<pen, prev, pieces>>
           ELSE /\ pieces' = pieces \union {Piece(s)}
                /\ pen' = s[2] /\ prev' = s[2]
    /\ UNCHANGED <<what, bars, sweep, path, fills, rectangles>>

-----------------------------------------------------------------------------
(* plotLineArea: forward along the top to a missing point, back along the bottom.   *)

AreaDone == sweep.ps = 1 /\ i > n + 1

bottom == LET below == IF 0 > what.from.y THEN 0 ELSE what.from.y
          IN  IF below < what.to.y THEN below ELSE what.to.y

SegmentStart == sweep.end + 1

TurnPoint(k) == sweep.ps = 1 /\ P(k - 1) # Null /\ P(k) = Null

StartPointEarly(k) == sweep.ps = -1 /\ k = sweep.start   \* mutant: one segment short

StartPoint(k) == sweep.ps = -1 /\ k = sweep.start - 1

\* The outline of the piece: flat along a limit that the line is beyond.
Outline(s) ==
    LET from == what.from.y
        to   == what.to.y
        first  == IF s[1].y < from /\ s[2].y >= from THEN Cut(s, "y", from)
                  ELSE IF s[1].y > to /\ s[2].y <= to THEN Cut(s, "y", to) ELSE s[1]
        second == IF s[2].y < from /\ s[1].y >= from THEN Cut(s, "y", from)
                  ELSE IF s[2].y > to /\ s[1].y <= to THEN Cut(s, "y", to) ELSE s[2]
    IN  IF s[1].y >= to /\ s[2].y >= to THEN <<Point(s[1].x, to), Point(s[2].x, to)>>
        ELSE IF s[1].y <= from /\ s[2].y <= from THEN <<Point(s[1].x, from), Point(s[2].x, from)>>
        ELSE (IF first.x # s[1].x THEN <<Point(s[1].x, first.y)>> ELSE <<>>)
             \o <<first, second>>
             \o (IF second.x # s[2].x THEN <<second, Point(s[2].x, second.y)>> ELSE <<>>)

Trace(k) ==
    LET p == P(k - sweep.ps)
        q == P(k)
        s == IF p = Null \/ q = Null THEN <<>>
             ELSE ClipTo(<<Point(p.x, p[sweep.ypos]), Point(q.x, q[sweep.ypos])>>, "x")
    IN  IF s = <<>> THEN UNCHANGED <<sweep, path>>
        ELSE /\ sweep' = [sweep EXCEPT !.areaOpen = TRUE]
             /\ path' = (IF sweep.areaOpen THEN path ELSE <<Point(s[1].x, bottom)>>) \o Outline(s)

plotLineArea ==
    /\ what.as = "area" /\ ~AreaDone
    /\ LET k == i + sweep.ps
       IN  CASE sweep.areaOpen /\ TurnPoint(k) ->
                  /\ sweep' = [sweep EXCEPT !.ps = -1, !.ypos = "b", !.end = k]
                  /\ i' = k /\ UNCHANGED <<path, fills>>
             [] sweep.areaOpen /\ StartPoint(k) ->
                  /\ fills' = fills \union {path} /\ path' = <<>>
                  /\ i' = SegmentStart /\ sweep' = Forward(i')
             [] OTHER -> Trace(k) /\ i' = k /\ UNCHANGED fills
    /\ UNCHANGED <<what, bars, pen, prev, pieces, rectangles>>

-----------------------------------------------------------------------------
(* drawBar                                                                     *)

\* Left, right, bottom and top, and the edges that have a line: all but the base.
Bar(p) ==
    IF bars.horizontal
    THEN [left |-> IF p.x < p.b THEN p.x ELSE p.b, right |-> IF p.x < p.b THEN p.b ELSE p.x,
          top |-> p.y + bars.barLeft, bottom |-> p.y + bars.barRight,
          edges |-> {"bottom", "top", IF p.x < p.b THEN "left" ELSE "right"}]
    ELSE [left |-> p.x + bars.barLeft, right |-> p.x + bars.barRight,
          top |-> IF p.y < p.b THEN p.b ELSE p.y, bottom |-> IF p.y < p.b THEN p.y ELSE p.b,
          edges |-> {"left", "right", IF p.y < p.b THEN "bottom" ELSE "top"}]

Outside(bar) ==
    \/ bar.right < what.from.x \/ bar.left > what.to.x
    \/ bar.top < what.from.y \/ bar.bottom > what.to.y

Larger(a, b) == IF a < b THEN b ELSE a
Smaller(a, b) == IF a < b THEN a ELSE b

Clipped(bar) ==
    [left   |-> Larger(bar.left, what.from.x), right |-> Smaller(bar.right, what.to.x),
     bottom |-> Larger(bar.bottom, what.from.y), top |-> Smaller(bar.top, what.to.y),
     edges  |-> {edge \in bar.edges :
                    CASE edge = "left" -> bar.left >= what.from.x
                      [] edge = "right" -> bar.right <= what.to.x
                      [] edge = "bottom" -> bar.bottom >= what.from.y
                      [] edge = "top" -> bar.top <= what.to.y}]

plotBars ==
    /\ what.as = "bars" /\ i < n
    /\ i' = i + 1
    /\ rectangles' = IF P(i) = Null \/ Outside(Bar(P(i))) THEN rectangles
                     ELSE rectangles \union {[of |-> P(i), box |-> Clipped(Bar(P(i)))]}
    /\ UNCHANGED <<what, bars, pen, prev, pieces, sweep, path, fills>>

-----------------------------------------------------------------------------

Next == plotLine \/ plotLineArea \/ plotBars

Spec == Init /\ [][Next]_vars

-----------------------------------------------------------------------------
(* Properties.                                                                 *)

InBox(p) == \A c \in {"x", "y"} : what.from[c] <= p[c] /\ p[c] <= what.to[c]

\* p is on the segment from a to b.
On(p, a, b) ==
    /\ (p.x - a.x) * (b.y - a.y) = (p.y - a.y) * (b.x - a.x)
    /\ \A c \in {"x", "y"} : Smaller(a[c], b[c]) <= p[c] /\ p[c] <= Larger(a[c], b[c])

Segments == {k \in 0..n - 2 : P(k) # Null /\ P(k + 1) # Null}

Grid(a, b) == {Point(x, y) : x \in Smaller(a.x, b.x)..Larger(a.x, b.x), y \in Smaller(a.y, b.y)..Larger(a.y, b.y)}

\* A line shows all of the series that is in the range, nothing that is beyond it, and
\* nothing where a point is missing: its pieces are the segments, each cut at the range.
LineIsClipped ==
    what.as = "line" /\ LineDone =>
        /\ \A piece \in pieces : /\ InBox(piece[1]) /\ InBox(piece[2])
                                 /\ \E k \in Segments : On(piece[1], P(k), P(k + 1)) /\ On(piece[2], P(k), P(k + 1))
        /\ \A k \in Segments : \A p \in {g \in Grid(P(k), P(k + 1)) : On(g, P(k), P(k + 1)) /\ InBox(g)} :
              \E piece \in pieces : On(p, piece[1], piece[2])

Clamp(y) == Smaller(Larger(y, what.from.y), what.to.y)

At(k, x, y) == LET a == P(k)
                   b == P(k + 1)
               IN  IF a.x = b.x THEN a[y] ELSE a[y] + Over((x - a.x) * (b[y] - a[y]), b.x - a.x)

Through(outline, p) == \E m \in 1..Len(outline) - 1 : On(p, outline[m], outline[m + 1])

\* An area is closed at every missing point and at the end, in as many steps as two sweeps
\* need, and its outline follows the series above and its base below, or the limits of
\* the range where these are beyond, all along the range.
AreaIsFilled ==
    /\ i <= n + 2
    /\ what.as = "area" /\ AreaDone =>
        /\ ~sweep.areaOpen
        /\ \A outline \in fills, m \in 1..n + n : m \in DOMAIN outline => InBox(outline[m])
        /\ \A k \in Segments : \A x \in Larger(P(k).x, what.from.x)..Smaller(P(k + 1).x, what.to.x) :
              \E outline \in fills : /\ Through(outline, Point(x, Clamp(At(k, x, "y"))))
                                     /\ Through(outline, Point(x, Clamp(At(k, x, "b"))))

\* A bar that reaches into the range is drawn as far as it does and no other is; an edge
\* has a line only if it is in the range.  (A horizontal bar that is partly above or
\* below the range is left out: its bottom and top are not those of an upright one.)
BarsAreClipped ==
    what.as = "bars" /\ i = n =>
        \A k \in {m \in 0..n - 1 : P(m) # Null} :
            LET bar   == Bar(P(k))
                low   == Smaller(bar.bottom, bar.top)
                high  == Larger(bar.bottom, bar.top)
                meets == /\ bar.left <= what.to.x /\ bar.right >= what.from.x
                         /\ low <= what.to.y /\ high >= what.from.y
                drawn == {r \in rectangles : r.of = P(k)}
            IN  /\ bars.horizontal \/ (drawn # {} <=> meets)
                /\ \A r \in drawn :
                      /\ meets
                      /\ r.box.left = Larger(bar.left, what.from.x) /\ r.box.right = Smaller(bar.right, what.to.x)
                      /\ {r.box.bottom, r.box.top} = {Larger(low, what.from.y), Smaller(high, what.to.y)}
=============================================================================
