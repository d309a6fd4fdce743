----------------------------- MODULE FlotHover -----------------------------
(* The item of a plot that the mouse is over (jquery.flot.js 2251-2336), with the   *)
(* plot area a few pixels wide and a scale for each axis.                          *)
EXTENDS Integers, Sequences, FiniteSets, FiniteSetsExt

CONSTANTS Plots,               \* lists of series: [points, marks, bars, horizontal, barWidth, hoverable]
          Mice,                \* places [x, y] in pixels from the lower left
          ScaleX, ScaleY,      \* pixels for a unit
          mouseActiveRadius, Null

VARIABLES series, mouse,
          i,                   \* the series to look at next, from the last to the first
          smallestDistance,    \* squared
          item                 \* the number of a series and of a point of it

vars == <<series, mouse, i, smallestDistance, item>>

Init ==
    /\ series \in Plots /\ mouse \in Mice
    /\ i = Len(series)
    /\ smallestDistance = mouseActiveRadius * mouseActiveRadius + 1
    /\ item = Null

\* A point is [x, y, b], its base with it, or Null for a gap.
Points(s) == {j \in DOMAIN s.points : s.points[j] # Null}

dx(p) == p.x * ScaleX - mouse.x
dy(p) == p.y * ScaleY - mouse.y

Distance(p) == dx(p) * dx(p) + dy(p) * dy(p)

Within(value, a, b) == Min({a, b}) <= value /\ value <= Max({a, b})

\* The mouse is within the radius along each axis; then distances are compared.
Close(p) == Within(dx(p), -mouseActiveRadius, mouseActiveRadius) /\ Within(dy(p), -mouseActiveRadius, mouseActiveRadius)

\* The mouse is within the bar, which is centred on its point.
InBar(s, p) ==
    IF s.horizontal
    THEN /\ Within(mouse.x, p.x * ScaleX, p.b * ScaleX)
         /\ Within(2 * mouse.y, (2 * p.y - s.barWidth) * ScaleY, (2 * p.y + s.barWidth) * ScaleY)
    ELSE /\ Within(2 * mouse.x, (2 * p.x - s.barWidth) * ScaleX, (2 * p.x + s.barWidth) * ScaleX)
         /\ Within(mouse.y, p.y * ScaleY, p.b * ScaleY)

\* A bug: the first point within the radius is as good as any.
FirstNear(s) ==
    {j \in Points(s) : /\ Close(s.points[j]) /\ Distance(s.points[j]) < smallestDistance
                       /\ \A k \in Points(s) : k < j => ~Close(s.points[k])}

\* Of the points of a series, those that none before them is as near as.
Nearer(s) ==
    {j \in Points(s) : /\ Close(s.points[j]) /\ Distance(s.points[j]) < smallestDistance
                       /\ \A k \in Points(s) : Close(s.points[k]) =>
                             IF k < j THEN Distance(s.points[j]) < Distance(s.points[k])
                             ELSE Distance(s.points[j]) <= Distance(s.points[k])}

Hit(s) == {j \in Points(s) : InBar(s, s.points[j])}

\* Of the bars of a series the last one, which is drawn over the others.
LastOf(hits) == Max(hits)

\* One series: its points, which may be nearer than what was found, and its bars if nothing was.
Look ==
    /\ i > 0
    /\ LET s    == series[i]
           near == IF s.hoverable /\ s.marks THEN Nearer(s) ELSE {}
           hit  == IF s.hoverable /\ s.bars /\ item = Null /\ near = {} THEN Hit(s) ELSE {}
       IN  /\ item' = IF near # {} THEN <<i, Max(near)>> ELSE IF hit # {} THEN <<i, LastOf(hit)>> ELSE item
           /\ smallestDistance' = IF near # {} THEN Distance(s.points[Max(near)]) ELSE smallestDistance
    /\ i' = i - 1
    /\ UNCHANGED <<series, mouse>>

Next == Look

Spec == Init /\ [][Next]_vars

-----------------------------------------------------------------------------
Marks == {<<k, j>> \in (DOMAIN series) \X (1..Max({Len(s.points) : s \in {series[k] : k \in DOMAIN series}})) :
            /\ series[k].hoverable /\ series[k].marks /\ j \in Points(series[k])
            /\ Distance(series[k].points[j]) <= mouseActiveRadius * mouseActiveRadius}

PointOf(pair) == series[pair[1]].points[pair[2]]

\* A point near enough goes before every bar, the nearest before the others and, of those as
\* near, one of the series that is drawn last; there are none when the mouse is out of reach.
NearestPoint ==
    i = 0 /\ Marks # {} =>
        /\ item \in Marks
        /\ \A other \in Marks : /\ Distance(PointOf(item)) <= Distance(PointOf(other))
                                /\ Distance(PointOf(item)) = Distance(PointOf(other)) => other[1] <= item[1]

\* With no point near enough, the bar under the mouse that is drawn last.
TopmostBar ==
    i = 0 /\ Marks = {} =>
        LET over == {k \in DOMAIN series : series[k].hoverable /\ series[k].bars /\ Hit(series[k]) # {}}
        IN  item = IF over = {} THEN Null ELSE <<Max(over), Max(Hit(series[Max(over)]))>>
=============================================================================
