------------------------------ MODULE FlotGrid ------------------------------
(* The room that the axes of a plot take from its canvas, and the way from a value  *)
(* to a place on it (jquery.flot.js setupGrid, with the ticks and the size of the   *)
(* labels given).                                                                *)
EXTENDS Integers, Sequences, SequencesExt, FiniteSets, FiniteSetsExt

CONSTANTS Layouts,      \* lists of axes, those of x before those of y
          Canvas,       \* [width, height]
          Grid,         \* sets of [show, axisMargin, labelMargin, borderWidth, minMargin]
          Null

VARIABLES axes, grid,
          pc, i,        \* the step, and the axis it is at
          plotOffset, boxes,
          plot          \* [width, height] of the plot area

vars == <<axes, grid, pc, i, plotOffset, boxes, plot>>

Sides == {"left", "right", "top", "bottom"}

Horizontal(axis) == axis.direction = "x"

Init ==
    /\ axes \in Layouts /\ grid \in Grid
    /\ pc = "reserve" /\ i = 0
    /\ plotOffset = [side \in Sides |-> 0]
    /\ boxes = [k \in DOMAIN axes |-> Null]
    /\ plot = Null

-----------------------------------------------------------------------------

\* By default an axis is seen if it has data; one that is not may still have its room.
Shown(axis)    == IF axis.show = Null THEN axis.used ELSE axis.show
Reserves(axis) == Shown(axis) \/ axis.reserveSpace

allocatedAxes == SelectSeq([k \in DOMAIN axes |-> k], LAMBDA k : Reserves(axes[k]))

Reserve ==
    /\ pc = "reserve"
    /\ pc' = IF grid.show /\ allocatedAxes # <<>> THEN "boxes" ELSE "margins"
    /\ i' = Len(allocatedAxes)
    /\ UNCHANGED <<axes, grid, plotOffset, boxes, plot>>

SamePosition(axis) == {k \in DOMAIN axes : Reserves(axes[k]) /\ axes[k].position = axis.position}
SameDirection(axis) == {k \in DOMAIN axes : Reserves(axes[k]) /\ axes[k].direction = axis.direction}

\* A bug: the outermost axis is told by its place among all of its direction.
MarginInDirection(k) == IF k = Max(SameDirection(axes[k])) THEN 0 ELSE grid.axisMargin

\* The last one of a side is at the edge, the others keep a distance from the next.
AxisMargin(k) == IF k = Max(SamePosition(axes[k])) THEN 0 ELSE grid.axisMargin

Innermost(k) == k = Min(SameDirection(axes[k]))

\* Ticks across the whole plot (Null) take no room outside it: only the first axis has them.
Padding(k) ==
    grid.labelMargin + (IF axes[k].tickLength # Null THEN axes[k].tickLength ELSE IF Innermost(k) THEN 0 ELSE 5)

\* The box that the axis gets, counted from the top or the left, and the offset after it.
BoxOf(k) ==
    LET axis == axes[k]
        size == axis.label + Padding(k)
        used == plotOffset[axis.position] + size + AxisMargin(k)
        edge == IF Horizontal(axis) THEN Canvas.height ELSE Canvas.width
        near == axis.position \in {"top", "left"}
    IN  [box |-> [from |-> IF near THEN used - size ELSE edge - used, size |-> size, innermost |-> Innermost(k)],
         offset |-> used]

allocateAxisBoxFirstPhase ==
    /\ pc = "boxes"
    /\ LET k == allocatedAxes[i]
       IN  /\ boxes' = [boxes EXCEPT ![k] = BoxOf(k).box]
           /\ plotOffset' = [plotOffset EXCEPT ![axes[k].position] = BoxOf(k).offset]
    /\ i' = i - 1
    /\ pc' = IF i = 1 THEN "margins" ELSE "boxes"
    /\ UNCHANGED <<axes, grid, plot>>

\* The border and what sticks out of the plot, which may lie where the labels are.
RoomAt(side) == Max({grid.minMargin, plotOffset[side] + grid.borderWidth})

Margins ==
    /\ pc = "margins"
    /\ plotOffset' = IF grid.show THEN [side \in Sides |-> RoomAt(side)] ELSE plotOffset
    /\ plot' = [width  |-> Canvas.width - plotOffset'["left"] - plotOffset'["right"],
                height |-> Canvas.height - plotOffset'["bottom"] - plotOffset'["top"]]
    /\ pc' = "done"
    /\ UNCHANGED <<axes, grid, i, boxes>>

Next == Reserve \/ allocateAxisBoxFirstPhase \/ Margins

Spec == Init /\ [][Next]_vars

-----------------------------------------------------------------------------
(* setTransformationHelpers: from a value to its place, with scales counted exactly, *)
(* as a number of pixels for a number of values.                                    *)

t(axis, value) == IF axis.inverted THEN -value ELSE value

Pixels(axis) == IF Horizontal(axis) THEN plot.width ELSE plot.height

Values(axis) == LET values == t(axis, axis.max) - t(axis, axis.min) IN IF values < 0 THEN -values ELSE values

\* Canvas coordinates begin at the left and at the top.
Origin(axis) ==
    LET ends == {t(axis, axis.max), t(axis, axis.min)}
    IN  IF Horizontal(axis) THEN Min(ends) ELSE Max(ends)

Towards(axis) == IF Horizontal(axis) THEN 1 ELSE -1

p2c(axis, p) == (Towards(axis) * (t(axis, p) - Origin(axis)) * Pixels(axis)) \div Values(axis)

c2p(axis, c) == t(axis, Origin(axis) + Towards(axis) * ((c * Values(axis)) \div Pixels(axis)))

-----------------------------------------------------------------------------
Boxed == {k \in DOMAIN axes : boxes[k] # Null}

To(box) == box.from + box.size

\* Axes on the same side do not overlap and those further in leave their margin
\* (allocateAxisBoxFirstPhase).
BoxesApart ==
    \A k, l \in Boxed : k < l /\ axes[k].position = axes[l].position =>
        IF axes[k].position \in {"top", "left"}
        THEN boxes[k].from >= To(boxes[l]) + grid.axisMargin
        ELSE To(boxes[k]) + grid.axisMargin <= boxes[l].from

\* The outermost axis of a side begins at the edge of the canvas, whatever there is on other sides.
OutermostAtEdge ==
    pc = "done" => \A k \in Boxed : k = Max(SamePosition(axes[k])) =>
        IF axes[k].position \in {"top", "left"} THEN boxes[k].from = 0
        ELSE To(boxes[k]) = IF Horizontal(axes[k]) THEN Canvas.height ELSE Canvas.width

\* No axis reaches into the plot: its box ends a border's width before it.
AxesOutsidePlot ==
    pc = "done" => \A k \in Boxed :
        LET start == plotOffset[IF Horizontal(axes[k]) THEN "top" ELSE "left"]
            end   == start + (IF Horizontal(axes[k]) THEN plot.height ELSE plot.width)
        IN  IF axes[k].position \in {"top", "left"} THEN To(boxes[k]) + grid.borderWidth <= start
            ELSE end + grid.borderWidth <= boxes[k].from

\* The values of the range are within the plot, all of it is for values of the range, and a
\* place leads back to its value (setTransformationHelpers).
PlacesAndValues ==
    pc = "done" => \A k \in DOMAIN axes :
        LET axis == axes[k]
        IN  Pixels(axis) > 0 =>
            /\ {p2c(axis, axis.min), p2c(axis, axis.max)} = {0, Pixels(axis)}
            /\ \A p \in axis.min..axis.max :
                  /\ p2c(axis, p) \in 0..Pixels(axis)
                  /\ Pixels(axis) % Values(axis) = 0 => c2p(axis, p2c(axis, p)) = p
=============================================================================
