---------------------------- MODULE FlotOverlay ----------------------------
(* The plots of one placeholder and what they highlight (jquery.flot.js 732-811,   *)
(* 2338-2466): $.plot called again reuses the canvases of the plot before and       *)
(* shuts it down; hovering, clicking and the page highlight points, and a timer     *)
(* draws them on the overlay.                                                    *)
EXTENDS Integers, Sequences, SequencesExt, FiniteSets

CONSTANTS Plots,    \* 1..n, in the order in which they are made
          Options,  \* what a plot is made with: [hoverable, clickable, autoHighlight : BOOLEAN]
          Points,   \* of their series, none of them twice
          Manual,   \* highlights of the page are not of an event
          None

\* What the theorems about the plots take of it.
OverlayConstants == Plots \subseteq Nat \ {0}

VARIABLES plot,           \* data("plot") of the placeholder, 0 at first
          options,        \* of each plot: hoverable, clickable, autoHighlight
          bound,          \* what each listens to on the canvases
          highlights,
          redrawTimeout,  \* "no", "due", or "cleared" and not null again
          overlay,        \* what is drawn
          listed,         \* the plots that have their list of highlights
          last,           \* history: the point of the last event of each kind
          stale,          \* history: the page used a plot that was replaced
          shut            \* history: the plots that were shut down

vars == <<plot, options, bound, highlights, redrawTimeout, overlay, listed, last, stale, shut>>

Kinds == {"plothover", "plotclick"}

NoOptions == [hoverable |-> FALSE, clickable |-> FALSE, autoHighlight |-> FALSE]

Init ==
    /\ plot = 0 /\ options = [p \in Plots |-> NoOptions]
    /\ bound = [p \in Plots |-> {}] /\ highlights = [p \in Plots |-> <<>>]
    /\ redrawTimeout = [p \in Plots |-> "no"] /\ overlay = {}
    /\ listed = {} /\ last = [k \in Kinds |-> None] /\ stale = FALSE /\ shut = {}

-----------------------------------------------------------------------------
(* $.plot                                                                      *)

bindEvents(opts) ==
    (IF opts.hoverable THEN {"plothover"} ELSE {}) \union (IF opts.clickable THEN {"plotclick"} ELSE {})

unbind(p) == [q \in Plots |-> IF q = p THEN {} ELSE bound[q]]

\* The plot before, if there is one: its timer is cleared, and not null again.
shutdown(p) ==
    /\ redrawTimeout' = [q \in Plots |-> IF q = p /\ redrawTimeout[q] = "due" THEN "cleared" ELSE redrawTimeout[q]]
    /\ shut' = shut \union ({p} \intersect Plots)

\* setupCanvases: the canvases of the plot before are reused, it is shut down, and the
\* overlay is cleared.  The new plot listens when it has been drawn, and has its list of
\* highlights after that: data that it cannot draw makes it throw before.
Replot(opts, draws) ==
    /\ plot + 1 \in Plots
    /\ shutdown(plot)
    /\ plot' = plot + 1
    /\ options' = [options EXCEPT ![plot + 1] = opts]
    /\ bound' = [unbind(plot) EXCEPT ![plot + 1] = IF draws THEN bindEvents(opts) ELSE {}]
    /\ listed' = IF draws THEN listed \union {plot + 1} ELSE listed
    /\ overlay' = {}
    /\ last' = [k \in Kinds |-> None]
    /\ UNCHANGED <<highlights, stale>>

\* The placeholder has no room, as when it is hidden: getCanvasDimensions throws, after the
\* plot before was shut down and before the new one takes its place.
NoRoom ==
    /\ plot # 0
    /\ shutdown(plot)
    /\ bound' = unbind(plot)
    /\ UNCHANGED <<plot, options, highlights, overlay, listed, last, stale>>

-----------------------------------------------------------------------------
(* Highlights.                                                                 *)

triggerRedrawOverlay(p) ==
    redrawTimeout' = [redrawTimeout EXCEPT ![p] = IF @ = "no" THEN "due" ELSE @]

indexOfHighlight(hs, point) == SelectInSeq(hs, LAMBDA h : h.point = point)

Highlighted(hs, point, auto) ==
    LET i == indexOfHighlight(hs, point)
    IN  IF i = 0 THEN Append(hs, [point |-> point, auto |-> auto])
        ELSE IF auto = Manual THEN [hs EXCEPT ![i].auto = Manual]
        ELSE hs

Unhighlighted(hs, point) ==
    LET i == indexOfHighlight(hs, point) IN IF i = 0 THEN hs ELSE RemoveAt(hs, i)

\* An event of the mouse at a point or at none: highlights that such events made go, and
\* the point is highlighted.  The loop goes on behind the place of one that went.
ClearAuto(hs, kind, item) ==
    LET Clear[i \in Nat, left \in Seq([point : Points, auto : Kinds \union {Manual}])] ==
            IF i > Len(left) THEN left
            ELSE IF left[i].auto = kind /\ left[i].point # item
                 THEN Clear[i + 1, Unhighlighted(left, left[i].point)]
                 ELSE Clear[i + 1, left]
    IN  Clear[1, hs]

RedrawIfMore(p, before) ==   \* mutant: what goes is not thought of
    IF Len(highlights'[p]) > Len(before) THEN triggerRedrawOverlay(p) ELSE UNCHANGED redrawTimeout

RedrawIfChanged(p, before) ==
    IF [i \in DOMAIN before |-> before[i].point] # [i \in DOMAIN highlights'[p] |-> highlights'[p][i].point]
    THEN triggerRedrawOverlay(p) ELSE UNCHANGED redrawTimeout

MouseEvent(p, kind, item) ==
    /\ kind \in bound[p]
    /\ highlights' =
          IF ~options[p].autoHighlight THEN highlights
          ELSE LET left == ClearAuto(highlights[p], kind, item)
               IN  [highlights EXCEPT ![p] = IF item = None THEN left ELSE Highlighted(left, item, kind)]
    /\ RedrawIfChanged(p, highlights[p])
    /\ last' = [last EXCEPT ![kind] = item]
    /\ UNCHANGED <<plot, options, bound, overlay, listed, stale, shut>>

\* The page has the plots that it made; one that has no list of highlights throws.
highlight(p, point) ==
    /\ p \in listed
    /\ highlights' = [highlights EXCEPT ![p] = Highlighted(@, point, Manual)]
    /\ RedrawIfChanged(p, highlights[p])
    /\ stale' = (stale \/ p # plot)
    /\ UNCHANGED <<plot, options, bound, overlay, listed, last, shut>>

unhighlight(p, point) ==
    /\ p \in listed
    /\ highlights' = [highlights EXCEPT ![p] = Unhighlighted(@, point)]
    /\ RedrawIfChanged(p, highlights[p])
    /\ stale' = (stale \/ p # plot)
    /\ UNCHANGED <<plot, options, bound, overlay, listed, last, shut>>

unhighlightAll(p) ==
    /\ p \in 1..plot
    /\ highlights' = [highlights EXCEPT ![p] = <<>>]
    /\ triggerRedrawOverlay(p)
    /\ stale' = (stale \/ p # plot)
    /\ listed' = listed \union {p}
    /\ UNCHANGED <<plot, options, bound, overlay, last, shut>>

drawOverlay(p) ==
    /\ redrawTimeout[p] = "due"
    /\ redrawTimeout' = [redrawTimeout EXCEPT ![p] = "no"]
    /\ overlay' = {highlights[p][i].point : i \in DOMAIN highlights[p]}
    /\ UNCHANGED <<plot, options, bound, highlights, listed, last, stale, shut>>

-----------------------------------------------------------------------------

Next ==
    \/ \E opts \in Options, draws \in BOOLEAN : Replot(opts, draws)
    \/ NoRoom
    \/ \E p \in Plots : \/ \E kind \in Kinds, item \in Points \union {None} : MouseEvent(p, kind, item)
                        \/ \E point \in Points : highlight(p, point) \/ unhighlight(p, point)
                        \/ unhighlightAll(p)
                        \/ drawOverlay(p)

Spec == Init /\ [][Next]_vars

-----------------------------------------------------------------------------
(* Properties.                                                                 *)

\* However plots follow each other on the same canvases, or fail to: the mouse is heard by
\* the last one only, unless it was shut down, and only its timer is going.
OnlyTheLastLives ==
    \A p \in Plots : /\ p # plot \/ p \in shut => bound[p] = {}
                     /\ p # plot => (redrawTimeout[p] = "due" => stale)

\* What the overlay shows is what is highlighted, or it is going to be drawn, unless the
\* page used a plot that was replaced: that one draws on the same overlay.  A plot whose
\* successor had no room may have been shut down with its timer going: it draws no more.
OverlayIsRight ==
    plot # 0 /\ ~stale =>
        \/ overlay = {highlights[plot][i].point : i \in DOMAIN highlights[plot]}
        \/ redrawTimeout[plot] = "due"
        \/ redrawTimeout[plot] = "cleared" /\ plot \in shut

\* What hovering has highlighted is at most one point, the last one hovered, and the same
\* of clicking, whatever the other and the page highlight and unhighlight meanwhile.
OneHoverOneClick ==
    \A p \in Plots, kind \in Kinds : \A i \in DOMAIN highlights[p] :
        p = plot /\ highlights[p][i].auto = kind => highlights[p][i].point = last[kind]
=============================================================================
