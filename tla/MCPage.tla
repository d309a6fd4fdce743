------------------------------- MODULE MCPage -------------------------------
(* The page for TLC: a behaviour belongs to one part of jQuery, of flot or to the    *)
(* polls of the dashboard, and the variables v1, v2, ... are those of that part; the *)
(* ones that it does not need rest.                                               *)
EXTENDS MCPlots

CONSTANTS d1, d2, all, plain1, val1, val2,  \* Deferred
          c1, c2,                           \* callbacks of Deferred, points of FlotOverlay
          fn1, fn2, handler1, holder1,      \* Ready
          r1, r2,                           \* Ajax
          Manual, None

MCSettings ==
    {[global |-> TRUE,  timeout |-> TRUE, async |-> TRUE], [global |-> TRUE, timeout |-> FALSE, async |-> FALSE],
     [global |-> FALSE, timeout |-> TRUE, async |-> TRUE]}

\* AjaxTypes: what a request asks for, "*" for what the server says it is.
MCAsked ==
    {<<type>> : type \in {"*", "text", "json", "jsonp", "script", "xml", "html"}}
    \union {<<"*", "json">>, <<"text", "xml">>, <<"jsonp", "xml">>, <<"html", "script">>, <<"text", "html">>, <<"json", "xml">>}

MCContentTypes == {{}, {"xml"}, {"html"}, {"html", "xml"}, {"json"}, {"script"}}

\* Events: two bindings for one call, one of them outside, and one for all.
MCBindings ==
    {[at |-> "inner", guid |-> "f", ns |-> "",  one |-> FALSE], [at |-> "inner", guid |-> "g", ns |-> "n", one |-> TRUE],
     [at |-> "outer", guid |-> "f", ns |-> "",  one |-> TRUE]}

\* A handler does nothing to the event, or stops and prevents all of it.
MCResults == {[prevents |-> p, stops |-> p, immediately |-> p] : p \in BOOLEAN}

MCOptions == {[hoverable |-> TRUE, clickable |-> TRUE, autoHighlight |-> TRUE]}

-----------------------------------------------------------------------------
VARIABLES part, v1, v2, v3, v4, v5, v6, v7, v8, v9, v10, v11, v12, v13, v14, v15, v16, v17, v18

Promises == INSTANCE Deferred WITH
    Parts <- {d1, d2}, Master <- all, Arguments <- {<<d1, d2>>, <<plain1, d1>>}, Callbacks <- {c1, c2},
    Registrations <- {<<c1>>, <<c1, c2>>}, Values <- {val1, val2}, callbacks <- v1,
    fired <- v2, firing <- v3, cancelled <- v4, stack <- v5, promise <- v6, args <- v7,
    array <- v8, count <- v9, added <- v10, ran <- v11

\* What the theorems about Deferred take of its constants.
ASSUME PromisesFit == Promises!DeferredConstants

Readied == INSTANCE Ready WITH
    Functions <- {fn1, fn2}, Handlers <- {handler1}, Holders <- {holder1}, document <- v1, body <- v2,
    listening <- v3, timers <- v4, isReady <- v5, readyWait <- v6, readyBound <- v7,
    readyList <- v8, fired <- v9, handlers <- v10, stack <- v11, holding <- v12, freed <- v13,
    added <- v14, bound <- v15, ran <- v16, early <- v17, thrown <- v18

\* What the theorem about the order of functions takes of its constants.
ASSUME ReadyFits == Readied!ReadyConstants

Calls == INSTANCE Ajax WITH
    Requests <- {r1, r2}, Settings <- MCSettings, s <- v1, state <- v2, transport <- v3,
    xhr <- v4, callback <- v5, handle <- v6, timeoutTimer <- v7, installed <- v8,
    settled <- v9, completed <- v10, active <- v11, stack <- v12, gone <- v13, ends <- v14,
    busy <- v15, threw <- v16, abortedAtSend <- v17

Types == INSTANCE AjaxTypes WITH
    Asked <- MCAsked, ContentTypes <- MCContentTypes, AnyType <- "*", pc <- v1, request <- v2,
    dataTypes <- v3, global <- v4, transport <- v5, data <- v6

Event == INSTANCE Events WITH
    Elements <- {"inner", "outer"}, Root <- "outer",
    parentNode <- [e \in {"inner"} |-> "outer"], HasDefault <- {"inner"}, Inline <- {"outer"},
    Bindings <- MCBindings, Results <- MCResults, MaxBinds <- 3, MaxDepth <- 2, events <- v1,
    listening <- v2, triggered <- v3, stack <- v4, binds <- v5, ran <- v6, calls <- v7,
    nested <- v8, early <- v9

Fx == INSTANCE Effects WITH
    Animations <- {"a1", "a2", "b", "d"},
    elem <- [a \in {"a1", "a2", "b", "d"} |-> IF a = "b" THEN "f" ELSE "e"],
    props <- [a \in {"a1", "a2", "b", "d"} |-> IF a = "a1" THEN 2 ELSE 1], Delays <- {"d"},
    MaxCuts <- 1, MaxThrown <- 1, Sentinel <- "inprogress", queue <- v1, timers <- v2, timerId <- v3,
    timeouts <- v4, curAnim <- v5, stack <- v6, made <- v7, completed <- v8, again <- v9,
    cuts <- v10, reentered <- v11, lost <- v12,
    thrown <- v13

Overlay == INSTANCE FlotOverlay WITH
    Plots <- {1, 2}, Points <- {c1, c2}, Options <- MCOptions, plot <- v1, options <- v2,
    bound <- v3, highlights <- v4, redrawTimeout <- v5, overlay <- v6, listed <- v7,
    last <- v8, stale <- v9, shut <- v10

\* What the theorems about the plots take of its constants.
ASSUME PlotsFit == Overlay!OverlayConstants

Lines == INSTANCE FlotLines WITH
    Drawings <- MCDrawings, Bars <- MCBars, what <- v1, bars <- v2, i <- v3, pen <- v4,
    prev <- v5, pieces <- v6, sweep <- v7, path <- v8, fills <- v9, rectangles <- v10

Data == INSTANCE FlotData WITH
    Plots <- MCPlots, fakeInfinity <- 99, BarWidth <- 2, series <- v1, colors <- v2,
    pass <- v3, i <- v4, j <- v5, points <- v6, range <- v7

Ticks == INSTANCE FlotTicks WITH
    Charts <- MCCharts, noTicks <- 7, axes <- v1, pc <- v2, n <- v3, d <- v4, carry <- v5

Grids == INSTANCE FlotGrid WITH
    Layouts <- MCLayouts, Canvas <- [width |-> 160, height |-> 120], Grid <- MCGrid,
    axes <- v1, grid <- v2, pc <- v3, i <- v4, plotOffset <- v5, boxes <- v6, plot <- v7

Hover == INSTANCE FlotHover WITH
    Plots <- MCMarked, Mice <- MCMice, ScaleX <- 4, ScaleY <- 3, mouseActiveRadius <- 6,
    series <- v1, mouse <- v2, i <- v3, smallestDistance <- v4, item <- v5

Polls == INSTANCE Dashboard WITH
    MaxRows <- 2, MaxOpen <- 4, MaxFails <- 1, fails <- v1, rows <- v2, interval <- v3,
    open <- v4, shown <- v5

Rest18 == v18 = "rest"
Rest17 == v17 = "rest" /\ Rest18
Rest16 == v16 = "rest" /\ Rest17
Rest15 == v15 = "rest" /\ Rest16
Rest14 == v14 = "rest" /\ Rest15
Rest13 == v13 = "rest" /\ Rest14
Rest12 == v12 = "rest" /\ Rest13
Rest11 == v11 = "rest" /\ Rest12
Rest10 == v10 = "rest" /\ Rest11
Rest9 == v9 = "rest" /\ Rest10
Rest8 == v8 = "rest" /\ Rest9
Rest7 == v7 = "rest" /\ Rest8
Rest6 == v6 = "rest" /\ Rest7
Rest5 == v5 = "rest" /\ Rest6
Rest4 == v4 = "rest" /\ Rest5
Rest3 == v3 = "rest" /\ Rest4
Rest2 == v2 = "rest" /\ Rest3

Still6 == UNCHANGED <<v6, v7, v8, v9, v10, v11, v12, v13, v14, v15, v16, v17, v18>>
Still7 == UNCHANGED <<v7, v8, v9, v10, v11, v12, v13, v14, v15, v16, v17, v18>>
Still8 == UNCHANGED <<v8, v9, v10, v11, v12, v13, v14, v15, v16, v17, v18>>
Still10 == UNCHANGED <<v10, v11, v12, v13, v14, v15, v16, v17, v18>>
Still11 == UNCHANGED <<v11, v12, v13, v14, v15, v16, v17, v18>>
Still12 == UNCHANGED <<v12, v13, v14, v15, v16, v17, v18>>
Still14 == UNCHANGED <<v14, v15, v16, v17, v18>>
Still18 == UNCHANGED <<v18>>

-----------------------------------------------------------------------------
PageInit ==
    \/ part = "promises" /\ Promises!Init /\ Rest12
    \/ part = "ready" /\ Readied!Init
    \/ part = "ajax" /\ Calls!Init /\ Rest18
    \/ part = "types" /\ Types!Init /\ Rest7
    \/ part = "events" /\ Event!Init /\ Rest10
    \/ part = "effects" /\ Fx!Init /\ Rest14
    \/ part = "overlay" /\ Overlay!Init /\ Rest11
    \/ part = "lines" /\ Lines!Init /\ Rest11
    \/ part = "data" /\ Data!Init /\ Rest8
    \/ part = "ticks" /\ Ticks!Init /\ Rest6
    \/ part = "grid" /\ Grids!Init /\ Rest8
    \/ part = "hover" /\ Hover!Init /\ Rest6
    \/ part = "poll" /\ Polls!Init /\ Rest6

PageNext ==
    \/ part = "promises" /\ Promises!Next /\ UNCHANGED part /\ Still12
    \/ part = "ready" /\ Readied!Next /\ UNCHANGED part
    \/ part = "ajax" /\ Calls!Next /\ UNCHANGED part /\ Still18
    \/ part = "types" /\ Types!Next /\ UNCHANGED part /\ Still7
    \/ part = "events" /\ Event!Next /\ UNCHANGED part /\ Still10
    \/ part = "effects" /\ Fx!Next /\ UNCHANGED part /\ Still14
    \/ part = "overlay" /\ Overlay!Next /\ UNCHANGED part /\ Still11
    \/ part = "lines" /\ Lines!Next /\ UNCHANGED part /\ Still11
    \/ part = "data" /\ Data!Next /\ UNCHANGED part /\ Still8
    \/ part = "ticks" /\ Ticks!Next /\ UNCHANGED part /\ Still6
    \/ part = "grid" /\ Grids!Next /\ UNCHANGED part /\ Still8
    \/ part = "hover" /\ Hover!Next /\ UNCHANGED part /\ Still6
    \/ part = "poll" /\ Polls!Next /\ UNCHANGED part /\ Still6

PageVars == <<part, v1, v2, v3, v4, v5, v6, v7, v8, v9, v10, v11, v12, v13, v14, v15, v16, v17, v18>>

-----------------------------------------------------------------------------
(* The fairness of the parts that have any (Ready, Ajax, Dashboard).               *)

readyVars == <<v1, v2, v3, v4, v5, v6, v7, v8, v9, v10, v11, v12, v13, v14, v15, v16, v17, v18>>
ajaxVars  == <<v1, v2, v3, v4, v5, v6, v7, v8, v9, v10, v11, v12, v13, v14, v15, v16, v17>>
pollVars  == <<v1, v2, v3, v4, v5>>

PageFairness ==
    /\ WF_readyVars(part = "ready" /\ Readied!Runs)  /\ WF_readyVars(part = "ready" /\ Readied!Parse)
    /\ WF_readyVars(part = "ready" /\ Readied!Load)  /\ WF_readyVars(part = "ready" /\ Readied!Timer)
    /\ SF_readyVars(part = "ready" /\ Readied!LetGo(holder1))
    /\ WF_ajaxVars(part = "ajax" /\ Calls!Library)
    /\ \A r \in {r1, r2} : WF_ajaxVars(part = "ajax" /\ Calls!Timeout(r))
    /\ WF_pollVars(part = "poll" /\ Polls!Ready)     /\ SF_pollVars(part = "poll" /\ Polls!Poll)
    /\ \A kind \in Polls!Kinds, asked \in 0..2 : /\ WF_pollVars(part = "poll" /\ Polls!Answers(kind, asked))
                                                /\ WF_pollVars(part = "poll" /\ Polls!Shows(kind, asked))
    /\ \A asked \in 0..2 : WF_pollVars(part = "poll" /\ Polls!Follows(asked))

PageSpec == PageInit /\ [][PageNext]_PageVars /\ PageFairness

-----------------------------------------------------------------------------
(* The properties of each part; those they are made of are in its module.           *)

\* Deferred: a callback that throws takes none with it; jQuery.when tells of all its parts,
\* or of one that was rejected, and does so once all are settled.
PromisesKept == part = "promises" => Promises!NoneForgotten /\ Promises!WhenIsAll /\ Promises!WhenTells

\* Ready: nothing runs before the document is there, nor while anyone holds it; functions
\* run in their order, each once.
ReadyInTurn == part = "ready" => Readied!NotEarly /\ Readied!EachOnce

\* Ajax: a request is over once, whatever ends it; jQuery.active counts those under way,
\* ajaxStart and ajaxStop alternate, and no connection is left open or listening.
RequestsEnd ==
    part = "ajax" => Calls!EndsOnce /\ Calls!ActiveIsRight /\ Calls!StartsAndStops /\ Calls!NoneLeftOpen

\* AjaxTypes: success gets the type that was asked for, or that the server says, by
\* converters that fit; an answer is refused only if it must be.
TypesAreRight == part = "types" => Types!TypeDelivered /\ Types!ServerDecides /\ Types!FailsForCause

\* Events: an element listens as long as it has handlers; they run in the order of binding,
\* for an event once, those for one call once at all; the browser is heard but for the
\* time of a default action.
HandlersAreRight ==
    part = "events" => /\ Event!ListensForHandlers /\ Event!CalledAsBound
                       /\ Event!OnceOnly /\ Event!CalledOnce /\ Event!DeafOnlyInDefault

\* Effects: a queue in progress has something that goes on with it; timers are there
\* while the interval is; animations of an element run one by one, and complete once.
EffectsInTurn ==
    part = "effects" => Fx!NeverStuck /\ Fx!TimersTick /\ Fx!CompletesOnce /\ Fx!OneAtATime

\* FlotOverlay: only the last plot of a placeholder listens; what is highlighted is drawn or
\* about to be; one point is highlighted for the mouse and one for the click.
HighlightsAreRight ==
    part = "overlay" => Overlay!OnlyTheLastLives /\ Overlay!OverlayIsRight /\ Overlay!OneHoverOneClick

\* FlotLines: lines, areas and bars are drawn just where they are within the range.
DrawnWithinRange == part = "lines" => Lines!LineIsClipped /\ Lines!AreaIsFilled /\ Lines!BarsAreClipped

\* FlotData: colours exist, the range of an axis is that of its data, steps are square.
DataIsRight == part = "data" => Data!ColorsExist /\ Data!RangeIsOfData /\ Data!StepsAreSquare

\* FlotTicks: an axis shows its data; ticks span it, are about as many as were asked for,
\* can be told apart, begin each month, and are where those of an aligned axis are.
TicksAreRight ==
    part = "ticks" => /\ Ticks!DataIsShown /\ Ticks!TicksSpanRange /\ Ticks!TicksAreFew
                      /\ Ticks!LabelsDiffer /\ Ticks!MonthsBegin /\ Ticks!AlignedTogether

\* FlotGrid: axes of a side do not overlap, the outermost is at the edge of the canvas, none
\* reaches into the plot; places and values lead to each other.
AxesAreRight ==
    part = "grid" => /\ Grids!BoxesApart /\ Grids!OutermostAtEdge
                     /\ Grids!AxesOutsidePlot /\ Grids!PlacesAndValues

\* FlotHover: the mouse is over the nearest point in reach, or else the bar drawn last.
ItemIsRight == part = "hover" => Hover!NearestPoint /\ Hover!TopmostBar

\* Dashboard: what is shown is no older than the poll that it answers.
AsFreshAsAsked == part = "poll" => Polls!AsFreshAsAsked

(* Action and liveness properties *)

\* Deferreds with jQuery's lists of callbacks implement the promise of Promise.tla.
ImplementsPromise ==
    /\ part = "promises" => Promises!Promised!Init
    /\ [][part = "promises" => Promises!Promised!Next]_(Promises!Promised!vars)

Waits == (part = "ready" /\ Readied!Added(fn1)) \/ (part = "ajax" /\ Calls!UnderWay(r1))
Comes == (part = "ready" /\ Readied!Called(fn1)) \/ (part = "ajax" /\ Calls!Ended(r1))

\* Every function that was given to ready runs (fn1, as fn2 is like it); a request with a
\* timeout comes to its end (r1, as r2 is like it); the page shows the latest row in the
\* end, once no more come.  A behaviour is of one part, so that what waits in one is not
\* taken to be done in another.
PageGoesOn == (Waits ~> Comes) /\ <>[](part = "poll" => Polls!UpToDate)
=============================================================================
