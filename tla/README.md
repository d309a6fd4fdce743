# Timestore: models and proofs

Timestore is an HTTP server that keeps time series in files.  A *node* is a set of metrics sampled at a fixed
interval.  Its rows are in a *table* file, and up to seven further tables hold the same series at lower and lower
resolution.  A web page polls the server and plots a node.  This directory has TLA+ models of both, the
configurations that check them with TLC, and proofs that TLAPS checks.  `src/src/...` is the C code of the server,
`src/tools/...` its clients, `src/examples/html/...` the page: its script `bandwidth.js`, with jQuery 1.6 and flot.

## 1. Inventory

| Component | State | Operations | Talks to |
|---|---|---|---|
| Storage engine (`tsdb.c` 256-543) | metadata page, shared by `mmap`: `npoints`, `start_time`, parameters; one table file per layer | `tsdb_update_values`, `tsdb_update_layer` (recursive), `tsdb_get_latest`, `tsdb_get_values` | table files by `lseek`/`read`/`write`; other threads through the metadata page |
| Downsampling (`tsdb.c` 352-443) | accumulators of one call | the loop in `tsdb_update_layer` | the layer below |
| Series reader (`tsdb.c` 545-675) | buffer and output of one call | `tsdb_get_series` | the tables and `npoints`, while others write |
| Node files (`tsdb.c` 45-254) | directory entries of the metadata and the tables | `tsdb_create`, `tsdb_delete`, `tsdb_open`, `tsdb_close` | all of the above: every request opens the node for itself |
| Key store (`tsdb.c` 677-722) | keys in the metadata page | `tsdb_get_key`, `tsdb_set_key` | the handlers' access checks |
| Request handlers (`http_tsdb.c`) | locals of one request | get/put/delete node, keys, values, series, redirect to latest; parsers of the JSON payloads | engine, cJSON, signatures |
| CSV import (`http_csv.c`) | locals of one request | upload of many rows | engine |
| HTTP (`http.c`) | entity tree (constant), a context per request | routing, upload in chunks, signature check, response | libmicrohttpd: a thread per connection (line 396) |
| Daemon (`main.c`), admin key (`http_tsdb.c` 919-963) | admin key file | start, options, signals, generation of the key | files |
| base64, SHA-2, cJSON, logging, profiling; clients and the test script in `tools/` | - | - | - |
| Page: polls (`bandwidth.js`) | the timer; what the page shows | ready handler, `get_current`, `reload_graph`, `onDataReceived` | the server by `$.ajax`; `$.plot` |
| Page: deferreds (`jquery.js` 813-978) | callback lists with `fired`, `firing`, `cancelled` | `done`, `fail`, `resolveWith`, `when` | ready and ajax rest on them |
| Page: ready (266-274, 396-475, 1047-1058) | `isReady`, `readyWait`, `readyList`, listeners, timers | `$(f)`, `ready`, `bindReady`, holds | the browser's events |
| Page: ajax (6408-6782, 7196-7412) | state, timer, transport of a request; `jQuery.active`, `xhrCallbacks` | `ajax`, `done`, `abort`, timeout, transport callback | deferreds, global events, XMLHttpRequest |
| Page: data types of ajax (6143-6181, 6874-7192) | `dataTypes`, the response | prefilters, choice of transport, mediation, conversion | ajax |
| Page: events (2143-2580, 2697-2774, 3012-3060) | handlers of each element, `triggered` | `add`, `remove`, `trigger`, `handle`, `one` | the browser |
| Page: queues and effects (1639-1733, 7521-7893) | queues, `timers`, `timerId` | `queue`, `dequeue`, `delay`, `animate`, `stop`, `step`, `tick` | one interval for all |
| Page: flot, interaction (`jquery.flot.js` 732-811, 2251-2466) | highlights, redraw timer, bound events | mouse events, `findNearbyItem`, `highlight`, `drawOverlay`, `shutdown` | the placeholder it shares with the plot before |
| Page: flot, drawing and axes (398-684, 813-1411, 1718-2144) | series, points, axes | `processData`, `setRange`, ticks, boxes, clipping | canvas |
| Page: the rest of jQuery and flot | - | selectors, styles, manipulation; legend, shadows, text | - |

**What is hard.**  Every connection is a thread, every thread has its own handle on the node, the handles share one
metadata page and the page cache, and nothing is locked (`tsdb.c` 481 "FIXME: Locking!").  A post is a long sequence
of accesses: it reads the count, pads, merges and writes a row in each layer, then commits the count.  In between
other posts, readers, deletions, failing calls and a kill of the process may come.  Apart from concurrency, the
arithmetic that ties rows of one layer to rows of the next has to hold for every order of posting, with gaps and
overwrites.  `PROJECT.json` lists the hazards, each with its line and the properties that cover it.

The page has one thread, but its callbacks come in any order, call the library again while it is in the middle of
a loop over the very lists they change, and may throw out of it: the models of jQuery keep the stack of calls that are
active, and let the page do anything at each place where its code runs.  Flot is arithmetic with many cases at edges.

**What makes the parts correct.**
* Engine: readers never read a row that is not there; no layer lags behind the committed count; each lower row is
  the downsampling of its block; a post takes effect once and as a whole, or not at all; acknowledged posts took effect.
* Downsampling: the outcome is what the mode promises, and unknown exactly if the block is.
* Series: points in order and within the caller's buffer; each made of the rows of its period, all of them, none twice.
* Requests: an answer tells what was changed; what a request holds is released; a key that rests is read whole; each
  is answered as long as its client stays and the process lives.
* Page: a deferred settles once, a request ends once and is counted once, functions are called once and in order,
  a queue goes on, what is drawn is what the data and the range say, and what is shown becomes the latest.
* Daemon: the key file tells the key of the server that runs, and a known key is not lost, unless it cannot be read.
* Node files: of competing requests one wins; a deletion leaves nothing; a new node starts empty; opening answers.

## 2. The modules

### Storage engine: `Rows`, `TimeSeries`, `Tsdb`, `MCTsdb`, `TsdbProofs`

`Rows` holds what a row is: a function from metrics to values, `NaN` among them, and the merge of a post into a row
(`tsdb.c` 333-339).  Values are abstract; the parameter `Agg(m, f)` is the downsampling of the known values of a block.

`Tsdb` is the code, a step per access to shared state.  `npoints`, `start_time` and `table` are the metadata and the
files.  `pc[t]`, `frame[t]` and `rc[t]` are a thread's position, its locals and the outcome of its latest request.

| Action | Code |
|---|---|
| `Post` | the handler up to the call, `http_tsdb.c` 663-723 |
| `CheckEmpty`, `SetStart` | `tsdb.c` 485, 486 |
| `Refuse`, `Locate`, `ReadSize` | 489-499 |
| `Pad`, `Probe`, `Reread`, `Write` | the top half of `tsdb_update_layer`, 269-349 |
| `Decimate` | 352-450: read the block, compute, recurse |
| `Test`, `Commit`, `Reply` | 502, 503, 506-510 |
| `NoLatest`, `GetLatest`, `Redirect` | 461-468 and the redirect of `http_tsdb.c` 610-661 |
| `GetValues`, `TooOld`, `Seek`, `TooNew`, `Bound`, `Fetch`, `FetchRounded` | 512-543, `http_tsdb.c` 739-799 |
| `FailTop`, `FailBelow`, `FailFetch` | a failing call: the top layer reports it, a lower one is ignored (446) |
| `Crash` | the process is killed; page cache and mapping survive |

Three choices need a word.  `ReadSize` may use the count that `CheckEmpty` read: nothing between lines 485 and 499
forces a compiler to load it again, so both outcomes are in the model.  `Pad` is one step although the code writes
blocks in a loop, and the read of a block in `Decimate` is one step as in the code.  `start_time` is read once in `Locate` and `Seek`.

`TimeSeries` is what a client may rely on: a sequence of rows on a grid of slots, to which a post is applied at one
moment between request and answer: a request is `asked`, then `done`, then answered.  `Tsdb!ImplementsTimeSeries` states the
refinement, and `Safe` is its safety part.  The series is the committed prefix of the top-level table (`Committed`, `FirstSlot`), the
requests are what the frames hold (`Posting`), and a post has taken effect once its slot is below the count and its row is
written (`TookEffect`, `Stage`): at `Write` if the slot counts already, else at `Commit`.

### Downsampling: `Downsample`, `MCDownsample`, `ServerProofs`

The loop over the rows of one block for one metric: `Start` (372-384), `Skip` for unknown values, `Take`, `Complete`
(421-443).  Median and Mode accumulate nothing in the code, and so in the model.  Numbers are exact.  `SumOf`, the
reference for sums and means, is a fold over the set of known rows.

### Series: `Series`, `MCSeries`, `SeriesProofs`

`tsdb_get_series` with a writer at work.  A row is represented by its number, so a point records *which* rows went
into its mean; `Junk` is a number found in uninitialised memory.  `Begin` fills in limits and picks the layer, then
each output time goes through `Skip`, or `Seek` and `Read`.  The writer extends the top layer (`Extend`), the lower
ones (`ExtendBelow`), commits (`Commit`), and fills gaps (`Fill`).  `known` is a history variable.

### Node files: `NodeFiles`, `NodeRegistry`, `MCNodeFiles`, `NodeFilesProofs`

A step is one system call on the directory.  Files are numbered as they are created and outlive their names, as open
files do; a metadata file of zero layers is an empty one.  `Validate`/`Sigbus` is the first access to the mapping.
`Use` stands for a whole post through a handle, which the engine's module has in detail.  `FailCall` is a failing call of a request, for
whatever reason: a creation whose `open` fails though there is no file, a deletion whose first `unlink` does, an open that fails at any step.  `NodeRegistry` is the
abstract view: the node exists or not, and each request takes effect at one moment.

### Requests: `Requests`, `MCRequests`, `RequestsProofs`

A request from its header to its answer.  libmicrohttpd calls `http_handler` once to make a context (`Receive`), once per piece of
the body (`Join`), and once more to dispatch (`Dispatch`, `NoHandler`, `Refuse`); `Respond` releases the context.  `Tree` is the entity
tree of `http.c` 63-122, `Checks` the order in which each handler looks at a request before it touches the node.  After `Open`,
`GetFlags`, `GetHead` and `GetTail` copy the key as `tsdb_get_key` does, `SetFlags`, `SetHead` and `SetTail` store one.  The rest of
the handlers follows; one operation of the engine is a step here and a sequence of steps in `Tsdb`.  CSV uploads go row by row
(`ImportRow`, `RefuseRow`, `EndImport`).  `effects`, `raced` and `torn` are history variables.

The process may die under all its connections (`Dies`): it is killed (`Kill`), it opens a node whose metadata is still, or for good, an empty file
(`OpenEmpty`; a creation is two steps for that reason, `CreateNode` and `Populate`), or it uses an allocation that nobody checked
(`OutOfMemory`: the copy of the path in `http_find_entity`, the JSON of an answer).  The files stay as they are, a key that was being set
included (`torn`), every connection is `Closed`, and the next process starts like the first.  The administrator has one connection: of two
overlapping changes of one key, a mix of both may stay for good.

### Parts of the server that run on their own: `Payloads`, `Daemon`, `MCPayloads`, `MCServer`, `ServerProofs`

`Payloads` takes the body of a request through the parsers of `http_tsdb.c` 73-253 into the metadata and back out in a GET of the
node, and follows the layers a post would descend.  `Daemon` is `main.c` with the admin key: an instance looks for the
key file, reads or generates a key, writes it, binds the port, serves, ends or is killed.  A read that fails yields no key, as a short file does
(`Read`; `misread` remembers that the file was complete).  `MCServer` puts
downsampling, daemon, payloads and the node files for one connection into one specification: a behaviour belongs to one
of them, `part` says which, and the variables of the others rest.

### Page: `Dashboard`, `Promise`, `Deferred`, `DeferredProofs`, `Ready`, `PageProofs`, `Ajax`, `AjaxTypes`, `Events`, `Effects`, `Flot...`, `MCPage`, `MCPlots`

| Module | State and actions |
|---|---|
| `Deferred` | callback lists of each deferred and the frames of `resolveWith` and `when` that are active; `Page` registers, settles, returns and throws wherever its code runs, `Library` goes on. Implements `Promise`: a deferred is settled once, and its callbacks are called once each, in order, with its value |
| `Ready` | the document (`Parse`, `Load`, `Timer`), who holds ready back (`Hold`, `LetGo`), the list of functions and the event `ready` |
| `Ajax` | a request from `ajax` through its events to `done` (`Refused`, `Send`, `SendSync`, `Abort`, `Timeout`, `Answer`, `Unload`, `Throw`); the frame says at which event the library is |
| `AjaxTypes` | the four steps that types go through: `Prefilter`, `ChooseTransport`, `HandleResponses`, `Convert` |
| `Events` | handlers of elements in a tree; an event on its way is a frame with its copy of the handlers; `CallInline` calls the inline handler of the page, before or after them where the browser sends the event (`Comes`, `Hear`); `Rise` goes to the parent, `Default` is the element's own method; `Throw` ends the frames up to one that the browser sent, which goes on at the parent, or to an inline handler in a `try` |
| `Effects` | queues of elements, timers, and frames of `dequeue`, `animate`, `tick` and `stop`; the splices of `tick` and `stop` work on the same array, as in the code. `Throw` and `StepThrows` are exceptions out of the functions `complete` and `step` of the page, which nothing catches: `Unwind` leaves all that is under way undone, and `thrown` has the elements it was for |
| `FlotOverlay` | plots that follow each other in a placeholder (`Replot`, with data that can be drawn or not), or fail to for want of room (`NoRoom`: the plot before is shut down then, and stays), what is highlighted, the timer of 30 ms |
| `FlotHover` | `findNearbyItem`, a step per series |
| `FlotLines` | `plotLine` and `plotLineArea` a segment at a time, `drawBar` |
| `FlotData` | colours, then the two passes of `processData` |
| `FlotTicks` | `setRange`, size, ticks, labels, snapping, an axis at a time; the calendar of `Date` is external |
| `FlotGrid` | reserved room, boxes of the axes, the plot's offset, `p2c` and `c2p` |
| `Dashboard` | polls, answers and redirects of the server, what is shown; `Post` adds a row to the node |

`MCPage` composes them as `MCServer` does: the parts share no state but the browser's thread, so a behaviour belongs to one,
and `v1`, `v2`, ... are the variables of that one.  `MCPlots` has the inputs for flot.  Its properties conjoin those
of the part's module, which are stated and commented there.

## 3. Runs

Passing runs:

| Run | Shows | Bounds |
|---|---|---|
| `layers_one_writer` | lower layers are the downsampling of the upper ones, the count is the table's length | 3 layers, decimation 2 and 2, 5 slots: two full blocks and a started one in the middle, values weighed by position in `Agg` so that a shifted or repeated row shows |
| `races` | no layer shorter than the count calls for, none written beyond its end; a checked read is never short | 2 posting connections, 1 reading, 2 layers, kills; slots 0 to 2 make gaps, appends and overwrites. Lengths only: the posted rows are all unknown, since no step looks at a value. The posting connections are symmetric |
| `kills` | a post repairs the rows on its way down, whatever killed posts left behind; the grid of slots does not move | 1 posting connection, 3 layers, kills at every step, 5 slots |
| `time_series` | the engine implements `TimeSeries`, liveness included; a redirect to the latest slot stays good | 1 posting connection, 1 reading, interval 2 with times off the grid, 2 layers, kills, failing calls |
| `server_parts` | each downsampling mode yields what it promises; the key file; what is described is what was defined; deletion is complete, a new node is empty | all blocks of up to 4 rows over five numbers and unknown; 1 instance, 5 seconds, kills and failing calls; the bodies of `MCPayloads`; 1 connection, nodes of 1 and 3 tables in turn |
| `series` | order, room, existence, disjointness, coverage, an answer | 5 rows, any of them unknown, decimation 3, periods shorter than, equal to and longer than a row of either layer, times off the grid |
| `requests` | what an answer says of the changes made, what is released, how keys are read, that an answer comes unless the client leaves or the process dies | 2 connections, 1 of the administrator, who alone sends some that anybody could send (redirects, unknown paths, a metric or count that is wrong), so that there are fewer pairs; every handler with every check failing and passing; uploads of 2 and 3 rows with a bad one, an early one or a cut one; 1 node made and deleted; failing allocations and calls, kills |
| `node_registry` | the files implement the registry; parameters are never touched | 2 threads, 2 tables, 2 creations, kills and failing calls |
| `page` | the properties of every part of the page | 2 deferreds and the one of `when`, 2 callbacks; 2 functions, a handler, a holder; 2 requests; 13 lists of types, 6 content types; a tree of 2 elements, the outer with an inline handler, the inner with a method, 3 bindings, events within events once; 3 animations and a delay on 2 elements, 1 `stop`, exceptions until one has passed the work of an element; 2 plots, 2 points; series of up to 4 points, 3 or 4 axes; 2 rows, 4 requests under way, 1 lost |

`time_series` has one posting connection because its properties do not hold for two: see the next table.  The node files in
`server_parts` have one connection for the same reason.  `server_parts`, `series` and `page` stop when what they compute
is done, so deadlock is not checked there.  `Times`, `MaxRows`, `MaxCreated`, `LastTime`, `MaxBinds`, `MaxDepth`, `MaxCuts`, `MaxThrown`, `MaxOpen`
and `MaxFails` are the only bounds that cut off behaviour; two full blocks per layer, three nodes in turn, or one event within another
reach every branch, which the runs' coverage confirms.

Runs that end in a violation, each a disagreement between the code and what a comment or document says of it:

| Run | What happens |
|---|---|
| `known_race` | padding from a stale count (line 499) overwrites a committed value, which `tsdb.h` 197-199 says stays in place |
| `series_short_read` | a short read at the end of the table (line 646) averages uninitialised memory |
| `node_open_race` | opening a node that is being created is a SIGBUS (line 139) |

The models behave like the code in these cases too, which no run is spent on:

* Two posts pass the test of line 502 and commit in the wrong order: rows beyond the count (`CountIsTableSize` with two
  posting connections).  Two first posts: the second redates the first (line 486).
* A reader computes its slot from the zero `start_time` of an empty node, the first post commits, and the reader is given the
  row of another time (line 526).
* Downsampling by Max starts from zero, since the case of line 379 falls through: a block of -1 yields 0, which no row of it has.
  `MaxOfNonNegative` states what is left of the promise.
* A failure in a lower layer is dropped and the post acknowledged (line 446).
* The ninth decimation step: a node with as many steps as there are layers makes a post descend into a layer without a table
  (`http_tsdb.c` 198, `Payloads!Descend`).
* Two instances of the server: the second rewrites the key file before it finds the port taken (`main.c` 219).  The first start with `-a`
  dies in `fread` of a null stream (`http_tsdb.c` 937).
* A complete key file that fails to be read is taken for none: a key is generated and written over it although `-a` was given
  (`http_tsdb.c` 938-941).  `KeyKept` excepts such a start.
* Nobody looks whether there was memory for the copy of the path of a request or for the text of an answer (`http.c` 182, `http_tsdb.c` 322,
  343-347, 802-817), so the process dies, and with it every connection; as in `node_open_race`.  `Answers` excepts the requests
  under way then.
* A kill within a deletion leaves tables without metadata, which the next node of that id takes over with their values (line 99).
* The check for posts in the future is compiled under another macro than the one that is defined (`http_tsdb.c` 120, `http_tsdb.h` 30): there is none.
* An open in progress brings the tables of a deleted node back (line 187; `DeleteIsComplete` with two threads); a deletion in
  progress removes tables of the next node of that id (line 108).  A failed write of the metadata is reported as success (line 83);
  whoever opens that node kills the process.  A failing `unlink` of a table ends the sweep, and the deletion is reported all the same (line 108).
* Without memory for the points of a series the node stays open (`http_tsdb.c` 880); a client that goes away within an upload leaves
  the context of its request behind, since no completion callback is registered (`http.c` 396).  `HandlesClosed` and `ContextReleased`
  name these two exceptions.
* Series periods that are not whole rows drop rows (line 617, against the comment of 628-629), and output times are not rounded
  onto the rows (line 652, against 629-630): `AlignedCovers` is about aligned periods for that reason.

And on the page:

* An abort in `ajaxSend` ends a request twice and counts it down twice (line 6770 tests the global `status`, not `state`); a callback that throws
  leaves `jQuery.active` too high, so that `ajaxStart` and `ajaxStop` no longer come.
* `one` unbinds by the guid of its function in all namespaces, a plain binding of that function included; a handler for one call runs
  twice if the event is triggered again in a handler before it; the namespace of an event is lost above the first element with a handle.
* `stop` in the callback of an animation takes timers out from under the loop of `tick`: another element's timer goes and its queue
  is stuck, or an animation completes twice.  The timeout of a stopped delay dequeues early.  The callback of an animation with nothing
  to do runs within `dequeue`, whose tail (line 1686) removes what it queued.  `EffectsInTurn` names these cases.
* A `complete` or `step` that throws leaves `tick` before the splice of line 7879: the timer stays, and the animation is completed again at
  the next tick, and dequeued once more.  What else the loop had to do waits for that tick, what `dequeue` had to do is not done.
  `EffectsInTurn` excepts the elements at work.
* A handler that throws ends the handlers of its element (`handle` has no `try`), and with those of a triggered event the whole way up; an inline
  handler that throws ends nothing.  An inline handler that the browser calls while the method of an element runs, and that triggers an
  event with a method, resets `triggered` (line 2518): what is left of the outer method is heard again, so that handlers may run twice for one event.
* A plot that was replaced still draws on the overlay of its successor.  A plot whose successor found no room (line 711) was shut down by
  then (772): it hears the mouse no more, and if its timer was going it never draws again, though the page may still highlight on it.
* Horizontal bars that are partly out of the range of y are not drawn (line 2068).
* The second pass of `processData` uses `format` of the last series for all; a point that is dropped may leave the range at its start values;
  an unset colour may be one of the user's.
* Time ticks of about 0.75 of a year, or a minimum of years over a shorter range, step by a fraction of a year: two equal ticks and no
  more.  From the 31st the next month is missed.  A minimum above the data reverses the range.  `alignTicksWithAxis` of a later axis throws.
* Of overlapping points the first found wins (line 2297), although the comment above it says that `<=` lets the last one win.
* Answers out of order put older values on the page than it showed; failed requests are not noticed.  `AsFreshAsAsked` is what is left.

**Fairness.**  Weak fairness of each thread's steps in `Tsdb`, of the reader in `Series` and of each connection in `Requests`: libmicrohttpd runs each
connection in a thread of its own (`http.c` 396), the operating system schedules it, and no step of a handler waits
for another thread.  Clients are not fair: nobody has to
send a request.  Where the process dies, `Answers` claims nothing of the requests under way.
Only in `Requests` a client that has announced a body sends it or goes away, which the timeout of 10 s (`http.c` 46) enforces.  Nothing is assumed of kills and failures.
On the page the browser runs what it has begun and fires its timers (`Ready`, `Ajax`); who holds `ready` back lets go; the interval of `bandwidth.js` 51
goes on, and polls asked at one time get their answer in the end, since each fails or is answered and polls are repeated (`Dashboard`).

## 4. Proofs

| Theorem | Module | Assumptions |
|---|---|---|
| `TypeCorrect` | `TsdbProofs` | those on constants only |
| `ReadsAreWhole` (`NoShortRead`) | `TsdbProofs` | any number of threads, any layers, kills and failing calls |
| `LayersAreConsistent`, `CountIsExact` | `TsdbProofs` | `SerialPosting(w)`: one posting connection, no faults |
| `LayersKeepUp` (`NoLayerLags`) | `TsdbProofs` | no failing call; any posting and reading connections, any layers, kills |
| `EngineImplementsTimeSeries` (safety part of `ImplementsTimeSeries`) | `TsdbProofs` | one posting connection; any readers, kills and failing calls |
| `LatestLeads` (`LatestReachable`), `GridStays` (`GridFixed`) | `TsdbProofs` | the same |
| `PathIsRepaired` (`PathRepaired`) | `TsdbProofs` | one posting connection, no failing call; any layers, decimations, values, kills |
| `UnknownIsKept`, `MinIsRight`, `MaxIsRightFromZero`, together `BlocksAreRight` | `ServerProofs` | blocks of any length |
| `SumsAndMeansAreRight` (`SumAndMean`) | `ServerProofs` | blocks of any length |
| `SeriesInOrder` (`PointsInOrder`), `SeriesCovers` (`AlignedCovers`) | `SeriesProofs` | any table, layers, intervals and ranges, any growth of the tables meanwhile |
| `AnswersTell` (`AnswerTellsAll`), `NothingStaysHeld` (`NothingHeld`) | `RequestsProofs` | any connections, requests, uploads and failures, deaths of the process |
| `KeysAreWhole` (`KeyIsWhole`) | `RequestsProofs` | the same, and `OneAdmin`: one connection sets keys; any number of others read them |
| `FilesTypeCorrect`, `ParametersAreKept`, `FilesImplementRegistry` | `NodeFilesProofs` | any threads, layers, faults |
| `DeletionIsClean` (`DeleteIsComplete` and `HandleIsClean`, which `NodesAreClean` checks) | `NodeFilesProofs` | one connection, no faults; any layers, any nodes in turn |
| `FileIsRight` (`KeyFileIsRight`), `KnownKeyIsKept` (`KeyKept`) | `ServerProofs` | one instance at a time, any clock, kills and failing calls; `KeyKept` with its exception for a start that could not read the key |
| `PageIsFresh` (`AsFreshAsAsked`) | `PageProofs` | any number of rows, polls and lost requests, answers in any order |
| `NotEarlyHolds` (`NotEarly`), `EachOnceHolds` (`EachOnce`), both parts of `ReadyInTurn` | `PageProofs` | any functions, handlers and holders, calls within calls, exceptions anywhere; `EachOnceHolds` takes `ReadyConstants`: a function is not a handler |
| `OnlyTheLastLivesHolds` (`OnlyTheLastLives`), `OverlayIsRightHolds` (`OverlayIsRight`), two parts of `HighlightsAreRight` | `PageProofs` | any number of plots, points and options, plots that fail to be drawn or have no room; they take `OverlayConstants`: plots are positive numbers |
| `DeafOnlyInDefaultHolds` (`DeafOnlyInDefault`), a part of `HandlersAreRight` | `PageProofs` | any tree of elements, any handlers, inline ones, bindings and results, events within events, exceptions anywhere |
| `DeferredInvHolds`, `AllKept` (`NoneForgotten`, a part of `PromisesKept`) | `DeferredProofs` | `DeferredConstants`: deferreds, values and functions are different things; any number of them, any calls within calls, exceptions anywhere |
| `DeferredImplementsPromise` (`ImplementsPromise`) | `DeferredProofs` | the same |
| `WhenAllHolds` (`WhenIsAll`), `WhenTellsHolds` (`WhenTells`), the other parts of `PromisesKept` | `DeferredProofs` | the same; any arguments of jQuery.when, of any number |
| `ListenersAreRight` (`NoneLeftOpen`), `RequestsEndOnce` (`EndsOnce`), `CounterIsRight` (`ActiveIsRight`), `StartsMeetStops` (`StartsAndStops`), the four parts of `RequestsEnd` | `AjaxProofs` | any requests, settings and depth of nested calls; exceptions anywhere |

`TypeCorrect`: `TypeOK` is not inductive, as `Locate` subtracts `start_time`, and `Decimate` needs a layer below.
`TypeInv` adds `Shape`: what the frame holds at each position of a thread.

`ReadsAreWhole`: `Backed` says that the table is at least as long as the count, and as every count and index that a
thread has still to commit or to read.  Tables only grow (`TablesGrow`), so a step of one thread keeps what another
relies on; the commit is backed by the write that came before it.  `CountIsTableSize` fails under races; this half of it does not.

`LayersAreConsistent`: `SerialInv` has two parts.  `Sizes` gives the length of every table while the writer is on
its way down, layer by layer: done above its position, still to come below.  `Contents` says that every block is downsampled correctly
except the one block per layer that is `Pending`.  The lemmas `PadCells` and `WriteCells` say which rows a step
changes; `SameBlock`, `OtherBlock` and `UnknownBlock` what that means for a downsampled row.  The rounding up of
the count handed to the next layer (`CeilOfExtended`, `CeilShrinks`) is where it all would break.

`LayersKeepUp`: `Lag` is about every writer by itself, so that racing writers need no case of their own.  `Held` says that the
tables hold all that a count calls for, layer by layer, which a frame's count never exceeds; `Down` that the rows a slot is downsampled into
exist down to where its writer is.  Tables only grow, so both survive the steps of others; `Commit` has `Down` to the
last layer, and that is what the new count calls for (`DownHeld`).  A failing call leaves a layer out, hence the assumption.

`Serial(w)` is what one posting connection has to itself: only a first post sets the start, and a commit never takes the count
back.  Kills and failures do not disturb it.  `LatestLeads` adds `Leads`: a time that was sent out is on the grid and counts (`OnGrid`), and `GridStays` keeps it there.

`PathIsRepaired`: `Repairs` says that every row above the one a post is at agrees with its block, and that the next one comes along
in the frame.  Nothing is said of rows off the way, which earlier kills may have left in any state.

`EngineImplementsTimeSeries`: a step simulation.  `Posted` is what a post has done to the top table: rows in the gap that it padded are unknown (`Gap`),
and its own row is merged.  That is needed because a killed post leaves rows beyond the count, which the next one overwrites.  `RecordedWithin` and
`RecordedBeyond` are the two moments of effect; `StutterMaps`, `RecordMaps` and `AnswerMaps` bring every other step to one of the
abstract ones.  It fails with two posting connections, as `known_race` shows.

`ServerProofs`: of downsampling, `Prefix` is the loop invariant, on the rows passed so far.  For sums it does not say which row the fold takes first.  `Sums` is the
function that satisfies the equation of the fold; `SumsSplit` shows that any member may be taken first, so that the loop may
take the rows by number.  Its induction over sets is a smallest counterexample (`SmallestOf`), from `WFMin` of the library.

Of the daemon, `KeyFits` ties what an instance has in memory to what the file holds, at each stage of a start.

`SeriesProofs`: the writer is reduced to `Grows`, which is all that the reader relies on (`GrowsKeeps`).  `SeriesI` ties the output
times that are left to the room that is left (`OnItsWay`, `PointsInTurn`); `CoverI` says that every row that was known at the start is in
a point, up to the current time, if the periods are `Aligned`.

`RequestsProofs`: `InHand` says of one request what it has changed, holds and imported at each label; no step of another connection touches that.
The death of the process ends every request, so that only what is in the nodes is left to be shown of it.
For keys, the connections do meet: a key nobody sets and no process left half set is whole (`KeysRest`), one that is being set has its pieces in order (`SetterI`), a copy that was not raced
with is what the key was (`ReaderI`, `CopyI`).  Two administrators who set one key at once may leave a mix of both for good, so
`OneAdmin` is needed.

`FilesImplementRegistry`: a step simulation.  `Moves` and `MovesOn` give the abstract outcome of a thread that moves,
`DeathLoses` covers kills and the SIGBUS.  The invariant adds to the type what a thread's frame holds, and that a file
that is being populated is empty and has one owner (`Populating`).

`DeletionIsClean`: `Tidy` says that the tables are those of the node there is, without holes, and within a deletion those not yet come to.  A
kill or a failing call within a deletion breaks it, and so does a second connection (section 3).

`PageIsFresh`: rows only come, so a request asks for no more than there is when it is answered (`Fresh`, of every request under way).

`NotEarlyHolds`: `readyWait` stands for two things, who holds ready back and whether the browser has called yet, and nothing in the code says which of
them it counts.  `Waits` does, as long as nothing has run: it is one more than the holders before `isReady`, and just their number after.
That is not enough, since `isReady` may be set while someone still holds (lines 415-416 return): between that and the first function, `Begins` says that
nobody holds, and that the one call on the stack has something to call, so that no page code gets in between to hold it back again.
`Knows` is what makes the call due: the browser is listened to, or a timer is set, only if the page has registered or bound something (`readyBound`).

`EachOnceHolds`: `Order` splits the functions that were added in those called, at rising places of `ran`, and those that are in the list
(`Waiting`); a function registered while the list fires, or in one that runs, joins both at their ends.

`OverlayIsRightHolds`: the timer of a plot that was shut down is cleared but its variable is not null again, so that nothing it is told to draw is ever
drawn; `Timers` says that this happens only by a shutdown, and that a plot comes to its place with nothing highlighted and no timer.
`SamePoints` is the other half: what changes no point leaves what is drawn right.

`DeafOnlyInDefaultHolds`: `triggered` is one flag for all events, set before the method of an element and reset after.  Methods may run within each other,
as the inline handlers that the browser calls for one may trigger an event with another; the end of the inner one resets the flag, and `early` remembers
that until the outer one ends.  `MethodsStay` is for all the steps that begin and end no method: what is on its way grows or shrinks at its end, but the methods
in it are the same.  An exception ends at the nearest frame that the browser or an inline handler sent, so it never passes a method that runs (`ThrowKeeps`), and
`EndKeeps` is the step where the flag and the way change together.

`DeferredProofs`: the code keeps no flag that says "settled"; a deferred is when one of its lists fires or has fired, and a list that has
fired forgets it for a moment when it is added to.  `DeferredInv` is what makes that work.  `Typed` says what may hang where: jQuery.when's own
callbacks only on the deferreds that it was called with, and on the master values only as `Fit` allows.  `OneFrame`: a list is `firing` if and only if it has its one
frame on the stack, whose value it forgot in `fired`.  `CancelFirst`: as long as neither list is cancelled, the first thing in each is the
cancel of the other, whatever was registered.  `OneWay`: a list that fires while the other is not yet cancelled is at the top of the stack, before its first callback, so that
nothing gets in between.  What a step does is brought to two forms that do not speak of lists: `Keeps` (every list has its value as before, in a
frame or in `fired`: adding, returning, ending, and an exception that unwinds any number of frames) and `Begins` (one list that has none gets one).
From these, `OutcomeKeeps` and `OutcomeBegins` give the outcome of the abstract promise, and `Silent`, `CallAddIs`, `RunUserIs` and `RunCancelIs` its waiting functions;
`PromiseStep` is the step simulation.  `DeferredConstants` is a definition of `Deferred`, which TLC evaluates for the constants of `MCPage`.

jQuery.when counts down once for each argument, in callbacks that come in any order, some of them while its loop has not yet come to the
others, and some never, as their list is cancelled.  `WhenInv` says who is counted: for some set of arguments (`Untold`), `count` is their
number; all others have their value in the array; those that the loop has still to come to (`Ahead`) are among them, as are
those whose callback hangs; and one of them that the loop has passed (`Passed`) is a deferred whose callback hangs or whose list is cancelled.
`HangsRight` adds that a callback hangs once, so that no argument is counted twice, and that the callback for fail hangs where the
loop is done (`Gone`), unless that list is cancelled or the master settled.  So the count comes to 0 only with the array complete (`WhenTold`, `WhenReturned`), and if
it never does, some part has failed and has told so (`RightTells`).

`AjaxProofs`: a request is over once because at most one call on the stack has still to send it (`OneSender`), it does not listen yet, and what
listens has its transport (`TransportsLive`).  `SenderKeeps` is the exception: a transport that is gone in `ajaxSend` means an abort there, after
which `done` runs again.  `OverKeeps` and `DoneKeeps` are the two ways to an end, and every ending action is brought to one of them.

The counter `jQuery.active` is no property of the requests alone: a request that is over is still counted until its call has come past
`ajaxComplete`.  `Counted` names those it counts, and `OneEnding` says that each ends in one call only, so that none is uncounted twice; a request that
was refused or aborted before it was sent ends in the same way.  The invariant `Tallied` holds as long as nothing threw and nothing was aborted in `ajaxSend`.

**Only model-checked:** liveness, which is out of the prover's reach: that every post is answered (the fairness part of `ImplementsTimeSeries`),
`Answers`, `PageGoesOn`.  What `SelectSeq` or a fold over sequences yields, which the provers know nothing of: `ListensForHandlers` and
`CalledAsBound` of `Events`, `OneHoverOneClick` of `FlotOverlay`.  `Payloads` (`PayloadsKept`), and the page but for what is named above: open work, below.

No theorem is about a recursive operator.  Where a proof needs an induction over data, it is over sets of numbers, by the least element of a
counterexample, or about a function that satisfies the equation of a fold, which is shown to exist.

## 5. Not modelled

* Short writes and partial writes of a row; a power failure that loses the page cache (`msync` is asynchronous).
* Times before 1970, which the code rounds toward zero; 32-bit products; float rounding.
* The padding mode "Last", which the code accepts and ignores (line 287); the constant is in the model as unknown padding.
* Memory that error paths leave behind, other than contexts and open nodes; headers of answers.  A metadata file that is written in part makes
  every open fail (line 139), which `Open` has as a failing call.  A failing `unlink` of a table (line 108).
* JSON and the bytes of keys and signatures: a body parses or does not, a signature is made with a key or with another.
* Options of the daemon other than `-a`, the change of user, the fork.  Vendored code of the server (base64, SHA-2, cJSON), logging,
  profiling, and the clients are left out for good.
* Of what is modelled of jQuery: `jQuery.when` with one argument, which returns its promise or wraps it (945-947, 973-974); a request for which there is no
  transport (6750), and the callbacks of `statusCode`, which hang on the deferreds as others do (6597); functions `step` of an animation that start or
  stop animations; the page's own calls of a plot's `resize` and `shutdown`, and a placeholder that is cleared between plots.
* Of jQuery: selectors (Sizzle), manipulation, attributes, styles, offsets and utilities, which keep no state over several steps; `live`, `delegate`,
  `pipe`; headers, etags and URLs of requests; durations of zero, `fx.off` and toggles; the code for browsers without W3C events.
* Of flot: points, shadows, fill colours, legend, markings and the canvas; how labels are measured; plugins.
* Float rounding in flot: coordinates and sizes are integers of a fine scale.

## 6. Plan

1. Done: engine, its abstract series, downsampling, series reader, node files, requests with the key store and CSV uploads,
   payloads, daemon, and the page with its libraries.
2. `live` and `delegate` over `Events`; `pipe` over `Deferred`; the queue of effects with durations of zero.
3. The page as a client of `Requests`, with its redirects, instead of the node of `Dashboard`.
4. The key store alone against an abstract register, with several administrators.
5. Buffers and JSON trees as resources in `Requests`, next to the contexts and the open nodes.
6. `Requests` over `TimeSeries`: an upload as a sequence of posts that other connections interleave with.
7. Proofs: `Payloads`, then flot (`NearestPoint`, `ColorsExist`) and
   the other parts of the page.
