# A formal model of webCleaner

webCleaner repairs errors in tabular data. A user uploads a data set and a file
of rules; the server turns the rules into a Markov logic network (MLN), lets the
engine Tuffy infer how probable each value is, corrects the data set with the
rules and the probabilities, and shows the result on a page from which it can be
downloaded. This directory holds TLA+ modules of the parts of the program whose
logic can go wrong, from the threads of the engine to the widgets of the pages,
runs of the model checker TLC on small instances of them, and proofs, checked by
TLAPS, of what matters most.

Contents: 1 inventory, 2 modules and the code they model, 3 runs and bounds,
4 fairness and deadlock, 5 proofs, 6 what the model showed, 7 what is not
modelled, 8 what could come next. File names are relative to `src/core` (the
engine and the cleaning core), `src/src` (the web layer) or `WebContent` (pages
and scripts).

## 1. Inventory

| component | code | state | operations |
|---|---|---|---|
| Web layer | `servlet/UploadServlet`, `websocket/CleanerSocketServer`, `util/GetHttpSessionConfigurator` | fields of the one servlet, endpoint properties, HTTP sessions, files | upload, forward, handshake, open, clean, set attributes |
| Other servlets | `servlet/UploadFileForDR`, `DownloadRules`, `DownloadServlet`, `DownloadSamples` | the same files and sessions | upload for discovery, downloads |
| Rules and data | `data/Rule` | list of rules, header, ignored columns | load, format evidence, write the MLN program |
| Cleaning core | `data/Domain`, `data/Tuple`, `data/ConflictTuple`, `data/Conflicts` | data set, domains, groups, conflicts, candidate | init, groupByKey, correctByMLN, combineDomain, findCandidate |
| Rule discovery | `dr/*` | lattice of attribute sets, partitions of the rows, edges left, rules found | partition the rows, create the graph, find rules edge by edge |
| Program model | `tuffy/mln/*`, `tuffy/parse/*`, `tuffy/ra/*` | predicates, clauses, types | parse, normalise, translate to SQL |
| Grounding | `tuffy/ground/Grounding`, `KBMC` | tables of atoms and clauses | closure of active atoms, grounding of clauses |
| Partitioning | `tuffy/ground/partition/*`, `tuffy/util/UnionFind` | components, parts, clause owners, buckets | scan clauses, assign, group into buckets |
| Inference driver | `tuffy/infer/InferPartitioned`, `tuffy/main/PartInfer`, `Infer` | buckets in memory, states in the database, sum of costs | load, infer, flush, discard |
| Worker threads | `tuffy/infer/InferBucket` | queue of components, sum of costs, static console flag | infer, getTask, addCost |
| Gauss-Seidel | `tuffy/infer/InferComponent` | worlds of the parts of a component | rounds over the parts |
| MRF searches | `tuffy/infer/MRF`, `ds/*`, `tuffy/util/HashArray` | world, best world, true literals per clause, deltas, unsatisfied clauses, cost | WalkSAT (MAP), SampleSAT and MC-SAT (marginals) |
| Weight learning, samplers | `tuffy/learn/*`, `tuffy/sample/*`, `tuffy/worker/*` | weights, statistics | only with options the server never passes |
| Database | `tuffy/db/*`, `tuffy/infer/DataMover` | schema, tables, SQL functions | queries, bulk copies, dump of results |
| Cleaning page | `clean1.jsp`, `clean2.jsp`, `assets/js/scripts2.js` | socket, messages, button; session attributes | ask, receive, leave, show the result |
| Result table | `bootstrap-3.3.7/js/bootstrap-table.js` | rows, rows found, page, boxes, columns, copy of the header | search, sort, page, check, append, load, switch columns, cards |
| Upload widget | `bootstrap-fileinput-master/js/fileinput.js` | stack of files, frames, requests, lock, previews, dialog | pick, read, upload, cancel, remove, clear, delete, sort, zoom |
| Bootstrap widgets | `bootstrap-3.3.7/js/bootstrap.js` | what is shown, in which transition, with which timers | show, hide, toggle, clicks, keys, scrolling |
| jQuery | `jquery-3.2.1/jquery-3.2.1.js` | callback lists, promises, queues, bound functions, calls, data of elements | all of the above stand on it |

**How they interact.** A page posts files to `UploadServlet`; `scripts2.js` opens a
web socket and asks for the cleaning. `CleanerSocketServer.startClean` then calls
the pipeline in the connection's thread: rules and data are loaded (`Rule`),
`evidence.db` and `prog.mln` written, `MLNmain` runs `PartInfer` (ground,
partition, infer, dump), its result is the map `attributesPROB` from values to
probabilities, and `Domain` corrects the data set. Progress goes back over the
socket, the result is left in the HTTP session, and `clean2.jsp` shows it in a
table. Inside `PartInfer` the MRF is cut by `Partitioning`; `InferPartitioned`
loads a bucket at a time and hands it to `InferBucket`, whose threads run
`InferComponent`, that is `MRF`, on one component after the other. Several
connections may be in this pipeline at once: they share the servlet's fields, the
endpoint's properties, the files, the database schema and every static field of
the engine. In the browser there is one thread, but what it calls back (timers,
ends of transitions, answers, readers of files) comes in any order, and a
function that is called back may call into the library that calls it.

**What is hard.** (a) *Interleaving*: requests that share fields and files; worker
threads that share a queue and a sum; clicks in the midst of transitions, uploads
in the midst of readings. (b) *Increments*: the searches recompute nothing;
millions of flips must leave counts, deltas, the set of unsatisfied clauses and
the saved world right. (c) *Positions*: `Domain` moves values between arrays
indexed by column and arrays indexed by the place in a rule; the upload widget
knows files by an index that moves; the table keeps four views of one list.
(d) *Reentrance*: lists of functions that change while they are walked, selections
that run selections, ends of requests whose handlers start and abort requests.
(e) *Limits*: parts and buckets that must fit in a budget and still contain
everything. (f) *Partial failure*: worker threads that die, searches that give up,
pages that are left, functions that throw. `PROJECT.json` lists these hazards line
by line, with the properties that cover each.

Most of the JavaScript is of libraries that come with the application. They are
modelled because the pages do nothing without them, and as far as they keep
state: the pages load jQuery 3.2.1 and Bootstrap 3.3.7 (navigation bar, menu, one
dialog, in `DiscoverRules.jsp`), bootstrap-table in `clean2.jsp` (search, refresh,
switching of columns and to cards, pages, a height of 500) and the upload widget
in the pages that take files. Tooltips, carousel, tabs, affix and scrollspy come
in the same file of Bootstrap, but no page has one. `jquery-1.11.1.js`,
`sortable.js` and `purify.js` are loaded by no page.

## 2. Modules and the code they model

`PROJECT.json` maps each definition to its lines. The composition (`---` extends,
`==>` implements, `<-` is instantiated by):

    GroundMRF --- WalkSAT --- WalkSATProofs       InferBucket ==> TaskPool
             \--- MCSat --- MCSatProofs           UnionFind ==> DisjointSets
    Sums --- GroundMRFProofs (under the two)      HashArray, UnionFind, Sums,
    Domain, Sums --- DomainProofs                   InferPartitioned, InferBucket
    CleanerServer, Discovery, Sums                  --- InferenceProofs
      --- ServerProofs                            CleaningPage, Modal, Events,
                                                    Sums --- PagesProofs

    MCStructures --- HashArray, UnionFind, MCSat, InferPartitioned, Discovery
    MCJQuery --- Events, and <- Callbacks, Deferred, Effects, Ajax, Forms (twice),
                    Styles
    MCWidgets --- Modal, and <- Collapse, Tooltip (twice), Carousel, Switches,
                    Scrolling, Table (twice), FileInput, FilePreview (twice),
                    Elements, Traversal, Selectors

### The engine and the cleaning core

**InferBucket** (`tuffy/infer/InferBucket.java`). `Fill`, `SilenceConsole` and
`JoinAll` are the calling thread in `runInferParallel`; `Start`, `GetTask`,
`AddCost` and `Throw` are a worker. `GetTask` and `AddCost` are atomic because
the code holds the monitor `sentinel` there. Several buckets exist because two
connections may infer at once; `silent` is the static `UIMan.silent`. The sum of
costs is kept as how often each component's cost was added, which is what a
wrong sum would be wrong about. **TaskPool** is the abstract promise: a call has
a set of tasks, each is counted once or lost, at most as many are lost as there
are solvers, and the call returns early only if all solvers were lost.

**GroundMRF** has the MRF and what its searches compute of it: literals, counts,
costs, blocks and flip sequences, saved worlds. Weights are integers: the code
adds and compares them. **WalkSAT** is `inferWalkSAT` with blocks: `StartTry` is
the start of a try with `initMRF`; `Flip(a)` is one turn of the flip loop with
everything in it: the pick among the candidates of a clause, `GAtom.flip` with the
atoms that are flipped along (`getFlipSequence`), `saveLowTruth`, the counts and
the unsatisfied set, `calcCostsForWalkSAT`; `SkipFlip`, `Resolved`, `Crash`,
`NextTry` and `Return` are the ways out. No code of the repository fills a block:
the call in `DataMover.java` 108 is commented out and `Bucket.load` knows none. The
searches handle blocks all the same, so the runs have one. **MCSat** is `mcsat`: `Start` (the first search on
hard clauses), `Select` (`retainSomeGoodClauses`), the flips of `sampleSAT`, the
end of a search, `TakeSample`, `Report`.

**HashArray** and **UnionFind** are the data structures under them, with every
operation that is called; **DisjointSets** is what a union-find promises.

**InferPartitioned** begins with partitioning: `partitionAtoms` (clauses scanned in
any order, since the query has no ORDER BY), `partitionClauses` and
`groupPartitionsIntoBuckets`. The union-find structures are the sets of clusters
they stand for, which `ImplementsDisjointSets` justifies. Sizes are in bytes, as
in the code, so that the budget is compared with the code's own numbers. It goes
on from the grouped buckets: load, infer, flush, discard, bucket by bucket, then
the rounds over the buckets of each split component, for MAP and for marginal
inference.

**Domain** has the data structures of the cleaning core, the methods that only
compute, and the pipeline `init`, `groupByKey`, `correctByMLN`,
`combineDomain`, `findCandidate`, one action per turn of the loop that matters,
with `pc` naming the method and `cursor` holding its loop variables. The rules,
the data and the probabilities are chosen in `Init`. Probabilities are 0, 1 or 2
per value: only their order and whether they are zero matters for a product of
at most a few.

**Discovery** (`dr/*`) is `DiscoverRules.start`: `PartitionNode` puts the rows into
classes for one set of columns, `CreateGraph` makes the edges of the lattice and
the list of possible conditions, and `FindFD`, `FindCFD` and `NextNode` are the
loops of `Rule.findRules` one edge at a time, with everything they call. The code
subtracts arrays of names, which sorts them in place, and compares arrays with a
merge that is right only for sorted ones; `tidy` says which arrays have been
sorted so far, so that the comparison answers as it does in the code. The
reference definitions (`MinimalFDs`, `Unimplied`, `CFDsComplete`) know nothing of
lattices and classes: they quantify over rows.

### The web layer and the cleaning page

**CleanerServer** is the web layer for several clients: `Post`, `StoreDataset`,
`StoreRules`, `UploadFails`, `Forward` are `UploadServlet.doPost`;
`ModifyHandshake` and `OnOpen` the opening of the socket; `LoadRules`,
`FormatEvidence`, `NoData`, `CreateMLN`, `SetUp`, `Infer`, `Clean`, `WriteToFile`,
`SetHeader`, `SetDataSet` are `onMessage` and `startClean`, from which `Throws` and
`NoData` are the exceptional ways out. An engine that reports an error sets
`exiting_mode` (`EngineDies`) and only later, after dropping the schema and removing its
directory, stops the program (`Exit`); the other clients go on in between, and their
errors are swallowed. A client who is alone meets an error only if its rules are at
fault; who is not may always meet one (`MayFail`), since engines that overlap share
the schema and the directory. The attributes are set by two calls, between which
another endpoint that was given the same session may set its own. A file's content is
abstracted to the client who wrote it, so a result records whose data was cleaned with
whose rules and probabilities, and whether an error was swallowed on the way.

**CleaningPage** is one browser at the other end: `clean1.jsp` with `scripts2.js`
(load, ready handler, `send`, messages, the button, `onbeforeunload`), the socket
with texts on their way, the endpoint's `onMessage` for every visit of the page,
the session it writes to, `clean2.jsp` reading it in two steps, and
`DownloadRules.doGet` ending it. The user may leave and come back while the
server works for the page that is gone.

### What runs in the browser

Each module names its lines of the script in its first comment. All stand by
themselves: a behaviour of run `jquery` or `widgets` exercises one of them, as the
variable `used` says. Events and Modal, about which theorems are proved, have
variables of their own; the others take turns in using `x1`, `x2`, ... of
the composing module, which are 0 where not used (`structures` does the same with
`s1` to `s10` for the discovery of rules). A second instance of a module has its
own name: `FormData` of Forms, `TipPlace` of Tooltip, `TableHead` of Table,
`FileZoom` of FilePreview. A function of the page that is called back is a step of its own and may call into
the library again; a call of the library that calls nothing back is one step.

Of `jquery-3.2.1.js`:

- **Callbacks**: the list of functions under promises and ready handlers, with
  `once`, `memory`, `unique`, `stopOnFalse`; functions that add, remove, fire, empty,
  lock, disable while they are called, return false, or throw.
- **Deferred**: promises chained with `then`, adoption of what a handler returns,
  `when` of several parts, the list of ready handlers with `holdReady`. `stack` holds
  the lists being fired, `timers` what then puts off.
- **Effects**: queues of an element, animations, the ticking loop, `stop`, `finish`,
  `promise`. A call with the tick it causes and the functions it calls is a
  function from state to state.
- **Events**: `on`, `one`, `off`, delegated functions, `trigger` with bubbling, default
  actions and the special events of clicks and of `mouseenter`, with calls from
  inside the functions; `stack` holds the dispatches under way.
- **Ajax**: `jQuery.ajax` with `beforeSend`, transports, conversion of answers, timeout,
  abort, global events and JSONP; `ajaxSetup` and the deep copies of settings by
  `extend`, in which objects may be shared.
- **Selectors**: the matchers Sizzle compiles from tokens, the cache on elements
  and its key, nested runs for `:has` and `:not`, selectors by position, sorting.
- **Traversal**: collections, `find`, `filter`, `not`, `has`, `closest`, `parents`, `next`, `siblings`,
  `contents`, `add`, `end`, `index`, `uniqueSort`, with elements in trees of their own.
- **Elements**: data and bound functions kept under `expando`, `append` and its
  relatives, `clone`, `wrap`, `unwrap`, `replaceWith`, `empty`, `remove`, `detach`, `html`, and
  the scripts that run when they come into the page.
- **Forms**: attributes, properties, classes, `val`, what a form is serialized to,
  what a browser changes of itself; in the second instance `param` of nested lists
  and objects, and `data` with the attributes that tell of it.
- **Styles**: `show`, `hide`, `toggle` with the display put away, heights of boxes, offsets.

Of `bootstrap.js`: **Modal** (backdrop, padding, listeners), **Collapse** (single panels
and groups), **Tooltip** (triggers, delays, transitions,
destruction; in the second instance where the tip is put), **Carousel**, **Switches**
(tabs, buttons, alerts, menus and their keys), **Scrolling** (ScrollSpy and Affix). Transitions are over
when the browser says so or a timer does, which is one event at an unknown time.

**Table** (`bootstrap-table.js`) has the rows (`all`), what a search leaves of them
(`data`, the same array or not), page, sort order, boxes of the rows and of the
header, columns, cards, the toolbar's minimum of columns and, with a height, the
copy of the header with its timer; with `sidePagination: server` also requests and
answers. **FileInput** (`fileinput.js`) has the selection, the reading of files one by
one, frames, the stack, upload of all, of one, in one request, cancel, remove and
clear, each with its callbacks and timers; the four places where the index of a
file is kept are four variables. **FilePreview** (same script) has the previews of
files on the server, in the arrays that the code shares or copies, their frames
with deletion, sorting and uploads, and in the second instance the dialog that
zooms one of them.

**Conventions.** A definition whose name ends in `Mut` is the definition after it
with a plausible bug; it is used by no specification, only to see that a
property can fail. Where a comment says *for the properties*, a variable records
history that the code does not keep; no guard reads it, except in Table, where
rows can be checked only while nothing the table does not get over (`odd`) has
happened. `MaxOps` and its like bound what users, pages and functions called back
do; each is named where it is declared.

## 3. Runs and bounds

| run | instance | what it shows |
|---|---|---|
| `bucket` | 2 buckets, 5 components (one without a query atom), 3 workers, 2 calls per bucket; two components whose inference may throw | components are solved once (`SolvedOnce`), the cost is whole when a call returns (`ReturnIsComplete`), calls return (`CallReturns`), the console comes back for calls that do not overlap (`ConsoleRestored`), `ImplementsTaskPool` |
| `domain` | six sets of rules (sharing a column, sharing none, nested, three with one covered, three into one column, a chain), tables of three rows over two values, tables of six rows in pairs over four | no value is invented or moved to another column, clean data is kept, independent rules hold in the result (`ValuesSound`); groups, conflicts and references agree at every step, and only overlapping rules fail (`PassesSound`); the walk ends (`LessToDo`) |
| `walksat` | a part of 4 of 5 atoms, a block of three, 6 clauses with weights 3, 2, 1, 0, -1, -2, one across the cut; 2 tries of 5 flips, from all worlds an earlier search may leave | counts, deltas and the set of unsatisfied clauses are what they would be computed anew (`IncrementsExact`); the world saved has the cost reported (`LowIsReal`); `BlocksExclusive`, `OthersUntouched` |
| `structures` | a HashArray of 5 elements; a union-find of 6 records with weights 1, 4, 9, ...; partitioning and inference of 8 atoms in four components, clauses in every order, 4 settings; MC-SAT on 3 atoms, 3 clauses, 2 samples; discovery in tables of 3 or 4 columns | `IndexInv`, `ChangesOnlyOne`; roots know the size and weight of their cluster and paths are short (`ClustersSound`), `ImplementsDisjointSets`; components are cut only for want of room, fit in the budget, go into buckets whole, and everything to infer is inferred (`InferenceSound`); `SamplesSound`; rules written hold, minimal dependencies are all found (`RulesExact`) |
| `server` | 2 clients, 2 file names chosen freely, 3 uploads, any client's rules rejected, an upload that fails or an exception | a client served alone gets its own result (`AloneOwn`); attributes set by one endpoint fit together (`HeaderMatchesData`); a result computed in spite of an error needs another engine that ended or is ending the program (`ErrorsStopFreshServer`) |
| `page` | 2 visits of the cleaning page, 1 session ended | the button means that this visit's run is over and its file there (`ButtonMeansFinished`), what is shown is this run's (`SoleRunShown`), whoever waits is answered (`Answered`) |
| `jquery` | instances in `MCJQuery`: 2 to 3 promises, 2 elements with queues, a path of 3 elements with 3 bindings, 2 requests with 12 kinds of settings, a form of 6 controls, lists in lists, two boxes inside each other | `OutcomesFollow`, `EffectsServed`, `HeardRight`, `EndsOnce`, `SetIsTold`, `Final`, `TimesOut`: one per part, see there |
| `widgets` | instances in `MCWidgets`: 3 panels, menus, tabs, items; two tooltip objects; 144 layouts for tips; a table of 3 rows and 2 columns; two selections of two files; three previews; 4 or 5 clicks or calls each; of jQuery, what widgets find and move elements with: three pages of 6 elements with 11 selectors, trees of 6 nodes | `GoneClean`, `OneOfMany`, `FollowsUser`, `TableAgrees`, `OwnFiles`, `FindsMeant`, `ElementsKept` |
| `domain_single`, `mcsat_slice`, `server_session`, `page_closed` | smallest instances | what the code says of itself and does not do: see 6 |

A property of a composed run is the conjunction of what its parts state, under the
condition that the part is in use; the properties are found, with what they say of
the code, in the modules of the parts.

**Why the bounds are enough.** `MaxCalls = 2` lets a bucket be used again, with
a finished and with a dead worker from the call before, while the other bucket
is in a call; a third call begins in the same states as the second. Five flips
(`NSteps`) reach every world of the block and both ways a clause can enter or
leave the unsatisfied set, and a second try starts from the leftovers of one
that ran out of flips; the real number is at least 4 and usually millions, but
each flip starts from a state the invariant describes, which is why the
invariants are checked in every state and not at the end. Two samples are needed
because from the second one on the selection reads the state the last search
left. In the instance of partitioning one component of four atoms is larger than
the smaller budget and smaller than the larger one, and memory holds one or
several parts. Six rows in three pairs are the least in which a row lies in groups
of two rules with several partners each. For discovery four columns let pruning
reach over more than one level, and interleaved rows let classes split off out of
order; the support is 30 % where the code has 5 %, since no class of a table
this small would miss 5 %. In `server` three rounds let one client be served
alone after two others were interleaved, or twice while another waits; one fault
(`MaxFaults`) may hit any step of any round, and what it leaves is met by the rounds after it
(the proofs have any number of both). Two visits
of the page let an older run finish while a newer one is watched, and one ended
session lets the older run's store fail or go to the session that is gone.

In the browser the hazard is always that something comes in the midst of
something else: so the bounds on operations let at least one operation begin, a
second come before it is over, and a third meet what those two have left, and let
timers, transitions, answers and readings, which are not bounded themselves, come
at any time between. Four or five operations where a widget has two objects that
must interfere (Modal, Collapse, Tooltip, previews), three where each of them has
many variants (Table, Elements, Forms). Two requests are needed for what they
share (`active`, names of JSONP), two selections for frames of an old one among
those of a new one.

**Symmetry** is used in `server` only: clients and file names are alike there
and no property of that run is temporal.

**Assumptions of the models.** A block of exclusive atoms lies in one part
(`MRF.java` 1796 leaves the other case as a TODO); no clause names an atom twice;
`_random_element` in the query of `partitionClauses` is evaluated once per
clause; the container shares the endpoint's user properties between handshakes
and runs each connection's callbacks in a thread; in `CleanerServer` the
database does not fail of itself for a client who is alone, a client has one data set and one
rules file, nobody stops the server from outside, and sessions do not expire.
In `Config`, `partition_size_bound` and `ram_size` are both 2^32, so
components are split only beyond 4 GB: the runs use small budgets to reach that
code. What a browser does of itself (forms, focus, the DOM's moves, sockets) is
modelled as its standard defines it. Some properties are stated under a
precondition that a history variable records, since without it the code does not
keep them: `hasty` of Modal, `Collapse!wasOpen`, `Tooltip!plain`, `Table!odd`,
`FilePreview!plain`, in FileInput `patient`, in CleaningPage `quiet`, and in CleanerServer
`alone`; the comment at each says what is excluded, and section 6 what happens then.

## 4. Fairness and deadlock

`bucket`: weak fairness of the caller's steps inside a call and of each worker's
steps. The JVM schedules every runnable thread, `join` returns once a thread has
ended in whatever way, and an inference is a bounded number of flips. Nothing is
assumed of `Fill`: nobody has to call `infer` (again).

`page`: weak fairness of what the browser does for the page it shows (the ready
handler, the end of the handshake, receiving, closing, reading the two
attributes) and of the server's threads. What the user does is up to him.

`jquery`: the browser delivers the events of a request and calls its timer;
whether an answer comes is up to the net, so only requests with a timeout are said
to end (`TimesOut`). The specifications of Callbacks, Deferred, Collapse, Carousel,
Modal and Tooltip state the fairness of timers and transitions for who uses them
alone; their properties in the runs are of safety and assume none.

The cleaning core is sequential, and its termination is shown without fairness:
`LessToDo` says that every step lowers a tuple of four numbers in lexicographic
order, none of which gets negative.

Deadlock is checked in all runs but `jquery` and `widgets`: there what pages and
users do is bounded, and when it is used up nothing is left to do. In the others
`Next` has a disjunct `Terminating` where the program is done.

## 5. Proofs

All theorems hold for every value of the constants that satisfies the named
assumptions of the modules (`DomainAssumption`, `InferBucketAssumption`,
`GroundMRFAssumption`, `WalkSATAssumption`, `CleanerServerAssumption`, `CleaningPageAssumption`, `EventsInput`) and, where
the statement has them as a hypothesis, `GoodInput` of UnionFind (finitely many
records, weights that are natural numbers), `MCSatInput` (the component is
loaded whole, there is at least one sample) and `GoodMRF`; TLC evaluates each on the runs'
instances. The leaves are checked by SMT, Zenon and LS4. What TLC shows of a small
instance is proved here for any number of threads, clients, visits, atoms,
clauses, components, records, rules, columns and rows.

- `InferenceProofs`, on InferBucket: `TypeCorrect`, `SolvedOnceHolds` and
  `ReturnIsCompleteHolds` for any number of buckets, components, workers and overlapping calls. `SolvedOnce`
  is not inductive: it must be known that a queued component belongs to the
  bucket of its queue and is not counted yet, and that the one in a worker's
  hands is neither queued nor counted (`HandInv`). `ReturnIsComplete` needs in
  addition that in a call every task is queued, in a worker's hands, lost or
  counted, that a worker ends by itself only when its queue is empty, and that a
  call returns only when all its workers have terminated (`CallInv`).
  `TaskPoolImplemented` is the step simulation of the abstract pool: filling the
  queue submits, adding a cost completes, a throw loses, the joins deliver, and
  all else changes nothing the pool shows. That a loss leaves a solver, and that
  the pool delivers with work left only if all are lost, is counting: as many
  components are lost as workers died (`LostCount`), since no two of them died of
  the same one (`LossInv`). `ConsoleRestoredHolds`: in a behaviour in which only
  one bucket is called, the flag has its value between calls, and during one the call
  remembers it (`Remembers`).
- `Sums`: what the sum of a function over a finite set does when an element comes,
  goes or changes its value, when sets are joined, and when all terms are bounded.
  The library defines sums by a fold, that is by recursion over finite sets, and
  the induction theorems are of no use here; so each lemma is proved by a least
  counterexample: among the sets for which it fails there would be one of least
  cardinality, and taking an element out of it gives a smaller one (`LeastSet`).
  Likewise the facts with which recursions along a list are unfolded (`Recursion`,
  `UpTo`).
- `GroundMRFProofs`: what a flip does to the number of true literals, to the cost
  of a clause and of a world: the lemmas under the two modules of searches.
- `WalkSATProofs`: `IncrementsExactHolds` and `LowIsRealHolds`, that nothing kept by
  increments drifts from what a recount would give, for every MRF, every cut and
  any number of tries and flips. `IncrementsExact` is not inductive: the costs and
  deltas after a flip are right only if the counts, the set of unsatisfied
  clauses and the part of the cost that is fixed for this part of the component
  were all right before it, and a try that begins finds what an earlier one
  left (`SearchInv`). `BlocksExclusiveHolds` and `OthersUntouchedHolds`:
  `BlocksExclusive` also speaks of the saved world, which is put together from
  the atoms marked dirty; so the invariant says that an owned atom that is not
  dirty has the same value in both worlds (`WorldInv`, `BlockInv`). `OthersUntouched`
  needs that only owned atoms are ever dirty (`DirtyInv`).
- `MCSatProofs`: `SamplesSoundHold`. The increments of `sampleSAT` are exact for the
  clauses selected, the saved world is one that was visited, and the counts that
  the next selection reads are those of the sample (`SamplerInv`); the case that is
  excluded, the first selection, is where the code reads others (section 6).
- `InferenceProofs`, on HashArray: `IndexInvHolds`, that list and index map are
  inverse to each other after any sequence of operations, and `ChangesOnlyOneHolds`,
  that an operation changes the membership of its argument and of nothing else.
  The two conjuncts of `IndexInv` are inductive together: removing an element must
  find the index of the one that moves into its place.
- `InferenceProofs`, on UnionFind: `ClustersSoundHolds` and
  `ImplementsDisjointSetsHolds`. The functions `RootIn` and `PathIn` are recursive
  along parents, and nothing says of itself that such a recursion ends. The
  invariant (`ForestInv`) is that a record has at least twice as many below it as
  each of its children (`Doubling`, with the sizes counted by the trees that hang
  in a record): so there are no cycles, the functions exist and satisfy their
  equations, and a path of n steps ends in a cluster of 2^n records. Path
  compression hangs records into their root, where all of this is kept; a union
  hangs the smaller tree into the larger. For the refinement the clusters of all
  other records are the same before and after (`Kept`), and the two of a union
  become one (`Hung`).
- `InferenceProofs`, on InferPartitioned: `InferenceSoundHolds`, for any finite MRF
  (`GoodMRF`: clauses have atoms, all of the MRF, and at least one round is made),
  any settings and any order of the clauses. That a component is connected and a
  clause is cut for want of room only is said of the state after the scan; during
  it, the invariant (`SchemeInv`) says it of the clauses read so far (`Scanned`):
  each is within a component, these connect all of it, and one that was cut
  stays cut, because parts only grow and two that touch the clause would together
  be too large then as well. Parts are disjoint, so the size of their union is
  the sum of their sizes (`SizeOfTogether`). `BucketInv` says that a needed component
  is still to be grouped, in a bucket, or split, and that the zones of a split
  one share out its parts; the parts are packed by a recursive function over the
  sorted list, whose existence and meaning are shown by a least counterexample
  (`ZonesZoned`). `RunInv` says that what is behind the turn is inferred and in
  the sum of costs: whole buckets, split components done with, and of the one
  that is split the zones before the turn, or all after the first round; since
  the zones share out the parts and the parts cover the component
  (`PiecesCover`), it is inferred when its rounds are over (`ZonesCover`). A bucket
  that fails to load has a part behind it, so the component has two.
- `DomainProofs`: `ValuesSoundHolds`, `PassesSoundHolds` and `LessToDoHolds`, for any
  data set, any rules that `loadRules` can give, and all probabilities. The
  invariant (`DomainInv`) says pass by pass what the later ones rely on. The groups
  are in a list of lists from which the domains without groups are missing;
  each list belongs to a rule of its own, and each tuple in it *stands for* its row:
  it was cut from a row with the same reason (`ListInv`, `Stands`). A group that the
  cursor of `correctByMLN` has passed is corrected, one before it holds the rows' own
  tuples, and either has all rows with its reason (`GroupInv`), without which its
  winner would not be the likeliest in the loaded data. Conflicts are
  recorded in pairs, and the rows are out of the groups (`ConflictInv`); clean data and
  rules that share no column give none (`PeaceInv`), which is why such data are
  written back as they were, and such rules hold in what is written
  (`ResultInv`). In `findCandidate` every tuple built is *honest*: it says of a column
  nothing, or a value the column was loaded with, and of an ignored column nothing
  (`CandidateInv`), although columns are combined by position and padding is column 0
  with null. The search is a recursive function over two passes of the domains;
  that it exists and what it returns is shown by a least counterexample
  (`SearchExists`, `SearchFine`). For `LessToDo` the four counts are compared in
  lexicographic order; the invariant bounds each cursor by the list it walks.
- `ServerProofs`, on CleanerServer: `AloneOwnHolds`, `HeaderMatchesDataHolds`,
  `ErrorsStopFreshServerHolds` for any number of clients, file names and rounds. A
  client that is alone and on its way has been alone since its upload, so
  nobody has replaced what it left in the shared fields, files and tables: which
  these are at each place is `Uploaded` and `Computed`, and `AloneInv` says it of
  every client. `HeaderMatchesData` needs that a file, once it is there, belongs
  to the only client with its name (`OwnFiles`), so that an endpoint that reads it twice
  gets the same owner or nothing (`ReadsTwice`), and that the two attributes marked as one
  endpoint's come from one of its rounds, or the second call is still to come (`SetsTwo`).
  `ErrorsStopFreshServer` needs that whoever has set `exiting_mode` is told: an engine
  that ended, which is counted, or one that is stopping the program (`Excused`); and
  the run in hand counts itself, so that a second must have ended.
- `PagesProofs`, on CleaningPage: `TypeCorrect`, `ButtonMeansFinishedHolds`,
  `SoleRunShownHolds` for any number of visits and ended sessions. What a page
  shows and what is on its way to it are together what its endpoint has sent
  (`SentInv`); nothing is cut while a text is missing, because only the last text
  makes the page close its socket; endpoints that had nothing left to do when
  the page was opened stay so (`OthersInv`), so that what is stored for the visit
  stays in the session (`StoredInv`) and is what `clean2.jsp` reads (`ResultInv`).
- `PagesProofs`, on Modal: `GoneCleanHolds` and `ShownWholeHolds`, for any number of
  calls, clicks, keys and ends of transitions, with every option. Neither is inductive,
  as both speak of a dialog at rest. The invariant (`DialogInv`) names what a dialog
  may be in as long as no show came too early: closed, coming (the backdrop or the
  element fades in), shown, going, each with the functions that wait for the end
  of a transition in that order, since a dialog may be hidden while it is coming and
  then at most two wait. The body of `bsTransitionEnd` is a recursive function over
  the waiting functions, unfolded for none, one and two.
- `PagesProofs`, on Events: `HeardRightHolds` and `StopsThereHolds`, for any path of
  elements, any functions and selectors, and events nested to any depth whose functions
  bind, take off and trigger (`GoodEvents`: the elements of the path differ, and what
  is bound has the types and texts jQuery takes). The lists change under the
  dispatches that walk copies of them, so the invariant (`HeardInv`) relates each
  dispatch on the stack to the lists as they are by now. Handles are told by their
  ids (`IdsInv`); what waits to be called was bound, for this type, to the element
  the event is at, and if it still is bound, it is there and unchanged (`QueueOK`);
  what has heard of the event, if it still is bound, is bound where the event does not
  come again (`SeenOK`, `Past`): at an element behind it, or for the click that led to a
  change. One case would come again: the click that a browser makes in the default
  action of a triggered one goes up the same path. There `jQuery.event.triggered`
  silences all functions, and it does so until the end, because nothing called
  means that nothing can start another event (`Calm`). Binding and taking off
  never make a handle reappear (`Later`), which is all the dispatches under the
  innermost one need. A function bound for one call is taken off by its own type,
  function, namespace and selector, which always hit it (`RemoveIs`); others that
  are hit with it go unheard, but none is heard that should not be.
- `PagesProofs`, on Callbacks: `NoneSkippedHolds`, for any functions, options and
  bounds. What a pass still has to call (`due`) is what follows the current index, and
  functions that are taken away must move the index by as many as they leave before it.
  That this leaves the same rest needs that the index is inside the list (`IndexInside`),
  which holds only while a function runs and the list was neither emptied nor disabled;
  that it is the turn of others than `fire` only then (`InTurn`); and that a list
  being fired outside a pass has something queued or begins at its head (`Phases`). `NoneSkipped`
  itself is part of the invariant. What `remove` leaves of a list is a recursive
  function (`Without`), which the proof splits at the index (`RestRemoved`).
- `ServerProofs`, on Discovery: `RulesExactHolds`, for any table, any order of
  the columns' names and any support from 1 to 100 percent (`GoodTables`, which
  `MCStructures` evaluates for its tables). First what the code's
  shortcuts compute. A listing of a finite set has each element once, in order
  (`InOrderLists`), so the lattice has every set of columns after its subsets
  (`LatticeIs`). The classes of a node, split from those of the node without the last
  column, are all sets of rows that agree on its columns (`ClassSetIs`), so equal numbers
  of classes mean a dependency (`SameCount`). `ifSubsumed` is never wrong when it says
  yes (`SubsumedSound`), and when it says no only if the header is sorted
  (`SubsumedComplete`). `checkQ` accepts a class exactly if it consists of classes that
  are left (`CheckQSound`, `CheckQComplete`). Classes that were taken for one
  condition's class are out of reach for the others, which are disjoint from it, so
  every conditional dependency with the support is written (`ConditionalFound`), and
  every one that is written holds (`RulesSound`).
  The walk changes the graph it walks: finding X -> A removes edges of nodes not
  visited yet, perhaps fewer than it should if a merge went wrong. Its invariant
  (`RulesInv`) says what the end needs: an edge that is gone is implied
  (`PruningInv`); an edge the cursor has passed, and that is still there, has given its
  dependency or its conditional ones (`PassedInv`); and with a sorted header no
  node above X has an edge that adds A once X -> A is written (`ClearedInv`). The last
  makes what is found minimal (`MinimalInv`): a smaller dependency is on an
  earlier node, whose edge is not implied, hence still there, passed and written, and would have
  removed the edge in hand. `removeSuperSet` goes through the nodes by a recursive
  function of states (`PrunedIs`); it leaves the node in hand and those before it alone, or
  the cursor would skip an edge. What is unwritten at the end is implied
  (`RulesAtEnd`).

Only model-checked: liveness (`CallReturns`, `Answered`, `TimesOut`), which is out of the
prover's reach; and of what runs in the browser all but the page, the dialog, the
events and the lists of callbacks. Four of those modules walk lists and trees by
recursive operators (Ajax, Effects, Forms, Selectors).

Proving changed the models in places. Which overlaps of rules may end in an
exception had been stated of pairs of rules only, as the runs show it; the proof fails
with a third rule, and so does the statement (`FailsOnlyCovered`, section 6). `MaxLen`
of Domain is a bound that a proof reaches, not the least one. Results of recursion
that a proof had to unfold are functions, and choices among several hits name the
place of the first one. Of Discovery the proof showed what the tables must be like
(`GoodTables`): rows are numbered without gaps and names of columns differ. What a
list loses in Events (`Those`) and in Callbacks (`Without`) and which functions wait on
in Modal (`Others`, `Done`) became recursive functions in place of operators of the library.

## 6. What the model showed

Four statements the code makes of itself do not hold; each has a run whose
counterexample TLC finds:

1. `CorrectionsWritten` (`Domain.java` 825): with one rule `combineDomain` returns
   before the loop that writes the corrected tuples to the data set, so the
   "cleaned" data set is the dirty one.
2. `SliceSatisfied` (`MRF.java` 2717): `sampleSAT` reports a world that satisfies
   all selected clauses but keeps an earlier one, since `saveLowTruth` compares
   costs that have drifted with the clauses not selected; the sample may violate
   a clause it was meant to satisfy. (The run takes `DriftClauses` of
   `MCStructures`.)
3. `SessionIsOwn` (`GetHttpSessionConfigurator.java` 19): of two connections that
   open at the same time one gets the other's HTTP session.
4. `ServerUndisturbed` (`scripts2.js` 87): the socket is closed when the page is
   left, since else "server端会抛异常", the server throws an exception; but if a
   cleaning is under way, closing is what makes the endpoint's next `sendText` throw.

Further places where a model had to follow the code into something
surprising, without a run of its own. They are what the preconditions of section
3 exclude, or what the properties except.

**Engine and cleaning core.** The candidate of a row is compared with
that of the rows before (`Domain.java` 678); pairs of groups are skipped by the
walk (859, 873); `findCandidate` ends with an exception, as `ifSameValue` looks for
a -1 that `findSameID` did not leave (650), when of two rules one has all columns of
the other, and with three rules as soon as two share a column: the conflict between
the first list and a later one is recorded under the number before that of the later
one, so that the tuple is compared with its own domain (`FailsOnlyCovered`);
corrected groups are put into domains by their position among the domains that have
groups (311), which is why `PassesSound` speaks of inputs
in which all have some; the number of the domain before is wrong from the third
domain on (882); `lowCost` is reset in every try (`MRF.java` 2185); a search that
reaches its goal with the last flip reports failure (2714); the first selection
of MC-SAT reads counts of another world than the one restored, which is why
`RetainsSatisfied` (a part of `SamplesSound`) begins with the second sample; dead
clauses stay out of the deltas (2439); SampleSAT flips single atoms and leaves
blocks with two true ones (2824); `NonPartInfer` writes the world the search ends
in, not the one whose cost it reports (40); `_random_element` is declared IMMUTABLE
(`SQLMan.java` 150), so that a planner might give a clause to no part or to two; a
component without room may be put in two buckets (`InferPartitioned.java` 91);
the filter of `Bucket.load` is too short when parts of a split component are in
two buckets (`Bucket.java` 153); in marginal inference the parts of a split
component are never loaded (`InferPartitioned.java` 323) and a cost that starts at
the largest double enters the sum (316): what `InferenceSound` excepts. One result
file serves all clients (`CleanerSocketServer.java` 97), and one file of discovered
rules. If the columns of the header are not in alphabetical order, functional
dependencies that are not minimal are written although `Rule.java` 36 prunes "使得
minimal", since the arrays compared there are not sorted (`Util.java` 62), which is
why `RulesExact` speaks of sorted headers where it must; a rule is written once for
each way it is found. `exiting_mode` is never reset (`ExceptionMan.java` 20), and the
program stops only after it was set (34), so that `ErrorsStopFreshServer` speaks of
fresh servers on which no engine is stopping the program. Two endpoints that were
given one session (finding 3) may leave one client's header beside another's data,
since the attributes are set by two calls (`CleanerSocketServer.java` 63, 64):
`HeaderMatchesData` speaks of what one endpoint has set.

**Result table.** Rows appended while a search is on lose the rows it has filtered
out; sorting during a search leaves `options.data` unsorted; answers of the server
may come out of order; a hidden column shifts the index into `options.columns`; the
disabled "previous" goes to page 0 and `initBody` throws, since `onPagePre` counts
down before it looks (`bootstrap-table.js` 799); with columns hidden at first the
last one can be switched off, and `hideColumn` ignores the minimum; switching to
cards while the timer of the header runs leaves them pulled up under it; after a
request that failed the box of the header's copy stays checked.

**Upload widget.** Uploading while files are being read locks it for ever;
selecting again while reading doubles an index, and removing shifts the indices of
what is still read; after "cancel" with a gap the stack closes up and answers under
way take the wrong file off; uploading right after it reports a batch complete
three times; a frame that fades out while a new selection comes empties the new
stack; in one request for all files errors are counted over frames, not over files
sent; after a refused file the remove button of another remembers the old index;
removing the only file leaves its name in the caption; the progress of single
uploads sums over stale states; an image that is resized may put a removed file
back. A double click on "delete" of a preview removes another; deleting, then
uploading or resetting, misplaces frames; a deletion during a batch makes files
be uploaded twice; a single upload after "clear" throws; `reset()` leaves delete
buttons dead. In the zoom dialog "previous" and "next" are stale after the frames
below change, a reset below takes the functions from its buttons, and a third
click on the header's button while it slides leaves buttons in the bar. The pages'
own inputs have no `multiple` and the URL `#`; `loadFile.jsp` names an undefined
`uploadUrl`.

**Bootstrap.** A dialog shown while it goes leaves backdrops and padding; hidden
while it comes, the trap for the focus. A collapsing panel that was open in the
page, whose object is not made yet, lets two be open; triggers of a group may
disagree with it. A tip whose trigger goes in, out and in within a transition
vanishes; a tip destroyed during a delay throws; a tip shown again while it goes
loses `aria-describedby`; a scrolled viewport pushes tips off by its scroll, and "auto"
compares a place with a width. A tab clicked during a transition shows two panes.
A change of the layout that keeps the height goes unnoticed by ScrollSpy; the
first event after a change uses stale offsets; Affix alternates at its boundary.

**jQuery.** A handler that throws leaves `jQuery.active` too high and skips
"complete"; a call that `beforeSend` refuses calls neither; concurrent JSONP calls of
one given name share the window's function, and a late script answers the next
call; scripts of error answers are run. Results after positional selectors may
repeat or be out of order, as may what `contents().next()` gives; an exception in
a nested run leaves `outermostContext` set; `uniqueSort` of several detached trees
has no order. A script appended to a target in the page and a last one out of it
is not run; `replaceAll` with content inside an earlier target forgets its data.
`toggleClass(true)` takes classes off; `val` of a disabled option selects it but
reads nothing; `:disabled` counts every legend of a disabled fieldset as enabled;
keys that were removed come back with `data(key)` but not with `data()`. `height()` of
a border-box element in a hidden one is negative; a stale remembered display is
restored by `show` after `css("display", ...)`; `height("+=n")` adds the padding too.

## 7. What is not modelled, and why

- Formatting, parsing and logging; the ANTLR parsers are generated code.
- The arithmetic of probabilities and of weight learning: real numbers are out
  of TLC's reach. Only order, sums and zeroes of small numbers are used.
- SQL, grounding and the movement of data: the database is what its tables hold,
  where a module needs them. What is left in a schema by a run that died is
  therefore not modelled either.
- The samplers, MLE workers and learners, which the server never starts.
- The order of turns in Gauss-Seidel rounds; what one turn does is in `WalkSAT`
  (whose run takes a part of a component) and `MCSat`.
- Servlets that repeat the pattern of `UploadServlet`, except for the end of the
  session in `DownloadRules`.
- In the browser: the parsing of selectors and of HTML, styles as text, captions,
  templates, validation and dropping of files, merged cells and export, the texts of
  tips, the full screen by F11; backstretch and tableExport. `jquery-1.11.1.js`,
  `sortable.js` and `purify.js` are loaded by no page.

Of the JavaScript about three tenths of the lines are mapped, most of them in the
libraries that the pages load; of the server's Java the files named in section 2.

## 8. What could come next

1. `Grounding`: the closure of active atoms in `KBMC` and `Grounding` as a fixpoint,
   with the reference definition of reachability, and the tables it shares with
   a concurrent run; `DataMover` as what is read from and written to them.
2. `GaussSeidel`: `InferComponent` composing the searches on the parts of one
   component, with `WalkSAT!OthersUntouched` as what makes it sound.
3. The threads and barriers of `MultiCoreSGDLearner`.
4. The other servlets as clients of `CleanerServer`, and its `startClean` composed
   with `CleaningPage`.
5. Proofs: what the modules of the browser that use no recursive operator state
   (`Callbacks`, `Deferred`, `Events`, the widgets).
