# Papas in TLA+

Papas simulates a detector in a simple way and reconstructs particles from what
the simulation leaves in it (the *particle flow*).  This directory holds TLA+
modules that follow its C++ code and that of the logging library it is built
with, TLC configurations that check them on small instances, and proofs checked
by TLAPS.

`PROJECT.json` lists the runs, the lines of the source each definition stands
for, the hazards of the code, and the theorems.  A comment above each property
says what it means and which behaviour of the code it is about.

1. [The system](#1-the-system)
2. [The modules](#2-the-modules)
3. [The runs](#3-the-runs)
4. [What is proved](#4-what-is-proved)
5. [Where the code and its documentation differ](#5-where-the-code-and-its-documentation-differ)
6. [Not modelled](#6-not-modelled)
7. [What could come next](#7-what-could-come-next)

## 1. The system

A program (`example_simple.cpp`, `example_plot.cpp`, `example_loop.cpp`,
`example_pdebug_python_comparer.cpp`) reads events, and
`PythiaConnector::processEvent` runs a chain of stages on each:

    clear -> addParticles -> simulate -> mergeClusters x2 -> buildBlocks
          -> simplifyBlocks -> reconstruct

Papas itself runs in one thread.  What is hard in its code is

* **ownership and aliasing**: bare pointers to collections that another class
  owns and frees;
* **failure half way**: exceptions that leave a stage after it has stored and
  linked some of its objects, and file operations that fail in the middle of a
  rotation;
* **reuse**: one manager for all events, one visitor for many traversals, one
  reconstructor for many blocks;
* **order**: hash maps, ties in distance, elements that several loops compete
  for, numbers of events that are set before the event is known.

The logging library (`spdlog`, in the repository) adds **concurrency**: a
lock-free queue between threads, a worker that may die, a destructor that waits
for it; and **restarts**: files that outlive the program.

| Component | State it keeps | Operations | Used by |
|---|---|---|---|
| Directed graph (`graphtools/DirectedAcyclicGraph.h`) | `m_children`, `m_parents` of nodes; `m_visited`, `m_result` of visitors | `addChild`, traversals by `BFSVisitor` or `BFSRecurseVisitor` | flood fill, history |
| Flood fill, subgraphs (`FloodFill.h`, `BuildSubGraphs.cpp`) | `m_visited`, `resultsVector` | `traverse`, `buildSubGraphs` | merging, building, simplifying |
| Event (`datatypes/Event.h`) | folders of collection pointers, a reference to the history | `addCollectionToFolder`, look-up, `clear` | every stage |
| PapasManager | lists that own every collection, the event, the history | one method per stage, `createXs`, `clear` | the programs |
| HistoryHelper | none | `linkedIds`, ancestors by type | PFReconstructor, display |
| Simulator, propagators, detectors | the output collections it was given; the points of paths | one routine per kind of particle | PapasManager |
| mergeClusters, Cluster, rulers | merged clusters with their parts, the record of energies `s_maxEnergy` | `mergeClusters`, `distance` | PapasManager |
| PFBlock, Edge, buildPFBlocks, simplifyPFBlocks | identifiers and edges of each block | build, look up, print, simplify | PapasManager |
| PFReconstructor | `m_locked`, `m_unused`, `m_particles` | `reconstructBlock` and what it calls | PapasManager |
| Identifiers (`IdCoder.cpp`) | none | pack, unpack | everything |
| Programs and event loop (`examples/`) | number of the event, the file, the windows | `processEvent`, write, display, clear | - |
| Display (`display/`, `PFEventDisplay.cpp`) | views, registers by layer | register, `draw`, `clear` | programs |
| PDebug, Log, papaslog (`utility/`) | a file, the registry's loggers, a stream per message | log, rotate, decorate | everything |
| spdlog: queue, worker, sinks, patterns, formats | cells with sequences; files; buffers | log, flush, end; format | the logs |

What makes the parts correct:

* **graph, visitors**: a traversal returns exactly what direction and depth
  select, nearest first, each node once, also when the visitor is used again;
* **subgraphs**: each identifier in one and only one connected subgraph;
* **event, manager**: pointers in folders are never dangling, what is
  registered stays until `clear`, and the history and the event name the same
  objects, whichever stage was refused or cut short;
* **programs**: their order of calls is never refused, no deposit is lost or
  used twice, nothing half done is written or shown, each program ends;
* **simulation**: each particle leaves one of the combinations of objects that
  the later stages know, at places of the detector, and an event is discarded
  for a reason;
* **clusters, blocks**: merging joins all that touches and nothing else, and
  simplification shares the elements out again and keeps the right links;
* **particle flow**: each track makes one particle, calorimeter energy is not
  given out twice, and what is dropped is dropped for a reason;
* **logging**: accepted messages reach the sinks once and in order, the end of
  the program waits for them, rotating drops the oldest lines only, and lines
  show whole what they name.

## 2. The modules

`A <- B`: B extends A.  `A <= B`: B is shown to implement A by a run and, for
some, by a theorem.

    DirectedAcyclicGraph <- Traversal (contract) <= BFSVisitor, BFSRecurseVisitor
                         <- BuildSubGraphs

    Event <- PapasManager <- EventLoop <- Programs   (Programs extends Display too)
                    ^= Simulation (extends Detectors)        Detectors <- ElectronEfficiency

    IdCoder <- PFBlock          Ruler <- MergeClusters          PFBlocks <- PFReconstructor

    LogQueue (contract) <= AsyncLog -> MpmcQueue

    FileSink <- PapasLog        PapasLogger        Writer <- Format, PatternFormatter

Each `MC...` module gives one of them, or several side by side, to TLC; the
`...Proofs` modules hold the theorems.  `PapasManagerProofs`, `ProgramsProofs`,
`SimulationProofs` and `AsyncLogProofs` are about the module they are named for,
the others about several: `GraphProofs` about both visitors and `BuildSubGraphs`,
`ElementsProofs` about `IdCoder` and `PFBlock`, `ReconstructionProofs` about
`MergeClusters`, `PFBlocks` and `PFReconstructor`, `PapasLogProofs` about
`PapasLog`, `PapasLogger` and `Format`.

### 2.1 Graphs

| Module | Code | Correspondence |
|---|---|---|
| `DirectedAcyclicGraph` | `Node`, `Visitor` | `children` and `parents` are the two sets each node keeps; `Followed` is the choice of neighbours of `visitInnerChildren/Parents`. `Reachable` and `Within` say what should be found without an algorithm |
| `Traversal` | the `Visitor` interface | abstract specification: `Ask`, then `Answer` in one step |
| `BFSVisitor` | `BFSVisitor` | `nodeQueue`, `nodeDepth`, `m_visited`, `m_result` are the variables of the code; one action per visited neighbour, per pop, and for entry and return |
| `BFSRecurseVisitor` | `BFSRecurseVisitor` | the tail recursion as a loop over levels: `nodes`, `visitnextnodes`, `depth` are its arguments |
| `BuildSubGraphs` | `FloodFill::traverse`, `buildSubGraphs` | `localNodes` are the keys of the local map (`operator[]` may add keys), one action per group |

`BuildSubGraphs` takes a whole traversal as one step, which is what the contract
of the visitors and theorem `CompleteWithoutLimit` allow.  Neighbours are kept in
unordered sets of pointers, so their order is left open.

### 2.2 Event, manager, programs, display

| Module | Code | Correspondence |
|---|---|---|
| `Event` | `Event.h`, `Folder` | `folder[ts]` is a pointer, given as the position of the collection in `collections`, 0 for none; `AddCollections` is `addCollectionToFolder` on one collection after another, until one throws |
| `PapasManager` | `PapasManager.cpp` and what its stages store and link | a stage is `Begin` (its empty outputs are created and owned), a step per object it makes (which stores the object and extends the history), and `Finish` (the outputs are added to the event), or `Throw` where the code can throw |
| `EventLoop` | `PythiaConnector::processEvent` | `pc` numbers its calls; `EndEvent` is the normal end and the `catch` |
| `Programs` | `example_*.cpp`, `PFApp`, `PFEventDisplay.cpp` | `at` is the place in the program; `source` is an auxiliary variable: the event the objects are of |
| `Display` | `Display.cpp`, `ViewPane.cpp` | a view has a register of what it has to draw and a canvas of ROOT's; drawables copy what they show |

In `PapasManager`, which deposits a particle leaves, which clusters overlap and
what a block gives are choices.  Which combinations the code can make, in which
order it stores, links and throws, and what is left behind after a throw, are
not.  The modules that follow fill the choices in.

### 2.3 Simulation and detectors

| Module | Code | Correspondence |
|---|---|---|
| `Simulation` | `Simulator.cpp`, `HelixPropagator.cpp`, `StraightLinePropagator.cpp`, `Path.cpp` | `script` is what is still to be done about the current particle; `points` are the named points of its path; an action is one propagation, one cluster or track made, smeared, accepted or refused |
| `Detectors` | `CMS*.cpp`, `Clic*.cpp`, `Detector.h` | the cylinders in their order, and `acceptance` threshold by threshold |
| `ElectronEfficiency` | `Clic::electronAcceptance` | the same acceptance, asked for a hundred random numbers |

A particle has a species, a start in cylindrical coordinates and a direction.
Whether it meets a cylinder follows from them; where, does not matter to what
is stored.  Amounts of energy are a few numbers, and what smearing makes of them
is a choice that includes negative energies.  `ImplementsManager`
(`Manager == INSTANCE PapasManager`) shows that whatever happens to a particle
is one step that `PapasManager` allows.

### 2.4 Clusters, blocks and particle flow

| Module | Code | Correspondence |
|---|---|---|
| `Ruler` | `Ruler.cpp`, `EventRuler.cpp`, `Distance.cpp` | angles are whole numbers, a full turn is `Turn`; which pairs are linked, and how far apart |
| `MergeClusters` | `MergeClusters.cpp`, `Cluster.cpp` | edges, groups, then one merged cluster per step with its parts, energy and the record of energies; again on merged clusters |
| `PFBlocks` | `BuildPFBlocks.cpp`, `SimplifyPFBlocks.cpp` | a block is its element identifiers and linked edges; `edgesToUnlink` and `simplifyPFBlock` are the functions of the same name |
| `PFBlock` | `PFBlock.cpp`, `Edge.cpp`, letters of `IdCoder.cpp` | a block as stored: edges in a map by key, elements in an order; counts, name, list and matrix |
| `PFReconstructor` | `PFReconstructor.cpp` | `step` is the place in `reconstructBlock`; an action is a loop over leptons or one hcal; locks, unused elements and particles are the members of the class |
| `IdCoder` | `IdCoder.cpp`, `Edge::makeKey` | an identifier is the number that `makeId` packs; how many codes each field has, and so the bases that the shifts multiply by, are constants; a float is its sign and its other bits, and a negative one is extended with its sign as the code's conversion does |

In `PFBlocks`, which elements are linked and how far apart they are is an
input; in `PFReconstructor`, energies are small numbers and whether an excess is
significant is a choice, as the resolution is a parametrisation.

### 2.5 Logging

| Module | Code | Correspondence |
|---|---|---|
| `MpmcQueue` | `mpmc_bounded_q.h` | one action per access to a shared variable: load a position, load a sequence, compare and exchange, fill or empty the cell and store its sequence |
| `AsyncLog` | `async_log_helper.h`, `async_logger_impl.h` | clients with both overflow policies, the worker loop with its flush and terminate requests, sinks that may throw as they write or as they are flushed, the exception passed to the next client, the destructor |
| `LogQueue` | - | abstract specification: a bounded first in, first out queue |
| `FileSink` | `rotating_file_sink`, `file_helper.h` | `files[0]` is the open file; each `remove`, `rename`, `fopen`, `fwrite` may fail, and a crash loses what was not flushed |
| `PapasLog` | `PDebug.cpp`, `Log.cpp`, `registry.h`, `line_logger` | the two logs of papas, made when first used, over several runs of the program; removing the old debug file and opening it may fail, one without the other |
| `PapasLogger` | `Logger.h` | the macros, decorators and streams of `papaslog`, for several threads |
| `Writer` | `BasicWriter`, `Buffer`, `MemoryBuffer` of `format.h` | a place of the buffer that was not written holds what memory held |
| `Format` | `BasicFormatter::format`, `ArgList`, `ArgMap` | the parts of a format string, taken one by one |
| `PatternFormatter` | `pattern_formatter_impl.h` | a pattern is compiled once; each flag writes its item |

### 2.6 How the groups fit

* `MergeGroup` and `MakeBlock` of `PapasManager` take any group of the objects not
  dealt with.  That groups share the objects out is `EachIdInOneSubGraph`
  (theorem `Partition`), that they hold together is `SubGraphsAreConnected`
  (theorem `SubGraphsAreComponents`); that overlapping clusters make a group is
  `MergedDoNotOverlap` (theorem `MergedKeepApart`); that simplification shares out is `EachElementInOneBlock`
  (theorem `BlocksShareOut`).
* `MakeParticle` stands for `PFReconstructor`: a particle has its block and
  elements of that block as parents.
* `SimulateParticle` stands for a whole particle of `Simulation`
  (`ImplementsManager`, theorem `SimulationImplementsManager`).
* In `Event` an identifier is its type, subtype and index; `SortsByFields` and
  `KeyNamesBothEnds` (theorems `SortedByFields`, `KeysNameBothEnds`) say that this
  is enough and that sorted sets of identifiers are in descending order of
  energy, which `PFReconstructor` relies on.
* `PFBlock` stores what `PFBlocks` has as a set of links: `BlockShowsItsLinks`
  (theorem `BlocksShowTheirLinks`).
* The lines that `PapasLog` writes are made by `Format` and `PatternFormatter`.  That
  `Writer` puts a field together as a reader expects is `FieldsAreWhole` (theorem
  `FieldsAreWrittenWhole`).

## 3. The runs

`tlc -config X.cfg M` for the configuration and module named in `PROJECT.json`.
A run that covers several modules takes them side by side: a behaviour is about
one of them, which TLC chooses, and the others keep their initial states.

| Run | Checks | Instance and why it is enough |
|---|---|---|
| `graphs` | each identifier in one connected subgraph; both visitors keep the contract (a refinement with liveness) | all subsets of 4 identifiers with every set of linked or unlinked edges: 4 allow two groups of two and a chain found from its middle; all graphs over 3 nodes, self links included, call after call, with depths -1, 0, 1, 2: no limit, start only, a limit that cuts and one that does not |
| `foreign_edges` | *violation*: an edge to an unknown identifier | 3 identifiers |
| `manager` | folders lead to collections, the history names objects of the event, registered collections never change | any stage at any time, repeated, refused or cut short; 13 collections owned at a time: enough for a second `simulate` to be refused, or for every later stage and a repetition |
| `programs` | only the simulation throws, objects have an origin, each deposit reaches one block, the number is that of the event, nothing half done comes out, the picture is whole, the program ends | each program with two events, so that the second may be cut short after a first that was not and the other way round; two views; the first particle leaves anything, the second at most one deposit, so that each pair of deposits meets. An event owns twelve collections at the most, one below the bound |
| `simulation` | points are on their cylinders, what is stored has positive energy, discarding is explained, the simulation implements `PapasManager` | both detectors; single particles of each species from 6 further starts (along the beam, off it, in each calorimeter, beyond both), level or not, in 3 directions (barrel, crack, forward); and pairs. An energy of 10 split into 3 and 7; smeared to -5, 12 or 80 |
| `elements` | identifiers sort and pair, printed blocks show their links, merged clusters do not overlap and keep energy and links | every pair of identifiers with 4 indices, 4 subtypes, 8 types and 8 values: letters of both cases, values of both signs, the first index that does not fit; all collections of clusters of two sizes in four directions on both sides of the jump of phi (`Turn` 6), tracks in every direction; every block of up to 4 elements with every set of edges |
| `particle_flow` | elements are shared out, tracks keep their closest hcals, one particle per track, neutral energy bounded, unused elements explained | 2 tracks, 1 ecal, 3 hcals. Either all links at distances 0 and 1 (ties, and least distances that differ between tracks) with equal energies, or one hcal left aside and all energies 1 and 4 (below and above the K0 mass 2), origins, and significances |
| `ties` | *violation*: two hcals at the same distance | 1 track, 2 hcals |
| `clic_efficiency` | *violation*: electrons that CLIC keeps | electrons of 10 GeV across the beam, 100 random numbers |
| `async_log` | one thread per cell, queue order (a refinement), sinks behind but never different, nothing left at the end, the destructor returns | 2 clients, one with 2 calls; 2 cells, so that the queue is full, empty and goes round; 2 sinks that may throw, writing or flushing; both policies |
| `logging` | rotation, the debug file, the loggers, fields, lines and messages | 4 lines of 3 lengths, 2 rotated files of size 2, failures of each file operation, any number of restarts and crashes; format strings of two parts with a buffer of 6 so that it grows; every pattern flag at 9 times that differ in one field; 2 threads with 2 statements |
| `centred` | *violation*: a centred double that makes the buffer grow | as `logging` |

The bounds are the constants of the configurations and the inputs that the
comment at the head of each MC module names.  `MaxCollections` is a guard of
`Begin` and `AddParticles`; `MaxIndex`, `NumParticles`, `NumEvents`, `MaxCalls`,
`MaxLines`, `MaxStatements` and the length of `LineSize` bound inputs.
`CHECK_DEADLOCK FALSE` is set where the system ends: `async_log`, `logging`,
`centred`, `elements`, `particle_flow`, `programs`, `ties`, `clic_efficiency`.

**Fairness.**

* The visitors have weak fairness of `Step`, the programs of `ProgStep`
  (`MCStep` in the run): a call that has been entered, and a program that has been started,
  go on, as they run in one thread with nothing to wait for.  Nothing obliges a
  caller to make another call: `Traverse` and `Link` are not fair.
* `AsyncLog` has weak fairness of the steps of each client and of the worker:
  each is a thread, and threads are scheduled.  No fairness is assumed of a
  thread winning a compare and exchange.  Nothing happens after the program is
  aborted.
* All other specifications are for safety only.

**What to know of some results.**

* `DestructorReturns` holds with its exceptions only: if the policy discards
  messages, the request to end may itself be discarded, and then `join` waits
  for ever; and an exception of the worker that is thrown in the destructor
  skips `join`.
* `RotationKeepsNewest` allows the loss of the oldest lines when `rename` fails
  half way, as the code throws after it has removed the oldest file.
* `DebugFileIsNewOrGoesOn` is what remains of a new file in every run, as
  `PDebug.cpp:18` ignores what `std::remove` returns and `:19` opens for appending.  If
  only the first of the two fails (a file that may be written, in a directory that may
  not), the lines of this run are added to the old ones; `undeleted` records it.
* `MessagesAreWhole` is about messages, not lines: see section 5.
* `EachTrackMakesOneParticle` and `NeutralEnergyIsOfClusters` hold for ties too:
  the locks do what the simplification does not.

## 4. What is proved

For every value of the constants, finite or not unless said otherwise:

| Module | Theorems | Assumption on constants |
|---|---|---|
| `GraphProofs`, of visitors | `TypeCorrect`, `CompleteWithoutLimit`, `LevelsStayInOrder`, `Refinement`, `RecursionRefinement` | the last three: depths are integers |
| `GraphProofs`, of subgraphs | `SubGraphsTypeCorrect`, `DisjointGroups`, `Partition` (`EachIdInOneSubGraph`), `SubGraphsAreComponents` (`SubGraphsAreConnected`) | the last two: `~ForeignEdges`, which all three callers keep |
| `PapasManagerProofs` | `FoldersAreSafe` (`FoldersLeadToCollections`), `HistoryIsSafe` (`HistoryIsOfTheEvent`), `RegisteredIsKept` (`RegisteredStays`), `ObjectsHaveOrigins` (`EachObjectHasAnOrigin`) | bounds are natural numbers |
| `ProgramsProofs` | `NumberIsNeverStale` (`NumberIsOfTheEvent`), `OnlyTheSimulationThrows` (`OnlySimulationThrows`), `NothingHalfDone` (`NothingHalfDoneComesOut`), `DepositsAreShared` (`EachDepositInOneBlock`), `PictureStays` (`PictureOutlivesTheEvent`) | any number of events and particles; `PictureStays`: the views are some of the three from the side, `PFApp` asks for no other |
| `SimulationProofs` | `SimulationIsManaged`, `PointsAreSafe` (`PointsAreOnTheirCylinders`), `EnergyIsPositive` (`StoredEnergyIsPositive`), `DiscardsAreExplained` (`DiscardIsExplained`), `SimulationImplementsManager` (`ImplementsManager`) | any events of particles, energies, shares and results of smearing, both detectors |
| `ReconstructionProofs`, of clusters | `MergedKeepApart` (`MergedDoNotOverlap`), `MergingKeeps` (`MergingKeepsEnergyAndLinks`) | finitely many clusters, of one part each to begin with, with whole angles and energies; tracks have points at some calorimeters |
| `ReconstructionProofs`, of blocks | `TypesAreRight`, `BlocksShareOut` (`EachElementInOneBlock`), `TracksKeepTheirClosest` (`TrackKeepsItsClosestHcals`), `TracksMakeOne` (`EachTrackMakesOneParticle`), `UnusedHasAReason` (`UnusedIsExplained`), `NeutralsAreOfClusters` (`NeutralEnergyIsOfClusters`), `ReconstructionLeavesBlocks` | kinds of elements are disjoint, distances are natural numbers; from `TracksMakeOne` on: finitely many elements, with positive energies |
| `ElementsProofs` | `SortedByFields` (`SortsByFields`), `KeysNameBothEnds` (`KeyNamesBothEnds`), `BlocksShowTheirLinks` (`BlockShowsItsLinks`) | fields of any size, more than six types; the lower case of a letter is a letter; the last: elements have identifiers that `makeId` accepts, and no two have the same but for their values |
| `AsyncLogProofs` | `CellsAreExclusive` (`OneThreadPerCell`), `QueueIsFIFO` (`ImplementsQueue`), `SinksAreBehind` (`SinksFollow`), `WorkerLeavesNothing` (`NothingLeftBehind`) | the size of the queue is a power of two, at least 2, as its constructor demands |
| `PapasLogProofs`, of the logs | `LoggersStay` (`LoggerIsThere`), `DebugFileNewOrGoesOn` (`DebugFileIsNewOrGoesOn`), `NewestStay` (`RotationKeepsNewest`) | the files of `PDebug` are not those of `Log`; any lines, sizes and numbers of files |
| `PapasLogProofs`, of the terminal | `TerminalKeepsMessagesWhole` (`MessagesAreWhole`) | a statement has a level and inserts a sequence of operands |
| `PapasLogProofs`, of formats | `FieldsShowTheirArguments` (`FieldsShowWhatTheyName`), `FieldsAreWrittenWhole` (`FieldsAreWhole`) | a field refers to what it shows by turn, by number or by name; for the second: texts and fills are of any characters but the mark of a place not written, widths are numbers, and what `snprintf` makes of a finite double is not empty and does not begin with a blank |

In parentheses: the property of a run that the theorem states.

*Visitor.*  The result of a search is right at its end for a reason that concerns
its middle: every marked node that is no longer queued has all its neighbours
marked.  `IInv` adds this, that what is marked was visited and is
reachable, that what is queued is marked, and that nothing is marked or queued
between calls.  With an empty queue the marked nodes are closed, so they hold
`Reachable`, the least closed set around the start.  Without the last part the
second call could start among old marks.

A call with a limit is right if each node is found at its own distance
(`QueueInv`).  With `Ball(k)` for the nodes at most k links away and h for
the depth at the head of `nodeDepth`: what waits has depth h or h + 1 in this order,
and at h + 1 only what is not in `Ball(h)`; the marks hold `Ball(h)` and lie in
`Ball(h + 1)`; a marked node that no longer waits has its neighbours marked, as
long as h is below the limit.  Without the order of the depths a node could be
cut off although a shorter way leads to it.  The recursion is simpler, since
what it has marked and the level in hand are a ball together (`DepthInv`).

*Subgraphs.*  `GroupsDisjoint` is not inductive: a new group might run into an old
one.  `PartitionInv` adds that links are stored at both ends, so that following them both
ways is symmetric, and that the visited nodes are exactly the groups and are
closed.  What a symmetric closed set leaves is closed as well, so a group
started outside stays outside.  For their being components `ConnectedInv` keeps
that the links of the nodes are the linked edges, no more, and that each group is
what can be reached from one of its nodes.

*Manager.*  `IInv` is `Shape`, `StageInv`, `FolderInv` and `LinkInv`.  A folder
leads to a collection that holds the right objects although a stage is storing
objects at that moment, because what a stage fills are addresses of its own,
never one that is in a folder (`StageInv`, `FolderInv`).  The history is about
the event although links are made before the collections are added to it:
`LinkInv` says that both ends are in the event or in a collection that is about
to be.  `simulate` adds six collections one after another and may be refused at
any of them; what was added up to then must satisfy all of it, except `LinkInv`,
which a refused stage does give up (`failed`).

*Origins.*  Each link of the history leads to an object of higher `Rank`, which
follows from its type and subtype, and only generated particles are without parents
(`OriginInv`): going back from any object ends at generated particles, and from a
track, which has one parent, at one of them.  This is lost in a stage that fails,
and before it fails in one that makes objects for a folder that is taken
(`Doomed`), as when clusters are merged a second time: it gives them identifiers
that others have.

*Programs.*  `NumberInv` says that wherever the number of the event differs from
that of its objects there are no objects.  `OrderInv` relates `pc`, the folders
and the running stage: at call k the folders that this call fills are empty,
and a smeared cluster is linked to one parent, so that it is not merged twice.
It needs `IInv` of the manager.  `ShownInv` says that an event that was given
up has generated particles only, as all clusters reach the event in one
stage that throws before it adds them.  `ShareInv` follows a deposit from call
to call: what call k was given is in exactly one of the objects that it makes, or
still waits for one, and from a smeared cluster to its block there is one way
only.  `PictureInv` says what the canvas of each view holds when the display is
through, independent of the objects it was made from.

*Simulation.*  `Base` is the invariant of the manager and ties the `script` to what is
stored: what is to be smeared is the latest of its collection.  `PointsInv`
has one exception, the current particle between the tracker and the hcal,
whose point of the tracker stands where that of the hcal belongs; what meets the tracker
meets the hcal, so that it is replaced.  `ReachInv` looks one step ahead of
a cluster.  For the refinement, `MadeInv` keeps that what the current particle has
left so far is one of the combinations of the manager, cut short.

*Clusters.*  `MergeInv` says of the groups, merged already or not, that they are
disjoint and that no cluster of one is linked to a cluster of another: the groups
are closed under edges, which are looked at from both sides.  The ruler measures
a merged cluster by the closest of its parts, so that two of them are linked just
if two of their parts are.  For the energy, that of what is merged and that of the
groups that wait make up that of the collection.  When merged clusters are merged again, what goes
into a new one has a single part, or the constructor throws, and measures as this
part does, having its position and size.

*Blocks.*  The group of an element is closed under links, and so is what it
leaves; two groups that meet are the same.  `IInv` says this of the blocks that
are simplified and those that are to be, together (`BlocksInv`), and what each
simplified link was before (`LinksInv`).

*Particle flow.*  `LockInv` and `Makes`: within the current block a track is
locked exactly if its particle has been made, in the blocks before all have been
made, in those after none, and no two blocks share an element (the
invariant of the blocks).  Each of the four loops that may come to a track tests the lock.
`EnergyInv` bounds the energy of the neutral particles by that of the clusters in
the blocks that are through and of the locked ones of the current block; a cluster that pays
is not yet locked and is locked in the same step.  The laws of sums over
finite sets that this takes are proved in the module.

*Identifiers.*  What `makeId` accepts is a number of four digits, each with a base of its own:
division takes it apart, and two such numbers compare as their digits do.  A negative
value is never accepted, since its sign hides the type and `checkValid` notices
that: no type has the last code.

*Blocks as stored.*  A block holds the edges of its own pairs, each under the key
of this pair and no other (`KeysNameBothEnds`), and its list has each element
once: a finite set of numbers has one descending list, which is found by
putting one more element into a shorter one.  So the cell at the crossing of a
row and a column belongs to one pair.

*Queue.*  The sequence of a cell tells whether its position is free, filled or being
taken, and the `Size` positions from `Oldest` on are in `Size` different cells
(`CellInv`).  A client goes only for a position among these, and no two win the
same (`ClientInv`); the worker takes the oldest one, if it is filled
(`WorkerInv`).  The abstract queue, `Waiting`, has the positions that are won and
not yet taken: an item joins it when its client wins the position, before
the cell is filled, and what the cell will hold is known by then.

*Sinks.*  What the worker took out is the beginning of what was accepted, and the rest
is in the cells in use (`HistoryInv`); the worker is at most one item ahead of each
sink (`SinkInv`).  Nothing is left at the end because the request to end is the last
item that is accepted (`RequestInv`) and the worker flushes before it follows
it (`EndInv`).

*Loggers.*  `ShapeInv` says which sinks and levels the loggers may have, and that a
file name is set only if the level is `info`; under it `LoggerIsThere` is inductive.  For
the debug file `DebugInv` says that each file is in order, that only `pdebug` has
a logger for it, and that what it holds are the lines of this run (`GoesOn`), after
all that was found there if the old file could not be removed: it is always tried, as
the level is `info` whenever there is a name, and nobody looks at the result.

*Rotation.*  `RotInv` is about all files at once, read from the oldest to the newest:
they ascend, and a line that was taken is in one of them or older than all of
them (`Newest`).  It holds of each state in which `_rotate` may be left, since every
one of its steps moves one file into a place that is empty.

*Terminal.*  `PlaceInv` says where in the output each piece is; pieces never move, as
the output is only added to.  `StreamInv` says that what a statement has inserted
and what is left of it make up its message.

*Formats.*  `Counts` relates `next_arg_index_` to the format string: it is the number
of references by turn so far, widths and precisions included, as long as all are by turn, and -1
as soon as one is not.  With it the argument found is the one that a reader
of the whole string expects.

`WholeInv` is about the buffer: it has at least the memory it began with, its text
consists of characters, and each field that was written lies inside it as
`Expected` says.  That later fields leave the earlier ones alone is the lesser part
(`Writes`: what was text stays text, also when the memory is another).  The greater
is `VisitWrites`: for every argument and every width, fill, alignment, sign,
prefix and precision, the steps of `prepare_int_buffer`, `write_str`,
`write_double` and `write_special` add up to what is expected.  `Has(b, n, t)` says
that a text is at a place; each of those operators is brought to a few texts that are
put next to each other (`Room`, `Opens`, `FillIn`), with what is put early
overwritten later only where it is meant to be.  The proof found that a pointer
with zeros for its precision had to be left out where the buffer grows
(`PaddedAtTheEnd`, see section 5).

Inductions over numbers and finite sets are done by least counterexamples: a
number or a finite set for which the claim fails has a least one, as `<` and
strict inclusion are well founded.

**Model-checked only**: liveness (`ProgramEnds`, `DestructorReturns`, the liveness
halves of the contracts), and a property of the run `logging`, `LinesSortByTime`, which
rests on what a fold over a pattern computes for every input.  Of the recursive function
`Digits` the proofs use only that it gives characters; `Expected` takes them from `Digits` too.

## 5. Where the code and its documentation differ

Shown by a run:

* `foreign_edges`: `BuildSubGraphs.h:31` allows edges that end outside the
  identifiers; `operator[]` then makes a node that holds 0, and 0 comes back as an
  identifier.  No caller does this now.
* `ties`: `SimplifyPFBlocks.h:14` promises at most one hcal per track; equal
  distances are kept, and a track that runs into two clusters has distance 0 to both.
* `clic_efficiency`: `Clic.cpp:39` compares with `>` where the others have `<`,
  and keeps 5% of the electrons instead of 95%.
* `centred`: `format.h:2709` grows the buffer with digits in it that do not count
  yet, and loses them.

Read off the code while it was modelled, and followed by the models:

* *Particle flow.* `PFReconstructor.cpp:114` wants the ecals of an electron left
  unlocked; the loop over hcals locks them through an hcal that they share the
  track with.
* *Identifiers.* `IdCoder.h:27` gives the largest index as 2097152 - 1, while
  `makeId` refuses it (`IdCoder.cpp:27`).  `Edge.h` says `otherId` returns -1 for
  an identifier that is not an end; it returns 0.
* *Blocks.* `PFBlock.cpp:121` and `PFBlock.h:85` promise the elements of a block by
  type, ecals first; `Ids` are sorted by descending identifier, so that tracks come
  first, and `blockIdComparer` is not used.  `PFBlock.h:46` says that
  `linkedEdgeKeys` sorts by distance; it does not sort (`PFBlock.cpp:85`).
* *Detectors.* `ClicTracker.cpp:31-34` never uses its high threshold;
  `ClicTracker.h:47` declares `thetaMax` to return `bool`; `ClicTracker::resolution`
  throws for 90 degrees only (see section 6).
* *Simulation.* `Simulator.cpp:230` formats a double with `%d`.
* *Display.* `GBlob.cpp:47` means to skip by `m_layer`, a string that is never set.
* *Clusters.* `Cluster::s_maxEnergy` is never reset: it is the record of all events.
* *Programs.* `example_pdebug_python_comparer.cpp:51`: for an unknown detector the
  manager is null and is used.
* *papaslog.* `Logger.h:156-160` promises thread-safe messages; the text and the
  end of the line are written separately, so lines of two threads may be mixed, and a copied
  stream prints its text twice (`:175`).  `papaslogger` is null until `main` sets
  it (`Logger.cpp:23`).
* *Asynchronous logger.* The move constructor of `async_msg` leaves out `thread_id`
  (`async_log_helper.h:51-55`); `_last_workerthread_ex` is written by the worker
  and read by clients without synchronisation (`:310`); an exception in the
  destructor skips `join` (`:192`).
* *Patterns.* `to12h` gives 00 at midnight, while `pattern_formatter_impl.h:143`
  says 1-12; `:235-241` prints `-5:-30` where `:217` says ISO 8601; `%%` shows `%%`.
* *Formats.* A string that is shown as a pointer with more zeros than it has digits
  (a precision is refused of pointers, `format.h:3504`, but not of strings) makes room
  for the width of its field from the beginning of the buffer only (`format.h:2446`): on the left,
  where the padding comes last, the buffer may grow under the place that was kept
  for the digits (`:2453-2457`), which are then written to memory that was given back.
  A double that is left aligned ignores its fill (`format.h:2715`);
  a number in a format string that wraps is not noticed (`format.h:3295-3311`).

## 6. Not modelled

* **Geometry and kinematics in floating point**: `Helix`, resolutions, sizes of
  clusters, momenta of particles, the mean position of a merged cluster.  Where an
  outcome decides what is stored, it is a choice in the model.  No particle flies
  exactly along the beam (`theta : 0 .. 89` in `Simulation`): there the tracker of Clic has
  no resolution and throws (`ClicTracker.cpp:54`, `:67`).
* **HistoryHelper** in directions other than that of the parents, which only tests
  use; `Event::extendHistory`, which has no caller, and `Event::info`.
* **ROOT drawing**, the shapes of what is displayed, and reading and writing
  events (`podio`): external.  What is registered, drawn over what, and when, is in `Display`.
* **PapasManagerTester**: opens private members to tests.
* **Catch** and **PrettyPrinter.h**: a test framework and a header that prints
  containers.
* **example_gun.cpp**: not built.
* Of **spdlog**: the printf formatter, wide characters, and the sinks and loggers
  that papas does not use; how the characters of a format string are told apart.

## 7. What could come next

The order followed, most important first: (1) graph, visitors and their
contract; (2) subgraphs; (3) event, manager, event loop; (4) blocks; (5) particle
flow; (6) identifiers; (7) programs and display; (8) simulation as an
implementation of the manager's stage; (9) clusters and rulers; (10) logging and
the asynchronous queue; (11) proofs of (1) to (10).

What is left:

1. The energy of a block as a whole (`PFReconstructor.cpp:220`): a track linked
   to two hcals has its energy taken off each of them.  Only the bound from above,
   `NeutralEnergyIsOfClusters`, is checked.
2. `HistoryHelper` in the other directions, with the look-ups of the tests.
3. `ClicTracker.cpp:31`: what the thresholds accept, against a statement of what they
   should; the code is the only one there is.
