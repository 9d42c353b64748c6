# A TLA+ model of the VPR7-RRAM tool chain and its flow drivers

The repository holds the EDA tools around `branches/vpr7_rram`: a fork of VPR 7
that packs, places and routes a netlist on an FPGA with RRAM or SRAM
configuration memories, maps the result onto physical blocks, and generates
SPICE netlists, Verilog and bitstreams (*FPGA-X2P*); and the Perl drivers that
run these tools over sets of benchmarks (`branches/fpga_flow/scripts`). Below,
`SRC/` stands for `src/branches/vpr7_rram/vpr/SRC/`.

This directory holds TLA+ modules of the parts where a step-by-step account
says more than a test: long protocols over shared data structures, undo after
failure, searches that must end, and threads. `PROJECT.json` relates every
definition to the lines it stands for.

## 1. Inventory

### 1.1 How the parts interact

VPR is one sequential process over global variables. Packing
(`pack/`) fills `block[]` and the packed netlist; `vpr_init_pre_place_and_route`
(`base/vpr_api.c`) sizes the grid; `place_and_route` (`base/place_and_route.c`)
places once, then routes at one width or searches for the narrowest; FPGA-X2P
(`fpga_x2p/`) routes the inside of each physical complex block again, numbers
the configuration bits, and writes its outputs. The shell
(`fpga_x2p/shell/mini_shell.c`) offers the same steps as commands, in any order.
The difficulty lies in long sequences of legal calls over shared state, in
partial failures that must be undone, and in state left over from an earlier
call. The Perl drivers start whole tool chains one by one, in forks, or in
ithreads: there, real interleavings occur.

### 1.2 Components

| component | state it keeps | operations | what is hard | what makes it correct |
|---|---|---|---|---|
| Primitive queues, `pack/cluster_placement.c` | per pb_type lists of primitives, tried, invalid and in-flight nodes, flags, costs | reset, mode choice, next placement, commit, query, flush | one node is moved by many functions, over thousands of calls | no node lost or doubled; only free primitives offered; failure only when all was tried |
| Clusterer, `pack/cluster.c` | block/pb links, `valid` of molecules, open complex block, candidates, seeds, grid size | open, place, revert, update, discard and repack, save | failure half way through a molecule; failure of a whole complex block at its end | links agree; nothing packed is lost; every molecule ends in one complex block |
| Cluster legality, `pack/cluster_legality.c` | a small routing graph of the open block | add, remove, try to route | the state is saved and restored around each attempt | an accepted block is routable |
| Prepacker, `pack/prepack.c` | molecules, best molecule per block | pattern matching | a pattern that fails is retried | molecules share no block |
| Device grid, `base/SetupGrid.c`, `base/vpr_api.c` | candidate size, bracket, `nx`, `ny`, instance counts | generate, test, halve, double | off-by-one of a search; 16-bit coordinates | ends, on the smallest size that holds the netlist |
| Placer, `place/place.c` | locations, grid, usage, free positions, macros, bounding boxes, costs | initial placement, swap, accept or revert, recompute | two tables of one fact, updated at different moments; a macro moves whole or not; costs kept by differences | the tables agree, no position is lost, costs are those of a count from scratch |
| Channel width search, `base/place_and_route.c` | bracket, last results, saved routing, saved output pins | try, halve, double, verify, save, restore | restoring what later attempts overwrote | narrowest width seen; its own routing put back |
| Chip router, `route/` | traces, occupancy, costs, a binary heap | rip up, expand, connect, update costs | congestion negotiation; caches between nets | routed means legal |
| Physical block router, `fpga_x2p/router/` | the same inside one block, virtual sources | the same, plus backannotation | stale predecessors; nets with several sources | routed means legal; nets found again from pins |
| Bitstream, netlist and testbench generators, `fpga_x2p/bitstream`, `fpga_x2p/verilog` | counters of memory cells, list of configuration bits | number, decode, file, load | three passes count the same cells, each in its own way | the loaded chip is the routed design |
| Multiplexers and LUTs, `fpga_x2p/base/fpga_x2p_mux_utils.c`, `fpga_x2p_lut_utils.c` | none | layout, decode | written against a network another file builds | decoding is the inverse of the network |
| Shell, `fpga_x2p/shell/` | option tables, one environment | parse, check, execute | options outlive commands; order is free | a command sees its own options |
| SPICE driver, `run_fpga_spice.pl` | task status, counter, threads, result files | poll, launch, join, parse, report | polling races with ending | limit kept; results read when all ended |
| Flow driver, `fpga_flow.pl` | job status, counter, `thread_id`, working directory, output files | the same over flows and benchmarks; forks | shared working directory; polling races | each job once; limit kept; report complete |

Everything else the repository contains is listed in `PROJECT.json` with the
reason it is left out: third-party code (pcre, printhandler, ACE 2), an import
of VTR 8, sequential construction of data (routing resource graph, pb graph),
floating-point analysis (timing, power, mrFPGA), printing and drawing, and
earlier tools nothing else uses (MPACK, DTT, PowerGrid, clk_tree, GenUI).

## 2. Modules

| module | role | models |
|---|---|---|
| `ClusterPlacement` | component | `SRC/pack/cluster_placement.c` and its calls in `SRC/pack/cluster.c` |
| `PrimitivePool` | abstract | what those queues promise the packer |
| `ClusterPlacementProofs` | proofs | |
| `Clusterer` | component | `do_clustering` with placing, reverting, candidates, discarding; `free_pb` |
| `ClustererProofs` | proofs | |
| `MoleculePartition` | abstract | what packing promises the placer |
| `DeviceGrid` | component | `vpr_init_pre_place_and_route`, `alloc_and_load_grid`, `find_type_col` |
| `ChannelSearch` | component | `binary_search_place_and_route`, fixed width, `save_routing`, `restore_routing` |
| `NarrowestWidth` | abstract | what a search for a channel width promises |
| `PbRouter` | component | `fpga_x2p_router.c`, heap, trace and cost operations, backannotation |
| `PbRouterProofs` | proofs | |
| `Router` | component | one call of the breadth-first chip router: `route_breadth_first.c` with traces, costs and output pin reservations of `route_common.c` |
| `RouterProofs` | proofs | of `Router` and of `ChannelSearch`, the search around it |
| `NegotiatedRouting` | abstract | what a negotiated-congestion router promises |
| `Placer` | component | `place.c`: initial placement, swaps, freezing, final check; `read_user_pad_loc`, `post_place_sync` |
| `PlacerCosts` | component, over `Placer` | the bounding boxes and the three incremental costs of `place.c` |
| `PlacerProofs` | proofs | of `Placer`, of `PlacerCosts` and of `DeviceGrid`, the array it works on |
| `MuxConfig` | operators | layout, decoding and network of multiplexers and LUTs |
| `Bitstream` | component, over `MuxConfig` | netlist numbering, bitstream generation, loading by the testbench |
| `BitstreamProofs` | proofs | three invariants of `Bitstream`, with the networks of `MuxConfig` |
| `SpiceTasks` | component | scheduler, tasks, parsing and report of `run_fpga_spice.pl` |
| `JobPool` | abstract | what a driver promises of a set of jobs |
| `SpiceTasksProofs` | proofs | |
| `FlowTasks` | component | the three schedulers of `fpga_flow.pl`, working directory, reports |
| `FlowTasksProofs` | proofs | |
| `MC*` | instances | constants for TLC |

### 2.1 From code to model

* **`ClusterPlacement`.** A queue is a set, since no list order changes what is
  offered beyond equal costs. `valid_primitives` is the array of lists, one per
  pb_type; `tried`, `in_flight` and `invalid` are the other places of a node.
  Each loop that moves nodes is a step or several (`FlushTried`,
  `FlushInFlight`, `RequeueInvalid`, ...), so that an invariant is seen inside
  the loops. A failed assertion ends in `pc = "abort"`. The expansion of a pack
  pattern from a root is the constant `PlacementAt`, the pb hierarchy
  `Lineage`, from which the effect of a commit (`Blocked`) is computed. The
  packer asks for a free primitive on behalf of any block of a molecule
  (`ExistsFree` on `BlockTypes`), not only of its root.
* **`Clusterer`.** One step per block placed, per block reverted, per candidate
  taken. Gains and pin counts are not computed: which candidate has the highest
  gain, and whether a check (pins, routability) passes, are choices, so the
  runs cover every order of success and failure. `layout` is the mode for which
  the children of the top pb were allocated, `inner` that of each container between
  it and the primitives: `PlaceBlock` allocates both on the way down, and
  `RevertBlock` frees a container when none of its blocks is counted. A pb of a mode
  disabled in packing (`Disabled`) makes a placement fail: a container after
  the block was linked, a primitive before. That the second never happens is
  the work of `PrimitiveTypeFeasible`; with the mutation `FeasibleThoughDisabled`
  TLC shows what would follow, a container without a child in a mode of its own.
  `check_clustering` looks for such containers (`HasChild`). The queues behind `Offer` are
  those of `ClusterPlacement`, reduced here to any placement of unoccupied
  sites not tried before.
* **`DeviceGrid`.** One step per iteration. `Instances` counts what
  `alloc_and_load_grid` would put on the grid from the column definitions;
  `Nint` is the macro `nint` on a fraction. Fractions are exact pairs.
* **`ChannelSearch`.** A call of `try_route` is one step whose answer is chosen
  once per width and remembered: the placement is fixed and the router is
  deterministic, but wider need not be easier. A traceback is named by the
  attempt that made it, so that stale and lost routings are visible; so is
  what fills the list of reserved output pins. `auto` marks a block type whose
  equivalent pins are detected, which `save_routing` passes over and
  `restore_routing` does not (5.2). Pads have no such list: they have no classes.
* **`PbRouter`.** One step per element taken from the heap. The heap is a set;
  `Cheapest` is the set of its least elements. What the next net inherits
  (`prev_node`, path costs, flags) stays in the state. The occupancy of a
  virtual source, which the code never initialises, is chosen freely.
  `MaxPresFac` stands for the `HUGE_POSITIVE_FLOAT/1e5` that `pres_fac` is cut to.
* **`Router`.** One step per element taken from the heap, as in `PbRouter`; but
  the chip has channels with bend costs, a bounding box per net, SINKs that a net
  enters more than once, and output pins that a block reserves for itself.
  Occupancies are never recounted: they are raised and lowered as the code does
  it, element by element of a trace, and compared with a count of their own.
  `opins` starts with what an earlier call left. Elements that the code
  invalidates on the heap are taken out; of equal elements the second does
  nothing, so the heap is a set. The timing-driven router is not modelled.
* **`Placer`.** `loc` is `block[].x, y, z`, `grid` the table of the cells, `usage`
  its counts, `legal` and `free` are `legal_pos` and `free_locations`, `moved` is
  `blocks_affected`. One step per macro, list entry, pad line and block of the
  initial placement; then a swap is proposed in one step (`Propose`, `Abort`) and
  accepted or rejected in another, since the coordinates change at the first and
  the grid at the second. Any legal target may be drawn: the range limit and the
  number of attempts only make some draws rarer. The assertion on the type of
  the target is made for each member of a macro as it is looked at (`Misplaced`),
  before the first that cannot move.
* **`PlacerCosts`** strengthens each action of `Placer` with what it does to
  `bb_coords`, `bb_num_on_edges`, `net_cost`, `temp_net_cost`, the delays and the
  three costs. A large net's box is updated from the old one with the counts on
  its edges, or recomputed; a small one is recomputed. A run of the annealer may
  recompute criticalities between any two swaps. Delays are in four tables, by
  whether source and sink are pads. Prices are integers.
* **`MuxConfig`.** Operators only. `Decode` and `LutBits` are the bitstream
  generator's, `Network` and `LutOutput` what the generated Verilog does with
  bits; `Arch` and `InputAt` the layout both rely on.
* **`Bitstream`.** One step per circuit and pass, then one per programming cycle.
  The list of bits is kept newest first, as the code builds it. `startEdge` says
  whether the change of the programming clock at time 0 counts as a falling edge
  (5.2).
* **`SpiceTasks`, `FlowTasks`.** The main program and each thread are separate
  processes. `error()`, `is_joinable()` and `is_running()` are separate reads of
  the state of a thread. ithreads copy Perl variables, so a thread sees none of
  the scheduler's; the working directory and the files are shared. A tool writes
  its file, fails to, or finds an old one. Only for some tools does a flow look
  whether the file is there (`Checked`); after the others it goes on whatever
  they did. `FlowTasks` returns to the base directory after every tool, where
  `run_abc_mccl_fpgamap` goes straight to the directory of the next one.

Composition is by refinement rather than by product: each component is shown to
implement a small abstract specification, which is what its neighbour relies on
(`PrimitivePool` for the clusterer, `MoleculePartition` for placement).

## 3. Runs

Properties are not repeated where one implies the other. Types do not make a
property by themselves: they are the first conjunct of one (`LinksAgree`,
`SizeIsTight`, `DoneIsConsistent`, `NextConnectionIsCheapest`, `OccupancyIsExact`,
`CountIsRight`), so are the bracket's saved routing (`SavedIsAnswer`), the way
back of a path (`PathsLeadBack`) and the boxes behind the costs (`BoxesExact`).
Each property is broken by a small mutation of the code's definitions (`mutants`
in `PROJECT.json`).

| run | what it shows |
|---|---|
| `placement` | `NodeConservation`, `AssertionsHold`, `OfferIsFree`, `FailureIsExhaustive`, `NeverOfferedTwice`, `CallsReturn` and `ImplementsPool` over every order of opening, packing, failing, querying and flushing |
| `clusterer` | `LinksAgree`, `SeedsLeaveNothing`, `AssertionsHold`, `PackingEnds` and `ImplementsPartition` over every outcome of every check |
| `clusterer_children` | *violation* of `ChildrenFitMode` (5.1) |
| `device_grid` | `SizeIsTight`, `SmallestFits`, `SizingEnds`, with coordinates in range |
| `placer` | `GridExact`, `MacrosIntact`, `FreeListExact`, `CostsExact`, over every placement and every sequence of proposed, accepted, rejected and aborted swaps |
| `channel_search` | `DoneIsConsistent`, `NarrowerFailed`, `SearchEnds`, `ImplementsNarrowest` |
| `pb_router` | `NextConnectionIsCheapest`, `DriversLeadToSource`, `RouterReturns`, `ImplementsNegotiation` |
| `router` | `OccupancyIsExact`, `TracesAreTrees`, `NothingIsLeftOver`, `VerdictIsRight`, `RouterReturns`, for every order in which equal costs leave the heap |
| `bitstream` | `CountersInStep`, `CellsHoldTheirBits`, `ChipDoesDesign` for both memory organisations and every multiplexer structure |
| `spice_tasks` | `CountIsRight`, `ImplementsPool` with its liveness: the driver ends |
| `flow_tasks` | `CountIsRight`, `RunOnce`, `FlowsEnd` |
| `flow_tasks_directory` | *violation* of `ToolsRunInTheirDirectory` (5.1) |

### 3.1 Bounds

* `placement`: five primitives of three pb_types, a top with two modes and an
  element with two more, three molecules (one block anywhere, a pair along a
  pattern, a block with a forced connection), asked about by each of their blocks. This has a pb_type with two
  primitives and one with a single primitive in each mode, so lists run empty
  and are taken over, and commits exclude nodes at two levels. The sequence of
  calls is unbounded.
* `clusterer`: five molecules over six blocks, a pad, a memory and a logic block
  of three modes, two instances of each type at most, two critical orders and both
  seed rules; 44,320 distinct states. A molecule of two blocks is needed for a
  partial failure; a block that fits two modes for the second mode; a grid limit of
  two for growth and for the end "no room". Two elements of the first mode have two
  modes each, so that a container is emptied and given children of another mode;
  one of these four modes is disabled in packing, and so is the third mode of the
  block, whose element has an enabled one: the two ways to meet a disabled mode.
* `device_grid`: three aspect ratios, five sets of memory columns, netlists of
  up to 40 logic blocks, `MaxShort = 13` in place of 32767: large enough for
  three doublings, small enough that the limit is met.
* `placer`: an array of 2 by 3 in a ring of one-pad cells, five blocks, one of
  them a pad, two in a vertical macro; the pad drawn or read from a file. Three
  core blocks in six cells leave swaps onto free cells, onto single blocks and
  onto the macro, and moves that leave the chip. One net is large for
  `SMALL_NET = 4` and has two pins on one block, so that edges are shared, left
  and passed; 38,292 distinct states.
* `bitstream`: multiplexers of 2, 3, 5, 6, 7, 8, 10 and 11 inputs as tree, one
  level, two and three levels, with and without the constant input, on every
  path and unused; LUTs of one to three inputs with covers of up to two lines;
  each alone and in pairs of different kinds, through scan chain and memory
  bank. The sizes include those with a special, smaller basis multiplexer and
  those where levels fill exactly; `Entered` states that the hypothesis of
  `ChipIsDesign` holds of all of them. The loaded chip has no further step, so the
  deadlock check is off; 103,280 distinct states.
* `channel_search`: at most twelve tracks in place of 1000, from starts that
  make the search double or halve first, every pattern of routable widths, both
  routers and directions, block types with and without detected pins; 10,049
  distinct states.
* `pb_router`: two nets, one with two sources, two sinks each, twelve pins or so,
  16 graphs in which the nets are routable at once, after negotiation, never, or
  are cut off; three iterations at most, the last with `pres_fac` at its cap.
* `router`: three nets over fourteen nodes and 16 graphs. One net needs two pins
  of a SINK and competes for an output pin with the reservation of its block;
  the others make a wire overused; one is global. Three iterations, after which
  every verdict is met: routed in each of them, congested, disconnected.
* `spice_tasks`: three tasks and one, two or three threads, so that the limit
  is below, at, or never reached. `flow_tasks`: two flows, one of them
  listed twice, on two benchmarks: the four jobs pass the limit of two, and two
  of them are met twice in a pass; 714,944 distinct states.

The costs of `PbRouter` and `Router` are integers; the code adds and multiplies
floats. Rounding, and so ties that rounding makes or breaks, is not modelled.

### 3.2 Fairness

VPR is sequential: weak fairness of `Next` (of `Return` in `ClusterPlacement`,
since the packer need not call again) says only that a running program goes on.
The drivers assume weak fairness of the main program, weak fairness of each
thread (a tool ends), and strong fairness of `Launch`: creating a thread may
fail any number of times but not for ever, which is what "relaunch later" in
the scripts relies on. No fairness makes a tool succeed.

## 4. Proofs

Several components are proved for every value of their constants that satisfies
the named assumptions; TLC evaluates these assumptions in the runs.

**`ClusterPlacementProofs`.** For every pb graph, mode set and set of
molecules: `TypeOK`, `NodeConservation`, `AssertionsHold`, `OfferIsFree`,
`NeverOfferedTwice`, `FailureIsExhaustive`, and that every step is one of
`PrimitivePool`. The properties alone are not inductive. `IInv` adds: a list
holds one pb_type and a pb_type one list (`OneListPerType`), without which
`requeue_primitive` could miss a list; what each program point says of the
arguments (`ControlInv`); that what is offered can be committed in any order
(`OfferInv`); that a committed primitive and what it excludes stay invalid
(`CommittedInv`); the mode (`ModeInv`); and that collected nodes are invalid and
that what was offered is tried or in flight (`CollectedInv`). That an empty list
exists when one is needed is a counting argument: there are as many lists as
pb_types and each nonempty list has its own (`LastSlot`, `RequeueFindsList`).

**`ClustererProofs`.** For every netlist, architecture, order of critical blocks
and outcome of the pin and routing checks: `LinksAgree`, `SeedsLeaveNothing`,
`AssertionsHold`, and that packing implements `MoleculePartition`. The heart of
`IInv` is that whatever is in the open complex block is counted or belongs to
the molecule being placed (`Counted`): so reverting a block, which may free the
parent it shares with others, never takes a packed molecule along. A container has
children exactly while a block lies in it, and those of the mode of all its blocks
(`Nested`); what is still to be placed is of enabled modes and fits the containers
(`Fits`). From these two follow the assertions on the mode of a container and that
none is without a child. It is assumed, as pack patterns are drawn, that the
primitives of a placement lie under one mode of each container
(`PlacementsAssumption`). The rest says that a molecule is packed whole (`WholeMolecules`), how far the current one
is placed or reverted (`AttemptInv`), that the seed is in from its commitment on
(`ControlInv`), that what is proposed is valid (`FeasibleInv`), and that the
blocks passed over are in *finished* complex blocks or in the seed
(`SeedOrder`): those of the open one could still be freed. The number of complex
blocks is bounded by counting the molecules outside finished ones (`Bounded`).
The assertion on the children of the top pb, which fails, is not part of it.

**`PlacerProofs`, on `DeviceGrid`.** For every architecture and netlist: coordinates in range,
`SizeIsTight`, `SmallestFits`. The invariant `SearchInv` says that `high` holds
the netlist, that `low` or the size just below it does not, and that `current`
lies between. It holds without any monotonicity; only `SmallestFits` assumes,
in its statement, that larger arrays hold what smaller ones do, and columns
counted from the right or at a relative place break that.

**`SpiceTasksProofs`.** For any number of benchmarks and any options:
`CountIsRight` (the counter is the number of threads created and not joined, and
never above the limit) and the safety part of `JobPool`. `IInv` says, per place
of the main program, which tasks have started, ended and been parsed.

**`PlacerProofs`, on `Placer`.** For every array, netlist, macro set and pad file without
two lines for one site: `TypeOK`, `SitesAgree` and `UsageExact` (together
`GridExact`), `MacrosIntact`, `FreeListExact`, and `PinsFollowSite`, of every
step that may be taken. While a swap is proposed coordinates and grid disagree
on purpose; the invariant speaks of `Held`, the place a block gets back if the
swap is rejected. `IInv` says that the blocks held at places are one-to-one with
the non-empty entries of the grid, that macros keep their shape at the held
places and at the proposed ones, that `moved` maps places to places without a
collision, and how far the lists of legal positions have been compacted.
`UsageExact` needs a counting argument: a move takes one entry of a cell and
fills one of another.

**`PlacerProofs`, on `PlacerCosts`.** For every set of nets with at least one sink,
non-negative delays and any sequence of swaps and timing analyses: `CostsExact`,
and that each step of the placer with its costs is a step of `Placer`
(`CostsFollowPlacer`), so that all of the above holds of it too. `CostIInv` adds
to `IInv` that boxes, net costs and delays are those of `OldLoc` (`BoxesAt`,
`DelayCostsAt`), that while a swap is weighed the marked nets are exactly those
with a moved pin and have the boxes and costs of `loc` (`BoxesWeighed`,
`DelaysWeighed`), and that nothing is marked in between (`Idle`). Three arguments
carry it. One pin at a time, `UpdateSpan` turns the exact ends and edge counts of
a span into the exact ones after the move, or says that it cannot (`SpanStep`);
over the moved pins of a net, the box is at each step that of the pins moved so
far, or already that of all of them from scratch (`Midway`). The connections
looked at for the moved pins are disjoint, so `Change` counts each once
(`ChangeIsTotal`). And a sum does not depend on the order in which it is taken:
the change of a total is the total of the changes (`TotalOfChanges`); what would
be an induction over finite sets takes a smallest counterexample (`PartByPart`).
Costs are integers here, so the theorem says nothing of round-off.

**`RouterProofs`, on `ChannelSearch`.** For every set of setups and every answer the router
may give to a width: `DoneIsConsistent`, that the search implements
`NarrowestWidth`, and, where Fs is at most 3, `NarrowerFailed`. `IInv` says that
`low` failed and `high` routed (`Bracket`), that no width still open was tried
(`OpenBracket`), that a verification's answer is the least that routed
(`AnswerIsLeast`), what is known of the widths below it (`Below`), and of which
width the saved routing is (`Saved`). Without `Fs <= 3` the third is false, see
5.2.

**`FlowTasksProofs`.** For any benchmarks, list of flows and options: `RunOnce`
and `CountIsRight`. `IInv` says what each place of the main program knows of the
job it is at (`ControlInv`) and that a job with a status, a record or a thread
has been begun (`BegunInv`), without which a job met twice in a pass could be
launched again. The counter is compared with the difference of two sets, so each
step is a counting argument: it adds or removes one job of one of them.

**`BitstreamProofs`.** For every sequence of circuits
(`DesignsAssumption`): `CountersInStep`, `CellsHoldTheirBits` and
`ChipDoesDesign`. The invariant says that the cells given to
circuits tile the memory (`Tiles`), that a filed bit is the one decoded for its
cell (`Files`), of which there are as many as the netlist counts
(`DecodedBits`), that after *k* cycles cell *i* of a scan chain holds bit *k - i* of
the list (`Shifts`), and that after *k* writes the first *k* cells of a memory bank
hold theirs (`Writes`). The last rests on facts about the array: its side is
large enough, row and column tell cells apart (`PlacesDiffer`), and a decoder
as wide as the rounded logarithm has an address for every line (`AddressFits`), which
is an induction over powers of two (`PowerFacts`).

`ChipDoesDesign` then is a fact about single circuits (`CircuitDoes`): one whose
cells hold its bits does what the design asks, for multiplexers of any size and
LUTs of any number of inputs.

* A network is a recursive function from the deepest level to the output.
  `WiresExist` shows by induction that it has a value at every wire, and
  `PathPasses` that a chain of wires, each the only one connected to the next,
  brings the input at its end to the output. `InputPasses` makes the chain out
  of the digits of the input's place, and needs of a layout only that no two
  inputs share a wire and none lies on another's way (`LaidOut`).
* `TreeDecoded`, `FlatPasses` and `MultiDecoded` show that the decoder's bits
  select these digits. `DecodeTree` takes the first input of the upper group for
  one of the lower (`path > last` where the multilevel decoder has
  `path > last - 1`); the tree passes it all the same, since its digits above the
  lowest are the right ones. The special basis multiplexer takes just the inputs
  behind the whole ones (`SpecialIs`), so its bits are the lowest digit too.
* For several levels the decoder counts the places of the level above from its
  end and the netlist from the wires the deepest level drives. That the two agree
  is a hypothesis for three and more levels (`EntersAsDecoded`), because it is
  false for some sizes (5.2). For two levels it is proved (`TwoLevelsAgree`): the
  basis being the least that is large enough, at most two wires stay free.
* A LUT's inputs select the bit whose binary digits are theirs inverted
  (`LutSelects`), and that bit is the value of the cover (`LutHolds`) whatever the
  order and overlap of its lines.

**`RouterProofs`, on `Router`.** For every routing resource graph with the edges VPR builds
(`GraphAssumption`: nothing leaves a SINK or enters a SOURCE, only an IPIN leads
to a SINK and it has no other edge, as `build_rr_sinks_sources` makes them), any
nets, bounding boxes, reservations and integer costs: `OccupancyIsExact`,
`TracesAreTrees`, `NothingIsLeftOver` and the two halves of `VerdictIsRight`.
`IInv` has these parts.

* `WaveInv`: a labelled node has a labelled predecessor over an edge of the
  graph, closer to the wiring, or lies on the wiring; a heap entry likewise.
  Costs fall on the way back, so the walk of `update_traceback` ends and visits no
  node twice: this is an induction along the walk (below). That every use of a
  node costs something is what `BaseCost` 0 for SOURCEs and SINKs alone gives.
* `WiringInv`, `SegmentInv`: what is already wired has path cost 0 or is about to
  get it, so a new branch leaves the tree at one node and touches it nowhere
  else. With it `TraceInv`, that traces are trees, is preserved by `Connect`.
* `PinsInv`: an IPIN in the trace is not reachable any more, although the search
  clears its cost and that of the SINK in the middle of the wave
  (`route_breadth_first.c:243`), so a net that needs several pins of one SINK
  gets as many. `FlagsInv` counts them: flags left and pins connected make up
  the connections.
* `OccupancyInv`: at each place of the program, which nets and which classes
  occupy their nodes now. `ReservedInv` says that what was reserved has no
  pin twice and comes from the right SOURCE; the lists that an earlier call
  left are excluded until the second iteration, as `rip_up_local_opins` does.
* `ConnectedInv`, `FeasibleInv`: nets before the current one have all their
  connections, and what the check has seen.

For the verdict "no path" the proof uses `FrontierInv`: every node that can be
reached within the box is labelled or lies behind an entry of the heap, except
behind IPINs already spent. An empty heap then means that some SINK has fewer
pins within reach than the net needs (`TooFewPins`, `ReachableWithin`). The code
takes a path of cost `HUGE_POSITIVE_FLOAT` for no path, so the theorem `Verdict`
assumes `[]CostsBelowHuge`; the invariant `CostsBelowHuge` holds in all 179,412
states of the `router` run. `RoutedVerdict`, that "routed" is right, needs no such
hypothesis. The proof attempt showed that an earlier form of `OccupancyIsExact`
did not say what it meant: two arms of a CASE overlapped while pins were being
reserved in the first iteration.

**`PbRouterProofs`.** For every routing resource graph in which nothing leaves a
SINK, any nets (at least one: a mapped block holds a primitive, which is on a
net) whose SINKs are their own, any positive node costs and any negotiation
factors: `NextConnectionIsCheapest`, `DriversLeadToSource`, and that the router
implements `NegotiatedRouting`. `IInv` has these parts.

* `PathsInv`, `TraceInv`: as in `RouterProofs`, a label has a cheaper labelled
  predecessor or lies on the wiring, so the walk of `update_rr_graph_traceback`
  ends there, visits no node twice, and a trace stays a tree. Nothing is said of
  the `prev_node` of unlabelled nodes, which is what the net before left.
* `Complete`: every path from the wiring has been offered to the node behind it,
  as a label, a heap entry, or as the segment that is expanded next. The least
  wanted entry is then the cheapest of all walks: `NoCheaperWalk` follows a walk
  to the first node whose label it beats.
* `Hopeless`: after the heap ran empty the code clears the path costs and goes on
  with the old segment, and `Complete` is lost. But then the costs found before
  bound those of every path from below (`Potential`), and no wanted sink can be
  reached below `HUGE_POSITIVE_FLOAT` in the rest of the net. `WaveInv`, one or
  the other, is what makes both properties inductive.
* `OccInv`, `ConnectedInv`: a node's occupancy covers the nets charged for it,
  and nets before the current one have all their sinks. With the recount this
  gives both congestion verdicts; `AnnotatedInv` relates what is written back to
  the last place of a node in the traces. `DriversLeadToSource` needs that a node
  on two traces is refused, although the recount counts a later net once per
  appearance and the first only once (5.2).

For the refinement the wires of a trace are shown to be a tree in the sense of
`NegotiatedRouting` (`WiresAreTree`: reachability there is an iteration,
`ReachIsClosed` and `ReachIsLeast`), a connection adds one branch with one sink
(`BranchWires`), and a net is given up only when some set of nodes that no edge
leaves holds the source and not the sink (`ClosedOff`). The last is where a path
of cost `HUGE_POSITIVE_FLOAT` would be taken for none, so this theorem assumes
`[]CostsBelowHuge`, which TLC finds true in all 20,459 states of the `pb_router`
run; the other two do not need it. The proof attempt showed that without a net
the model would rip up net 1, which does not exist: the assumption that there is
one was missing.

The prover cannot apply the library's induction theorems, which take a
predicate as argument. Where a proof needs induction over the naturals it takes
the least counterexample instead (`LeastNatural`, from the theorem that `<` is
well-founded on `Nat`), which is enough for the recursive functions of the routers, for reachability and
for powers of two.

Only model-checked: liveness (`CallsReturn`, `PackingEnds`, `SizingEnds`,
`SearchEnds`, `RouterReturns`, `FlowsEnd`, the ending of `JobPool`), since it is
outside what the prover handles. Every other property of a passing run is also
the property of a theorem.

## 5. What was found

### 5.1 Shown by a run

* A seed refused in the first mode of a complex block leaves the children of the
  top pb allocated for that mode; in the second mode the assertion at
  `pack/cluster.c:1341` meets them (`clusterer_children`).
* The threads of `fpga_flow.pl` share one working directory: between the `chdir`
  of one and the start of its tool another may change it
  (`flow_tasks_directory`).

### 5.2 Observed while modelling, without a run of their own

* `exists_free_primitive_for_logical_block` looks at the lists and the node in
  flight only; primitives tried for the previous molecule are denied
  (`pack/cluster_placement.c:687`).
* `feasible_routing_rr_graph` counts a branch point of the second and later nets
  once per appearance, so occupancy may exceed the number of nets on a node, and
  is never less (`fpga_x2p/router/fpga_x2p_router.c:602`).
* `restore_routing` restores the reserved output pins under the list lengths of
  the *last* attempt (`route/route_common.c:210`), where the comment at 186 says
  that it restores those of the saved one. With the timing-driven router the
  lengths change from attempt to attempt. `DoneIsConsistent` therefore says of
  the breadth-first router only that its output pins come back.
* Block types whose equivalent pins are detected (`output_ports_eq_auto_detect`):
  `save_routing` does not save their reserved output pins (146), and
  `restore_routing` copies the list back all the same (209), as `malloc` left it
  (708), although it "Also restores the locally used opin data" (190). The
  breadth-first router does reserve such pins (1282; the test that passes them over
  is commented out), the timing-driven one does not (1352, 1373). Nothing reads
  the list afterwards: `check_route` skips these types (`route/check_route.c:683`, 709). In
  the model their list is filled by attempt 0 after `Restore`, and
  `OpinsRestored`, a part of `DoneIsConsistent`, speaks of the other types.
* In `fpga_flow.pl` a thread that ends before `is_running()` is asked (2723) is
  counted off without having been counted on, so one thread too many may run,
  although the comment at 2663 speaks of a limit. `CountIsRight` of `FlowTasks`
  states the exact drift.
* When three times the middle of the bracket is below Fs the channel search
  returns `high` without trying the widths between: with Fs = 6,
  3 is returned and 2 never tried (`base/place_and_route.c:375`).
  `NarrowerFailed` is checked with Fs = 3, where no width is skipped (and
  with 4 and 9, where the search is refused or stops before its first attempt).
* A comment asks for two free rows beside a chain (`base/vpr_api.c:381`); the
  code, rightly, accepts a chain that fills a column.
* `check_locally_used_clb_opins` assigns to its own loop variable
  (`ipin = rr_node[inode].ptc_num`, `route/check_route.c:732`): entries of the
  list are skipped, or the loop starts again from a lower one.
* `run_fpga_spice.pl` asks `error()` and then `is_joinable()` (1334); a thread
  that dies in between, on errors in its simulation, is taken for one that
  finished, and its results are reported.
* In `fpga_flow.pl`: a thread that died after `error()` was asked is marked done
  (2690); a job whose fork failed is never run although the text says "Relauch
  later" (2640); the report of `vtr_standard` depends on the completion of
  `vtr` (3247).
* Placer: `read_user_pad_loc` gives the grid the pad's sub-block but leaves `z`
  at 0, the final check compares only `x` and `y`, and `post_place_sync` then
  puts the nets on the pins of sub-block 0; two lines of the file that name one
  site are not refused; the test of the types of a macro's targets is commented
  out (`place/place.c:1247`), which is harmless as long as macros hold one type
  and columns are uniform; with every block fixed `try_swap` searches for ever
  for one to move (`place/place.c:1348`).
* The testbench of a scan chain gates the programming clock with the reset and
  waits for a falling edge before each bit. Only if the change from unknown to 0
  at time 0 counts as such an edge is the first bit there at the first rising
  edge; otherwise the chain is loaded one bit short
  (`fpga_x2p/verilog/verilog_top_testbench.c:925` speaks of one more cycle).
  `CellsHoldTheirBits` and `ChipDoesDesign` assume the edge (`StartSeen`).
* Multiplexers of three or more levels: the decoder takes input *i* of the upper
  group to be the one *fan_in - i* places before the end of its level
  (`fpga_x2p_mux_utils.c:250`), the netlist ties it behind the wires the deepest level
  drives (`init_spice_mux_arch`, line 640), and the assertion there (line 655)
  admits a level that is not filled. Of 114 inputs in three levels the last one is
  tied to wire 23 and decoded as wire 24, which floats. The assumption `DeepIsLost`
  of `MCBitstream` has TLC compute it: the multiplexer passes the assertions and
  nothing reaches its output. Up to 299 inputs it happens for 114, 197, 202 and 203
  (those sizes that pass the assertions at all).
* Multiplexers: a multilevel one of two inputs has two memory ports in the
  netlist and one bit in the bitstream; some sizes of three or more levels (5
  inputs in 3 levels) fail an assertion; unbuffered inputs and outputs are
  assigned in the wrong direction (`verilog_submodules.c:1624`, 1692); the RRAM
  decoder of several levels never divides the path it descends
  (`fpga_x2p_mux_utils.c:470`). A memory bank of one cell has a decoder of no
  address bits. The comment at `fpga_bitstream.c:344` names an order of blocks
  that neither generator follows.
* Shell: nothing resets whether an option was given, nor its value, between
  commands, although a comment (`fpga_x2p/shell/read_opt_types.h:14`) says it is
  per command; a required option counts as given when an earlier line gave it
  (`read_opt.c:207`); packing does not ask whether setup was done
  (`cmd_vpr_pack.c:126`).
* A fixed width that does not route leaves its routing and width in place for
  the commands that follow (`base/place_and_route.c:172`).

## 6. Not modelled, and left out inside the models

`PROJECT.json` gives the reason for each component that has no module. Within the
modules: list order and memory release of the primitive queues; gains, hill
climbing and file output of the clusterer, and more than one level of containers between
top pb and primitives; which tile of the grid holds what in `DeviceGrid`; the
annealing schedule, the range limit, round-off and the nonlinear congestion cost
of the placer, and unknown names in a pad file; `PLACE_ALWAYS` (dead code:
no option sets it) and `Fc_clipped` in the channel search; the heap's array and
several connections of one net to one sink in the block router; switches and
the timing-driven search of the chip router; RRAM circuits, fracturable LUTs and
mode bits, pin remapping, unbuffered multiplexers, the standalone organisation of
memory and the bitstream's file format; `parse_results_only`, the reroute loops
and the log parsers of the drivers.

The share of the repository these modules cover is small. Most of its lines are
third-party sources (pcre, pugixml, catch, printhandler), an unmodified import
of VTR 8, readers and printers of files, graphics, and floating-point analysis,
of which a state machine would say nothing.

## 7. Plan

Built, in this order of importance: packing (`ClusterPlacement`, `Clusterer`),
routing inside a block (`PbRouter`), on the chip (`Router`), channel search, grid,
drivers, placement (`Placer`, `PlacerCosts`), configuration (`MuxConfig`,
`Bitstream`). To come:

1. `Shell`: option tables and commands over one environment, with the order of
   commands free. To state: a command uses its own options only; a command that
   needs a netlist or a placement has one.
2. `Router`: the timing-driven search of `route_timing.c` and its route tree, and
   `NegotiatedRouting` with capacities and repeated connections, for both chip
   routers to implement as `PbRouter` does; `RrHeap`, the binary heap with its
   comparison past the end (`route_common.c:1020`), against a bag.
3. `PinRemap` (`clb_pin_remap/`) on top of `Placer`.
4. `Prepack`: molecules against a definition of the patterns.
