------------------------------ MODULE PbRouter ------------------------------
(***************************************************************************)
(* The Pathfinder router of one physical complex block:                    *)
(* vpr7_rram/vpr/SRC/fpga_x2p/router/fpga_x2p_router.c with the heap,      *)
(* trace and cost operations of fpga_x2p/base/fpga_x2p_rr_graph_utils.c,   *)
(* and the steps of alloc_and_load_phy_pb_for_mapped_block around it.      *)
(*                                                                         *)
(* One step per element taken off the heap.  The heap is the set of its    *)
(* elements: get_rr_graph_heap_head returns any of those of least cost.    *)
(* A trace is the sequence of its nodes.  Every sink is wanted once by its *)
(* net (one SINK per pin), so remaining_connections_to_sink is always 0.   *)
(***************************************************************************)
EXTENDS Integers, FiniteSets, Sequences, FiniteSetsExt

CONSTANTS
    RrNodes,        \* nodes of the complex block's routing resource graph
    SinkNodes,      \* those of type SINK
    NumNets,
    NetSources,     \* [Nets -> sequence of SOURCE nodes]
    NetSinks,       \* [Nets -> sequence of SINK nodes]
    VirtualSource,  \* [Nets -> node added when the net has several sources]
    Graphs,         \* the edge sets the architecture may give
    Intrinsic,      \* [Nodes -> pack_intrinsic_cost, an integer scale]
    GarbageOcc,     \* what the occ of a new node may hold (realloc'ed memory)
    FirstPresFac, InitialPresFac, PresFacMult, AccFac,
    MaxPresFac,     \* HUGE_POSITIVE_FLOAT / 1e5
    MaxIterations,  \* router_opts.max_router_iterations
    HUGE,           \* HUGE_POSITIVE_FLOAT
    NoNode          \* OPEN, NO_PREVIOUS

Nets    == 1 .. NumNets
Nodes   == RrNodes \cup {VirtualSource[i] : i \in Nets}
Capacity == 1       \* of every node of a complex block
Sinks(i) == {NetSinks[i][k] : k \in DOMAIN NetSinks[i]}

(* A mapped block holds a primitive, which is on a net at least.           *)
ASSUME RouterAssumption ==
    /\ NumNets \in Nat \ {0} /\ MaxIterations \in Nat \ {0}
    /\ IsFiniteSet(RrNodes) /\ SinkNodes \subseteq RrNodes
    /\ NoNode \notin Nodes
    /\ \A i \in Nets : VirtualSource[i] \notin RrNodes
    /\ \A i, j \in Nets : i # j => VirtualSource[i] # VirtualSource[j]
    /\ \A G \in Graphs : G \subseteq (RrNodes \ SinkNodes) \X RrNodes
    /\ \A n \in Nodes : Intrinsic[n] \in Nat \ {0}
    /\ GarbageOcc \subseteq Nat

ASSUME CostsAssumption ==
    /\ {FirstPresFac, InitialPresFac, PresFacMult, AccFac, MaxPresFac} \subseteq Nat
    /\ HUGE \in Nat \ {0}

(* Each SINK belongs to one pin: net_rr_sinks names it once, for one net.  *)
ASSUME TerminalsAssumption ==
    \A i \in Nets :
        /\ NetSources[i] \in Seq(RrNodes \ SinkNodes) /\ NetSources[i] # <<>>
        /\ NetSinks[i] \in Seq(SinkNodes)
        /\ \A k, l \in DOMAIN NetSinks[i] : NetSinks[i][k] = NetSinks[i][l] => k = l

VARIABLES
    edges,          \* the edges of rr_node
    sources,        \* net_rr_sources
    occ,            \* rr_node[].occ
    pres_cost, acc_cost, path_cost, prev_node, target_flag, \* rr_node_route_inf
    modified,       \* rr_modified_head: nodes whose path_cost was touched
    heap,           \* elements [index, cost, prev_node]
    trace,          \* trace_head: [Nets -> sequence of nodes]
    tptr,           \* where the last traced segment starts in the trace
    routed,         \* net_sink_routed of the net being routed
    inet, isrc, isink, itry, pres_fac,
    driver, net_num,    \* prev_node and net_num written by backannotation
    verdict,        \* what try_breadth_first_route_pb_rr_graph returned
    pc

costs   == <<pres_cost, acc_cost>>
search  == <<path_cost, prev_node, target_flag, modified, heap, tptr, isink>>
result  == <<driver, net_num, verdict>>
loops   == <<inet, itry, pres_fac>>
vars    == <<edges, sources, occ, costs, search, trace, routed, isrc, loops, result, pc>>

-----------------------------------------------------------------------------
Init ==
    /\ edges \in Graphs
    /\ sources = NetSources
    /\ \E garbage \in GarbageOcc :
           occ = [n \in Nodes |-> IF n \in RrNodes THEN 0 ELSE garbage]
    /\ pres_cost = [n \in Nodes |-> 1] /\ acc_cost = [n \in Nodes |-> 1]
    /\ path_cost = [n \in Nodes |-> HUGE]
    /\ prev_node = [n \in Nodes |-> NoNode]
    /\ target_flag = [n \in Nodes |-> 0]
    /\ modified = {} /\ heap = {} /\ tptr = 0 /\ routed = {}
    /\ trace = [i \in Nets |-> <<>>]
    /\ inet = 1 /\ isrc = 1 /\ isink = 1 /\ itry = 1 /\ pres_fac = FirstPresFac
    /\ driver = [n \in Nodes |-> NoNode] /\ net_num = [n \in Nodes |-> 0]
    /\ verdict = "none"
    /\ pc = "load"

(* add_virtual_sources_to_rr_graph_multi_sources                           *)
MultiSource == {i \in Nets : Len(NetSources[i]) # 1}

AddVirtualSources ==
    /\ pc = "load" /\ pc' = "rip"
    /\ edges' = edges \cup
           UNION {{<<VirtualSource[i], NetSources[i][k]>> : k \in DOMAIN NetSources[i]} :
                  i \in MultiSource}
    /\ sources' = [i \in Nets |-> IF i \in MultiSource THEN <<VirtualSource[i]>>
                                                       ELSE NetSources[i]]
    /\ UNCHANGED <<occ, costs, search, trace, routed, isrc, loops, result>>

-----------------------------------------------------------------------------
(* pathfinder_update_rr_graph_one_cost: the element after a SINK repeats   *)
(* the node where the next branch leaves the tree, and is skipped.         *)
Charged(t) == {k \in DOMAIN t : k = 1 \/ t[k - 1] \notin SinkNodes}
Uses(t, n) == Cardinality({k \in Charged(t) : t[k] = n})

PresCost(o, fac) == IF o < Capacity THEN 1 ELSE 1 + (o + 1 - Capacity) * fac

UpdateOneCost(t, add_or_sub) ==
    LET charged == {t[k] : k \in Charged(t)}
        now(n)  == occ[n] + add_or_sub * Uses(t, n)
    IN  /\ occ' = [n \in Nodes |-> now(n)]
        /\ pres_cost' = [n \in Nodes |-> IF n \in charged THEN PresCost(now(n), pres_fac)
                                                          ELSE pres_cost[n]]

(* The net is ripped up, and its flags net_sink_routed start afresh.       *)
RipUp ==
    /\ pc = "rip" /\ pc' = "source"
    /\ UpdateOneCost(trace[inet], -1)
    /\ routed' = {} /\ isrc' = 1
    /\ UNCHANGED <<edges, sources, acc_cost, search, trace, loops, result>>

Cong(n) == acc_cost[n] * pres_cost[n]
Entry(n, c, p) == [index |-> n, cost |-> c, prev_node |-> p]

(* breadth_first_route_one_single_source_net_pb_rr_graph, up to its loop   *)
StartSource ==
    LET src == sources[inet][isrc] IN
    /\ pc = "source" /\ pc' = "segment"
    /\ target_flag' = [n \in Nodes |-> IF n \notin Sinks(inet) THEN target_flag[n]
                                       ELSE IF n \in routed THEN 0 ELSE 1]
    /\ trace' = [trace EXCEPT ![inet] = <<>>]
    /\ tptr' = 0 /\ isink' = 1
    /\ heap' = heap \cup {e \in {Entry(src, Cong(src), NoNode)} : e.cost < path_cost[src]}
    /\ UNCHANGED <<edges, sources, occ, costs, path_cost, prev_node, modified, routed,
                   isrc, loops, result>>

(* Mutation: only the end of the new segment is expanded, not its wires.   *)
ExpandSegmentEnd ==
    LET t == trace[inet] IN
    /\ pc = "segment"
    /\ isink <= Len(NetSinks[inet])
    /\ pc' = "first"
    /\ heap' = heap \cup {Entry(t[k], 0, NoNode) :
                              k \in {j \in DOMAIN t : tptr > 0 /\ j = Len(t)}}
    /\ UNCHANGED <<edges, sources, occ, costs, path_cost, prev_node, target_flag, modified,
                   tptr, isink, trace, routed, isrc, loops, result>>

(* breadth_first_expand_rr_graph_trace_segment                             *)
ExpandSegment ==
    LET t == trace[inet] IN
    /\ pc = "segment"
    /\ isink <= Len(NetSinks[inet])
    /\ pc' = "first"
    /\ heap' = heap \cup {Entry(t[k], 0, NoNode) :
                              k \in {j \in DOMAIN t : tptr > 0 /\ j >= tptr /\ path_cost[t[j]] > 0}}
    /\ UNCHANGED <<edges, sources, occ, costs, path_cost, prev_node, target_flag, modified,
                   tptr, isink, trace, routed, isrc, loops, result>>

AllSinksTried ==
    /\ pc = "segment"
    /\ isink > Len(NetSinks[inet])
    /\ pc' = "close"
    /\ UNCHANGED <<edges, sources, occ, costs, search, trace, routed, isrc, loops, result>>

-----------------------------------------------------------------------------
(* get_rr_graph_heap_head                                                  *)
Cheapest == {e \in heap : \A f \in heap : e.cost <= f.cost}

(* breadth_first_expand_rr_graph_neighbours, with the path costs p         *)
Neighbours(e, p) ==
    {f \in {Entry(m, e.cost + Cong(m) * Intrinsic[m], e.index) :
                m \in {x \in Nodes : <<e.index, x>> \in edges}} :
        f.cost < p[f.index]}

(* The head of the heap is not a target: its path is recorded and the wave *)
(* goes on, if it is the cheapest path so far.                             *)
Wave ==
    \E e \in Cheapest :
        /\ pc \in {"first", "wave"} /\ pc' = "wave"
        /\ target_flag[e.index] = 0
        /\ IF path_cost[e.index] > e.cost
           THEN /\ path_cost' = [path_cost EXCEPT ![e.index] = e.cost]
                /\ prev_node' = [prev_node EXCEPT ![e.index] = e.prev_node]
                /\ modified' = IF path_cost[e.index] = HUGE THEN modified \cup {e.index}
                                                            ELSE modified
                /\ heap' = (heap \ {e}) \cup Neighbours(e, path_cost')
           ELSE /\ heap' = heap \ {e}
                /\ UNCHANGED <<path_cost, prev_node, modified>>
        /\ UNCHANGED <<edges, sources, occ, costs, target_flag, tptr, isink, trace, routed,
                       isrc, loops, result>>

(* The walk of update_rr_graph_traceback from the sink's element e: the    *)
(* predecessor of each node, and the node after k steps.                   *)
Pred(e) == [n \in Nodes \cup {NoNode} |->
               IF n = NoNode THEN NoNode ELSE IF n = e.index THEN e.prev_node ELSE prev_node[n]]
Up(e) ==
    LET pred == Pred(e)
        up[k \in Nat] == IF k = 0 THEN e.index ELSE pred[up[k - 1]]
    IN  up

(* update_rr_graph_traceback: the predecessors until NO_PREVIOUS, from the *)
(* last one to the sink.  The walk is cut after Cardinality(Nodes) steps;  *)
(* PathsLeadBack shows that it ends before.                                *)
BackTrace(e) ==
    LET up  == Up(e)
        len == Cardinality({k \in 0 .. Cardinality(Nodes) : up[k] # NoNode})
    IN  [k \in 1 .. len |-> up[len - k]]

(* The head of the heap is a sink of the net: its path joins the trace.    *)
Connect ==
    \E e \in Cheapest :
        /\ pc \in {"first", "wave"} /\ pc' = "segment"
        /\ target_flag[e.index] > 0
        /\ target_flag' = [target_flag EXCEPT ![e.index] = @ - 1]
        /\ trace' = [trace EXCEPT ![inet] = @ \o BackTrace(e)]
        /\ tptr' = IF trace[inet] = <<>> THEN 1 ELSE Len(trace[inet]) + 2
        /\ routed' = routed \cup ({e.index} \cap Sinks(inet))
        /\ isink' = isink + 1
        /\ heap' = heap \ {e}
        /\ UNCHANGED <<edges, sources, occ, costs, path_cost, prev_node, modified,
                       isrc, loops, result>>

(* reset_rr_graph_path_costs                                               *)
ResetPathCosts ==
    /\ path_cost' = [n \in Nodes |-> IF n \in modified THEN HUGE ELSE path_cost[n]]
    /\ modified' = {}

(* Mutation: the sink that was not reached is tried again.                 *)
ExhaustedRetries ==
    /\ pc \in {"first", "wave"} /\ heap = {}
    /\ ResetPathCosts
    /\ pc' = IF pc = "first" THEN "close" ELSE "segment"
    /\ UNCHANGED <<edges, sources, occ, costs, prev_node, target_flag, heap, tptr, isink, trace,
                   routed, isrc, loops, result>>

(* An empty heap ends the net when nothing was popped for this sink, and   *)
(* otherwise only the search for this sink.                                *)
Exhausted ==
    /\ pc \in {"first", "wave"} /\ heap = {}
    /\ ResetPathCosts
    /\ IF pc = "first" THEN pc' = "close" /\ isink' = isink
                       ELSE pc' = "segment" /\ isink' = isink + 1
    /\ UNCHANGED <<edges, sources, occ, costs, prev_node, target_flag, heap, tptr, trace,
                   routed, isrc, loops, result>>

-----------------------------------------------------------------------------
(* The end of the loop over the sources of the net: clean up, then on to   *)
(* the next net when all sinks are routed, else to the next source; with   *)
(* no source left the whole routing fails.                                 *)
CloseSource ==
    /\ pc = "close"
    /\ heap' = {} /\ ResetPathCosts
    /\ isrc' = isrc + 1
    /\ IF Sinks(inet) \subseteq routed         THEN pc' = "add"    /\ UNCHANGED verdict
       ELSE IF isrc < Len(sources[inet])       THEN pc' = "source" /\ UNCHANGED verdict
       ELSE pc' = "done" /\ verdict' = "disconnected"
    /\ UNCHANGED <<edges, sources, occ, costs, prev_node, target_flag, tptr, isink, trace,
                   routed, loops, driver, net_num>>

(* The net is charged, and the next one follows, or the check.             *)
AddNet ==
    /\ pc = "add"
    /\ UpdateOneCost(trace[inet], 1)
    /\ IF inet < NumNets THEN pc' = "rip" /\ inet' = inet + 1
                         ELSE pc' = "check" /\ inet' = 1
    /\ UNCHANGED <<edges, sources, acc_cost, search, trace, routed, isrc, itry, pres_fac, result>>

-----------------------------------------------------------------------------
(* Where node n appears in the traces: net and position.                   *)
Places == UNION {{i} \X DOMAIN trace[i] : i \in Nets}
On(n) == {x \in Places : trace[x[1]][x[2]] = n}

(* Mutation: every appearance counts.                                      *)
RecountAppearances == [n \in Nodes |-> Cardinality(On(n))]

(* feasible_routing_rr_graph: one for the first net on a node, however     *)
(* often it is there, and one for each appearance of any later net.        *)
Recount ==
    [n \in Nodes |->
        LET first == {x \in On(n) : \A y \in On(n) : x[1] <= y[1]}
        IN  IF first = {} THEN 0 ELSE 1 + Cardinality(On(n) \ first)]

Feasible(o) == \A n \in Nodes : o[n] <= Capacity

CheckPasses ==
    /\ pc = "check"
    /\ Feasible(Recount)
    /\ occ' = Recount
    /\ verdict' = "routed"
    /\ pc' = "annotate"
    /\ UNCHANGED <<edges, sources, costs, search, trace, routed, isrc, loops, driver, net_num>>

(* pathfinder_update_rr_graph_cost, then the next iteration if there is    *)
(* one.                                                                    *)
CheckFails ==
    LET raised == IF itry = 1 THEN InitialPresFac ELSE pres_fac * PresFacMult
        fac    == IF raised < MaxPresFac THEN raised ELSE MaxPresFac
    IN
    /\ pc = "check"
    /\ ~Feasible(Recount)
    /\ occ' = Recount
    /\ pres_fac' = fac
    /\ acc_cost' = [n \in Nodes |-> IF occ'[n] > Capacity
                                    THEN acc_cost[n] + (occ'[n] - Capacity) * AccFac
                                    ELSE acc_cost[n]]
    /\ pres_cost' = [n \in Nodes |-> IF occ'[n] >= Capacity THEN PresCost(occ'[n], fac)
                                                            ELSE pres_cost[n]]
    /\ IF itry < MaxIterations
       THEN pc' = "rip" /\ itry' = itry + 1 /\ UNCHANGED verdict
       ELSE pc' = "done" /\ verdict' = "congested" /\ UNCHANGED itry
    /\ UNCHANGED <<edges, sources, search, trace, routed, isrc, inet, driver, net_num>>

-----------------------------------------------------------------------------
(* The traces are walked net by net: what comes later overwrites.          *)
Later(x, y) == x[1] > y[1] \/ (x[1] = y[1] /\ x[2] >= y[2])
Last(X) == CHOOSE x \in X : \A y \in X : Later(x, y)

(* Mutation: a SINK drives the trace element after it.                     *)
BackannotateThroughSinks ==
    LET before(n) == {x \in Places : x[2] < Len(trace[x[1]]) /\ trace[x[1]][x[2] + 1] = n} IN
    /\ pc = "annotate" /\ pc' = "done"
    /\ net_num' = [n \in Nodes |-> IF On(n) = {} THEN 0 ELSE Last(On(n))[1]]
    /\ driver' = [n \in Nodes |-> IF before(n) = {} THEN NoNode
                                  ELSE LET x == Last(before(n)) IN trace[x[1]][x[2]]]
    /\ UNCHANGED <<edges, sources, occ, costs, search, trace, routed, isrc, loops, verdict>>

(* backannotate_rr_graph_routing_results_to_net_name: every element but a  *)
(* SINK drives the next one.                                               *)
Backannotate ==
    LET drives(n) == {x \in Places : /\ trace[x[1]][x[2]] \notin SinkNodes
                                     /\ x[2] < Len(trace[x[1]])
                                     /\ trace[x[1]][x[2] + 1] = n}
    IN
    /\ pc = "annotate" /\ pc' = "done"
    /\ net_num' = [n \in Nodes |-> IF On(n) = {} THEN 0 ELSE Last(On(n))[1]]
    /\ driver' = [n \in Nodes |-> IF drives(n) = {} THEN NoNode
                                  ELSE LET x == Last(drives(n)) IN trace[x[1]][x[2]]]
    /\ UNCHANGED <<edges, sources, occ, costs, search, trace, routed, isrc, loops, verdict>>

Done == pc = "done" /\ UNCHANGED vars

Next ==
    \/ AddVirtualSources
    \/ RipUp \/ StartSource \/ ExpandSegment \/ AllSinksTried
    \/ Wave \/ Connect \/ Exhausted \/ CloseSource \/ AddNet
    \/ CheckPasses \/ CheckFails
    \/ Backannotate
    \/ Done

Spec == Init /\ [][Next]_vars

(* The router is a sequential function: it runs until it returns.          *)
FairSpec == Spec /\ WF_vars(Next)

-----------------------------------------------------------------------------
Entries == [index : Nodes, cost : Nat, prev_node : Nodes \cup {NoNode}]

(* Occupancies never go below zero, and costs stay positive.               *)
TypeOK ==
    /\ edges \subseteq Nodes \X Nodes
    /\ \A i \in Nets : sources[i] \in Seq(Nodes) /\ trace[i] \in Seq(Nodes)
    /\ occ \in [Nodes -> Nat]
    /\ pres_cost \in [Nodes -> Nat] /\ acc_cost \in [Nodes -> Nat]
    /\ path_cost \in [Nodes -> Nat] /\ prev_node \in [Nodes -> Nodes \cup {NoNode}]
    /\ target_flag \in [Nodes -> 0 .. Capacity]
    /\ modified \subseteq Nodes /\ heap \subseteq Entries
    /\ routed \subseteq SinkNodes
    /\ inet \in Nets /\ isrc \in Nat /\ isink \in Nat /\ tptr \in Nat
    /\ itry \in 1 .. MaxIterations /\ pres_fac \in Nat
    /\ driver \in [Nodes -> Nodes \cup {NoNode}] /\ net_num \in [Nodes -> Nets \cup {0}]
    /\ verdict \in {"none", "routed", "disconnected", "congested"}
    /\ pc \in {"load", "rip", "source", "segment", "first", "wave", "close", "add",
               "check", "annotate", "done"}

Wires(i) == {<<trace[i][k], trace[i][k + 1]>> :
                k \in {j \in DOMAIN trace[i] : j < Len(trace[i]) /\ trace[i][j] \notin SinkNodes}}

Source(i) == IF i \in MultiSource THEN VirtualSource[i] ELSE NetSources[i][1]

FullGraph ==
    edges \cup UNION {{<<VirtualSource[i], NetSources[i][k]>> : k \in DOMAIN NetSources[i]} :
                         i \in MultiSource}

(* The router is a negotiated-congestion router: its traces are trees of   *)
(* existing wires, it gives up on a net only when a sink cannot be reached *)
(* at all, and its "routed" is right.                                      *)
Negotiated == INSTANCE NegotiatedRouting WITH
    Terminals <- [i \in Nets |-> Sinks(i)],
    graph <- FullGraph,
    root  <- [i \in Nets |-> Source(i)],
    wires <- [i \in Nets |-> Wires(i)]

(* Following recorded predecessors always ends, at an element of the       *)
(* current trace or the source: costs fall strictly on the way.            *)
PathsLeadBack ==
    \A n \in modified :
        /\ path_cost[n] < HUGE
        /\ IF prev_node[n] = NoNode
           THEN n = sources[inet][isrc] \/ \E k \in DOMAIN trace[inet] : trace[inet][k] = n
           ELSE /\ prev_node[n] \in modified
                /\ path_cost[prev_node[n]] < path_cost[n]
                /\ <<prev_node[n], n>> \in edges

(* <<n, c>>: c is the cost of a walk to n from the wiring the net already  *)
(* has, or from its source; a walk takes an edge or stays at each step.    *)
StepCost(n) == Cong(n) * Intrinsic[n]
Moves(w) ==
    {w} \cup {<<n, w[2] + StepCost(n)>> : n \in {m \in Nodes : <<w[1], m>> \in edges}}
Widen == [W \in SUBSET (Nodes \X Nat) |-> UNION {Moves(w) : w \in W}]
Starts ==
    LET t == trace[inet]
        src == sources[inet][isrc]
    IN  IF t = <<>> THEN {<<src, Cong(src)>>} ELSE {<<t[j], 0>> : j \in DOMAIN t}
Walk ==
    LET widen == Widen
        walk[k \in Nat] == IF k = 0 THEN Starts ELSE widen[walk[k - 1]]
    IN  walk
Walks == Walk[Cardinality(Nodes)]

(* The sink the search is about to connect is the cheapest of those still  *)
(* wanted, along a cheapest path from all the wiring the net has; and what *)
(* the net before left in prev_node never leads the way back astray.       *)
NextConnectionIsCheapest ==
    /\ TypeOK
    /\ PathsLeadBack
    /\ pc \in {"first", "wave"} =>
        \A e \in {f \in Cheapest : target_flag[f.index] > 0} :
            /\ <<e.index, e.cost>> \in Walks
            /\ \A w \in Walks : target_flag[w[1]] > 0 => e.cost <= w[2]

(* Following the drivers from node s.                                      *)
Follow == [n \in Nodes |-> IF driver[n] = NoNode THEN n ELSE driver[n]]
DriversFrom(s) ==
    LET follow == Follow
        up[k \in Nat] == IF k = 0 THEN s ELSE follow[up[k - 1]]
    IN  up

(* After backannotation the drivers lead from every sink of a net back to  *)
(* its source over nodes that carry the net's number.                      *)
DriversLeadToSource ==
    (pc = "done" /\ verdict = "routed") =>
        \A i \in Nets, s \in SinkNodes :
            s \in Sinks(i) =>
                /\ DriversFrom(s)[Cardinality(Nodes)] = Source(i)
                /\ \A k \in 0 .. Cardinality(Nodes) : net_num[DriversFrom(s)[k]] = i

(* No path the search looks at costs HUGE_POSITIVE_FLOAT.                  *)
CostsBelowHuge ==
    pc \in {"segment", "first", "wave"} =>
        /\ Cong(Source(inet)) < HUGE
        /\ \A m \in modified, n \in Nodes :
               <<m, n>> \in edges => path_cost[m] + StepCost(n) < HUGE

(* The call returns: with a routing, or after the last iteration.          *)
RouterReturns == <>(pc = "done")

ImplementsNegotiation == Negotiated!Spec
=============================================================================
