------------------------------- MODULE Router -------------------------------
(***************************************************************************)
(* The breadth-first Pathfinder router of the chip:                        *)
(* vpr7_rram/vpr/SRC/route/route_breadth_first.c with the traces, costs,   *)
(* heap and output pin reservations of route/route_common.c, for one call  *)
(* of try_route after its routing resource graph was built.                *)
(*                                                                         *)
(* One step per element taken off the heap.  The heap is the set of its    *)
(* elements: get_heap_head returns any of those of least cost, and of two  *)
(* equal elements the second would do nothing.  A trace is the sequence of *)
(* its nodes; its switches are left out.                                   *)
(***************************************************************************)
EXTENDS Integers, FiniteSets, Sequences, FiniteSetsExt

CONSTANTS
    Nodes, Type,        \* rr_node and [Nodes -> its type]
    Capacity,           \* [Nodes -> rr_node[].capacity]
    Graphs,             \* the edge sets build_rr_graph may give
    Bends,              \* pairs of a CHANX and a CHANY node, either way
    Terminals,          \* net_rr_terminals: sequence of <<SOURCE, SINK, ...>>
    Global,             \* nets with is_global
    Box,                \* [Nets -> nodes that overlap route_bb]
    Classes,            \* sequence of [source |-> rr_blk_source, nelem |-> Nat]
    Leftover,           \* what clb_opins_used_locally holds from earlier calls
    BaseCost,           \* [Nodes -> base_cost, an integer scale]
    BendCost, FirstPresFac, InitialPresFac, PresFacMult, PresFacCap, AccFac,
    MaxIterations,      \* router_opts.max_router_iterations
    HUGE,               \* HUGE_POSITIVE_FLOAT
    NoNode              \* OPEN, NO_PREVIOUS

Nets == DOMAIN Terminals
SinksOf(i) == Tail(Terminals[i])
(* How often net i must connect to n: two equivalent pins share a SINK.    *)
Connections(i, n) == Cardinality({k \in DOMAIN SinksOf(i) : SinksOf(i)[k] = n})
OfType(t) == {n \in Nodes : Type[n] = t}
Types == {"SOURCE", "OPIN", "CHANX", "CHANY", "IPIN", "SINK"}

(* build_rr_sinks_sources: only IPINs lead to SINKs, an IPIN has one edge. *)
ASSUME GraphAssumption ==
    /\ IsFiniteSet(Nodes) /\ NoNode \notin Nodes
    /\ Type \in [Nodes -> Types] /\ Capacity \in [Nodes -> Nat \ {0}]
    /\ \A G \in Graphs :
           /\ G \subseteq (Nodes \ OfType("SINK")) \X (Nodes \ OfType("SOURCE"))
           /\ \A m, n \in Nodes : <<m, n>> \in G =>
                  /\ Type[m] = "IPIN" <=> Type[n] = "SINK"
                  /\ Type[m] = "IPIN" => \A x \in Nodes : <<m, x>> \in G => x = n

ASSUME CostsAssumption ==
    /\ BaseCost \in [Nodes -> Nat]
    /\ \A n \in Nodes : BaseCost[n] = 0 => Type[n] \in {"SOURCE", "SINK"}
    /\ {BendCost, FirstPresFac, InitialPresFac, PresFacMult, PresFacCap, AccFac} \subseteq Nat
    /\ HUGE \in Nat \ {0}

ASSUME NetsAssumption ==
    /\ Terminals \in Seq(Seq(Nodes))
    /\ \A i \in Nets : /\ Terminals[i] # <<>> /\ Type[Terminals[i][1]] = "SOURCE"
                       /\ SinksOf(i) \in Seq(OfType("SINK"))
    /\ Global \subseteq Nets /\ Box \in [Nets -> SUBSET Nodes]
    /\ Classes \in Seq([source : Nodes, nelem : Nat])
    /\ MaxIterations \in Nat \ {0} /\ Leftover \subseteq Nodes

VARIABLES
    edges,              \* the edges of rr_node
    occ,                \* rr_node[].occ
    pres_cost, acc_cost, path_cost, prev_node, target_flag, \* rr_node_route_inf
    modified,           \* rr_modified_head: nodes whose path_cost was touched
    heap,               \* elements [index, cost, prev_node]
    trace,              \* trace_head: [Nets -> sequence of nodes]
    tptr,               \* where the newest segment starts in the trace
    remaining,          \* remaining_connections_to_sink
    opins,              \* clb_opins_used_locally: a list per class
    inet, isink, iclass, itry, pres_fac,
    verdict,            \* what try_breadth_first_route returned
    pc

costs  == <<pres_cost, acc_cost>>
path   == <<path_cost, prev_node, modified>>
search == <<target_flag, heap, trace, tptr, remaining, isink>>
loops  == <<inet, iclass, itry, pres_fac>>
vars   == <<edges, occ, costs, path, search, opins, loops, verdict, pc>>

-----------------------------------------------------------------------------
(* build_rr_graph, alloc_and_load_rr_node_route_structs and                *)
(* init_route_structs; the lists of OPINs are not cleared between calls.   *)
Init ==
    /\ edges \in Graphs
    /\ occ = [n \in Nodes |-> 0]
    /\ pres_cost = [n \in Nodes |-> 1] /\ acc_cost = [n \in Nodes |-> 1]
    /\ path_cost = [n \in Nodes |-> HUGE] /\ prev_node = [n \in Nodes |-> NoNode]
    /\ target_flag = [n \in Nodes |-> 0]
    /\ modified = {} /\ heap = {}
    /\ trace = [i \in Nets |-> <<>>] /\ tptr = 0 /\ remaining = 0
    /\ \E n \in Leftover : opins = [c \in DOMAIN Classes |-> [k \in 1 .. Classes[c].nelem |-> n]]
    /\ inet = 1 /\ isink = 1 /\ iclass = 1 /\ itry = 1 /\ pres_fac = FirstPresFac
    /\ verdict = "none" /\ pc = "net"

PresCost(n, o, fac) == IF o < Capacity[n] THEN 1 ELSE 1 + (o + 1 - Capacity[n]) * fac

(* The elements of a trace that pathfinder_update_one_cost counts: the one *)
(* after a SINK repeats the node where the next branch leaves the tree.    *)
Charged(t) == {k \in DOMAIN t : k = 1 \/ Type[t[k - 1]] # "SINK"}

(* pathfinder_update_one_cost and adjust_one_rr_occ_and_pcost, for nodes   *)
(* that are counted uses[n] times.                                         *)
Adjust(add_or_sub, uses) ==
    /\ occ' = [n \in Nodes |-> occ[n] + add_or_sub * uses[n]]
    /\ pres_cost' = [n \in Nodes |-> IF uses[n] = 0 THEN pres_cost[n]
                                     ELSE PresCost(n, occ'[n], pres_fac)]
Uses(t) == [n \in Nodes |-> Cardinality({k \in Charged(t) : t[k] = n})]

CongWith(p, n) == BaseCost[n] * acc_cost[n] * p[n]
Cong(n) == CongWith(pres_cost, n)       \* get_rr_cong_cost
Entry(n, c, p) == [index |-> n, cost |-> c, prev_node |-> p]
(* node_to_heap: only what is cheaper than the path costs p.               *)
Cheaper(entries, p) == {e \in entries : e.cost < p[e.index]}

SkipGlobal ==
    /\ pc = "net" /\ inet \in Global
    /\ inet' = inet + 1
    /\ UNCHANGED <<edges, occ, costs, path, search, opins, iclass, itry, pres_fac, verdict, pc>>

(* The net is ripped up, its SOURCE put on the heap and its ends marked.   *)
StartNet ==
    LET source == Terminals[inet][1] IN
    /\ pc = "net" /\ inet \in Nets \ Global /\ pc' = "segment"
    /\ Adjust(-1, Uses(trace[inet]))
    /\ trace' = [trace EXCEPT ![inet] = <<>>]
    /\ heap' = heap \cup Cheaper({Entry(source, CongWith(pres_cost', source), NoNode)}, path_cost)
    /\ target_flag' = [n \in Nodes |-> target_flag[n] + Connections(inet, n)]
    /\ tptr' = 0 /\ remaining' = 0 /\ isink' = 1
    /\ UNCHANGED <<edges, acc_cost, path, opins, loops, verdict>>

-----------------------------------------------------------------------------
(* The newest segment of the trace, without a SINK it starts with.         *)
NewSegment ==
    LET t == trace[inet] IN
    {k \in DOMAIN t : /\ tptr > 0 /\ k >= tptr
                      /\ k > tptr \/ Type[t[k]] # "SINK"}

Expanded(S) == Cheaper({Entry(trace[inet][k], 0, NoNode) : k \in S}, path_cost)

(* breadth_first_expand_trace_segment, the usual case.                     *)
ExpandSegment ==
    /\ pc = "segment" /\ isink <= Len(SinksOf(inet)) /\ pc' = "wave"
    /\ remaining = 0 \/ NewSegment = {}
    /\ heap' = heap \cup IF remaining = 0 THEN Expanded(NewSegment) ELSE {}
    /\ UNCHANGED <<edges, occ, costs, path, target_flag, trace, tptr, remaining, isink, opins,
                   loops, verdict>>

IpinsOf(S) == {k \in S : Type[trace[inet][k]] = "IPIN"}
Finish == Len(trace[inet])              \* the SINK the segment ends with

(* Mutation: the heap keeps the entries that reach the SINK by that IPIN,  *)
(* and the IPIN may be expanded again.                                     *)
ExpandForAnyPin ==
    /\ pc = "segment" /\ isink <= Len(SinksOf(inet)) /\ pc' = "wave"
    /\ remaining # 0 /\ NewSegment # {}
    /\ heap' = heap \cup Expanded(NewSegment \ {Finish})
    /\ UNCHANGED <<edges, occ, costs, path, target_flag, trace, tptr, remaining, isink, opins,
                   loops, verdict>>

(* The SINK is wanted again: the IPIN just used is not to be expanded any  *)
(* more, and what is on the heap to reach the SINK by it becomes invalid,  *)
(* which is as good as removed.                                            *)
ExpandForOtherPin ==
    LET S    == NewSegment \ {Finish}
        sink == trace[inet][Finish]
        ipin == trace[inet][Max(IpinsOf(S))]
    IN
    /\ pc = "segment" /\ isink <= Len(SinksOf(inet)) /\ pc' = "wave"
    /\ remaining # 0 /\ NewSegment # {}
    /\ heap' = {e \in heap \cup Expanded(S) : ~(e.index = sink /\ e.prev_node = ipin)}
    /\ path_cost' = [path_cost EXCEPT ![ipin] = -HUGE, ![sink] = HUGE]
    /\ UNCHANGED <<edges, occ, costs, prev_node, modified, target_flag, trace, tptr, remaining,
                   isink, opins, loops, verdict>>

-----------------------------------------------------------------------------
Cheapest == {e \in heap : \A f \in heap : e.cost <= f.cost}     \* get_heap_head

Bend(m, n) == IF <<m, n>> \in Bends THEN BendCost ELSE 0

(* breadth_first_expand_neighbours, inside the bounding box of the net.    *)
Neighbours(e, p) ==
    Cheaper({Entry(n, e.cost + Cong(n) + Bend(e.index, n), e.index) :
                n \in {m \in Box[inet] : <<e.index, m>> \in edges}}, p)

(* The head of the heap is not a target: if it is the cheapest path to its *)
(* node so far it is recorded, and the wave goes on.                       *)
Wave ==
    \E e \in Cheapest :
        /\ pc = "wave" /\ target_flag[e.index] = 0
        /\ IF path_cost[e.index] > e.cost
           THEN /\ path_cost' = [path_cost EXCEPT ![e.index] = e.cost]
                /\ prev_node' = [prev_node EXCEPT ![e.index] = e.prev_node]
                /\ modified' = IF path_cost[e.index] = HUGE THEN modified \cup {e.index}
                                                            ELSE modified
                /\ heap' = (heap \ {e}) \cup Neighbours(e, path_cost')
           ELSE heap' = heap \ {e} /\ UNCHANGED path
        /\ UNCHANGED <<edges, occ, costs, target_flag, trace, tptr, remaining, isink, opins,
                       loops, verdict, pc>>

(* The walk of update_traceback from the SINK's element e: the predecessor *)
(* of each node, and the node after k steps.                               *)
Pred(e) == [n \in Nodes \cup {NoNode} |->
               IF n = NoNode THEN NoNode ELSE IF n = e.index THEN e.prev_node ELSE prev_node[n]]
Up(e) ==
    LET pred == Pred(e)
        up[k \in Nat] == IF k = 0 THEN e.index ELSE pred[up[k - 1]]
    IN  up

(* update_traceback: the predecessors until NO_PREVIOUS, from the last one *)
(* to the SINK.  The walk is cut after Cardinality(Nodes) steps, which no  *)
(* path exceeds.                                                           *)
BackTrace(e) ==
    LET up  == Up(e)
        len == Cardinality({k \in 0 .. Cardinality(Nodes) : up[k] # NoNode})
    IN  [k \in 1 .. len |-> up[len - k]]

(* The head of the heap is a SINK of the net: its path joins the trace.    *)
Connect ==
    \E e \in Cheapest :
        /\ pc = "wave" /\ target_flag[e.index] > 0 /\ pc' = "segment"
        /\ target_flag' = [target_flag EXCEPT ![e.index] = @ - 1]
        /\ remaining' = target_flag'[e.index]
        /\ trace' = [trace EXCEPT ![inet] = @ \o BackTrace(e)]
        /\ tptr' = IF trace[inet] = <<>> THEN 1 ELSE Len(trace[inet]) + 2
        /\ heap' = heap \ {e} /\ isink' = isink + 1
        /\ UNCHANGED <<edges, occ, costs, path, opins, loops, verdict>>

ResetPathCosts ==
    /\ path_cost' = [n \in Nodes |-> IF n \in modified THEN HUGE ELSE path_cost[n]]
    /\ modified' = {} /\ UNCHANGED prev_node

(* Mutation: the search starts over when the heap runs empty.              *)
UnroutableRetries ==
    /\ pc = "wave" /\ heap = {}
    /\ ResetPathCosts
    /\ pc' = "segment"
    /\ UNCHANGED <<edges, occ, costs, search, opins, loops, verdict>>

(* The heap ran empty: the whole routing fails.                            *)
Unroutable ==
    /\ pc = "wave" /\ heap = {}
    /\ ResetPathCosts
    /\ verdict' = "disconnected" /\ pc' = "done"
    /\ UNCHANGED <<edges, occ, costs, search, opins, loops>>

(* Mutation: the heap is left as it is.                                    *)
CloseNetKeepsHeap ==
    /\ pc = "segment" /\ isink > Len(SinksOf(inet)) /\ pc' = "net"
    /\ ResetPathCosts
    /\ Adjust(1, Uses(trace[inet]))
    /\ inet' = inet + 1
    /\ UNCHANGED <<edges, acc_cost, search, opins, iclass, itry, pres_fac, verdict>>

(* Mutation: the path costs are left as they are.                          *)
CloseNetKeepsCosts ==
    /\ pc = "segment" /\ isink > Len(SinksOf(inet)) /\ pc' = "net"
    /\ heap' = {} /\ UNCHANGED path
    /\ Adjust(1, Uses(trace[inet]))
    /\ inet' = inet + 1
    /\ UNCHANGED <<edges, acc_cost, target_flag, trace, tptr, remaining, isink, opins,
                   iclass, itry, pres_fac, verdict>>

(* All sinks are connected: clean up and charge the net.                   *)
CloseNet ==
    /\ pc = "segment" /\ isink > Len(SinksOf(inet)) /\ pc' = "net"
    /\ heap' = {} /\ ResetPathCosts
    /\ Adjust(1, Uses(trace[inet]))
    /\ inet' = inet + 1
    /\ UNCHANGED <<edges, acc_cost, target_flag, trace, tptr, remaining, isink, opins,
                   iclass, itry, pres_fac, verdict>>

-----------------------------------------------------------------------------
(* reserve_locally_used_opins: the reservations of the last iteration are  *)
(* undone, from the second iteration on; then each class reserves its      *)
(* cheapest OPINs.                                                         *)
Reserved(lists) == [n \in Nodes |-> Cardinality(
    UNION {{<<c, k>> : k \in {j \in DOMAIN lists[c] : lists[c][j] = n}} : c \in DOMAIN lists})]

(* Mutation: they are undone in the first iteration too.                   *)
RipUpOpinsAlways ==
    /\ pc = "net" /\ inet > Len(Terminals) /\ pc' = "reserve"
    /\ Adjust(-1, Reserved(opins))
    /\ inet' = 1 /\ iclass' = 1
    /\ UNCHANGED <<edges, acc_cost, path, search, opins, itry, pres_fac, verdict>>

RipUpOpins ==
    /\ pc = "net" /\ inet > Len(Terminals) /\ pc' = "reserve"
    /\ Adjust(-1, Reserved(IF itry = 1 THEN <<>> ELSE opins))
    /\ inet' = 1 /\ iclass' = 1
    /\ UNCHANGED <<edges, acc_cost, path, search, opins, itry, pres_fac, verdict>>

(* The lists that popping the OPINs of class c off the heap can give.      *)
CheapestLists(c) ==
    LET all == {n \in Nodes : <<Classes[c].source, n>> \in edges} IN
    {s \in [1 .. Classes[c].nelem -> all] :
        /\ \A j, k \in DOMAIN s : s[j] = s[k] => j = k
        /\ \A k \in DOMAIN s : \A n \in all \ {s[j] : j \in 1 .. k - 1} : Cong(s[k]) <= Cong(n)}

ReserveOpins ==
    /\ pc = "reserve" /\ iclass <= Len(Classes)
    /\ \E s \in CheapestLists(iclass) :
           opins' = [opins EXCEPT ![iclass] = s] /\ Adjust(1, Reserved(<<s>>))
    /\ iclass' = iclass + 1
    /\ UNCHANGED <<edges, acc_cost, path, search, inet, itry, pres_fac, verdict, pc>>

Feasible == \A n \in Nodes : occ[n] <= Capacity[n]       \* feasible_routing

CheckPasses ==
    /\ pc = "reserve" /\ iclass > Len(Classes)
    /\ Feasible
    /\ verdict' = "routed" /\ pc' = "done"
    /\ UNCHANGED <<edges, occ, costs, path, search, opins, loops>>

Least(a, b) == IF a < b THEN a ELSE b

(* pathfinder_update_cost, then the next iteration if there is one.        *)
CheckFails ==
    LET fac == Least(IF itry = 1 THEN InitialPresFac ELSE pres_fac * PresFacMult, PresFacCap) IN
    /\ pc = "reserve" /\ iclass > Len(Classes)
    /\ ~Feasible
    /\ pres_fac' = fac
    /\ acc_cost' = [n \in Nodes |-> acc_cost[n] +
                        IF occ[n] > Capacity[n] THEN (occ[n] - Capacity[n]) * AccFac ELSE 0]
    /\ pres_cost' = [n \in Nodes |-> IF occ[n] >= Capacity[n] THEN PresCost(n, occ[n], fac)
                                                              ELSE pres_cost[n]]
    /\ IF itry < MaxIterations
       THEN pc' = "net" /\ itry' = itry + 1 /\ UNCHANGED verdict
       ELSE pc' = "done" /\ verdict' = "congested" /\ UNCHANGED itry
    /\ UNCHANGED <<edges, occ, path, search, opins, inet, iclass>>

Done == pc = "done" /\ UNCHANGED vars

Next ==
    \/ SkipGlobal \/ StartNet \/ ExpandSegment \/ ExpandForOtherPin
    \/ Wave \/ Connect \/ Unroutable \/ CloseNet
    \/ RipUpOpins \/ ReserveOpins \/ CheckPasses \/ CheckFails
    \/ Done

Spec == Init /\ [][Next]_vars

(* The router is a sequential function: it runs until it returns.          *)
FairSpec == Spec /\ WF_vars(Next)

-----------------------------------------------------------------------------
TypeOK ==
    /\ edges \subseteq Nodes \X Nodes
    /\ occ \in [Nodes -> Nat] /\ pres_cost \in [Nodes -> Nat] /\ acc_cost \in [Nodes -> Nat]
    /\ path_cost \in [Nodes -> Nat \cup {-HUGE}]
    /\ prev_node \in [Nodes -> Nodes \cup {NoNode}]
    /\ target_flag \in [Nodes -> Nat] /\ modified \subseteq Nodes
    /\ heap \subseteq [index : Nodes, cost : Nat, prev_node : Nodes \cup {NoNode}]
    /\ \A i \in Nets : trace[i] \in Seq(Nodes)
    /\ \A c \in DOMAIN Classes : opins[c] \in [1 .. Classes[c].nelem -> Nodes]
    /\ {tptr, remaining, pres_fac} \subseteq Nat /\ {isink, iclass} \subseteq Nat \ {0}
    /\ inet \in 1 .. Len(Terminals) + 1 /\ itry \in 1 .. MaxIterations
    /\ verdict \in {"none", "routed", "disconnected", "congested"}
    /\ pc \in {"net", "segment", "wave", "reserve", "done"}

InTrace(i, n) == {k \in DOMAIN trace[i] : trace[i][k] = n}

(* What a set of nets and of classes uses of n: a net one for all branches *)
(* at n, or one for each of its connections to a SINK, and a class one.    *)
TrueOcc(I, C, n) ==
    Cardinality(UNION {{<<i, k>> : k \in {j \in InTrace(i, n) :
                            Type[n] = "SINK" \/ \A l \in InTrace(i, n) : j <= l}} : i \in I})
    + Cardinality({c \in C : \E k \in DOMAIN opins[c] : opins[c][k] = n})

(* Nothing is ever charged twice, or forgotten when it is ripped up: the   *)
(* occupancy of each node is that of the traces and the reserved OPINs,    *)
(* through all iterations.                                                 *)
OccupancyIsExact ==
    LET nets    == IF pc \in {"segment", "wave"} \/ verdict = "disconnected" THEN Nets \ {inet}
                                                                             ELSE Nets
        classes == CASE pc = "reserve" -> 1 .. iclass - 1
                     [] pc # "reserve" /\ itry = 1 /\ (pc # "done" \/ verdict = "disconnected") -> {}
                     [] OTHER -> DOMAIN Classes
    IN  TypeOK /\ \A n \in Nodes : occ[n] = TrueOcc(nets, classes, n)

Links(i) == {k \in DOMAIN trace[i] : k < Len(trace[i]) /\ Type[trace[i][k]] # "SINK"}

(* check_route: a trace starts at the SOURCE of its net, a branch leaves   *)
(* from a node the trace has, and no node but a SINK is entered twice; a   *)
(* SINK is entered by another input pin for each connection, which the     *)
(* occupancies would not tell.                                             *)
TracesAreTrees ==
    \A i \in Nets : trace[i] # <<>> =>
        LET t == trace[i] IN
        /\ t[1] = Terminals[i][1]
        /\ \A k \in Links(i) : <<t[k], t[k + 1]>> \in edges /\ t[k + 1] # t[1]
        /\ \A j, k \in Links(i) :
               j # k /\ t[j + 1] = t[k + 1] => Type[t[j + 1]] = "SINK" /\ t[j] # t[k]
        /\ \A k \in DOMAIN t : k - 1 \in DOMAIN t \ Links(i) =>
               \E j \in 1 .. k - 2 : t[j] = t[k] /\ Type[t[j]] # "SINK"

(* A net finds no path costs, flags or heap elements of the one before,    *)
(* and the next call finds an empty heap and list: init_route_structs      *)
(* exits otherwise.                                                        *)
NothingIsLeftOver ==
    /\ pc \in {"net", "reserve", "done"} =>
           heap = {} /\ modified = {} /\ \A n \in Nodes : path_cost[n] = HUGE
    /\ pc \in {"net", "reserve"} => \A n \in Nodes : target_flag[n] = 0

(* Nodes net i can reach in its bounding box, and the next step to them.   *)
Widen(i) ==
    [S \in SUBSET Nodes |-> S \cup {n \in Box[i] : \E m \in S : <<m, n>> \in edges}]
Near(i) ==
    LET widen == Widen(i)
        near[k \in Nat] == IF k = 0 THEN {Terminals[i][1]} ELSE widen[near[k - 1]]
    IN  near
Reachable(i) == Near(i)[Cardinality(Nodes)]

(* "Routed" means that every net has all its connections and, counted from *)
(* the traces and lists, no node is overused.                              *)
RoutedIsComplete ==
    verdict = "routed" =>
        /\ \A i \in Nets \ Global, n \in OfType("SINK") :
               Cardinality(InTrace(i, n)) = Connections(i, n)
        /\ \A n \in Nodes : TrueOcc(Nets, DOMAIN Classes, n) <= Capacity[n]

(* Congestion never makes the router say that there is no path: some SINK  *)
(* has fewer input pins within reach than the net needs.                   *)
DisconnectedIsTrue ==
    verdict = "disconnected" =>
        \E n \in OfType("SINK") :
            Connections(inet, n) >
                Cardinality({m \in Reachable(inet) : n \in Box[inet] /\ <<m, n>> \in edges})

(* What try_breadth_first_route returns is so.                             *)
VerdictIsRight == RoutedIsComplete /\ DisconnectedIsTrue

(* No path the search looks at costs HUGE_POSITIVE_FLOAT.                  *)
CostsBelowHuge ==
    /\ pc = "segment" => Cong(Terminals[inet][1]) < HUGE
    /\ pc = "wave" => \A e \in heap, n \in Box[inet] :
                          <<e.index, n>> \in edges => e.cost + Cong(n) + Bend(e.index, n) < HUGE

(* The call returns.                                                       *)
RouterReturns == <>(pc = "done")
=============================================================================
