-------------------------- MODULE NegotiatedRouting --------------------------
(***************************************************************************)
(* What a negotiated-congestion (Pathfinder) router promises, whatever its *)
(* costs and its search: the wires of a net always form a tree rooted at   *)
(* the net's source, nets are only ever ripped up whole, and the router    *)
(* says "routed" only when every net reaches all its terminals and no      *)
(* node is over capacity.  It may give up at any time.                     *)
(***************************************************************************)
EXTENDS Integers, FiniteSets

CONSTANTS
    Nets,
    Nodes,
    Capacity,       \* how many nets a node may carry
    Terminals       \* [Nets -> the nodes the net must reach]

VARIABLES
    graph,          \* edges of the routing resource graph
    root,           \* [Nets -> the node where the net starts]
    wires,          \* [Nets -> the edges the net uses]
    verdict         \* "none", "routed", "disconnected" or "congested"

vars == <<graph, root, wires, verdict>>

Heads(W) == {e[2] : e \in W}
Covered(W, r) == IF W = {} THEN {} ELSE {r} \cup Heads(W)

(* Nodes reached from r by at most k edges of W, and by any number.        *)
Grow(W) == [X \in SUBSET Nodes |-> X \cup {n \in Nodes : \E m \in X : <<m, n>> \in W}]
Within(W, r) ==
    LET grow == Grow(W)
        near[k \in Nat] == IF k = 0 THEN {r} ELSE grow[near[k - 1]]
    IN  near
Reach(W, r) == Within(W, r)[Cardinality(Nodes)]

IsTree(W, r) ==
    /\ \A e, f \in W : e[2] = f[2] => e = f
    /\ r \notin Heads(W)
    /\ Heads(W) \subseteq Reach(W, r)

Load(n) == Cardinality({i \in Nets : n \in Covered(wires[i], root[i])})

Init ==
    /\ graph \subseteq Nodes \X Nodes
    /\ root \in [Nets -> Nodes]
    /\ wires = [i \in Nets |-> {}]
    /\ verdict = "none"

RipUp(i) ==
    /\ verdict = "none"
    /\ wires' = [wires EXCEPT ![i] = {}]
    /\ UNCHANGED <<graph, root, verdict>>

(* One more terminal is reached by a branch that leaves the tree once.     *)
Connect(i) ==
    /\ verdict = "none"
    /\ wires[i] \subseteq wires'[i] /\ wires'[i] \subseteq graph
    /\ wires' = [wires EXCEPT ![i] = wires'[i]]
    /\ IsTree(wires'[i], root[i])
    /\ Cardinality(Terminals[i] \cap Heads(wires'[i] \ wires[i])) = 1
    /\ UNCHANGED <<graph, root, verdict>>

Accept ==
    /\ verdict = "none"
    /\ \A i \in Nets : Terminals[i] \subseteq Heads(wires[i])
    /\ \A n \in Nodes : Load(n) <= Capacity
    /\ verdict' = "routed"
    /\ UNCHANGED <<graph, root, wires>>

(* Some terminal of a net cannot be reached at all.                        *)
GiveUpNet ==
    /\ verdict = "none"
    /\ \E i \in Nets : ~ Terminals[i] \subseteq Reach(graph, root[i])
    /\ verdict' = "disconnected"
    /\ UNCHANGED <<graph, root, wires>>

GiveUp ==
    /\ verdict = "none"
    /\ \E n \in Nodes : Load(n) > Capacity
    /\ verdict' = "congested"
    /\ UNCHANGED <<graph, root, wires>>

Next ==
    \/ \E i \in Nets : RipUp(i) \/ Connect(i)
    \/ Accept \/ GiveUpNet \/ GiveUp

Spec == Init /\ [][Next]_vars
=============================================================================
