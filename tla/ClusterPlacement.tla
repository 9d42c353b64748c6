-------------------------- MODULE ClusterPlacement --------------------------
(***************************************************************************)
(* Queues of primitives of one complex block type while the packer fills   *)
(* complex blocks: vpr7_rram/vpr/SRC/pack/cluster_placement.c, driven as   *)
(* start_new_cluster and try_pack_molecule of pack/cluster.c drive it.     *)
(*                                                                         *)
(* A primitive's node is on one of the lists valid_primitives[i] (one list *)
(* per pb_type), in flight (offered to the current molecule), tried        *)
(* (offered and refused) or invalid (collected when met).  A list is the   *)
(* set of its nodes: their order only breaks ties between equal costs.     *)
(* Loops that move nodes one by one are one step per node.                 *)
(***************************************************************************)
EXTENDS Integers, FiniteSets, FiniteSetsExt

CONSTANTS
    Primitives,     \* leaves of the pb_graph of the complex block type
    PbTypeOf,       \* [Primitives -> pb_type]
    Root,           \* top pb_graph_node
    Modes,          \* its modes
    Lineage,        \* [Primitives -> set of <<ancestor, mode taken there>>]
    Molecules,      \* molecules that may be offered to the cluster
    RootTypes,      \* [Molecules -> pb_types feasible for the root block]
    BlockTypes,     \* [Molecules -> the same sets for each of its blocks]
    PlacementAt,    \* [Molecules -> [Primitives -> primitives used when the
                    \*   root block is there, {} when the pattern cannot expand]]
    Forced,         \* [Molecules -> roots with a forced connection in use]
    BaseCost,       \* [Primitives -> base_cost]
    Nearness,       \* [Primitives -> [Primitives -> cost reduction]]
    NoPrimitive,    \* NULL
    NoMolecule      \* NULL

PbTypes == {PbTypeOf[p] : p \in Primitives}
Slots   == 1 .. Cardinality(PbTypes)

(* Primitives under another mode of an ancestor they share with p.         *)
Blocked(p) ==
    {q \in Primitives : \E x \in Lineage[p], y \in Lineage[q] :
                            x[1] = y[1] /\ x[2] # y[2]}

InMode(p, k) == \A x \in Lineage[p] : x[1] = Root => x[2] = k

ASSUME PrimitivesAssumption ==
    /\ IsFiniteSet(Primitives) /\ Primitives # {}
    /\ NoPrimitive \notin Primitives
    /\ NoMolecule \notin Molecules
    /\ Nearness \in [Primitives -> [Primitives -> Int]]

(* A path down the pb_graph takes one mode of each ancestor.               *)
ASSUME LineageAssumption ==
    \A p \in Primitives : \A x, y \in Lineage[p] : x[1] = y[1] => x[2] = y[2]

(* A placement holds its root and never spans two modes of one ancestor.   *)
ASSUME PlacementAssumption ==
    \A m \in Molecules, r \in Primitives :
        /\ PlacementAt[m][r] \subseteq Primitives
        /\ PlacementAt[m][r] # {} => r \in PlacementAt[m][r]
        /\ \A p \in PlacementAt[m][r] : PlacementAt[m][r] \cap Blocked(p) = {}

VARIABLES
    valid_primitives,   \* [Slots -> set of nodes on that list]
    tried, invalid,     \* sets of nodes
    in_flight,          \* a node or NoPrimitive
    valid,              \* [Primitives -> BOOLEAN], the node's flag
    incremental_cost,   \* [Primitives -> Int]
    curr_molecule,      \* molecule the tried and in-flight nodes are for
    pc,                 \* where the packer is
    op,                 \* the operation that flushes the queues
    molecule,           \* argument of try_pack_molecule
    cluster_mode,       \* argument of set_mode_cluster_placement_stats
    primitives_list,    \* primitives handed out and not yet committed
    committed,          \* primitives committed since the last reset
    packed,             \* molecules packed in the open cluster
    offered,            \* auxiliary: roots handed out since the last flush
    query               \* last answer of exists_free_primitive_...

queues == <<valid_primitives, tried, invalid, in_flight>>
flags  == <<valid, incremental_cost>>
client == <<molecule, cluster_mode, primitives_list, committed, packed, offered>>
vars   == <<queues, flags, curr_molecule, pc, op, client, query>>

NoQuery == [asked |-> NoMolecule, answer |-> FALSE]

Listed == UNION {valid_primitives[i] : i \in Slots}

-----------------------------------------------------------------------------
(* alloc_and_load_cluster_placement_stats: one list per pb_type, in the    *)
(* order the pb_types are met.                                             *)
Init ==
    /\ \E type_of \in Bijection(Slots, PbTypes) :
           valid_primitives =
               [i \in Slots |-> {p \in Primitives : PbTypeOf[p] = type_of[i]}]
    /\ tried = {} /\ invalid = {} /\ in_flight = NoPrimitive
    /\ valid = [p \in Primitives |-> TRUE]
    /\ incremental_cost = [p \in Primitives |-> 0]
    /\ curr_molecule = NoMolecule
    /\ pc = "ready" /\ op = "reset"
    /\ molecule = NoMolecule
    /\ cluster_mode \in Modes
    /\ primitives_list = {} /\ committed = {} /\ packed = {} /\ offered = {}
    /\ query = NoQuery

EmptySlots == {i \in Slots : valid_primitives[i] = {}}

(* requeue_primitive, its loop: every non-empty list of p's pb_type.       *)
MatchingSlots(p) ==
    {i \in Slots : \E q \in valid_primitives[i] : PbTypeOf[q] = PbTypeOf[p]}

(* Mutation of requeue_primitive: no fallback to an empty list.            *)
RequeuedInMatchOnly(p) == MatchingSlots(p)

(* requeue_primitive: on the list of its pb_type, or, when that list is    *)
(* empty, on the last empty list; the valid flag is left alone.            *)
RequeuedIn(p) ==
    IF MatchingSlots(p) # {} THEN MatchingSlots(p)
                             ELSE {i \in EmptySlots : \A j \in EmptySlots : j <= i}

(* assert(null_index != OPEN)                                              *)
CanRequeue(p) == RequeuedIn(p) # {}

Requeue(p) ==
    valid_primitives' =
        [i \in Slots |-> IF i \in RequeuedIn(p) THEN valid_primitives[i] \cup {p}
                                                ELSE valid_primitives[i]]

Abort == pc' = "abort" /\ UNCHANGED <<queues, flags, curr_molecule, op, client, query>>

-----------------------------------------------------------------------------
(* flush_intermediate_queues, one tried node.                              *)
FlushTried ==
    /\ pc = "flush"
    /\ \E p \in tried :
           IF CanRequeue(p)
           THEN /\ Requeue(p)
                /\ tried' = tried \ {p}
                /\ UNCHANGED <<invalid, in_flight, flags, curr_molecule, pc, op, client, query>>
           ELSE Abort

(* Mutation: in_flight keeps pointing at the requeued node.                *)
FlushInFlightKeeps ==
    /\ pc = "flush" /\ tried = {} /\ in_flight # NoPrimitive
    /\ Requeue(in_flight)
    /\ pc' = "search"
    /\ UNCHANGED <<tried, invalid, in_flight, flags, curr_molecule, op, client, query>>

(* flush_intermediate_queues, the node in flight.                          *)
FlushInFlight ==
    /\ pc = "flush" /\ tried = {} /\ in_flight # NoPrimitive
    /\ IF CanRequeue(in_flight)
       THEN /\ Requeue(in_flight)
            /\ in_flight' = NoPrimitive
            /\ UNCHANGED <<tried, invalid, flags, curr_molecule, pc, op, client, query>>
       ELSE Abort

(* Mutation: the new molecule is not recorded in curr_molecule.            *)
FlushDoneForgets ==
    /\ pc = "flush" /\ tried = {} /\ in_flight = NoPrimitive
    /\ pc' = CASE op = "reset"  -> "requeue_invalid"
               [] op = "next"   -> "search"
               [] op = "commit" -> "take"
               [] op = "retry"  -> "ready"
    /\ offered' = {}
    /\ UNCHANGED <<queues, flags, curr_molecule, op, molecule, cluster_mode,
                   primitives_list, committed, packed, query>>

(* flush_intermediate_queues returns to the operation that called it;      *)
(* get_next_primitive_list then starts the new molecule.                   *)
FlushDone ==
    /\ pc = "flush" /\ tried = {} /\ in_flight = NoPrimitive
    /\ pc' = CASE op = "reset"  -> "requeue_invalid"
               [] op = "next"   -> "search"
               [] op = "commit" -> "take"
               [] op = "retry"  -> "ready"
    /\ curr_molecule' = IF op = "next" THEN molecule ELSE curr_molecule
    /\ offered' = {}
    /\ UNCHANGED <<queues, flags, op, molecule, cluster_mode, primitives_list,
                   committed, packed, query>>

(* start_new_cluster tries seed m in mode k of the complex block: first    *)
(* reset_cluster_placement_stats.                                          *)
StartCluster(m, k) ==
    /\ pc = "ready"
    /\ pc' = "flush" /\ op' = "reset"
    /\ molecule' = m /\ cluster_mode' = k
    /\ primitives_list' = {} /\ packed' = {}
    /\ query' = NoQuery
    /\ UNCHANGED <<queues, flags, curr_molecule, committed, offered>>

(* reset_cluster_placement_stats: one node of the invalid queue.           *)
RequeueInvalid ==
    /\ pc = "requeue_invalid"
    /\ \E p \in invalid :
           IF CanRequeue(p)
           THEN /\ Requeue(p)
                /\ invalid' = invalid \ {p}
                /\ UNCHANGED <<tried, in_flight, flags, curr_molecule, pc, op, client, query>>
           ELSE Abort

(* Mutation: the valid flags are not reset.                                *)
ResetFlagsKeepsInvalid ==
    /\ pc = "requeue_invalid" /\ invalid = {}
    /\ incremental_cost' = [p \in Primitives |-> 0]
    /\ curr_molecule' = NoMolecule
    /\ committed' = {}
    /\ pc' = "set_mode"
    /\ UNCHANGED <<queues, valid, op, molecule, cluster_mode, primitives_list,
                   packed, offered, query>>

(* reset_cluster_placement_stats: flags and costs of the nodes it finds on *)
(* the lists, after asserting that no list is empty.                       *)
ResetFlags ==
    /\ pc = "requeue_invalid" /\ invalid = {}
    /\ IF EmptySlots = {}
       THEN /\ valid' = [p \in Primitives |-> valid[p] \/ p \in Listed]
            /\ incremental_cost' =
                   [p \in Primitives |-> IF p \in Listed THEN 0 ELSE incremental_cost[p]]
            /\ curr_molecule' = NoMolecule
            /\ committed' = {}
            /\ pc' = "set_mode"
            /\ UNCHANGED <<queues, op, molecule, cluster_mode, primitives_list,
                           packed, offered, query>>
       ELSE Abort

(* Mutation: the mode test is the wrong way round.                         *)
SetModeInverted ==
    /\ pc = "set_mode"
    /\ valid' = [p \in Primitives |-> valid[p] /\ ~InMode(p, cluster_mode)]
    /\ pc' = "call"
    /\ UNCHANGED <<queues, incremental_cost, curr_molecule, op, client, query>>

(* set_mode_cluster_placement_stats, then try_pack_molecule.               *)
SetMode ==
    /\ pc = "set_mode"
    /\ valid' = [p \in Primitives |-> valid[p] /\ InMode(p, cluster_mode)]
    /\ pc' = "call"
    /\ UNCHANGED <<queues, incremental_cost, curr_molecule, op, client, query>>

-----------------------------------------------------------------------------
(* get_molecule_for_cluster proposes a molecule for the open cluster.      *)
TryPack(m) ==
    /\ pc = "ready" /\ packed # {} /\ m \notin packed
    /\ pc' = "call"
    /\ molecule' = m /\ primitives_list' = {}
    /\ query' = NoQuery
    /\ UNCHANGED <<queues, flags, curr_molecule, op, cluster_mode, committed, packed, offered>>

(* Mutation: a refused root goes back to its list instead of to tried.     *)
CallNextRequeues ==
    /\ pc = "call"
    /\ IF curr_molecule # molecule
       THEN /\ pc' = "flush" /\ op' = "next"
            /\ UNCHANGED <<valid_primitives, in_flight>>
       ELSE /\ IF in_flight = NoPrimitive THEN UNCHANGED valid_primitives
                                          ELSE Requeue(in_flight)
            /\ in_flight' = NoPrimitive
            /\ pc' = "search"
            /\ UNCHANGED op
    /\ UNCHANGED <<tried, invalid, flags, curr_molecule, client, query>>

(* get_next_primitive_list: a new molecule flushes the queues first; for   *)
(* the same molecule the root in flight was refused and becomes tried.     *)
CallNext ==
    /\ pc = "call"
    /\ IF curr_molecule # molecule
       THEN /\ pc' = "flush" /\ op' = "next"
            /\ UNCHANGED <<tried, in_flight>>
       ELSE /\ tried' = IF in_flight = NoPrimitive THEN tried ELSE tried \cup {in_flight}
            /\ in_flight' = NoPrimitive
            /\ pc' = "search"
            /\ UNCHANGED op
    /\ UNCHANGED <<valid_primitives, invalid, flags, curr_molecule, client, query>>

(* Lists whose pb_type is one of T: a list's first node stands for it.     *)
SlotsOf(T) == {i \in Slots : \E q \in valid_primitives[i] : PbTypeOf[q] \in T}

(* Mutation: the scan stops after the first feasible pb_type.              *)
FeasibleSlotsFirst(m) ==
    LET feasible == SlotsOf(RootTypes[m])
    IN  {i \in feasible : \A j \in feasible : i <= j}

(* Lists whose pb_type can hold the root block of m.                       *)
FeasibleSlots(m) == SlotsOf(RootTypes[m])

Invalids(S) == {p \in S : ~valid[p]}

(* try_place_molecule: the root is valid and passes the early filter, and  *)
(* every primitive the pattern reaches from it is valid.                   *)
Placeable(m, refused) ==
    {r \in UNION {valid_primitives[i] : i \in FeasibleSlots(m)} :
        /\ valid[r] /\ r \notin refused
        /\ PlacementAt[m][r] # {}
        /\ \A p \in PlacementAt[m][r] : valid[p]}

PlacementCost(m, r) ==
    MapThenSumSet(LAMBDA p : BaseCost[p] + incremental_cost[p], PlacementAt[m][r])

(* get_next_primitive_list, the scan: invalid nodes of the feasible lists  *)
(* are collected; a cheapest placement goes in flight.  What the early     *)
(* filter answers for a forced connection depends on blocks packed before. *)
Search ==
    /\ pc = "search"
    /\ \E refused \in SUBSET Forced[molecule] :
         LET candidates == Placeable(molecule, refused)
             scanned    == [i \in Slots |->
                 IF i \in FeasibleSlots(molecule)
                 THEN valid_primitives[i] \ Invalids(valid_primitives[i])
                 ELSE valid_primitives[i]]
         IN /\ invalid' = invalid \cup
                  Invalids(UNION {valid_primitives[i] : i \in FeasibleSlots(molecule)})
            /\ \/ /\ candidates = {}
                  /\ valid_primitives' = scanned
                  /\ primitives_list' = {}
                  /\ pc' = "ready"
                  /\ UNCHANGED <<in_flight, offered>>
               \/ \E best \in candidates :
                  /\ \A r \in candidates :
                         PlacementCost(molecule, best) <= PlacementCost(molecule, r)
                  /\ in_flight' = best
                  /\ valid_primitives' = [i \in Slots |-> scanned[i] \ {best}]
                  /\ primitives_list' = PlacementAt[molecule][best]
                  /\ offered' = offered \cup {best}
                  /\ pc' = "attempt"
    /\ UNCHANGED <<tried, flags, curr_molecule, op, molecule, cluster_mode,
                   committed, packed, query>>

(* try_pack_molecule: placing, pin count or routing fails at this root;    *)
(* the blocks are reverted and the next placement is asked for.            *)
AttemptFails ==
    /\ pc = "attempt"
    /\ pc' = "call"
    /\ primitives_list' = {}
    /\ UNCHANGED <<queues, flags, curr_molecule, op, molecule, cluster_mode,
                   committed, packed, offered, query>>

(* try_pack_molecule: the molecule fits; each primitive is committed, and  *)
(* commit_primitive flushes the queues first.                              *)
AttemptPasses ==
    /\ pc = "attempt"
    /\ pc' = "flush" /\ op' = "commit"
    /\ UNCHANGED <<queues, flags, curr_molecule, client, query>>

(* commit_primitive after the flush: p is used, what its modes exclude is  *)
(* invalidated, the rest of the cluster gets cheaper.                      *)
CommitPrimitive ==
    /\ pc = "take"
    /\ \E p \in primitives_list :
         IF valid[p]
         THEN /\ valid' = [q \in Primitives |-> valid[q] /\ q # p /\ q \notin Blocked(p)]
              /\ incremental_cost' =
                     [q \in Primitives |->
                        IF q = p \/ q \in Blocked(p) THEN incremental_cost[q]
                                                     ELSE incremental_cost[q] - Nearness[p][q]]
              /\ primitives_list' = primitives_list \ {p}
              /\ committed' = committed \cup {p}
              /\ packed' = IF primitives_list = {p} THEN packed \cup {molecule} ELSE packed
              /\ pc' = IF primitives_list = {p} THEN "ready" ELSE "flush"
              /\ UNCHANGED <<queues, curr_molecule, op, molecule, cluster_mode, offered, query>>
         ELSE Abort

-----------------------------------------------------------------------------
(* A list that still has a valid node.                                     *)
HasValid(i) == \E q \in valid_primitives[i] : valid[q]

(* exists_free_primitive_for_logical_block: is there a place for a block   *)
(* of m, one that fits the pb_types T?  Lists without a valid node are     *)
(* emptied on the way; of the list that answers, only the invalid nodes    *)
(* before its first valid one.                                             *)
ExistsFree(m, T) ==
    LET hit    == {i \in SlotsOf(T) : HasValid(i)}
        passed == {i \in SlotsOf(T) : \A j \in hit : i < j}
        In(S)  == UNION {valid_primitives[i] : i \in S}
        first  == {i \in hit : \A j \in hit : i <= j}
    IN
    /\ pc = "ready" /\ packed # {} /\ m \notin packed
    /\ IF in_flight # NoPrimitive /\ PbTypeOf[in_flight] \in T
       THEN /\ query' = [asked |-> m, answer |-> TRUE]
            /\ UNCHANGED <<valid_primitives, invalid>>
       ELSE /\ query' = [asked |-> m, answer |-> hit # {}]
            /\ \E met \in SUBSET Invalids(In(first)) :
                 /\ invalid' = invalid \cup In(passed) \cup met
                 /\ valid_primitives' =
                        [i \in Slots |-> IF i \in passed THEN {} ELSE valid_primitives[i] \ met]
    /\ UNCHANGED <<tried, in_flight, flags, curr_molecule, pc, op, client>>

(* reset_tried_but_unused_cluster_placements, before a high fan-out net is *)
(* explored.                                                               *)
ResetTried ==
    /\ pc = "ready" /\ packed # {}
    /\ pc' = "flush" /\ op' = "retry"
    /\ query' = NoQuery
    /\ UNCHANGED <<queues, flags, curr_molecule, client>>

Flush  == FlushTried \/ FlushInFlight \/ FlushDone
Return == Flush \/ RequeueInvalid \/ ResetFlags \/ SetMode \/ CallNext \/ Search
          \/ AttemptFails \/ AttemptPasses \/ CommitPrimitive

Next ==
    \/ \E m \in Molecules, k \in Modes : StartCluster(m, k)
    \/ \E m \in Molecules : TryPack(m)
    \/ \E m \in Molecules : \E T \in BlockTypes[m] : ExistsFree(m, T)
    \/ ResetTried
    \/ Return

Spec == Init /\ [][Next]_vars

(* The packer is sequential: once called, an operation runs on.            *)
FairSpec == Spec /\ WF_vars(Return)

-----------------------------------------------------------------------------
Nodes == Primitives \cup {NoPrimitive}

TypeOK ==
    /\ valid_primitives \in [Slots -> SUBSET Primitives]
    /\ tried \in SUBSET Primitives
    /\ invalid \in SUBSET Primitives
    /\ in_flight \in Nodes
    /\ valid \in [Primitives -> BOOLEAN]
    /\ incremental_cost \in [Primitives -> Int]
    /\ curr_molecule \in Molecules \cup {NoMolecule}
    /\ pc \in {"ready", "flush", "requeue_invalid", "set_mode", "call", "search",
               "attempt", "take", "abort"}
    /\ op \in {"reset", "next", "commit", "retry"}
    /\ molecule \in Molecules \cup {NoMolecule}
    /\ cluster_mode \in Modes
    /\ primitives_list \in SUBSET Primitives
    /\ committed \in SUBSET Primitives
    /\ packed \in SUBSET Molecules
    /\ offered \in SUBSET Primitives
    /\ query \in [asked : Molecules \cup {NoMolecule}, answer : BOOLEAN]

(* No node is lost or linked twice: whatever queue operation is under way, *)
(* each primitive's node is in exactly one place.                          *)
NodeConservation ==
    /\ Primitives = Listed \cup tried \cup invalid \cup ({in_flight} \ {NoPrimitive})
    /\ \A i, j \in Slots : i # j => valid_primitives[i] \cap valid_primitives[j] = {}
    /\ Listed \cap (tried \cup invalid) = {}
    /\ tried \cap invalid = {}
    /\ in_flight \notin Listed \cup tried \cup invalid

(* requeue_primitive compares with the first node of a list only, and does *)
(* not stop at the first match: this is right because a list holds one     *)
(* pb_type and a pb_type has at most one list.                             *)
OneListPerType ==
    \A i, j \in Slots : \A p \in valid_primitives[i], q \in valid_primitives[j] :
        i = j <=> PbTypeOf[p] = PbTypeOf[q]

(* The assertions of requeue_primitive (an empty list is there for a       *)
(* pb_type that has none), reset_cluster_placement_stats (every list is    *)
(* non-empty) and commit_primitive (the primitive is still valid).         *)
AssertionsHold == pc # "abort"

(* No primitive is handed out that holds a block, or that a block already  *)
(* packed or the mode of the cluster has made unreachable.                 *)
OfferIsFree ==
    pc = "attempt" =>
        /\ primitives_list # {}
        /\ primitives_list \cap committed = {}
        /\ \A p \in primitives_list :
               /\ InMode(p, cluster_mode)
               /\ \A q \in committed : p \notin Blocked(q)

(* get_next_primitive_list gives up on a molecule only when every root     *)
(* that could hold it has been handed out since the queues were flushed:   *)
(* nothing usable was left on a list, in flight or on the invalid queue.   *)
FailureIsExhaustive ==
    [][pc = "search" /\ pc' = "ready" =>
          \A r \in Primitives :
              \/ r \in offered \/ r \in Forced[molecule]
              \/ PbTypeOf[r] \notin RootTypes[molecule]
              \/ PlacementAt[molecule][r] = {}
              \/ \E p \in PlacementAt[molecule][r] : ~valid[p]]_vars

(* A molecule never gets the same root twice between two flushes, so the   *)
(* loop of try_pack_molecule tries new placements only.                    *)
NeverOfferedTwice ==
    [][pc = "search" /\ pc' = "attempt" => in_flight' \notin offered]_vars

(* Every call of the packer returns: the placements of a molecule run out. *)
CallsReturn == pc # "ready" ~> pc = "ready"

-----------------------------------------------------------------------------
(* The inductive invariant behind the safety properties.                   *)

(* What the place in the program says of the arguments and the queues.     *)
ControlInv ==
    /\ pc # "ready" \/ packed # {} => molecule \in Molecules
    /\ pc = "requeue_invalid" => tried = {} /\ in_flight = NoPrimitive
    /\ pc = "search" => in_flight = NoPrimitive
    /\ pc \in {"ready", "requeue_invalid", "set_mode", "call", "search"}
          => primitives_list = {}
    /\ pc = "flush" /\ op # "commit" => primitives_list = {}
    /\ pc = "attempt" => primitives_list # {}
    /\ pc = "take" => op = "commit"
    /\ pc = "set_mode" => committed = {}

(* What is handed out is free and can be committed in any order.           *)
OfferInv ==
    \A p \in primitives_list : valid[p] /\ primitives_list \cap Blocked(p) = {}

(* A committed primitive and what it excludes stay invalid until a reset.  *)
CommittedInv ==
    \A q \in committed : ~valid[q] /\ \A p \in Blocked(q) : ~valid[p]

(* From set_mode on, what is valid belongs to the mode of the cluster.     *)
ModeInv ==
    \/ pc \in {"call", "search", "attempt", "take"}
    \/ pc = "flush" /\ op # "reset"
    \/ pc = "ready" /\ packed # {}
    => \A p \in Primitives : valid[p] => InMode(p, cluster_mode)

(* Only invalid nodes are collected; what was handed out since the last    *)
(* flush is tried or in flight.                                            *)
CollectedInv ==
    /\ \A p \in invalid : ~valid[p]
    /\ pc \notin {"flush", "abort"} => offered = tried \cup ({in_flight} \ {NoPrimitive})

(* What makes the rest inductive: the packer's place, the flags and the    *)
(* queues agree in every state of every loop of cluster_placement.c.       *)
IInv ==
    /\ TypeOK /\ NodeConservation /\ OneListPerType /\ AssertionsHold
    /\ ControlInv /\ OfferInv /\ CommittedInv /\ ModeInv /\ CollectedInv

(* The queues implement the pool of free primitives.                       *)
Pool == INSTANCE PrimitivePool WITH
    free  <- {p \in Primitives : valid[p]},
    offer <- primitives_list,
    taken <- committed

ImplementsPool == Pool!PoolSpec
=============================================================================
