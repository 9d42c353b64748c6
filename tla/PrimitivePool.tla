--------------------------- MODULE PrimitivePool ---------------------------
(***************************************************************************)
(* What pack/cluster_placement.c promises to the packer, without queues:   *)
(* one complex block is being filled; a primitive is free until it is      *)
(* taken or until a taken primitive, or the mode chosen for the block,     *)
(* makes it unreachable.  Only free primitives are offered, and opening    *)
(* the next complex block makes every primitive free again.                *)
(***************************************************************************)
EXTENDS FiniteSets

CONSTANTS
    Primitives,         \* leaves of the pb_graph of one complex block type
    Modes,              \* modes of the complex block (top of the pb_graph)
    InMode(_, _),       \* primitive p is reachable when the block is in mode k
    Blocked(_)          \* primitives a taken primitive makes unreachable

VARIABLES
    free,               \* primitives that may still be offered
    offer,              \* primitives offered for the molecule being placed
    taken               \* primitives that hold a logical block

poolVars == <<free, offer, taken>>

PoolInit ==
    /\ free = Primitives
    /\ offer = {}
    /\ taken = {}

(* The next complex block is opened: everything is free again.             *)
Reset ==
    /\ free' = Primitives
    /\ offer' = {}
    /\ taken' = {}

(* The open block takes mode k, before anything was taken in it.           *)
SetMode(k) ==
    /\ taken = {}
    /\ free' = {p \in free : InMode(p, k)}
    /\ UNCHANGED <<offer, taken>>

(* A set of free primitives is offered for one molecule.                   *)
Offer ==
    /\ offer = {}
    /\ offer' \in (SUBSET free) \ {{}}
    /\ UNCHANGED <<free, taken>>

(* The molecule cannot use the offer (routing or pin count fails).         *)
Withdraw ==
    /\ offer' = {}
    /\ UNCHANGED <<free, taken>>

(* One offered primitive is committed; those it excludes are free no more. *)
Take(p) ==
    /\ p \in offer
    /\ p \in free
    /\ offer' = offer \ {p}
    /\ taken' = taken \cup {p}
    /\ free' = free \ ({p} \cup Blocked(p))

PoolNext ==
    \/ Reset
    \/ \E k \in Modes : SetMode(k)
    \/ Offer
    \/ Withdraw
    \/ \E p \in Primitives : Take(p)

PoolSpec == PoolInit /\ [][PoolNext]_poolVars
=============================================================================
