----------------------------- MODULE Clusterer -----------------------------
(***************************************************************************)
(* The greedy packer: do_clustering of vpr7_rram/vpr/SRC/pack/cluster.c    *)
(* with free_pb of util/vpr_utils.c.  Molecules join the open complex      *)
(* block one by one; a molecule is placed block by block and reverted      *)
(* block by block; a complex block that cannot be routed at the end is     *)
(* emptied and packed again, routing after every molecule.                 *)
(*                                                                         *)
(* Gains, pin counts and routability are not computed: which candidate has *)
(* the highest gain and whether a check passes are choices.  The queues    *)
(* behind get_next_primitive_list are module ClusterPlacement.  Molecules  *)
(* share no block: try_expand_molecule refuses a block that is in one.     *)
(* A primitive lies directly in the top pb or in a container between the   *)
(* two; the top pb and each container are in one of several modes.         *)
(***************************************************************************)
EXTENDS Integers, FiniteSets, Sequences

CONSTANTS
    Blocks, Molecules,
    BlocksOf,       \* [Molecules -> sequence of blocks]
    TypeSeq,        \* complex block types other than EMPTY_TYPE, in order
    NumModes,       \* [type -> modes of its top pb]
    Sites,          \* primitives, over all types
    SiteType, SiteMode, \* [Sites -> type], [Sites -> mode of the top pb]
    SiteParent,     \* [Sites -> container between the top pb and it, or Top]
    InnerMode,      \* [Sites -> mode of that container]
    Disabled,       \* primitives and containers of modes disabled_in_packing
    Placements,     \* [Molecules -> sequences of sites, one per block]
    LowNets, HighNets, \* sets of blocks: nets below, above the fan-out limit
    ExtInputs,      \* [Molecules -> num_ext_inputs]
    CritOrders,     \* what critindexarray may be
    Instances,      \* [grid size -> [type -> instances]]
    MaxSize,        \* the packer's largest grid
    AllowUnrelated, \* allow_unrelated_clustering
    Top, NoSite, NoBlock, NoMolecule

Members(m) == {BlocksOf[m][i] : i \in DOMAIN BlocksOf[m]}
MoleculeOf(b) == CHOOSE m \in Molecules : b \in Members(m)
Types == {TypeSeq[i] : i \in DOMAIN TypeSeq}
Containers == {SiteParent[s] : s \in Sites} \ {Top}
Mates(r, s) == SiteParent[r] = SiteParent[s] /\ SiteParent[s] # Top    \* in one container

ASSUME MoleculesAssumption ==
    /\ IsFiniteSet(Blocks) /\ IsFiniteSet(Molecules) /\ Molecules # {}
    /\ NoBlock \notin Blocks /\ NoSite \notin Sites /\ NoMolecule \notin Molecules
    /\ \A m \in Molecules : BlocksOf[m] \in Seq(Blocks) /\ BlocksOf[m] # <<>>
    /\ \A b \in Blocks : \E m \in Molecules : b \in Members(m)
    /\ \A m, n \in Molecules : m # n => Members(m) \cap Members(n) = {}
    /\ \A m \in Molecules : \A i, j \in DOMAIN BlocksOf[m] :
           BlocksOf[m][i] = BlocksOf[m][j] => i = j
    /\ LowNets \subseteq SUBSET Blocks /\ HighNets \subseteq SUBSET Blocks
    /\ \A c \in CritOrders : /\ c \in Seq(Blocks) /\ Len(c) = Cardinality(Blocks)
                            /\ \A b \in Blocks : \E j \in DOMAIN c : c[j] = b

ASSUME TypesAssumption ==
    /\ TypeSeq \in Seq(Types) /\ "none" \notin Types /\ MaxSize \in Nat
    /\ \A s \in Sites : InnerMode[s] \in Nat \ {0}

(* get_next_primitive_list: distinct primitives, under one mode of the top *)
(* pb and of each container, as a pack pattern is drawn.                   *)
ASSUME PlacementsAssumption ==
    \A m \in Molecules : \A p \in Placements[m] :
        /\ p \in Seq(Sites) /\ Len(p) = Len(BlocksOf[m])
        /\ \A i, j \in DOMAIN p : /\ p[i] = p[j] => i = j
                                  /\ SiteType[p[i]] = SiteType[p[j]]
                                  /\ SiteMode[p[i]] = SiteMode[p[j]]
                                  /\ Mates(p[i], p[j]) => InnerMode[p[i]] = InnerMode[p[j]]

VARIABLES
    clb_index,      \* logical_block[].clb_index, 0 is NO_CLUSTER
    pb,             \* logical_block[].pb, a site of that cluster
    valid,          \* molecule->valid
    saved,          \* finished clusters: [type, holder, inner]
    clb,            \* the open cluster: [type, mode, layout]; layout is the
                    \* mode its child_pbs were allocated for, 0 when NULL
    holder,         \* pb->logical_block of its primitives
    inner,          \* the mode each container has child_pbs and a name for, or 0
    counted,        \* blocks counted in num_child_blocks_in_pb
    marked,         \* pb_stats->marked_blocks of the cluster
    tie,            \* tie_break_high_fanout_net: a net or {}
    feasible, fresh, \* pb_stats->feasible_blocks; FALSE: NOT_VALID
    attempts,       \* num_unrelated_clustering_attempts
    critindexarray, indexofcrit, cluster_seed_type,
    istart, prev_molecule, next_molecule,
    stage,          \* detailed_routing_stage, 1 or 2
    size, used,     \* grid size, num_used_instances_type
    itype, count,   \* loop of start_new_cluster
    tried,          \* placements this call of try_pack_molecule has seen
    primitives_list, failed_location, irevert,
    pc, stop        \* stop: why the program ended

seeds   == <<critindexarray, indexofcrit, cluster_seed_type>>
links   == <<clb_index, pb, holder, inner>>
stats   == <<counted, marked, tie, feasible, fresh>>
attempt == <<tried, primitives_list, failed_location, irevert>>
grid    == <<size, used, itype, count>>
cands   == <<istart, prev_molecule, next_molecule, attempts>>
vars    == <<links, valid, saved, clb, stats, seeds, cands, stage, grid, attempt, pc, stop>>

this == Len(saved) + 1
NoCluster == [type |-> "none", mode |-> 0, layout |-> 0]
Empty == [s \in Sites |-> NoBlock]
NoChildren == [x \in Containers |-> 0]

Init ==
    /\ clb_index = [b \in Blocks |-> 0] /\ pb = [b \in Blocks |-> NoSite]
    /\ valid = [m \in Molecules |-> TRUE]
    /\ saved = <<>> /\ clb = NoCluster /\ holder = Empty /\ inner = NoChildren
    /\ counted = {} /\ marked = {} /\ tie = {} /\ feasible = {} /\ fresh = TRUE
    /\ attempts = 0
    /\ critindexarray \in CritOrders /\ indexofcrit = 1
    /\ cluster_seed_type \in {"timing", "max_inputs"}
    /\ istart = NoMolecule /\ prev_molecule = NoMolecule /\ next_molecule = NoMolecule
    /\ stage = 1
    /\ size = 0 /\ used = [t \in Types |-> 0] /\ itype = 1 /\ count = 0
    /\ tried = {} /\ primitives_list = <<>> /\ failed_location = 0 /\ irevert = 0
    /\ pc = "seed" /\ stop = "no"

(* An assertion fails, or the program exits.                               *)
Stop(why) ==
    /\ pc' = "stop" /\ stop' = why
    /\ UNCHANGED <<links, valid, saved, clb, stats, seeds, cands, stage, grid, attempt>>

-----------------------------------------------------------------------------
(* get_most_critical_seed_molecule and, for the other option,              *)
(* get_seed_logical_molecule_with_most_ext_inputs                          *)
OpenFrom(k) == {j \in k .. Len(critindexarray) : clb_index[critindexarray[j]] = 0}
FirstOpen(j) == j \in OpenFrom(indexofcrit) /\ \A i \in OpenFrom(indexofcrit) : j <= i

(* Mutation: the block after the first open one gives the seed.            *)
NextOpenSeed ==
    /\ pc = "seed" /\ cluster_seed_type = "timing"
    /\ IF OpenFrom(indexofcrit) = {}
       THEN /\ pc' = "check" /\ indexofcrit' = Len(critindexarray) + 1
            /\ UNCHANGED <<istart, stage>>
       ELSE \E j \in DOMAIN critindexarray :
            /\ FirstOpen(j)
            /\ istart' = MoleculeOf(critindexarray[j])
            /\ indexofcrit' = j + 2
            /\ pc' = "start" /\ stage' = 1
    /\ UNCHANGED <<links, valid, saved, clb, stats, critindexarray, cluster_seed_type,
                   prev_molecule, next_molecule, attempts, grid, attempt, stop>>

MostCriticalSeed ==
    /\ pc = "seed" /\ cluster_seed_type = "timing"
    /\ IF OpenFrom(indexofcrit) = {}
       THEN /\ pc' = "check" /\ indexofcrit' = Len(critindexarray) + 1
            /\ UNCHANGED <<istart, stage, stop>>
       ELSE \E j \in DOMAIN critindexarray :
            /\ FirstOpen(j)
            /\ istart' = MoleculeOf(critindexarray[j])
            /\ indexofcrit' = j + 1
            /\ stage' = 1
            /\ IF valid[istart'] THEN pc' = "start" /\ stop' = "no"
                                 ELSE pc' = "stop"  /\ stop' = "no seed"
    /\ UNCHANGED <<links, valid, saved, clb, stats, critindexarray, cluster_seed_type,
                   prev_molecule, next_molecule, attempts, grid, attempt>>

MostInputsSeed ==
    LET open == {m \in Molecules : valid[m]} IN
    /\ pc = "seed" /\ cluster_seed_type = "max_inputs"
    /\ IF open = {} THEN pc' = "check" /\ UNCHANGED <<istart, stage>>
       ELSE \E m \in open :
              /\ \A n \in open : ExtInputs[n] <= ExtInputs[m]
              /\ istart' = m /\ pc' = "start" /\ stage' = 1
    /\ UNCHANGED <<links, valid, saved, clb, stats, seeds, prev_molecule, next_molecule,
                   attempts, grid, attempt, stop>>

-----------------------------------------------------------------------------
(* start_new_cluster                                                       *)
HasInstance(t) == used[t] < Instances[size][t]

StartCluster ==
    /\ pc = "start"
    /\ itype' = 1 /\ count' = 0 /\ pc' = "type"
    /\ UNCHANGED <<links, valid, saved, clb, stats, seeds, cands, stage, size, used,
                   attempt, stop>>

(* A type with an instance left is tried, in its first mode.               *)
OpenType ==
    /\ pc = "type" /\ itype <= Len(TypeSeq)
    /\ IF HasInstance(TypeSeq[itype])
       THEN /\ clb' = [type |-> TypeSeq[itype], mode |-> 1, layout |-> 0]
            /\ holder' = Empty /\ inner' = NoChildren
            /\ counted' = {} /\ marked' = {} /\ tie' = {} /\ feasible' = {} /\ fresh' = TRUE
            /\ tried' = {}
            /\ pc' = "offer"
            /\ UNCHANGED itype
       ELSE itype' = itype + 1 /\ UNCHANGED <<clb, holder, inner, stats, tried, pc>>
    /\ UNCHANGED <<clb_index, pb, valid, saved, seeds, cands, stage, size, used, count,
                   primitives_list, failed_location, irevert, stop>>

(* No type took the seed.  If all were tried nothing ever will; otherwise  *)
(* the grid grows, up to the packer's range.                               *)
NoTypeLeft ==
    /\ pc = "type" /\ itype > Len(TypeSeq)
    /\ IF count = Len(TypeSeq) THEN Stop("no logic block can implement the molecule")
       ELSE IF size = MaxSize  THEN Stop("architecture size exceeds packer range")
       ELSE /\ size' = size + 1 /\ pc' = "start"
            /\ UNCHANGED <<links, valid, saved, clb, stats, seeds, cands, stage, used, itype,
                           count, attempt, stop>>

(* The seed does not fit the mode: the next mode, then the next type.      *)
SeedFails ==
    IF clb.mode < NumModes[clb.type]
    THEN /\ clb' = [clb EXCEPT !.mode = @ + 1]
         /\ tried' = {} /\ pc' = "offer"
         /\ UNCHANGED <<itype, count>>
    ELSE /\ clb' = NoCluster
         /\ itype' = itype + 1 /\ count' = count + 1 /\ pc' = "type"
         /\ UNCHANGED tried

-----------------------------------------------------------------------------
(* try_pack_molecule                                                       *)
candidate == IF next_molecule = NoMolecule THEN istart ELSE next_molecule
Block(i)  == BlocksOf[candidate][i]

(* Mutation: primitives of disabled modes are offered too.                 *)
FeasibleThoughDisabled(s) == TRUE

(* primitive_type_feasible refuses the primitives of disabled modes.       *)
PrimitiveTypeFeasible(s) == s \notin Disabled

(* The primitive is in the mode of the complex block, and commit_primitive *)
(* invalidated neither it nor, with another mode, those of its container.  *)
ValidPrimitive(s) ==
    /\ SiteType[s] = clb.type /\ SiteMode[s] = clb.mode
    /\ \A r \in Sites : holder[r] \in counted =>
           r # s /\ (Mates(r, s) => InnerMode[r] = InnerMode[s])

Unoccupied(p) == \A i \in DOMAIN p : PrimitiveTypeFeasible(p[i]) /\ ValidPrimitive(p[i])

(* get_next_primitive_list offers another placement.                       *)
Offer ==
    /\ pc = "offer"
    /\ \E p \in Placements[candidate] \ tried :
         /\ Unoccupied(p)
         /\ primitives_list' = p
         /\ tried' = tried \cup {p}
    /\ failed_location' = 0 /\ pc' = "place"
    /\ UNCHANGED <<links, valid, saved, clb, stats, seeds, cands, stage, grid, irevert, stop>>

(* There is no further placement: BLK_FAILED_FEASIBLE.                     *)
NoOffer ==
    /\ pc = "offer"
    /\ ~ \E p \in Placements[candidate] \ tried : Unoccupied(p)
    /\ IF next_molecule = NoMolecule
       THEN /\ SeedFails
            /\ UNCHANGED prev_molecule
       ELSE /\ pc' = "get" /\ prev_molecule' = next_molecule
            /\ UNCHANGED <<clb, tried, itype, count>>
    /\ UNCHANGED <<links, valid, saved, stats, seeds, istart, next_molecule, attempts, stage,
                   size, used, primitives_list, failed_location, irevert, stop>>

(* try_place_logical_block_rec for the next block.  The top pb and then the *)
(* container are given child_pbs when they have none; else these must be   *)
(* those of the mode.  A pb of a disabled mode makes the placement fail: a *)
(* container at the end, the primitive itself before it is linked.         *)
PlaceBlock ==
    LET i == failed_location + 1
        b == Block(i)
        s == primitives_list[i]
        x == SiteParent[s]
    IN
    /\ pc = "place"
    /\ IF clb.layout \notin {0, clb.mode} THEN Stop("children of another mode")
       ELSE IF x # Top /\ inner[x] \notin {0, InnerMode[s]}
            THEN Stop("container in another mode")
       ELSE IF s \notin Disabled /\ (holder[s] # NoBlock \/ pb[b] # NoSite \/ clb_index[b] # 0)
            THEN Stop("placed twice")
       ELSE /\ clb' = [clb EXCEPT !.layout = clb.mode]
            /\ inner' = [y \in Containers |-> IF y = x THEN InnerMode[s] ELSE inner[y]]
            /\ IF s \in Disabled THEN UNCHANGED <<clb_index, pb, holder>>
               ELSE /\ clb_index' = [clb_index EXCEPT ![b] = this]
                    /\ pb' = [pb EXCEPT ![b] = s]
                    /\ holder' = [holder EXCEPT ![s] = b]
            /\ failed_location' = i /\ irevert' = 1
            /\ \/ /\ {s, x} \cap Disabled = {}
                  /\ pc' = IF i = Len(primitives_list) THEN "pins" ELSE "place"
               \/ pc' = "revert"
            /\ UNCHANGED <<valid, saved, stats, seeds, cands, stage, grid, tried,
                           primitives_list, stop>>

(* All blocks are placed: pin counts, and in stage 2 routing, may refuse.  *)
Refuse ==
    /\ pc = "pins" /\ pc' = "revert"
    /\ UNCHANGED <<links, valid, saved, clb, stats, seeds, cands, stage, grid, attempt, stop>>

(* Otherwise every molecule that shares a block with this one is out.      *)
Commit ==
    /\ pc = "pins" /\ pc' = "update"
    /\ valid' = [m \in Molecules |-> valid[m] /\ Members(m) \cap Members(candidate) = {}]
    /\ UNCHANGED <<links, saved, clb, stats, seeds, cands, stage, grid, attempt, stop>>

-----------------------------------------------------------------------------
(* free_pb on the primitives that hold the blocks S.  A molecule that was  *)
(* out is a candidate again when the last of its blocks is freed.          *)
Release(S) ==
    /\ pb' = [b \in Blocks |-> IF b \in S THEN NoSite ELSE pb[b]]
    /\ holder' = [s \in Sites |-> IF holder[s] \in S THEN NoBlock ELSE holder[s]]
    /\ valid' = [m \in Molecules |->
                    \/ valid[m]
                    \/ Members(m) \cap S # {} /\ \A b \in Members(m) : clb_index'[b] = 0]

Under(x) == {s \in Sites : SiteParent[s] = x}

(* Mutation: a container is freed whatever else it holds.                  *)
EmptiedByForce(s) == {SiteParent[s]} \ {Top}

(* The container of site s goes with the block if no block under it is     *)
(* counted.  The top pb itself is kept.                                    *)
Emptied(s) ==
    {x \in {SiteParent[s]} \ {Top} : \A r \in Under(x) : holder[r] \notin counted}

(* free_pb of a container frees the blocks under it.                       *)
FreedWith(s) == {holder[r] : r \in UNION {Under(x) : x \in Emptied(s)}} \ {NoBlock}

Close(X) == inner' = [x \in Containers |-> IF x \in X THEN 0 ELSE inner[x]]

(* Mutation: the block whose placement failed is not reverted.             *)
RevertAllButLast ==
    LET b == Block(irevert)
        S == IF pb[b] = NoSite \/ irevert = failed_location THEN {} ELSE {b} \cup FreedWith(pb[b])
    IN
    /\ pc = "revert"
    /\ clb_index' = [x \in Blocks |-> IF x \in S THEN 0 ELSE clb_index[x]]
    /\ Release(S) /\ Close(IF pb[b] = NoSite THEN {} ELSE Emptied(pb[b]))
    /\ irevert' = irevert + 1
    /\ pc' = IF irevert = failed_location THEN "offer" ELSE "revert"
    /\ UNCHANGED <<saved, clb, stats, seeds, cands, stage, grid, tried, primitives_list,
                   failed_location, stop>>

(* revert_place_logical_block, one block; a block whose pb went with that  *)
(* of an earlier one is only marked.                                       *)
RevertBlock ==
    LET b == Block(irevert)
        S == IF pb[b] = NoSite THEN {} ELSE {b} \cup FreedWith(pb[b])
    IN
    /\ pc = "revert"
    /\ clb_index' = [x \in Blocks |-> IF x \in S \cup {b} THEN 0 ELSE clb_index[x]]
    /\ Release(S) /\ Close(IF pb[b] = NoSite THEN {} ELSE Emptied(pb[b]))
    /\ irevert' = irevert + 1
    /\ pc' = IF irevert = failed_location THEN "offer" ELSE "revert"
    /\ UNCHANGED <<saved, clb, stats, seeds, cands, stage, grid, tried, primitives_list,
                   failed_location, stop>>

-----------------------------------------------------------------------------
(* The molecule is in: update_cluster_stats.  Its nets mark the blocks     *)
(* still open; a net above the fan-out limit is kept for later.            *)
Update ==
    LET in   == Members(candidate)
        near == UNION {n \in LowNets : n \cap in # {}}
        high == {n \in HighNets : n \cap in # {}} \cup ({tie} \ {{}})
    IN
    /\ pc = "update" /\ pc' = "get"
    /\ counted' = counted \cup in
    /\ marked' = marked \cup {b \in near : clb_index[b] = 0}
    /\ \/ high = {} /\ tie' = {}
       \/ \E n \in high : /\ \A o \in high : Cardinality(n) <= Cardinality(o)
                          /\ tie' = n
    /\ fresh' = FALSE /\ UNCHANGED feasible
    /\ attempts' = 0
    /\ IF next_molecule = NoMolecule
       THEN prev_molecule' = istart /\ used' = [used EXCEPT ![clb.type] = @ + 1]
       ELSE prev_molecule' = next_molecule /\ UNCHANGED used
    /\ UNCHANGED <<links, valid, saved, clb, seeds, istart, next_molecule, stage, size, itype,
                   count, attempt, stop>>

-----------------------------------------------------------------------------
(* Molecules with an open block in S.  exists_free_primitive_... is asked  *)
(* about that block; a yes means there is a primitive, a no may be wrong.  *)
HasPrimitive(m) == \E p \in Placements[m], i \in DOMAIN BlocksOf[m] :
    PrimitiveTypeFeasible(p[i]) /\ ValidPrimitive(p[i])
Candidates(S) == {m \in Molecules : /\ valid[m] /\ HasPrimitive(m)
                                    /\ \E b \in Members(m) \cap S : clb_index[b] = 0}

(* assert(molecule->logical_block_ptrs[j]->clb_index == NO_CLUSTER)        *)
SplitMolecule == \E m \in Molecules : /\ valid[m]
                                      /\ \E b, x \in Members(m) : clb_index[b] = 0 /\ clb_index[x] # 0

(* Few marked blocks: only these are looked at; else all blocks are.       *)
Related == IF Cardinality(marked) < Cardinality(Blocks) \div 2 THEN marked ELSE Blocks

(* get_highest_gain_molecule, the list: it is made anew after a molecule   *)
(* joined.  The list is bounded and filtered: any part of the candidates.  *)
Rebuild ==
    /\ pc = "get" /\ ~fresh
    /\ IF SplitMolecule THEN Stop("split molecule")
       ELSE /\ feasible' \in SUBSET Candidates(Related)
            /\ fresh' = TRUE
            /\ UNCHANGED <<links, valid, saved, clb, counted, marked, tie, seeds, cands, stage,
                           grid, attempt, pc, stop>>

(* Mutation: the net is looked at again each time the list is empty.       *)
ExploreHighFanoutAgain ==
    /\ pc = "get" /\ fresh /\ feasible = {} /\ tie # {}
    /\ feasible' \in SUBSET Candidates(tie)
    /\ UNCHANGED <<links, valid, saved, clb, counted, marked, tie, fresh, seeds, cands, stage,
                   grid, attempt, pc, stop>>

(* With an empty list the high fan-out net is looked at, once.             *)
ExploreHighFanout ==
    /\ pc = "get" /\ fresh /\ feasible = {} /\ tie # {}
    /\ feasible' \in SUBSET Candidates(tie)
    /\ tie' = {}
    /\ UNCHANGED <<links, valid, saved, clb, counted, marked, fresh, seeds, cands, stage,
                   grid, attempt, pc, stop>>

(* The loop of do_clustering ends without a molecule, or with the one that *)
(* was tried last.                                                         *)
Next_(m) == /\ next_molecule' = m
            /\ tried' = {}
            /\ pc' = IF m \in {NoMolecule, prev_molecule} THEN "close" ELSE "offer"

(* assert(molecule->valid == TRUE) on the molecule of highest gain         *)
PopFeasible ==
    /\ pc = "get" /\ fresh
    /\ \E m \in feasible :
         IF ~valid[m] THEN Stop("molecule is not valid")
         ELSE /\ feasible' = feasible \ {m}
              /\ attempts' = IF AllowUnrelated THEN 0 ELSE attempts
              /\ Next_(m)
              /\ UNCHANGED <<links, valid, saved, clb, counted, marked, tie, fresh, seeds, istart,
                             prev_molecule, stage, grid, primitives_list, failed_location,
                             irevert, stop>>

(* No related molecule: once an unrelated one, if there is any with a      *)
(* primitive for each of its blocks, or the end of this complex block.     *)
NoRelated ==
    /\ pc = "get" /\ fresh /\ feasible = {} /\ tie = {}
    /\ \/ Next_(NoMolecule)
       \/ /\ AllowUnrelated /\ attempts = 0
          /\ \E m \in Candidates(Blocks) : Next_(m)
    /\ attempts' = IF AllowUnrelated /\ attempts = 0 THEN 1 ELSE attempts
    /\ UNCHANGED <<links, valid, saved, clb, stats, seeds, istart, prev_molecule, stage, grid,
                   primitives_list, failed_location, irevert, stop>>

-----------------------------------------------------------------------------
Closed == /\ clb' = NoCluster /\ next_molecule' = NoMolecule

(* Routed at the end, or after every molecule: the complex block stays.    *)
Save ==
    /\ pc = "close"
    /\ saved' = Append(saved, [type |-> clb.type, holder |-> holder, inner |-> inner])
    /\ holder' = Empty /\ inner' = NoChildren /\ Closed
    /\ counted' = {} /\ marked' = {} /\ tie' = {} /\ feasible' = {} /\ fresh' = TRUE
    /\ pc' = "seed"
    /\ UNCHANGED <<clb_index, pb, valid, seeds, istart, prev_molecule, attempts, stage, grid,
                   attempt, stop>>

Held == {holder[s] : s \in Sites} \ {NoBlock}

(* It failed to route at the end: free_cb, and again with the same seed.   *)
Discard ==
    /\ pc = "close" /\ stage = 1
    /\ clb_index' = [b \in Blocks |-> IF b \in Held THEN 0 ELSE clb_index[b]]
    /\ Release(Held) /\ inner' = NoChildren
    /\ used' = [used EXCEPT ![clb.type] = @ - 1]
    /\ Closed
    /\ counted' = {} /\ marked' = {} /\ tie' = {} /\ feasible' = {} /\ fresh' = TRUE
    /\ stage' = 2 /\ pc' = "start"
    /\ UNCHANGED <<saved, seeds, istart, prev_molecule, attempts, size, itype, count,
                   attempt, stop>>

(* check_clustering walks the named pbs of each complex block: every       *)
(* container has a child, every block is found once and links back.        *)
At(x) == saved[x[1]].holder[x[2]]
Named(c, s) == SiteParent[s] = Top \/ saved[c].inner[SiteParent[s]] = InnerMode[s]
Found == {x \in (DOMAIN saved) \X Sites : At(x) # NoBlock /\ Named(x[1], x[2])}
HasChild(c, X) == \E s \in X : <<c, s>> \in Found

Check ==
    /\ pc = "check"
    /\ IF /\ \A c \in DOMAIN saved :
               /\ HasChild(c, Sites)
               /\ \A x \in Containers : saved[c].inner[x] # 0 => HasChild(c, Under(x))
          /\ \A x, y \in Found : At(x) = At(y) => x = y
          /\ \A x \in Found : pb[At(x)] = x[2] /\ clb_index[At(x)] = x[1]
          /\ Blocks = {At(x) : x \in Found}
       THEN pc' = "done" /\ UNCHANGED <<links, valid, saved, clb, stats, seeds, cands, stage,
                                        grid, attempt, stop>>
       ELSE Stop("check_clustering")

Ended == pc \in {"done", "stop"} /\ UNCHANGED vars

Next ==
    \/ MostCriticalSeed \/ MostInputsSeed
    \/ StartCluster \/ OpenType \/ NoTypeLeft
    \/ Offer \/ NoOffer \/ PlaceBlock \/ Refuse \/ Commit \/ RevertBlock
    \/ Update \/ Rebuild \/ ExploreHighFanout \/ PopFeasible \/ NoRelated
    \/ Save \/ Discard \/ Check
    \/ Ended

Spec == Init /\ [][Next]_vars

(* Packing is one sequential call: it keeps running.                       *)
FairSpec == Spec /\ WF_vars(Next)

-----------------------------------------------------------------------------
TypeOK ==
    /\ clb_index \in [Blocks -> 0 .. Cardinality(Molecules)]
    /\ pb \in [Blocks -> Sites \cup {NoSite}]
    /\ holder \in [Sites -> Blocks \cup {NoBlock}] /\ inner \in [Containers -> Nat]
    /\ valid \in [Molecules -> BOOLEAN]
    /\ saved \in Seq([type : Types, holder : [Sites -> Blocks \cup {NoBlock}],
                      inner : [Containers -> Nat]])
    /\ clb.type \in Types \cup {"none"} /\ clb.mode \in Nat /\ clb.layout \in Nat
    /\ counted \subseteq Blocks /\ marked \subseteq Blocks /\ tie \subseteq Blocks
    /\ feasible \subseteq Molecules /\ fresh \in BOOLEAN /\ attempts \in {0, 1}
    /\ indexofcrit \in 1 .. Cardinality(Blocks) + 1
    /\ {istart, prev_molecule, next_molecule} \subseteq Molecules \cup {NoMolecule}
    /\ stage \in {1, 2} /\ size \in 0 .. MaxSize /\ used \in [Types -> Nat]
    /\ itype \in 1 .. Len(TypeSeq) + 1 /\ count \in 0 .. Len(TypeSeq)
    /\ failed_location \in Nat /\ irevert \in Nat
    /\ pc \in {"seed", "start", "type", "offer", "place", "pins", "revert", "update", "get",
               "close", "check", "done", "stop"}

(* Blocks, primitives and molecules agree after every failure.  Blocks and *)
(* primitives name each other, in the open complex block and in the        *)
(* finished ones: the first loop of check_clustering asks for this but     *)
(* runs over num_blocks, which is still 0.  Reverting a molecule never     *)
(* takes one with it that is already packed.  And whenever no molecule is  *)
(* half placed or half reverted, one is a candidate exactly when all its   *)
(* blocks are unclustered, and otherwise none of them is.                  *)
LinksAgree ==
    LET trees == saved \o <<[type |-> clb.type, holder |-> holder, inner |-> inner]>> IN
    /\ TypeOK
    /\ \A b \in Blocks : (pb[b] = NoSite) <=> (clb_index[b] = 0)
    /\ \A c \in DOMAIN trees : \A s \in Sites, b \in Blocks :
           trees[c].holder[s] = b <=> clb_index[b] = c /\ pb[b] = s
    /\ \A b \in counted : clb_index[b] = this /\ holder[pb[b]] = b
    /\ pc \notin {"place", "pins", "revert", "stop"} =>
           \A m \in Molecules : \A b \in Members(m) : valid[m] <=> clb_index[b] = 0

(* No block is forgotten by the seeds: those before indexofcrit are packed *)
(* or belong to the molecule the next complex block starts with.           *)
SeedsLeaveNothing ==
    cluster_seed_type = "timing" =>
        \A j \in 1 .. indexofcrit - 1 :
            \/ clb_index[critindexarray[j]] # 0
            \/ critindexarray[j] \in Members(istart)

(* No assertion about packed blocks fails, whichever placements fail and   *)
(* whichever modes are disabled: a seed is found and not yet packed, a     *)
(* primitive and the block put on it are free, the children of a container *)
(* are those of the mode, no candidate is split or invalid, no container   *)
(* is left without a child, and check_clustering finds every block.  (The  *)
(* one on the children of the top pb is ChildrenFitMode.)                  *)
AssertionsHold ==
    stop \notin {"no seed", "placed twice", "container in another mode", "split molecule",
                 "molecule is not valid", "check_clustering"}

(* assert(pb->pb_graph_node == pb_graph_node) in                           *)
(* try_place_logical_block_rec: the children of the top pb are those of    *)
(* the mode the complex block is in.                                       *)
ChildrenFitMode == stop # "children of another mode"

(* Packing ends, whatever fails on the way.                                *)
PackingEnds == <>(pc \in {"done", "stop"})

(* Packing divides the molecules into complex blocks.                      *)
Contents(c) == {m \in Molecules : \E b \in Members(m), s \in Sites : saved[c].holder[s] = b}
Whole(c) == {m \in Molecules : \A b \in Members(m) : \E s \in Sites : saved[c].holder[s] = b}

Partition == INSTANCE MoleculePartition WITH
    left    <- Molecules \ UNION {Contents(c) : c \in DOMAIN saved},
    blocks  <- [c \in DOMAIN saved |-> Whole(c)],
    outcome <- CASE pc = "done" -> "packed" [] pc = "stop" -> "failed" [] OTHER -> "packing"

ImplementsPartition == Partition!PartSpec
=============================================================================
