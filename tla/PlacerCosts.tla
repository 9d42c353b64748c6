---------------------------- MODULE PlacerCosts ----------------------------
(***************************************************************************)
(* What the placer believes its placement costs: the bounding boxes of the *)
(* nets, with the number of pins on each edge of a large one, their cost,  *)
(* and the delay and timing cost of every connection, kept up to date swap *)
(* by swap (vpr7_rram/vpr/SRC/place/place.c) on top of Placer.             *)
(*                                                                         *)
(* Costs are integers, so that round-off, which the code removes from time *)
(* to time, does not exist here; a channel has the same width everywhere.  *)
(* Whether a swap that costs more is kept is chance while the temperature  *)
(* is above 0.                                                             *)
(***************************************************************************)
EXTENDS Placer, FiniteSetsExt, SequencesExt

CONSTANTS
    NetPins,        \* the nets that are not global: sequence of sequences
                    \*   of pins [blk, height], the driver first
    SMALL_NET,      \* sinks from which on boxes are updated by increments
    Crossing,       \* [Nets -> cross_count for the number of its pins]
    Delay,          \* delta_io_to_io, ...: [source, sink kind -> [distances in
                    \*   x -> [distances in y -> delay]]]
    Criticalities,  \* results a timing analysis may have: [Conns -> Nat]
    BbWeight, TdWeight  \* (1 - timing_tradeoff) and timing_tradeoff, each
                        \*   over its previous cost

Nets     == DOMAIN NetPins
Pins(n)  == 1 .. Len(NetPins[n])
Sinks(n) == 2 .. Len(NetPins[n])
Large(n) == Len(NetPins[n]) - 1 >= SMALL_NET
AllPins  == UNION {{n} \X Pins(n) : n \in Nets}
Conns    == UNION {{n} \X Sinks(n) : n \in Nets}     \* by their sink
BlockOf(p) == NetPins[p[1]][p[2]].blk
Kinds    == {"io", "clb"}
Kind(b)  == IF BlockType[b] = IoType THEN "io" ELSE "clb"

ASSUME NetsAssumption ==
    /\ NetPins \in Seq(Seq([blk : Blocks, height : Nat]))
    /\ \A n \in Nets : Len(NetPins[n]) >= 2

(* Delays are not negative: comp_td_point_to_point_delay checks them.      *)
ASSUME CostsAssumption ==
    /\ Crossing \in [Nets -> Nat]
    /\ Delay \in [Kinds -> [Kinds -> [0 .. NX + 1 -> [0 .. NY + 1 -> Nat]]]]
    /\ Criticalities \subseteq [Conns -> Nat]

VARIABLES
    box,                \* bb_coords and bb_num_on_edges
    ts_box,             \* ts_bb_coord_new and ts_bb_edge_new
    bb_updated_before,  \* [Nets -> flag]
    net_cost, temp_net_cost,
    bb_cost,
    crit,               \* timing_place_crit
    ptp_delay, ptp_timing,      \* point_to_point_..._cost of each connection
    temp_delay, temp_timing,
    td_cost, delay_cost,
    delta               \* changes the swap under way would make

box_vars == <<box, ts_box, bb_updated_before, net_cost, temp_net_cost, bb_cost>>
td_vars  == <<ptp_delay, ptp_timing, temp_delay, temp_timing, td_cost,
              delay_cost>>
costs    == <<box_vars, crit, td_vars, delta>>
cvars    == <<vars, costs>>
-----------------------------------------------------------------------------
(* Bounding boxes: in each direction the ends and the pins on them.        *)
Clip(v, n)    == IF v < 1 THEN 1 ELSE IF v > n THEN n ELSE v
At(l, n, k)   == l[NetPins[n][k].blk]
PinX(l, n, k) == Clip(At(l, n, k)[1], NX)
PinY(l, n, k) == Clip(At(l, n, k)[2] + NetPins[n][k].height, NY)

NoSpan == [lo |-> 0, hi |-> 0, nlo |-> 0, nhi |-> 0]
NoBox  == [x |-> NoSpan, y |-> NoSpan]

SpanOf(vs) ==
    LET lo == Min({vs[k] : k \in DOMAIN vs})
        hi == Max({vs[k] : k \in DOMAIN vs})
    IN  [lo  |-> lo, hi |-> hi,
         nlo |-> Cardinality({k \in DOMAIN vs : vs[k] = lo}),
         nhi |-> Cardinality({k \in DOMAIN vs : vs[k] = hi})]

get_bb_from_scratch(l, n) ==
    [x |-> SpanOf([k \in Pins(n) |-> PinX(l, n, k)]),
     y |-> SpanOf([k \in Pins(n) |-> PinY(l, n, k)])]

get_non_updateable_bb(l, n) ==
    LET xs == {At(l, n, k)[1] : k \in Pins(n)}
        ys == {At(l, n, k)[2] + NetPins[n][k].height : k \in Pins(n)}
    IN  [x |-> [NoSpan EXCEPT !.lo = Clip(Min(xs), NX), !.hi = Clip(Max(xs), NX)],
         y |-> [NoSpan EXCEPT !.lo = Clip(Min(ys), NY), !.hi = Clip(Max(ys), NY)]]

get_net_cost(n, b) ==
    Crossing[n] * ((b.x.hi - b.x.lo + 1) + (b.y.hi - b.y.lo + 1))

(* A pin goes from old to new; NoSpan when it was the last on an edge the  *)
(* others may now be inside of.                                            *)
UpdateSpan(s, old, new) ==
    IF new < old
    THEN IF old = s.hi /\ s.nhi = 1 THEN NoSpan
         ELSE [lo  |-> IF new < s.lo THEN new ELSE s.lo,
               nlo |-> IF new < s.lo THEN 1
                       ELSE IF new = s.lo THEN s.nlo + 1 ELSE s.nlo,
               hi  |-> s.hi,
               nhi |-> IF old = s.hi THEN s.nhi - 1 ELSE s.nhi]
    ELSE IF new > old
    THEN IF old = s.lo /\ s.nlo = 1 THEN NoSpan
         ELSE [lo  |-> s.lo,
               nlo |-> IF old = s.lo THEN s.nlo - 1 ELSE s.nlo,
               hi  |-> IF new > s.hi THEN new ELSE s.hi,
               nhi |-> IF new > s.hi THEN 1
                       ELSE IF new = s.hi THEN s.nhi + 1 ELSE s.nhi]
    ELSE s

MoveOf(mv, p) == CHOOSE m \in mv : m.blk = BlockOf(p)
MovedPins(mv) == {p \in AllPins : \E m \in mv : m.blk = BlockOf(p)}

(* Pin k of n is on moved block m; l is where the blocks are now, st the   *)
(* net's new box and flag.  A box got from scratch has every move already. *)
update_bb(st, l, n, k, m) ==
    LET cur == IF st.flag = "NOT_UPDATED_YET" THEN box[n] ELSE st.new
        h   == NetPins[n][k].height
        x   == UpdateSpan(cur.x, Clip(m.old[1], NX), Clip(m.new[1], NX))
        y   == UpdateSpan(cur.y, Clip(m.old[2] + h, NY), Clip(m.new[2] + h, NY))
    IN  IF st.flag = "GOT_FROM_SCRATCH" THEN st
        ELSE IF x = NoSpan \/ y = NoSpan
        THEN [new |-> get_bb_from_scratch(l, n), flag |-> "GOT_FROM_SCRATCH"]
        ELSE [new |-> [x |-> x, y |-> y], flag |-> "UPDATED_ONCE"]

(* The moved pins are taken in the order of the net here, in the code in   *)
(* that of the moved blocks.                                               *)
UpdatedNet(n, mv, mp, l) ==
    LET st[k \in 0 .. Len(NetPins[n])] ==
          IF k = 0 THEN [new |-> ts_box[n], flag |-> bb_updated_before[n]]
          ELSE IF <<n, k>> \notin mp THEN st[k - 1]
          ELSE IF Large(n) THEN update_bb(st[k - 1], l, n, k, MoveOf(mv, <<n, k>>))
          ELSE [st[k - 1] EXCEPT !.new = get_non_updateable_bb(l, n)]
    IN  st[Len(NetPins[n])]
-----------------------------------------------------------------------------
(* Timing: the delay of a connection, and its delay times its criticality. *)
Abs(i) == IF i < 0 THEN -i ELSE i

comp_td_point_to_point_delay(l, c) ==
    LET s == At(l, c[1], 1)
        t == At(l, c[1], c[2])
        table == Delay[Kind(BlockOf(<<c[1], 1>>))][Kind(BlockOf(c))]
    IN  table[Abs(t[1] - s[1])][Abs(t[2] - s[2])]

DelaysAt(l)    == [c \in Conns |-> comp_td_point_to_point_delay(l, c)]
TimingsAt(l, cr) == [c \in Conns |-> cr[c] * comp_td_point_to_point_delay(l, c)]
Total(f)       == SumFunction(f)

PinConnsTwice(mp, p) ==     \* mutant: driven_by_moved_block is not asked
    IF p[2] = 1 THEN {p[1]} \X Sinks(p[1]) ELSE {p}

(* Connections looked at for a pin of a moved block: all of the net for    *)
(* its driver; for a sink its own, unless the driver moves too.            *)
PinConns(mp, p) ==
    IF p[2] = 1 THEN {p[1]} \X Sinks(p[1])
    ELSE IF <<p[1], 1>> \in mp THEN {} ELSE {p}

AllChanged(mp) == UNION {PinConns(mp, p) : p \in mp}

(* A connection counts as often as it is looked at.                        *)
Change(mp, f) ==
    Total([p \in mp |-> Total([c \in PinConns(mp, p) |-> f[c]])])
-----------------------------------------------------------------------------
Unmarked == [n \in Nets |-> -1]
NoConn   == [c \in Conns |-> -1]
NoDelta  == [bb |-> 0, td |-> 0, delay |-> 0]

CostInit ==
    /\ Init
    /\ box = [n \in Nets |-> NoBox] /\ ts_box = [n \in Nets |-> NoBox]
    /\ bb_updated_before = [n \in Nets |-> "NOT_UPDATED_YET"]
    /\ net_cost = [n \in Nets |-> 0] /\ temp_net_cost = Unmarked
    /\ bb_cost = 0
    /\ crit \in Criticalities
    /\ ptp_delay = NoConn /\ ptp_timing = NoConn
    /\ temp_delay = NoConn /\ temp_timing = NoConn
    /\ td_cost = 0 /\ delay_cost = 0
    /\ delta = NoDelta

comp_bb_cost ==
    LET boxes == [n \in Nets |-> IF Large(n) THEN get_bb_from_scratch(loc, n)
                                             ELSE get_non_updateable_bb(loc, n)]
        cost  == [n \in Nets |-> get_net_cost(n, boxes[n])]
    IN  /\ box' = boxes
        /\ net_cost' = cost
        /\ bb_cost' = Total(cost)
        /\ UNCHANGED <<ts_box, bb_updated_before, temp_net_cost>>

comp_td_costs(cr) ==
    /\ ptp_delay' = DelaysAt(loc) /\ temp_delay' = NoConn
    /\ ptp_timing' = TimingsAt(loc, cr) /\ temp_timing' = NoConn
    /\ td_cost' = Total(TimingsAt(loc, cr))
    /\ delay_cost' = Total(DelaysAt(loc))

StartCosts ==
    /\ LoadLegalPlacements
    /\ IF pc' = "anneal"
       THEN UNCHANGED <<crit, delta>> /\ comp_bb_cost /\ comp_td_costs(crit)
       ELSE UNCHANGED costs

(* A timing analysis gives new criticalities, between swaps only.          *)
RecomputeCriticalities ==
    /\ pc \in {"anneal", "freeze"} /\ moved = {}
    /\ \E cr \in Criticalities : crit' = cr /\ comp_td_costs(cr)
    /\ UNCHANGED <<vars, box_vars, delta>>

(* find_affected_nets: each net of a moved block is marked once.           *)
AffectedNets(mp) == {n \in {p[1] : p \in mp} : temp_net_cost[n] < 0}

(* The new boxes and costs, and the changes, of moves mv that lead to l.   *)
Evaluation(mv, l) ==
    LET mp     == MovedPins(mv)
        aff    == AffectedNets(mp)
        set    == AllChanged(mp)
        up     == [n \in aff |-> UpdatedNet(n, mv, mp, l)]
        cost   == [n \in aff |-> get_net_cost(n, up[n].new)]
        delay  == [c \in set |-> comp_td_point_to_point_delay(l, c)]
        timing == [c \in set |-> crit[c] * delay[c]]
    IN  [up |-> up, cost |-> cost, delay |-> delay, timing |-> timing,
         delta |->
            [bb    |-> Total([n \in aff |-> cost[n] - net_cost[n]]),
             td    |-> Change(mp, [c \in set |-> timing[c] - ptp_timing[c]]),
             delay |-> Change(mp, [c \in set |-> delay[c] - ptp_delay[c]])]]

Overwritten(S, old, new) ==
    [x \in S |-> IF x \in DOMAIN new THEN new[x] ELSE old[x]]

Evaluate ==
    \E e \in {Evaluation(moved', loc')} :
        /\ ts_box' = [n \in Nets |-> IF n \in DOMAIN e.up THEN e.up[n].new
                                                         ELSE ts_box[n]]
        /\ bb_updated_before' =
              [n \in Nets |-> IF n \in DOMAIN e.up THEN e.up[n].flag
                                                   ELSE bb_updated_before[n]]
        /\ temp_net_cost' = Overwritten(Nets, temp_net_cost, e.cost)
        /\ temp_delay' = Overwritten(Conns, temp_delay, e.delay)
        /\ temp_timing' = Overwritten(Conns, temp_timing, e.timing)
        /\ delta' = e.delta
        /\ UNCHANGED <<box, net_cost, bb_cost, crit, ptp_delay, ptp_timing,
                       td_cost, delay_cost>>

ProposeSwap(b, to) ==
    /\ Propose(b, to)
    /\ IF moved' = {} THEN UNCHANGED costs ELSE Evaluate

delta_c == BbWeight * delta.bb + TdWeight * delta.td

Marked == {n \in Nets : temp_net_cost[n] >= 0}

(* Flags are reset either way.  What is left in ts_box is not read again,  *)
(* which NoBox stands for; so are the temporary costs of connections.      *)
ResetFlags ==
    /\ ts_box' = [n \in Nets |-> NoBox]
    /\ bb_updated_before' = [n \in Nets |->
            IF n \in Marked THEN "NOT_UPDATED_YET" ELSE bb_updated_before[n]]
    /\ temp_net_cost' = [n \in Nets |-> -1]
    /\ temp_delay' = NoConn /\ temp_timing' = NoConn
    /\ delta' = NoDelta

update_td_cost ==
    LET set == AllChanged(MovedPins(moved)) IN
    /\ ptp_delay' = [c \in Conns |-> IF c \in set THEN temp_delay[c]
                                     ELSE ptp_delay[c]]
    /\ ptp_timing' = [c \in Conns |-> IF c \in set THEN temp_timing[c]
                                      ELSE ptp_timing[c]]

AcceptSwap ==
    /\ delta_c <= 0 \/ pc = "anneal"
    /\ Accept
    /\ bb_cost' = bb_cost + delta.bb
    /\ td_cost' = td_cost + delta.td
    /\ delay_cost' = delay_cost + delta.delay
    /\ update_td_cost
    /\ box' = [n \in Nets |-> IF n \in Marked THEN ts_box[n] ELSE box[n]]
    /\ net_cost' = [n \in Nets |-> IF n \in Marked THEN temp_net_cost[n]
                                                   ELSE net_cost[n]]
    /\ ResetFlags
    /\ UNCHANGED crit

RejectSwap ==
    /\ delta_c > 0
    /\ Reject
    /\ ResetFlags
    /\ UNCHANGED <<box, net_cost, bb_cost, crit, ptp_delay, ptp_timing,
                   td_cost, delay_cost>>

CostsAgree ==
    /\ bb_cost = Total([n \in Nets |->
                          get_net_cost(n, get_non_updateable_bb(loc, n))])
    /\ td_cost = Total(TimingsAt(loc, crit))
    /\ delay_cost = Total(DelaysAt(loc))

CostNext ==
    \/ /\ \/ PlaceMacro \/ MacrosPlaced \/ CompactEntry \/ CompactNextType
          \/ PlaceBlock \/ OpenPadFile \/ ReadPadLine
          \/ BeginFreeze \/ Finish(CostsAgree) \/ PostPlaceSync \/ Ended
       /\ UNCHANGED costs
    \/ StartCosts \/ RecomputeCriticalities
    \/ \E b \in Blocks, to \in Sites : ProposeSwap(b, to)
    \/ \E b \in Blocks, to \in Sites : Abort(b, to) /\ UNCHANGED costs
    \/ AcceptSwap \/ RejectSwap

CostSpec == CostInit /\ [][CostNext]_cvars
-----------------------------------------------------------------------------
Costed == pc \in {"anneal", "freeze", "placed", "synced"}

SameBox(n, b, c) ==
    \/ b = c
    \/ ~Large(n) /\ <<b.x.lo, b.x.hi, b.y.lo, b.y.hi>>
                      = <<c.x.lo, c.x.hi, c.y.lo, c.y.hi>>

(* The boxes kept by increments, and the numbers of pins on their edges,   *)
(* are those of the pins where they stand, after any sequence of swaps;    *)
(* so are the new boxes of a swap under way, where several pins of a net,  *)
(* even of one block, may move at once and some fall back to a box from    *)
(* scratch half way.                                                       *)
BoxesExact ==
    Costed =>
        LET before == OldLoc
            marked == {p[1] : p \in MovedPins(moved)}
        IN  \A n \in Nets :
                /\ SameBox(n, box[n], get_bb_from_scratch(before, n))
                /\ n \in marked =>
                        SameBox(n, ts_box[n], get_bb_from_scratch(loc, n))

TrueBb(l) == Total([n \in Nets |-> get_net_cost(n, get_bb_from_scratch(l, n))])

(* The three costs the placer adds changes to are those of the placement   *)
(* computed anew, and the changes by which it judges a swap are those      *)
(* between the two placements: no net and no connection is counted twice   *)
(* or forgotten when driver and sinks move together.  check_place and the  *)
(* periodic recomputation stop the program when the sums drift.  The boxes *)
(* they come from are exact as well.                                       *)
CostsExact ==
    /\ BoxesExact
    /\ Costed =>
        LET before == OldLoc
            delays == DelaysAt(before)
        IN  /\ bb_cost = TrueBb(before) /\ bb_cost + delta.bb = TrueBb(loc)
            /\ td_cost = Total(TimingsAt(before, crit))
            /\ td_cost + delta.td = Total(TimingsAt(loc, crit))
            /\ delay_cost = Total(delays) /\ ptp_delay = delays
            /\ delay_cost + delta.delay = Total(DelaysAt(loc))
=============================================================================
