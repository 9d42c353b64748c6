------------------------------ MODULE MCPlacer ------------------------------
(***************************************************************************)
(* An array of logic blocks two columns wide, in a ring of pads: one pad   *)
(* (1), a vertical chain of two blocks (3, 4) and two single blocks (2, 5).*)
(* A large net has two pins on block 4 and may have a driver and sinks     *)
(* that move in one swap; two small nets join a chain, a block and pads.   *)
(***************************************************************************)
EXTENDS PlacerCosts

MCCellType  == [c \in Cells |-> IF c \in Ring THEN 1 ELSE 2]
MCOffset    == [c \in Cells |-> 0]
Rank(s)     == 100 * s[1] + 10 * s[2] + s[3]
MCLegalPos  ==
    [t \in Types |->
        [i \in 1 .. Cardinality(LegalSites(t)) |->
            CHOOSE s \in LegalSites(t) :
                Cardinality({r \in LegalSites(t) : Rank(r) < Rank(s)}) = i - 1]]
MCBlockType == [b \in Blocks |-> IF b = 1 THEN 1 ELSE 2]
MCMacros    == <<<<[blk |-> 3, offset |-> <<0, 0, 0>>],
                   [blk |-> 4, offset |-> <<0, 1, 0>>]>>>>
MCPadFile   == <<[blk |-> 1, site |-> <<0, 1, IoCapacity - 1>>]>>

Pin(b)      == [blk |-> b, height |-> 0]
MCNetPins   == <<<<Pin(5), Pin(3), Pin(4), Pin(4), Pin(1), Pin(2)>>,
                 <<Pin(1), Pin(5), Pin(3)>>, <<Pin(4), Pin(2)>>>>
MCCrossing  == <<2, 1, 1>>
(* A pad adds a delay of its own.                                          *)
MCDelay     == [s \in Kinds |-> [t \in Kinds |-> [x \in 0 .. NX + 1 |-> [y \in 0 .. NY + 1 |->
                   x + 2 * y + (IF s = "io" THEN 1 ELSE 0) + (IF t = "io" THEN 3 ELSE 0)]]]]
MCCriticalities == {[c \in Conns |-> 1],
                    [c \in Conns |-> IF c[1] = 1 /\ c[2] > 3 THEN 0 ELSE 2]}
=============================================================================
