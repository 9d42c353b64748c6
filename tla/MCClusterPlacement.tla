------------------------- MODULE MCClusterPlacement -------------------------
(***************************************************************************)
(* A complex block with two modes.  Mode "lut" holds a LUT l1 and an       *)
(* element ble that is either a LUT and a flip-flop (l2, f1) or one large  *)
(* LUT g1; mode "mem" holds the large LUT g2.  Three molecules: a block    *)
(* that fits any LUT, a LUT/flip-flop pattern, a block for small LUTs      *)
(* whose site l1 has a forced connection.                                  *)
(***************************************************************************)
EXTENDS ClusterPlacement, TLC

MCPbTypeOf  == "l1" :> "L" @@ "l2" :> "L" @@ "f1" :> "F" @@ "g1" :> "G" @@ "g2" :> "G"
MCLineage   == "l1" :> {<<"clb", "lut">>}
            @@ "l2" :> {<<"clb", "lut">>, <<"ble", "pair">>}
            @@ "f1" :> {<<"clb", "lut">>, <<"ble", "pair">>}
            @@ "g1" :> {<<"clb", "lut">>, <<"ble", "large">>}
            @@ "g2" :> {<<"clb", "mem">>}
MCRootTypes == "any" :> {"L", "G"} @@ "pair" :> {"L"} @@ "small" :> {"L"}

(* The flip-flop of the pattern is asked about as well as its LUT.         *)
MCBlockTypes == "any" :> {{"L", "G"}} @@ "pair" :> {{"L"}, {"F"}} @@ "small" :> {{"L"}}

MCPlacementAt ==
    "any"   :> [p \in Primitives |-> IF p = "f1" THEN {} ELSE {p}]
 @@ "pair"  :> [p \in Primitives |-> IF p = "l2" THEN {"l2", "f1"} ELSE {}]
 @@ "small" :> [p \in Primitives |-> IF p \in {"l1", "l2"} THEN {p} ELSE {}]

MCForced   == "any" :> {} @@ "pair" :> {} @@ "small" :> {"l1"}
MCBaseCost == [p \in Primitives |-> IF p \in {"g1", "g2"} THEN 20 ELSE 10]

(* The fewer levels up to the common ancestor, the larger the reduction.   *)
MCNearness == [p \in Primitives |-> [q \in Primitives |->
    IF Cardinality(Lineage[p]) = Cardinality(Lineage[p] \cap Lineage[q]) THEN 10 ELSE 1]]
=============================================================================
