---------------------------- MODULE MCClusterer ----------------------------
(***************************************************************************)
(* A pad with one site p; a logic block with three modes; a memory with    *)
(* one site q.  Mode 1 of the logic block has two elements with modes of   *)
(* their own: e1 is a LUT l1 and a flip-flop f1, or a fracturable LUT k1;  *)
(* e2 is l2 and f2, or a LUT k2 in a mode disabled in packing.  Mode 2 is  *)
(* one memory cell r.  Mode 3 is disabled: its element e3 has an enabled   *)
(* mode with a cell m3.                                                    *)
(*   Molecules: a LUT/flip-flop pair, a block that fits a LUT or the       *)
(* memory cell, a flip-flop or pad register, a LUT and a ROM.  The grid    *)
(* starts empty and grows to two blocks of each type at most.              *)
(***************************************************************************)
EXTENDS Clusterer, TLC

MCBlocksOf  == "pair" :> <<"a", "b">> @@ "any" :> <<"c">> @@ "ff" :> <<"d">>
            @@ "lut" :> <<"e">> @@ "rom" :> <<"g">>
MCTypeSeq   == <<"io", "lb", "mb">>
MCNumModes  == "io" :> 1 @@ "lb" :> 3 @@ "mb" :> 1
MCSiteType  == [s \in Sites |-> CASE s = "p" -> "io" [] s = "q" -> "mb" [] OTHER -> "lb"]
MCSiteMode  == [s \in Sites |-> CASE s = "r" -> 2 [] s = "m3" -> 3 [] OTHER -> 1]
MCSiteParent == [s \in Sites |-> CASE s \in {"l1", "f1", "k1"} -> "e1"
                                   [] s \in {"l2", "f2", "k2"} -> "e2"
                                   [] s = "m3" -> "e3"
                                   [] OTHER -> Top]
MCInnerMode == [s \in Sites |-> IF s \in {"k1", "k2"} THEN 2 ELSE 1]
MCPlacements == "pair" :> {<<"l1", "f1">>, <<"l2", "f2">>}
             @@ "any" :> {<<"l2">>, <<"k1">>, <<"r">>}
             @@ "ff" :> {<<"f1">>, <<"f2">>, <<"p">>}
             @@ "lut" :> {<<"l1">>, <<"k2">>} @@ "rom" :> {<<"m3">>, <<"q">>}
MCExtInputs == "pair" :> 2 @@ "any" :> 1 @@ "ff" :> 1 @@ "lut" :> 2 @@ "rom" :> 1
MCCritOrders == {<<"b", "d", "g", "c", "a", "e">>, <<"e", "c", "a", "b", "d", "g">>}
MCInstances == [n \in 0 .. MaxSize |-> [t \in {"io", "lb", "mb"} |-> n]]
MCLowNets   == {{"a", "c"}, {"d", "e"}}
MCHighNets  == {{"b", "d"}, {"a", "b", "c"}}
=============================================================================
