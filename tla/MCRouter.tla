------------------------------ MODULE MCRouter ------------------------------
(***************************************************************************)
(* Three nets.  Net 1 leaves block A by one of the equivalent pins a1 and  *)
(* a2, another of which A reserves, and needs two input pins of S; net 2   *)
(* leaves B for S and T; net 3 is global.  The wires x and z run across, y *)
(* runs up.  The optional edges give graphs that can be routed at once,    *)
(* only after the nets have negotiated, or not at all.                     *)
(***************************************************************************)
EXTENDS Router

MCType == [n \in Nodes |->
    CASE n \in {"A", "B"}        -> "SOURCE"
      [] n \in {"a1", "a2", "b"} -> "OPIN"
      [] n \in {"x", "z"}        -> "CHANX"
      [] n = "y"                 -> "CHANY"
      [] n \in {"S", "T"}        -> "SINK"
      [] OTHER                   -> "IPIN"]
MCCapacity == [n \in Nodes |-> IF n = "S" THEN 3 ELSE IF n = "A" THEN 2 ELSE 1]
MCBaseCost == [n \in Nodes |-> IF n \in {"S", "T"} THEN 0 ELSE 1]

MCTerminals == <<<<"A", "S", "S">>, <<"B", "S", "T">>, <<"B", "T">>>>
MCBox == <<Nodes \ {"t", "T"}, Nodes, Nodes>>
MCClasses == <<[source |-> "A", nelem |-> 1]>>
MCBends == {<<"x", "y">>, <<"y", "x">>, <<"z", "y">>, <<"y", "z">>}

Fixed == {<<"A", "a1">>, <<"A", "a2">>, <<"B", "b">>, <<"a1", "x">>, <<"a2", "z">>,
          <<"b", "y">>, <<"y", "t">>, <<"t", "T">>, <<"x", "p1">>, <<"y", "p3">>,
          <<"p1", "S">>, <<"p2", "S">>, <<"p3", "S">>}
Optional == {<<"x", "p2">>, <<"a1", "y">>, <<"z", "p2">>, <<"b", "x">>}
MCGraphs == {Fixed \cup X : X \in SUBSET Optional}
=============================================================================
