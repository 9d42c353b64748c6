----------------------------- MODULE MCPbRouter -----------------------------
(***************************************************************************)
(* A small complex block.  Net 1 starts at the pin a and ends at the sinks *)
(* s1 and s2; net 2 has two sources b1 and b2 and the sinks t1 and t2.     *)
(* Both nets prefer the cheap pin m1; m2 and m3 are ways around it.  The   *)
(* optional edges give graphs that can be routed at once, only after the   *)
(* nets have negotiated, or not at all.                                    *)
(***************************************************************************)
EXTENDS PbRouter

MCNetSources == <<<<"a">>, <<"b1", "b2">>>>
MCNetSinks   == <<<<"s1", "s2">>, <<"t1", "t2">>>>
MCVirtual    == <<"v1", "v2">>

MCIntrinsic == [n \in Nodes |-> IF n = "m2" THEN 2 ELSE IF n = "m3" THEN 4 ELSE 1]

Fixed == {<<"a", "m1">>, <<"b1", "m1">>, <<"m1", "s1">>, <<"m1", "t1">>,
          <<"a", "m2">>, <<"m2", "s2">>, <<"m3", "t1">>, <<"m3", "t2">>}
Optional == {<<"m2", "s1">>, <<"m1", "s2">>, <<"b2", "m3">>, <<"m1", "t2">>}
MCGraphs == {Fixed \cup X : X \in SUBSET Optional}
=============================================================================
