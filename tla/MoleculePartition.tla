------------------------- MODULE MoleculePartition -------------------------
(***************************************************************************)
(* What packing promises to the placer: the logical blocks are divided     *)
(* into complex blocks one complex block at a time.  A molecule goes into  *)
(* one complex block as a whole, a finished complex block never changes,   *)
(* and packing succeeds only when no molecule is left.                     *)
(***************************************************************************)
EXTENDS Naturals, Sequences

CONSTANT Molecules

VARIABLES
    left,       \* molecules that are in no finished complex block
    blocks,     \* sequence of finished complex blocks, each a set of molecules
    outcome     \* "packing", "packed", or "failed"

partVars == <<left, blocks, outcome>>

PartInit == left = Molecules /\ blocks = <<>> /\ outcome = "packing"

Finish(S) ==
    /\ outcome = "packing"
    /\ S # {}
    /\ left' = left \ S
    /\ blocks' = Append(blocks, S)
    /\ UNCHANGED outcome

Succeed == outcome = "packing" /\ left = {} /\ outcome' = "packed" /\ UNCHANGED <<left, blocks>>
Fail    == outcome = "packing" /\ outcome' = "failed" /\ UNCHANGED <<left, blocks>>

PartNext == (\E S \in SUBSET left : Finish(S)) \/ Succeed \/ Fail

PartSpec == PartInit /\ [][PartNext]_partVars
=============================================================================
