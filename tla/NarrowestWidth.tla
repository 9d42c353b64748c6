--------------------------- MODULE NarrowestWidth ---------------------------
(***************************************************************************)
(* What a search for the channel width promises: it tries widths one by    *)
(* one, learns which of them route, and if it answers at all its answer is *)
(* the narrowest width it ever saw route.                                  *)
(***************************************************************************)
EXTENDS Integers

CONSTANT Widths

VARIABLES routed, rejected, answer

NoAnswer == -1

NarrowInit == routed = {} /\ rejected = {} /\ answer = NoAnswer

Learn ==
    /\ answer = NoAnswer
    /\ \E w \in Widths :
           \/ w \notin rejected /\ routed' = routed \cup {w} /\ UNCHANGED rejected
           \/ w \notin routed /\ rejected' = rejected \cup {w} /\ UNCHANGED routed
    /\ UNCHANGED answer

Answer ==
    /\ answer = NoAnswer
    /\ answer' \in routed
    /\ \A w \in routed : answer' <= w
    /\ UNCHANGED <<routed, rejected>>

NarrowNext == Learn \/ Answer

NarrowSpec == NarrowInit /\ [][NarrowNext]_<<routed, rejected, answer>>
=============================================================================
