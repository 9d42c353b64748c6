--------------------------- MODULE ChannelSearch ----------------------------
(***************************************************************************)
(* place_and_route and binary_search_place_and_route                       *)
(* (base/place_and_route.c): routing at a given channel width, or the      *)
(* search for the smallest width that routes, with what it keeps of the    *)
(* best routing on the way (save_routing and restore_routing,              *)
(* route/route_common.c).                                                  *)
(*                                                                         *)
(* A call of try_route is one step.  Whether a width routes is chosen at   *)
(* the first try and remembered: the placement is made once (no option     *)
(* sets PLACE_ALWAYS) and the router is deterministic, but nothing says    *)
(* that a wider channel is easier.  A traceback is named by the attempt    *)
(* that made it; a list of reserved OPINs by its length and the attempt    *)
(* that filled it, 0 while it is as malloc left it.  The lists are those   *)
(* of one class of one block type, which may be one whose equivalent pins  *)
(* are detected (output_ports_eq_auto_detect); pads have no such lists.    *)
(* Fc_clipped is left out: try_route never sets it.                        *)
(***************************************************************************)
EXTENDS Integers, FiniteSets

CONSTANTS
    Setups,         \* architectures and options to start from
    MaxWidth,       \* a wider channel "is probably not going to route": 1000
    OutPins         \* output pins of the one class of equivalent pins

ASSUME SetupsAssumption ==
    \A s \in Setups : /\ s.pins \in Nat \ {0} /\ s.Fs \in Nat \ {0} /\ s.fixed \in Nat
                      /\ s.unidir \in BOOLEAN /\ s.verify \in BOOLEAN /\ s.auto \in BOOLEAN
                      /\ s.router \in {"breadth_first", "timing_driven"}

ASSUME WidthAssumption ==
    MaxWidth \in Nat /\ OutPins \in Nat /\ \A s \in Setups : s.fixed <= MaxWidth

VARIABLES
    setup,          \* router_opts, det_routing_arch and the block type
    phase,
    current, low, high, final,
    prev_success, prev2_success,
    outcome,        \* what try_route said of each width
    attempt,        \* attempt_count, over both loops
    chan_width,     \* the width the rr_graph was built for
    trace_head,     \* the working routing
    best_routing,   \* the saved one
    clb_opins, saved_clb_opins, \* clb_opins_used_locally and its saved copy
    channel_width   \* g_solution_inf.channel_width

bounds == <<current, low, high, final>>
verification == <<prev_success, prev2_success>>
routing == <<outcome, attempt, chan_width, trace_head, clb_opins>>
store == <<best_routing, saved_clb_opins>>
searchVars == <<setup, phase, bounds, verification, routing, store, channel_width>>

NoTrace == [attempt |-> 0, width |-> 0]
None == -1                      \* low, high and final before they are known
Junk == -1                      \* what lies beyond the end of a list
Widths == 0 .. MaxWidth         \* those try_route is called with

Multiplier(s) == IF s.unidir THEN 2 ELSE 1      \* udsd_multiplier

(* current = current + current % udsd_multiplier                           *)
Legal(w) == w + (w % Multiplier(setup))

SearchInit ==
    /\ setup \in Setups
    /\ phase = "start"
    /\ current = 0 /\ low = None /\ high = None /\ final = None
    /\ prev_success = TRUE /\ prev2_success = TRUE
    /\ outcome = [w \in Widths |-> "untried"]
    /\ attempt = 0 /\ chan_width = 0
    /\ trace_head = NoTrace /\ best_routing = NoTrace
    /\ clb_opins \in [len : 0 .. OutPins, by : {0}]     \* the unused output pins
    /\ saved_clb_opins = clb_opins
    /\ channel_width = None

-----------------------------------------------------------------------------
(* try_route.  It frees the old traceback, rebuilds the graph for width w  *)
(* and routes.  The breadth first router keeps the number of OPINs it      *)
(* reserves; the timing driven one counts the free OPINs after each        *)
(* iteration, and a failing attempt may end before the first count.  Only  *)
(* the timing driven router passes over the types of detected pins.        *)
Reservations(ok) ==
    LET lengths == IF setup.router = "breadth_first" THEN {clb_opins.len} ELSE 0 .. OutPins
        filled  == [len : lengths, by : {attempt + 1}]
    IN  IF setup.auto /\ setup.router = "timing_driven" THEN {clb_opins}
        ELSE filled \cup (IF ok THEN {} ELSE {clb_opins})

TryRoute(w, ok) ==
    LET says == IF ok THEN "routed" ELSE "failed" IN
    /\ outcome[w] \in {"untried", says}
    /\ outcome' = [outcome EXCEPT ![w] = says]
    /\ attempt' = attempt + 1
    /\ chan_width' = w
    /\ clb_opins' \in Reservations(ok)

Trace(w) == [attempt |-> attempt + 1, width |-> w]

(* save_routing: the working routing becomes the saved one and is          *)
(* forgotten, so that the next attempt does not free it.  The OPINs of     *)
(* types of detected pins are not saved.                                   *)
SaveRouting(w) ==
    /\ best_routing' = Trace(w)
    /\ trace_head' = NoTrace
    /\ saved_clb_opins' = IF setup.auto THEN saved_clb_opins ELSE clb_opins'

LeaveRouting(w) == trace_head' = Trace(w) /\ UNCHANGED store

-----------------------------------------------------------------------------
(* A fixed channel width: one attempt, whose routing is kept even when it  *)
(* is illegal.                                                             *)
FixedOddWidth ==
    /\ phase = "start" /\ setup.fixed # 0
    /\ setup.unidir /\ setup.fixed % 2 # 0
    /\ channel_width' = setup.fixed
    /\ phase' = "aborted"
    /\ UNCHANGED <<setup, bounds, verification, routing, store>>

RouteFixedWidth ==
    /\ phase = "start" /\ setup.fixed # 0
    /\ ~(setup.unidir /\ setup.fixed % 2 # 0)
    /\ channel_width' = setup.fixed
    /\ \E ok \in BOOLEAN :
           /\ TryRoute(setup.fixed, ok)
           /\ phase' = IF ok THEN "done" ELSE "unroutable"
    /\ LeaveRouting(setup.fixed)
    /\ UNCHANGED <<setup, bounds, verification>>

(* The search starts at the pins of the widest block, rounded up to even.  *)
StartSearch ==
    /\ phase = "start" /\ setup.fixed = 0
    /\ current' = setup.pins + (setup.pins % 2)
    /\ phase' = IF ~setup.unidir /\ setup.Fs % 3 # 0 THEN "aborted" ELSE "search"
    /\ UNCHANGED <<setup, low, high, final, verification, routing, store, channel_width>>

TooWide ==
    /\ phase = "search" /\ final = None
    /\ current > MaxWidth
    /\ phase' = "aborted"
    /\ UNCHANGED <<setup, bounds, verification, routing, store, channel_width>>

BelowFs == current * 3 < setup.Fs

(* Mutant: the loop goes on instead of ending.                             *)
StopBelowFsContinues ==
    /\ phase = "search" /\ final = None
    /\ current <= MaxWidth /\ BelowFs
    /\ UNCHANGED searchVars

StopBelowFs ==
    /\ phase = "search" /\ final = None
    /\ current <= MaxWidth /\ BelowFs
    /\ final' = high
    /\ phase' = "searched"
    /\ UNCHANGED <<setup, current, low, high, verification, routing, store, channel_width>>

(* The bracket low .. high after an attempt: it is closed when no width is *)
(* left between, or when the width that routed before routed again.        *)
Closes(lo, hi) == hi - lo <= Multiplier(setup)

WidthRoutes ==
    /\ phase = "search" /\ final = None
    /\ current <= MaxWidth /\ ~BelowFs
    /\ TryRoute(current, TRUE)
    /\ SaveRouting(current)
    /\ high' = current
    /\ final' = IF current = high \/ Closes(low, current) THEN current ELSE None
    /\ current' = Legal(IF low # None THEN (current + low) \div 2 ELSE current \div 2)
    /\ UNCHANGED <<setup, phase, low, verification, channel_width>>

WidthFails ==
    /\ phase = "search" /\ final = None
    /\ current <= MaxWidth /\ ~BelowFs
    /\ TryRoute(current, FALSE)
    /\ LeaveRouting(current)
    /\ low' = current
    /\ final' = IF high # None /\ Closes(current, high) THEN high ELSE None
    /\ current' = Legal(IF high # None THEN (high + current) \div 2 ELSE current * 2)
    /\ UNCHANGED <<setup, phase, high, verification, channel_width>>

SearchEnded ==
    /\ phase = "search" /\ final # None
    /\ phase' = "searched"
    /\ UNCHANGED <<setup, bounds, verification, routing, store, channel_width>>

-----------------------------------------------------------------------------
(* The verification tries ever smaller widths until two in a row fail.     *)
StartVerify ==
    /\ phase = "searched" /\ setup.verify
    /\ prev_success' = TRUE /\ prev2_success' = TRUE
    /\ current' = final - 2
    /\ phase' = "verify"
    /\ UNCHANGED <<setup, low, high, final, routing, store, channel_width>>

(* Mutant: the first failure ends the verification.                        *)
VerifyingOnce ==
    phase = "verify" /\ prev2_success /\ prev_success /\ current >= 1

Verifying == phase = "verify" /\ (prev2_success \/ prev_success) /\ current >= 1

(* Mutant: a narrower width that routes is saved but not recorded.         *)
VerifyWidthForgets ==
    /\ Verifying
    /\ \E ok \in BOOLEAN :
           /\ TryRoute(current, ok)
           /\ IF ok THEN SaveRouting(current) ELSE LeaveRouting(current)
           /\ prev_success' = ok
    /\ prev2_success' = prev_success
    /\ current' = current - Multiplier(setup)
    /\ UNCHANGED <<setup, phase, low, high, final, channel_width>>

VerifyWidth ==
    /\ Verifying
    /\ \E ok \in BOOLEAN :
           /\ TryRoute(current, ok)
           /\ IF ok THEN SaveRouting(current) ELSE LeaveRouting(current)
           /\ final' = IF ok THEN current ELSE final
           /\ prev_success' = ok
    /\ prev2_success' = prev_success
    /\ current' = current - Multiplier(setup)
    /\ UNCHANGED <<setup, phase, low, high, channel_width>>

(* The graph is built again for the final width and the saved routing put  *)
(* back.  restore_routing copies as many OPINs as the last attempt         *)
(* reserved, not as many as were saved, and passes over no type: what was  *)
(* never saved is copied back too.                                         *)
RestoreRouting ==
    /\ trace_head' = best_routing
    /\ best_routing' = NoTrace
    /\ clb_opins' = [clb_opins EXCEPT !.by =
                         IF clb_opins.len <= saved_clb_opins.len THEN saved_clb_opins.by ELSE Junk]
    /\ UNCHANGED saved_clb_opins

(* Mutant: the graph of the last attempt is kept.                          *)
RestoreOnOldGraph ==
    /\ \/ phase = "searched" /\ ~setup.verify
       \/ phase = "verify" /\ ~Verifying
    /\ RestoreRouting
    /\ phase' = IF trace_head'.width = 0 THEN "aborted" ELSE "done"
    /\ channel_width' = IF phase' = "done" THEN final ELSE channel_width
    /\ UNCHANGED <<setup, bounds, verification, outcome, attempt, chan_width>>

(* check_route exits when a net has no routing, and may exit on a junk     *)
(* OPIN; it does not look at those of types of detected pins, whose list   *)
(* keeps its length.                                                       *)
Restore ==
    /\ \/ phase = "searched" /\ ~setup.verify
       \/ phase = "verify" /\ ~Verifying
    /\ chan_width' = IF final = None THEN 1 ELSE final
    /\ RestoreRouting
    /\ phase' \in IF trace_head'.width = 0 THEN {"aborted"}
                  ELSE IF clb_opins'.by = Junk THEN {"done", "aborted"} ELSE {"done"}
    /\ channel_width' = IF phase' = "done" THEN final ELSE channel_width
    /\ UNCHANGED <<setup, bounds, verification, outcome, attempt>>

Ended ==
    /\ phase \in {"done", "unroutable", "aborted"}
    /\ UNCHANGED searchVars

SearchNext ==
    \/ FixedOddWidth \/ RouteFixedWidth
    \/ StartSearch \/ TooWide \/ StopBelowFs \/ WidthRoutes \/ WidthFails \/ SearchEnded
    \/ StartVerify \/ VerifyWidth \/ Restore
    \/ Ended

SearchSpec == SearchInit /\ [][SearchNext]_searchVars
SearchFairSpec == SearchSpec /\ WF_searchVars(SearchNext)       \* a sequential program does not stop

-----------------------------------------------------------------------------
Phases == {"start", "search", "searched", "verify", "done", "unroutable", "aborted"}

SearchTypeOK ==
    /\ setup \in Setups /\ phase \in Phases
    /\ current \in Int /\ low \in Widths \cup {None}
    /\ high \in Widths \cup {None} /\ final \in Widths \cup {None}
    /\ prev_success \in BOOLEAN /\ prev2_success \in BOOLEAN
    /\ outcome \in [Widths -> {"untried", "routed", "failed"}]
    /\ attempt \in Nat /\ chan_width \in Widths \cup {1}
    /\ trace_head \in [attempt : Nat, width : Widths]
    /\ best_routing \in [attempt : Nat, width : Widths]
    /\ clb_opins \in [len : 0 .. OutPins, by : Nat \cup {Junk}]
    /\ saved_clb_opins \in [len : 0 .. OutPins, by : Nat]
    /\ channel_width \in Widths \cup {None}

(* The saved routing is the one of the width that will be the answer,      *)
(* OPINs included, and the working routing never shares it: the next       *)
(* attempt frees the working one.                                          *)
SavedIsAnswer ==
    LET answer == IF final # None THEN final ELSE high IN
    phase \in {"search", "searched", "verify"} /\ answer # None =>
        /\ best_routing.width = answer
        /\ best_routing.attempt # trace_head.attempt
        /\ setup.auto \/ saved_clb_opins.by = best_routing.attempt

(* The output pins put back are those of the saved routing, and as many,   *)
(* but for types of detected pins, whose OPINs are not saved: check_route, *)
(* the only reader of the lists from there on, passes over these types.    *)
OpinsRestored ==
    phase = "done" /\ setup.fixed = 0 /\ ~setup.auto =>
        clb_opins = saved_clb_opins /\ clb_opins.by = trace_head.attempt

(* The answer never loses its routing while it is searched and verified;   *)
(* the routing put back at the end is for the graph it is put on, and both *)
(* are for the width that is returned.  The breadth first router never     *)
(* changes how many OPINs it reserves, and so gets back those saved.       *)
DoneIsConsistent ==
    /\ SearchTypeOK
    /\ SavedIsAnswer
    /\ phase = "done" => /\ trace_head.width = chan_width /\ chan_width = channel_width
                         /\ trace_head.attempt # 0
    /\ setup.router = "breadth_first" => OpinsRestored

(* "Performs a binary search to find the minimum number of tracks per      *)
(* channel": the next narrower width was tried and failed.  "Keeps trying  *)
(* smaller channel widths until two in a row fail": a verified answer has  *)
(* two failures right below it.                                            *)
NarrowerFailed ==
    phase = "done" /\ setup.fixed = 0 =>
        \A k \in 1 .. IF setup.verify THEN 2 ELSE 1 :
            LET w == channel_width - k * Multiplier(setup)
            IN  w >= 1 => outcome[w] = "failed"

(* The search ends, with an answer or without.                             *)
SearchEnds == <>(phase \in {"done", "unroutable", "aborted"})

(* What is returned is the narrowest width that was ever seen to route.    *)
Narrowest == INSTANCE NarrowestWidth WITH
    routed   <- {w \in Widths : outcome[w] = "routed"},
    rejected <- {w \in Widths : outcome[w] = "failed"},
    answer   <- IF phase = "done" /\ setup.fixed = 0 THEN channel_width ELSE None

ImplementsNarrowest == Narrowest!NarrowSpec
=============================================================================
