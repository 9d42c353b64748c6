-------------------------- MODULE MCChannelSearch ---------------------------
(***************************************************************************)
(* Blocks of up to seven pins and channels of up to twelve tracks, so that *)
(* the search halves and doubles at least once from every start; one       *)
(* option set per run of the program.                                      *)
(***************************************************************************)
EXTENDS ChannelSearch

Setup(pins, unidir, Fs, verify, router, fixed, auto) ==
    [pins |-> pins, unidir |-> unidir, Fs |-> Fs, verify |-> verify,
     router |-> router, fixed |-> fixed, auto |-> auto]

(* Searches with either router, without and with a block type whose        *)
(* equivalent pins are detected; Fs = 4 is refused in bidirectional mode,  *)
(* and with Fs = 9 and two pins the search stops before its first attempt. *)
(* Then single attempts at a fixed width.                                  *)
MCSetups ==
    {Setup(p, u, 3, v, "breadth_first", 0, FALSE) : p \in 1 .. 7, u \in BOOLEAN, v \in BOOLEAN}
    \cup {Setup(p, u, 3, v, "timing_driven", 0, FALSE) :
              p \in {3, 6}, u \in BOOLEAN, v \in BOOLEAN}
    \cup {Setup(3, u, 3, TRUE, r, 0, TRUE) :
              u \in BOOLEAN, r \in {"breadth_first", "timing_driven"}}
    \cup {Setup(3, FALSE, 4, FALSE, "breadth_first", 0, FALSE),
          Setup(2, TRUE, 9, TRUE, "breadth_first", 0, FALSE)}
    \cup {Setup(3, u, 3, FALSE, "timing_driven", w, FALSE) : u \in BOOLEAN, w \in 3 .. 4}
=============================================================================
