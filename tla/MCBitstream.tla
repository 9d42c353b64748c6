----------------------------- MODULE MCBitstream -----------------------------
(* Multiplexers of every structure up to eleven inputs with every path, and  *)
(* LUTs of up to three inputs; alone and in pairs.                           *)
EXTENDS Bitstream

Model(structure, levels, const) ==
  [structure |-> structure, levels |-> levels, const |-> const]

Models == {Model(Tree, 1, c) : c \in BOOLEAN} \cup {Model(OneLevel, 1, c) : c \in BOOLEAN}
            \cup {Model(MultiLevel, l, c) : l \in {2, 3}, c \in BOOLEAN}

Muxes(sizes) ==
  {[kind |-> "mux", model |-> m, size |-> s, path |-> p] :
     m \in Models, s \in sizes, p \in DefaultPath..10}

Line(ins, out) == [ins |-> ins, out |-> out]

Ins(k) == UNION {[1..n -> {0, 1, Dash}] : n \in 0..k}

\* Covers of one and of two lines; all lines of a cover have one output.
Covers(k) ==
  {<<>>} \cup {<<Line(a, o)>> : a \in Ins(k), o \in {0, 1}}
    \cup {<<Line(a, o), Line(b, o)>> : a \in Ins(k), b \in Ins(k), o \in {0, 1}}

Luts(k, covers) ==
  {[kind |-> "lut", k |-> k, table |-> t, default |-> d] : t \in covers, d \in {0, 1}}

Small == {e \in Muxes({2, 3}) : IsCircuit(e) /\ e.path \in {DefaultPath, 1, 2}}
           \cup {e \in Luts(2, {<<>>, <<Line(<<0, 1>>, 1)>>, <<Line(<<1>>, 0)>>}) : e.default = 0}

Alone == {e \in Muxes({2, 3, 5, 6, 7, 8, 10, 11}) : IsCircuit(e)}
           \cup {e \in Luts(1, Covers(1)) \cup Luts(2, Covers(2)) : e.default = 0 \/ e.table = <<>>}
           \cup {e \in Luts(3, {<<Line(<<0, Dash, 1>>, 1), Line(<<Dash, 1>>, 1)>>}) : e.default = 0}

\* A single cell is no memory bank: its decoders would have no address bit.
MCDesigns ==
  {<<e>> : e \in {x \in Alone : NetlistBits(x) > 1}}
    \cup {<<a, b>> : a \in Small, b \in Small}

\* Every circuit of these designs is entered where it is decoded.
ASSUME Entered == \A d \in MCDesigns : \A c \in DOMAIN d : EntersAsDecoded(d[c])

\* A multiplexer of 114 inputs in three levels passes the program's assertions
\* and yet nothing reaches its output when it is set to its last input.
Deep == [kind |-> "mux", model |-> Model(MultiLevel, 3, FALSE), size |-> 114, path |-> 113]

ASSUME DeepIsLost ==
  IsCircuit(Deep) /\ ~EntersAsDecoded(Deep) /\ Passes(Deep.model, Deep.size, BitsOf(Deep)) = NoInput
=============================================================================
