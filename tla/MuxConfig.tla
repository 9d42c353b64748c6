------------------------------ MODULE MuxConfig ------------------------------
(***************************************************************************)
(* Multiplexers and look-up tables of the generated FPGA, seen twice.       *)
(*                                                                         *)
(*   - Decode and LutBits are what the bitstream generator computes: the    *)
(*     memory bits that make a multiplexer pass one input, and that make a  *)
(*     look-up table (LUT) compute a cover                                  *)
(*     (fpga_x2p/base/fpga_x2p_mux_utils.c and fpga_x2p_lut_utils.c);       *)
(*   - Passes and LutOutput are what the generated netlist does with the    *)
(*     bits: which input a tree, one-level or two-level network of basis    *)
(*     multiplexers connects to its output                                  *)
(*     (fpga_x2p/verilog/verilog_submodules.c).                             *)
(*                                                                         *)
(* The two are written by different files of the program, which agree only  *)
(* on the way inputs are laid out over the levels (Arch, InputAt).  Only    *)
(* the CMOS circuits are modelled.  A multiplexer model is a record         *)
(* [structure, levels, const]: levels is mux_num_level of the architecture  *)
(* and const add_const_input, one more input tied to a constant.            *)
(***************************************************************************)
EXTENDS Integers, Sequences, FiniteSets

Tree == "tree"
OneLevel == "one_level"
MultiLevel == "multi_level"

\* A path that stands for "this multiplexer is unused" (DEFAULT_PATH_ID).
DefaultPath == -1

\* What a network passes when no single input reaches its output.
NoInput == -2

CeilDiv(a, b) == (a + b - 1) \div b

Least(S) == CHOOSE x \in S : \A y \in S : x <= y

\* The powers of a base b, from b to the 0: pow of the C library.
Power(b) ==
  LET times == [x \in Nat |-> b * x]
      power[w \in Nat] == IF w = 0 THEN 1 ELSE times[power[w - 1]]
  IN power

---------------------------------------------------------------------------
(* The layout of a multiplexer's inputs, which both sides use. *)

\* All inputs, the constant one included.
Full(m, size) == IF m.const THEN size + 1 ELSE size

\* Levels of a tree with n inputs.
TreeLevel(n) == Least({l \in 1..n : Power(2)[l] >= n})

\* Inputs of one basis multiplexer in a network of L levels.
Basis(n, L) ==
  IF n = 2 \/ L = 1 THEN n ELSE Least({b \in 2..n : Power(b)[L] >= n})

\* Inputs that enter a tree at its deepest level; the others enter one
\* level nearer to the output.
TreeLast(L, n) == IF Power(2)[L] > n THEN 2 * (n - Power(2)[L - 1]) ELSE n

\* The same for L levels of basis b: whole basis multiplexers first, and at
\* most one special one with fewer inputs.
MultiLast(L, b, n) ==
  LET whole == n \div b
      rest == n % b
      room == Power(b)[L - 1] - whole
      special == IF rest = room THEN 0 ELSE IF room = 1 THEN rest ELSE rest - 1
  IN IF n = 2 \/ rest = 0 THEN n ELSE special + whole * b

\* The program's assertions about that layout; some sizes of three and more
\* levels fail them and the generators stop.
LayoutHolds(L, b, n) ==
  LET room == Power(b)[L - 1] - n \div b
  IN n = 2 \/ n % b = 0 \/ ((n % b) - room \in 0..(b - 1) /\ room >= 1)

Levels(m, n) ==
  CASE m.structure = Tree -> TreeLevel(n)
    [] m.structure = OneLevel -> 1
    [] m.structure = MultiLevel -> IF n = 2 THEN 1 ELSE m.levels

\* The layout of a network with n inputs.
Arch(m, n) ==
  LET L == Levels(m, n)
      b == CASE m.structure = Tree -> 2
             [] m.structure = OneLevel -> n
             [] m.structure = MultiLevel -> Basis(n, L)
  IN [structure |-> m.structure, n |-> n, level |-> L, basis |-> b,
      last |-> CASE m.structure = Tree -> TreeLast(L, n)
                 [] m.structure = OneLevel -> n
                 [] m.structure = MultiLevel -> MultiLast(L, b, n)]

\* The wire <<level, offset>> input i (from 0) is tied to.
InputAt(a, i) ==
  IF i < a.last THEN <<a.level, i>>
  ELSE <<a.level - 1, CeilDiv(a.last, a.basis) + (i - a.last)>>

\* Wires of a level that the netlist declares and drives basis inputs from.
Wires(a, l) ==
  LET all == Power(a.basis)[l] IN IF l = a.level /\ a.last < all THEN a.last ELSE all

\* Inputs of the special basis multiplexer, 0 when there is none.
SpecialBasis(a) ==
  IF a.structure # MultiLevel THEN 0
  ELSE Cardinality({i \in (a.n - (a.n % a.basis))..(a.n - 1) :
                      InputAt(a, i)[1] = a.level})

---------------------------------------------------------------------------
(* The bitstream side: bits, from 0, that make the network pass a path. *)

DecodeOneLevel(n, path) == [k \in 0..(n - 1) |-> IF k = path THEN 1 ELSE 0]

\* The level at which the decoder believes the path enters, and its position
\* among the wires of that level.
Entry(L, b, n, path, direct) ==
  IF direct THEN [level |-> L, pos |-> path]
  ELSE [level |-> L - 1, pos |-> Power(b)[L - 1] - (n - path)]

DecodeMultiLate(L, n, path) ==   \* mutant: the tree's test of the level
  LET b == Basis(n, L)
      last == MultiLast(L, b, n)
      e == Entry(L, b, n, path, ~(last < n /\ path > last))
      Digit(i) == (e.pos \div Power(b)[i + e.level - L]) % b
      Set(k) == LET i == L - 1 - (k \div b)
                IN i >= L - e.level /\ k % b = Digit(i)
  IN [k \in 0..(b * L - 1) |-> IF Set(k) THEN 1 ELSE 0]

\* One digit of the position, base b, for each level, one-hot; the most
\* significant digit has the first b bits.
DecodeMulti(L, n, path) ==
  LET b == Basis(n, L)
      last == MultiLast(L, b, n)
      e == Entry(L, b, n, path, ~(last < n /\ path > last - 1))
      Digit(i) == (e.pos \div Power(b)[i + e.level - L]) % b
      Set(k) == LET i == L - 1 - (k \div b)
                IN i >= L - e.level /\ k % b = Digit(i)
  IN [k \in 0..(b * L - 1) |-> IF Set(k) THEN 1 ELSE 0]

\* One bit for each level, 1 for the upper half; the last bit is that of the
\* basis multiplexer at the output.
DecodeTree(L, n, path) ==
  LET last == TreeLast(L, n)
      e == Entry(L, 2, n, path, ~(last < n /\ path > last))
      Upper(i) == (e.pos \div Power(2)[i + e.level - L]) % 2 = 0
  IN [i \in 0..(L - 1) |-> IF i >= L - e.level /\ Upper(i) THEN 1 ELSE 0]

\* The input an unused multiplexer is set to.
DefaultInput(m, size) == IF m.const THEN size ELSE 0

\* The input of the network a path stands for.
InputOf(m, size, path) == IF path = DefaultPath THEN DefaultInput(m, size) ELSE path

\* The bits of a multiplexer of `size` data inputs, from bit 0.
Decode(m, size, path) ==
  LET n == Full(m, size)
      input == InputOf(m, size, path)
  IN CASE n = 2 -> DecodeTree(1, n, input)
       [] n # 2 /\ m.structure = Tree -> DecodeTree(TreeLevel(n), n, input)
       [] n # 2 /\ m.structure = OneLevel -> DecodeOneLevel(n, input)
       [] n # 2 /\ m.structure = MultiLevel /\ m.levels = 1 ->
            DecodeOneLevel(n, input)
       [] n # 2 /\ m.structure = MultiLevel /\ m.levels > 1 ->
            DecodeMulti(m.levels, n, input)

SramBitsNoConst(m, size) ==      \* mutant: the constant input is not counted
  CASE size = 2 -> 1
    [] size # 2 /\ m.structure = Tree -> TreeLevel(size)
    [] size # 2 /\ m.structure = OneLevel -> size
    [] size # 2 /\ m.structure = MultiLevel -> Basis(size, m.levels) * m.levels

\* Memory bits of a multiplexer as the bitstream generator counts them, and
\* below as the netlist generator does.
SramBits(m, size) ==
  LET n == Full(m, size)
  IN CASE n = 2 -> 1
       [] n # 2 /\ m.structure = Tree -> TreeLevel(n)
       [] n # 2 /\ m.structure = OneLevel -> n
       [] n # 2 /\ m.structure = MultiLevel -> Basis(n, m.levels) * m.levels

ConfBits(m, size) ==
  LET n == Full(m, size)
  IN CASE n = 2 -> 1
       [] n # 2 /\ m.structure = Tree -> TreeLevel(n)
       [] n # 2 /\ m.structure = OneLevel -> n
       [] n # 2 /\ m.structure = MultiLevel -> Basis(n, m.levels) * m.levels

---------------------------------------------------------------------------
(* The netlist side: what the network passes when its bits are `sram`. *)

\* Memory bits of a basis multiplexer with q inputs.
BasisBits(structure, q, special) ==
  IF special THEN q
  ELSE IF structure = Tree \/ (structure = OneLevel /\ q = 2) THEN 1
  ELSE q

\* The inputs a basis multiplexer of q inputs lets through under its bits
\* mem[0..]: with one bit, 1 selects input 0; otherwise exactly one bit must
\* be set.
Selected(q, bits, mem) ==
  IF bits = 1 THEN {IF mem[0] = 1 THEN 0 ELSE 1}
  ELSE LET on == {k \in 0..(bits - 1) : mem[k] = 1}
       IN IF Cardinality(on) = 1 /\ on \subseteq 0..(q - 1) THEN on ELSE {}

\* The first memory bit of a level's basis multiplexers.
FirstBit(a, l) ==
  CASE a.structure = Tree -> a.level - (l + 1)
    [] a.structure = OneLevel -> 0
    [] a.structure = MultiLevel -> l * a.basis

\* The wires of level l + 1 that the basis multiplexer driving wire
\* <<l, o>> can connect to it: none when no multiplexer was placed there.
Connected(a, sram, l, o) ==
  LET first == o * a.basis
      fits == first + a.basis <= Wires(a, l + 1)
      q == IF fits THEN a.basis ELSE SpecialBasis(a)
      bits == BasisBits(a.structure, q, ~fits)
  IN IF first >= Wires(a, l + 1) \/ q = 0 THEN {}
     ELSE {first + k : k \in Selected(q, bits, [k \in 0..(bits - 1) |-> sram[FirstBit(a, l) + k]])}

\* The input that reaches the output wire <<0, 0>> of a network.  A wire
\* takes its value from an input tied to it or from the basis multiplexer
\* that drives it; two drivers, or none, give no input.
Network(a, sram) ==
  LET at[w \in (0..a.level) \X Nat] ==
        LET tied == {i \in 0..(a.n - 1) : InputAt(a, i) = w}
            fed == IF w[1] = a.level THEN {} ELSE Connected(a, sram, w[1], w[2])
            source == tied \cup {at[<<w[1] + 1, p>>] : p \in fed}
        IN IF Cardinality(source) = 1 THEN CHOOSE s \in source : TRUE ELSE NoInput
  IN at[<<0, 0>>]

\* A multiplexer of the netlist: two inputs always make one one-level basis.
Passes(m, size, sram) ==
  LET n == Full(m, size)
  IN Network(Arch(IF n = 2 THEN [m EXCEPT !.structure = OneLevel] ELSE m, n), sram)

---------------------------------------------------------------------------
(* Look-up tables.  A line of a cover is [ins, out]: ins a sequence over    *)
(* 0, 1 and Dash, no longer than the LUT has inputs.                        *)

Dash == 2

\* Inputs beyond the line's own are don't-cares, added at the back.
CompleteLine(k, ins) ==
  [i \in 1..k |-> IF i <= Len(ins) THEN ins[i] ELSE Dash]

\* The bits a completed line sets: input i at 0 weighs 2^i (inputs from 0).
LineBits(k, ins) ==
  LET full == CompleteLine(k, ins)
      Matches(j) == \A i \in 1..k :
                      full[i] # Dash => (j \div Power(2)[i - 1]) % 2 = 1 - full[i]
  IN {j \in 0..(Power(2)[k] - 1) : Matches(j)}

\* The value of the bits no line sets.
BaseBit(table, default) ==
  IF table = <<>> THEN default
  ELSE IF \E t \in DOMAIN table : table[t].out = 1 THEN 0 ELSE 1

\* The memory bits of a LUT; a later line overwrites an earlier one.
LutBits(k, table, default) ==
  [j \in 0..(Power(2)[k] - 1) |->
     LET hits == {t \in DOMAIN table : j \in LineBits(k, table[t].ins)}
     IN IF hits = {} THEN BaseBit(table, default)
        ELSE table[CHOOSE t \in hits : \A u \in hits : u <= t].out]

\* The netlist's LUT: a tree of 2^k inputs whose data are the memory bits and
\* whose select bits are the LUT's inputs.
LutOutput(k, sram, ins) ==
  sram[Network(Arch([structure |-> Tree, levels |-> k, const |-> FALSE], Power(2)[k]), ins)]
=============================================================================
