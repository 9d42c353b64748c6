------------------------------ MODULE Bitstream ------------------------------
(***************************************************************************)
(* The configuration of the generated FPGA, from routed design to loaded     *)
(* chip (fpga_x2p).  Three passes over the same circuits, far apart in the   *)
(* program, must agree on where every bit lives:                             *)
(*                                                                         *)
(*   netlist    the Verilog generator gives each multiplexer and LUT the     *)
(*              memory cells at its counter, then frees the counters;        *)
(*   bitstream  the bitstream generator starts new counters, decodes each    *)
(*              circuit's bits and files them under its own counter, newest  *)
(*              first;                                                       *)
(*   load       the testbench replays the list into the chip, bit by bit     *)
(*              through a scan chain or by addressed writes to a memory bank. *)
(*                                                                         *)
(* The design is the sequence of circuits in the order both generators walk  *)
(* them; each is a multiplexer with the path routing chose (or DefaultPath)  *)
(* or a LUT with the cover mapped to it (or none).                           *)
(***************************************************************************)
EXTENDS MuxConfig

CONSTANT Designs      \* the sequences of circuits to generate

ScanChain == "scan_chain"
MemoryBank == "memory_bank"

VARIABLES
  orgz,       \* how the memory cells are organised
  design,     \* the circuits
  phase,      \* "netlist", "bitstream", "load" or "run"
  done,       \* circuits the running pass has dealt with
  lsb,        \* first cell of each circuit in the netlist
  memBit,     \* num_mem_bit of the running pass
  total,      \* cells of the netlist
  bits,       \* conf_bit_head: the list of configuration bits, newest first
  startEdge,  \* the programming clock's change at time 0 counts as an edge
  cycle,      \* programming clock cycles so far
  fed,        \* bits handed to the chip so far
  head,       \* the scan chain's input
  cells       \* the memory cells, from 0

vars == <<orgz, design, phase, done, lsb, memBit, total, bits, startEdge,
          cycle, fed, head, cells>>

IsMux(e) == e.kind = "mux"

\* Cells of a circuit, as the netlist and as the bitstream generator count.
NetlistBits(e) == IF IsMux(e) THEN ConfBits(e.model, e.size) ELSE Power(2)[e.k]
BitstreamBits(e) == IF IsMux(e) THEN SramBits(e.model, e.size) ELSE Power(2)[e.k]

\* The values of a circuit's bits, from its bit 0.
BitsOf(e) ==
  IF IsMux(e) THEN Decode(e.model, e.size, e.path) ELSE LutBits(e.k, e.table, e.default)

\* A cover has lines of one output value, as its format demands, none with
\* more inputs than the LUT.
IsCover(k, table) ==
  /\ table \in Seq([ins : Seq({0, 1, Dash}), out : {0, 1}])
  /\ \A t \in DOMAIN table : Len(table[t].ins) <= k /\ table[t].out = table[1].out

\* A circuit the generators accept.  A multilevel multiplexer of two inputs is
\* not one (its netlist has two bits where its decoder has one), nor is one
\* whose size fails an assertion.
IsCircuit(e) ==
  /\ IF IsMux(e)
     THEN /\ e.model \in [structure : {Tree, OneLevel, MultiLevel},
                           levels : Nat \ {0}, const : BOOLEAN]
          /\ e.size \in Nat /\ e.size >= 2
          /\ e.path \in DefaultPath..(e.size - 1)
          /\ LET n == Full(e.model, e.size)
                 L == e.model.levels
             IN e.model.structure = MultiLevel => n > 2 /\ LayoutHolds(L, Basis(n, L), n)
     ELSE /\ e.k \in Nat \ {0} /\ e.default \in {0, 1}
          /\ IsCover(e.k, e.table)
  /\ BitstreamBits(e) \in Nat \ {0}

\* A design is a sequence of at least one circuit.
ASSUME DesignsAssumption ==
  \A d \in Designs :
    /\ Len(d) \in Nat \ {0}
    /\ DOMAIN d = 1..Len(d)
    /\ \A c \in DOMAIN d : IsCircuit(d[c])

Reset(n) == [i \in 0..(n - 1) |-> 0]

Init ==
  /\ orgz \in {ScanChain, MemoryBank}
  /\ design \in Designs
  /\ phase = "netlist"
  /\ done = 0
  /\ lsb = <<>>
  /\ memBit = 0
  /\ total = 0
  /\ bits = <<>>
  /\ startEdge \in BOOLEAN
  /\ cycle = 0
  /\ fed = 0
  /\ head = 0
  /\ cells = Reset(0)

---------------------------------------------------------------------------
(* The passes over the circuits. *)

\* The Verilog generator wires the next circuit's ports to the cells at its
\* counter.
WireCircuit ==
  /\ phase = "netlist"
  /\ done < Len(design)
  /\ done' = done + 1
  /\ lsb' = Append(lsb, memBit)
  /\ memBit' = memBit + NetlistBits(design[done + 1])
  /\ UNCHANGED <<orgz, design, phase, total, bits, startEdge, cycle, fed, head, cells>>

\* The netlist is complete; the counters are freed and new ones start at 0.
StartBitstream ==
  /\ phase = "netlist"
  /\ done = Len(design)
  /\ phase' = "bitstream"
  /\ total' = memBit
  /\ cells' = Reset(memBit)
  /\ memBit' = 0
  /\ done' = 0
  /\ UNCHANGED <<orgz, design, lsb, bits, startEdge, cycle, fed, head>>

\* The list with the bits of one circuit filed from address first on.
Filed(values, first, list) ==
  LET n == Cardinality(DOMAIN values)
  IN [i \in 1..n |-> [addr |-> first + n - i, val |-> values[n - i]]] \o list

\* The bitstream generator decodes the next circuit and files its bits under
\* its own counter.
EmitCircuit ==
  /\ phase = "bitstream"
  /\ done < Len(design)
  /\ LET e == design[done + 1]
     IN /\ bits' = Filed(BitsOf(e), memBit, bits)
        /\ memBit' = memBit + BitstreamBits(e)
  /\ done' = done + 1
  /\ UNCHANGED <<orgz, design, phase, lsb, total, startEdge, cycle, fed, head, cells>>

---------------------------------------------------------------------------
(* Loading: the testbench. *)

\* Side of the square array of bit lines and word lines.
ArraySide(n) == Least({s \in 1..n : s * s >= n})

\* The lines an address of w bits can tell apart.
PowerOf2 == Power(2)

DecoderSizeFloor(n) == Least({w \in 0..n : PowerOf2[w + 1] > n})   \* mutant: log2 cut off

\* Width of a decoder's address, and what an address of that width keeps.
DecoderSize(n) == Least({w \in 0..n : PowerOf2[w] >= n})
Encode(input, width) == input % PowerOf2[width]

\* Where the testbench puts a bit in the array of the memory bank.
Row(addr, side) == addr \div side
Column(addr, side) == addr % side

\* The bits that end in cell x of the array.
Holders(x, side) ==
  {i \in DOMAIN bits : /\ Row(bits[i].addr, side) = Row(x, side)
                       /\ Column(bits[i].addr, side) = Column(x, side)}

\* The writes of the memory bank, one word line after the other; a cell that
\* has no bit is skipped, and of several bits the last of the list is there.
BankWrites ==
  LET side == ArraySide(memBit)
      width == DecoderSize(side)
      held == {x \in 0..(side * side - 1) : Holders(x, side) # {}}
      Nth(k) == CHOOSE x \in held : Cardinality({y \in held : y < x}) = k - 1
      Greatest(S) == CHOOSE i \in S : \A j \in S : j <= i
      Write(x) == [bl |-> Encode(Column(x, side), width), wl |-> Encode(Row(x, side), width),
                   val |-> bits[Greatest(Holders(x, side))].val]
  IN [k \in 1..Cardinality(held) |-> Write(Nth(k))]

\* The values in the order the testbench feeds them.
Program ==
  IF orgz = ScanChain THEN bits ELSE BankWrites

\* The bitstream is complete and the testbench starts.  Its process for the
\* scan chain waits for a falling edge of the programming clock before it
\* hands over a bit; it catches the change at time 0 or it does not.
StartLoad ==
  /\ phase = "bitstream"
  /\ done = Len(design)
  /\ phase' = "load"
  /\ IF orgz = ScanChain /\ startEdge
     THEN fed' = 1 /\ head' = bits[1].val
     ELSE fed' = 0 /\ head' = 0
  /\ UNCHANGED <<orgz, design, done, lsb, memBit, total, bits, startEdge, cycle, cells>>

\* Cells on the addressed bit line and word line.
Addressed(w) ==
  LET side == ArraySide(total)
  IN {i \in DOMAIN cells : i % side = w.bl /\ i \div side = w.wl}

\* A programming cycle of the scan chain: the rising edge moves every value
\* one cell on, the falling edge hands over the next bit.
ShiftCycle ==
  /\ phase = "load"
  /\ orgz = ScanChain
  /\ cycle < Len(bits)
  /\ cells' = [i \in DOMAIN cells |-> IF i = 0 THEN head ELSE cells[i - 1]]
  /\ IF fed < Len(bits)
     THEN fed' = fed + 1 /\ head' = bits[fed + 1].val
     ELSE UNCHANGED <<fed, head>>
  /\ cycle' = cycle + 1
  /\ UNCHANGED <<orgz, design, phase, done, lsb, memBit, total, bits, startEdge>>

\* A programming cycle of the memory bank: one addressed write, repeated if
\* the clock outlasts the program.
WriteCycle ==
  /\ phase = "load"
  /\ orgz = MemoryBank
  /\ cycle < Len(bits)
  /\ fed' = IF fed < Len(Program) THEN fed + 1 ELSE fed
  /\ LET w == Program[fed']
     IN cells' = [i \in DOMAIN cells |-> IF i \in Addressed(w) THEN w.val ELSE cells[i]]
  /\ cycle' = cycle + 1
  /\ UNCHANGED <<orgz, design, phase, done, lsb, memBit, total, bits, startEdge, head>>

\* config_done: the programming clock stops after as many cycles as there
\* are bits, not counting the one that resets the chip.
ConfigDone ==
  /\ phase = "load"
  /\ cycle = Len(bits)
  /\ phase' = "run"
  /\ UNCHANGED <<orgz, design, done, lsb, memBit, total, bits, startEdge, cycle, fed, head, cells>>

Next ==
  \/ WireCircuit
  \/ StartBitstream
  \/ EmitCircuit
  \/ StartLoad
  \/ ShiftCycle
  \/ WriteCycle
  \/ ConfigDone

Spec == Init /\ [][Next]_vars

---------------------------------------------------------------------------
(* What must hold. *)

\* The bitstream generator's counter never drifts from the netlist's: it
\* files each circuit's bits from the very cell the netlist gave the circuit,
\* one bit for each cell, although the two passes count with different
\* functions and the decoders decide how many bits there are.
CountersInStep ==
  phase = "bitstream" =>
    /\ memBit = IF done < Len(design) THEN lsb[done + 1] ELSE total
    /\ Len(bits) = memBit
    /\ \A i \in DOMAIN bits : bits[i].addr = memBit - i

\* The testbench caught the edge that makes its bits arrive in time.
StartSeen == orgz = ScanChain => startEdge

\* When config_done rises every cell of every circuit holds the bit meant for
\* it: the list's order, the chain's direction, the order of the word lines,
\* the width of the decoders and the number of clock cycles fit together.
CellsHoldTheirBits ==
  phase = "run" /\ StartSeen =>
    \A c \in DOMAIN design : \A j \in DOMAIN BitsOf(design[c]) :
      cells[lsb[c] + j] = BitsOf(design[c])[j]

\* The wires the netlist ties the inputs of a multilevel multiplexer to, when
\* they do not enter at the deepest level, are those its decoder steers from.
DecoderAgrees(e) ==
  LET n == Full(e.model, e.size)
      a == Arch(e.model, n)
  IN \A path \in a.last..(n - 1) :
       InputAt(a, path) = <<a.level - 1, Power(a.basis)[a.level - 1] - (n - path)>>

\* One and two levels always agree, more of them only for some sizes.
EntersAsDecoded(e) ==
  IsMux(e) /\ e.model.structure = MultiLevel /\ e.model.levels > 2 => DecoderAgrees(e)

\* The value of a cover: the output of the lines where one matches, the
\* opposite elsewhere.
Cover(e, ins) ==
  LET Matches(line) == \A i \in DOMAIN line.ins : line.ins[i] \in {Dash, ins[i - 1]}
      lines == {e.table[t] : t \in DOMAIN e.table}
  IN IF lines = {} THEN e.default
     ELSE LET out == (CHOOSE l \in lines : TRUE).out
          IN IF \E l \in lines : Matches(l) THEN out ELSE 1 - out

\* A circuit of the running chip does what the design asks of it: a
\* multiplexer passes the input routing chose, or its default input when it
\* is unused, and a LUT computes its cover for every value of its inputs.
Does(c) ==
  LET e == design[c]
      own == [j \in 0..(NetlistBits(e) - 1) |-> cells[lsb[c] + j]]
  IN IF IsMux(e)
     THEN Passes(e.model, e.size, own) = InputOf(e.model, e.size, e.path)
     ELSE \A ins \in [0..(e.k - 1) -> {0, 1}] : LutOutput(e.k, own, ins) = Cover(e, ins)

\* The loaded chip is the routed design: what the bitstream generator decodes
\* and what the netlist generator builds are inverse to each other through
\* the whole of loading.
ChipDoesDesign ==
  phase = "run" /\ StartSeen => \A c \in DOMAIN design : Does(c)
=============================================================================
