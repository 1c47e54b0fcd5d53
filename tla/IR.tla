--------------------------------- MODULE IR ---------------------------------
(***************************************************************************)
(* Programs: src/src/frothy_ir.c.  A program is the literals, nodes and    *)
(* links the parser made.  When a function is stored, its program is       *)
(* copied into one block: the arrays, and behind them every name and text, *)
(* in a space that is computed before it is filled.                        *)
(***************************************************************************)
EXTENDS Integers, Sequences, FiniteSetsExt, SequencesExt

CONSTANTS
  LiteralCapacity,  \* FROTHY_IR_LITERAL_CAPACITY
  NodeCapacity,     \* FROTHY_IR_NODE_CAPACITY
  LinkCapacity      \* FROTHY_IR_LINK_CAPACITY

ASSUME IRAssumption ==
  {LiteralCapacity, NodeCapacity, LinkCapacity} \subseteq Nat \ {0}

NameBytes(name) == Len(name) + 1

StringBytesOfNode(node) ==
  CASE node.kind \in {"readSlot", "writeSlot", "designator", "recordDef"} ->
         NameBytes(node.slot)
    [] node.kind \in {"readFallback", "writeFallback"} ->
         NameBytes(node.slot) + NameBytes(node.fallback)
    [] node.kind \in {"readField", "writeField"} -> NameBytes(node.field)
    [] OTHER -> 0

TextBytes(lits) ==
  FoldLeft(+, 0, [i \in DOMAIN lits |-> IF lits[i].kind = "text"
                                         THEN NameBytes(lits[i].text) ELSE 0])

ProgramStringBytes(prog) ==
  TextBytes(prog.lits)
    + FoldLeft(+, 0, [i \in DOMAIN prog.nodes |-> StringBytesOfNode(prog.nodes[i])])

(* The names copied behind the arrays, node by node.                        *)
NamesOfNode(node) ==
  LET owned == {"slot", "fallback", "field"} \cap DOMAIN node
  IN [f \in owned |-> node[f]]

PackedBytes(prog) ==
  TextBytes(prog.lits)
    + FoldLeft(+, 0, [i \in DOMAIN prog.nodes |->
        LET names == NamesOfNode(prog.nodes[i])
        IN MapThenSumSet(LAMBDA f : NameBytes(names[f]), DOMAIN names)])

=============================================================================
