--------------------------- MODULE SnapshotCodec ---------------------------
(***************************************************************************)
(* The snapshot payload: src/src/frothy_snapshot_codec.c, with the save,   *)
(* restore and wipe of frothy_snapshot.c around it.  A payload is the      *)
(* structure its bytes spell: a symbol table, a list of objects that refer *)
(* to each other by position, and the overlay's bindings.  The two slots   *)
(* it is written to and the checksums are the subject of SnapshotStore.    *)
(***************************************************************************)
EXTENDS Runtime

CONSTANTS
  SymbolCapacity,  \* FROTH_SLOT_TABLE_SIZE
  ObjectCapacity   \* FROTHY_OBJECT_CAPACITY

ASSUME CodecAssumption ==
  {SymbolCapacity, ObjectCapacity} \subseteq Nat \ {0}

-----------------------------------------------------------------------------
(* Collecting what the overlay reaches.  e holds the symbols and the ids of *)
(* the objects in the order they will be written.                           *)

NoTables == [err |-> "ok", symbols |-> <<>>, objects |-> <<>>]

EncodeFail(e, error) == IF e.err = "ok" THEN [e EXCEPT !.err = error] ELSE e

IsSimpleNameBytes(name) == Len(name) = 1

IsSlotName(name) == name # <<>>

FindOrAddSymbol(e, name) ==
  CASE e.err # "ok" \/ Contains(e.symbols, name) -> e
    [] ~IsSlotName(name) -> EncodeFail(e, "badName")
    [] Len(e.symbols) = SymbolCapacity -> EncodeFail(e, "oom")
    [] OTHER -> [e EXCEPT !.symbols = Append(@, name)]

AddObject(e, id) ==
  IF e.err # "ok" THEN e
  ELSE IF Len(e.objects) = ObjectCapacity THEN EncodeFail(e, "oom")
  ELSE [e EXCEPT !.objects = Append(@, id)]

(* The slot names a node mentions, primary first.                           *)
NodeSymbols(node) ==
  CASE node.kind \in {"readSlot", "writeSlot", "designator"} -> <<node.slot>>
    [] node.kind \in {"readFallback", "writeFallback"} -> <<node.slot, node.fallback>>
    [] OTHER -> <<>>

CollectProgramSymbols(e, prog) ==
  FoldLeft(FindOrAddSymbol, e,
           FlattenSeq([i \in DOMAIN prog.nodes |-> NodeSymbols(prog.nodes[i])]))

(* Depth first: what an object refers to is listed before it.  A record met *)
(* below itself cannot be written that way.                                 *)
RECURSIVE CollectVisit(_, _, _, _)

CollectParts(rt, e, values, stack) ==
  FoldLeft(LAMBDA acc, value :
             IF acc.err # "ok" \/ value.t # "obj" THEN acc
             ELSE IF ~HasKind(rt, value, {"text", "record"})
             THEN EncodeFail(acc, "notPersistable")
             ELSE CollectVisit(rt, acc, value, stack),
           e, values)

CollectVisit(rt, e, value, stack) ==
  LET id == value.v
      object == rt.objs[id]
      below == stack \cup {id}
      def == CollectVisit(rt, e, ObjectRef(object.def), below)
  IN CASE e.err # "ok" \/ value.t # "obj" -> e
       [] id \notin DOMAIN rt.objs -> EncodeFail(e, "bounds")
       [] object.kind = "record" /\ id \in stack -> EncodeFail(e, "notPersistable")
       [] Contains(e.objects, id) -> e
       [] object.kind \in {"text", "recordDef"} -> AddObject(e, id)
       [] object.kind = "cells" -> AddObject(CollectParts(rt, e, object.vals, stack), id)
       [] object.kind = "code" -> AddObject(CollectProgramSymbols(e, object.prog), id)
       [] object.kind = "record" -> AddObject(CollectParts(rt, def, object.vals, below), id)
       [] OTHER -> EncodeFail(e, "notPersistable")

CollectValue(rt, e, value) == CollectVisit(rt, e, value, {})

Overlay(rt) == SelectSeq(rt.slots, LAMBDA slot : slot.overlay)

CollectOverlay(rt) ==
  FoldLeft(LAMBDA e, slot : CollectValue(rt, FindOrAddSymbol(e, slot.name), slot.val),
           NoTables, Overlay(rt))

-----------------------------------------------------------------------------
(* Writing.  Positions start at 1; 0 stands for an entry that is missing.   *)

EncodeObjectRef(e, id) ==
  IF Contains(e.objects, id) THEN SelectInSeq(e.objects, LAMBDA o : o = id) ELSE 0

SymbolIndex(e, name) ==
  IF Contains(e.symbols, name) THEN SelectInSeq(e.symbols, LAMBDA n : n = name) ELSE 0

WriteValue(e, value) ==
  IF value.t = "obj" THEN ObjectRef(EncodeObjectRef(e, value.v)) ELSE value

WriteNode(e, node) ==
  [f \in DOMAIN node |->
     IF f \in {"slot", "fallback"} THEN SymbolIndex(e, node[f]) ELSE node[f]]

WriteCodeObject(e, object) ==
  [object EXCEPT !.prog.nodes =
     [i \in DOMAIN @ |-> WriteNode(e, object.prog.nodes[i])]]

WriteObject(e, object) ==
  CASE object.kind = "code" -> WriteCodeObject(e, object)
    [] object.kind = "cells" ->
         [object EXCEPT !.vals = [i \in DOMAIN @ |-> WriteValue(e, object.vals[i])]]
    [] object.kind = "record" ->
         [object EXCEPT !.vals = [i \in DOMAIN @ |-> WriteValue(e, object.vals[i])],
                        !.def = EncodeObjectRef(e, object.def)]
    [] OTHER -> object

(* A record definition in a program is executed once and never stored, and  *)
(* a record definition object needs proper, distinct names.                 *)
WriteError(object) ==
  CASE object.kind = "code" ->
         IF \E i \in DOMAIN object.prog.nodes : object.prog.nodes[i].kind = "recordDef"
         THEN "notPersistable" ELSE "ok"
    [] object.kind = "recordDef" ->
         IF /\ Len(object.fields) \in 1 .. LinkCapacity /\ IsSlotName(object.name)
            /\ IsInjective(object.fields)
            /\ \A i \in DOMAIN object.fields : IsSimpleNameBytes(object.fields[i])
         THEN "ok" ELSE "notPersistable"
    [] OTHER -> "ok"

WriteBindings(rt, e) ==
  [i \in DOMAIN Overlay(rt) |->
     [symbol |-> SymbolIndex(e, Overlay(rt)[i].name),
      val |-> WriteValue(e, Overlay(rt)[i].val)]]

(* The first refusal in the order of the payload.  An index that cannot be  *)
(* resolved refuses the save as well.                                       *)
WriteErrors(objects) ==
  SelectSeq([i \in DOMAIN objects |-> WriteError(objects[i])], LAMBDA x : x # "ok")

Unresolved(payload) ==
  \/ \E i \in DOMAIN payload.bindings : payload.bindings[i].symbol = 0
  \/ \E i \in DOMAIN payload.objects :
       /\ payload.objects[i].kind = "code"
       /\ \E j \in DOMAIN payload.objects[i].prog.nodes :
            LET node == payload.objects[i].prog.nodes[j]
            IN \E f \in {"slot", "fallback"} \cap DOMAIN node : node[f] = 0

WritePayload(rt) ==
  LET e == CollectOverlay(rt)
      objects == [i \in DOMAIN e.objects |-> rt.objs[e.objects[i]]]
      payload == [symbols |-> e.symbols,
                  objects |-> [i \in DOMAIN objects |-> WriteObject(e, objects[i])],
                  bindings |-> WriteBindings(rt, e)]
  IN CASE e.err # "ok" -> [err |-> e.err]
       [] WriteErrors(objects) # <<>> -> [err |-> Head(WriteErrors(objects))]
       [] Unresolved(payload) -> [err |-> "unresolved"]
       [] OTHER -> [err |-> "ok", payload |-> payload]

-----------------------------------------------------------------------------
(* Validation: everything decoding will rely on.                            *)

ValidNodeId(id, nodes, allowInvalid) == id \in 1 .. nodes \/ (allowInvalid /\ id = 0)

ValidLinkSpan(node, links) ==
  node.first \in 1 .. links + 1 /\ node.count \in 0 .. links - node.first + 1

(* The fields of a node that are node ids and must be there.                *)
NodeRefs(node) ==
  ({"value", "base", "body", "test", "then"} \cap DOMAIN node)
    \cup (IF node.kind \in {"readIndex", "writeIndex"} THEN {"index"} ELSE {})
    \cup (IF node.kind = "if" /\ node.hasElse THEN {"else"} ELSE {})
    \cup (IF node.kind = "call" /\ node.builtin = "none" THEN {"callee"} ELSE {})

ValidNode(payload, prog, node) ==
  /\ node.kind # "recordDef"
  /\ \A f \in NodeRefs(node) : ValidNodeId(node[f], Len(prog.nodes), FALSE)
  /\ \A f \in {"else", "callee"} \cap DOMAIN node :
       ValidNodeId(node[f], Len(prog.nodes), TRUE)
  /\ \A f \in {"slot", "fallback"} \cap DOMAIN node : node[f] \in DOMAIN payload.symbols
  /\ node.kind = "lit" => node.lit \in DOMAIN prog.lits
  /\ node.kind \in {"readField", "writeField"} => IsSimpleNameBytes(node.field)
  /\ node.kind = "fn" => node.arity <= node.locals
  /\ node.kind \in {"call", "seq"} => ValidLinkSpan(node, Len(prog.links))

(* Faulty variant: the entry node of the function is not looked at.        *)
ValidateCodeObjectRoot(payload, code) ==
  LET prog == code.prog
  IN /\ code.arity <= code.locals
     /\ prog.root \in DOMAIN prog.nodes
     /\ Len(prog.lits) <= LiteralCapacity
     /\ Len(prog.nodes) <= NodeCapacity
     /\ Len(prog.links) <= LinkCapacity
     /\ \A i \in DOMAIN prog.nodes : ValidNode(payload, prog, prog.nodes[i])
     /\ \A i \in DOMAIN prog.links : ValidNodeId(prog.links[i], Len(prog.nodes), FALSE)

ValidateCodeObject(payload, code) ==
  LET prog == code.prog
  IN /\ code.arity <= code.locals
     /\ {code.body, prog.root} \subseteq DOMAIN prog.nodes
     /\ Len(prog.lits) <= LiteralCapacity
     /\ Len(prog.nodes) <= NodeCapacity
     /\ Len(prog.links) <= LinkCapacity
     /\ \A i \in DOMAIN prog.nodes : ValidNode(payload, prog, prog.nodes[i])
     /\ \A i \in DOMAIN prog.links : ValidNodeId(prog.links[i], Len(prog.nodes), FALSE)

ValidateRecordDef(object) ==
  /\ Len(object.fields) \in 1 .. LinkCapacity
  /\ IsSlotName(object.name)
  /\ \A i \in DOMAIN object.fields : IsSimpleNameBytes(object.fields[i])
  /\ IsInjective(object.fields)

(* Values in objects refer to texts and records further up; values of slots *)
(* to anything in the table.                                                *)
ValidateValue(payload, value, restricted, bound) ==
  value.t = "obj" =>
    /\ value.v \in DOMAIN payload.objects
    /\ value.v < bound
    /\ restricted => payload.objects[value.v].kind \in {"text", "record"}

ValidateObject(payload, i) ==
  LET object == payload.objects[i]
  IN /\ object.kind \in {"text", "cells", "code", "recordDef", "record"}
     /\ object.kind = "code" => ValidateCodeObject(payload, object)
     /\ object.kind = "recordDef" => ValidateRecordDef(object)
     /\ object.kind = "cells" => object.vals # <<>>
     /\ object.kind = "record" =>
          /\ object.def \in 1 .. i - 1
          /\ payload.objects[object.def].kind = "recordDef"
          /\ Len(object.vals) = Len(payload.objects[object.def].fields)
     /\ object.kind \in {"cells", "record"} =>
          \A j \in DOMAIN object.vals : ValidateValue(payload, object.vals[j], TRUE, i)

ValidatePayload(payload) ==
  /\ Len(payload.symbols) <= SymbolCapacity
  /\ \A i \in DOMAIN payload.symbols : IsSlotName(payload.symbols[i])
  /\ Len(payload.objects) <= ObjectCapacity
  /\ \A i \in DOMAIN payload.objects : ValidateObject(payload, i)
  /\ \A i \in DOMAIN payload.bindings :
       /\ payload.bindings[i].symbol \in DOMAIN payload.symbols
       /\ ValidateValue(payload, payload.bindings[i].val, FALSE, Len(payload.objects) + 1)

-----------------------------------------------------------------------------
(* Decoding.  d holds the runtime, an error and the values of the objects   *)
(* decoded so far, which the decoder keeps alive until all bindings exist.  *)

DecodeFail(d, error) == IF d.err = "ok" THEN [d EXCEPT !.err = error] ELSE d

DecodeValue(d, value) == IF value.t = "obj" THEN d.vals[value.v] ELSE value

DecodeNode(symbols, node) ==
  [f \in DOMAIN node |->
     IF f \in {"slot", "fallback"} THEN symbols[node[f]] ELSE node[f]]

(* Faulty variant: the names of fields are forgotten.                      *)
MeasureNodeSlots(symbols, node) ==
  CASE node.kind \in {"readSlot", "writeSlot", "designator"} ->
         NameBytes(symbols[node.slot])
    [] node.kind \in {"readFallback", "writeFallback"} ->
         NameBytes(symbols[node.slot]) + NameBytes(symbols[node.fallback])
    [] OTHER -> 0

(* A first pass measures the strings behind the arrays, a second copies.    *)
MeasureNode(symbols, node) ==
  CASE node.kind \in {"readSlot", "writeSlot", "designator"} ->
         NameBytes(symbols[node.slot])
    [] node.kind \in {"readFallback", "writeFallback"} ->
         NameBytes(symbols[node.slot]) + NameBytes(symbols[node.fallback])
    [] node.kind \in {"readField", "writeField"} -> NameBytes(node.field)
    [] OTHER -> 0

MeasureCodeObject(symbols, code) ==
  TextBytes(code.prog.lits)
    + FoldLeft(+, 0, [i \in DOMAIN code.prog.nodes |->
                        MeasureNode(symbols, code.prog.nodes[i])])

DecodeProgram(symbols, prog) ==
  [prog EXCEPT !.nodes = [i \in DOMAIN @ |-> DecodeNode(symbols, prog.nodes[i])]]

DecodeCodeObject(d, symbols, code) ==
  LET prog == DecodeProgram(symbols, code.prog)
  IN IF PackedBytes(prog) > MeasureCodeObject(symbols, code) THEN Error(d.rt, "oom")
     ELSE PackedCode(d.rt, prog, code.body, code.arity, code.locals)

DecodeValues(d, values) == [j \in DOMAIN values |-> DecodeValue(d, values[j])]

(* Faulty variant: the cells are allocated and not filled.                 *)
DecodeCellsEmpty(d, object) == AllocCells(d.rt, Len(object.vals))

DecodeCells(d, object) ==
  LET cells == AllocCells(d.rt, Len(object.vals))
  IN [cells EXCEPT !.rt.objs[cells.val.v].vals = DecodeValues(d, object.vals)]

DecodeObject(d, symbols, object) ==
  CASE object.kind = "text" -> AllocText(d.rt, object.text)
    [] object.kind = "cells" -> DecodeCells(d, object)
    [] object.kind = "code" -> DecodeCodeObject(d, symbols, object)
    [] object.kind = "recordDef" -> AllocRecordDef(d.rt, object.name, object.fields)
    [] object.kind = "record" ->
         AllocRecord(d.rt, d.vals[object.def], DecodeValues(d, object.vals))

DecodeObjects(rt, payload) ==
  FoldLeft(LAMBDA d, object :
             LET r == DecodeObject(d, payload.symbols, object)
             IN IF d.err # "ok" THEN d
                ELSE [rt |-> r.rt, err |-> r.err, vals |-> Append(d.vals, r.val)],
           [rt |-> rt, err |-> "ok", vals |-> <<>>], payload.objects)

(* Faulty variant: the slot is not marked as overlay.                       *)
BindSlotValueAsBase(d, name, value) ==
  LET bound == BindSlot(d.rt, name, value)
  IN IF HasKind(d.rt, value, {"recordDef"}) /\ Object(d.rt, value).name # name
     THEN DecodeFail(d, "badName")
     ELSE [d EXCEPT !.rt = [bound EXCEPT !.slots[FindSlot(bound, name)].overlay = FALSE]]

(* A record definition is only bound to the slot it is named after.         *)
BindSlotValue(d, name, value) ==
  IF HasKind(d.rt, value, {"recordDef"}) /\ Object(d.rt, value).name # name
  THEN DecodeFail(d, "badName")
  ELSE [d EXCEPT !.rt = BindSlot(d.rt, name, value)]

DecodeBindings(d, payload) ==
  FoldLeft(LAMBDA acc, binding :
             IF acc.err # "ok" THEN acc
             ELSE BindSlotValue(acc, payload.symbols[binding.symbol],
                                DecodeValue(acc, binding.val)),
           d, payload.bindings)

DecodePayload(rt, payload) ==
  LET d == DecodeBindings(DecodeObjects(rt, payload), payload)
  IN [err |-> d.err, rt |-> Release(d.rt)]

-----------------------------------------------------------------------------
(* The base image and save, restore and wipe.  The base image binds the     *)
(* natives a session can call; everything else is overlay.                  *)

BaseNatives == <<[name |-> "save", arity |-> 0], [name |-> "restore", arity |-> 0],
                 [name |-> "wipe", arity |-> 0], [name |-> "words", arity |-> 0],
                 [name |-> "see", arity |-> 1], [name |-> "core", arity |-> 1],
                 [name |-> "slotInfo", arity |-> 1]>>

NativeSlot(native) ==
  IF native.name = "wipe" THEN <<"dangerous", "wipe">> ELSE <<native.name>>

BaseSlots ==
  [i \in DOMAIN BaseNatives |->
     [name |-> NativeSlot(BaseNatives[i]), val |-> ObjectRef(i), overlay |-> FALSE]]
    \o <<[name |-> <<"boot">>, val |-> Unbound, overlay |-> FALSE]>>

BaseObjects ==
  [i \in DOMAIN BaseNatives |->
     [kind |-> "native", name |-> BaseNatives[i].name, arity |-> BaseNatives[i].arity]]

(* frothy_base_image_reset; what is in storage stays.                       *)
BaseImageReset(rt) == [slots |-> BaseSlots, objs |-> BaseObjects, store |-> rt.store]

(* A save writes the payload; ghost keeps the overlay it stands for.        *)
Save(rt) ==
  LET w == WritePayload(rt)
  IN IF w.err # "ok" THEN Error(rt, w.err)
     ELSE Ok([rt EXCEPT !.store = [kind |-> "saved", payload |-> w.payload,
                                   ghost |-> [slots |-> rt.slots, objs |-> rt.objs]]],
             Nil)

(* Faulty variant: what was decoded before the error stays.                *)
RestoreKeepsDecoded(rt) ==
  LET base == BaseImageReset(rt)
      d == DecodePayload(base, rt.store.payload)
  IN IF rt.store.kind = "none" THEN Error(base, "noSnapshot")
     ELSE [rt |-> d.rt, err |-> d.err, val |-> Nil]

(* Whatever goes wrong, the base image is what is left.                     *)
Restore(rt) ==
  LET base == BaseImageReset(rt)
      d == DecodePayload(base, rt.store.payload)
  IN CASE rt.store.kind = "none" -> Error(base, "noSnapshot")
       [] ~ValidatePayload(rt.store.payload) -> Error(base, "format")
       [] d.err # "ok" -> Error(base, d.err)
       [] OTHER -> Ok(d.rt, Nil)

Wipe(rt) == Ok(BaseImageReset([rt EXCEPT !.store = NoSnapshot]), Nil)

=============================================================================
