------------------------------ MODULE Runtime ------------------------------
(***************************************************************************)
(* Values, objects and slots: src/src/frothy_value.c and                   *)
(* froth_slot_table.c as the evaluator and the snapshot codec use them.  A *)
(* runtime is a record rt with the slot table, the objects by id and the   *)
(* snapshot in storage.  Where an object lies in the arena and how it is   *)
(* counted are the subject of PayloadArena and Evaluator; here an object   *)
(* is there as long as something refers to it.                             *)
(***************************************************************************)
EXTENDS IR, Functions

CONSTANT IntBits  \* FROTHY_VALUE_INT_BITS

ASSUME IntBitsAssumption == IntBits \in Nat \ {0}

-----------------------------------------------------------------------------
(* Values.                                                                  *)

Nil == [t |-> "nil", v |-> 0]

MakeBool(b) == [t |-> "bool", v |-> IF b THEN 1 ELSE 0]

MakeInt(n) == [t |-> "int", v |-> n]

ObjectRef(id) == [t |-> "obj", v |-> id]

SlotDesignator(slot) == [t |-> "slot", v |-> slot]

(* What a slot without an implementation holds.                             *)
Unbound == [t |-> "unbound", v |-> 0]

IsTrue(value) == value = MakeBool(TRUE)

WrapInt(n) ==
  LET half == 2^(IntBits - 1) IN ((n + half) % 2^IntBits) - half

-----------------------------------------------------------------------------
(* Objects.                                                                 *)

NoSnapshot == [kind |-> "none"]

(* An operation on the runtime returns the runtime, an error and a value.   *)
Ok(rt, value) == [rt |-> rt, err |-> "ok", val |-> value]

Error(rt, e) == [rt |-> rt, err |-> e, val |-> Nil]

FreeId(rt) == CHOOSE id \in 1 .. Cardinality(DOMAIN rt.objs) + 1 :
                /\ id \notin DOMAIN rt.objs
                /\ \A j \in 1 .. id - 1 : j \in DOMAIN rt.objs

AppendObject(rt, object) ==
  LET id == FreeId(rt)
  IN Ok([rt EXCEPT !.objs = [j \in DOMAIN @ \cup {id} |->
                               IF j = id THEN object ELSE @[j]]],
        ObjectRef(id))

HasKind(rt, value, kinds) ==
  value.t = "obj" /\ value.v \in DOMAIN rt.objs /\ rt.objs[value.v].kind \in kinds

Object(rt, value) == rt.objs[value.v]

(* What cells and the fields of a record may hold.                          *)
ValueAllowed(rt, value) ==
  value.t \in {"int", "bool", "nil"} \/ HasKind(rt, value, {"text", "record"})

AllocText(rt, text) == AppendObject(rt, [kind |-> "text", text |-> text])

AllocCells(rt, length) ==
  AppendObject(rt, [kind |-> "cells", vals |-> [i \in 1..length |-> Nil]])

AllocNative(rt, name, arity) ==
  AppendObject(rt, [kind |-> "native", name |-> name, arity |-> arity])

AllocRecordDef(rt, name, fields) ==
  AppendObject(rt, [kind |-> "recordDef", name |-> name, fields |-> fields])

AllocRecord(rt, def, vals) ==
  IF ~HasKind(rt, def, {"recordDef"}) THEN Error(rt, "type")
  ELSE IF Len(vals) # Len(Object(rt, def).fields) THEN Error(rt, "signature")
  ELSE IF \E i \in DOMAIN vals : ~ValueAllowed(rt, vals[i]) THEN Error(rt, "type")
  ELSE AppendObject(rt, [kind |-> "record", def |-> def.v, vals |-> vals])

FieldIndexes(rt, value, field) ==
  LET fields == rt.objs[Object(rt, value).def].fields
  IN {i \in DOMAIN fields : fields[i] = field}

RecordReadField(rt, value, field) ==
  IF ~HasKind(rt, value, {"record"}) THEN Error(rt, "type")
  ELSE IF FieldIndexes(rt, value, field) = {} THEN Error(rt, "bounds")
  ELSE Ok(rt, Object(rt, value).vals[Min(FieldIndexes(rt, value, field))])

RecordWriteField(rt, value, field, stored) ==
  IF ~ValueAllowed(rt, stored) \/ ~HasKind(rt, value, {"record"})
  THEN Error(rt, "type")
  ELSE IF FieldIndexes(rt, value, field) = {} THEN Error(rt, "bounds")
  ELSE Ok([rt EXCEPT !.objs[value.v].vals[Min(FieldIndexes(rt, value, field))]
             = stored], Nil)

IndexError(rt, base, index) ==
  CASE ~HasKind(rt, base, {"cells"}) \/ index.t # "int" -> "type"
    [] index.v \notin 0 .. Len(Object(rt, base).vals) - 1 -> "bounds"
    [] OTHER -> "ok"

ReadIndex(rt, base, index) ==
  IF IndexError(rt, base, index) # "ok" THEN Error(rt, IndexError(rt, base, index))
  ELSE Ok(rt, Object(rt, base).vals[index.v + 1])

WriteIndex(rt, base, index, stored) ==
  IF IndexError(rt, base, index) # "ok" THEN Error(rt, IndexError(rt, base, index))
  ELSE IF ~ValueAllowed(rt, stored) THEN Error(rt, "type")
  ELSE Ok([rt EXCEPT !.objs[base.v].vals[index.v + 1] = stored], Nil)

(* Texts are equal by content, everything else by identity.                 *)
ValueEquals(rt, a, b) ==
  \/ a = b
  \/ /\ HasKind(rt, a, {"text"}) /\ HasKind(rt, b, {"text"})
     /\ Object(rt, a).text = Object(rt, b).text

(* The values an object refers to.                                          *)
Parts(object) ==
  CASE object.kind = "record" -> <<ObjectRef(object.def)>> \o object.vals
    [] object.kind = "cells" -> object.vals
    [] OTHER -> <<>>

RefsOf(values) == {values[i].v : i \in {j \in DOMAIN values : values[j].t = "obj"}}

Referenced(rt) ==
  RefsOf([i \in DOMAIN rt.slots |-> rt.slots[i].val])
    \cup UNION {RefsOf(Parts(rt.objs[id])) : id \in DOMAIN rt.objs}

(* Faulty variant: what fields and cells hold is not retained.             *)
ReleaseShallow(rt) ==
  LET slots == RefsOf([i \in DOMAIN rt.slots |-> rt.slots[i].val])
  IN [rt EXCEPT !.objs = Restrict(@, DOMAIN rt.objs \cap slots)]

(* Releasing the last reference tears an object down and releases what it   *)
(* refers to.  A cycle of records keeps itself alive.                       *)
RECURSIVE Release(_)
Release(rt) ==
  LET live == DOMAIN rt.objs \cap Referenced(rt)
  IN IF live = DOMAIN rt.objs THEN rt
     ELSE Release([rt EXCEPT !.objs = Restrict(@, live)])

-----------------------------------------------------------------------------
(* Code objects.  Each owns a packed copy of the whole program its function *)
(* was written in.                                                          *)

PackedCode(rt, prog, body, arity, locals) ==
  AppendObject(rt, [kind |-> "code", prog |-> prog, body |-> body,
                    arity |-> arity, locals |-> locals])

(* The copy fails when a string does not fit behind the arrays.             *)
AllocCode(rt, prog, body, arity, locals) ==
  IF PackedBytes(prog) > ProgramStringBytes(prog) THEN Error(rt, "oom")
  ELSE PackedCode(rt, prog, body, arity, locals)

-----------------------------------------------------------------------------
(* Slots.                                                                   *)

SlotIndexes(rt, name) == {i \in DOMAIN rt.slots : rt.slots[i].name = name}

HasSlot(rt, name) == SlotIndexes(rt, name) # {}

FindSlot(rt, name) == CHOOSE i \in SlotIndexes(rt, name) : TRUE

SlotValue(rt, name) ==
  IF HasSlot(rt, name) THEN rt.slots[FindSlot(rt, name)].val ELSE Unbound

(* Find or create the slot and make value its overlay implementation.       *)
BindSlot(rt, name, value) ==
  LET slot == [name |-> name, val |-> value, overlay |-> TRUE]
  IN IF HasSlot(rt, name) THEN [rt EXCEPT !.slots[FindSlot(rt, name)] = slot]
     ELSE [rt EXCEPT !.slots = Append(@, slot)]

=============================================================================
