------------------------------- MODULE Interp -------------------------------
(***************************************************************************)
(* What evaluating a program means: src/src/frothy_eval.c.  The C code     *)
(* runs a stack of frames step by step; Evaluator models that stack, its   *)
(* references and the epochs.  Here a node is evaluated at once, by an     *)
(* operator on a machine m: the runtime, the locals of the running         *)
(* function, an error, the value in the out parameter, how often the       *)
(* interrupt flag is still found clear and how many frames are in use.     *)
(* References are dropped at the end of the evaluation.                    *)
(***************************************************************************)
EXTENDS SnapshotCodec, Parser

CONSTANT EvalFrameCapacity  \* FROTHY_EVAL_FRAME_CAPACITY

ASSUME EvalAssumption == EvalFrameCapacity \in Nat \ {0}

-----------------------------------------------------------------------------

EvalFail(m, e) == IF m.err = "ok" THEN [m EXCEPT !.err = e] ELSE m

CompleteValue(m, value) == IF m.err = "ok" THEN [m EXCEPT !.val = value] ELSE m

(* The machine after an operation r on the runtime.                         *)
Complete(m, r) ==
  IF m.err = "ok" THEN [m EXCEPT !.rt = r.rt, !.err = r.err, !.val = r.val] ELSE m

(* frothy_poll_interrupt, before a node and before every further round of a *)
(* loop or item of a sequence.                                              *)
PollInterrupt(m) ==
  IF m.err # "ok" THEN m
  ELSE IF m.fuel = 0 THEN EvalFail(m, "interrupted")
  ELSE [m EXCEPT !.fuel = @ - 1]

PushFrameState(m) ==
  IF m.depth >= EvalFrameCapacity THEN EvalFail(m, "callDepth")
  ELSE PollInterrupt([m EXCEPT !.depth = @ + 1])

PopFrameState(m, depth) == [m EXCEPT !.depth = depth]

-----------------------------------------------------------------------------
(* Slots.                                                                   *)

SlotReadOwned(rt, name) ==
  IF SlotValue(rt, name) = Unbound THEN Error(rt, "undefined")
  ELSE Ok(rt, SlotValue(rt, name))

SlotReadFallback(rt, primary, fallback) ==
  IF HasSlot(rt, primary) THEN SlotReadOwned(rt, primary) ELSE SlotReadOwned(rt, fallback)

(* A designator is looked at, never stored.                                 *)
SlotWriteOwned(rt, name, value, existing) ==
  CASE value.t = "slot" -> Error(rt, "type")
    [] ~HasSlot(rt, name) /\ existing -> Error(rt, "undefined")
    [] OTHER -> Ok(BindSlot(rt, name, value), Nil)

SlotWriteFallback(rt, primary, fallback, value, existing) ==
  LET first == SlotWriteOwned(rt, primary, value, existing)
  IN IF first.err = "undefined" THEN SlotWriteOwned(rt, fallback, value, existing)
     ELSE first

FromLiteral(rt, literal) ==
  CASE literal.kind = "text" -> AllocText(rt, literal.text)
    [] literal.kind = "int" -> Ok(rt, MakeInt(literal.num))
    [] literal.kind = "bool" -> Ok(rt, MakeBool(literal.num = 1))
    [] OTHER -> Ok(rt, Nil)

MakeSlotDesignator(rt, name) ==
  IF HasSlot(rt, name) THEN Ok(rt, SlotDesignator(FindSlot(rt, name)))
  ELSE Error(rt, "undefined")

-----------------------------------------------------------------------------
(* Builtins and natives.                                                    *)

(* C division truncates towards zero.                                       *)
Quotient(a, b) ==
  LET q == (IF a < 0 THEN -a ELSE a) \div (IF b < 0 THEN -b ELSE b)
  IN IF (a < 0) = (b < 0) THEN q ELSE -q

ArithmeticValue(op, a, b) ==
  CASE op = "+" -> MakeInt(WrapInt(a + b))
    [] op = "-" -> MakeInt(WrapInt(a - b))
    [] op = "*" -> MakeInt(WrapInt(a * b))
    [] op = "/" -> MakeInt(WrapInt(Quotient(a, b)))
    [] op = "%" -> MakeInt(WrapInt(a - b * Quotient(a, b)))
    [] op = "<" -> MakeBool(a < b)
    [] op = "<=" -> MakeBool(a <= b)
    [] op = ">" -> MakeBool(a > b)
    [] op = ">=" -> MakeBool(a >= b)

AreInts(args, count) == Len(args) = count /\ \A i \in DOMAIN args : args[i].t = "int"

EvalBuiltin(rt, op, args) ==
  CASE op = "cells" ->
         IF AreInts(args, 1) /\ args[1].v > 0 THEN AllocCells(rt, args[1].v)
         ELSE Error(rt, "bounds")
    [] op = "not" ->
         IF Len(args) = 1 /\ args[1].t = "bool" THEN Ok(rt, MakeBool(args[1].v = 0))
         ELSE Error(rt, "type")
    [] op = "negate" ->
         IF AreInts(args, 1) THEN Ok(rt, MakeInt(WrapInt(-args[1].v)))
         ELSE Error(rt, "type")
    [] op \in {"==", "!="} ->
         IF Len(args) # 2 THEN Error(rt, "signature")
         ELSE Ok(rt, MakeBool(ValueEquals(rt, args[1], args[2]) = (op = "==")))
    [] OTHER ->
         IF ~AreInts(args, 2) THEN Error(rt, "type")
         ELSE IF op \in {"/", "%"} /\ args[2].v = 0 THEN Error(rt, "division")
         ELSE Ok(rt, ArithmeticValue(op, args[1].v, args[2].v))

(* A native that put another image in place ends the evaluation: the epoch  *)
(* its frames were opened in is over.                                       *)
Resetting(r) == IF r.err = "ok" THEN [r EXCEPT !.err = "reset"] ELSE r

(* see, core and slotInfo report on the slot a text or a designator names.  *)
InspectName(rt, value) ==
  IF value.t = "slot" THEN rt.slots[value.v].name ELSE Object(rt, value).text

Inspect(rt, value) ==
  CASE value.t # "slot" /\ ~HasKind(rt, value, {"text"}) -> Error(rt, "type")
    [] InspectName(rt, value) = <<>> -> Error(rt, "bounds")
    [] SlotValue(rt, InspectName(rt, value)) = Unbound -> Error(rt, "undefined")
    [] OTHER -> Ok(rt, Nil)

EvalNative(rt, name, args) ==
  CASE name = "save" -> Save(rt)
    [] name = "restore" -> Resetting(Restore(rt))
    [] name = "wipe" -> Resetting(Wipe(rt))
    [] name = "words" -> Ok(rt, Nil)
    [] name \in {"see", "core", "slotInfo"} -> Inspect(rt, args[1])

-----------------------------------------------------------------------------
(* Nodes.                                                                   *)

RECURSIVE Eval(_, _, _), EvalWhile(_, _, _), EvalSeq(_, _, _)

(* The nodes ids one after the other, and their values.                     *)
EvalList(m, prog, ids) ==
  FoldLeft(LAMBDA acc, id : LET n == Eval(acc.m, prog, id)
                            IN [m |-> n, vals |-> Append(acc.vals, n.val)],
           [m |-> m, vals |-> <<>>], ids)

Span(prog, node) == SubSeq(prog.links, node.first, node.first + node.count - 1)

(* The callee's arity is compared with the number of arguments before any   *)
(* of them is evaluated.                                                    *)
CallError(rt, callee, count) ==
  LET object == Object(rt, callee)
      arity == IF object.kind = "recordDef" THEN Len(object.fields) ELSE object.arity
  IN CASE ~HasKind(rt, callee, {"code", "native", "recordDef"}) -> "type"
       [] arity # count -> "signature"
       [] object.kind = "code" /\ object.locals < arity -> "signature"
       [] OTHER -> "ok"

EvalCode(m, code, args) ==
  LET locals == [i \in 1 .. code.locals |-> IF i \in DOMAIN args THEN args[i] ELSE Nil]
  IN [Eval([m EXCEPT !.locals = locals], code.prog, code.body)
        EXCEPT !.locals = m.locals]

EvalCallee(m, prog, node, callee) ==
  LET args == EvalList(m, prog, Span(prog, node))
      object == Object(m.rt, callee)
  IN CASE m.err # "ok" -> m
       [] CallError(m.rt, callee, node.count) # "ok" ->
            EvalFail(m, CallError(m.rt, callee, node.count))
       [] args.m.err # "ok" -> args.m
       [] object.kind = "native" ->
            Complete(args.m, EvalNative(args.m.rt, object.name, args.vals))
       [] object.kind = "recordDef" ->
            Complete(args.m, AllocRecord(args.m.rt, callee, args.vals))
       [] object.kind = "code" -> EvalCode(args.m, object, args.vals)

EvalCall(m, prog, node) ==
  LET args == EvalList(m, prog, Span(prog, node))
      callee == Eval(m, prog, node.callee)
  IN IF node.builtin # "none"
     THEN IF args.m.err # "ok" THEN args.m
          ELSE Complete(args.m, EvalBuiltin(args.m.rt, node.builtin, args.vals))
     ELSE EvalCallee(callee, prog, node, callee.val)

EvalIf(m, prog, node) ==
  LET test == Eval(m, prog, node.test)
  IN CASE test.err # "ok" -> test
       [] test.val.t # "bool" -> EvalFail(test, "type")
       [] IsTrue(test.val) -> Eval(test, prog, node.then)
       [] node.hasElse -> Eval(test, prog, node.else)
       [] OTHER -> CompleteValue(test, Nil)

EvalWhile(m, prog, node) ==
  LET test == Eval(m, prog, node.test)
  IN CASE test.err # "ok" -> test
       [] test.val.t # "bool" -> EvalFail(test, "type")
       [] IsTrue(test.val) ->
            LET body == PollInterrupt(Eval(test, prog, node.body))
            IN IF body.err # "ok" THEN body ELSE EvalWhile(body, prog, node)
       [] OTHER -> CompleteValue(test, Nil)

(* The value of a sequence is the value of its last item.                   *)
EvalSeq(m, prog, ids) ==
  CASE m.err # "ok" -> m
    [] ids = <<>> -> CompleteValue(m, Nil)
    [] Len(ids) = 1 -> Eval(m, prog, ids[1])
    [] OTHER -> EvalSeq(PollInterrupt(Eval(m, prog, ids[1])), prog, Tail(ids))

EvalWriteLocal(m, prog, node) ==
  LET value == Eval(m, prog, node.value)
  IN IF node.index >= Len(m.locals) THEN EvalFail(m, "bounds")
     ELSE IF value.err # "ok" THEN value
     ELSE CompleteValue([value EXCEPT !.locals[node.index + 1] = value.val], Nil)

RecordFields(prog, node) ==
  [i \in 1 .. node.count |-> prog.lits[Span(prog, node)[i]].text]

(* A node whose children are evaluated in order and then used.              *)
EvalOperands(m, prog, node) ==
  LET ids == CASE node.kind \in {"writeSlot", "writeFallback"} -> <<node.value>>
               [] node.kind = "readIndex" -> <<node.base, node.index>>
               [] node.kind = "writeIndex" -> <<node.base, node.index, node.value>>
               [] node.kind = "readField" -> <<node.base>>
               [] node.kind = "writeField" -> <<node.base, node.value>>
      list == EvalList(m, prog, ids)
      v == list.vals
      rt == list.m.rt
  IN IF list.m.err # "ok" THEN list.m
     ELSE Complete(list.m,
       CASE node.kind = "writeSlot" -> SlotWriteOwned(rt, node.slot, v[1], node.existing)
         [] node.kind = "writeFallback" ->
              SlotWriteFallback(rt, node.slot, node.fallback, v[1], node.existing)
         [] node.kind = "readIndex" -> ReadIndex(rt, v[1], v[2])
         [] node.kind = "writeIndex" -> WriteIndex(rt, v[1], v[2], v[3])
         [] node.kind = "readField" -> RecordReadField(rt, v[1], node.field)
         [] node.kind = "writeField" -> RecordWriteField(rt, v[1], node.field, v[2]))

EvalLeaf(m, prog, node) ==
  CASE node.kind = "lit" -> Complete(m, FromLiteral(m.rt, prog.lits[node.lit]))
    [] node.kind = "readLocal" ->
         IF node.index >= Len(m.locals) THEN EvalFail(m, "bounds")
         ELSE CompleteValue(m, m.locals[node.index + 1])
    [] node.kind = "readSlot" -> Complete(m, SlotReadOwned(m.rt, node.slot))
    [] node.kind = "readFallback" ->
         Complete(m, SlotReadFallback(m.rt, node.slot, node.fallback))
    [] node.kind = "designator" -> Complete(m, MakeSlotDesignator(m.rt, node.slot))
    [] node.kind = "recordDef" ->
         Complete(m, AllocRecordDef(m.rt, node.slot, RecordFields(prog, node)))
    [] node.kind = "fn" ->
         Complete(m, AllocCode(m.rt, prog, node.body, node.arity, node.locals))

Leaves == {"lit", "readLocal", "readSlot", "readFallback", "designator", "recordDef", "fn"}

EvalNode(m, prog, node) ==
  CASE node.kind \in Leaves -> EvalLeaf(m, prog, node)
    [] node.kind = "writeLocal" -> EvalWriteLocal(m, prog, node)
    [] node.kind = "call" -> EvalCall(m, prog, node)
    [] node.kind = "if" -> EvalIf(m, prog, node)
    [] node.kind = "while" -> EvalWhile(m, prog, node)
    [] node.kind = "seq" -> EvalSeq(m, prog, Span(prog, node))
    [] OTHER -> EvalOperands(m, prog, node)

Eval(m, prog, id) ==
  LET entered == PushFrameState(m)
  IN IF m.err # "ok" THEN m
     ELSE IF entered.err # "ok" THEN entered
     ELSE PopFrameState(EvalNode(entered, prog, prog.nodes[id]), m.depth)

Machine(rt, locals, fuel) ==
  [rt |-> rt, locals |-> [i \in 1 .. locals |-> Nil], err |-> "ok", val |-> Nil,
   fuel |-> fuel, depth |-> 0]

(* What is seen of a value once its reference is dropped: its class, and    *)
(* its content unless it is an object.                                      *)
ValueClass(rt, value) ==
  IF value.t = "obj" THEN [t |-> Object(rt, value).kind, v |-> 0] ELSE value

(* A reset in the middle of a program is its end, and no error.             *)
EvalProgram(rt, prog, fuel) ==
  LET m == Eval(Machine(rt, prog.locals, fuel), prog, prog.root)
  IN CASE m.err = "ok" -> Ok(Release(m.rt), ValueClass(m.rt, m.val))
       [] m.err = "reset" -> Ok(Release(m.rt), Nil)
       [] OTHER -> Error(Release(m.rt), m.err)

(* Parse and evaluate.  phase tells where an error came from.               *)
EvalSource(runtime, source, polls) ==
  LET prog == ParseSource(source)
      r == EvalProgram(runtime, prog, polls)
  IN IF prog.err # "ok"
     THEN [rt |-> runtime, phase |-> "parse", err |-> prog.err, val |-> Nil]
     ELSE [rt |-> r.rt, phase |-> IF r.err = "ok" THEN "none" ELSE "eval",
           err |-> r.err, val |-> r.val]

=============================================================================
