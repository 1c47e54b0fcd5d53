------------------------------- MODULE Evaluator -------------------------------
(***************************************************************************)
(* The evaluator of the Frothy runtime (frothy_eval.c) and the reference   *)
(* counts of its objects (frothy_value.c).  A program is evaluated by a    *)
(* stack of frames, each with three scratch values; arguments and locals   *)
(* live in one arena of values.  Whoever holds an object owns one count.   *)
(*                                                                         *)
(* The program itself is left open: what kind of node a frame evaluates is *)
(* chosen when its evaluation starts, again in every iteration of a loop,  *)
(* so a behaviour exists for every program.  Integers, booleans and nil    *)
(* are one value, Imm, and a check of them may go either way; cells and    *)
(* records have one element.  An iteration of frothy_eval_node's loop is   *)
(* one step.                                                               *)
(***************************************************************************)
EXTENDS Naturals, Sequences, SequencesExt, FiniteSets, FiniteSetsExt

CONSTANTS
  FrameCapacity,  \* FROTHY_EVAL_FRAME_CAPACITY
  ArenaLimit,     \* eval_value_limit
  ObjectCapacity, \* FROTHY_OBJECT_CAPACITY
  Slots,          \* the slots of the table
  ResetSlot,      \* the slot the base image binds to a native that resets
  Imm             \* every value that is not an object

ASSUME EvaluatorAssumption ==
  /\ FrameCapacity \in Nat \ {0}
  /\ ArenaLimit \in Nat
  /\ ObjectCapacity \in Nat \ {0}
  /\ IsFiniteSet(Slots) /\ ResetSlot \in Slots
  /\ Imm \notin 1 .. ObjectCapacity

VARIABLES
  heap,         \* the object table
  slots,        \* the value each slot is bound to, Unbound if none
  frames,       \* frothy_eval_frame_stack
  arena, used,  \* eval_values, eval_value_used
  rootLocals,   \* the locals of the program
  result,       \* the value the program is evaluated to
  running,      \* a program is being evaluated
  stale,        \* the runtime was reset since the frames were made
  interrupted   \* froth_vm.interrupted

vars == <<heap, slots, frames, arena, used, rootLocals, result, running, stale,
          interrupted>>

ObjectIds == 1 .. ObjectCapacity
Values == ObjectIds \cup {Imm}
Unbound == 0
NoObject == [kind |-> "free", refs |-> 0, arity |-> 0, kids |-> <<>>]
NoBuffer == [base |-> 0, count |-> 0]

ObjectKinds == {"free", "text", "cells", "code", "def", "record", "native"}
FrameKinds == {"new", "writeLocal", "writeSlot", "readIndex", "writeIndex",
               "readField", "writeField", "builtin", "call", "if", "while", "seq"}

Live(h) == {o \in ObjectIds : h[o].kind # "free"}

(* What the base image binds: one native.                                  *)
BaseHeap ==
  [o \in ObjectIds |->
     IF o = 1 THEN [NoObject EXCEPT !.kind = "native", !.refs = 1] ELSE NoObject]
BaseSlots == [s \in Slots |-> IF s = ResetSlot THEN 1 ELSE Unbound]
EmptyArena == [i \in 1 .. ArenaLimit |-> Imm]

Init ==
  /\ heap = BaseHeap /\ slots = BaseSlots
  /\ frames = <<>>
  /\ arena = EmptyArena /\ used = 0
  /\ rootLocals = NoBuffer
  /\ result = Imm
  /\ running = FALSE
  /\ stale = FALSE
  /\ interrupted = FALSE

Buffers == [base : 0 .. ArenaLimit, count : 0 .. ArenaLimit]
Outs == {<<"result", 0, 0>>}
          \cup ({"arena"} \X (1 .. ArenaLimit) \X {0})
          \cup ({"scratch"} \X (1 .. FrameCapacity) \X (1 .. 3))

Objects == [kind : ObjectKinds, refs : Nat, arity : 0 .. 1, kids : Seq(Values)]

Frames ==
  [kind : FrameKinds, phase : 0 .. 3, index : 0 .. ArenaLimit,
   values : [1 .. 3 -> Values], buffer : Buffers, locals : Buffers, out : Outs]

(* Every variable has the type of its C counterpart: the frames fit into   *)
(* frothy_eval_frame_stack, the buffers into eval_values, and every value  *)
(* in them names an object of the table.                                   *)
TypeOK ==
  /\ heap \in [ObjectIds -> Objects]
  /\ slots \in [Slots -> Values \cup {Unbound}]
  /\ frames \in Seq(Frames) /\ Len(frames) <= FrameCapacity
  /\ arena \in [1 .. ArenaLimit -> Values]
  /\ used \in 0 .. ArenaLimit
  /\ rootLocals \in Buffers
  /\ result \in Values
  /\ running \in BOOLEAN /\ stale \in BOOLEAN /\ interrupted \in BOOLEAN

----------------------------------------------------------------------------
(* Reference counts.                                                       *)

Retain(h, v) == IF v \in ObjectIds THEN [h EXCEPT ![v].refs = @ + 1] ELSE h

Occurrences(s, o) == Cardinality({k \in DOMAIN s : s[k] = o})

(* What the objects in S hold: cells one element, a record its field and   *)
(* its definition.                                                         *)
Elements == 1 .. 2
Kids(h, S) ==
  [p \in {q \in S \X Elements : q[2] \in DOMAIN h[q[1]].kids} |-> h[p[1]].kids[p[2]]]

(* How often o is released when todo is, and the objects in dead are freed. *)
Drops(h, todo, dead, o) == Occurrences(todo, o) + Occurrences(Kids(h, dead), o)

(* Faulty variant: what a dead object holds is not released.               *)
DeadShallow(h, todo) == {o \in Live(h) : h[o].refs <= Occurrences(todo, o)}

(* The objects whose last count goes: those released as often as they are  *)
(* held, what a dead object holds included.                                *)
Dead(h, todo) ==
  LET closed == {S \in SUBSET Live(h) :
                   \A o \in Live(h) \ S : h[o].refs > Drops(h, todo, S, o)}
  IN  CHOOSE S \in closed : \A T \in closed : S \subseteq T

(* frothy_value_release of every value of todo.                            *)
Release(h, todo) ==
  LET dead == Dead(h, todo) IN
    IF Range(todo) \subseteq {Imm} THEN h
    ELSE [o \in ObjectIds |->
            IF o \notin Live(h) THEN h[o]
            ELSE IF o \in dead THEN NoObject
            ELSE [h[o] EXCEPT !.refs = @ - Drops(h, todo, dead, o)]]

(* frothy_runtime_append_object: the first free entry.                     *)
CanAppend(h) == Live(h) # ObjectIds
Appended(h) == Min(ObjectIds \ Live(h))
Append1(h, object) == [h EXCEPT ![Appended(h)] = object]

Object(kind, arity, kids) == [kind |-> kind, refs |-> 1, arity |-> arity, kids |-> kids]

(* The first element of the object c becomes w.                            *)
WithKid(h, c, w) == [h EXCEPT ![c].kids[1] = w]

(* A value that cells and records may hold.                                *)
Storable(h, v) == v # Imm => h[v].kind \in {"text", "record"}

KindOf(v) == IF v = Imm THEN "imm" ELSE heap[v].kind

----------------------------------------------------------------------------
(* Frames.                                                                 *)

Depth == Len(frames)
Top == frames[Depth]

(* A buffer in the arena and what it holds.                                *)
Cells(b) == b.base + 1 .. b.base + b.count
Region(b) == [i \in Cells(b) |-> arena[i]]

(* The locals of the program, then the buffers of the frames.              *)
BufferOf(n) == IF n = 0 THEN rootLocals ELSE frames[n].buffer

(* The places of the frames' values, and those of the buffers.             *)
ScratchPlaces == (1 .. Depth) \X (1 .. 3)
BufferPlaces == {0} \X UNION {Cells(BufferOf(n)) : n \in 0 .. Depth}

(* Everything the program holds.                                           *)
Owned ==
  [p \in ScratchPlaces \cup BufferPlaces |->
     IF p[1] = 0 THEN arena[p[2]] ELSE frames[p[1]].values[p[2]]]
Scratch == [p \in ScratchPlaces |-> frames[p[1]].values[p[2]]]

(* frothy_eval_frame_state_cleanup: a frame gives up what it owns.         *)
Cleanup(h, f) == Release(Release(h, f.values), Region(f.buffer))

NewFrame(locals, out) ==
  [kind |-> "new", phase |-> 0, index |-> 0, values |-> <<Imm, Imm, Imm>>,
   buffer |-> NoBuffer, locals |-> locals, out |-> out]

Erased(a, b) == [i \in DOMAIN a |-> IF i \in Cells(b) THEN Imm ELSE a[i]]

(* frothy_eval_exec_cleanup and frothy_frame_free: the program ends with an*)
(* error, over the object table h.  Values of before a reset are dropped.  *)
Fail(h) ==
  /\ heap' = IF stale THEN h ELSE Release(h, Owned)
  /\ frames' = <<>>
  /\ arena' = EmptyArena /\ used' = 0
  /\ rootLocals' = NoBuffer
  /\ result' = Imm
  /\ running' = FALSE /\ stale' = FALSE

(* The top frame becomes f and a child is pushed, or there is no room.     *)
PushChild(f, locals, out) ==
  \/ /\ Depth < FrameCapacity
     /\ frames' = Append([frames EXCEPT ![Depth] = f], NewFrame(locals, out))
     /\ UNCHANGED <<heap, arena, used, rootLocals, result, running, stale>>
  \/ Depth = FrameCapacity /\ Fail(heap)

(* frothy_eval_push_scratch_child.                                         *)
PushScratch(f, phase, slot) ==
  PushChild([f EXCEPT !.phase = phase], f.locals, <<"scratch", Depth, slot>>)

(* Faulty variant: the buffer of a frame stays in the arena.               *)
UsedAfterKept(f) == used

(* frothy_eval_buffer_free gives the buffer of a frame back to the arena.  *)
UsedAfter(f) == IF f.buffer.count > 0 THEN f.buffer.base ELSE used

(* frothy_eval_complete_value: v goes to where f's value is wanted, and the*)
(* frame is popped; h and a are the object table and the arena before that.*)
Complete(h, a, f, v) ==
  /\ heap' = Cleanup(h, f)
  /\ LET popped == Front(frames) IN
       frames' = IF f.out[1] = "scratch"
                   THEN [popped EXCEPT ![f.out[2]].values[f.out[3]] = v]
                   ELSE popped
  /\ LET rest == Erased(a, f.buffer) IN
       arena' = IF f.out[1] = "arena" THEN [rest EXCEPT ![f.out[2]] = v] ELSE rest
  /\ used' = UsedAfter(f)
  /\ result' = IF f.out[1] = "result" THEN v ELSE result
  /\ UNCHANGED <<rootLocals, running, stale>>

Out(f) ==
  IF f.out[1] = "result" THEN result
  ELSE IF f.out[1] = "arena" THEN arena[f.out[2]]
  ELSE frames[f.out[2]].values[f.out[3]]

(* Faulty variant: only calls poll for an interrupt.                       *)
PollsAtCalls == Top.kind = "call" /\ Top.phase = 1

(* A node polls for an interrupt before its first phase, a loop before     *)
(* every iteration.                                                        *)
Polls == Top.phase = 0

(* The loop goes on with the top frame.                                    *)
Eval(kind, phase) ==
  /\ running /\ ~stale /\ frames # <<>>
  /\ Top.kind = kind /\ Top.phase = phase
  /\ Polls => ~interrupted
  /\ UNCHANGED interrupted

----------------------------------------------------------------------------
(* Leaves.                                                                 *)

(* A literal, a function or a record definition; a text and the other two  *)
(* are new objects, whose payload may not fit either.  Every leaf may fail:*)
(* a local or a slot that is not there.                                    *)
Make ==
  /\ Eval("new", 0)
  /\ \/ Complete(heap, arena, Top, Imm)
     \/ /\ CanAppend(heap)
        /\ \E object \in {Object("text", 0, <<>>), Object("def", 1, <<>>),
                         Object("code", 1, <<>>)} :
             Complete(Append1(heap, object), arena, Top, Appended(heap))
     \/ Fail(heap)
  /\ UNCHANGED slots

ReadLocal ==
  /\ Eval("new", 0)
  /\ \E i \in 1 .. Top.locals.count :
       LET v == arena[Top.locals.base + i] IN
         Complete(Retain(heap, v), arena, Top, v)
  /\ UNCHANGED slots

ReadSlot ==
  /\ Eval("new", 0)
  /\ \E s \in {t \in Slots : slots[t] # Unbound} :
       Complete(Retain(heap, slots[s]), arena, Top, slots[s])
  /\ UNCHANGED slots

----------------------------------------------------------------------------
(* Nodes with children.  The values of the children come into the scratch  *)
(* values, the last step of the node uses them.                            *)

Start(kind) ==
  /\ Eval("new", 0)
  /\ kind = "writeLocal" => Top.locals.count > 0
  /\ PushScratch([Top EXCEPT !.kind = kind], 1, 1)
  /\ UNCHANGED slots

NextChild(kind, phase) ==
  /\ Eval(kind, phase)
  /\ PushScratch(Top, phase + 1, phase + 1)
  /\ UNCHANGED slots

(* Values that moved out of a frame or were released early.                *)
Without(f, gone) == [f EXCEPT !.values = [k \in 1 .. 3 |-> IF k \in gone THEN Imm ELSE @[k]]]

WriteLocal ==
  /\ Eval("writeLocal", 1)
  /\ \E i \in 1 .. Top.locals.count :
       LET at == Top.locals.base + i IN
         Complete(Release(heap, <<arena[at]>>), [arena EXCEPT ![at] = Top.values[1]],
                  Without(Top, {1}), Imm)
  /\ UNCHANGED slots

(* The slot may be new, missing although it has to exist, or the value be  *)
(* a slot designator.                                                      *)
WriteSlot ==
  /\ Eval("writeSlot", 1)
  /\ \/ \E s \in Slots :
          LET old == IF slots[s] = Unbound THEN <<>> ELSE <<slots[s]>> IN
            /\ slots' = [slots EXCEPT ![s] = Top.values[1]]
            /\ Complete(Release(heap, old), arena, Without(Top, {1}), Imm)
     \/ Fail(heap) /\ UNCHANGED slots

(* An element of cells (kid 1) or a field of a record (kid 1).             *)
ReadElement(kind, phase, container) ==
  /\ Eval(kind, phase)
  /\ \/ /\ KindOf(Top.values[1]) = container
        /\ LET v == heap[Top.values[1]].kids[1] IN Complete(Retain(heap, v), arena, Top, v)
     \/ Fail(heap)
  /\ UNCHANGED slots

ReadIndex == ReadElement("readIndex", 2, "cells")
ReadField == ReadElement("readField", 1, "record")

(* The old element is released, the new one moves in.                      *)
WriteElement(kind, phase, container) ==
  /\ Eval(kind, phase)
  /\ \/ /\ KindOf(Top.values[1]) = container
        /\ Storable(heap, Top.values[phase])
        /\ LET old == heap[Top.values[1]].kids[1]
               h == WithKid(Release(heap, <<old>>), Top.values[1], Top.values[phase])
           IN  Complete(h, arena, Without(Top, {phase}), Imm)
     \/ Fail(heap)
  /\ UNCHANGED slots

WriteIndex == WriteElement("writeIndex", 3, "cells")
WriteField == WriteElement("writeField", 2, "record")

----------------------------------------------------------------------------
(* Calls.                                                                  *)

(* frothy_eval_buffer_init, then the arguments are evaluated into the      *)
(* buffer.                                                                 *)
ToArguments(f, count) ==
  \/ /\ used + count <= ArenaLimit
     /\ frames' = [frames EXCEPT ![Depth] =
                     [f EXCEPT !.phase = 2, !.buffer = [base |-> used, count |-> count]]]
     /\ used' = used + count
     /\ UNCHANGED <<heap, arena, rootLocals, result, running, stale>>
  \/ used + count > ArenaLimit /\ Fail(heap)

Builtin ==
  /\ Eval("new", 0)
  /\ \E count \in 1 .. 2 : ToArguments([Top EXCEPT !.kind = "builtin"], count)
  /\ UNCHANGED slots

(* The callee is code, a native or a record definition, called with as     *)
(* many arguments as it takes; the buffer of code holds all its locals.    *)
Callee ==
  /\ Eval("call", 1)
  /\ \/ /\ KindOf(Top.values[1]) \in {"code", "native", "def"}
        /\ ToArguments(Top, heap[Top.values[1]].arity)
     \/ Fail(heap)
  /\ UNCHANGED slots

ArgCount(f) == IF f.kind = "builtin" THEN f.buffer.count ELSE heap[f.values[1]].arity

Argument(kind) ==
  /\ Eval(kind, 2)
  /\ Top.index < ArgCount(Top)
  /\ PushChild([Top EXCEPT !.index = @ + 1], Top.locals,
               <<"arena", Top.buffer.base + Top.index + 1, 0>>)
  /\ UNCHANGED slots

Ready(kind) == Eval(kind, 2) /\ Top.index = ArgCount(Top)

(* Arithmetic and comparison, or cells of length 1.                        *)
CallBuiltin ==
  /\ Ready("builtin")
  /\ \/ Complete(heap, arena, Top, Imm)
     \/ /\ Top.buffer.count = 1 /\ arena[Top.buffer.base + 1] = Imm
        /\ CanAppend(heap)
        /\ Complete(Append1(heap, Object("cells", 0, <<Imm>>)), arena, Top, Appended(heap))
     \/ Fail(heap)
  /\ UNCHANGED slots

(* The arguments are borrowed; the result may be new.                      *)
CallNative ==
  /\ Ready("call")
  /\ KindOf(Top.values[1]) = "native"
  /\ \/ Complete(heap, arena, Top, Imm)
     \/ /\ CanAppend(heap)
        /\ Complete(Append1(heap, Object("text", 0, <<>>)), arena, Top, Appended(heap))
     \/ Fail(heap)
  /\ UNCHANGED slots

(* frothy_runtime_alloc_record counts its definition and its field.        *)
CallDef ==
  /\ Ready("call")
  /\ KindOf(Top.values[1]) = "def"
  /\ LET field == arena[Top.buffer.base + 1]
         def == Top.values[1]
     IN  \/ /\ Storable(heap, field)
            /\ CanAppend(heap)
            /\ Complete(Append1(Retain(Retain(heap, def), field),
                                Object("record", 0, <<field, def>>)),
                        arena, Top, Appended(heap))
         \/ Fail(heap)
  /\ UNCHANGED slots

(* Faulty variant: the callee is released before its body runs.            *)
CallCodeReleased ==
  /\ Ready("call")
  /\ KindOf(Top.values[1]) = "code"
  /\ Depth < FrameCapacity
  /\ heap' = Release(heap, <<Top.values[1]>>)
  /\ frames' = Append([frames EXCEPT ![Depth] = [Without(@, {1}) EXCEPT !.phase = 3]],
                      NewFrame(Top.buffer, Top.out))
  /\ UNCHANGED <<slots, arena, used, rootLocals, result, running, stale>>

CallCode ==
  /\ Ready("call")
  /\ KindOf(Top.values[1]) = "code"
  /\ PushChild([Top EXCEPT !.phase = 3], Top.buffer, Top.out)
  /\ UNCHANGED slots

(* The last child wrote where the node's own value is wanted.              *)
Passed(kind, phase) ==
  /\ Eval(kind, phase)
  /\ Complete(heap, arena, Top, Out(Top))
  /\ UNCHANGED slots

----------------------------------------------------------------------------
(* Control.                                                                *)

PushBranch(f) == PushChild([f EXCEPT !.phase = 2], f.locals, f.out)

(* The condition is an object, or false with no else branch, or a branch.  *)
Branch ==
  /\ Eval("if", 1)
  /\ IF Top.values[1] # Imm THEN Fail(heap)
     ELSE \/ PushBranch(Top)
          \/ Complete(heap, arena, Top, Imm)
          \/ Fail(heap)
  /\ UNCHANGED slots

WhileCondition ==
  /\ Eval("while", 0)
  /\ PushScratch(Top, 1, 1)
  /\ UNCHANGED slots

WhileBody ==
  /\ Eval("while", 1)
  /\ IF Top.values[1] # Imm THEN Fail(heap)
     ELSE \/ PushScratch(Top, 2, 2)
          \/ Complete(heap, arena, Top, Imm)
          \/ Fail(heap)
  /\ UNCHANGED slots

(* frothy_eval_release_slot of a value nobody wants; phase 0 again.        *)
Discard(kind, phase, slot) ==
  /\ Eval(kind, phase)
  /\ heap' = Release(heap, <<Top.values[slot]>>)
  /\ frames' = [frames EXCEPT ![Depth] = [Without(@, {slot}) EXCEPT !.phase = 0]]
  /\ UNCHANGED <<slots, arena, used, rootLocals, result, running, stale>>

SeqItem ==
  /\ Eval("seq", 0)
  /\ PushScratch(Top, 1, 1)
  /\ UNCHANGED slots

SeqLast ==
  /\ Eval("seq", 0) \/ Eval("new", 0)
  /\ PushBranch([Top EXCEPT !.kind = "seq"])
  /\ UNCHANGED slots

----------------------------------------------------------------------------
(* Programs.                                                               *)

(* frothy_eval_program.                                                    *)
EvalProgram ==
  /\ ~running /\ result = Imm
  /\ \E count \in {0, 1} :
       /\ count <= ArenaLimit
       /\ rootLocals' = [base |-> 0, count |-> count]
       /\ used' = count
       /\ frames' = <<NewFrame(rootLocals', <<"result", 0, 0>>)>>
  /\ running' = TRUE
  /\ UNCHANGED <<heap, slots, arena, result, stale, interrupted>>

(* The program has a value.                                                *)
ProgramEnds ==
  /\ running /\ ~stale /\ frames = <<>>
  /\ heap' = Release(heap, Region(rootLocals))
  /\ rootLocals' = NoBuffer
  /\ arena' = EmptyArena /\ used' = 0
  /\ running' = FALSE
  /\ UNCHANGED <<slots, frames, result, stale, interrupted>>

(* frothy_shell_eval_result_free, after the value was shown.               *)
FreeResult ==
  /\ ~running /\ result # Imm
  /\ heap' = Release(heap, <<result>>)
  /\ result' = Imm
  /\ UNCHANGED <<slots, frames, arena, used, rootLocals, running, stale, interrupted>>

(* A native resets the runtime: nothing of the overlay is left, the base   *)
(* image is installed again, and the frames that are still there hold      *)
(* values of before.  The native may fail afterwards.                      *)
NativeResets ==
  /\ Ready("call")
  /\ KindOf(Top.values[1]) = "native"
  /\ heap' = BaseHeap /\ slots' = BaseSlots
  /\ used' = 0
  /\ stale' = TRUE
  /\ UNCHANGED <<frames, arena, rootLocals, result, running>>

(* The loop sees another epoch: FROTH_ERROR_RESET, or the native's error.  *)
ResetEnds ==
  /\ running /\ stale
  /\ Fail(heap)
  /\ UNCHANGED <<slots, interrupted>>

(* frothy_poll_interrupt.                                                  *)
PollInterrupt ==
  /\ running /\ ~stale /\ frames # <<>> /\ Polls
  /\ interrupted /\ interrupted' = FALSE
  /\ Fail(heap)
  /\ UNCHANGED slots

(* The prompt takes a pending interrupt when it waits for a line.          *)
PromptInterrupted ==
  /\ ~running /\ interrupted /\ interrupted' = FALSE
  /\ UNCHANGED <<heap, slots, frames, arena, used, rootLocals, result, running, stale>>

(* SIGINT, at any time.                                                    *)
Signal ==
  /\ ~interrupted /\ interrupted' = TRUE
  /\ UNCHANGED <<heap, slots, frames, arena, used, rootLocals, result, running, stale>>

Leaf == Make \/ ReadLocal \/ ReadSlot

Begin ==
  \/ Start("writeLocal") \/ Start("writeSlot")
  \/ Start("readIndex") \/ Start("writeIndex")
  \/ Start("readField") \/ Start("writeField")
  \/ Start("call") \/ Builtin
  \/ Start("if") \/ Start("while") \/ Start("seq") \/ SeqLast

Continue ==
  \/ WriteLocal \/ WriteSlot
  \/ NextChild("readIndex", 1) \/ ReadIndex
  \/ NextChild("writeIndex", 1) \/ NextChild("writeIndex", 2) \/ WriteIndex
  \/ ReadField
  \/ NextChild("writeField", 1) \/ WriteField
  \/ Callee \/ Argument("call") \/ Argument("builtin")
  \/ CallBuiltin \/ CallNative \/ CallDef \/ CallCode \/ Passed("call", 3)
  \/ Branch \/ Passed("if", 2)
  \/ WhileCondition \/ WhileBody \/ Discard("while", 2, 2)
  \/ SeqItem \/ Discard("seq", 1, 1) \/ Passed("seq", 2)

Step == Leaf \/ Begin \/ Continue \/ NativeResets \/ ResetEnds \/ PollInterrupt \/ ProgramEnds

Next == EvalProgram \/ Step \/ FreeResult \/ PromptInterrupted \/ Signal

Spec == Init /\ [][Next]_vars

(* The loop of frothy_eval_node goes on while a program runs: every step   *)
(* of the evaluator changes one of these, and one is enabled whenever a    *)
(* program runs (a state with none would be a deadlock once interrupted).  *)
(* So this is weak fairness of Step.  Whether the user interrupts, and     *)
(* whether a loop ends, stays open.                                        *)
evaluation == <<frames, running, stale>>
FairSpec == Spec /\ ([]<>(~running) \/ []<><<TRUE>>_evaluation)

----------------------------------------------------------------------------
(* Everything that owns a count of o.                                      *)
Holders(o) ==
  LET in(f) == Occurrences(f, o) IN
    in(slots) + in(<<result>>) + in(Kids(heap, Live(heap)))
      + (IF stale THEN 0 ELSE in(Scratch) + in(arena))

(* The count of every object is the number of slots, elements, scratch     *)
(* values, arguments, locals and results that hold it, after every step of *)
(* every program, and so after every error, interrupt and reset: nothing   *)
(* is released twice, nothing that is held is gone.                        *)
RefsExact ==
  \A o \in ObjectIds :
    IF o \in Live(heap) THEN heap[o].refs = Holders(o) /\ heap[o].refs > 0
    ELSE Holders(o) = 0

(* While the body of a function runs, the object that holds its program is *)
(* alive, whatever the body does to the slot it was called through.        *)
RunningCodeLives ==
  ~stale => \A f \in Range(frames) :
    f.kind = "call" /\ f.phase = 3 => KindOf(f.values[1]) = "code"

(* Buffers are stacked in the arena in the order of their frames without   *)
(* a gap, and the arena is empty between programs.                         *)
ArenaStacked ==
  /\ TypeOK
  /\ ~running => used = 0
  /\ running /\ ~stale =>
       /\ \A m, n \in 0 .. Depth :
            m < n => \A i \in Cells(BufferOf(m)), j \in Cells(BufferOf(n)) : i < j
       /\ UNION {Cells(BufferOf(n)) : n \in 0 .. Depth} = 1 .. used

(* A program that is interrupted ends, endless loops included.             *)
InterruptStops == running /\ interrupted ~> ~running
=============================================================================
