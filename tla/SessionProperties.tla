------------------------- MODULE SessionProperties -------------------------
(***************************************************************************)
(* What has to hold of a session, stated against definitions that do not   *)
(* follow the code: reachability, trees, isomorphism of images.            *)
(***************************************************************************)
EXTENDS Session, Interp

CONSTANTS
  Parse(_),  \* the program a source is, ParseSource of Parser
  Meanings   \* by script: lines, each with the error or value it stands for

-----------------------------------------------------------------------------
(* Programs, seen from their root.                                          *)

(* The nodes below a node, in the order they are evaluated.                 *)
Children(prog, node) ==
  LET Opt(field) == IF field \in NodeRefs(node) THEN <<node[field]>> ELSE <<>>
  IN Opt("callee") \o Opt("test") \o Opt("base") \o Opt("index") \o Opt("value")
       \o Opt("then") \o Opt("else") \o Opt("body")
       \o (IF node.kind \in {"call", "seq"} THEN Span(prog, node) ELSE <<>>)

RECURSIVE Below(_, _)
Below(prog, id) ==
  {id} \cup UNION {Below(prog, child) : child \in Range(Children(prog, prog.nodes[id]))}

(* Children come before their parents, and no node has two.                 *)
IsTree(prog) ==
  /\ \A id \in DOMAIN prog.nodes :
       Range(Children(prog, prog.nodes[id])) \subseteq 1 .. id - 1
  /\ LET reached == Below(prog, prog.root)
     IN MapThenSumSet(LAMBDA id : Len(Children(prog, prog.nodes[id])), reached)
          = Cardinality(reached) - 1

(* The locals that are set after a node was evaluated, if those in set were *)
(* before; a read of another one, or of one the frame does not have, is bad.*)
BadLocal == -1

RECURSIVE SetAfter(_, _, _, _)

SetAfterAll(prog, ids, size, set) ==
  FoldLeft(LAMBDA acc, id : SetAfter(prog, id, size, acc), set, ids)

SetAfter(prog, id, size, set) ==
  LET node == prog.nodes[id]
      after == SetAfterAll(prog, Children(prog, node), size, set)
      tested == SetAfter(prog, node.test, size, set)
  IN CASE BadLocal \in set -> set
       [] node.kind = "readLocal" -> IF node.index \in set THEN set ELSE {BadLocal}
       [] node.kind = "writeLocal" ->
            IF node.index < size THEN after \cup {node.index} ELSE {BadLocal}
       [] node.kind = "fn" ->
            IF BadLocal \in SetAfter(prog, node.body, node.locals, 0 .. node.arity - 1)
            THEN {BadLocal} ELSE set
       [] node.kind = "while" ->
            IF BadLocal \in SetAfter(prog, node.body, size, tested) THEN {BadLocal} ELSE tested
       [] node.kind = "if" ->
            LET then == SetAfter(prog, node.then, size, tested)
                else == IF node.hasElse THEN SetAfter(prog, node.else, size, tested)
                        ELSE tested
            IN IF BadLocal \in then \cup else THEN {BadLocal} ELSE then \cap else
       [] OTHER -> after

(* fn ( a , b { ... }: the list is never closed.                            *)
BrokenParameters(toks) ==
  \E i \in DOMAIN toks, j \in DOMAIN toks :
    /\ i + 1 < j /\ toks[i].kind = "fn" /\ toks[i + 1].kind = "("
    /\ \A k \in i + 2 .. j - 1 : toks[k].kind \in {"name", ","}
    /\ toks[j].kind \in BlockStarts

-----------------------------------------------------------------------------
(* Images.                                                                  *)

(* All ids of a program are those of nodes, literals and links it has.      *)
InRange(prog) ==
  /\ prog.root \in DOMAIN prog.nodes
  /\ \A id \in DOMAIN prog.nodes :
       LET node == prog.nodes[id]
       IN /\ node.kind = "lit" => node.lit \in DOMAIN prog.lits
          /\ node.kind \in {"call", "seq"} =>
               node.first .. node.first + node.count - 1 \subseteq DOMAIN prog.links
          /\ Range(Children(prog, node)) \subseteq DOMAIN prog.nodes

IsValue(image, value) == value.t = "obj" => value.v \in DOMAIN image.objs

WellFormedObject(image, object) ==
  CASE object.kind = "code" ->
         /\ InRange(object.prog) /\ object.body \in DOMAIN object.prog.nodes
         /\ object.arity <= object.locals
    [] object.kind = "record" ->
         /\ object.def \in DOMAIN image.objs
         /\ image.objs[object.def].kind = "recordDef"
         /\ Len(object.vals) = Len(image.objs[object.def].fields)
         /\ \A i \in DOMAIN object.vals : ValueAllowed(image, object.vals[i])
    [] object.kind = "cells" -> \A i \in DOMAIN object.vals : ValueAllowed(image, object.vals[i])
    [] OTHER -> TRUE

WellFormed(image) ==
  /\ \A i, j \in DOMAIN image.slots : image.slots[i].name = image.slots[j].name => i = j
  /\ \A i \in DOMAIN image.slots :
       image.slots[i].val.t # "slot" /\ IsValue(image, image.slots[i].val)
  /\ \A id \in DOMAIN image.objs : WellFormedObject(image, image.objs[id])

(* Pairs of objects of two images that have to be the same.                 *)
RECURSIVE Matched(_, _, _)
Matched(a, b, pairs) ==
  LET Refs(x, y) == {i \in DOMAIN x \cap DOMAIN y : x[i].t = "obj" /\ y[i].t = "obj"}
      Next1(p) == LET x == Parts(a.objs[p[1]])
                      y == Parts(b.objs[p[2]])
                  IN {<<x[i].v, y[i].v>> : i \in Refs(x, y)}
      next == pairs \cup UNION {Next1(p) : p \in pairs}
  IN IF next = pairs THEN pairs ELSE Matched(a, b, next)

(* An object without what identifies it in its image.                       *)
Shape(object) ==
  [f \in DOMAIN object \ {"def"} |->
     IF f = "vals" THEN [i \in DOMAIN object.vals |->
                           IF object.vals[i].t = "obj" THEN ObjectRef(0) ELSE object.vals[i]]
     ELSE object[f]]

(* Equal up to the ids of objects, sharing included.                        *)
SameOverlay(a, b) ==
  LET names == {Overlay(a)[i].name : i \in DOMAIN Overlay(a)}
      bound == {name \in names : SlotValue(a, name).t = "obj" /\ SlotValue(b, name).t = "obj"}
      pairs == Matched(a, b, {<<SlotValue(a, name).v, SlotValue(b, name).v>> : name \in bound})
  IN /\ names = {Overlay(b)[i].name : i \in DOMAIN Overlay(b)}
     /\ \A name \in names \ bound : SlotValue(a, name) = SlotValue(b, name)
     /\ \A p \in pairs : Shape(a.objs[p[1]]) = Shape(b.objs[p[2]])
     /\ \A p, q \in pairs : p[1] = q[1] <=> p[2] = q[2]

-----------------------------------------------------------------------------
(* Payloads in which one number is another one.                             *)

Wrong(n) == {0, 1, n + 1} \ {n}

NumberFields(node) ==
  NodeRefs(node) \cup ({"lit", "first", "count", "slot", "fallback", "arity"} \cap DOMAIN node)

DamagedNode(node) ==
  UNION {{[node EXCEPT ![f] = n] : n \in Wrong(node[f])} : f \in NumberFields(node)}

DamagedCode(object) ==
  UNION {{[object EXCEPT !.prog.nodes[j] = node] : node \in DamagedNode(object.prog.nodes[j])} :
           j \in DOMAIN object.prog.nodes}
    \cup UNION {{[object EXCEPT !.prog.links[k] = n] : n \in Wrong(object.prog.links[k])} :
                  k \in DOMAIN object.prog.links}
    \cup UNION {{[object EXCEPT ![f] = n] : n \in Wrong(object[f])} : f \in {"body", "arity"}}

DamagedObject(object) ==
  CASE object.kind = "code" -> DamagedCode(object)
    [] object.kind \in {"cells", "record"} ->
         UNION {{[object EXCEPT !.vals[k] = ObjectRef(n)] : n \in Wrong(object.vals[k].v)} :
                  k \in DOMAIN object.vals}
           \cup (IF object.kind = "record"
                 THEN {[object EXCEPT !.def = n] : n \in Wrong(object.def)} ELSE {})
    [] OTHER -> {}

Damaged(payload) ==
  UNION {{[payload EXCEPT !.objects[i] = object] : object \in DamagedObject(payload.objects[i])} :
           i \in DOMAIN payload.objects}
    \cup UNION {{[payload EXCEPT !.bindings[i].val = ObjectRef(n)] :
                   n \in Wrong(payload.bindings[i].val.v)} : i \in DOMAIN payload.bindings}
    \cup UNION {{[payload EXCEPT !.bindings[i].symbol = n] :
                   n \in Wrong(payload.bindings[i].symbol)} : i \in DOMAIN payload.bindings}

-----------------------------------------------------------------------------
(* Properties.                                                              *)

(* The state of a session is one a session can be in: lines of words, an
   image, a prompt or a source that goes on (froth_repl of frothy_shell.c). *)
TypeOK ==
  /\ DOMAIN input = DOMAIN NoInput
  /\ input.source \in Seq(STRING)
  /\ {input.paren, input.brace, input.bracket} \subseteq Nat
  /\ {input.inString, input.trailing, running} \subseteq BOOLEAN
  /\ rt.store.kind \in {"none", "saved"}
  /\ last.phase \in {"none", "parse", "eval", "restore"}
  /\ typed \in 0 .. MaxLines[script]

LastProgram == Parse(last.source)

Parsed == last.source # <<>> /\ last.phase # "parse"

(* Whatever was parsed is a tree of nodes in which children come before     *)
(* their parents: no two lists that were built while others were open share *)
(* a link, and no rewriting of a form (case, cond, repeat, and, or, set)    *)
(* uses a node twice.  On every path a local is written before it is read,  *)
(* hidden ones too, and no index is beyond what the frame reserves.  The    *)
(* evaluator and the snapshot rely on both.  The one exception is a         *)
(* parameter list that is not closed, which the parser accepts.             *)
ProgramsAreProper ==
  Parsed =>
    /\ IsTree(LastProgram)
    /\ ~BrokenParameters(Lex(last.source)) =>
         BadLocal \notin SetAfter(LastProgram, LastProgram.root, LastProgram.locals, {})

(* The space computed for the names and texts of a function, when it is     *)
(* stored and when it is restored, is what copying them takes.              *)
StringsFit ==
  /\ Parsed => PackedBytes(LastProgram) = ProgramStringBytes(LastProgram)
  /\ rt.store.kind = "saved" =>
       \A i \in DOMAIN rt.store.payload.objects :
         LET symbols == rt.store.payload.symbols
             object == rt.store.payload.objects[i]
         IN object.kind = "code" =>
              MeasureCodeObject(symbols, object)
                = PackedBytes(DecodeProgram(symbols, object.prog))

(* Every form means what its parts mean: the parser's rewriting and the     *)
(* evaluator together give the value the phrase stands for.                 *)
PhrasesMean ==
  LET line == Trim(last.source)
  IN last.err # "interrupted" =>
       \A phrase \in Meanings[script] :
         phrase.line = line =>
           last.err = phrase.err /\ (phrase.err = "ok" => last.val = phrase.val)

(* Between lines the image is whole, whatever ended the evaluation: every   *)
(* reference has its object, every object holds what its kind may hold.     *)
ImageIsWellFormed == TypeOK /\ WellFormed(rt)

(* While the shell asks for more, the parser would not take what it has.    *)
(* It does ask needlessly after set name to name, which looks like the      *)
(* header of a definition, after a text with the word call in it, after a   *)
(* comment, whose brackets it counts, and for the arguments of a call that  *)
(* was tried without them.                                                  *)
AsksOnlyForMore ==
  HasPending(input) =>
    \/ Parse(input.source).err # "ok"
    \/ input.source = last.source
    \/ "backslash" \in Range(input.source)
    \/ "set" \in Range(input.source) /\ EndsWithNamedCodeHeader(input.source)
    \/ /\ EndsWithCallHeader(input.source)
       /\ \A i \in DOMAIN Lex(input.source) : Lex(input.source)[i].kind # "call"

(* What is run has no bracket or text left open, as the lexer sees it;      *)
(* comments aside.                                                          *)
RunsOnlyClosedSources ==
  last.phase # "restore" /\ "backslash" \notin Range(last.source) =>
    LET toks == Lex(last.source)
        Count(kind, i) == Cardinality({k \in i .. Len(toks) : toks[k].kind = kind})
    IN \A i \in DOMAIN toks :
         /\ toks[i].kind # "bad"
         /\ Count("(", i) <= Count(")", i)
         /\ Count("[", i) <= Count("]", i)
         /\ Count("{", i) <= Count("}", i)

(* A source is run when it is complete, and the shell asks for more only    *)
(* when it is not: it neither runs half a definition nor keeps a whole one. *)
RunsWhenComplete == AsksOnlyForMore /\ RunsOnlyClosedSources

JustSaved == last.source = <<"save", ":">> /\ last.err = "ok" /\ rt.store.kind = "saved"

(* A definition under a second name.                                        *)
HasAlias(image) ==
  \E i \in DOMAIN image.slots :
    /\ image.slots[i].overlay
    /\ HasKind(image, image.slots[i].val, {"recordDef"})
    /\ Object(image, image.slots[i].val).name # image.slots[i].name

(* What a save wrote is accepted and gives the same overlay again, sharing  *)
(* included, unless a record definition is bound under a second name.       *)
SavedImageComesBack ==
  rt.store.kind = "saved" =>
    LET d == DecodePayload(BaseImageReset(rt), rt.store.payload)
    IN /\ ValidatePayload(rt.store.payload)
       /\ d.err = "ok" <=> ~HasAlias(rt.store.ghost)
       /\ d.err = "ok" => SameOverlay(rt.store.ghost, d.rt)

(* An image that came back from storage can be saved again, and that writes *)
(* the payload it came from: from one restart to the next no binding ceases *)
(* to be overlay, no table gets longer and nothing changes its place        *)
(* (froth_slot_set_overlay in frothy_snapshot_bind_slot_value, and the      *)
(* whole programs that code objects keep).                                  *)
RestoredSavesAlike ==
  rt.store.kind = "saved" =>
    LET d == DecodePayload(BaseImageReset(rt), rt.store.payload)
    IN d.err = "ok" =>
         WritePayload(d.rt) = [err |-> "ok", payload |-> rt.store.payload]

(* A payload with a wrong number in it is refused, or gives a whole image.  *)
DamageIsContained ==
  JustSaved =>
    \A payload \in Damaged(rt.store.payload) :
      ValidatePayload(payload) =>
        LET d == DecodePayload(BaseImageReset(rt), payload)
        IN d.err = "ok" => WellFormed(d.rt)

(* A restore that fails, typed or at startup, and at any point of decoding, *)
(* leaves the base image and nothing of the overlay.                        *)
FailedRestoreLeavesBase ==
  last.err \in {"noSnapshot", "format", "badName"} =>
    rt = BaseImageReset(rt)

(* What save accepted restore accepts.                                      *)
SavedCanBeRestored == rt.store.kind = "saved" => Load(rt).err = "ok"

=============================================================================
