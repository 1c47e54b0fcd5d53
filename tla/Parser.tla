------------------------------- MODULE Parser -------------------------------
(***************************************************************************)
(* The recursive-descent parser of src/src/frothy_parser.c.  A source is   *)
(* the sequence of its tokens; the parser's state is a record p that every *)
(* operator below takes and returns, with p.out the id the C function      *)
(* writes through its out parameter.  FROTH_TRY is p.err: once it is not   *)
(* "ok" every operator returns p as it stands.  Ids, like TLA+ sequences,  *)
(* start at 1 and 0 is FROTHY_IR_NODE_INVALID; local indices start at 0.   *)
(* A slot name is the sequence of the simple names between its dots.       *)
(***************************************************************************)
EXTENDS IR

CONSTANTS
  BindingCapacity,  \* FROTHY_PARSER_BINDING_CAPACITY
  ScopeCapacity,    \* FROTHY_PARSER_SCOPE_CAPACITY
  FrameCapacity     \* FROTHY_PARSER_FRAME_CAPACITY

ASSUME ParserAssumption ==
  {BindingCapacity, ScopeCapacity, FrameCapacity} \subseteq Nat \ {0}

-----------------------------------------------------------------------------
(* Tokens.  glued: no space between the token and the one before it.  The   *)
(* lexer reports an error (a bad escape, a number out of range, a stray     *)
(* byte) when it reaches the kind "bad".                                    *)

Keywords == {"here", "is", "set", "to", "with", "as", "fn", "if", "else",
             "while", "repeat", "in", "cond", "case", "when", "unless", "true",
             "false", "nil", "not", "and", "or", "call", "cells", "record"}

Operators == {"+", "-", "*", "/", "%", "<", "<=", ">", ">=", "==", "!="}

Punctuation == Operators \cup
  {"(", ")", "{", "}", "[", "]", ",", ";", ":", "@", "=", "->", "eof"}

Token(kind) == [kind |-> kind, name |-> <<>>, num |-> 0, glued |-> FALSE]

NameToken(name) == [Token("name") EXCEPT !.name = name]

IntToken(n) == [Token("int") EXCEPT !.num = n]

TextToken(s) == [Token("text") EXCEPT !.name = s]

(* What the lexer makes of a word outside text and comments; "~[" is a      *)
(* bracket glued to the word before it.                                     *)
LexNext(word) ==
  CASE word \in Keywords \cup Punctuation \cup {"bad"} -> Token(word)
    [] word = "~[" -> [Token("[") EXCEPT !.glued = TRUE]
    [] word = "a.b" -> NameToken(<<"a", "b">>)
    [] word = "dangerous.wipe" -> NameToken(<<"dangerous", "wipe">>)
    [] \E n \in 0..9 : word = ToString(n) ->
         IntToken(CHOOSE n \in 0..9 : word = ToString(n))
    [] OTHER -> NameToken(<<word>>)

(* Text runs from quote to quote, over line ends too; a backslash starts a  *)
(* comment outside text and, before a space, a bad escape inside.           *)
LexWord(s, word) ==
  CASE s.mode = "comment" -> IF word = "eol" THEN [s EXCEPT !.mode = "code"] ELSE s
    [] s.mode = "text" /\ word = "quote" ->
         [mode |-> "code", text |-> <<>>, toks |-> Append(s.toks, TextToken(s.text))]
    [] s.mode = "text" /\ word = "backslash" ->
         [mode |-> "code", text |-> <<>>, toks |-> Append(s.toks, Token("bad"))]
    [] s.mode = "text" -> [s EXCEPT !.text = Append(@, word)]
    [] word = "quote" -> [s EXCEPT !.mode = "text"]
    [] word = "backslash" -> [s EXCEPT !.mode = "comment"]
    [] word = "eol" -> s
    [] OTHER -> [s EXCEPT !.toks = Append(@, LexNext(word))]

Lex(words) ==
  LET s == FoldLeft(LexWord, [mode |-> "code", text |-> <<>>, toks |-> <<>>], words)
  IN IF s.mode = "text" THEN Append(s.toks, Token("bad")) ELSE s.toks

Boot == <<"boot">>

ExprStarts == {"name", "int", "text", "(", "@", "-", "fn", "if", "while",
               "cond", "case", "when", "unless", "repeat", "true", "false",
               "nil", "not", "call", "cells"}

BlockStarts == {"{", "["}

Close(open) == IF open = "{" THEN "}" ELSE "]"

-----------------------------------------------------------------------------
(* The parser's state.                                                      *)

InitParser(source) ==
  [toks |-> source, pos |-> 1, err |-> "ok", out |-> 0,
   ended |-> FALSE,     \* prev_token_end is known
   prefer |-> FALSE,    \* prefer_block_on_spaced_bracket
   prefix |-> <<>>,     \* active_prefix
   lits |-> <<>>, nodes |-> <<>>, links |-> <<>>,
   bindings |-> <<>>, scopes |-> <<>>, frames |-> <<>>,
   list |-> <<>>]       \* the arguments ParseArgs has read

Fail(p, e) == IF p.err = "ok" THEN [p EXCEPT !.err = e] ELSE p

At(p, i) == IF i \in DOMAIN p.toks THEN p.toks[i] ELSE Token("eof")

Current(p) == At(p, p.pos)

Kind(p) == Current(p).kind

NextKind(p) == At(p, p.pos + 1).kind

(* The new lookahead token is lexed here, so that is where its error shows. *)
(* The recorded end of a punctuation token is its start.                    *)
Advance(p) ==
  IF p.err # "ok" THEN p
  ELSE Fail([p EXCEPT !.pos = @ + 1, !.ended = Kind(p) \notin Punctuation],
            IF At(p, p.pos + 2).kind = "bad" THEN "lex" ELSE "ok")

(* Most name tokens are moved out of the parser before the advance, which   *)
(* then finds no end to record.                                             *)
TakeName(p) ==
  IF Kind(p) = "name" THEN [Advance(p) EXCEPT !.ended = FALSE]
  ELSE Fail(p, "signature")

ExpectOneOf(p, kinds) ==
  IF Kind(p) \in kinds THEN Advance(p) ELSE Fail(p, "signature")

Expect(p, kind) == ExpectOneOf(p, {kind})

IsSimpleName(token) == token.kind = "name" /\ Len(token.name) = 1

Reserve(p, used, capacity, q) ==
  IF p.err # "ok" THEN p ELSE IF used > capacity THEN Fail(p, "oom") ELSE q

PushScope(p) ==
  Reserve(p, Len(p.scopes) + 1, ScopeCapacity,
          [p EXCEPT !.scopes = Append(@, Len(p.bindings))])

PopScope(p) ==
  IF p.err # "ok" THEN p
  ELSE [p EXCEPT !.bindings = SubSeq(@, 1, Last(p.scopes)), !.scopes = Front(@)]

PushFrame(p, reject) ==
  Reserve(p, Len(p.frames) + 1, FrameCapacity,
          [p EXCEPT !.frames = Append(@, [base |-> Len(p.scopes), next |-> 0,
                                          reject |-> reject])])

PopFrame(p) == IF p.err # "ok" THEN p ELSE [p EXCEPT !.frames = Front(@)]

CurrentFrame(p) == Last(p.frames)

ReserveHiddenLocal(p) ==
  IF p.err # "ok" THEN p
  ELSE [p EXCEPT !.frames[Len(p.frames)].next = @ + 1,
                 !.out = CurrentFrame(p).next]

DeclareLocal(p, name) ==
  LET scope == Len(p.scopes)
      taken == \E i \in DOMAIN p.bindings :
                 p.bindings[i].scope = scope /\ p.bindings[i].name = name
  IN IF p.err # "ok" THEN p
     ELSE IF scope = 0 \/ taken THEN Fail(p, "signature")
     ELSE Reserve(p, Len(p.bindings) + 1, BindingCapacity,
            [ReserveHiddenLocal(p) EXCEPT !.bindings =
               Append(@, [name |-> name, index |-> CurrentFrame(p).next,
                          scope |-> scope])])

-----------------------------------------------------------------------------
(* The program under construction.                                          *)

AddLiteral(p, kind, num, text) ==
  Reserve(p, Len(p.lits) + 1, LiteralCapacity,
    [p EXCEPT !.lits = Append(@, [kind |-> kind, num |-> num, text |-> text]),
              !.out = Len(p.lits) + 1])

AddNode(p, node) ==
  Reserve(p, Len(p.nodes) + 1, NodeCapacity,
    [p EXCEPT !.nodes = Append(@, node), !.out = Len(p.nodes) + 1])

AppendLinks(p, ids) ==
  Reserve(p, Len(p.links) + Len(ids), LinkCapacity,
          [p EXCEPT !.links = @ \o ids])

Literal(p, kind, num, text) ==
  LET q == AddLiteral(p, kind, num, text)
  IN AddNode(q, [kind |-> "lit", lit |-> q.out])

IntLiteral(p, n) == Literal(p, "int", n, <<>>)

BoolLiteral(p, b) == Literal(p, "bool", IF b THEN 1 ELSE 0, <<>>)

NilLiteral(p) == Literal(p, "nil", 0, <<>>)

ReadLocal(p, index) == AddNode(p, [kind |-> "readLocal", index |-> index])

WriteLocal(p, index, value) ==
  AddNode(p, [kind |-> "writeLocal", index |-> index, value |-> value])

WriteSlot(p, slot, value, existing) ==
  AddNode(p, [kind |-> "writeSlot", slot |-> slot, value |-> value,
              existing |-> existing])

TopLevelWriteSlot(p, name, value) ==
  WriteSlot(p, p.prefix \o name, value, FALSE)

If(p, test, then, hasElse, else) ==
  AddNode(p, [kind |-> "if", test |-> test, then |-> then,
              hasElse |-> hasElse, else |-> else])

While(p, test, body) ==
  AddNode(p, [kind |-> "while", test |-> test, body |-> body])

(* A list of nodes becomes a span of links only here, after every node of   *)
(* the list has appended its own.                                           *)
MakeSeq(p, items) ==
  AddNode(AppendLinks(p, items),
    [kind |-> "seq", first |-> Len(p.links) + 1, count |-> Len(items)])

Call(p, builtin, callee, args) ==
  AddNode(AppendLinks(p, args),
    [kind |-> "call", builtin |-> builtin, callee |-> callee,
     first |-> Len(p.links) + 1, count |-> Len(args)])

BuiltinCall(p, builtin, args) == Call(p, builtin, 0, args)

(* IF lhs THEN TRUE ELSE truth of rhs, or IF lhs THEN truth of rhs ELSE     *)
(* FALSE.                                                                   *)
ShortCircuit(p, isOr, lhs, rhs) ==
  LET t == BoolLiteral(p, TRUE)
      f == BoolLiteral(t, FALSE)
      rt == BoolLiteral(f, TRUE)
      rf == BoolLiteral(rt, FALSE)
      r == If(rf, rhs, rt.out, TRUE, rf.out)
  IN IF isOr THEN If(r, lhs, t.out, TRUE, r.out) ELSE If(r, lhs, r.out, TRUE, f.out)

-----------------------------------------------------------------------------
(* The grammar.                                                             *)

RECURSIVE ParseExpr(_), AndLoop(_), OrLoop(_), BinaryLoop(_), ParsePrefix(_),
  PostfixLoop(_), ParseArgs(_, _, _), Items(_, _, _, _), Clauses(_, _, _, _, _),
  CondChain(_, _, _), CaseChain(_, _, _, _), ParseParameters(_, _, _),
  ParseFields(_, _)

(* Condition and count expressions leave a spaced "[" to the block.         *)
ParseExprBeforeBlock(p) ==
  [ParseExpr([p EXCEPT !.prefer = TRUE]) EXCEPT !.prefer = p.prefer]

ExpectBlockStart(p) == ExpectOneOf(p, BlockStarts)

ParseBlock(p) ==
  PopScope(Items(PushScope(ExpectBlockStart(p)), Close(Kind(p)), <<>>, FALSE))

ParseParameters(p, arity, closing) ==
  LET q == DeclareLocal(TakeName(p), Current(p).name)
  IN IF p.err = "ok" /\ closing /\ Kind(p) = ")" THEN [p EXCEPT !.out = arity]
     ELSE IF q.err = "ok" /\ Kind(q) = ","
     THEN ParseParameters(Advance(q), arity + 1, closing)
     ELSE [q EXCEPT !.out = arity + 1]

ParseParameterList(p) ==
  LET q == ParseParameters(Expect(p, "("), 0, TRUE)
  IN [Expect(q, ")") EXCEPT !.out = q.out]

ParseWithParameterList(p) == ParseParameters(Expect(p, "with"), 0, FALSE)

(* An error in a list in parentheses is overwritten by what the body        *)
(* returns, with the arity still 0 and the names read so far declared.      *)
FnParameters(p, params) ==
  LET list == ParseParameterList(p)
  IN CASE p.err # "ok" -> p
       [] params = "none" -> [p EXCEPT !.out = 0]
       [] params = "with" -> ParseWithParameterList(p)
       [] params = "list" /\ list.err = "ok" -> list
       [] OTHER -> [list EXCEPT !.err = "ok", !.out = 0]

ParseFnNode(p, params, bodyKind) ==
  LET ready == FnParameters(PushScope(PushFrame(p, TRUE)), params)
      expr == ParseExpr(Expect(ready, "="))
      body == IF bodyKind = "block" THEN ParseBlock(ready)
              ELSE MakeSeq(expr, <<expr.out>>)
  IN IF body.err # "ok" THEN body
     ELSE AddNode(PopFrame(PopScope(body)),
            [kind |-> "fn", arity |-> ready.out,
             locals |-> CurrentFrame(body).next, body |-> body.out])

ParseFn(p) ==
  LET q == Expect(p, "fn")
  IN CASE Kind(q) = "(" -> ParseFnNode(q, "list", "block")
       [] Kind(q) = "with" -> ParseFnNode(q, "with", "block")
       [] Kind(q) \in BlockStarts -> ParseFnNode(q, "none", "block")
       [] OTHER -> Fail(q, "signature")

(* name(names) = or name(names) {, looked for on a copy of the parser.      *)
MatchTopLevelNamedFn(p) ==
  LET open == p.pos + 1
      closes == {i \in open + 1 .. Len(p.toks) : p.toks[i].kind = ")"}
      close == Min(closes)
      after == At(p, close + 1).kind
      names == \A i \in open + 1 .. close - 1 :
                 p.toks[i].kind = IF (i - open) % 2 = 1 THEN "name" ELSE ","
  IN IF Kind(p) # "name" \/ NextKind(p) # "(" \/ closes = {} THEN "none"
     ELSE IF ~names \/ At(p, close + 2).kind = "bad" THEN "none"
     ELSE IF after = "=" THEN "expr" ELSE IF after = "{" THEN "block" ELSE "none"

ParseTopLevelNamedFn(p, bodyKind) ==
  LET fn == ParseFnNode(TakeName(p), "list", bodyKind)
  IN TopLevelWriteSlot(fn, Current(p).name, fn.out)

ParseTopLevelBootBlock(p) ==
  LET fn == ParseFnNode(Advance(p), "none", "block")
  IN TopLevelWriteSlot(fn, Boot, fn.out)

ParseTopLevelTo(p) ==
  LET n == Expect(p, "to")
      q == TakeName(n)
      fn == ParseFnNode(q, IF Kind(q) = "with" THEN "with" ELSE "none", "block")
  IN IF Kind(q) \in BlockStarts \cup {"with"}
     THEN TopLevelWriteSlot(fn, Current(n).name, fn.out)
     ELSE Fail(q, "signature")

(* Field names go into the links one by one: nothing nests in a record.     *)
ParseFields(p, names) ==
  LET name == Current(p).name
      lit == AddLiteral(p, "text", 0, name)
      q == Advance(AppendLinks(lit, <<lit.out>>))
  IN IF p.err # "ok" THEN p
     ELSE IF ~IsSimpleName(Current(p)) \/ name \in names THEN Fail(p, "signature")
     ELSE IF q.err = "ok" /\ Kind(q) = ","
     THEN ParseFields(Advance(q), names \cup {name})
     ELSE q

ParseTopLevelRecord(p) ==
  LET n == Expect(p, "record")
      name == Current(n).name
      list == Expect(TakeName(n), "[")
      done == Expect(ParseFields(list, {}), "]")
      def == AddNode(done, [kind |-> "recordDef", slot |-> p.prefix \o name,
                            first |-> Len(p.links) + 1,
                            count |-> Len(done.links) - Len(p.links)])
  IN IF ~IsSimpleName(Current(n)) THEN Fail(n, "signature")
     ELSE IF list.err = "ok" /\ Kind(list) = "]" THEN Fail(list, "bounds")
     ELSE TopLevelWriteSlot(def, name, def.out)

ParseCells(p) ==
  LET q == Expect(Expect(p, "cells"), "(")
      n == IntLiteral(q, Current(q).num)
  IN IF q.err = "ok" /\ (Kind(q) # "int" \/ Current(q).num <= 0)
     THEN Fail(q, "bounds")
     ELSE BuiltinCall(Expect(Advance(n), ")"), "cells", <<n.out>>)

(* name is value.  cells(n) is allowed nowhere else.                        *)
ParseTopLevelBinding(p) ==
  LET q == ExpectOneOf(TakeName(p), {"=", "is"})
      value == IF Kind(q) = "cells" THEN ParseCells(q) ELSE ParseExpr(q)
  IN TopLevelWriteSlot(value, Current(p).name, value.out)

ParseIn(p) ==
  LET n == Expect(p, "in")
      b == Advance(n)
      body == Items([ExpectBlockStart(b) EXCEPT !.prefix = @ \o Current(n).name],
                    Close(Kind(b)), <<>>, TRUE)
  IN IF Kind(n) # "name" THEN Fail(n, "signature")
     ELSE [body EXCEPT !.prefix = p.prefix]

(* The forms both a prefix block and the top level accept.                  *)
IsDefinition(p) ==
  \/ Kind(p) = "name" /\ NextKind(p) \in {"=", "is"}
  \/ Kind(p) \in {"to", "record", "in"}
  \/ MatchTopLevelNamedFn(p) # "none"

ParseDefinition(p) ==
  CASE Kind(p) = "name" /\ NextKind(p) \in {"=", "is"} -> ParseTopLevelBinding(p)
    [] Kind(p) = "to" -> ParseTopLevelTo(p)
    [] Kind(p) = "record" -> ParseTopLevelRecord(p)
    [] Kind(p) = "in" -> ParseIn(p)
    [] OTHER -> ParseTopLevelNamedFn(p, MatchTopLevelNamedFn(p))

ParseInItem(p) ==
  IF IsDefinition(p) THEN ParseDefinition(p) ELSE Fail(p, "signature")

ParseIf(p) ==
  LET test == ParseExprBeforeBlock(Expect(p, "if"))
      then == ParseBlock(test)
      else == ParseBlock(Advance(then))
  IN IF then.err = "ok" /\ Kind(then) = "else"
     THEN If(else, test.out, then.out, TRUE, else.out)
     ELSE If(then, test.out, then.out, FALSE, 0)

ParseWhile(p) ==
  LET test == ParseExprBeforeBlock(Expect(p, "while"))
      body == ParseBlock(test)
  IN While(body, test.out, body.out)

ParseWhen(p) ==
  LET test == ParseExprBeforeBlock(Expect(p, "when"))
      body == ParseBlock(test)
  IN If(body, test.out, body.out, FALSE, 0)

ParseUnless(p) ==
  LET test == ParseExprBeforeBlock(Expect(p, "unless"))
      negated == BuiltinCall(test, "not", <<test.out>>)
      body == ParseBlock(negated)
  IN If(body, negated.out, body.out, FALSE, 0)

ParseCaseLiteral(p) ==
  LET n == Advance(p)
  IN CASE p.err # "ok" -> p
       [] Kind(p) = "int" -> Advance(IntLiteral(p, Current(p).num))
       [] Kind(p) = "-" -> IF Kind(n) = "int" THEN Advance(IntLiteral(n, -Current(n).num))
                           ELSE Fail(n, "signature")
       [] Kind(p) = "text" -> Advance(Literal(p, "text", 0, Current(p).name))
       [] Kind(p) \in {"true", "false"} -> Advance(BoolLiteral(p, Kind(p) = "true"))
       [] Kind(p) = "nil" -> Advance(NilLiteral(p))
       [] OTHER -> Fail(p, "signature")

(* Faulty variant: folded from the first to the last.                      *)
CondChainForward(p, tests, bodies) ==
  IF tests = <<>> \/ p.err # "ok" THEN p
  ELSE CondChain(If(p, Head(tests), Head(bodies), TRUE, p.out),
                 Tail(tests), Tail(bodies))

(* The clauses folded from the last to the first around the else branch.    *)
CondChain(p, tests, bodies) ==
  IF tests = <<>> \/ p.err # "ok" THEN p
  ELSE CondChain(If(p, Last(tests), Last(bodies), TRUE, p.out),
                 Front(tests), Front(bodies))

CaseChain(p, hidden, matches, bodies) ==
  LET read == ReadLocal(p, hidden)
      test == BuiltinCall(read, "==", <<read.out, Last(matches)>>)
  IN IF matches = <<>> \/ p.err # "ok" THEN p
     ELSE CaseChain(If(test, test.out, Last(bodies), TRUE, p.out), hidden,
                    Front(matches), Front(bodies))

ElseOr(p, else) == IF else # 0 THEN [p EXCEPT !.out = else] ELSE NilLiteral(p)

FinishCond(p, tests, bodies, else) == CondChain(ElseOr(p, else), tests, bodies)

FinishCase(p, scrutinee, matches, bodies, else) ==
  LET hidden == ReserveHiddenLocal(p)
      init == WriteLocal(hidden, hidden.out, scrutinee)
      chain == CaseChain(ElseOr(init, else), hidden.out, matches, bodies)
  IN MakeSeq(chain, <<init.out, chain.out>>)

Finish(p, scrutinee, tests, bodies, else) ==
  IF scrutinee = 0 THEN FinishCond(p, tests, bodies, else)
  ELSE FinishCase(p, scrutinee, tests, bodies, else)

RECURSIVE SkipSemicolons(_)
SkipSemicolons(p) ==
  IF p.err = "ok" /\ Kind(p) = ";" THEN SkipSemicolons(Advance(p)) ELSE p

(* The clause list of cond (scrutinee 0) and case.                          *)
Clauses(p, close, scrutinee, tests, bodies) ==
  LET else == ParseBlock(Advance(p))
      end == SkipSemicolons(else)
      test == IF scrutinee # 0 THEN ParseCaseLiteral(p)
              ELSE ParseExprBeforeBlock(Expect(p, "when"))
      body == ParseBlock(test)
  IN CASE p.err # "ok" -> p
       [] Kind(p) = close -> Finish(Advance(p), scrutinee, tests, bodies, 0)
       [] Kind(p) = "eof" -> Fail(p, "signature")
       [] Kind(p) = ";" -> Clauses(Advance(p), close, scrutinee, tests, bodies)
       [] Kind(p) = "else" ->
            IF tests = <<>> THEN Fail(p, "signature")
            ELSE Finish(Expect(end, close), scrutinee, tests, bodies, else.out)
       [] OTHER -> Clauses(Reserve(body, Len(tests) + 1, LinkCapacity, body),
                           close, scrutinee, Append(tests, test.out),
                           Append(bodies, body.out))

ParseCond(p) ==
  LET b == Expect(p, "cond")
  IN Clauses(ExpectBlockStart(b), Close(Kind(b)), 0, <<>>, <<>>)

ParseCase(p) ==
  LET s == ParseExprBeforeBlock(Expect(p, "case"))
  IN IF s.err # "ok" THEN s
     ELSE Clauses(ExpectBlockStart(s), Close(Kind(s)), s.out, <<>>, <<>>)

(* repeat n as i { ... } counts a hidden local up to a hidden limit.  The   *)
(* hidden locals come after those of the body.                              *)
ParseRepeat(p) ==
  LET count == ParseExprBeforeBlock(Expect(p, "repeat"))
      hasIndex == count.err = "ok" /\ Kind(count) = "as"
      name == Current(Advance(count)).name
      header == IF hasIndex THEN TakeName(Advance(count)) ELSE count
      scope == PushScope(ExpectBlockStart(header))
      index == IF hasIndex THEN DeclareLocal(scope, name) ELSE scope
      body == PopScope(Items(index, Close(Kind(header)), <<>>, FALSE))
      limit == ReserveHiddenLocal(body)
      counter == ReserveHiddenLocal(limit)
      initLimit == WriteLocal(counter, limit.out, count.out)
      zero == IntLiteral(initLimit, 0)
      initCounter == WriteLocal(zero, counter.out, zero.out)
      readCounter == ReadLocal(initCounter, counter.out)
      readLimit == ReadLocal(readCounter, limit.out)
      test == BuiltinCall(readLimit, "<", <<readCounter.out, readLimit.out>>)
      forIndex == ReadLocal(test, counter.out)
      setIndex == IF hasIndex THEN WriteLocal(forIndex, index.out, forIndex.out)
                  ELSE test
      one == IntLiteral(setIndex, 1)
      forAdd == ReadLocal(one, counter.out)
      sum == BuiltinCall(forAdd, "+", <<forAdd.out, one.out>>)
      step == WriteLocal(sum, counter.out, sum.out)
      loopBody == MakeSeq(step, (IF hasIndex THEN <<setIndex.out>> ELSE <<>>)
                                  \o <<body.out, step.out>>)
      loop == While(loopBody, test.out, loopBody.out)
  IN IF body.err # "ok" THEN body
     ELSE MakeSeq(loop, <<initLimit.out, initCounter.out, loop.out>>)

(* expr, expr, ...  Up to ")" the list may be empty or end in a comma.      *)
ParseArgs(p, args, closing) ==
  LET e == ParseExpr(p)
      q == Reserve(e, Len(args) + 1, LinkCapacity, e)
  IN IF p.err # "ok" THEN p
     ELSE IF closing /\ Kind(p) = ")" THEN [p EXCEPT !.list = args]
     ELSE IF q.err = "ok" /\ Kind(q) = ","
     THEN ParseArgs(Advance(q), Append(args, e.out), closing)
     ELSE [q EXCEPT !.list = Append(args, e.out)]

ParseCallExpr(p) ==
  LET callee == ParseExpr(Expect(p, "call"))
      with == Expect(callee, "with")
      args == ParseArgs(with, <<>>, FALSE)
  IN IF Kind(with) \notin ExprStarts THEN Fail(with, "signature")
     ELSE Call(args, "none", callee.out, args.list)

(* A name is a local of the current frame, innermost first; a local of an   *)
(* enclosing function is an error and anything else a slot, under the       *)
(* active prefix first.                                                     *)
ParseName(p) ==
  LET q == TakeName(p)
      name == Current(p).name
      hits == {i \in DOMAIN q.bindings : q.bindings[i].name = name}
      mine == {i \in hits : q.bindings[i].scope > CurrentFrame(q).base}
  IN IF mine # {} THEN ReadLocal(q, q.bindings[Max(mine)].index)
     ELSE IF CurrentFrame(q).reject /\ hits # {} THEN Fail(q, "signature")
     ELSE IF q.prefix # <<>> /\ Len(name) = 1
     THEN AddNode(q, [kind |-> "readFallback", slot |-> q.prefix \o name,
                      fallback |-> name])
     ELSE AddNode(q, [kind |-> "readSlot", slot |-> name])

ParseDesignator(p) ==
  LET n == Advance(p)
  IN IF Kind(n) # "name" THEN Fail(n, "signature")
     ELSE AddNode(Advance(n), [kind |-> "designator", slot |-> Current(n).name])

ParsePrimary(p) ==
  CASE p.err # "ok" -> p
    [] Kind(p) = "int" -> Advance(IntLiteral(p, Current(p).num))
    [] Kind(p) = "text" -> Advance(Literal(p, "text", 0, Current(p).name))
    [] Kind(p) \in {"true", "false"} -> Advance(BoolLiteral(p, Kind(p) = "true"))
    [] Kind(p) = "nil" -> Advance(NilLiteral(p))
    [] Kind(p) = "name" -> ParseName(p)
    [] Kind(p) = "@" -> ParseDesignator(p)
    [] Kind(p) = "(" -> Expect(ParseExpr(Advance(p)), ")")
    [] Kind(p) = "fn" -> ParseFn(p)
    [] Kind(p) = "if" -> ParseIf(p)
    [] Kind(p) = "while" -> ParseWhile(p)
    [] Kind(p) = "cond" -> ParseCond(p)
    [] Kind(p) = "case" -> ParseCase(p)
    [] Kind(p) = "when" -> ParseWhen(p)
    [] Kind(p) = "unless" -> ParseUnless(p)
    [] Kind(p) = "repeat" -> ParseRepeat(p)
    [] Kind(p) = "call" -> ParseCallExpr(p)
    [] Kind(p) \in {"cells", "record"} -> Fail(p, "toplevel")
    [] OTHER -> Fail(p, "signature")

(* Whether "[" starts a block and not an index of the expression before it. *)
BracketIsBlock(p) == p.prefer /\ ~(p.ended /\ Current(p).glued)

ParseColonCall(p) ==
  LET q == Advance(p)
      args == ParseArgs(q, <<>>, FALSE)
  IN IF Kind(q) \in ExprStarts THEN Call(args, "none", p.out, args.list)
     ELSE Call(q, "none", p.out, <<>>)

ParseField(p) ==
  LET n == Advance(p)
  IN IF ~IsSimpleName(Current(n)) THEN Fail(n, "signature")
     ELSE AddNode(Advance(n), [kind |-> "readField", base |-> p.out,
                               field |-> Current(n).name])

ParseIndex(p) ==
  LET index == ParseExpr(Advance(p))
  IN AddNode(Expect(index, "]"),
             [kind |-> "readIndex", base |-> p.out, index |-> index.out])

PostfixLoop(p) ==
  LET args == ParseArgs(Advance(p), <<>>, TRUE)
  IN CASE p.err # "ok" \/ Kind(p) \notin {"(", ":", "->", "["} -> p
       [] Kind(p) = "->" -> PostfixLoop(ParseField(p))
       [] Kind(p) = "[" /\ BracketIsBlock(p) -> p
       [] p.nodes[p.out].kind = "designator" -> Fail(p, "signature")
       [] Kind(p) = "(" ->
            PostfixLoop(Call(Expect(args, ")"), "none", p.out, args.list))
       [] Kind(p) = ":" -> PostfixLoop(ParseColonCall(p))
       [] OTHER -> PostfixLoop(ParseIndex(p))

ParsePostfix(p) == PostfixLoop(ParsePrimary(p))

ParsePrefix(p) ==
  LET operand == ParsePrefix(Advance(p))
  IN IF p.err = "ok" /\ Kind(p) \in {"-", "not"}
     THEN BuiltinCall(operand, IF Kind(p) = "-" THEN "negate" ELSE "not",
                      <<operand.out>>)
     ELSE ParsePostfix(p)

(* All binary operators bind equally and to the left.                       *)
BinaryLoop(p) ==
  LET rhs == ParsePrefix(Advance(p))
  IN IF p.err = "ok" /\ Kind(p) \in Operators
     THEN BinaryLoop(BuiltinCall(rhs, Kind(p), <<p.out, rhs.out>>))
     ELSE p

ParseBinaryExpr(p) == BinaryLoop(ParsePrefix(p))

AndLoop(p) ==
  LET rhs == ParseBinaryExpr(Advance(p))
  IN IF p.err = "ok" /\ Kind(p) = "and"
     THEN AndLoop(ShortCircuit(rhs, FALSE, p.out, rhs.out))
     ELSE p

ParseAndExpr(p) == AndLoop(ParseBinaryExpr(p))

OrLoop(p) ==
  LET rhs == ParseAndExpr(Advance(p))
  IN IF p.err = "ok" /\ Kind(p) = "or"
     THEN OrLoop(ShortCircuit(rhs, TRUE, p.out, rhs.out))
     ELSE p

ParseExpr(p) == IF p.err # "ok" THEN p ELSE OrLoop(ParseAndExpr(p))

-----------------------------------------------------------------------------
(* Blocks, set and the top level.                                           *)

(* What set makes of the expression it read as a place; the read node stays *)
(* in the program, unreachable.                                             *)
WriteOf(place, value) ==
  CASE place.kind = "readLocal" ->
         [kind |-> "writeLocal", index |-> place.index, value |-> value]
    [] place.kind = "readSlot" ->
         [kind |-> "writeSlot", slot |-> place.slot, value |-> value,
          existing |-> TRUE]
    [] place.kind = "readFallback" ->
         [kind |-> "writeFallback", slot |-> place.slot,
          fallback |-> place.fallback, value |-> value, existing |-> TRUE]
    [] place.kind = "designator" ->
         [kind |-> "writeFallback", slot |-> place.slot,
          fallback |-> place.slot, value |-> value, existing |-> TRUE]
    [] place.kind = "readIndex" ->
         [kind |-> "writeIndex", base |-> place.base, index |-> place.index,
          value |-> value]
    [] place.kind = "readField" ->
         [kind |-> "writeField", base |-> place.base, field |-> place.field,
          value |-> value]

Places == {"readLocal", "readSlot", "readFallback", "designator", "readIndex",
           "readField"}

ParseSetItem(p) ==
  LET place == ParseExpr(Expect(p, "set"))
      value == ParseExpr(ExpectOneOf(place, {"=", "to"}))
  IN IF place.err # "ok" THEN place
     ELSE IF place.nodes[place.out].kind \notin Places THEN Fail(place, "signature")
     ELSE IF value.err # "ok" THEN value
     ELSE AddNode(value, WriteOf(place.nodes[place.out], value.out))

(* Faulty variant: the name is declared before its value is read.          *)
ParseLocalBindingItemEarly(p, name) ==
  LET local == DeclareLocal(p, name)
      value == ParseExpr(ExpectOneOf(local, {"=", "is"}))
  IN WriteLocal(value, local.out, value.out)

(* The name is declared after its value is read.                            *)
ParseLocalBindingItem(p, name) ==
  LET value == ParseExpr(ExpectOneOf(p, {"=", "is"}))
      local == DeclareLocal(value, name)
  IN WriteLocal(local, local.out, value.out)

ParseBlockItem(p) ==
  LET here == Expect(p, "here")
  IN CASE Kind(p) = "here" ->
            ParseLocalBindingItem(TakeName(here), Current(here).name)
       [] Kind(p) = "name" /\ NextKind(p) \in {"=", "is"} ->
            ParseLocalBindingItem(TakeName(p), Current(p).name)
       [] Kind(p) = "set" -> ParseSetItem(p)
       [] Kind(p) = "record" -> Fail(p, "toplevel")
       [] OTHER -> ParseExpr(p)

(* The items of a block, or of a prefix block (inForm), up to its end.      *)
Items(p, close, items, inForm) ==
  LET q == IF inForm THEN ParseInItem(p) ELSE ParseBlockItem(p)
  IN CASE p.err # "ok" -> p
       [] Kind(p) = close -> MakeSeq(Advance(p), items)
       [] Kind(p) = "eof" -> Fail(p, "signature")
       [] Kind(p) = ";" -> Items(Advance(p), close, items, inForm)
       [] OTHER -> Items(Reserve(q, Len(items) + 1, LinkCapacity, q), close,
                         Append(items, q.out), inForm)

ParseForm(p) ==
  CASE p.err # "ok" -> p
    [] IsDefinition(p) -> ParseDefinition(p)
    [] Kind(p) = "name" /\ Current(p).name = Boot /\ NextKind(p) = "{" ->
         ParseTopLevelBootBlock(p)
    [] Kind(p) = "set" -> ParseSetItem(p)
    [] OTHER -> ParseExpr(p)

(* The first form of a source and how many tokens it took, or an error;     *)
(* requireEof: nothing may follow.                                          *)
ParseTopLevelInternal(source, requireEof) ==
  LET start == InitParser(source)
      lexed == Fail(start, IF "bad" \in {At(start, 1).kind, At(start, 2).kind}
                           THEN "lex" ELSE "ok")
      form == ParseForm(PushFrame(lexed, FALSE))
      q == SkipSemicolons(form)
      done == IF requireEof /\ Kind(q) # "eof" THEN Fail(q, "signature") ELSE q
  IN IF done.err # "ok" THEN [err |-> done.err]
     ELSE [err |-> "ok", consumed |-> done.pos - 1, lits |-> done.lits,
           nodes |-> done.nodes, links |-> done.links, root |-> form.out,
           locals |-> CurrentFrame(done).next]

ParseTopLevel(source) == ParseTopLevelInternal(source, TRUE)

ParseTopLevelPrefix(source) == ParseTopLevelInternal(source, FALSE)

(* The program a source, as words, is.                                      *)
ParseSource(source) ==
  LET toks == Lex(source)
  IN ParseTopLevel(toks)

=============================================================================
