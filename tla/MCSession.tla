----------------------------- MODULE MCSession -----------------------------
(***************************************************************************)
(* Small sessions for TLC: lines that build records, cells, texts,         *)
(* functions and aliases and save and restore them; fragments that are     *)
(* typed over several lines; and phrases put together with the meaning of  *)
(* each form next to its words.                                            *)
(***************************************************************************)
EXTENDS SessionProperties

Stories ==
  {<<"record", "P", "[", "a", "]">>,
   <<"t", "is", "quote", "a", "quote">>,
   <<"x", "is", "P", ":", "quote", "a", "quote">>,
   <<"set", "x", "->", "a", "=", "x">>,
   <<"q", "is", "P">>,
   <<"c", "is", "cells", "(", "1", ")">>,
   <<"set", "c", "[", "0", "]", "=", "t">>,
   <<"to", "f", "with", "n", "[", "set", "t", "to", "n", ";", "restore", ":", ";", "x", "->", "a", "]">>,
   <<"f", ":", "t">>,
   <<"boot", "{", "set", "t", "to", "1", "}">>,
   <<"save">>, <<"restore">>, <<"dangerous.wipe">>}

Fragments ==
  {<<"to", "g">>, <<"with", "a">>, <<"[">>, <<"a", "]">>, <<"quote">>, <<>>,
   <<"set", "t", "to", "q">>, <<"backslash", "(">>, <<"t", "backslash", "(">>, <<")">>,
   <<"1">>, <<"g", ":">>, <<"help">>, <<"quit">>, <<"info", "@", "t">>, <<"[", "if", "a">>,
   <<"if", "a">>, <<"call", "g">>, <<"cond">>,
   <<"h", "is", "fn", "(", "a", "[", "a", "]", "backslash", ")">>,
   <<"in", "m", "[", "record", "R", "[", "a", "]", ";", "to", "f", "[", "1", "]", "]">>,
   <<"to", "g", "with", "a", "[", "a", "]">>, <<"to", "g", "[", "g", ":", "]">>,
   <<"k", "is", "save">>, <<"save">>, <<"[">> \o [i \in 1 .. 19 |-> ";"]}

-----------------------------------------------------------------------------
(* Phrases: words, and the value or the error they stand for.               *)

Phrase(line, err, val) == [line |-> line, err |-> err, val |-> val]

Num(n) == Phrase(<<ToString(n)>>, "ok", MakeInt(n))

Truth(b) == Phrase(<<IF b THEN "true" ELSE "false">>, "ok", MakeBool(b))

(* An operand that tells whether it was evaluated.                          *)
Crash == Phrase(<<"(", "1", "/", "0", ")">>, "division", Nil)

Atoms == {Num(1), Num(2), Truth(TRUE), Truth(FALSE), Crash}

Failed(phrase) == phrase.err # "ok"

(* The outcome of a phrase that must be a truth value: its error, or type.  *)
TruthError(phrase) ==
  IF Failed(phrase) THEN phrase.err ELSE IF phrase.val.t # "bool" THEN "type" ELSE "ok"

AsTruth(line, phrase) ==
  Phrase(line, TruthError(phrase), IF Failed(phrase) THEN Nil ELSE phrase.val)

(* lhs decides, or rhs does.                                                *)
Shorted(word, lhs, rhs) ==
  LET line == lhs.line \o <<word>> \o rhs.line
  IN IF TruthError(lhs) = "ok" /\ lhs.val = MakeBool(word = "or") THEN AsTruth(line, lhs)
     ELSE IF TruthError(lhs) = "ok" THEN AsTruth(line, rhs)
     ELSE AsTruth(line, lhs)

(* test picks one of two phrases.                                           *)
Choice(line, test, then, else) ==
  IF TruthError(test) # "ok" THEN Phrase(line, TruthError(test), Nil)
  ELSE IF IsTrue(test.val) THEN Phrase(line, then.err, then.val)
  ELSE Phrase(line, else.err, else.val)

Negated(phrase) ==
  IF TruthError(phrase) = "ok" THEN Truth(~IsTrue(phrase.val)) ELSE phrase

Block(phrase) == <<"[">> \o phrase.line \o <<"]">>

NilPhrase == Phrase(<<"nil">>, "ok", Nil)

Conditionals(test, then, else) ==
  {Choice(<<"if">> \o test.line \o Block(then) \o <<"else">> \o Block(else), test, then, else),
   Choice(<<"when">> \o test.line \o Block(then), test, then, NilPhrase),
   Choice(<<"unless">> \o test.line \o Block(then), Negated(test), then, NilPhrase),
   Choice(<<"cond", "[", "when">> \o test.line \o Block(then) \o <<"when", "true">>
            \o Block(else) \o <<"]">>, test, then, else)}

(* case n: the first literal that is equal.                                 *)
Cases(n, k1, k2) ==
  Phrase(<<"case", ToString(n), "[", ToString(k1), "[", "5", "]", ToString(k2), "[", "6", "]",
           "else", "[", "7", "]", "]">>,
         "ok", MakeInt(IF n = k1 THEN 5 ELSE IF n = k2 THEN 6 ELSE 7))

(* a op b op c is read from the left, whatever the operators are.           *)
Sums(a, op1, b, op2, c) ==
  LET Apply(op, x, y) == IF op = "+" THEN x + y ELSE IF op = "-" THEN x - y ELSE x * y
  IN Phrase(<<ToString(a), op1, ToString(b), op2, ToString(c)>>, "ok",
            MakeInt(Apply(op2, Apply(op1, a, b), c)))

(* A function called at once, with s as its only named local.               *)
Called(body) == <<"(", "fn", "[", "s", "is", "0", ";">> \o body \o <<";", "s", "]", ")", "(", ")">>

Bump == <<"set", "s", "to", "s", "+", "1">>

(* One loop in another, each with hidden locals of its own.                 *)
Loops(n, m) ==
  Phrase(Called(<<"repeat", ToString(n), "as", "i", "[", "repeat", ToString(m), "as", "j", "[",
                  "set", "s", "to", "s", "+", "i", "+", "j", "]", "]">>),
         "ok", MakeInt(MapThenSumSet(LAMBDA p : p[1] + p[2], (0 .. n - 1) \X (0 .. m - 1))))

(* The count of a loop and the subject of a case are evaluated once.        *)
Onces ==
  {Phrase(Called(<<"repeat", "if", "true", "[">> \o Bump \o <<";", "2", "]", "[", "nil", "]">>),
          "ok", MakeInt(1)),
   Phrase(Called(<<"case", "if", "true", "[">> \o Bump \o <<";", "3", "]", "[", "1", "[", "nil", "]",
                   "2", "[", "nil", "]", "]">>), "ok", MakeInt(1)),
   Phrase(Called(<<"while", "s", "<", "2", "[">> \o Bump \o <<"]">>), "ok", MakeInt(2))}

(* A name is the innermost local; a function does not see those around it.  *)
Scopes ==
  {Phrase(Called(<<"if", "true", "[", "s", "is", "s", "+", "5", ";", "set", "s", "to", "6", "]">>),
          "ok", MakeInt(0)),
   Phrase(Called(<<"if", "true", "[", "set", "s", "to", "6", "]">>), "ok", MakeInt(6)),
   Phrase(Called(<<"set", "s", "to", "(", "fn", "(", "s", ")", "[", "s", "]", ")", "(", "4", ")">>),
          "ok", MakeInt(4)),
   Phrase(Called(<<"fn", "[", "s", "]">>), "signature", Nil),
   Phrase(<<"call", "fn", "(", "s", ")", "[", "s", "]", "with", "4">>, "ok", MakeInt(4))}

(* Functions in functions, one frame of the parser each.                    *)
RECURSIVE Nested(_)
Nested(n) == IF n = 0 THEN <<"1">> ELSE <<"fn", "[">> \o Nested(n - 1) \o <<"]">>

Limits ==
  {Phrase(Nested(n), IF n < FrameCapacity THEN "ok" ELSE "oom", [t |-> "code", v |-> 0]) :
     n \in 1 .. FrameCapacity}

Conjunctions == {Shorted("and", a, b) : a, b \in Atoms}

Phrases ==
  Conjunctions
    \cup {Shorted("or", a, b) : a \in Atoms, b \in Atoms}
    \cup {Shorted("or", a, c) : a \in Atoms, c \in Conjunctions}
    \cup {Shorted("or", c, a) : a \in Atoms, c \in Conjunctions}
    \cup UNION {Conditionals(a, b, c) : a \in Atoms \cup Conjunctions, b, c \in {Num(2), Crash}}
    \cup {Cases(n, k1, k2) : n, k1, k2 \in 0 .. 2}
    \cup {Sums(a, op1, 2, op2, 3) : a \in {1, 4}, op1, op2 \in {"+", "-", "*"}}
    \cup {Loops(n, m) : n, m \in 0 .. 2}
    \cup Onces \cup Scopes \cup Limits

MCScripts == [stories |-> Stories, fragments |-> Fragments, phrases |-> {phrase.line : phrase \in Phrases}]

MCMeanings == [stories |-> {}, fragments |-> {}, phrases |-> Phrases]

MCMaxLines == [stories |-> 4, fragments |-> 3, phrases |-> 1]

=============================================================================
