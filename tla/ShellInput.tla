----------------------------- MODULE ShellInput -----------------------------
(***************************************************************************)
(* How the shell of src/src/frothy_shell.c decides what a typed line is: a *)
(* command, a line to rewrite into a call, or a part of a source that is   *)
(* not complete yet.  A source is the sequence of its words, with "eol"    *)
(* between lines; ":" stands directly behind the word before it and "@"    *)
(* directly before the word after it, every other word has spaces around.  *)
(***************************************************************************)
EXTENDS Parser

CONSTANT SourceCapacity  \* FROTHY_SHELL_SOURCE_CAPACITY, in words

ASSUME ShellAssumption == SourceCapacity \in Nat \ {0}

-----------------------------------------------------------------------------
(* Reading a source backwards, word by word.                                *)

IsWord(word) ==
  /\ word \notin Punctuation \cup {"quote", "backslash", "eol", "bad", "~["}
  /\ \A n \in 0..9 : word # ToString(n)

RECURSIVE Trim(_)
Trim(source) ==
  IF source # <<>> /\ Last(source) = "eol" THEN Trim(Front(source)) ELSE source

RECURSIVE SkipSpaces(_)
SkipSpaces(source) ==
  IF source # <<>> /\ Head(source) = "eol" THEN SkipSpaces(Tail(source)) ELSE source

Ends(source, words) == Trim(source) # <<>> /\ Last(Trim(source)) \in words

(* What is in front of the last word, or a source no word can be found in.  *)
NoSource == <<"eof">>

BeforeWord(source) ==
  LET s == Trim(source)
  IN IF s # <<>> /\ IsWord(Last(s)) THEN Front(s) ELSE NoSource

(* In front of a list of words separated by commas.                         *)
RECURSIVE BeforeList(_)
BeforeList(source) ==
  LET before == Trim(BeforeWord(source))
  IN IF Ends(before, {","}) THEN BeforeList(Front(before)) ELSE before

(* to name with a, b                                                        *)
EndsWithNamedCodeHeader(source) ==
  LET before == BeforeList(source)
  IN \/ Ends(source, {"to"})
     \/ Ends(before, {"to"})
     \/ Ends(before, {"with"}) /\ Ends(BeforeWord(BeforeWord(before)), {"to"})

(* fn with a, b                                                             *)
EndsWithFunctionLiteralHeader(source) ==
  LET before == BeforeList(source)
  IN \/ Ends(source, {"fn"})
     \/ Ends(before, {"with"}) /\ Ends(BeforeWord(before), {"fn"})

(* What stands behind the last semicolon.                                   *)
Segment(source) ==
  LET s == Trim(source)
  IN SubSeq(s, 1 + Max({0} \cup {i \in DOMAIN s : s[i] = ";"}), Len(s))

(* A with that does not belong to a fn.                                     *)
ContainsCallSeparator(source) ==
  LET words == SelectSeq(source, IsWord)
  IN \E i \in DOMAIN words : words[i] = "with" /\ (i = 1 \/ words[i - 1] # "fn")

OpenerOf(word) == IF word = "~[" THEN "[" ELSE word

(* The positions at which the bracket at i is closed; text does not count.  *)
ClosedAt(source, i) ==
  LET open == OpenerOf(source[i])
      close == Close(open)
      seen == {k \in i .. Len(source) :
                 Cardinality({q \in i .. k - 1 : source[q] = "quote"}) % 2 = 0}
      Count(word, j) == Cardinality({k \in seen : k <= j /\ OpenerOf(source[k]) = word})
  IN {j \in seen : source[j] = close /\ Count(open, j) = Count(close, j)}

(* A bracket that opens the body of the form whose first word is gone: it   *)
(* closes at the end, or before an else or the with of a call.              *)
HasBodyOpener(source) ==
  \E i \in DOMAIN source :
    /\ source[i] \in {"[", "{"} \/ (i = 1 /\ source[i] = "~[")
    /\ ClosedAt(source, i) # {}
    /\ LET tail == SkipSpaces(SubSeq(source, Min(ClosedAt(source, i)) + 1, Len(source)))
       IN tail = <<>> \/ ContainsCallSeparator(tail) \/ Head(tail) = "else"

EndsWithBlockHeader(source) ==
  LET segment == SkipSpaces(Segment(source))
  IN /\ segment # <<>>
     /\ ~Ends(source, {"]", "}"})
     /\ Head(segment) \in {"fn", "cond", "case", "in", "if", "record", "when",
                           "unless", "repeat", "while"}
     /\ ~HasBodyOpener(Tail(segment))

EndsWithCallHeader(source) ==
  LET segment == Segment(source)
      calls == {i \in DOMAIN segment : segment[i] = "call"}
  IN /\ calls # {}
     /\ ~ContainsCallSeparator(SubSeq(segment, Max(calls) + 1, Len(segment)))

EndsWithBareColonCall(source) ==
  LET s == Trim(source)
  IN Len(s) > 1 /\ Last(s) = ":" /\ IsWord(Last(Front(s)))

-----------------------------------------------------------------------------
(* The input state.                                                         *)

NoInput == [source |-> <<>>, paren |-> 0, brace |-> 0, bracket |-> 0,
            inString |-> FALSE, trailing |-> FALSE]

HasPending(input) == input.source # <<>>

(* Faulty variant: an open "[" is overlooked.                              *)
IsCompleteUnbracketed(input) ==
  /\ HasPending(input)
  /\ input.paren = 0 /\ input.brace = 0
  /\ ~input.inString /\ ~input.trailing

IsComplete(input) ==
  /\ HasPending(input)
  /\ input.paren = 0 /\ input.brace = 0 /\ input.bracket = 0
  /\ ~input.inString /\ ~input.trailing

Less(depth) == IF depth > 0 THEN depth - 1 ELSE 0

ScanWord(input, word) ==
  CASE word = "quote" -> [input EXCEPT !.inString = ~@]
    [] input.inString -> input
    [] word = "(" -> [input EXCEPT !.paren = @ + 1]
    [] word = ")" -> [input EXCEPT !.paren = Less(@)]
    [] word \in {"[", "~["} -> [input EXCEPT !.bracket = @ + 1]
    [] word = "]" -> [input EXCEPT !.bracket = Less(@)]
    [] word = "{" -> [input EXCEPT !.brace = @ + 1]
    [] word = "}" -> [input EXCEPT !.brace = Less(@)]
    [] OTHER -> input

ScanChunk(input, line) == FoldLeft(ScanWord, input, line)

(* Words after which more has to come.                                      *)
TrailingWords == {"=", "==", "!=", "<=", ">=", ",", "+", "*", "/", "%", "<", ">",
                  "-", "->", "as", "else", "is", "to", "with", "and", "not", "or"}

UpdateTrailingState(input) ==
  LET source == input.source
  IN [input EXCEPT !.trailing =
        /\ ~input.inString
        /\ \/ Ends(source, TrailingWords)
           \/ EndsWithNamedCodeHeader(source)
           \/ EndsWithFunctionLiteralHeader(source)
           \/ EndsWithBlockHeader(source)
           \/ EndsWithCallHeader(source)]

Overflows(input, line) == Len(input.source) + Len(line) + 1 > SourceCapacity

AppendLine(input, line) ==
  UpdateTrailingState(
    [ScanChunk(input, line) EXCEPT !.source = input.source \o line \o <<"eol">>])

-----------------------------------------------------------------------------
(* Commands, and calls written without a colon.                             *)

CommandNames == {"help", "words", "remember", "save", "restore", "dangerous.wipe",
                 "quit", "exit"}

NameCommands == {"show", "see", "core", "info"}

IsCommand(line) ==
  \/ Len(line) = 1 /\ line[1] \in CommandNames
  \/ Len(line) = 3 /\ line[1] \in NameCommands /\ line[2] = "@" /\ IsWord(line[3])

(* The source a command runs.  It goes through the slots, so a program can  *)
(* put something else under these names.                                    *)
CommandSource(line) ==
  CASE line[1] \in {"remember", "save"} -> <<"save", ":">>
    [] line[1] \in {"words", "restore", "dangerous.wipe"} -> <<line[1], ":">>
    [] line[1] \in {"show", "see"} -> <<"see", ":", "@", line[3]>>
    [] line[1] = "core" -> <<"core", ":", "@", line[3]>>
    [] line[1] = "info" -> <<"slotInfo", ":", "@", line[3]>>

ReservedLeaders ==
  {"and", "as", "boot", "call", "case", "cond", "core", "else", "exit", "false", "fn",
   "help", "here", "if", "in", "info", "is", "nil", "not", "or", "quit", "record",
   "remember", "repeat", "restore", "save", "see", "set", "show", "to", "true",
   "unless", "when", "while", "dangerous.wipe", "with", "words"}

SyntaxWords ==
  {"and", "as", "boot", "call", "case", "cond", "else", "fn", "here", "if", "in", "is",
   "or", "repeat", "set", "to", "unless", "when", "while", "with"}

(* name argument ... means name: argument ...                               *)
IsSimpleCall(line) ==
  /\ Len(line) > 1
  /\ IsWord(line[1]) /\ line[1] \notin ReservedLeaders
  /\ Len(LexNext(line[1]).name) = 1
  /\ line[2] \notin SyntaxWords
  /\ line[2] \notin {":", "~[", "=", "==", "+", "*", "/", "%", "<", "<=", ">", ">=",
                     "bad", "!=", "-", "->"}

RewriteSimpleCall(line) ==
  IF IsSimpleCall(line) THEN <<line[1], ":">> \o Tail(line) ELSE line

(* A line is looked at as a command, or rewritten, only at the start of a   *)
(* source.                                                                  *)
PrepareInputLine(input, line) ==
  IF HasPending(input) \/ IsCommand(line) THEN line ELSE RewriteSimpleCall(line)

=============================================================================
