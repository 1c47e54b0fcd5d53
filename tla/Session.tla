------------------------------ MODULE Session ------------------------------
(***************************************************************************)
(* A session at the prompt: frothy_shell_run of src/src/frothy_shell.c and *)
(* the startup of src/src/frothy_boot.c, over the parser, the evaluator    *)
(* and the snapshot codec.  A step is one line typed at the prompt, with   *)
(* everything the shell does before it reads the next one, or a restart    *)
(* of the device.  Storage survives a restart, nothing else does.          *)
(***************************************************************************)
EXTENDS Runtime, ShellInput

(* The language the shell is a shell of: see EvalSource of Interp and       *)
(* BaseImageReset and Restore of SnapshotCodec.                             *)
CONSTANTS
  Evaluate(_, _, _),  \* what running a source does to a runtime, given the polls
  Reset(_),           \* a runtime with the base image
  Load(_)             \* a runtime with the image in storage

CONSTANTS
  Scripts,   \* lines, as words, by name: a user types the lines of one script
  Polls,     \* how often an evaluation may find the interrupt flag clear
  MaxLines   \* bound, by script: the lines typed in a behaviour

ASSUME SessionAssumption ==
  /\ \A name \in DOMAIN Scripts : Scripts[name] \subseteq Seq(STRING)
  /\ Polls \subseteq Nat \ {0}
  /\ MaxLines \in [DOMAIN Scripts -> Nat]

VARIABLES
  input,    \* frothy_input_state_t: the source typed so far
  rt,       \* the runtime, and the snapshot in storage
  running,  \* the shell has not returned
  last,     \* the last source that was run and what came of it
  typed,    \* how many lines were typed
  script    \* the script this user has

vars == <<input, rt, running, last, typed, script>>

-----------------------------------------------------------------------------

NothingRun == [source |-> <<>>, phase |-> "none", err |-> "ok", val |-> Nil]

Init ==
  /\ input = NoInput
  /\ rt = Reset([store |-> NoSnapshot])
  /\ running = TRUE
  /\ last = NothingRun
  /\ typed = 0
  /\ script \in DOMAIN Scripts

Ran(source, r) ==
  /\ rt' = r.rt
  /\ last' = [source |-> source, phase |-> r.phase, err |-> r.err, val |-> r.val]

(* After a call with too few arguments the shell waits for them.            *)
ShouldContinueAfterEvalError(source, r) ==
  r.phase = "eval" /\ r.err = "signature" /\ EndsWithBareColonCall(source)

Prompt ==
  /\ running /\ typed < MaxLines[script]
  /\ typed' = typed + 1
  /\ UNCHANGED script

IsComment(line) == line # <<>> /\ line[1] = "backslash" /\ ~input.inString

AtStart == ~HasPending(input)

SkipLine(line) ==
  /\ Prompt
  /\ IsComment(line) \/ (AtStart /\ line \in {<<>>, <<"help">>})
  /\ UNCHANGED <<input, rt, running, last>>

Quit(line) ==
  /\ Prompt
  /\ AtStart /\ line \in {<<"quit">>, <<"exit">>}
  /\ running' = FALSE
  /\ UNCHANGED <<input, rt, last>>

RunCommand(line, polls) ==
  /\ Prompt
  /\ AtStart /\ IsCommand(line) /\ line[1] \notin {"help", "quit", "exit"}
  /\ Ran(CommandSource(line), Evaluate(rt, CommandSource(line), polls))
  /\ UNCHANGED <<input, running>>

IsSourceLine(line) ==
  /\ ~IsComment(line)
  /\ AtStart => line # <<>> /\ ~IsCommand(line)

(* A line that does not fit ends the shell.                                 *)
Overflow(line) ==
  /\ Prompt /\ IsSourceLine(line)
  /\ Overflows(input, PrepareInputLine(input, line))
  /\ running' = FALSE
  /\ input' = NoInput
  /\ UNCHANGED <<rt, last>>

Appended(line) == AppendLine(input, PrepareInputLine(input, line))

Fits(line) == ~Overflows(input, PrepareInputLine(input, line))

AskForMore(line) ==
  /\ Prompt /\ IsSourceLine(line) /\ Fits(line)
  /\ ~IsComplete(Appended(line))
  /\ input' = Appended(line)
  /\ UNCHANGED <<rt, running, last>>

RunSource(line, polls) ==
  /\ Prompt /\ IsSourceLine(line) /\ Fits(line)
  /\ IsComplete(Appended(line))
  /\ LET source == Appended(line).source
         r == Evaluate(rt, source, polls)
     IN /\ Ran(source, r)
        /\ input' = IF ShouldContinueAfterEvalError(source, r) THEN Appended(line)
                    ELSE NoInput
  /\ UNCHANGED running

(* CTRL-C at the prompt drops the source typed so far.                      *)
InterruptPrompt ==
  /\ running /\ HasPending(input)
  /\ input' = NoInput
  /\ UNCHANGED <<rt, running, last, typed, script>>

(* The end of the input ends the shell.                                     *)
EndOfInput ==
  /\ running
  /\ running' = FALSE
  /\ input' = NoInput
  /\ UNCHANGED <<rt, last, typed, script>>

-----------------------------------------------------------------------------
(* Startup: the base image, the snapshot, and then boot if it is code.      *)

ShouldRun(runtime) == HasKind(runtime, SlotValue(runtime, Boot), {"code"})

RunStartup(runtime, polls) ==
  LET base == Reset(runtime)
      restored == IF runtime.store = NoSnapshot THEN Ok(base, Nil) ELSE Load(base)
      r == Evaluate(restored.rt, <<"boot", "(", ")">>, polls)
  IN CASE restored.err # "ok" ->
            [NothingRun EXCEPT !.phase = "restore", !.err = restored.err]
              @@ [rt |-> restored.rt]
       [] ShouldRun(restored.rt) -> [source |-> <<"boot", "(", ")">>] @@ r
       [] OTHER -> NothingRun @@ [rt |-> restored.rt]

StartWith(r) ==
  /\ Ran(r.source, r)
  /\ input' = NoInput
  /\ running' = TRUE
  /\ UNCHANGED <<typed, script>>

Restart(polls) == StartWith(RunStartup(rt, polls))

(* A safe boot skips both.                                                  *)
SafeRestart == StartWith(NothingRun @@ [rt |-> Reset(rt)])

-----------------------------------------------------------------------------

Lines == Scripts[script]

Next ==
  \/ \E line \in Lines : SkipLine(line)
  \/ \E line \in Lines : Quit(line)
  \/ \E line \in Lines : Overflow(line)
  \/ \E line \in Lines : AskForMore(line)
  \/ \E line \in Lines, polls \in Polls : RunCommand(line, polls)
  \/ \E line \in Lines, polls \in Polls : RunSource(line, polls)
  \/ InterruptPrompt
  \/ EndOfInput
  \/ \E polls \in Polls : Restart(polls)
  \/ SafeRestart

Spec == Init /\ [][Next]_vars

=============================================================================
