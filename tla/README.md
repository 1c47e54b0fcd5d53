# A TLA+ model of Frothy

Frothy is a small live language for microcontrollers. A C runtime (`src/src`)
keeps a program as named *slots* over a preflashed *base image*, evaluates
source that arrives on a serial console, and saves the user's *overlay* to
flash. A Go command line (`src/tools/cli`) and an editor extension
(`src/tools/vscode`) drive it through a framed *control protocol* on the same
console.

The modules here model the parts in which an error would cost the user the
program or the session: storage, durability, the base image, the evaluator,
the language from a typed line to a saved image and back, the control protocol, the
helper that owns the serial port and the editor that drives it. They are
checked on small instances with TLC; the safety of storage, base image,
evaluator, connection manager, control link and the editor's controller is also proved for
every instance with TLAPS. `PROJECT.json` names, for every definition, the
source lines it models.

## 1. Inventory

Paths are below `src/`. "Correct when" states what the part owes its users.

| Part | State | Operations | Correct when |
|---|---|---|---|
| payload arena, `src/frothy_value.c` | `payload_free_spans`, `payload_extent`, object table | allocate, append, release, coalesce, trim, clear | no byte has two owners or none; the free-list array never overflows |
| object table and values, `src/frothy_value.c` | objects with kind and `ref_count` | retain, release, allocate each kind, field access | the count of an object is the number of its holders |
| evaluator, `src/frothy_eval.c` | frame stack, value arena, reset epoch | one node kind per IR node; calls, loops, errors | everything a program holds is released once, on every exit; an interrupt ends every program |
| slot table, base image, `src/froth_slot_table.c`, `src/frothy_base_image.c` | slots, registry count, heap watermark | install, reset, define | a reset gives back exactly the base image |
| snapshot store, `src/frothy_snapshot.c` | two slots with header and payload | save, restore, wipe | a save is all or nothing, whatever fails |
| snapshot codec, `src/frothy_snapshot_codec.c` | symbol and object tables of one image | encode, decode | decoding gives back what was encoded, or nothing |
| FFI, `src/frothy_ffi.c` | binding tables, last error, saved bindings | validate, install with rollback, dispatch | a table is installed as a whole or not at all |
| boot, `src/frothy_boot.c` | `boot_complete` | base reset, safe-boot window, restore, `boot()` | a bad snapshot never prevents a prompt |
| shell, `src/frothy_shell.c` | line and pending source | read line, continue input, evaluate, enter control | input is evaluated once, when complete |
| control loop, `src/frothy_control.c` | session id, next sequence number, frame buffer | hello, eval, inspect, reset, detach | each request is answered once, to the one who asked |
| parser and IR, `src/frothy_parser.c`, `src/frothy_ir.c` | scopes; a program packed in one payload | parse, clone, validate | names resolve to the slots and locals the language says |
| platforms, `platforms/*` | console route, snapshot files or NVS blobs, interrupt flag | key, emit, poll, snapshot I/O | CTRL-C is seen; a failed write is reported |
| control session, `tools/cli/internal/frothycontrol/session.go`, `internal/serial/port.go` | session id, sequence number, recovery | acquire prompt, hello, request, interrupt | finds the way back into a session from any state of the device |
| connection manager and request server, `manager.go`, `control_session.go` | connection, operation kinds, three mutexes, generations | connect, disconnect, request, interrupt | no port leaks; a disconnect is obeyed, and at once |
| framing, `internal/protocol`, `protocol.go` | none | COBS, frame encoding | decoding inverts encoding |
| project resolution, `internal/project` | include graph | resolve, split into forms | order and cycles of includes |
| editor extension, `tools/vscode/src` | client, closing client, generation, connect attempt, running operations, pending requests | connect, disconnect, force reconnect, interrupt, evaluate, send file | no helper process is left behind; an older command never changes what a newer one shows; a file goes to the helper that was reset for it |
| boards, display, local runtime, firmware packaging, smoke runner | drivers, files, child processes | | |

How they interact. The shell and the control loop call `frothy_shell_eval_source`;
the evaluator calls the object table, which calls the arena. The builtins
`save`, `restore` and `dangerous.wipe` run *inside* the evaluator and replace
the whole heap under the running program. A wipe or restore re-evaluates the
base library, so the evaluator's interrupt poll can abort a reset. On the host
the editor's requests become goroutines that meet in the manager; the manager
drives one session; session and device share a byte stream that also carries the
prompt, program output and CTRL-C. The editor's controller is single-threaded,
but each of its commands is a chain of awaits, and every await lets another
command or a line of the helper in.

What is hard: power loss between two flash writes; errors reported by a write
that did or did not take effect; CTRL-C at any point of a reset or of a program; a
fixed array that is written without a bound check; reference counts on every
error path; goroutines whose view of "what is running" is read without the
lock; timeouts that give up on answers which still arrive; resynchronisation
of a byte stream; a format that is written by one walk over a graph and read by
another, after validation in some forty places; a shell that guesses whether a
source is complete; commands of the editor that overlap on a helper which may be
replaced under each of them. Each is listed under `hazards` in `PROJECT.json`, at its line, with
the properties that would notice it going wrong.

## 2. Modules

| Module | Models | Checked by |
|---|---|---|
| `PayloadArena` | arena and object table | run `payload_arena`, `PayloadArenaProofs` |
| `DurableImage` | what save, restore and wipe promise (abstract) | |
| `SnapshotStore` | `frothy_snapshot.c` over the platform's slots | run `snapshot_store`, `SnapshotStoreProofs` |
| `BaseImage` | slot table, base image, definitions, reset | runs `base_image`, `base_image_loss`, `BaseImageProofs` |
| `Evaluator` | frames, value arena, reference counts, interrupts | run `evaluator`, `EvaluatorProofs` |
| `ControlManager` | manager and request server of the helper | runs `control_manager`, `disconnect_blocked`, `stale_connected`, `ControlManagerProofs` |
| `ControlLink` | device shell and control loop, host session, the line | run `control_link`, `ControlLinkProofs` |
| `IR` | nodes, literals and links of a program | through `Parser` |
| `Parser` | tokens, scopes, every form of the grammar | run `session` |
| `Runtime` | values and objects as a heap: texts, cells, functions, records | run `session` |
| `SnapshotCodec` | collecting, writing, validating and decoding an image | runs `session`, `saved_not_restorable` |
| `Interp` | the value of each kind of node, the builtins | run `session` |
| `ShellInput` | when the shell runs a source and when it asks for more | run `session` |
| `Session` | the shell's loop and the startup, over all of these | runs `session`, `saved_not_restorable` |
| `SessionProperties` | what has to hold, against definitions of its own | run `session` |
| `EditorController` | the editor's controller and its helper clients | run `editor`, `EditorControllerProofs` |

`MC*` modules give constants their values. Definitions introduced by "Faulty
variant" or "Mutant", or described as what a wrong version would do, are not part of a
specification: each is a plausible error in one definition, and is there to
show that the property named for it in `PROJECT.json` would notice it.

### PayloadArena

`spans`, `extent`, `used`, `payload`, `live` and `objectCount` are the fields of
`frothy_runtime_t`. Lengths are in alignment units, because
`frothy_payload_align_up` rounds every request. A caller takes storage
(`AllocPayload`), then appends an object or, when the table is full, gives the storage back
(`AppendObject`, `AbandonPayload`). The loops of
`frothy_runtime_add_payload_free_span` (insert, coalesce, trim) are one step per
iteration, so that what holds *inside* them is checked: the insertion
writes entry `payload_free_span_count` of an array with `FROTHY_OBJECT_CAPACITY` entries
without a check.

### SnapshotStore and DurableImage

A save reads both headers, picks a slot and a generation, writes the payload,
then the header; a wipe erases slot 0, then slot 1, then resets. Every
platform call is a step that succeeds, fails after or before its effect, or is cut by
a loss of power that leaves the slot torn. A payload is named by the image it encodes, so
the CRC of a header is that name: the model assumes that the CRC tells images
apart. The read of a header may fail too, at any save, restore or start: the code takes such a
header for invalid. Generations wrap at `GenModulus`, 2^32 in the code.

`DurableImage` has no slots: `last` is what a restore brings back, `prev` what
it would bring back if `last` were erased. Its `Commit` is one step.
`SnapshotStore` implements it under the mapping `Durable`. Two properties of
the code show in the abstract specification because they are real: after the
largest generation a save is kept but no longer found (`CommitExhausted`), and a
wipe cut between its erasures brings back the older snapshot (`EraseLast`).

### BaseImage

A slot has a name, a binding, an overlay flag and a place in the heap. Installing
the base image is a sequence of steps: one per builtin, the board's table, one
per library form; CTRL-C may end it between forms.
A reset clears what the registry does not cover, discards every object, shrinks the heap
to the watermark and installs again. The counts of bound objects
are exact integers, and a stale binding is an object id that may name a newer object,
as in the code. `cut` remembers that an install was ended by CTRL-C: until then
the base image survives everything (`BaseSurvivesUncut`), afterwards it may not
(see "Disagreements found"). Names are taken to be of equal length.

### Evaluator

`frames` is `frothy_eval_frame_stack`: a node kind, a phase, three scratch
values, a buffer of arguments in the arena and where the value goes. An
iteration of `frothy_eval_node`'s loop is one step. The program is open: the
kind of a node is chosen when it starts, again on each iteration, so that the
specification covers every program that fits the bounds. All immediate values are
one value, `Imm`; a test of one may go either way. Cells and records have one
element, functions and record definitions take one argument.
`Dead` gives the objects whose count reaches zero as a least fixed point: the
recursion of `frothy_value_release` through `frothy_runtime_clear_live_object`.
Its order makes no difference to what is left, so a frame's `Cleanup` releases scratch
values and buffer one after the other, and `Fail` gives up all that is `Owned` at once.
`ToArguments` takes a frame's buffer from the arena (`frothy_eval_buffer_init`), `UsedAfter`
is what is in use when it has been given back.
A native may reset the runtime (`NativeResets`): the heap is the base image's
again, and the frames hold ids of before until `ResetEnds`, as `reset_epoch`
has it. A reset evaluates the base library in a nested call; its outcome is
taken from `BaseImage` as one step.

### ControlManager

Each request of the editor is a goroutine; a step is one critical section or
one exchange with the device. `opMu` is held across exchanges, `mu`, `opStateMu` and
the server's `lifecycleMu` only inside a step. `Pend`, `Acquire` and the activation step are
`beginOperation`; the disconnect reads the operation kind in a step of its own, as
`currentOperation` does. What a device answers and whether a port can be
opened are inputs. The end of the server's input and the local runtime are
left out.

### ControlLink

Two queues of tokens: delimiter, frame body, CTRL-C, newline, prompt, "control: ready". The
device is a shell or a control loop, with its frame buffer, session id and
next sequence number; it echoes in the shell, polls for CTRL-C only at the next
unread byte while a program runs, and leaves control on a CTRL-C between
frames. A frame that arrives at the shell is split at its newlines, and the shell runs the
lines that are complete (`ShellBytesRun`): of the text of a request `FrameLines` lines can run, the
rest of the frame stays unread (`Rest`) while one does, and the last, which no newline
ends, waits in the shell's `line` until one comes (`ShellLineRuns`). What else is in a frame ends at
once. Left out are lines of a frame that happen to be a shell command (`quit`, `exit`, `.control`, which
would have to be the user's text). The host acquires a prompt with up to three writes, says hello,
sends requests, interrupts, gives up after timeouts and opens again. The line
may lose tokens. A timeout may fire although the answer is on its way, so
answers arrive in a later session. Session ids are random in the code; here each is the
least number that occurs in no frame that is still anywhere, nor on the device. The
identity `ref` of a request is chosen in the same way; it is not in the code, where
nobody could look at it, and is there to say which request an event answers.

### The language: IR, Parser, Runtime, Interp, SnapshotCodec, ShellInput

These follow `frothy_ir.c`, `frothy_parser.c`, `frothy_value.c`, `frothy_eval.c`,
`frothy_snapshot_codec.c` and `frothy_shell.c` as operators from a state to a
state, with the error each path ends in.

- A source is a sequence of words. The lexer decides between kinds of words
  (number, name, keyword, punctuation, text), not between characters; numbers
  have one digit, and a text is a word between two `quote`s. All errors of the
  lexer are "lex".
- `Parser` keeps the parser's scopes, frames, hidden locals and prefix, and
  rewrites every form of the language (`when`, `unless`, `cond`, `case`,
  `and`, `or`, `repeat`, records, `in`, `to`, `fn`) into nodes as the code does. It packs the
  program with its strings, whose space one pass measures and another fills.
- `Runtime` is the heap without its storage: objects with counts, released
  through what they hold. Storage is `PayloadArena`'s.
- `Interp` gives the value of a node; an evaluation is given the number of polls
  after which it finds the interrupt flag set. Where frames and buffers are on
  the way is `Evaluator`'s. `see`, `core` and `slotInfo` answer with whether
  the name is known; their reports are text.
- `SnapshotCodec` has an image as tables of symbols, objects and bindings in
  the order the code numbers them, instead of bytes. Validation errors are all "format". The
  size limit of a payload is left out. `Damaged` images are those that
  differ from a written one in one index, kind or count.
- `ShellInput` counts brackets and texts, looks at trailing words and headers and
  recognises commands and bare calls.

### Session and SessionProperties

A step of `Session` is one line typed at the prompt with everything the shell
does before it reads the next: ask for more, run the source, keep it after a
signature error on a bare call; or an end of input, a CTRL-C at the prompt, a
restart, a safe restart. Only the snapshot survives a restart. Save and restore
succeed or fail as a whole here: what storage can do in between is
`SnapshotStore`'s part. Entering the control loop (`.control`) is `ControlLink`'s;
how the safe-boot window finds its key is a free choice.

The language reaches `Session` through constant operators (`Evaluate`, `Reset`,
`Load`, `Parse`), given in the configuration, so that the loop does not depend on
how they are computed and could be put over another language.

`SessionProperties` states what has to hold in terms that do not follow the
code: a program is a tree of which every local is set before it is read; two images are the same when there is an
isomorphism between what their slots reach; a phrase means what its parts mean, by a definition next to its
words; a source is complete when a prefix of it cannot be continued.

### EditorController

`ed` is the fields of `FrothController`, `helper` the clients with their
processes, `cmd` the commands in flight. JavaScript runs one stretch of code at a
time: a label in `Sync` holds the thread, every other label is an await, and what
has settled is continued before anything new is taken from outside (`Quiet`).
Saving, restoring, wiping, running a binding and sending a selection are the
same command as an evaluation; words and see are the one that is not counted as
running. The helper is external: it answers, fails, finds its device gone,
announces events in the order `control_session.go` writes them, crashes, or
never says anything; the two timers and the user's answers to dialogs
come at any time. The counters of generations and attempts are only compared for
equality, so a stamp stands for a value (`Fresh`) and is used again when nobody holds it;
so is the name of a client. The controller's `dispose`, at the end of the extension
host, is left out.

## 3. Runs

| Run | Instance | Distinct states | Checks |
|---|---|---|---|
| `payload_arena` | 3 objects, 9 units, several request lengths | 58 888 | `FreeListFits`, `OneOwner`, `Canonical`, `Accounting`, `ReturnCompletes` |
| `snapshot_store` | base and two images, generations modulo 6, reads of headers that may fail | 74 488 | `AckedSaveSurvives`, `NoGenerationTie`, `SaveAvoidsActive`, `ImplementsDurableImage` |
| `base_image` | 5 base names, 6 slots, 7 objects, CTRL-C during a reset | 15 356 | `BaseSurvivesUncut`, `RefsExact`, `ResetIsPristine` |
| `base_image_loss` | the same | violation | `BaseSurvives` |
| `evaluator` | 3 frames, 2 arena values, 2 objects, 1 slot | 863 774 | `RefsExact`, `RunningCodeLives`, `ArenaStacked`, `InterruptStops` |
| `control_manager` | one connect, disconnect, request and interrupt | 506 579 | `NoLeak`, `OneExchange`, `DisconnectWins`, `HolderRuns`, `FailsOnlyItsOwn` |
| `disconnect_blocked` | two evals and a disconnect | violation | `DisconnectReturns` |
| `stale_connected` | a connect and a disconnect | violation | `SupersededIsSilent` |
| `control_link` | sequence numbers 1 and 2, 3 disturbances, 2 losses, 2 lines in a frame that can run | 649 040 | `AnswersMatch`, `InStep`, `Reattaches` |
| `session` | three scripts: 4 of 13 lines of a story, 3 of 26 fragments, one phrase | 25 188 | `ProgramsAreProper`, `StringsFit`, `PhrasesMean`, `ImageIsWellFormed`, `RunsWhenComplete`, `SavedImageComesBack`, `RestoredSavesAlike`, `DamageIsContained`, `FailedRestoreLeavesBase` |
| `saved_not_restorable` | the story | violation | `SavedCanBeRestored` |
| `editor` | every two commands of seven kinds, three threes, 4 clients, 2 forms | 566 303 | `NoOrphan`, `RunningIsReal`, `ShownIsCurrent`, `FormsFollowReset`, `AwaitsOnlyTheKilled` |

The type invariant of a module is an invariant of its run, by itself
(`payload_arena`, `snapshot_store`) or as the first part of another one
(`RefsExact`, `HolderRuns`, `InStep`, `ArenaStacked`, `ImageIsWellFormed`, `NoOrphan`).

Why the bounds are enough to be interesting:

- Three objects let the free list reach two spans with an object between
  them and a third one before it: every case of the insertion and both directions of a
  merge. The proofs remove the bound.
- Modulo 6 the generations wrap after six saves, and each slot is overwritten
  several times before. The proofs remove the bound.
- The base image has each kind of name (a builtin, the unbound `boot`, a board
  binding, two library words). One free slot fills with the first user name; one or two free objects let a
  stale id be reused.
- Three frames are a call, a node in the called body and its child: enough for
  a body that rebinds its own slot. Two objects are a record and
  its definition, cells and the text in them, or a record that holds itself. The arena holds the
  local of a program and one argument, and is full with the next. With three objects
  (6.27 million states, too many to run regularly) the invariants hold too.
- One process of each kind in `control_manager` covers every pair, which is
  what the locks arbitrate, and one triple more; the counterexample of `disconnect_blocked` needs
  two requests and has them.
- Sequence numbers up to 2 wrap inside one session. Three disturbances
  allow an abandoned request, an abandoned recovery and one more. Two lines of a frame that can
  run are one that runs with the rest unread behind it, and one that follows.
- The story's lines make a record, a text, an alias of a definition, cells with a text in them, a
  record that holds itself, a function that restores while it runs, and `boot`; any four of them
  in any order, with saves, restores and restarts. The fragments are what a
  source can be cut into. The phrases nest each form in each other one level
  deep. Evaluations are interrupted after 3 polls, or not at all (200).
- Two commands of the editor meet at every await of each. The threes are those in which the third
  comes while the second waits for what the first does: a file that waits for a
  running program to stop, and a connect during a disconnect during a connect. Four
  clients are enough: with fewer a command would be unable to start one, which
  TLC reports as a deadlock. Other threes (force, connect, eval; eval, file, connect;
  eval, file, force; up to 1.8 million states) hold too and are too long to run regularly.

### Fairness

- `PayloadArena`: the loop that returns a span goes on; it is sequential code.
- `Evaluator`: the evaluator goes on while a program runs. It is written as
  `[]<>~running \/ []<><<TRUE>>_evaluation`, which is weak fairness of its
  steps since one of them is enabled whenever a program runs; a state with none
  would be reported as a deadlock. No loop is assumed to end.
- `ControlManager`: goroutines are scheduled (weak fairness), a `sync.Mutex`
  starves nobody (strong fairness of `Acquire`), a read of a closed
  transport returns. An eval has no timeout, so the device need not answer it.
  Only `disconnect_blocked` uses it. That nobody waits for ever on a mutex needs no
  fairness: goroutines take finitely many steps, and `control_manager` has no deadlock.
- `ControlLink`: the device keeps reading, the host keeps reading, times out when nothing is
  coming, and opens the line again. Programs need not end, neither those of requests nor those the shell runs, and an
  eval has no timeout.
- `Session` and `EditorController` are checked for safety only. Every behaviour of
  `EditorController` is finite, and a state in which a command waits for
  something that cannot come would be reported as a deadlock.

### What the passing runs show

- `RefsExact` (both modules) relates each count to the number of holders over
  the whole state, in `Evaluator` after every error exit, interrupt and reset.
  Cyclic records keep each other alive: the count is exact, the storage is
  gone until a reset.
- `ResetIsPristine`: a reset that succeeds leaves the table of the first boot,
  slot for slot, whatever the program defined, with a table that was full.
- `AckedSaveSurvives` holds even if header reads fail: one save that reads
  both headers is enough.
- `InStep`: the device never meets a request of its own session with another
  sequence number than it expects, wrap-around and lost answers included.
- `Reattaches`: prompt recovery leads back to a bound session, unless the device stays
  for good where CTRL-C is not seen (`Deaf`). Only two things leave it there. A lost delimiter leaves
  it inside a frame, where CTRL-C is data, until a delimiter comes, which
  the recovery does not send. And a frame that reached the shell leaves it in a program of one of
  the frame's lines: if that does not end, the next unread byte is the rest of the
  frame, and CTRL-C behind it is never looked at.
- `ProgramsAreProper`, `PhrasesMean`: what the parser builds is a tree with every
  local set before it is read, through every nesting of forms in the scripts; and
  the value that comes out is the one the words stand for, or the error of the
  part that fails first.
- `SavedImageComesBack`: after a save that succeeds, a restart or a restore gives an overlay
  isomorphic to the saved one, cycles and sharing included (except as in
  finding 4). `FailedRestoreLeavesBase`: otherwise nothing of it is bound.
- `RestoredSavesAlike`: an image that came back is saved again as the same payload, so that what
  a save writes does not grow, shrink or stop to be accepted from one restart to the next.
- `DamageIsContained`: a payload with any one index, kind or count changed is refused,
  or is itself a well-formed image; no read leaves its table.
- `RunsWhenComplete`: no half of a definition is run, and the shell asks for more
  only of a source that can be continued, with the exceptions below.
- `NoOrphan`, `AwaitsOnlyTheKilled`: however commands overlap, a helper that runs is somebody's
  to close, and nobody waits for the exit of one that was not killed.
- `ShownIsCurrent`: what is shown belongs to the client in use, in every state, and no step of a
  command that was superseded while it awaited (`Outdated`) changes it. One step is left out of
  the property, because it does: the cancelled picker (disagreement 6).
- `RunningIsReal`: "running" is never left behind, which would refuse every later command.

### Observations

Not claims anyone made, so no run is about them; each was met while modelling.

- CTRL-C that arrives after the program of a request has ended leaves control
  (`frothy_control.c:1185`), and the next request reaches the shell. Of an eval of several
  lines the lines after the first are run there, each by itself, while the host waits
  for an answer that never comes. If one of them does not end, only a reset of the board helps.
- The shell waits for more where it need not: after `set x to y`, after brackets in a
  comment, after a text that contains `call`. `fn(x { x }` is accepted as a function without
  parameters.
- After a signature error on a source that ends in a bare call the source is kept
  and evaluated again with the next line (`frothy_shell.c:1279`), effects included.
- While Force Reconnect waits for the old helper to exit, the editor still shows the
  old state, and a Connect then starts a helper beside the one that is dying. If
  that start fails, "connected" or "connecting" stays on the screen with no client; the
  next connect or evaluation corrects it.
- While a file's reset is awaited the state is not "running": a second file, or an
  evaluation, is let in, and its forms mix with those of the file.
- A second Connect on a connected client, answered while an evaluation runs, clears the
  count of running operations.

### Disagreements found

1. `base_image_loss`. `frothy_base_image_install` clears the registry count
   first and sets it at its very end. If CTRL-C ends it in between, the next
   reset does not clear the stale bindings, a new object takes the id of
   one, and the slot write releases it: the reset reports success with one
   base word bound to another word's code. The comment at
   `src/src/frothy_eval.c:407` says base definitions survive. Builtins and board
   bindings are not affected.
2. `disconnect_blocked`. Between two evals the manager's operation kind reads "none", and a
   disconnect that looks then waits for the second eval, which
   has no timeout. `session_test.go:411` requires a disconnect not to wait for a running eval.
3. `stale_connected`. A connect compares its lifecycle generation and publishes "connected"
   in a second step; a disconnect in between is reported first. `control_session_test.go:446`
   requires the superseded connect to stay silent.
4. `saved_not_restorable`. After `record Point [ x ]` and `q is Point`, `save`
   succeeds and every later restore fails, because a definition is only accepted under its own
   name: the whole overlay is lost. `frothy_inspect.c:233` reports of
   such a slot "saved in snapshot".

Two more have no run that shows them; no passing property counts them as right.

5. A function keeps the whole program it was written in. If a record is defined
   in the same `in` form, every later save is refused (`frothy_snapshot_codec.c:906`), although no
   slot holds anything that cannot be saved, and `frothy_inspect.c:233` reports the function
   "saved in snapshot". `RestoredSavesAlike` is about images that were saved once and is silent here.
6. Cancelling the device picker of a connect that was superseded shows
   "disconnected" over the newer connection: the attempt is compared before the question is put, and not
   between the answer and what is shown (`controller.ts:989`). A test of the extension
   (`tools/vscode/test/controller-smoke.js:745`) is named "superseded connect rejection does not clear newer
   connect". `SupersededIsQuiet` holds of every other step and names this one (`PickerCancelled`).

## 4. Proofs

`PayloadArenaProofs` (every object capacity, buffer size and set of request
lengths): `TypeOK`, `FreeListFits`, `OneOwner` (no unit has two owners, none is
lost), `Canonical`, `Accounting`, and `ReclaimedWhenEmpty`, which no run needs to check. The list of spans fitting its array is not inductive. The
argument counts: between returns the list is coalesced and trimmed and no unit is
lost, so each free span is directly followed by an object's span, and one object
id is behind no free span (it owns nothing, or was placed last, at the front of a
free span that touches no other). So free spans map one-to-one into the object ids
without that one, and an entry is left for the insertion. The invariant
`IInv` therefore carries, besides the properties: bounds of spans, who
may hold a span at each point, separation of entries as far as the loop has come, and
the object id that is behind no free span. `Accounting` then counts: the units held
are a set, a span taken adds its length to the size of that set because it overlaps
nothing, and one given back takes it away again.

`SnapshotStoreProofs` (every set of images, every even modulus above 2):
`TypeOK`, `AckedSaveSurvives`, `NoGenerationTie`, `SaveAvoidsActive`, and
that `Spec` implements `DurableImage` in every step but those after an operation that misread a header. The key is parity: the
first save is generation 1 in slot 0, every save counts on from the other
slot, and the modulus is even, so slot 0 holds odd and slot 1 even
generations; they never tie. `IInv` adds that a save under way still
aims at the slot and the generation chosen from the headers it read, that the payload written is the image,
and that a wipe or a save that misread a header promises nothing.

`BaseImageProofs` (every base image, number of slots and of objects):
`RefsExact`, `BaseSurvivesUncut` and the action property `ResetIsPristine`. A reset finds the base
slots by position, so what has to be kept is the layout of the table
(`LayoutInv`: base names first, in the order of installation, then the program's, each
name once), how far an install has come (`PhaseInv`), what the slots below that point
are bound to (`BoundInv`), and that counts are numbers of slots (`CountInv`). All
four are lost when a reset is cut short, as finding 1 shows; then `IInv` keeps only the
types and that an install cannot run out of objects. Counting is by cardinality of the
set of slots bound to an id. Assumed: the base names are distinct, `boot` is a builtin,
and table and heap are at least as large as the base image.

`EvaluatorProofs` (any number of frames, objects, slots and arena values, any program):
`RefsExact`, `RunningCodeLives` and `ArenaStacked`. A count is the size of a set of
places: slots, the result, the scratch values, the arena, the elements of live
objects. The proof first looks at an object table and a function `X`, the number of
references from outside, and calls the table exact for `X` when each count is `X` plus the
elements that hold the object. `Release` is then one lemma: if `X` covers what is released,
the table is exact afterwards for what is left of `X`, although the recursion takes any number
of objects with it. It rests on `Dead` being the least set that is closed under "the
count has run out", and on a live object outside `X` being held by a live one.
Allocating, retaining and replacing an element are
lemmas of the same kind. Each step is then the question how `X` changes when values
move between frames, arena, slots and result, and for that a value must arrive where nothing
is. Hence `Inv`: buffers are stacked (`Stacked`), arguments not yet evaluated, and scratch places not
yet filled, are `Imm` (`ArenaOK`, `FramesOK`), and each frame's result goes to an empty place
of the frame below or, through nodes that pass their last child's value on, further down, and no two
to the same one (`OutsOK`, `Distinct`, `FreeOuts`). The places
of a call are fixed by its callee's arity, which `CalleesOK` keeps together with the
fact that the callee is live, whatever its body does to the slot. After a
reset from within a program (`stale`) only slots and result count, and the
result is `Imm`. Assumed: the slots are finitely many, one of them is the one a reset
restores, and an immediate value is not an object id.

`ControlManagerProofs` (every finite set of connects, disconnects, requests and
interrupts): `NoLeak`, `OneExchange`, `DisconnectWins`, `HolderRuns` and the action
property `FailsOnlyItsOwn`. `opMu` does not protect the connection, because a disconnect, an
interrupt and a failing request take it out of the manager without the
lock. What holds is that only a connect puts one in, once and under the lock, that nobody
knows a connection before it was stored (`PrivateInv`), that who is about to close one has
taken it out (`ClosingInv`), and that the holder of the lock knows the connection unless it
was taken away (`KnownInv`). `DisconnectWins` needs that a disconnect which
raised the cancel counter after a connect's last look waits for the lock and takes what
was stored (`CancelInv`). Assumed: the goroutines are finitely many, and each is of one kind.

`ControlLinkProofs` (any largest sequence number, any number of disturbances, of losses and of lines in a frame, lines
of any length): `AnswersMatch` and `InStep`. Numbers are used again and an abandoned
session may leave anything on the line, so that an event has the right numbers does not by
itself make it the answer. `IInv` says that a session never has more than one request under
way (`OneInv`), that IDLE is the last thing of its session anywhere (`IdleInv`), that
the device's counter is the number of the request it has, or one past that of an IDLE
(`CountInv`), and that everything of the host's session belongs to the request it is waiting for
(`CurrentInv`): when the host has read IDLE nothing of the session is left, and it
may use the next number. A frame that reached the shell is no longer anybody's request: its
rest holds no body, and what the shell runs is not a request either (`ModeInv`). Losing tokens keeps all of this, since it only thins a queue out.

`EditorControllerProofs` (any number of commands, clients and forms, any plans): `NoOrphan`,
`RunningIsReal`, `ShownIsCurrent`, `FormsFollowReset` and `AwaitsOnlyTheKilled`. One
invariant serves all five, because each is about what a command may still believe after an
await. `Core` ties the controller to its clients: the one in use runs and carries the
generation of the moment, and none is closing beside it. `Local` says for each label what an
unchanged generation or attempt promises: that nothing is closing and no client has come (while
one is being started), that the client being detached is still the one that is closing, that
the newest attempt is answered by the client in use. `Pair` keeps commands apart (one thread,
one attempt each, a client that is being started is known to its starter only) and `Newest`
says that the starter of the newest generation has the newest attempt. A command that awaits keeps
all this over any step of the others, since whoever takes the client away also makes a new
stamp (`LocalKept`). The count of running operations is bounded by the size of the set of
commands in flight on the client in use, a set that becomes empty together with the count
when the client goes. The step part of `ShownIsCurrent` goes through the actions: each is the step of a
command that cannot be superseded (it did not await, `SyncIsNotOutdated`), or one that compares
attempt, client or generation before it touches what is shown, or leaves it alone (`Alters`). Assumed: commands and clients are finitely many and numbered, a file has a
form, plans are made of the seven kinds of command, and a user who is connected
has a client.

Each `IInv` (`Inv` in `EvaluatorProofs`) was checked with TLC on the instance of its module's run before it was proved.
Assumptions are the named `ASSUME`s of the modules; TLC evaluates them in
every run.

Only model-checked: all liveness (`ReturnCompletes`, `InterruptStops`, `Reattaches`; fairness
is out of the prover's reach), and the nine properties of run `session`: the
language (`IR` to `SessionProperties`) is recursion over programs and object
graphs, written with RECURSIVE operators, for which the prover has neither an induction
principle nor an SMT backend. Every other property of a passing run is a theorem.

## 5. Not modelled

- `fclose` without a check and without `fsync` on POSIX: a write that reports success is taken to be stored.
- FFI: validation of entries, argument checks, dispatch. The rollback of a
  half-bound table is there for an error that only the test hook at
  `frothy_ffi.c:681` produces: writing a slot that was found cannot fail.
- Characters: escapes in texts, long numbers and their 30-bit wrap-around, comments.
- Bytes: the layout of a snapshot and its size limit, COBS and the encoding of
  requests. `SnapshotStore` takes the CRC to tell images apart.
- Rendering of values, programs and inspection reports; console output.
- Moving the console to another UART (`platforms/esp-idf/platform.c:339`), terminal setup.
- Handle tables of the boards, the TM1629's rows and transfers: driver calls around small tables.
- Include resolution and the split of a source into forms, in Go and in TypeScript.
- Drivers of boards, flashing, packaging, the command line, discovery of ports, the local
  runtime as a child process, the smoke runner: I/O and formatting without
  state of their own that a model could check.
- The editor's panels, last and pinned runs, the end of the extension host.

## 6. Plan

Done: arena, snapshot store with its abstract specification, base image,
evaluator, connection manager, control link, the language with its snapshot codec and
shell, the editor's controller; proofs of arena, store, base image, evaluator, manager,
link and controller.

To model, if more is wanted: `ConsoleRoute` (binding another UART with
fallbacks), the handle tables of the boards, the display's row buffer, and COBS and include resolution
against reference definitions.
