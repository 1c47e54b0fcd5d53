------------------------------ MODULE ControlLink ------------------------------
(***************************************************************************)
(* The control protocol over a serial line: the shell and the framed       *)
(* control loop of the device (frothy_shell.c, frothy_control.c, the ESP32 *)
(* console), and the host's session (session.go, serial/port.go).          *)
(*                                                                         *)
(* A frame travels as a delimiter, a body and a delimiter.  A body stands  *)
(* for the encoded bytes between them: it decodes to itself, and to an     *)
(* error once anything was added to it.  An encoded body may contain the   *)
(* bytes of CTRL-C and of a newline, a delimiter never occurs in it.  "run"*)
(* stands for every request that the device answers with events and IDLE;  *)
(* a program it runs need not end.  Session ids are random on the host:    *)
(* here, an id that nobody remembers.                                      *)
(*                                                                         *)
(* The shell takes the same bytes for lines.  Those of a request may be the*)
(* lines of a program text, and the shell runs them one after the other.   *)
(***************************************************************************)
EXTENDS Naturals, Sequences, FiniteSets, SequencesExt

CONSTANTS
  SeqMax,      \* the last sequence number before they start again at 1
  Disturbances,\* how often the user disconnects or interrupts, or a
               \* timeout fires although an answer is still to come
  Losses,      \* how many tokens the line loses
  MaxQueue,    \* the host does not open a line with more unread tokens
  FrameLines   \* how many lines that can run the text of a request has

ASSUME ControlLinkAssumption ==
  /\ SeqMax \in Nat \ {0}
  /\ Disturbances \in Nat
  /\ Losses \in Nat
  /\ MaxQueue \in Nat
  /\ FrameLines \in Nat

VARIABLES
  toDev, toHost,    \* tokens under way
  mode,             \* "shell" or "control"
  line,             \* the shell's line with its input so far: "empty",
                    \* "program" (it may run when it ends) or other "bytes"
  inFrame, rx,      \* in_frame, and what rx_frame holds
  bound, devSid, nextSeq,   \* frothy_control_session_t
  busy,             \* the request whose program is running, or a
                    \* program the shell runs
  phase,            \* what the host's session is doing
  tries,            \* writes AcquirePrompt has made
  sid, seq, ref,    \* session id, sequence number and identity of the request
  hostIn, hostRx,   \* ReadFrameTransport: inFrame, frame
  heard,            \* the events taken as answers to the request
  disturb, lose     \* disturbances and losses left

device == <<mode, line, inFrame, rx, bound, devSid, nextSeq, busy>>
host == <<phase, tries, sid, seq, ref, hostIn, hostRx, heard>>
vars == <<toDev, toHost, device, host, disturb, lose>>

Zero == [t |-> "zero"]
CtrlC == [t |-> "ctrlc"]
Newline == [t |-> "newline"]
Enter == [t |-> "enter"]       \* ".control" and a newline
Prompt == [t |-> "prompt"]
Ready == [t |-> "ready"]       \* "control: ready"
Empty == [t |-> "empty"]       \* an empty frame buffer
Garbage == [t |-> "garbage"]   \* bytes that do not decode

IsBody(x) == x.t = "body"

(* The unread rest of a frame: its lines that can run.                     *)
Rest(n) == [t |-> "rest", lines |-> n]

IsRest(x) == x.t = "rest"

Body(s, kind, q, r) == [t |-> "body", sid |-> s, kind |-> kind, seq |-> q, ref |-> r]

Frame(b) == <<Zero, b, Zero>>

Event(b, kind) == Frame(Body(b.sid, kind, b.seq, b.ref))

(* A frame buffer after x was added to it.                                 *)
Push(buf, x) == IF buf = Empty /\ IsBody(x) THEN x ELSE Garbage

NotBusy == Empty
Program == [t |-> "program"]

Phases == {"closed", "prompt", "enter", "hello", "ready", "wait", "detach"}

(* The line, the device and the host keep their types; a sequence number   *)
(* is never past the last one.                                             *)
TypeOK ==
  /\ \A x \in Range(toDev) :
       x \in {Zero, CtrlC, Newline, Enter} \/ IsBody(x) \/ IsRest(x)
  /\ \A x \in Range(toHost) : x \in {Zero, Prompt, Ready, Garbage} \/ IsBody(x)
  /\ mode \in {"shell", "control"}
  /\ line \in {"empty", "bytes", "program"}
  /\ inFrame \in BOOLEAN /\ bound \in BOOLEAN
  /\ rx \in {Empty, Garbage} \/ IsBody(rx)
  /\ devSid \in Nat
  /\ nextSeq \in 0 .. SeqMax
  /\ busy \in {NotBusy, Program} \/ IsBody(busy)
  /\ busy = Program => mode = "shell"
  /\ phase \in Phases
  /\ tries \in 0 .. 3
  /\ sid \in Nat /\ ref \in Nat
  /\ seq \in 0 .. SeqMax
  /\ hostIn \in BOOLEAN
  /\ hostRx \in {Empty, Garbage} \/ IsBody(hostRx)
  /\ \A b \in heard : IsBody(b)
  /\ disturb \in 0 .. Disturbances
  /\ lose \in 0 .. Losses

Init ==
  /\ toDev = <<>> /\ toHost = <<Prompt>>
  /\ mode = "shell" /\ line = "empty"
  /\ inFrame = FALSE /\ rx = Empty
  /\ bound = FALSE /\ devSid = 0 /\ nextSeq = 0
  /\ busy = NotBusy
  /\ phase = "closed" /\ tries = 0
  /\ sid = 0 /\ seq = 0 /\ ref = 0
  /\ hostIn = FALSE /\ hostRx = Empty
  /\ heard = {}
  /\ disturb = Disturbances
  /\ lose = Losses

AfterSeq(q) == IF q = SeqMax THEN 1 ELSE q + 1

----------------------------------------------------------------------------
(* The device's shell, reading one token of its line.                      *)

Shell(x) ==
  /\ mode = "shell" /\ busy = NotBusy
  /\ toDev # <<>> /\ Head(toDev) = x

Prints(text) == toHost' = toHost \o text

ShellInterrupt ==
  /\ Shell(CtrlC) /\ toDev' = Tail(toDev)
  /\ Prints(<<Prompt>>)
  /\ line' = "empty"
  /\ UNCHANGED <<mode, inFrame, rx, bound, devSid, nextSeq, busy, host, disturb,
                 lose>>

(* The end of a line: an empty one, one that ends at once (also with an    *)
(* error), or the input goes on.                                           *)
ShellLine ==
  /\ Shell(Newline) \/ (Shell(Enter) /\ line # "empty")
  /\ toDev' = Tail(toDev)
  /\ \/ Prints(<<Prompt>>) /\ line' = "empty"
     \/ line # "empty" /\ UNCHANGED <<toHost, line>>
  /\ UNCHANGED <<mode, inFrame, rx, bound, devSid, nextSeq, busy, host, disturb,
                 lose>>

(* The line that ended, with the input before it, is a program.            *)
ShellRuns ==
  /\ line' = "empty"
  /\ busy' = Program
  /\ UNCHANGED <<mode, inFrame, rx, bound, devSid, nextSeq, host, disturb, lose>>

(* A text that a frame left in the line is run when the line ends.         *)
ShellLineRuns ==
  /\ line = "program"
  /\ Shell(Newline) \/ Shell(Enter)
  /\ toDev' = Tail(toDev)
  /\ ShellRuns
  /\ UNCHANGED toHost

(* frothy_control_run, with a session that is not bound.                   *)
EnterControl ==
  /\ Shell(Enter) /\ toDev' = Tail(toDev)
  /\ line = "empty"
  /\ Prints(<<Ready>>)
  /\ mode' = "control"
  /\ inFrame' = FALSE /\ rx' = Empty
  /\ bound' = FALSE /\ devSid' = 0 /\ nextSeq' = 0
  /\ UNCHANGED <<line, busy, host, disturb, lose>>

IsFrameByte(x) == x = Zero \/ IsBody(x) \/ IsRest(x)

(* The lines of a frame, or of its rest, that can run: the others hold the *)
(* header, which the parser refuses.                                       *)
Lines(x) ==
  CASE IsRest(x) -> x.lines
    [] IsBody(x) /\ x.kind = "run" -> FrameLines
    [] OTHER -> 0

(* Frame bytes are echoed.  They may contain CTRL-C or ends of lines, and  *)
(* the last line may hold a program.  A line is a C string: a delimiter at *)
(* its start makes it an empty command, what follows one does not count.   *)
ShellBytes ==
  /\ \E x \in Range(toDev) :
       /\ IsFrameByte(x)
       /\ Shell(x) /\ toDev' = Tail(toDev)
       /\ \/ /\ Prints(<<IF IsRest(x) THEN Garbage ELSE x>>)
             /\ \/ line = "program" /\ line' = line
                \/ (line = "program" => x # Zero) /\ line' = "bytes"
          \/ /\ x # Zero
             /\ Prints(<<Garbage, Prompt>>)
             /\ line' \in {"empty", "bytes"}
          \/ /\ Lines(x) > 0
             /\ Prints(<<Garbage>>) \/ Prints(<<Garbage, Prompt>>)
             /\ line' = "program"
  /\ UNCHANGED <<mode, inFrame, rx, bound, devSid, nextSeq, busy, host, disturb,
                 lose>>

(* The end of a line among the bytes starts a program: one that was in the *)
(* line before them, or one of their own.  The bytes after it stay unread. *)
ShellBytesRun ==
  /\ \E x \in Range(toDev) :
       /\ IsBody(x) \/ IsRest(x)
       /\ Shell(x)
       /\ \E n \in 0 .. Lines(x) :
            /\ line = "program" \/ n < Lines(x)
            /\ toDev' = <<Rest(n)>> \o Tail(toDev)
  /\ Prints(<<Garbage>>)
  /\ ShellRuns

(* The program ends with a value or an error: what it printed, a prompt.   *)
ProgramEnds ==
  /\ Prints(<<Garbage, Prompt>>)
  /\ busy' = NotBusy
  /\ UNCHANGED <<mode, line, inFrame, rx, bound, devSid, nextSeq, host, disturb,
                 lose>>

FinishProgram == busy = Program /\ ProgramEnds /\ UNCHANGED toDev

InterruptProgram ==
  /\ busy = Program
  /\ toDev # <<>> /\ Head(toDev) = CtrlC /\ toDev' = Tail(toDev)
  /\ ProgramEnds

----------------------------------------------------------------------------
(* The control loop between requests: frothy_control_read_frame.           *)

Reads(x) ==
  /\ mode = "control" /\ busy = NotBusy
  /\ toDev # <<>> /\ Head(toDev) = x /\ toDev' = Tail(toDev)

LeaveControl(text) ==
  /\ mode' = "shell" /\ line' = "empty"
  /\ inFrame' = FALSE /\ rx' = Empty
  /\ bound' = FALSE /\ devSid' = 0 /\ nextSeq' = 0
  /\ Prints(text \o <<Prompt>>)

(* CTRL-C between frames, also as a byte of a body that is not in a frame. *)
ControlInterrupt ==
  /\ ~inFrame
  /\ \/ Reads(CtrlC)
     \/ \E x \in Range(toDev) : IsBody(x) /\ Reads(x)
  /\ LeaveControl(<<>>)
  /\ UNCHANGED <<busy, host, disturb, lose>>

SkipByte ==
  /\ ~inFrame
  /\ \E x \in Range(toDev) : x \notin {Zero, CtrlC} /\ Reads(x)
  /\ UNCHANGED <<toHost, device, host, disturb, lose>>

StartFrame ==
  /\ ~inFrame
  /\ Reads(Zero)
  /\ inFrame' = TRUE /\ rx' = Empty
  /\ UNCHANGED <<toHost, mode, line, bound, devSid, nextSeq, busy, host, disturb,
                 lose>>

PushByte ==
  /\ inFrame
  /\ \E x \in Range(toDev) : x # Zero /\ Reads(x) /\ rx' = Push(rx, x)
  /\ UNCHANGED <<toHost, mode, line, inFrame, bound, devSid, nextSeq, busy, host,
                 disturb, lose>>

EndFrame == inFrame /\ Reads(Zero) /\ inFrame' = FALSE /\ rx' = Empty

(* An empty frame, or one that does not decode.                            *)
BadFrame ==
  /\ ~IsBody(rx)
  /\ EndFrame
  /\ UNCHANGED <<toHost, mode, line, bound, devSid, nextSeq, busy, host, disturb,
                 lose>>

----------------------------------------------------------------------------
(* frothy_control_dispatch.                                                *)

(* Before HELLO everything else is ignored, afterwards every other session.*)
Ignore ==
  /\ IsBody(rx)
  /\ IF bound THEN rx.sid # devSid
     ELSE rx.kind # "hello" \/ rx.sid = 0 \/ rx.seq # 0
  /\ EndFrame
  /\ UNCHANGED <<toHost, mode, line, bound, devSid, nextSeq, busy, host, disturb,
                 lose>>

Hello ==
  /\ IsBody(rx) /\ ~bound
  /\ rx.kind = "hello" /\ rx.sid # 0 /\ rx.seq = 0
  /\ EndFrame
  /\ bound' = TRUE /\ devSid' = rx.sid /\ nextSeq' = 1
  /\ Prints(Event(rx, "hello") \o Event(rx, "idle"))
  /\ UNCHANGED <<mode, line, busy, host, disturb, lose>>

(* A request with any other number is answered with "unexpected sequence"; *)
(* InStep says that this host never sends one.                             *)
Accepted == IsBody(rx) /\ bound /\ rx.sid = devSid /\ rx.seq = nextSeq

RunRequest ==
  /\ Accepted /\ rx.kind = "run"
  /\ EndFrame
  /\ busy' = rx
  /\ UNCHANGED <<toHost, mode, line, bound, devSid, nextSeq, host, disturb, lose>>

(* The program ends with a value or an error.                              *)
FinishRequest ==
  /\ IsBody(busy)
  /\ \E kind \in {"value", "error"} :
       Prints(Event(busy, kind) \o Event(busy, "idle"))
  /\ busy' = NotBusy
  /\ nextSeq' = AfterSeq(nextSeq)
  /\ UNCHANGED <<toDev, mode, line, inFrame, rx, bound, devSid, host, disturb,
                 lose>>

(* Faulty variant: an interrupted request does not count.                  *)
InterruptRequestUncounted ==
  /\ IsBody(busy)
  /\ toDev # <<>> /\ Head(toDev) = CtrlC /\ toDev' = Tail(toDev)
  /\ Prints(Event(busy, "interrupted") \o Event(busy, "idle"))
  /\ busy' = NotBusy
  /\ UNCHANGED <<mode, line, inFrame, rx, bound, devSid, nextSeq, host, disturb,
                 lose>>

(* frothy_poll_interrupt: only the next unread byte is looked at.          *)
InterruptRequest ==
  /\ IsBody(busy)
  /\ toDev # <<>> /\ Head(toDev) = CtrlC /\ toDev' = Tail(toDev)
  /\ Prints(Event(busy, "interrupted") \o Event(busy, "idle"))
  /\ busy' = NotBusy
  /\ nextSeq' = AfterSeq(nextSeq)
  /\ UNCHANGED <<mode, line, inFrame, rx, bound, devSid, host, disturb, lose>>

DetachRequest ==
  /\ Accepted /\ rx.kind = "detach"
  /\ inFrame /\ Reads(Zero)
  /\ LeaveControl(Event(rx, "idle"))
  /\ UNCHANGED <<busy, host, disturb, lose>>

DeviceReads ==
  \/ ShellInterrupt \/ ShellLine \/ ShellLineRuns \/ EnterControl
  \/ ShellBytes \/ ShellBytesRun \/ InterruptProgram
  \/ ControlInterrupt \/ SkipByte \/ StartFrame \/ PushByte \/ BadFrame
  \/ Ignore \/ Hello \/ RunRequest \/ DetachRequest
  \/ InterruptRequest

----------------------------------------------------------------------------
(* The host.                                                               *)

Write(x) == toDev' = toDev \o x

(* Every body that is still somewhere.                                     *)
Bodies == {x \in Range(toDev) \cup Range(toHost) \cup {rx, busy, hostRx} : IsBody(x)}

Fresh(used) == CHOOSE n \in 1 .. Cardinality(used) + 1 : n \notin used

FreshSid == Fresh({x.sid : x \in Bodies} \cup {devSid})
FreshRef == Fresh({x.ref : x \in Bodies})

(* The line is opened; what the device printed before is there or is not.  *)
OpenSerial ==
  /\ phase = "closed"
  /\ Len(toDev) <= MaxQueue
  /\ phase' = "prompt" /\ tries' = 0
  /\ toHost' \in {toHost, <<>>}
  /\ UNCHANGED <<toDev, device, sid, seq, ref, hostIn, hostRx, heard, disturb, lose>>

(* waitForRaw reads in pieces until the text has been seen.                *)
Sees(x) ==
  \E n \in DOMAIN toHost :
    /\ x \in {toHost[i] : i \in 1 .. n}
    /\ toHost' = SubSeq(toHost, n + 1, Len(toHost))

GetPrompt ==
  /\ phase = "prompt"
  /\ Sees(Prompt)
  /\ Write(<<Enter>>)
  /\ phase' = "enter"
  /\ UNCHANGED <<device, tries, sid, seq, ref, hostIn, hostRx, heard, disturb, lose>>

(* Faulty variant: the recovery never interrupts.                          *)
RecoveryNewlines == <<<<Newline>>, <<Newline>>, <<Newline, Newline>>>>

Recovery == <<<<CtrlC>>, <<Newline>>, <<CtrlC, Newline>>>>

(* The next of AcquirePrompt's recovery steps, after a timeout.            *)
Recover ==
  /\ phase = "prompt" /\ tries < 3
  /\ Write(Recovery[tries + 1])
  /\ tries' = tries + 1
  /\ UNCHANGED <<toHost, device, phase, sid, seq, ref, hostIn, hostRx, heard>>

Send(kind, s, q, next) ==
  /\ sid' = s /\ seq' = q /\ ref' = FreshRef
  /\ Write(Frame(Body(s, kind, q, FreshRef)))
  /\ phase' = next
  /\ hostIn' = FALSE /\ hostRx' = Empty /\ heard' = {}

SendHello ==
  /\ phase = "enter"
  /\ Sees(Ready)
  /\ Send("hello", FreshSid, 0, "hello")
  /\ UNCHANGED <<device, tries, disturb, lose>>

SendRequest ==
  /\ phase = "ready"
  /\ Send("run", sid, seq, "wait")
  /\ UNCHANGED <<toHost, device, tries, disturb, lose>>

SendDetach ==
  /\ phase = "ready"
  /\ disturb > 0 /\ disturb' = disturb - 1
  /\ Send("detach", sid, seq, "detach")
  /\ UNCHANGED <<toHost, device, tries, lose>>

(* transport.Close.                                                        *)
Closed ==
  /\ phase' = "closed" /\ tries' = 0
  /\ sid' = 0 /\ seq' = 0 /\ ref' = 0
  /\ hostIn' = FALSE /\ hostRx' = Empty /\ heard' = {}

Waiting == phase \in {"hello", "wait", "detach"}

HostReads(x) ==
  /\ Waiting
  /\ toHost # <<>> /\ Head(toHost) = x /\ toHost' = Tail(toHost)
  /\ UNCHANGED <<toDev, device, disturb, lose>>

(* ReadFrameTransport: a delimiter starts a frame, and starts it again.    *)
HostStart ==
  /\ hostRx = Empty
  /\ HostReads(Zero)
  /\ hostIn' = TRUE
  /\ UNCHANGED <<phase, tries, sid, seq, ref, hostRx, heard>>

HostByte ==
  /\ \E x \in Range(toHost) :
       /\ x # Zero
       /\ HostReads(x)
       /\ hostRx' = IF hostIn THEN Push(hostRx, x) ELSE hostRx
  /\ UNCHANGED <<phase, tries, sid, seq, ref, hostIn, heard>>

(* Faulty variant: the session of an event is not looked at.               *)
ForUsAnySession(b) == b.seq = seq

ForUs(b) == b.sid = sid /\ b.seq = seq

(* IDLE ends the request; whether what came before it is an answer.        *)
Ends(b) == ForUs(b) /\ b.kind = "idle"

Heard == {b.kind : b \in heard}

Answered ==
  \/ phase = "hello" /\ "hello" \in Heard /\ "error" \notin Heard
  \/ phase = "wait" /\ Heard \cap {"value", "error", "interrupted"} # {}

(* A delimiter after the encoded bytes.                                    *)
HostFrame == hostRx # Empty /\ HostReads(Zero)

(* runRequest takes an event that is for it, and skips every other.        *)
HostEvent ==
  /\ HostFrame
  /\ IsBody(hostRx) /\ ~Ends(hostRx)
  /\ heard' = heard \cup {b \in {hostRx} : ForUs(b)}
  /\ hostIn' = FALSE /\ hostRx' = Empty
  /\ UNCHANGED <<phase, tries, sid, seq, ref>>

HostDone ==
  /\ HostFrame
  /\ IsBody(hostRx) /\ Ends(hostRx) /\ Answered
  /\ heard' = heard \cup {hostRx}
  /\ phase' = "ready" /\ seq' = AfterSeq(seq)
  /\ hostIn' = FALSE /\ hostRx' = Empty
  /\ UNCHANGED <<tries, sid, ref>>

(* A detach was answered, the answer was incomplete or a frame did not     *)
(* decode: the line is closed.                                             *)
HostLast ==
  /\ HostFrame
  /\ IsBody(hostRx) => Ends(hostRx) /\ ~Answered
  /\ Closed

(* What the host waits for is not there, and nothing more will come unless *)
(* it writes or the program ends.                                          *)
Quiet ==
  /\ phase = "prompt" => Prompt \notin Range(toHost)
  /\ phase = "enter" => Ready \notin Range(toHost)
  /\ Waiting => toHost = <<>>
  /\ toDev # <<>> => busy # NotBusy /\ Head(toDev) # CtrlC

Timeout ==
  /\ phase # "closed" /\ phase # "ready"
  /\ \/ Quiet /\ UNCHANGED disturb
     \/ ~Quiet /\ disturb > 0 /\ disturb' = disturb - 1
  /\ \/ Recover
     \/ /\ phase = "prompt" => tries = 3
        /\ Closed
        /\ UNCHANGED <<toDev, toHost, device>>
  /\ UNCHANGED lose

(* Manager.Disconnect during a request, or the helper ends.                *)
Disconnect ==
  /\ phase # "closed"
  /\ disturb > 0 /\ disturb' = disturb - 1
  /\ Closed
  /\ UNCHANGED <<toDev, toHost, device, lose>>

(* Session.Interrupt, at any time.                                         *)
Interrupt ==
  /\ phase \in {"ready", "wait"}
  /\ disturb > 0 /\ disturb' = disturb - 1
  /\ Write(<<CtrlC>>)
  /\ UNCHANGED <<toHost, device, host, lose>>

(* The line loses a token.                                                 *)
Lose ==
  /\ lose > 0 /\ lose' = lose - 1
  /\ \/ /\ \E i \in DOMAIN toDev : toDev' = RemoveAt(toDev, i)
        /\ UNCHANGED toHost
     \/ /\ \E i \in DOMAIN toHost : toHost' = RemoveAt(toHost, i)
        /\ UNCHANGED toDev
  /\ UNCHANGED <<device, host, disturb>>

HostTakes == HostStart \/ HostByte \/ HostEvent \/ HostDone \/ HostLast

Next ==
  \/ DeviceReads \/ FinishRequest \/ FinishProgram
  \/ OpenSerial \/ GetPrompt \/ SendHello \/ SendRequest \/ SendDetach
  \/ HostTakes \/ Timeout \/ Disconnect \/ Interrupt \/ Lose

Spec == Init /\ [][Next]_vars

(* The device keeps reading, the host keeps reading, gives up after a      *)
(* timeout and is opened again.  A program need not end, and an eval has no*)
(* timeout.                                                                *)
FairSpec ==
  /\ Spec
  /\ WF_vars(DeviceReads)
  /\ WF_vars(OpenSerial)
  /\ WF_vars(GetPrompt) /\ WF_vars(SendHello)
  /\ WF_vars(HostTakes)
  /\ WF_vars(Quiet /\ phase # "wait" /\ Timeout)

----------------------------------------------------------------------------
(* Every event the host takes for its request was sent for that request:   *)
(* not for one of an earlier session, and not for one with the same        *)
(* sequence number before the numbers wrapped.                             *)
AnswersMatch == \A b \in heard : b.ref = ref

(* The device never meets a request of its session with an unexpected      *)
(* sequence number, and between requests the host and a device bound to    *)
(* its session expect the same one, whatever was lost, interrupted or      *)
(* given up.                                                               *)
InStep ==
  /\ TypeOK
  /\ IsBody(rx) /\ bound /\ rx.sid = devSid => rx.seq = nextSeq
  /\ phase = "ready" /\ bound /\ devSid = sid => nextSeq = seq

(* The device is inside a frame, where CTRL-C is data, or runs a program   *)
(* and has an unread byte before the CTRL-C.                               *)
Deaf ==
  \/ mode = "control" /\ inFrame
  \/ busy # NotBusy /\ toDev # <<>> /\ Head(toDev) # CtrlC

(* Closing and opening the line again leads to a bound session, whatever  *)
(* the device was doing when the host left, unless the device stays deaf to*)
(* CTRL-C for good.  Only two things leave it so: the line has lost        *)
(* something, or a frame reached the shell, which runs one of its lines: a *)
(* program that does not end and has a byte unread before every CTRL-C.    *)
Reattaches ==
  phase = "closed" ~>
    phase = "ready" \/ [](Deaf /\ (lose < Losses \/ busy = Program))
=============================================================================
