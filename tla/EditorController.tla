-------------------------- MODULE EditorController --------------------------
(***************************************************************************)
(* The editor's controller (tools/vscode/src/controller.ts) over its       *)
(* helper client (control-session-client.ts): one object on one JavaScript *)
(* thread, many commands of the user in flight at once.  A command runs    *)
(* until it awaits something; what it read before the await may be stale   *)
(* after it, and clientGeneration and connectAttempt are there to tell.    *)
(*                                                                         *)
(* A label in Sync is code that runs without giving up the thread; every   *)
(* other label is an await.  A promise that has settled is continued       *)
(* before any new event is taken from the outside (Quiet), because         *)
(* microtasks run first; an await of a promise that is already settled is  *)
(* not a step.  The helper process is external: what it may answer, and    *)
(* which events come before or after, is read off control_session.go.      *)
(* Left out: the text that is shown, the last and the pinned run, the      *)
(* flag that marks a file sent without a reset.                            *)
(***************************************************************************)
EXTENDS Naturals, FiniteSets

CONSTANTS
    FreshPlans,     \* the commands a user gives, in order: sequences of kinds
    ConnectedPlans, \* the same, for a user who is connected already
    Commands,       \* 1..n: places for commands in flight
    Clients,        \* 1..m: helper clients the controller may create
    Forms           \* top-level forms in the file that is sent

Kinds == {"connect", "disconnect", "force", "interrupt", "eval", "words", "file"}

ASSUME EditorAssumption ==
    /\ IsFiniteSet(Commands) /\ Commands = 1..Cardinality(Commands)
    /\ IsFiniteSet(Clients) /\ Clients = 1..Cardinality(Clients)
    /\ Forms \in Nat \ {0}
    /\ \A plan \in FreshPlans \cup ConnectedPlans :
          DOMAIN plan \subseteq Commands /\ \A p \in DOMAIN plan : plan[p] \in Kinds
    /\ ConnectedPlans # {} => Clients # {}

VARIABLES
    ed,             \* the fields of FrothController
    helper,         \* the clients: process, disposed, link to a device
    cmd             \* the commands in flight

vars == <<ed, helper, cmd>>

None == 0

ConnectionState == {"idle", "connecting", "connected", "running", "disconnected"}

Sync == {"connect", "check", "ensure", "request", "ready", "disconnect",
         "force", "interrupt", "interrupt_running", "reset", "forms"}
HelperRequests == {"connecting", "detaching", "interrupting", "evaluating",
                   "listing", "file_interrupting", "resetting", "sending"}
ValueRequests == {"evaluating", "listing", "resetting", "sending"}
ExitWaits == {"closed", "stopped", "stale", "parted", "forced", "detached"}
HostWaits == {"preparing", "storing", "picking", "warned", "unsettled", "additive"}
Labels == Sync \cup HelperRequests \cup ExitWaits \cup HostWaits
              \cup {"unborn", "starting", "settling", "done"}

NewCommand ==
    [kind |-> "none", at |-> "unborn", held |-> None, gen |-> 0, attempt |-> 0,
     port |-> "none", ans |-> "wait", note |-> "none", left |-> 0,
     wait |-> {}, cleared |-> None]

NewHelper ==
    [proc |-> "none", disposed |-> FALSE, gen |-> 0, linked |-> FALSE,
     owes |-> FALSE, retired |-> FALSE]

Gone == [NewHelper EXCEPT !.proc = "gone", !.disposed = TRUE]

(***************************************************************************)
(* The controller's private methods, on its fields.                        *)
(***************************************************************************)
ClearRunningState(e) == [e EXCEPT !.running = 0, !.waiters = {}]

ClearSessionState(e) == [e EXCEPT !.device = None]

\* The counters clientGeneration and connectAttempt are only ever advanced and
\* compared for equality, so a stamp stands for a value: the new one is one
\* that nobody holds.
Fresh(held) == CHOOSE n \in 1..Cardinality(held) + 1 : n \notin held

NextGeneration == Fresh({ed.gen} \cup {cmd[p].gen : p \in Commands}
                                        \cup {helper[c].gen : c \in Clients})

NextAttempt == Fresh({ed.attempt} \cup {cmd[p].attempt : p \in Commands})

\* A new generation and a new attempt: whoever holds an older one is stale.
Supersede(e) == [e EXCEPT !.gen = NextGeneration, !.attempt = NextAttempt]

IsCurrentClient(c, g) == ed.client = c /\ ed.gen = g

IsDisposedGenerationCurrent(g) == ed.client = None /\ ed.gen = g

DisposeClient(e) ==
    ClearSessionState(ClearRunningState(
        [Supersede(e) EXCEPT !.client = None, !.closing = None]))

\* Mutant: the operations of the retired client stay counted.
RetireKeepsRunning(e) ==
    IF e.client = None
    THEN e
    ELSE [Supersede(e) EXCEPT !.client = None, !.closing = e.client]

RetireCurrentClient(e) ==
    IF e.client = None
    THEN e
    ELSE ClearRunningState([Supersede(e) EXCEPT !.client = None, !.closing = e.client])

HandleClientError(e, err) ==
    IF err = "not_connected"
    THEN [ClearSessionState(RetireCurrentClient(e)) EXCEPT !.state = "disconnected"]
    ELSE e

BeginRunning(e) == [e EXCEPT !.running = @ + 1, !.state = "running"]

\* Where the state goes when nothing runs any more.
AtRest(e) == IF e.device # None THEN "connected" ELSE "disconnected"

EndRunning(e) ==
    LET n == IF e.running > 0 THEN e.running - 1 ELSE 0
    IN  IF n > 0
        THEN [e EXCEPT !.running = n]
        ELSE [e EXCEPT !.running = 0, !.waiters = {},
                       !.state = IF @ = "running" THEN AtRest(e) ELSE @]

ApplyConnectedDevice(e, c) ==
    [ClearRunningState(e) EXCEPT !.device = c, !.state = "connected"]

\* The "disconnected" event, and the exit of the helper in use.
LoseDevice(e) ==
    [ClearSessionState(ClearRunningState(e)) EXCEPT !.state = "disconnected"]

(***************************************************************************)
(* The clients.  dispose() kills the process, rejects what is pending and  *)
(* drops the listeners.                                                    *)
(***************************************************************************)
Disposed(h, S) ==
    [c \in Clients |-> IF c \in S
                       THEN [h[c] EXCEPT !.disposed = TRUE, !.linked = FALSE, !.owes = FALSE]
                       ELSE h[c]]

\* retireCurrentClient's part in the client it retires.
Retired(h, err) ==
    IF err = "not_connected" /\ ed.client # None
    THEN [Disposed(h, {ed.client}) EXCEPT ![ed.client].retired = TRUE]
    ELSE h

IsRunning(c) == helper[c].proc = "up" /\ ~helper[c].disposed

\* What a request comes back with; "dead" is the error of a client that was
\* disposed, or whose process has gone.
Answer(p) == IF cmd[p].ans # "wait" THEN cmd[p].ans ELSE "dead"

Settled(p) ==
    LET k == cmd[p]
    IN  \/ k.at \in HelperRequests /\ (k.ans # "wait" \/ ~IsRunning(k.held))
        \/ k.at \in ExitWaits /\ \A c \in k.wait : helper[c].proc = "gone"
        \/ k.at \in HostWaits \cup {"starting"} /\ k.ans # "wait"
        \/ k.at = "settling" /\ (p \notin ed.waiters \/ k.ans # "wait")

ThreadFree == \A p \in Commands : cmd[p].at \notin Sync

Quiet == ThreadFree /\ \A p \in Commands : ~Settled(p)

Resumes(p, label) == ThreadFree /\ cmd[p].at = label /\ Settled(p)

(***************************************************************************)
(* The rest of a command after a step.                                     *)
(***************************************************************************)
\* The command goes on at label; what earlier awaits captured is forgotten.
At(p, label) ==
    [NewCommand EXCEPT !.kind = cmd[p].kind, !.at = label, !.port = cmd[p].port]

Jump(p, label) == cmd' = [cmd EXCEPT ![p] = At(p, label)]

Await(p, label, c) ==
    cmd' = [cmd EXCEPT ![p] = [At(p, label) EXCEPT !.held = c, !.gen = ed.gen]]

AwaitHost(p, label) ==
    cmd' = [cmd EXCEPT ![p].at = label, ![p].ans = "wait"]

Finish(p) ==
    cmd' = [cmd EXCEPT ![p] = [NewCommand EXCEPT !.kind = cmd[p].kind, !.at = "done"]]

\* connectToDevice returns ok to the command that called it.
Return(p, ok) ==
    IF ok /\ cmd[p].kind \in {"eval", "words", "file"}
    THEN cmd' = [cmd EXCEPT ![p] = [At(p, "ready") EXCEPT !.port = "none"]]
    ELSE Finish(p)

\* Mutant: the client that is being closed is awaited but not disposed of.
DisposeCurrentOnly(p, label) ==
    /\ ed' = DisposeClient(ed)
    /\ helper' = Disposed(helper, {ed.client})
    /\ cmd' = [cmd EXCEPT ![p] = [At(p, label) EXCEPT
                                      !.gen = NextGeneration,
                                      !.wait = {ed.client, ed.closing} \ {None}]]

DisposeClientAndWait(p, label) ==
    /\ ed' = DisposeClient(ed)
    /\ helper' = Disposed(helper, {ed.client, ed.closing})
    /\ cmd' = [cmd EXCEPT ![p] = [At(p, label) EXCEPT
                                      !.gen = NextGeneration,
                                      !.wait = {ed.client, ed.closing} \ {None}]]

(***************************************************************************)
(* The user gives a command.                                               *)
(***************************************************************************)
EnsureConnected ==
    IF ed.state \in {"connected", "running"} THEN "ready" ELSE "connect"

Begin(p) ==
    /\ Quiet
    /\ cmd[p].at = "unborn"
    /\ \A q \in Commands : q < p => cmd[q].at # "unborn"
    /\ cmd' = [cmd EXCEPT ![p].at = IF cmd[p].kind \in {"eval", "words", "file"}
                                    THEN EnsureConnected ELSE cmd[p].kind]
    /\ UNCHANGED <<ed, helper>>

(***************************************************************************)
(* connectToDevice, ensureClient, handleConnectError and                   *)
(* retryConnectWithoutStoredPort.                                          *)
(***************************************************************************)
WaitForClosing(p) ==
    /\ cmd[p].at = "connect"
    /\ IF ed.closing # None
       THEN DisposeClientAndWait(p, "closed")
       ELSE Jump(p, "check") /\ UNCHANGED <<ed, helper>>

AfterClosing(p) ==
    /\ Resumes(p, "closed")
    /\ IF IsDisposedGenerationCurrent(cmd[p].gen)
       THEN Jump(p, "check")
       ELSE Return(p, ed.state = "connected")
    /\ UNCHANGED <<ed, helper>>

StopRunning(p) ==
    /\ cmd[p].at = "check"
    /\ IF ed.state = "running"
       THEN DisposeClientAndWait(p, "stopped")
       ELSE /\ ed' = [ed EXCEPT !.attempt = NextAttempt]
            /\ cmd' = [cmd EXCEPT ![p] = [At(p, "ensure") EXCEPT !.attempt = NextAttempt]]
            /\ UNCHANGED helper

AfterStop(p) ==
    /\ Resumes(p, "stopped")
    /\ IF IsDisposedGenerationCurrent(cmd[p].gen)
       THEN /\ ed' = [ed EXCEPT !.state = "disconnected", !.attempt = NextAttempt]
            /\ cmd' = [cmd EXCEPT ![p] = [At(p, "ensure") EXCEPT !.attempt = NextAttempt]]
       ELSE Return(p, ed.state = "connected") /\ UNCHANGED ed
    /\ UNCHANGED helper

\* No client: the connect that was asked for fails; one that the picker asked
\* for returns to a caller that looks at the state.
NoClient(p) == Return(p, cmd[p].port = "picked" /\ ed.state = "connected")

\* The names of clients that are not in use, and that nobody refers to.
Unused == {c \in Clients :
    /\ helper[c].proc \in {"none", "gone"}
    /\ c \notin {ed.client, ed.closing, ed.device}
    /\ \A p \in Commands : c # cmd[p].held /\ c \notin cmd[p].wait}

CreateClient(p, c) ==
    /\ c \in Unused
    /\ \A b \in Unused : c <= b
    /\ ed' = [ed EXCEPT !.gen = NextGeneration]
    /\ helper' = [helper EXCEPT ![c] = [NewHelper EXCEPT !.proc = "starting",
                                                         !.gen = NextGeneration]]
    /\ cmd' = [cmd EXCEPT ![p] = [@ EXCEPT !.at = "starting", !.held = c,
                                           !.gen = NextGeneration, !.ans = "wait"]]

RequestOn(p, c) ==
    cmd' = [cmd EXCEPT ![p] = [At(p, "request") EXCEPT !.held = c,
                                               !.attempt = cmd[p].attempt]]

\* The command line tool that is the helper is installed or it is not; it
\* does not go away once it was found.
EnsureClient(p) ==
    /\ cmd[p].at = "ensure"
    /\ IF ed.client # None
       THEN /\ RequestOn(p, ed.client)
            /\ UNCHANGED <<ed, helper>>
       ELSE \/ /\ \A c \in Clients : helper[c].proc = "none"
               /\ NoClient(p)
               /\ UNCHANGED <<ed, helper>>
            \/ \E c \in Clients : CreateClient(p, c)

\* Mutant: the generation is not looked at after the start.
ClientStartedUnchecked(p) ==
    /\ Resumes(p, "starting")
    /\ cmd[p].ans = "up"
    /\ ed' = [ed EXCEPT !.client = cmd[p].held]
    /\ RequestOn(p, cmd[p].held)
    /\ UNCHANGED helper

ClientStarted(p) ==
    LET c == cmd[p].held
    IN  /\ Resumes(p, "starting")
        /\ cmd[p].ans = "up"
        /\ IF ed.gen # cmd[p].gen
           THEN /\ helper' = Disposed(helper, {c})
                /\ cmd' = [cmd EXCEPT ![p] = [At(p, "stale") EXCEPT
                                                  !.attempt = cmd[p].attempt, !.wait = {c}]]
                /\ UNCHANGED ed
           ELSE /\ ed' = [ed EXCEPT !.client = c]
                /\ RequestOn(p, c)
                /\ UNCHANGED helper

ClientNotStarted(p) ==
    /\ Resumes(p, "starting")
    /\ cmd[p].ans = "failed"
    /\ helper' = Disposed(helper, {cmd[p].held})
    /\ ed' = IF ed.gen # cmd[p].gen THEN ed ELSE [ed EXCEPT !.client = None]
    /\ NoClient(p)

StaleClientGone(p) ==
    /\ Resumes(p, "stale")
    /\ IF ed.client = None
       THEN NoClient(p)
       ELSE RequestOn(p, ed.client)
    /\ UNCHANGED <<ed, helper>>

\* Mutant: the attempt is not looked at after the client is there.
RequestConnectUnchecked(p) ==
    /\ cmd[p].at = "request"
    /\ ed' = [ed EXCEPT !.state = "connecting"]
    /\ cmd' = [cmd EXCEPT ![p] = [@ EXCEPT !.at = "connecting"]]
    /\ UNCHANGED helper

RequestConnect(p) ==
    /\ cmd[p].at = "request"
    /\ IF ed.attempt # cmd[p].attempt
       THEN Return(p, ed.state = "connected") /\ UNCHANGED ed
       ELSE /\ ed' = [ed EXCEPT !.state = "connecting"]
            /\ \E port \in IF cmd[p].port = "picked" THEN {"picked"}
                           ELSE {"none", "stored"} :
                  cmd' = [cmd EXCEPT ![p] = [@ EXCEPT !.at = "connecting", !.port = port,
                                                      !.ans = "wait", !.note = "none"]]
    /\ UNCHANGED helper

\* handleConnectError on "not_connected": the client is retired, and because
\* it no longer runs it is disposed of again, which forgets that it is closing.
AbandonClient ==
    LET e == HandleClientError(ed, "not_connected")
    IN  /\ ed' = DisposeClient(e)
        /\ helper' = Disposed(Retired(helper, "not_connected"), {e.closing})

ConnectAnswered(p) ==
    LET a == Answer(p)
        stale == ed.attempt # cmd[p].attempt
    IN  /\ Resumes(p, "connecting")
        /\ \/ /\ stale
              /\ Return(p, ed.state = "connected")
              /\ UNCHANGED <<ed, helper>>
           \/ /\ ~stale /\ a = "ok"
              /\ ed' = ApplyConnectedDevice(ed, cmd[p].held)
              /\ Return(p, TRUE)
              /\ UNCHANGED helper
           \/ /\ ~stale /\ cmd[p].port = "stored"
              /\ a \notin {"ok", "dead", "multiple_devices"}
              /\ AwaitHost(p, "storing")
              /\ UNCHANGED <<ed, helper>>
           \/ /\ ~stale /\ cmd[p].port # "stored" /\ a = "not_connected"
              /\ AbandonClient
              /\ Return(p, FALSE)
           \/ /\ ~stale /\ a = "multiple_devices"
              /\ AwaitHost(p, "picking")
              /\ UNCHANGED <<ed, helper>>
           \/ /\ ~stale /\ cmd[p].port # "stored" /\ a = "no_devices"
              /\ ed' = [ClearSessionState(ed) EXCEPT !.state = "disconnected"]
              /\ AwaitHost(p, "warned")
              /\ UNCHANGED helper
           \/ /\ ~stale
              /\ a = "dead" \/ (a = "other" /\ cmd[p].port # "stored")
              /\ ed' = IF a = "other" /\ ~IsRunning(cmd[p].held)
                       THEN DisposeClient(ed)
                       ELSE [ed EXCEPT !.state = "disconnected"]
              /\ helper' = IF a = "other" /\ ~IsRunning(cmd[p].held)
                           THEN Disposed(helper, {ed.client, ed.closing}) ELSE helper
              /\ Return(p, FALSE)

\* The remembered port is forgotten and the connect is asked for again.
PortForgotten(p) ==
    /\ Resumes(p, "storing")
    /\ cmd' = [cmd EXCEPT ![p] = [@ EXCEPT !.at = "connecting", !.port = "none",
                                           !.ans = "wait", !.note = "none"]]
    /\ UNCHANGED <<ed, helper>>

DevicePicked(p) ==
    /\ Resumes(p, "picking")
    /\ IF cmd[p].ans = "yes"
       THEN /\ cmd' = [cmd EXCEPT ![p] = [At(p, "connect") EXCEPT !.port = "picked"]]
            /\ UNCHANGED ed
       ELSE /\ ed' = [ClearSessionState(ed) EXCEPT !.state = "disconnected"]
            /\ Finish(p)
    /\ UNCHANGED helper

NoDeviceWarned(p) ==
    /\ Resumes(p, "warned")
    /\ Return(p, ed.state = "connected")
    /\ UNCHANGED <<ed, helper>>

(***************************************************************************)
(* disconnect and forceReconnect.                                          *)
(***************************************************************************)
Disconnect(p) ==
    /\ cmd[p].at = "disconnect"
    /\ \/ /\ ed.client = None /\ ed.closing = None
          /\ ed' = [ClearSessionState(ClearRunningState(Supersede(ed)))
                       EXCEPT !.state = "idle"]
          /\ Finish(p)
          /\ UNCHANGED helper
       \/ /\ \/ ed.client = None /\ ed.closing # None
             \/ ed.client # None /\ ed.state = "running"
          /\ DisposeClientAndWait(p, "parted")
       \/ /\ ed.client # None /\ ed.state # "running"
          /\ ed' = [ClearRunningState(Supersede(ed))
                       EXCEPT !.client = None, !.closing = ed.client, !.state = "idle"]
          /\ cmd' = [cmd EXCEPT ![p] = [@ EXCEPT !.at = "detaching", !.held = ed.client,
                                                 !.gen = NextGeneration, !.ans = "wait"]]
          /\ UNCHANGED helper

Parted(p) ==
    /\ Resumes(p, "parted")
    /\ ed' = IF IsDisposedGenerationCurrent(cmd[p].gen)
             THEN [ed EXCEPT !.state = "idle"] ELSE ed
    /\ Finish(p)
    /\ UNCHANGED helper

\* The finally block of disconnect.
FinishDisconnect(p) ==
    LET c == cmd[p].held
    IN  /\ ed' = LET e == [ed EXCEPT !.closing = IF @ = c THEN None ELSE @]
                 IN  IF IsDisposedGenerationCurrent(cmd[p].gen)
                     THEN [ClearSessionState(e) EXCEPT !.state = "idle"] ELSE e
        /\ helper' = Disposed(helper, {c})
        /\ Finish(p)

Detached(p) ==
    \/ /\ Resumes(p, "detaching")
       /\ IF Answer(p) = "timeout"
          THEN /\ helper' = Disposed(helper, {cmd[p].held})
               /\ cmd' = [cmd EXCEPT ![p].at = "detached", ![p].wait = {cmd[p].held}]
               /\ UNCHANGED ed
          ELSE FinishDisconnect(p)
    \/ Resumes(p, "detached") /\ FinishDisconnect(p)

ForceReconnect(p) ==
    cmd[p].at = "force" /\ DisposeClientAndWait(p, "forced")

Forced(p) ==
    /\ Resumes(p, "forced")
    /\ IF IsDisposedGenerationCurrent(cmd[p].gen)
       THEN ed' = [ed EXCEPT !.state = "disconnected"] /\ Jump(p, "connect")
       ELSE UNCHANGED ed /\ Finish(p)
    /\ UNCHANGED helper

(***************************************************************************)
(* runRequest: one request on the client of the moment.  With no client    *)
(* the call throws, and the operation ends in the same step.               *)
(***************************************************************************)
RunRequest(p) ==
    /\ cmd[p].at = "ready"
    /\ cmd[p].kind \in {"eval", "words"}
    /\ \/ /\ ed.state = "running"                         \* requireIdle
          /\ Finish(p)
          /\ UNCHANGED ed
       \/ /\ ed.state # "running" /\ ed.client = None
          /\ ed' = IF cmd[p].kind = "eval" THEN EndRunning(BeginRunning(ed)) ELSE ed
          /\ Finish(p)
       \/ /\ ed.state # "running" /\ ed.client # None
          /\ ed' = IF cmd[p].kind = "eval" THEN BeginRunning(ed) ELSE ed
          /\ Await(p, IF cmd[p].kind = "eval" THEN "evaluating" ELSE "listing", ed.client)
    /\ UNCHANGED helper

\* The end of an operation on the client it was started on: the error is
\* handled and, if the client is still the current one, the operation ends.
EndOperation(p, err) ==
    LET e == HandleClientError(ed, err)
    IN  IF IsCurrentClient(cmd[p].held, cmd[p].gen)
        THEN /\ ed' = IF e.client = None THEN e ELSE EndRunning(e)
             /\ helper' = Retired(helper, err)
        ELSE UNCHANGED <<ed, helper>>

RequestAnswered(p) ==
    \/ /\ Resumes(p, "evaluating")
       /\ EndOperation(p, Answer(p))
       /\ Finish(p)
    \/ /\ \E label \in {"listing", "interrupting"} : Resumes(p, label)
       /\ IF IsCurrentClient(cmd[p].held, cmd[p].gen)
          THEN /\ ed' = HandleClientError(ed, Answer(p))
               /\ helper' = Retired(helper, Answer(p))
          ELSE UNCHANGED <<ed, helper>>
       /\ Finish(p)

Interrupt(p) ==
    /\ cmd[p].at = "interrupt"
    /\ IF ed.client = None THEN Finish(p) ELSE Await(p, "interrupting", ed.client)
    /\ UNCHANGED <<ed, helper>>

(***************************************************************************)
(* sendFile: prepare the source, interrupt what runs and wait for it, reset *)
(* the device, evaluate the forms.                                         *)
(***************************************************************************)
Prepare(p) ==
    /\ cmd[p].at = "ready" /\ cmd[p].kind = "file"
    /\ IF ed.client = None THEN Finish(p) ELSE Await(p, "preparing", ed.client)
    /\ UNCHANGED <<ed, helper>>

Prepared(p) ==
    /\ Resumes(p, "preparing")
    /\ IF cmd[p].ans = "yes" /\ IsCurrentClient(cmd[p].held, cmd[p].gen)
       THEN Jump(p, "interrupt_running") ELSE Finish(p)
    /\ UNCHANGED <<ed, helper>>

InterruptRunningBeforeFileSend(p) ==
    /\ cmd[p].at = "interrupt_running"
    /\ IF ed.state # "running" THEN Jump(p, "reset")
       ELSE IF ed.client = None THEN Finish(p)
       ELSE Await(p, "file_interrupting", ed.client)
    /\ UNCHANGED <<ed, helper>>

FileInterrupted(p) ==
    LET current == IsCurrentClient(cmd[p].held, cmd[p].gen)
    IN  /\ Resumes(p, "file_interrupting")
        /\ \/ /\ ~current
              /\ Finish(p)
              /\ UNCHANGED <<ed, helper>>
           \/ /\ current /\ Answer(p) # "ok"
              /\ ed' = HandleClientError(ed, Answer(p))
              /\ helper' = Retired(helper, Answer(p))
              /\ Finish(p)
           \/ /\ current /\ Answer(p) = "ok" /\ ed.running = 0
              /\ Jump(p, "reset")
              /\ UNCHANGED <<ed, helper>>
           \/ /\ current /\ Answer(p) = "ok" /\ ed.running > 0
              /\ ed' = [ed EXCEPT !.waiters = @ \cup {p}]
              /\ AwaitHost(p, "settling")
              /\ UNCHANGED helper

RunningFinished(p) ==
    /\ Resumes(p, "settling")
    /\ IF cmd[p].ans = "timeout"
       THEN AwaitHost(p, "unsettled")
       ELSE IF IsCurrentClient(cmd[p].held, cmd[p].gen)
       THEN Jump(p, "reset") ELSE Finish(p)
    /\ ed' = [ed EXCEPT !.waiters = @ \ {p}]
    /\ UNCHANGED helper

ForceOffered(p) ==
    /\ Resumes(p, "unsettled")
    /\ IF cmd[p].ans = "yes"
       THEN cmd' = [cmd EXCEPT ![p] = [At(p, "force") EXCEPT !.kind = "force"]]
       ELSE Finish(p)
    /\ UNCHANGED <<ed, helper>>

PrepareFileSendReset(p) ==
    /\ cmd[p].at = "reset"
    /\ IF ed.state = "running" \/ ed.client = None
       THEN Finish(p) ELSE Await(p, "resetting", ed.client)
    /\ UNCHANGED <<ed, helper>>

FileReset(p) ==
    LET current == IsCurrentClient(cmd[p].held, cmd[p].gen)
        a == Answer(p)
    IN  /\ Resumes(p, "resetting")
        /\ \/ /\ a = "ok"
              /\ cmd' = [cmd EXCEPT ![p].at = "forms", ![p].cleared = cmd[p].held]
              /\ UNCHANGED <<ed, helper>>
           \/ /\ a = "reset_unavailable"
              /\ AwaitHost(p, "additive")
              /\ UNCHANGED <<ed, helper>>
           \/ /\ a \notin {"ok", "reset_unavailable"}
              /\ ed' = IF current THEN HandleClientError(ed, a) ELSE ed
              /\ helper' = IF current THEN Retired(helper, a) ELSE helper
              /\ Finish(p)

SendAnyway(p) ==
    /\ Resumes(p, "additive")
    /\ IF cmd[p].ans = "yes"
       THEN cmd' = [cmd EXCEPT ![p].at = "forms", ![p].cleared = cmd[p].held]
       ELSE Finish(p)
    /\ UNCHANGED <<ed, helper>>

\* Mutant: the client is not looked at after the reset.
RunSourceFormsUnchecked(p) ==
    /\ cmd[p].at = "forms"
    /\ IF ed.client # None
       THEN /\ ed' = BeginRunning(ed)
            /\ cmd' = [cmd EXCEPT ![p] = [@ EXCEPT !.at = "sending", !.held = ed.client,
                                                   !.gen = ed.gen, !.ans = "wait",
                                                   !.left = Forms - 1]]
       ELSE UNCHANGED ed /\ Finish(p)
    /\ UNCHANGED helper

RunSourceForms(p) ==
    /\ cmd[p].at = "forms"
    /\ IF IsCurrentClient(cmd[p].held, cmd[p].gen)
       THEN /\ ed' = BeginRunning(ed)
            /\ cmd' = [cmd EXCEPT ![p] = [@ EXCEPT !.at = "sending", !.held = ed.client,
                                                   !.gen = ed.gen, !.ans = "wait",
                                                   !.left = Forms - 1]]
       ELSE UNCHANGED ed /\ Finish(p)
    /\ UNCHANGED helper

FormAnswered(p) ==
    /\ Resumes(p, "sending")
    /\ IF /\ Answer(p) = "ok" /\ cmd[p].left > 0
          /\ IsCurrentClient(cmd[p].held, cmd[p].gen)
       THEN /\ cmd' = [cmd EXCEPT ![p].left = @ - 1, ![p].ans = "wait"]
            /\ UNCHANGED <<ed, helper>>
       ELSE EndOperation(p, Answer(p)) /\ Finish(p)

(***************************************************************************)
(* The outside: processes, the helper's lines, timers and the user's       *)
(* answers to dialogs.                                                     *)
(***************************************************************************)
IsCurrentHelper(c) ==
    ~helper[c].disposed /\ IsCurrentClient(c, helper[c].gen)

HelperSpawns(p, ok) ==
    /\ Quiet
    /\ cmd[p].at = "starting" /\ cmd[p].ans = "wait"
    /\ cmd' = [cmd EXCEPT ![p].ans = IF ok THEN "up" ELSE "failed"]
    /\ helper' = [helper EXCEPT ![cmd[p].held] = IF ok THEN [@ EXCEPT !.proc = "up"] ELSE Gone]
    /\ UNCHANGED ed

HandleHelperExit(c) ==
    /\ Quiet
    /\ helper[c].proc = "up"
    /\ helper' = [helper EXCEPT ![c] = Gone]
    /\ ed' = IF IsCurrentHelper(c) THEN [LoseDevice(ed) EXCEPT !.client = None]
             ELSE IF ed.closing = c /\ helper[c].retired
             THEN [ed EXCEPT !.closing = None] ELSE ed
    /\ UNCHANGED cmd

\* A killed process ends: SIGKILL follows if it does not.
KilledHelperExits(c) == helper[c].disposed /\ HandleHelperExit(c)
HelperCrashes(c) == ~helper[c].disposed /\ HandleHelperExit(c)

\* The event a connect is announced with, before its response.
ConnectAnnounced(p, up) ==
    LET c == cmd[p].held
    IN  /\ Quiet
        /\ cmd[p].at = "connecting" /\ cmd[p].note = "none"
        /\ helper' = [helper EXCEPT ![c].linked = up]
        /\ cmd' = [cmd EXCEPT ![p].note = IF up THEN "up" ELSE "down"]
        /\ ed' = IF ~IsCurrentHelper(c) THEN ed
                 ELSE IF up THEN ApplyConnectedDevice(ed, c) ELSE LoseDevice(ed)

ConnectResponses(p) ==
    IF cmd[p].note = "up" THEN {"ok"}
    ELSE IF cmd[p].note = "none" /\ ~helper[cmd[p].held].linked THEN {}
    ELSE {"not_connected", "other"}
         \cup IF cmd[p].port = "none" THEN {"multiple_devices", "no_devices"} ELSE {}

ResponseCodes == {"ok", "interrupted", "reset_unavailable", "not_connected",
                  "multiple_devices", "no_devices", "other"}

\* The answers to a request on a link that is up; on one that is down there
\* is only "not_connected".
Responses(p) ==
    LET at == cmd[p].at
    IN  IF at = "connecting" THEN ConnectResponses(p)
        ELSE IF at = "detaching" THEN {"ok"}
        ELSE IF ~helper[cmd[p].held].linked THEN {"not_connected"}
        ELSE {"ok", "other"}
             \cup IF at \in {"evaluating", "sending"} THEN {"interrupted"} ELSE {}
             \cup IF at = "resetting" THEN {"reset_unavailable"} ELSE {}

\* A response; a value request announces "idle" before it.  A request that
\* fails may have found the link gone, and "disconnected" is then announced
\* after the response.
HelperResponds(p, a, lost) ==
    LET c == cmd[p].held
        down == a = "not_connected" \/ lost
    IN  /\ Quiet
        /\ cmd[p].at \in HelperRequests /\ cmd[p].ans = "wait"
        /\ a \in Responses(p)
        /\ lost => a = "other" /\ cmd[p].at # "connecting"
        /\ cmd' = [cmd EXCEPT ![p].ans = a]
        /\ helper' = [helper EXCEPT
              ![c].linked = @ /\ ~lost /\ cmd[p].at # "detaching",
              ![c].owes = @ \/ (down /\ cmd[p].at # "connecting")]
        /\ ed' = IF /\ cmd[p].at \in ValueRequests /\ IsCurrentHelper(c)
                    /\ ed.state = "running" /\ ed.running = 0
                 THEN [ed EXCEPT !.state = AtRest(ed)] ELSE ed

\* "disconnected" after a response, perhaps in the same chunk of output and
\* so before the command that got the response goes on.
HelperAnnouncesLoss(c) ==
    /\ ThreadFree
    /\ helper[c].proc = "up" /\ helper[c].owes
    /\ helper' = [helper EXCEPT ![c].owes = FALSE]
    /\ ed' = IF IsCurrentHelper(c) THEN LoseDevice(ed) ELSE ed
    /\ UNCHANGED cmd

TimerExpires(p) ==
    /\ Quiet
    /\ cmd[p].at \in {"detaching", "settling"} /\ cmd[p].ans = "wait"
    /\ cmd' = [cmd EXCEPT ![p].ans = "timeout"]
    /\ UNCHANGED <<ed, helper>>

HostAnswers(p, a) ==
    /\ Quiet
    /\ cmd[p].at \in HostWaits /\ cmd[p].ans = "wait"
    /\ cmd' = [cmd EXCEPT ![p].ans = a]
    /\ UNCHANGED <<ed, helper>>

(***************************************************************************)
(* The specification.                                                      *)
(***************************************************************************)
Given(plan) ==
    [p \in Commands |-> IF p \in DOMAIN plan THEN [NewCommand EXCEPT !.kind = plan[p]]
                        ELSE [NewCommand EXCEPT !.at = "done"]]

NewController ==
    [client |-> None, closing |-> None, state |-> "idle", device |-> None,
     running |-> 0, waiters |-> {}, gen |-> 0, attempt |-> 0]

Init ==
    \/ /\ \E plan \in FreshPlans : cmd = Given(plan)
       /\ ed = NewController
       /\ helper = [c \in Clients |-> NewHelper]
    \/ /\ \E plan \in ConnectedPlans : cmd = Given(plan)
       /\ ed = [NewController EXCEPT !.client = 1, !.state = "connected", !.device = 1,
                                     !.gen = 1, !.attempt = 1]
       /\ helper = [c \in Clients |->
              IF c = 1 THEN [NewHelper EXCEPT !.proc = "up", !.gen = 1, !.linked = TRUE]
              ELSE NewHelper]

\* One stretch of the JavaScript thread's own code.
Code(p) ==
    \/ WaitForClosing(p) \/ AfterClosing(p) \/ StopRunning(p) \/ AfterStop(p)
    \/ EnsureClient(p) \/ ClientStarted(p) \/ ClientNotStarted(p) \/ StaleClientGone(p)
    \/ RequestConnect(p) \/ ConnectAnswered(p) \/ PortForgotten(p)
    \/ DevicePicked(p) \/ NoDeviceWarned(p)
    \/ Disconnect(p) \/ Parted(p) \/ Detached(p) \/ ForceReconnect(p) \/ Forced(p)
    \/ RunRequest(p) \/ RequestAnswered(p) \/ Interrupt(p)
    \/ Prepare(p) \/ Prepared(p) \/ InterruptRunningBeforeFileSend(p)
    \/ FileInterrupted(p) \/ RunningFinished(p) \/ ForceOffered(p)
    \/ PrepareFileSendReset(p) \/ FileReset(p) \/ SendAnyway(p)
    \/ RunSourceForms(p) \/ FormAnswered(p)

Outside ==
    \/ \E p \in Commands : Begin(p)
    \/ \E p \in Commands, ok \in BOOLEAN : HelperSpawns(p, ok) \/ ConnectAnnounced(p, ok)
    \/ \E p \in Commands, a \in ResponseCodes, lost \in BOOLEAN : HelperResponds(p, a, lost)
    \/ \E c \in Clients : HelperCrashes(c) \/ KilledHelperExits(c) \/ HelperAnnouncesLoss(c)
    \/ \E p \in Commands : TimerExpires(p) \/ \E a \in {"yes", "no"} : HostAnswers(p, a)

\* Every command has returned and every killed process has ended.
AllDone ==
    /\ \A p \in Commands : cmd[p].at = "done"
    /\ UNCHANGED vars

Next == (\E p \in Commands : Code(p)) \/ Outside \/ AllDone

Spec == Init /\ [][Next]_vars
(***************************************************************************)
(* Properties.                                                             *)
(***************************************************************************)
\* The types of the controller's fields, of the clients and of the commands.
TypeOK ==
    /\ ed \in [client : {None} \cup Clients, closing : {None} \cup Clients,
              state : ConnectionState, device : {None} \cup Clients,
              running : 0..Cardinality(Commands), waiters : SUBSET Commands,
              gen : Nat, attempt : Nat]
    /\ \A c \in Clients :
          /\ helper[c].proc \in {"none", "starting", "up", "gone"}
          /\ helper[c].gen \in Nat
          /\ \A f \in {"disposed", "linked", "owes", "retired"} : helper[c][f] \in BOOLEAN
    /\ \A p \in Commands :
          /\ cmd[p].kind \in Kinds \cup {"none"}
          /\ cmd[p].at \in Labels
          /\ cmd[p].held \in {None} \cup Clients
          /\ cmd[p].left \in 0..Forms
          /\ cmd[p].wait \subseteq Clients

\* No helper process is left behind: one that runs and was not disposed of is
\* the controller's client, the one it is closing, or in the hands of the
\* command that is starting it.  The client in use always runs, and none is
\* being closed beside it.  (controller.ts: client, closingClient,
\* clientGeneration; every replacement of a client under way.)
NoOrphan ==
    /\ TypeOK
    /\ \A c \in Clients : IsRunning(c) =>
          \/ c \in {ed.client, ed.closing}
          \/ \E p \in Commands : cmd[p].at = "starting" /\ cmd[p].held = c
    /\ ed.client # None => IsRunning(ed.client) /\ ed.closing = None

InFlight == {p \in Commands : /\ cmd[p].at \in {"evaluating", "sending"}
                              /\ IsCurrentClient(cmd[p].held, cmd[p].gen)}

\* The target is never taken to be running for nothing: runningOperations
\* counts no more than the operations in flight on the client in use, whoever
\* waits for them to finish waits for at least one, and "running" is shown on
\* a client only while there is one.  Otherwise requireIdle would refuse every
\* command from then on.
RunningIsReal ==
    /\ ed.running <= Cardinality(InFlight)
    /\ ed.waiters # {} => ed.running > 0
    /\ ed.state = "running" /\ ed.client # None => ed.running > 0

\* What is shown belongs to the client in use: a device is the device of that
\* client (or of the one being closed), "connected" names it, and "connecting"
\* is shown only while the newest connect attempt is under way on it.
ShowsCurrent ==
    /\ ed.device # None => ed.device \in {ed.client, ed.closing}
    /\ ed.client # None /\ Quiet =>
          /\ ed.state = "connected" => ed.device = ed.client
          /\ ed.state = "connecting" => \E p \in Commands :
                /\ cmd[p].at \in {"connecting", "storing", "picking"}
                /\ cmd[p].attempt = ed.attempt /\ cmd[p].held = ed.client

\* The command awaits something, and since it does there has been a newer
\* connect attempt, or the client it asked is not the one in use any more.
Outdated(p) ==
    LET k == cmd[p]
    IN  \/ /\ k.at \in {"starting", "stale", "request", "connecting", "storing",
                         "picking", "warned"}
           /\ k.attempt # ed.attempt
        \/ /\ k.at \in (ExitWaits \ {"stale"}) \cup {"detaching"}
           /\ k.gen # ed.gen
        \/ /\ k.at \in (HelperRequests \ {"connecting", "detaching"})
                       \cup {"preparing", "settling", "unsettled", "additive"}
           /\ ~IsCurrentClient(k.held, k.gen)

GoesOn(p) == cmd'[p].at # cmd[p].at

\* The user cancels the choice of a device.
PickerCancelled(p) == cmd[p].at = "picking" /\ cmd[p].ans # "yes"

\* A command that was superseded while it awaited changes neither the state
\* nor the device that is shown when it goes on, but for one: the cancelled
\* picker shows "disconnected" whatever is newer (handleConnectError).
SupersededIsQuiet ==
    \A p \in Commands :
        Outdated(p) /\ GoesOn(p) /\ ~PickerCancelled(p) =>
            ed'.state = ed.state /\ ed'.device = ed.device

\* What is shown belongs to the client in use and to the newest command: an
\* older one that comes back, with its answer or without, does not change it
\* (isCurrentConnectAttempt, isCurrentClient, isDisposedGenerationCurrent),
\* the picker of a superseded connect excepted.
ShownIsCurrent == []ShowsCurrent /\ [][SupersededIsQuiet]_vars

\* The forms of a file are evaluated by the helper that was reset for this
\* file (or whose user chose to send without a reset), whatever was replaced
\* while the reset was awaited (sendFile, prepareSendFileReset).
FormsFollowReset ==
    \A p \in Commands : cmd[p].at = "sending" => cmd[p].held = cmd[p].cleared

\* Nobody waits on a helper that may live for ever: a command that waits for
\* the exit of a process waits for one that has been killed (waitForExit sends
\* SIGKILL in the end, but only to what was disposed of by then), so that a
\* helper that is silent holds up neither Disconnect nor Force Reconnect.
AwaitsOnlyTheKilled ==
    \A p \in Commands : cmd[p].at \in ExitWaits =>
        \A c \in cmd[p].wait : helper[c].disposed /\ helper[c].proc \in {"up", "gone"}
=============================================================================
