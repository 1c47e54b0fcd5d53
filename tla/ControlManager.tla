---------------------------- MODULE ControlManager ----------------------------
(***************************************************************************)
(* The control-session helper: the connection manager (manager.go) and the *)
(* request server over it (control_session.go).  The server runs every     *)
(* request of the editor in a goroutine of its own; here a goroutine is a  *)
(* process, and a step is one critical section or one exchange with the    *)
(* device.                                                                 *)
(*                                                                         *)
(* A connection is named by the connect request that opened it, First      *)
(* being one that was there before.  What an exchange with the device      *)
(* answers, and whether the port a connect asks for is the one in use, are *)
(* inputs.  Opening a port (or searching all of them) ends with one bound  *)
(* connection or with everything it opened closed again.                   *)
(***************************************************************************)
EXTENDS Naturals, FiniteSets

CONSTANTS
  Connects,      \* "connect" requests
  Disconnects,   \* "disconnect" requests
  Requests,      \* "eval", "save", "words" and the others
  Interrupts,    \* "interrupt" requests
  First,         \* the connection an earlier request may have left
  None

Procs == Connects \cup Disconnects \cup Requests \cup Interrupts

Conns == Connects \cup {First}

ASSUME ControlManagerAssumption ==
  /\ IsFiniteSet(Procs)
  /\ None \notin Procs \cup Conns
  /\ First \notin Procs
  /\ Disconnects \cap Connects = {}
  /\ Requests \cap (Connects \cup Disconnects) = {}
  /\ Interrupts \cap (Connects \cup Disconnects \cup Requests) = {}

VARIABLES
  conn,           \* m.conn
  open,           \* connections whose transport is open
  opMu,           \* who holds m.opMu
  opKind,         \* m.opKind
  pendingOpKind,  \* m.pendingOpKind
  connectCancel,  \* m.connectCancel
  generation,     \* s.lifecycleGeneration
  shown,          \* the last lifecycle event sent to the editor
  pc,             \* where each goroutine is
  mine,           \* the connection it works on
  failed,         \* whether the backend call returned an error
  cancelGen,      \* connectCancel as a connect or disconnect knows it
  myGen           \* lifecycleGeneration as a connect knows it

manager == <<conn, open, opMu, opKind, pendingOpKind, connectCancel>>
server == <<generation, shown>>
locals == <<mine, failed, cancelGen, myGen>>
vars == <<manager, server, pc, locals>>

OpKinds == {"none", "connect", "request"}

Generations == 0 .. Cardinality(Connects \cup Disconnects)
Cancels == 0 .. Cardinality(Disconnects)

Steps == {"start", "snapshot", "pend", "lock", "activate", "cancelled", "pick",
          "probe", "probed", "clearStale", "closeStale", "opening", "opened",
          "clearOld", "detachOld", "closeOld", "switched", "store", "abort",
          "end", "unlock", "reply", "generation", "publish", "down",
          "cancel", "try", "kind", "take", "detach", "close", "io", "fatal",
          "done"}

(* The fields of the manager and of the server keep their types, the       *)
(* lifecycle generation and the cancel counter stay within the requests    *)
(* made.                                                                   *)
TypeOK ==
  /\ conn \in Conns \cup {None}
  /\ open \subseteq Conns
  /\ opMu \in Procs \cup {None}
  /\ opKind \in OpKinds
  /\ pendingOpKind \in OpKinds
  /\ connectCancel \in Cancels
  /\ generation \in Generations
  /\ shown \in {"none", "connected", "disconnected"}
  /\ pc \in [Procs -> Steps]
  /\ mine \in [Procs -> Conns \cup {None}]
  /\ failed \in [Procs -> BOOLEAN]
  /\ cancelGen \in [Procs -> Cancels]
  /\ myGen \in [Procs -> Generations]

Init ==
  /\ conn \in {None, First}
  /\ open = IF conn = None THEN {} ELSE {First}
  /\ opMu = None
  /\ opKind = "none"
  /\ pendingOpKind = "none"
  /\ connectCancel = 0
  /\ generation = 0
  /\ shown = IF conn = None THEN "none" ELSE "connected"
  /\ pc = [p \in Procs |-> "start"]
  /\ mine = [p \in Procs |-> None]
  /\ failed = [p \in Procs |-> FALSE]
  /\ cancelGen = [p \in Procs |-> 0]
  /\ myGen = [p \in Procs |-> 0]

Goto(p, from, to) == pc[p] = from /\ pc' = [pc EXCEPT ![p] = to]

Fail(p) == failed' = [failed EXCEPT ![p] = TRUE]

----------------------------------------------------------------------------
(* beginOperation and endOperation.                                        *)

Kind(p) == IF p \in Connects THEN "connect" ELSE "request"

Pend(p) ==
  /\ Goto(p, "pend", "lock")
  /\ pendingOpKind' = IF opKind = "none" THEN Kind(p) ELSE pendingOpKind
  /\ UNCHANGED <<conn, open, opMu, opKind, connectCancel, server, locals>>

(* Faulty variant: two operations at a time.                               *)
LockAlways(p) ==
  /\ p \in Connects \cup Requests
  /\ Goto(p, "lock", "activate")
  /\ opMu' = p
  /\ UNCHANGED <<conn, open, opKind, pendingOpKind, connectCancel, server,
                 locals>>

Lock(p) ==
  /\ p \in Connects \cup Requests
  /\ opMu = None
  /\ Goto(p, "lock", "activate")
  /\ opMu' = p
  /\ UNCHANGED <<conn, open, opKind, pendingOpKind, connectCancel, server,
                 locals>>

Activate(p) ==
  /\ Goto(p, "activate", IF p \in Connects THEN "cancelled" ELSE "pick")
  /\ opKind' = Kind(p)
  /\ pendingOpKind' = IF pendingOpKind = Kind(p) THEN "none" ELSE pendingOpKind
  /\ UNCHANGED <<conn, open, opMu, connectCancel, server, locals>>

End(p) ==
  /\ Goto(p, "end", "unlock")
  /\ opKind' = "none"
  /\ UNCHANGED <<conn, open, opMu, pendingOpKind, connectCancel, server, locals>>

Unlock(p) ==
  /\ Goto(p, "unlock", "reply")
  /\ opMu' = None
  /\ UNCHANGED <<conn, open, opKind, pendingOpKind, connectCancel, server,
                 locals>>

CurrentOperation == IF opKind # "none" THEN opKind ELSE pendingOpKind

----------------------------------------------------------------------------
(* Connect.                                                                *)

Snapshot(c) ==
  /\ Goto(c, "snapshot", "pend")
  /\ cancelGen' = [cancelGen EXCEPT ![c] = connectCancel]
  /\ UNCHANGED <<manager, server, mine, failed, myGen>>

(* Faulty variant: a disconnect does not cancel a connect.                 *)
NeverCancelled(c) == FALSE

WasCancelled(c) == connectCancel # cancelGen[c]

CheckCancelled(c) ==
  /\ \/ WasCancelled(c) /\ Goto(c, "cancelled", "end") /\ Fail(c)
     \/ ~WasCancelled(c) /\ Goto(c, "cancelled", "pick") /\ UNCHANGED failed
  /\ UNCHANGED <<manager, server, mine, cancelGen, myGen>>

(* The connection in use, and what is done with it: probe it when it is    *)
(* the port asked for, switch ports otherwise.                             *)
PickConnection(c) ==
  /\ mine' = [mine EXCEPT ![c] = conn]
  /\ IF conn = None THEN Goto(c, "pick", "opening")
     ELSE \E next \in {"probe", "opening"} : Goto(c, "pick", next)
  /\ UNCHANGED <<manager, server, failed, cancelGen, myGen>>

Probe(c) ==
  /\ \/ mine[c] \in open /\ Goto(c, "probe", "probed")
     \/ Goto(c, "probe", "clearStale")
  /\ UNCHANGED <<manager, server, locals>>

Probed(c) ==
  /\ Goto(c, "probed", "end")
  /\ failed' = [failed EXCEPT ![c] = WasCancelled(c)]
  /\ UNCHANGED <<manager, server, mine, cancelGen, myGen>>

(* clearConnection(conn).                                                  *)
Cleared(c) == IF conn = mine[c] THEN None ELSE conn

ClearStale(c) ==
  /\ Goto(c, "clearStale", "closeStale")
  /\ conn' = Cleared(c)
  /\ UNCHANGED <<open, opMu, opKind, pendingOpKind, connectCancel, server,
                 locals>>

CloseStale(c) ==
  /\ Goto(c, "closeStale", "opening")
  /\ open' = open \ {mine[c]}
  /\ mine' = [mine EXCEPT ![c] = None]
  /\ UNCHANGED <<conn, opMu, opKind, pendingOpKind, connectCancel, server,
                 failed, cancelGen, myGen>>

OpenConnection(c) ==
  /\ \/ /\ Goto(c, "opening", "opened")
        /\ open' = open \cup {c}
        /\ UNCHANGED failed
     \/ Goto(c, "opening", "end") /\ Fail(c) /\ UNCHANGED open
  /\ UNCHANGED <<conn, opMu, opKind, pendingOpKind, connectCancel, server,
                 mine, cancelGen, myGen>>

(* closeIfConnectCancelled after the new connection was opened.            *)
CheckOpened(c) ==
  /\ \/ WasCancelled(c) /\ Goto(c, "opened", "abort")
     \/ /\ ~WasCancelled(c)
        /\ Goto(c, "opened", IF mine[c] = None THEN "store" ELSE "clearOld")
  /\ UNCHANGED <<manager, server, locals>>

ClearOld(c) ==
  /\ Goto(c, "clearOld", "detachOld")
  /\ conn' = Cleared(c)
  /\ UNCHANGED <<open, opMu, opKind, pendingOpKind, connectCancel, server,
                 locals>>

DetachOld(c) ==
  /\ Goto(c, "detachOld", "closeOld")
  /\ \/ mine[c] \in open /\ UNCHANGED failed
     \/ Fail(c)
  /\ UNCHANGED <<manager, server, mine, cancelGen, myGen>>

(* Faulty variant: the old connection is left open.                        *)
CloseOldLeftOpen(c) ==
  /\ Goto(c, "closeOld", IF failed[c] THEN "abort" ELSE "switched")
  /\ UNCHANGED <<manager, server, locals>>

CloseOld(c) ==
  /\ Goto(c, "closeOld", IF failed[c] THEN "abort" ELSE "switched")
  /\ open' = open \ {mine[c]}
  /\ UNCHANGED <<conn, opMu, opKind, pendingOpKind, connectCancel, server,
                 locals>>

CheckSwitched(c) ==
  /\ Goto(c, "switched", IF WasCancelled(c) THEN "abort" ELSE "store")
  /\ UNCHANGED <<manager, server, locals>>

Store(c) ==
  /\ Goto(c, "store", "end")
  /\ conn' = c
  /\ UNCHANGED <<open, opMu, opKind, pendingOpKind, connectCancel, server,
                 locals>>

Abort(c) ==
  /\ Goto(c, "abort", "end")
  /\ open' = open \ {c}
  /\ Fail(c)
  /\ UNCHANGED <<conn, opMu, opKind, pendingOpKind, connectCancel, server,
                 mine, cancelGen, myGen>>

----------------------------------------------------------------------------
(* Disconnect.                                                             *)

(* cancelConnectOperations.                                                *)
Cancel(d) ==
  /\ Goto(d, "cancel", "try")
  /\ connectCancel' = connectCancel + 1
  /\ cancelGen' = [cancelGen EXCEPT ![d] = connectCancel + 1]
  /\ UNCHANGED <<conn, open, opMu, opKind, pendingOpKind, server, mine, failed,
                 myGen>>

TryLock(d) ==
  /\ \/ opMu = None /\ opMu' = d /\ Goto(d, "try", "take")
     \/ opMu # None /\ UNCHANGED opMu /\ Goto(d, "try", "kind")
  /\ UNCHANGED <<conn, open, opKind, pendingOpKind, connectCancel, server,
                 locals>>

(* Faulty variant: never waits for the operation in progress.              *)
CheckKindNeverWaits(d) ==
  /\ Goto(d, "kind", "take")
  /\ UNCHANGED <<manager, server, locals>>

CheckKind(d) ==
  /\ Goto(d, "kind", IF CurrentOperation = "request" THEN "take" ELSE "lock")
  /\ UNCHANGED <<manager, server, locals>>

LockDisconnect(d) ==
  /\ d \in Disconnects
  /\ opMu = None
  /\ Goto(d, "lock", "take")
  /\ opMu' = d
  /\ UNCHANGED <<conn, open, opKind, pendingOpKind, connectCancel, server,
                 locals>>

(* Faulty variant: detaches although a request is using the session.       *)
AlwaysDetaches(p) == p \in Disconnects

(* closeConnection(true) is for a disconnect that holds opMu.              *)
Detaches(p) == opMu = p /\ p \in Disconnects

(* Faulty variant: a disconnect returns with the lock.                     *)
AfterCloseKeepsLock(p) == IF p \in Requests THEN "end" ELSE "reply"

(* Where a process goes after closeConnection.                             *)
AfterClose(p) ==
  IF p \in Requests THEN "end"
  ELSE IF p \in Disconnects /\ opMu = p THEN "unlock" ELSE "reply"

(* closeConnection: takes the connection, whichever it is by now.          *)
TakeConnection(p) ==
  /\ \E from \in {"take", "fatal"} :
       Goto(p, from, IF conn = None THEN AfterClose(p)
                     ELSE IF Detaches(p) THEN "detach" ELSE "close")
  /\ mine' = [mine EXCEPT ![p] = conn]
  /\ conn' = None
  /\ UNCHANGED <<open, opMu, opKind, pendingOpKind, connectCancel, server,
                 failed, cancelGen, myGen>>

Detach(d) ==
  /\ Goto(d, "detach", "close")
  /\ \/ mine[d] \in open /\ UNCHANGED failed
     \/ Fail(d)
  /\ UNCHANGED <<manager, server, mine, cancelGen, myGen>>

(* The transport is gone even if closing it reports an error, which only a *)
(* disconnect passes on.                                                   *)
Close(p) ==
  /\ Goto(p, "close", AfterClose(p))
  /\ open' = open \ {mine[p]}
  /\ UNCHANGED failed \/ (p \in Disconnects /\ Fail(p))
  /\ UNCHANGED <<conn, opMu, opKind, pendingOpKind, connectCancel, server,
                 mine, cancelGen, myGen>>

----------------------------------------------------------------------------
(* Requests and interrupts.                                                *)

ReadConnection(p) ==
  /\ mine' = [mine EXCEPT ![p] = conn]
  /\ \/ conn # None /\ Goto(p, "pick", "io") /\ UNCHANGED failed
     \/ /\ conn = None
        /\ Goto(p, "pick", IF p \in Requests THEN "end" ELSE "reply")
        /\ Fail(p)
  /\ UNCHANGED <<manager, server, cancelGen, myGen>>

(* The device answers: a value or "interrupted", or a control error.  For  *)
(* an interrupt, the byte was written.                                     *)
Answer(p) ==
  /\ mine[p] \in open
  /\ Goto(p, "io", IF p \in Requests THEN "end" ELSE "reply")
  /\ UNCHANGED failed \/ (p \in Requests /\ Fail(p))
  /\ UNCHANGED <<manager, server, mine, cancelGen, myGen>>

(* A fatal session error: the link failed, or the transport was closed.    *)
LinkFails(p) ==
  /\ Goto(p, "io", "fatal")
  /\ Fail(p)
  /\ UNCHANGED <<manager, server, mine, cancelGen, myGen>>

----------------------------------------------------------------------------
(* The server around them.                                                 *)

(* handleRequest: a connect or disconnect takes a lifecycle generation.    *)
Receive(p) ==
  /\ IF p \in Connects \cup Disconnects
       THEN /\ Goto(p, "start", IF p \in Connects THEN "snapshot" ELSE "cancel")
            /\ generation' = generation + 1
            /\ myGen' = [myGen EXCEPT ![p] = generation + 1]
       ELSE /\ Goto(p, "start", IF p \in Requests THEN "pend" ELSE "pick")
            /\ UNCHANGED <<generation, myGen>>
  /\ UNCHANGED <<manager, shown, mine, failed, cancelGen>>

(* The goroutine returns and its variables are gone.                       *)
Return(p, from) ==
  /\ Goto(p, from, "done")
  /\ mine' = [mine EXCEPT ![p] = None]
  /\ failed' = [failed EXCEPT ![p] = FALSE]
  /\ myGen' = [myGen EXCEPT ![p] = 0]
  /\ UNCHANGED <<manager, generation, cancelGen>>

(* finishSimple, finishValueRequest, handleConnectRequest: a failure asks  *)
(* IsConnected and, like a disconnect, reports "disconnected"; a connect   *)
(* that succeeded looks at its generation.                                 *)
Reply(p) ==
  LET down == IF failed[p] THEN conn = None ELSE p \in Disconnects
      up == ~failed[p] /\ p \in Connects
  IN  \/ /\ down \/ up
         /\ Goto(p, "reply", IF up THEN "generation" ELSE "down")
         /\ UNCHANGED <<manager, server, locals>>
      \/ ~down /\ ~up /\ Return(p, "reply") /\ UNCHANGED shown

CheckGeneration(c) ==
  \/ /\ myGen[c] = generation
     /\ Goto(c, "generation", "publish")
     /\ UNCHANGED <<manager, server, locals>>
  \/ myGen[c] # generation /\ Return(c, "generation") /\ UNCHANGED shown

Publish(c) == Return(c, "publish") /\ shown' = "connected"

PublishDown(p) == Return(p, "down") /\ shown' = "disconnected"

----------------------------------------------------------------------------
ConnectStep(c) ==
  \/ Snapshot(c) \/ CheckCancelled(c) \/ PickConnection(c)
  \/ Probe(c) \/ Probed(c) \/ ClearStale(c) \/ CloseStale(c)
  \/ OpenConnection(c) \/ CheckOpened(c)
  \/ ClearOld(c) \/ DetachOld(c) \/ CloseOld(c) \/ CheckSwitched(c)
  \/ Store(c) \/ Abort(c)
  \/ CheckGeneration(c) \/ Publish(c)

DisconnectStep(d) ==
  \/ Cancel(d) \/ TryLock(d) \/ CheckKind(d) \/ Detach(d)

(* Everything a goroutine does without waiting for a lock or the device.   *)
Step(p) ==
  \/ Receive(p) \/ Reply(p) \/ PublishDown(p)
  \/ Pend(p) \/ Activate(p) \/ End(p) \/ Unlock(p)
  \/ TakeConnection(p) \/ Close(p)
  \/ p \in Connects /\ ConnectStep(p)
  \/ p \in Disconnects /\ DisconnectStep(p)
  \/ p \in Requests \cup Interrupts /\ ReadConnection(p)

Acquire(p) == Lock(p) \/ LockDisconnect(p)

Next ==
  \/ \E p \in Procs : Step(p) \/ Acquire(p) \/ Answer(p) \/ LinkFails(p)
  \/ (\A p \in Procs : pc[p] = "done") /\ UNCHANGED vars

Spec == Init /\ [][Next]_vars

(* Goroutines are scheduled fairly, a sync.Mutex starves nobody, and a     *)
(* read from a transport that is closed returns; an eval has no timeout,   *)
(* so that a device need never answer it.                                  *)
FairSpec ==
  /\ Spec
  /\ \A p \in Procs :
       /\ WF_vars(Step(p))
       /\ SF_vars(Acquire(p))
       /\ WF_vars(mine[p] \notin open /\ LinkFails(p))
       /\ WF_vars(p \in Interrupts /\ Answer(p))

----------------------------------------------------------------------------
(* Goroutine p has taken connection t out of m.conn, or has not stored it  *)
(* yet, and is on its way to close or to store it.                         *)
Holds(p, t) ==
  \/ /\ mine[p] = t
     /\ pc[p] \in {"detach", "close", "closeStale", "detachOld", "closeOld"}
  \/ /\ p = t
     /\ pc[p] \in {"opened", "clearOld", "detachOld", "closeOld", "switched",
                   "store", "abort"}

(* Whatever connects, disconnects and failures do to each other, an open   *)
(* port is the manager's connection or about to be closed or stored by     *)
(* somebody, and the manager's connection is open: no serial port stays    *)
(* occupied after the last request.                                        *)
NoLeak ==
  /\ \A t \in open : conn = t \/ \E p \in Procs : Holds(p, t)
  /\ conn # None => conn \in open

(* Goroutines p that exchange frames on connection t.                      *)
Exchanges(p, t) ==
  /\ mine[p] = t
  /\ \/ pc[p] \in {"probe", "detachOld", "detach"}
     \/ pc[p] = "io" /\ p \in Requests

(* Two goroutines never exchange frames on one session at the same time,   *)
(* also when a disconnect does not wait for the running request: their     *)
(* answers and sequence numbers would be mixed up.                         *)
OneExchange ==
  \A t \in Conns, p, q \in Procs : Exchanges(p, t) /\ Exchanges(q, t) => p = q

(* Once a disconnect has returned, the manager's connection is not one of  *)
(* a connect that had begun before that disconnect (TestManagerDisconnect- *)
(* CancelsPendingConnect), nor one that was there before.                  *)
DisconnectWins ==
  \A d \in Disconnects :
    pc[d] \in {"unlock", "reply", "down", "done"} /\ conn # None =>
      conn # First /\ cancelGen[conn] >= cancelGen[d]

(* A request that fails takes down the connection it failed on, never a    *)
(* newer one that was opened while it waited.                              *)
FailsOnlyItsOwn ==
  [][\A p \in Requests :
       pc[p] = "fatal" /\ pc'[p] # "fatal" => conn \in {None, mine[p]}]_vars

(* Whoever holds opMu is between taking and releasing it, on every path    *)
(* through the closing of a connection: nobody returns with the lock or    *)
(* waits for it while holding it, so that those who wait get it.           *)
HolderRuns ==
  /\ TypeOK
  /\ opMu # None =>
       pc[opMu] \notin {"start", "snapshot", "pend", "lock", "kind", "reply",
                        "generation", "publish", "down", "done"}

(* A disconnect is not blocked behind a running eval                       *)
(* (TestManagerDisconnectClosesTransportDuringRunningEval).                *)
DisconnectReturns == \A d \in Disconnects : <>(pc[d] = "done")

(* After a disconnect has reported "disconnected", a connect that began    *)
(* before it answers with a failure and does not publish "connected"       *)
(* (TestControlSessionServerDisconnectPreemptsBlockedConnect).             *)
SupersededIsSilent ==
  [][\A c \in Connects, d \in Disconnects :
       pc[c] = "publish" /\ pc'[c] = "done" /\ pc[d] = "done" =>
         cancelGen[c] >= cancelGen[d]]_vars
=============================================================================
