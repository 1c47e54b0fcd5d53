------------------------ MODULE ControlManagerProofs ------------------------
(***************************************************************************)
(* Proofs about ControlManager for every finite set of connects,           *)
(* disconnects, requests and interrupts.                                   *)
(*                                                                         *)
(* opMu does not protect the connection: a disconnect that meets a running *)
(* request, an interrupt and a failing request all take the connection out *)
(* of the manager, the first two without the lock.  What does hold is that *)
(* only a connect puts one in, once, under the lock, and that nobody but   *)
(* the connect itself knows a connection before that.                      *)
(***************************************************************************)
EXTENDS ControlManager, FiniteSetTheorems, TLAPS

----------------------------------------------------------------------------
(* The inductive invariant.                                                *)

(* Where a goroutine of each kind can be while it holds opMu ...           *)
ConnectCritical ==
  {"activate", "cancelled", "pick", "probe", "probed", "clearStale",
   "closeStale", "opening", "opened", "clearOld", "detachOld", "closeOld",
   "switched", "store", "abort", "end", "unlock"}
RequestCritical == {"activate", "pick", "io", "fatal", "close", "end", "unlock"}

(* ... and where else.                                                     *)
ConnectOutside ==
  {"start", "snapshot", "pend", "lock", "reply", "generation", "publish",
   "down", "done"}
RequestOutside == {"start", "pend", "lock", "reply", "down", "done"}
DisconnectSteps ==
  {"start", "cancel", "try", "kind", "lock", "take", "detach", "close",
   "unlock", "reply", "down", "done"}
InterruptSteps == {"start", "pick", "io", "fatal", "close", "reply", "down", "done"}

PcInv ==
  /\ \A c \in Connects : pc[c] \in ConnectCritical \cup ConnectOutside
  /\ \A r \in Requests : pc[r] \in RequestCritical \cup RequestOutside
  /\ \A d \in Disconnects : pc[d] \in DisconnectSteps
  /\ \A i \in Interrupts : pc[i] \in InterruptSteps

(* A connect or request holds the lock in its critical section and nowhere *)
(* else.  A disconnect closes with or without it, but detaches and unlocks *)
(* only with it.  An interrupt never has it.                               *)
LockInv ==
  /\ \A c \in Connects : opMu = c <=> pc[c] \in ConnectCritical
  /\ \A r \in Requests : opMu = r <=> pc[r] \in RequestCritical
  /\ \A d \in Disconnects :
       /\ pc[d] \in {"detach", "unlock"} => opMu = d
       /\ opMu = d => pc[d] \in {"take", "detach", "close", "unlock"}
  /\ \A i \in Interrupts : opMu # i

(* While a connect works, m.opKind says so.                                *)
KindInv ==
  \A c \in Connects :
    pc[c] \in ConnectCritical \ {"activate", "unlock"} => opKind = "connect"

(* Until a connect has stored its connection nobody else knows it.         *)
BeforeStore ==
  (ConnectOutside \cup ConnectCritical)
    \ {"end", "unlock", "reply", "generation", "publish", "down", "done"}

PrivateInv ==
  \A c \in Connects :
    pc[c] \in BeforeStore => conn # c /\ \A p \in Procs : mine[p] # c

Opened == {"opened", "clearOld", "detachOld", "closeOld", "switched", "store",
           "abort"}

OpenedInv == \A c \in Connects : pc[c] \in Opened => c \in open

(* A connection that somebody is about to close is not the manager's.      *)
Closing == {"detach", "close", "closeStale", "detachOld", "closeOld"}

ClosingInv == \A p \in Procs : pc[p] \in Closing => mine[p] # None /\ mine[p] # conn

(* The holder of the lock knows the connection, unless it was taken away   *)
(* meanwhile.                                                              *)
KnownInv ==
  /\ \A c \in Connects :
       /\ pc[c] \in {"probe", "probed", "clearStale", "opening", "opened", "clearOld"}
            => conn \in {None, mine[c]}
       /\ pc[c] \in {"probe", "clearStale", "clearOld"} => mine[c] # None
       /\ pc[c] \in {"closeStale", "detachOld", "closeOld", "switched", "store"}
            => conn = None
  /\ \A r \in Requests : pc[r] \in {"io", "fatal"} => conn \in {None, mine[r]}

OwnerInv == PrivateInv /\ OpenedInv /\ ClosingInv /\ KnownInv

(* A disconnect that came after the last look of a connect at the cancel   *)
(* counter waits for it to store, and takes what it stored.                *)
AfterTake == {"detach", "close", "unlock", "reply", "down", "done"}

CancelInv ==
  /\ \A p \in Procs : cancelGen[p] <= connectCancel
  /\ \A c \in Connects, d \in Disconnects :
       pc[c] = "store" /\ cancelGen[d] > cancelGen[c]
         => pc[d] \in {"try", "kind", "lock"}
  /\ conn # None =>
       \A d \in Disconnects :
         pc[d] \in AfterTake => conn # First /\ cancelGen[conn] >= cancelGen[d]

(* The counters count the requests that have been received and the         *)
(* disconnects that have cancelled.                                        *)
Received == {p \in Connects \cup Disconnects : pc[p] # "start"}
Cancelling == {d \in Disconnects : pc[d] \notin {"start", "cancel"}}

CountInv ==
  /\ generation = Cardinality(Received)
  /\ connectCancel = Cardinality(Cancelling)

IInv ==
  /\ TypeOK
  /\ PcInv
  /\ LockInv
  /\ KindInv
  /\ OwnerInv
  /\ CancelInv
  /\ CountInv
  /\ NoLeak

----------------------------------------------------------------------------
(* A step of goroutine p.                                                  *)
ProcNext(p) == Step(p) \/ Acquire(p) \/ Answer(p) \/ LinkFails(p)

(* There are never more requests counted than there are.                   *)
LEMMA CountBounds ==
  ASSUME NEW R \in SUBSET (Connects \cup Disconnects), NEW X \in SUBSET Disconnects
  PROVE  /\ IsFiniteSet(R) /\ Cardinality(R) \in Generations
         /\ IsFiniteSet(X) /\ Cardinality(X) \in Cancels
<1>1. IsFiniteSet(Connects \cup Disconnects) /\ IsFiniteSet(Disconnects)
  BY ControlManagerAssumption, FS_Subset DEF Procs
<1>2. /\ IsFiniteSet(R) /\ Cardinality(R) <= Cardinality(Connects \cup Disconnects)
      /\ IsFiniteSet(X) /\ Cardinality(X) <= Cardinality(Disconnects)
  BY <1>1, FS_Subset
<1>3. /\ Cardinality(R) \in Nat /\ Cardinality(Connects \cup Disconnects) \in Nat
      /\ Cardinality(X) \in Nat /\ Cardinality(Disconnects) \in Nat
  BY <1>1, <1>2, FS_CardinalityType
<1> QED
  BY <1>2, <1>3 DEF Generations, Cancels

(* Both counters are numbers of requests, and so bounded.                  *)
LEMMA CountTypes ==
  ASSUME CountInv
  PROVE  generation \in Generations /\ connectCancel \in Cancels
BY CountBounds DEF CountInv, Received, Cancelling

(* Every goroutine stays among the steps of its kind.                      *)
LEMMA PcStep ==
  ASSUME TypeOK, PcInv, NEW p \in Procs, ProcNext(p)
  PROVE  PcInv'
<1> USE ControlManagerAssumption DEF Goto, Procs, TypeOK, PcInv,
        ConnectCritical, ConnectOutside, RequestCritical, RequestOutside,
        DisconnectSteps, InterruptSteps
<1>1. ASSUME Receive(p) PROVE PcInv'
  BY <1>1 DEF Receive
<1>2. ASSUME Reply(p) PROVE PcInv'
  BY <1>2 DEF Reply, Return
<1>3. ASSUME PublishDown(p) PROVE PcInv'
  BY <1>3 DEF PublishDown, Return
<1>4. ASSUME Pend(p) PROVE PcInv'
  BY <1>4 DEF Pend, Kind
<1>5. ASSUME Activate(p) PROVE PcInv'
  BY <1>5 DEF Activate, Kind
<1>6. ASSUME End(p) PROVE PcInv'
  BY <1>6 DEF End
<1>7. ASSUME Unlock(p) PROVE PcInv'
  BY <1>7 DEF Unlock
<1>8. ASSUME TakeConnection(p) PROVE PcInv'
  BY <1>8 DEF TakeConnection, AfterClose, Detaches
<1>9. ASSUME Close(p) PROVE PcInv'
  BY <1>9 DEF Close, Fail, AfterClose
<1>10. ASSUME p \in Connects, Snapshot(p) PROVE PcInv'
  BY <1>10 DEF Snapshot
<1>11. ASSUME p \in Connects, CheckCancelled(p) PROVE PcInv'
  BY <1>11 DEF CheckCancelled, Fail, WasCancelled
<1>12. ASSUME p \in Connects, PickConnection(p) PROVE PcInv'
  BY <1>12 DEF PickConnection
<1>13. ASSUME p \in Connects, Probe(p) PROVE PcInv'
  BY <1>13 DEF Probe
<1>14. ASSUME p \in Connects, Probed(p) PROVE PcInv'
  BY <1>14 DEF Probed, WasCancelled
<1>15. ASSUME p \in Connects, ClearStale(p) PROVE PcInv'
  BY <1>15 DEF ClearStale, Cleared
<1>16. ASSUME p \in Connects, CloseStale(p) PROVE PcInv'
  BY <1>16 DEF CloseStale
<1>17. ASSUME p \in Connects, OpenConnection(p) PROVE PcInv'
  BY <1>17 DEF OpenConnection, Fail
<1>18. ASSUME p \in Connects, CheckOpened(p) PROVE PcInv'
  BY <1>18 DEF CheckOpened, WasCancelled
<1>19. ASSUME p \in Connects, ClearOld(p) PROVE PcInv'
  BY <1>19 DEF ClearOld, Cleared
<1>20. ASSUME p \in Connects, DetachOld(p) PROVE PcInv'
  BY <1>20 DEF DetachOld, Fail
<1>21. ASSUME p \in Connects, CloseOld(p) PROVE PcInv'
  BY <1>21 DEF CloseOld
<1>22. ASSUME p \in Connects, CheckSwitched(p) PROVE PcInv'
  BY <1>22 DEF CheckSwitched, WasCancelled
<1>23. ASSUME p \in Connects, Store(p) PROVE PcInv'
  BY <1>23 DEF Store
<1>24. ASSUME p \in Connects, Abort(p) PROVE PcInv'
  BY <1>24 DEF Abort, Fail
<1>25. ASSUME p \in Connects, CheckGeneration(p) PROVE PcInv'
  BY <1>25 DEF CheckGeneration, Return
<1>26. ASSUME p \in Connects, Publish(p) PROVE PcInv'
  BY <1>26 DEF Publish, Return
<1>27. ASSUME p \in Disconnects, Cancel(p) PROVE PcInv'
  BY <1>27 DEF Cancel
<1>28. ASSUME p \in Disconnects, TryLock(p) PROVE PcInv'
  BY <1>28 DEF TryLock
<1>29. ASSUME p \in Disconnects, CheckKind(p) PROVE PcInv'
  BY <1>29 DEF CheckKind, CurrentOperation
<1>30. ASSUME p \in Disconnects, Detach(p) PROVE PcInv'
  BY <1>30 DEF Detach, Fail
<1>31. ASSUME p \in Requests \cup Interrupts, ReadConnection(p) PROVE PcInv'
  BY <1>31 DEF ReadConnection, Fail
<1>32. ASSUME Lock(p) PROVE PcInv'
  BY <1>32 DEF Lock
<1>33. ASSUME LockDisconnect(p) PROVE PcInv'
  BY <1>33 DEF LockDisconnect
<1>34. ASSUME Answer(p) PROVE PcInv'
  BY <1>34 DEF Answer, Fail
<1>35. ASSUME LinkFails(p) PROVE PcInv'
  BY <1>35 DEF LinkFails, Fail
<1> QED
  BY <1>1, <1>2, <1>3, <1>4, <1>5, <1>6, <1>7, <1>8, <1>9, <1>10, <1>11, <1>12,
     <1>13, <1>14, <1>15, <1>16, <1>17, <1>18, <1>19, <1>20, <1>21, <1>22,
     <1>23, <1>24, <1>25, <1>26, <1>27, <1>28, <1>29, <1>30, <1>31, <1>32,
     <1>33, <1>34, <1>35
     DEF ProcNext, Step, ConnectStep, DisconnectStep, Acquire

(* opMu changes hands only where the code locks and unlocks it.            *)
LEMMA LockStep ==
  ASSUME TypeOK, PcInv, LockInv, NEW p \in Procs, ProcNext(p)
  PROVE  LockInv'
<1> USE ControlManagerAssumption DEF Goto, Procs, manager, server, locals,
        TypeOK, PcInv, LockInv, ConnectCritical, ConnectOutside,
        RequestCritical, RequestOutside, DisconnectSteps, InterruptSteps
<1>1. ASSUME Receive(p) PROVE LockInv'
  BY <1>1 DEF Receive
<1>2. ASSUME Reply(p) PROVE LockInv'
  BY <1>2 DEF Reply, Return
<1>3. ASSUME PublishDown(p) PROVE LockInv'
  BY <1>3 DEF PublishDown, Return
<1>4. ASSUME Pend(p) PROVE LockInv'
  BY <1>4 DEF Pend, Kind
<1>5. ASSUME Activate(p) PROVE LockInv'
  BY <1>5 DEF Activate, Kind
<1>6. ASSUME End(p) PROVE LockInv'
  BY <1>6 DEF End
<1>7. ASSUME Unlock(p) PROVE LockInv'
  BY <1>7 DEF Unlock
<1>8. ASSUME TakeConnection(p) PROVE LockInv'
  BY <1>8 DEF TakeConnection, AfterClose, Detaches
<1>9. ASSUME Close(p) PROVE LockInv'
  BY <1>9 DEF Close, Fail, AfterClose
<1>10. ASSUME p \in Connects, Snapshot(p) PROVE LockInv'
  BY <1>10 DEF Snapshot
<1>11. ASSUME p \in Connects, CheckCancelled(p) PROVE LockInv'
  BY <1>11 DEF CheckCancelled, Fail, WasCancelled
<1>12. ASSUME p \in Connects, PickConnection(p) PROVE LockInv'
  BY <1>12 DEF PickConnection
<1>13. ASSUME p \in Connects, Probe(p) PROVE LockInv'
  BY <1>13 DEF Probe
<1>14. ASSUME p \in Connects, Probed(p) PROVE LockInv'
  BY <1>14 DEF Probed, WasCancelled
<1>15. ASSUME p \in Connects, ClearStale(p) PROVE LockInv'
  BY <1>15 DEF ClearStale, Cleared
<1>16. ASSUME p \in Connects, CloseStale(p) PROVE LockInv'
  BY <1>16 DEF CloseStale
<1>17. ASSUME p \in Connects, OpenConnection(p) PROVE LockInv'
  BY <1>17 DEF OpenConnection, Fail
<1>18. ASSUME p \in Connects, CheckOpened(p) PROVE LockInv'
  BY <1>18 DEF CheckOpened, WasCancelled
<1>19. ASSUME p \in Connects, ClearOld(p) PROVE LockInv'
  BY <1>19 DEF ClearOld, Cleared
<1>20. ASSUME p \in Connects, DetachOld(p) PROVE LockInv'
  BY <1>20 DEF DetachOld, Fail
<1>21. ASSUME p \in Connects, CloseOld(p) PROVE LockInv'
  BY <1>21 DEF CloseOld
<1>22. ASSUME p \in Connects, CheckSwitched(p) PROVE LockInv'
  BY <1>22 DEF CheckSwitched, WasCancelled
<1>23. ASSUME p \in Connects, Store(p) PROVE LockInv'
  BY <1>23 DEF Store
<1>24. ASSUME p \in Connects, Abort(p) PROVE LockInv'
  BY <1>24 DEF Abort, Fail
<1>25. ASSUME p \in Connects, CheckGeneration(p) PROVE LockInv'
  BY <1>25 DEF CheckGeneration, Return
<1>26. ASSUME p \in Connects, Publish(p) PROVE LockInv'
  BY <1>26 DEF Publish, Return
<1>27. ASSUME p \in Disconnects, Cancel(p) PROVE LockInv'
  BY <1>27 DEF Cancel
<1>28. ASSUME p \in Disconnects, TryLock(p) PROVE LockInv'
  BY <1>28 DEF TryLock
<1>29. ASSUME p \in Disconnects, CheckKind(p) PROVE LockInv'
  BY <1>29 DEF CheckKind, CurrentOperation
<1>30. ASSUME p \in Disconnects, Detach(p) PROVE LockInv'
  BY <1>30 DEF Detach, Fail
<1>31. ASSUME p \in Requests \cup Interrupts, ReadConnection(p) PROVE LockInv'
  BY <1>31 DEF ReadConnection, Fail
<1>32. ASSUME Lock(p) PROVE LockInv'
  BY <1>32 DEF Lock
<1>33. ASSUME LockDisconnect(p) PROVE LockInv'
  BY <1>33 DEF LockDisconnect
<1>34. ASSUME Answer(p) PROVE LockInv'
  BY <1>34 DEF Answer, Fail
<1>35. ASSUME LinkFails(p) PROVE LockInv'
  BY <1>35 DEF LinkFails, Fail
<1> QED
  BY <1>1, <1>2, <1>3, <1>4, <1>5, <1>6, <1>7, <1>8, <1>9, <1>10, <1>11, <1>12,
     <1>13, <1>14, <1>15, <1>16, <1>17, <1>18, <1>19, <1>20, <1>21, <1>22,
     <1>23, <1>24, <1>25, <1>26, <1>27, <1>28, <1>29, <1>30, <1>31, <1>32,
     <1>33, <1>34, <1>35
     DEF ProcNext, Step, ConnectStep, DisconnectStep, Acquire

(* m.opKind is changed by the holder of opMu only.                         *)
LEMMA KindStep ==
  ASSUME TypeOK, PcInv, LockInv, KindInv, NEW p \in Procs, ProcNext(p)
  PROVE  KindInv'
<1> USE ControlManagerAssumption DEF Goto, Procs, manager, server, locals,
        TypeOK, PcInv, LockInv, KindInv, ConnectCritical, ConnectOutside,
        RequestCritical, RequestOutside, DisconnectSteps, InterruptSteps
<1>1. ASSUME Receive(p) PROVE KindInv'
  BY <1>1 DEF Receive
<1>2. ASSUME Reply(p) PROVE KindInv'
  BY <1>2 DEF Reply, Return
<1>3. ASSUME PublishDown(p) PROVE KindInv'
  BY <1>3 DEF PublishDown, Return
<1>4. ASSUME Pend(p) PROVE KindInv'
  BY <1>4 DEF Pend, Kind
<1>5. ASSUME Activate(p) PROVE KindInv'
  BY <1>5 DEF Activate, Kind
<1>6. ASSUME End(p) PROVE KindInv'
  BY <1>6 DEF End
<1>7. ASSUME Unlock(p) PROVE KindInv'
  BY <1>7 DEF Unlock
<1>8. ASSUME TakeConnection(p) PROVE KindInv'
  BY <1>8 DEF TakeConnection, AfterClose, Detaches
<1>9. ASSUME Close(p) PROVE KindInv'
  BY <1>9 DEF Close, Fail, AfterClose
<1>10. ASSUME p \in Connects, Snapshot(p) PROVE KindInv'
  BY <1>10 DEF Snapshot
<1>11. ASSUME p \in Connects, CheckCancelled(p) PROVE KindInv'
  BY <1>11 DEF CheckCancelled, Fail, WasCancelled
<1>12. ASSUME p \in Connects, PickConnection(p) PROVE KindInv'
  BY <1>12 DEF PickConnection
<1>13. ASSUME p \in Connects, Probe(p) PROVE KindInv'
  BY <1>13 DEF Probe
<1>14. ASSUME p \in Connects, Probed(p) PROVE KindInv'
  BY <1>14 DEF Probed, WasCancelled
<1>15. ASSUME p \in Connects, ClearStale(p) PROVE KindInv'
  BY <1>15 DEF ClearStale, Cleared
<1>16. ASSUME p \in Connects, CloseStale(p) PROVE KindInv'
  BY <1>16 DEF CloseStale
<1>17. ASSUME p \in Connects, OpenConnection(p) PROVE KindInv'
  BY <1>17 DEF OpenConnection, Fail
<1>18. ASSUME p \in Connects, CheckOpened(p) PROVE KindInv'
  BY <1>18 DEF CheckOpened, WasCancelled
<1>19. ASSUME p \in Connects, ClearOld(p) PROVE KindInv'
  BY <1>19 DEF ClearOld, Cleared
<1>20. ASSUME p \in Connects, DetachOld(p) PROVE KindInv'
  BY <1>20 DEF DetachOld, Fail
<1>21. ASSUME p \in Connects, CloseOld(p) PROVE KindInv'
  BY <1>21 DEF CloseOld
<1>22. ASSUME p \in Connects, CheckSwitched(p) PROVE KindInv'
  BY <1>22 DEF CheckSwitched, WasCancelled
<1>23. ASSUME p \in Connects, Store(p) PROVE KindInv'
  BY <1>23 DEF Store
<1>24. ASSUME p \in Connects, Abort(p) PROVE KindInv'
  BY <1>24 DEF Abort, Fail
<1>25. ASSUME p \in Connects, CheckGeneration(p) PROVE KindInv'
  BY <1>25 DEF CheckGeneration, Return
<1>26. ASSUME p \in Connects, Publish(p) PROVE KindInv'
  BY <1>26 DEF Publish, Return
<1>27. ASSUME p \in Disconnects, Cancel(p) PROVE KindInv'
  BY <1>27 DEF Cancel
<1>28. ASSUME p \in Disconnects, TryLock(p) PROVE KindInv'
  BY <1>28 DEF TryLock
<1>29. ASSUME p \in Disconnects, CheckKind(p) PROVE KindInv'
  BY <1>29 DEF CheckKind, CurrentOperation
<1>30. ASSUME p \in Disconnects, Detach(p) PROVE KindInv'
  BY <1>30 DEF Detach, Fail
<1>31. ASSUME p \in Requests \cup Interrupts, ReadConnection(p) PROVE KindInv'
  BY <1>31 DEF ReadConnection, Fail
<1>32. ASSUME Lock(p) PROVE KindInv'
  BY <1>32 DEF Lock
<1>33. ASSUME LockDisconnect(p) PROVE KindInv'
  BY <1>33 DEF LockDisconnect
<1>34. ASSUME Answer(p) PROVE KindInv'
  BY <1>34 DEF Answer, Fail
<1>35. ASSUME LinkFails(p) PROVE KindInv'
  BY <1>35 DEF LinkFails, Fail
<1> QED
  BY <1>1, <1>2, <1>3, <1>4, <1>5, <1>6, <1>7, <1>8, <1>9, <1>10, <1>11, <1>12,
     <1>13, <1>14, <1>15, <1>16, <1>17, <1>18, <1>19, <1>20, <1>21, <1>22,
     <1>23, <1>24, <1>25, <1>26, <1>27, <1>28, <1>29, <1>30, <1>31, <1>32,
     <1>33, <1>34, <1>35
     DEF ProcNext, Step, ConnectStep, DisconnectStep, Acquire

(* Nobody closes a connection that is the manager's, or that its connect   *)
(* has yet to store.                                                       *)
LEMMA OwnerStep ==
  ASSUME IInv, NEW p \in Procs, ProcNext(p)
  PROVE  OwnerInv'
<1> USE ControlManagerAssumption DEF Goto, Procs, manager, server, locals,
        Conns, IInv, OwnerInv, TypeOK, PcInv, LockInv, PrivateInv, OpenedInv,
        ClosingInv, KnownInv, NoLeak, ConnectCritical, ConnectOutside,
        RequestCritical, RequestOutside, DisconnectSteps, InterruptSteps,
        BeforeStore, Opened, Closing
<1>1. ASSUME Receive(p) PROVE OwnerInv'
  BY <1>1 DEF Receive
<1>2. ASSUME Reply(p) PROVE OwnerInv'
  BY <1>2 DEF Reply, Return
<1>3. ASSUME PublishDown(p) PROVE OwnerInv'
  BY <1>3 DEF PublishDown, Return
<1>4. ASSUME Pend(p) PROVE OwnerInv'
  BY <1>4 DEF Pend, Kind
<1>5. ASSUME Activate(p) PROVE OwnerInv'
  BY <1>5 DEF Activate, Kind
<1>6. ASSUME End(p) PROVE OwnerInv'
  BY <1>6 DEF End
<1>7. ASSUME Unlock(p) PROVE OwnerInv'
  BY <1>7 DEF Unlock
<1>8. ASSUME TakeConnection(p) PROVE OwnerInv'
  BY <1>8 DEF TakeConnection, AfterClose, Detaches
<1>9. ASSUME Close(p) PROVE OwnerInv'
  BY <1>9 DEF Close, Fail, AfterClose
<1>10. ASSUME p \in Connects, Snapshot(p) PROVE OwnerInv'
  BY <1>10 DEF Snapshot
<1>11. ASSUME p \in Connects, CheckCancelled(p) PROVE OwnerInv'
  BY <1>11 DEF CheckCancelled, Fail, WasCancelled
<1>12. ASSUME p \in Connects, PickConnection(p) PROVE OwnerInv'
  BY <1>12 DEF PickConnection
<1>13. ASSUME p \in Connects, Probe(p) PROVE OwnerInv'
  BY <1>13 DEF Probe
<1>14. ASSUME p \in Connects, Probed(p) PROVE OwnerInv'
  BY <1>14 DEF Probed, WasCancelled
<1>15. ASSUME p \in Connects, ClearStale(p) PROVE OwnerInv'
  BY <1>15 DEF ClearStale, Cleared
<1>16. ASSUME p \in Connects, CloseStale(p) PROVE OwnerInv'
  BY <1>16 DEF CloseStale
<1>17. ASSUME p \in Connects, OpenConnection(p) PROVE OwnerInv'
  BY <1>17 DEF OpenConnection, Fail
<1>18. ASSUME p \in Connects, CheckOpened(p) PROVE OwnerInv'
  BY <1>18 DEF CheckOpened, WasCancelled
<1>19. ASSUME p \in Connects, ClearOld(p) PROVE OwnerInv'
  BY <1>19 DEF ClearOld, Cleared
<1>20. ASSUME p \in Connects, DetachOld(p) PROVE OwnerInv'
  BY <1>20 DEF DetachOld, Fail
<1>21. ASSUME p \in Connects, CloseOld(p) PROVE OwnerInv'
  BY <1>21 DEF CloseOld
<1>22. ASSUME p \in Connects, CheckSwitched(p) PROVE OwnerInv'
  BY <1>22 DEF CheckSwitched, WasCancelled
<1>23. ASSUME p \in Connects, Store(p) PROVE OwnerInv'
  BY <1>23 DEF Store
<1>24. ASSUME p \in Connects, Abort(p) PROVE OwnerInv'
  BY <1>24 DEF Abort, Fail
<1>25. ASSUME p \in Connects, CheckGeneration(p) PROVE OwnerInv'
  BY <1>25 DEF CheckGeneration, Return
<1>26. ASSUME p \in Connects, Publish(p) PROVE OwnerInv'
  BY <1>26 DEF Publish, Return
<1>27. ASSUME p \in Disconnects, Cancel(p) PROVE OwnerInv'
  BY <1>27 DEF Cancel
<1>28. ASSUME p \in Disconnects, TryLock(p) PROVE OwnerInv'
  BY <1>28 DEF TryLock
<1>29. ASSUME p \in Disconnects, CheckKind(p) PROVE OwnerInv'
  BY <1>29 DEF CheckKind, CurrentOperation
<1>30. ASSUME p \in Disconnects, Detach(p) PROVE OwnerInv'
  BY <1>30 DEF Detach, Fail
<1>31. ASSUME p \in Requests \cup Interrupts, ReadConnection(p) PROVE OwnerInv'
  BY <1>31 DEF ReadConnection, Fail
<1>32. ASSUME Lock(p) PROVE OwnerInv'
  BY <1>32 DEF Lock
<1>33. ASSUME LockDisconnect(p) PROVE OwnerInv'
  BY <1>33 DEF LockDisconnect
<1>34. ASSUME Answer(p) PROVE OwnerInv'
  BY <1>34 DEF Answer, Fail
<1>35. ASSUME LinkFails(p) PROVE OwnerInv'
  BY <1>35 DEF LinkFails, Fail
<1> QED
  BY <1>1, <1>2, <1>3, <1>4, <1>5, <1>6, <1>7, <1>8, <1>9, <1>10, <1>11, <1>12,
     <1>13, <1>14, <1>15, <1>16, <1>17, <1>18, <1>19, <1>20, <1>21, <1>22,
     <1>23, <1>24, <1>25, <1>26, <1>27, <1>28, <1>29, <1>30, <1>31, <1>32,
     <1>33, <1>34, <1>35
     DEF ProcNext, Step, ConnectStep, DisconnectStep, Acquire

(* An open connection changes from one holder to the next.                 *)
LEMMA LeakStep ==
  ASSUME IInv, NEW p \in Procs, ProcNext(p)
  PROVE  NoLeak'
<1> USE ControlManagerAssumption DEF Goto, Procs, manager, server, locals,
        Conns, IInv, OwnerInv, TypeOK, PcInv, LockInv, PrivateInv, OpenedInv,
        ClosingInv, KnownInv, NoLeak, Holds, ConnectCritical, ConnectOutside,
        RequestCritical, RequestOutside, DisconnectSteps, InterruptSteps,
        BeforeStore, Opened, Closing
<1>1. ASSUME Receive(p) PROVE NoLeak'
  BY <1>1 DEF Receive
<1>2. ASSUME Reply(p) PROVE NoLeak'
  BY <1>2 DEF Reply, Return
<1>3. ASSUME PublishDown(p) PROVE NoLeak'
  BY <1>3 DEF PublishDown, Return
<1>4. ASSUME Pend(p) PROVE NoLeak'
  BY <1>4 DEF Pend, Kind
<1>5. ASSUME Activate(p) PROVE NoLeak'
  BY <1>5 DEF Activate, Kind
<1>6. ASSUME End(p) PROVE NoLeak'
  BY <1>6 DEF End
<1>7. ASSUME Unlock(p) PROVE NoLeak'
  BY <1>7 DEF Unlock
<1>8. ASSUME TakeConnection(p) PROVE NoLeak'
  BY <1>8 DEF TakeConnection, AfterClose, Detaches
<1>9. ASSUME Close(p) PROVE NoLeak'
  BY <1>9 DEF Close, Fail, AfterClose
<1>10. ASSUME p \in Connects, Snapshot(p) PROVE NoLeak'
  BY <1>10 DEF Snapshot
<1>11. ASSUME p \in Connects, CheckCancelled(p) PROVE NoLeak'
  BY <1>11 DEF CheckCancelled, Fail, WasCancelled
<1>12. ASSUME p \in Connects, PickConnection(p) PROVE NoLeak'
  BY <1>12 DEF PickConnection
<1>13. ASSUME p \in Connects, Probe(p) PROVE NoLeak'
  BY <1>13 DEF Probe
<1>14. ASSUME p \in Connects, Probed(p) PROVE NoLeak'
  BY <1>14 DEF Probed, WasCancelled
<1>15. ASSUME p \in Connects, ClearStale(p) PROVE NoLeak'
  BY <1>15 DEF ClearStale, Cleared
<1>16. ASSUME p \in Connects, CloseStale(p) PROVE NoLeak'
  BY <1>16 DEF CloseStale
<1>17. ASSUME p \in Connects, OpenConnection(p) PROVE NoLeak'
  BY <1>17 DEF OpenConnection, Fail
<1>18. ASSUME p \in Connects, CheckOpened(p) PROVE NoLeak'
  BY <1>18 DEF CheckOpened, WasCancelled
<1>19. ASSUME p \in Connects, ClearOld(p) PROVE NoLeak'
  BY <1>19 DEF ClearOld, Cleared
<1>20. ASSUME p \in Connects, DetachOld(p) PROVE NoLeak'
  BY <1>20 DEF DetachOld, Fail
<1>21. ASSUME p \in Connects, CloseOld(p) PROVE NoLeak'
  BY <1>21 DEF CloseOld
<1>22. ASSUME p \in Connects, CheckSwitched(p) PROVE NoLeak'
  BY <1>22 DEF CheckSwitched, WasCancelled
<1>23. ASSUME p \in Connects, Store(p) PROVE NoLeak'
  BY <1>23 DEF Store
<1>24. ASSUME p \in Connects, Abort(p) PROVE NoLeak'
  BY <1>24 DEF Abort, Fail
<1>25. ASSUME p \in Connects, CheckGeneration(p) PROVE NoLeak'
  BY <1>25 DEF CheckGeneration, Return
<1>26. ASSUME p \in Connects, Publish(p) PROVE NoLeak'
  BY <1>26 DEF Publish, Return
<1>27. ASSUME p \in Disconnects, Cancel(p) PROVE NoLeak'
  BY <1>27 DEF Cancel
<1>28. ASSUME p \in Disconnects, TryLock(p) PROVE NoLeak'
  BY <1>28 DEF TryLock
<1>29. ASSUME p \in Disconnects, CheckKind(p) PROVE NoLeak'
  BY <1>29 DEF CheckKind, CurrentOperation
<1>30. ASSUME p \in Disconnects, Detach(p) PROVE NoLeak'
  BY <1>30 DEF Detach, Fail
<1>31. ASSUME p \in Requests \cup Interrupts, ReadConnection(p) PROVE NoLeak'
  BY <1>31 DEF ReadConnection, Fail
<1>32. ASSUME Lock(p) PROVE NoLeak'
  BY <1>32 DEF Lock
<1>33. ASSUME LockDisconnect(p) PROVE NoLeak'
  BY <1>33 DEF LockDisconnect
<1>34. ASSUME Answer(p) PROVE NoLeak'
  BY <1>34 DEF Answer, Fail
<1>35. ASSUME LinkFails(p) PROVE NoLeak'
  BY <1>35 DEF LinkFails, Fail
<1> QED
  BY <1>1, <1>2, <1>3, <1>4, <1>5, <1>6, <1>7, <1>8, <1>9, <1>10, <1>11, <1>12,
     <1>13, <1>14, <1>15, <1>16, <1>17, <1>18, <1>19, <1>20, <1>21, <1>22,
     <1>23, <1>24, <1>25, <1>26, <1>27, <1>28, <1>29, <1>30, <1>31, <1>32,
     <1>33, <1>34, <1>35
     DEF ProcNext, Step, ConnectStep, DisconnectStep, Acquire

(* A disconnect can only take the connection after every connect that was  *)
(* past its last look at the cancel counter has stored its own.            *)
LEMMA CancelStep ==
  ASSUME IInv, NEW p \in Procs, ProcNext(p)
  PROVE  CancelInv'
<1> USE ControlManagerAssumption DEF Goto, Procs, manager, server, locals,
        Conns, IInv, OwnerInv, TypeOK, PcInv, LockInv, KindInv, PrivateInv,
        KnownInv, CancelInv, AfterTake, Cancels, ConnectCritical,
        ConnectOutside, RequestCritical, RequestOutside, DisconnectSteps,
        InterruptSteps, BeforeStore
<1>1. ASSUME Receive(p) PROVE CancelInv'
  BY <1>1 DEF Receive
<1>2. ASSUME Reply(p) PROVE CancelInv'
  BY <1>2 DEF Reply, Return
<1>3. ASSUME PublishDown(p) PROVE CancelInv'
  BY <1>3 DEF PublishDown, Return
<1>4. ASSUME Pend(p) PROVE CancelInv'
  BY <1>4 DEF Pend, Kind
<1>5. ASSUME Activate(p) PROVE CancelInv'
  BY <1>5 DEF Activate, Kind
<1>6. ASSUME End(p) PROVE CancelInv'
  BY <1>6 DEF End
<1>7. ASSUME Unlock(p) PROVE CancelInv'
  BY <1>7 DEF Unlock
<1>8. ASSUME TakeConnection(p) PROVE CancelInv'
  BY <1>8 DEF TakeConnection, AfterClose, Detaches
<1>9. ASSUME Close(p) PROVE CancelInv'
  BY <1>9 DEF Close, Fail, AfterClose
<1>10. ASSUME p \in Connects, Snapshot(p) PROVE CancelInv'
  BY <1>10 DEF Snapshot
<1>11. ASSUME p \in Connects, CheckCancelled(p) PROVE CancelInv'
  BY <1>11 DEF CheckCancelled, Fail, WasCancelled
<1>12. ASSUME p \in Connects, PickConnection(p) PROVE CancelInv'
  BY <1>12 DEF PickConnection
<1>13. ASSUME p \in Connects, Probe(p) PROVE CancelInv'
  BY <1>13 DEF Probe
<1>14. ASSUME p \in Connects, Probed(p) PROVE CancelInv'
  BY <1>14 DEF Probed, WasCancelled
<1>15. ASSUME p \in Connects, ClearStale(p) PROVE CancelInv'
  BY <1>15 DEF ClearStale, Cleared
<1>16. ASSUME p \in Connects, CloseStale(p) PROVE CancelInv'
  BY <1>16 DEF CloseStale
<1>17. ASSUME p \in Connects, OpenConnection(p) PROVE CancelInv'
  BY <1>17 DEF OpenConnection, Fail
<1>18. ASSUME p \in Connects, CheckOpened(p) PROVE CancelInv'
  BY <1>18 DEF CheckOpened, WasCancelled
<1>19. ASSUME p \in Connects, ClearOld(p) PROVE CancelInv'
  BY <1>19 DEF ClearOld, Cleared
<1>20. ASSUME p \in Connects, DetachOld(p) PROVE CancelInv'
  BY <1>20 DEF DetachOld, Fail
<1>21. ASSUME p \in Connects, CloseOld(p) PROVE CancelInv'
  BY <1>21 DEF CloseOld
<1>22. ASSUME p \in Connects, CheckSwitched(p) PROVE CancelInv'
  BY <1>22 DEF CheckSwitched, WasCancelled
<1>23. ASSUME p \in Connects, Store(p) PROVE CancelInv'
  BY <1>23 DEF Store
<1>24. ASSUME p \in Connects, Abort(p) PROVE CancelInv'
  BY <1>24 DEF Abort, Fail
<1>25. ASSUME p \in Connects, CheckGeneration(p) PROVE CancelInv'
  BY <1>25 DEF CheckGeneration, Return
<1>26. ASSUME p \in Connects, Publish(p) PROVE CancelInv'
  BY <1>26 DEF Publish, Return
<1>27. ASSUME p \in Disconnects, Cancel(p) PROVE CancelInv'
  BY <1>27 DEF Cancel
<1>28. ASSUME p \in Disconnects, TryLock(p) PROVE CancelInv'
  BY <1>28 DEF TryLock
<1>29. ASSUME p \in Disconnects, CheckKind(p) PROVE CancelInv'
  BY <1>29 DEF CheckKind, CurrentOperation
<1>30. ASSUME p \in Disconnects, Detach(p) PROVE CancelInv'
  BY <1>30 DEF Detach, Fail
<1>31. ASSUME p \in Requests \cup Interrupts, ReadConnection(p)
      PROVE CancelInv'
  BY <1>31 DEF ReadConnection, Fail
<1>32. ASSUME Lock(p) PROVE CancelInv'
  BY <1>32 DEF Lock
<1>33. ASSUME LockDisconnect(p) PROVE CancelInv'
  BY <1>33 DEF LockDisconnect
<1>34. ASSUME Answer(p) PROVE CancelInv'
  BY <1>34 DEF Answer, Fail
<1>35. ASSUME LinkFails(p) PROVE CancelInv'
  BY <1>35 DEF LinkFails, Fail
<1> QED
  BY <1>1, <1>2, <1>3, <1>4, <1>5, <1>6, <1>7, <1>8, <1>9, <1>10, <1>11, <1>12,
     <1>13, <1>14, <1>15, <1>16, <1>17, <1>18, <1>19, <1>20, <1>21, <1>22,
     <1>23, <1>24, <1>25, <1>26, <1>27, <1>28, <1>29, <1>30, <1>31, <1>32,
     <1>33, <1>34, <1>35
     DEF ProcNext, Step, ConnectStep, DisconnectStep, Acquire

(* A request that is received, or a disconnect that cancels, is one more.  *)
LEMMA CountOne ==
  ASSUME NEW S, IsFiniteSet(S), NEW x, x \notin S
  PROVE  Cardinality(S \cup {x}) = Cardinality(S) + 1
BY FS_AddElement

(* The counters count where the code does, and nowhere else.               *)
LEMMA CountStep ==
  ASSUME TypeOK, PcInv, CountInv, NEW p \in Procs, ProcNext(p)
  PROVE  CountInv'
<1> USE ControlManagerAssumption DEF Goto, Procs, manager, server, locals,
        TypeOK, PcInv, CountInv, Received, Cancelling, ConnectCritical,
        ConnectOutside, RequestCritical, RequestOutside, DisconnectSteps,
        InterruptSteps
<1>1. ASSUME Receive(p) PROVE CountInv'
  <2>1. CASE p \in Connects \cup Disconnects
    <3>1. Received' = Received \cup {p} /\ p \notin Received
      BY <1>1, <2>1 DEF Receive
    <3>2. Cancelling' = Cancelling
      BY <1>1, <2>1 DEF Receive
    <3>3. IsFiniteSet(Received)
      BY CountBounds
    <3> HIDE DEF Received, Cancelling
    <3> QED
      BY <1>1, <2>1, <3>1, <3>2, <3>3, CountOne DEF Receive
  <2>2. CASE p \notin Connects \cup Disconnects
    <3>1. Received' = Received /\ Cancelling' = Cancelling
      BY <1>1, <2>2 DEF Receive
    <3> HIDE DEF Received, Cancelling
    <3> QED
      BY <1>1, <2>2, <3>1 DEF Receive
  <2> QED
    BY <2>1, <2>2
<1>2. ASSUME Reply(p) PROVE CountInv'
  <2>1. Received' = Received /\ Cancelling' = Cancelling
    BY <1>2 DEF Reply, Return
  <2> HIDE DEF Received, Cancelling
  <2> QED
    BY <1>2, <2>1 DEF Reply, Return
<1>3. ASSUME PublishDown(p) PROVE CountInv'
  BY <1>3 DEF PublishDown, Return
<1>4. ASSUME Pend(p) PROVE CountInv'
  BY <1>4 DEF Pend, Kind
<1>5. ASSUME Activate(p) PROVE CountInv'
  BY <1>5 DEF Activate, Kind
<1>6. ASSUME End(p) PROVE CountInv'
  BY <1>6 DEF End
<1>7. ASSUME Unlock(p) PROVE CountInv'
  BY <1>7 DEF Unlock
<1>8. ASSUME TakeConnection(p) PROVE CountInv'
  BY <1>8 DEF TakeConnection, AfterClose, Detaches
<1>9. ASSUME Close(p) PROVE CountInv'
  BY <1>9 DEF Close, Fail, AfterClose
<1>10. ASSUME p \in Connects, Snapshot(p) PROVE CountInv'
  BY <1>10 DEF Snapshot
<1>11. ASSUME p \in Connects, CheckCancelled(p) PROVE CountInv'
  BY <1>11 DEF CheckCancelled, Fail, WasCancelled
<1>12. ASSUME p \in Connects, PickConnection(p) PROVE CountInv'
  BY <1>12 DEF PickConnection
<1>13. ASSUME p \in Connects, Probe(p) PROVE CountInv'
  BY <1>13 DEF Probe
<1>14. ASSUME p \in Connects, Probed(p) PROVE CountInv'
  BY <1>14 DEF Probed, WasCancelled
<1>15. ASSUME p \in Connects, ClearStale(p) PROVE CountInv'
  BY <1>15 DEF ClearStale, Cleared
<1>16. ASSUME p \in Connects, CloseStale(p) PROVE CountInv'
  BY <1>16 DEF CloseStale
<1>17. ASSUME p \in Connects, OpenConnection(p) PROVE CountInv'
  BY <1>17 DEF OpenConnection, Fail
<1>18. ASSUME p \in Connects, CheckOpened(p) PROVE CountInv'
  BY <1>18 DEF CheckOpened, WasCancelled
<1>19. ASSUME p \in Connects, ClearOld(p) PROVE CountInv'
  BY <1>19 DEF ClearOld, Cleared
<1>20. ASSUME p \in Connects, DetachOld(p) PROVE CountInv'
  BY <1>20 DEF DetachOld, Fail
<1>21. ASSUME p \in Connects, CloseOld(p) PROVE CountInv'
  BY <1>21 DEF CloseOld
<1>22. ASSUME p \in Connects, CheckSwitched(p) PROVE CountInv'
  BY <1>22 DEF CheckSwitched, WasCancelled
<1>23. ASSUME p \in Connects, Store(p) PROVE CountInv'
  BY <1>23 DEF Store
<1>24. ASSUME p \in Connects, Abort(p) PROVE CountInv'
  BY <1>24 DEF Abort, Fail
<1>25. ASSUME p \in Connects, CheckGeneration(p) PROVE CountInv'
  <2>1. Received' = Received /\ Cancelling' = Cancelling
    BY <1>25 DEF CheckGeneration, Return
  <2> HIDE DEF Received, Cancelling
  <2> QED
    BY <1>25, <2>1 DEF CheckGeneration, Return
<1>26. ASSUME p \in Connects, Publish(p) PROVE CountInv'
  BY <1>26 DEF Publish, Return
<1>27. ASSUME p \in Disconnects, Cancel(p) PROVE CountInv'
  <2>1. Cancelling' = Cancelling \cup {p} /\ p \notin Cancelling
    BY <1>27 DEF Cancel
  <2>2. Received' = Received /\ connectCancel' = connectCancel + 1
    BY <1>27 DEF Cancel
  <2>3. IsFiniteSet(Cancelling)
    BY CountBounds
  <2> HIDE DEF Received, Cancelling
  <2> QED
    BY <1>27, <2>1, <2>2, <2>3, CountOne DEF Cancel
<1>28. ASSUME p \in Disconnects, TryLock(p) PROVE CountInv'
  BY <1>28 DEF TryLock
<1>29. ASSUME p \in Disconnects, CheckKind(p) PROVE CountInv'
  BY <1>29 DEF CheckKind, CurrentOperation
<1>30. ASSUME p \in Disconnects, Detach(p) PROVE CountInv'
  BY <1>30 DEF Detach, Fail
<1>31. ASSUME p \in Requests \cup Interrupts, ReadConnection(p) PROVE CountInv'
  BY <1>31 DEF ReadConnection, Fail
<1>32. ASSUME Lock(p) PROVE CountInv'
  BY <1>32 DEF Lock
<1>33. ASSUME LockDisconnect(p) PROVE CountInv'
  BY <1>33 DEF LockDisconnect
<1>34. ASSUME Answer(p) PROVE CountInv'
  BY <1>34 DEF Answer, Fail
<1>35. ASSUME LinkFails(p) PROVE CountInv'
  BY <1>35 DEF LinkFails, Fail
<1> QED
  BY <1>1, <1>2, <1>3, <1>4, <1>5, <1>6, <1>7, <1>8, <1>9, <1>10, <1>11, <1>12,
     <1>13, <1>14, <1>15, <1>16, <1>17, <1>18, <1>19, <1>20, <1>21, <1>22,
     <1>23, <1>24, <1>25, <1>26, <1>27, <1>28, <1>29, <1>30, <1>31, <1>32,
     <1>33, <1>34, <1>35
     DEF ProcNext, Step, ConnectStep, DisconnectStep, Acquire

(* A goroutine that has returned has no generation.                        *)
LEMMA NoGeneration == 0 \in Generations
BY CountBounds, FS_EmptySet

(* Boolean results of the backend calls.                                   *)
LEMMA FailType ==
  ASSUME failed \in [Procs -> BOOLEAN], NEW p \in Procs, NEW b \in BOOLEAN
  PROVE  [failed EXCEPT ![p] = b] \in [Procs -> BOOLEAN]
OBVIOUS

(* All variables keep their types.                                         *)
LEMMA TypeStep ==
  ASSUME IInv, generation' \in Generations, connectCancel' \in Cancels, NEW p \in Procs, ProcNext(p)
  PROVE  TypeOK'
<1> USE ControlManagerAssumption DEF Goto, Procs, manager, server, locals,
        Conns, IInv, TypeOK, PcInv, OpKinds, Steps, ConnectCritical,
        ConnectOutside, RequestCritical, RequestOutside, DisconnectSteps,
        InterruptSteps
<1>1. ASSUME Receive(p) PROVE TypeOK'
  BY <1>1 DEF Receive
<1>2. ASSUME Reply(p) PROVE TypeOK'
  <2>1. failed' \in [Procs -> BOOLEAN]
    BY <1>2, FailType DEF Reply, Return
  <2> QED
    BY <1>2, <2>1, NoGeneration DEF Reply, Return
<1>3. ASSUME PublishDown(p) PROVE TypeOK'
  <2>1. failed' \in [Procs -> BOOLEAN]
    BY <1>3, FailType DEF PublishDown, Return
  <2> QED
    BY <1>3, <2>1, NoGeneration DEF PublishDown, Return
<1>4. ASSUME Pend(p) PROVE TypeOK'
  BY <1>4 DEF Pend, Kind
<1>5. ASSUME Activate(p) PROVE TypeOK'
  BY <1>5 DEF Activate, Kind
<1>6. ASSUME End(p) PROVE TypeOK'
  BY <1>6 DEF End
<1>7. ASSUME Unlock(p) PROVE TypeOK'
  BY <1>7 DEF Unlock
<1>8. ASSUME TakeConnection(p) PROVE TypeOK'
  BY <1>8 DEF TakeConnection, AfterClose, Detaches
<1>9. ASSUME Close(p) PROVE TypeOK'
  <2>1. failed' \in [Procs -> BOOLEAN]
    BY <1>9, FailType DEF Close, Fail, AfterClose
  <2> QED
    BY <1>9, <2>1 DEF Close, AfterClose
<1>10. ASSUME p \in Connects, Snapshot(p) PROVE TypeOK'
  BY <1>10 DEF Snapshot
<1>11. ASSUME p \in Connects, CheckCancelled(p) PROVE TypeOK'
  <2>1. failed' \in [Procs -> BOOLEAN]
    BY <1>11, FailType DEF CheckCancelled, Fail, WasCancelled
  <2> QED
    BY <1>11, <2>1 DEF CheckCancelled, WasCancelled
<1>12. ASSUME p \in Connects, PickConnection(p) PROVE TypeOK'
  BY <1>12 DEF PickConnection
<1>13. ASSUME p \in Connects, Probe(p) PROVE TypeOK'
  BY <1>13 DEF Probe
<1>14. ASSUME p \in Connects, Probed(p) PROVE TypeOK'
  BY <1>14 DEF Probed, WasCancelled
<1>15. ASSUME p \in Connects, ClearStale(p) PROVE TypeOK'
  BY <1>15 DEF ClearStale, Cleared
<1>16. ASSUME p \in Connects, CloseStale(p) PROVE TypeOK'
  BY <1>16 DEF CloseStale
<1>17. ASSUME p \in Connects, OpenConnection(p) PROVE TypeOK'
  <2>1. failed' \in [Procs -> BOOLEAN]
    BY <1>17, FailType DEF OpenConnection, Fail
  <2> QED
    BY <1>17, <2>1 DEF OpenConnection
<1>18. ASSUME p \in Connects, CheckOpened(p) PROVE TypeOK'
  BY <1>18 DEF CheckOpened, WasCancelled
<1>19. ASSUME p \in Connects, ClearOld(p) PROVE TypeOK'
  BY <1>19 DEF ClearOld, Cleared
<1>20. ASSUME p \in Connects, DetachOld(p) PROVE TypeOK'
  <2>1. failed' \in [Procs -> BOOLEAN]
    BY <1>20, FailType DEF DetachOld, Fail
  <2> QED
    BY <1>20, <2>1 DEF DetachOld
<1>21. ASSUME p \in Connects, CloseOld(p) PROVE TypeOK'
  BY <1>21 DEF CloseOld
<1>22. ASSUME p \in Connects, CheckSwitched(p) PROVE TypeOK'
  BY <1>22 DEF CheckSwitched, WasCancelled
<1>23. ASSUME p \in Connects, Store(p) PROVE TypeOK'
  BY <1>23 DEF Store
<1>24. ASSUME p \in Connects, Abort(p) PROVE TypeOK'
  BY <1>24 DEF Abort, Fail
<1>25. ASSUME p \in Connects, CheckGeneration(p) PROVE TypeOK'
  <2>1. failed' \in [Procs -> BOOLEAN]
    BY <1>25, FailType DEF CheckGeneration, Return
  <2> QED
    BY <1>25, <2>1, NoGeneration DEF CheckGeneration, Return
<1>26. ASSUME p \in Connects, Publish(p) PROVE TypeOK'
  <2>1. failed' \in [Procs -> BOOLEAN]
    BY <1>26, FailType DEF Publish, Return
  <2> QED
    BY <1>26, <2>1, NoGeneration DEF Publish, Return
<1>27. ASSUME p \in Disconnects, Cancel(p) PROVE TypeOK'
  BY <1>27 DEF Cancel
<1>28. ASSUME p \in Disconnects, TryLock(p) PROVE TypeOK'
  BY <1>28 DEF TryLock
<1>29. ASSUME p \in Disconnects, CheckKind(p) PROVE TypeOK'
  BY <1>29 DEF CheckKind, CurrentOperation
<1>30. ASSUME p \in Disconnects, Detach(p) PROVE TypeOK'
  <2>1. failed' \in [Procs -> BOOLEAN]
    BY <1>30, FailType DEF Detach, Fail
  <2> QED
    BY <1>30, <2>1 DEF Detach
<1>31. ASSUME p \in Requests \cup Interrupts, ReadConnection(p) PROVE TypeOK'
  <2>1. failed' \in [Procs -> BOOLEAN]
    BY <1>31, FailType DEF ReadConnection, Fail
  <2> QED
    BY <1>31, <2>1 DEF ReadConnection
<1>32. ASSUME Lock(p) PROVE TypeOK'
  BY <1>32 DEF Lock
<1>33. ASSUME LockDisconnect(p) PROVE TypeOK'
  BY <1>33 DEF LockDisconnect
<1>34. ASSUME Answer(p) PROVE TypeOK'
  <2>1. failed' \in [Procs -> BOOLEAN]
    BY <1>34, FailType DEF Answer, Fail
  <2> QED
    BY <1>34, <2>1 DEF Answer
<1>35. ASSUME LinkFails(p) PROVE TypeOK'
  BY <1>35 DEF LinkFails, Fail
<1> QED
  BY <1>1, <1>2, <1>3, <1>4, <1>5, <1>6, <1>7, <1>8, <1>9, <1>10, <1>11, <1>12,
     <1>13, <1>14, <1>15, <1>16, <1>17, <1>18, <1>19, <1>20, <1>21, <1>22,
     <1>23, <1>24, <1>25, <1>26, <1>27, <1>28, <1>29, <1>30, <1>31, <1>32,
     <1>33, <1>34, <1>35
     DEF ProcNext, Step, ConnectStep, DisconnectStep, Acquire

----------------------------------------------------------------------------
(* The invariant holds at the start ...                                    *)
LEMMA InitInv == Init => IInv
<1> SUFFICES ASSUME Init PROVE IInv
  OBVIOUS
<1> USE ControlManagerAssumption DEF Init
<1>1. Received = {} /\ Cancelling = {}
  BY DEF Received, Cancelling, Procs
<1>2. CountInv
  BY <1>1, FS_EmptySet DEF CountInv
<1>3. failed \in [Procs -> BOOLEAN]
  OBVIOUS
<1>4. TypeOK
  BY <1>2, <1>3, CountTypes DEF TypeOK, Conns, OpKinds, Steps
<1>5. PcInv /\ LockInv /\ KindInv
  BY DEF PcInv, LockInv, KindInv, Procs, ConnectCritical, ConnectOutside,
         RequestCritical, RequestOutside, DisconnectSteps, InterruptSteps
<1>6. OwnerInv
  BY DEF OwnerInv, PrivateInv, OpenedInv, ClosingInv, KnownInv, Procs, Opened, Closing
<1>7. CancelInv /\ NoLeak
  BY DEF CancelInv, NoLeak, AfterTake, Procs
<1> QED
  BY <1>2, <1>4, <1>5, <1>6, <1>7 DEF IInv

(* ... and every step of every goroutine keeps it.                         *)
LEMMA StepInv == IInv /\ [Next]_vars => IInv'
<1> SUFFICES ASSUME IInv, [Next]_vars PROVE IInv'
  OBVIOUS
<1>1. ASSUME NEW p \in Procs, ProcNext(p) PROVE IInv'
  <2>1. PcInv' /\ LockInv' /\ KindInv'
    BY <1>1, PcStep, LockStep, KindStep DEF IInv
  <2>2. OwnerInv'
    BY <1>1, OwnerStep
  <2>3. CancelInv' /\ NoLeak'
    BY <1>1, CancelStep, LeakStep
  <2>4. CountInv'
    BY <1>1, CountStep DEF IInv
  <2>5. generation' \in Generations /\ connectCancel' \in Cancels
    BY <2>4, CountBounds DEF CountInv, Received, Cancelling
  <2>6. TypeOK'
    BY <1>1, <2>5, TypeStep
  <2> QED
    BY <2>1, <2>2, <2>3, <2>4, <2>6 DEF IInv
<1>2. CASE UNCHANGED vars
  BY <1>2 DEF vars, manager, server, locals, IInv, TypeOK, PcInv, LockInv, KindInv,
              OwnerInv, PrivateInv, OpenedInv, ClosingInv, KnownInv, CancelInv, CountInv,
              Received, Cancelling, NoLeak, Holds
<1> QED
  BY <1>1, <1>2 DEF Next, ProcNext

LEMMA Invariance == Spec => []IInv
BY InitInv, StepInv, PTL DEF Spec

----------------------------------------------------------------------------
(* However connects, disconnects, interrupts and failures of any number of *)
(* requests interleave in manager.go, every open transport is the          *)
(* manager's, or somebody is about to close or to store it; and the        *)
(* manager's is open.                                                      *)
THEOREM NoPortLeaks == Spec => []NoLeak
<1>1. IInv => NoLeak
  BY DEF IInv
<1> QED
  BY <1>1, Invariance, PTL

(* No two goroutines ever exchange frames on one session: those that do    *)
(* hold opMu, also against a disconnect that does not wait for it.         *)
THEOREM ExchangesExclude == Spec => []OneExchange
<1>1. IInv => OneExchange
  BY ControlManagerAssumption
     DEF IInv, OneExchange, Exchanges, PcInv, LockInv, Procs, ConnectCritical,
         ConnectOutside, RequestCritical, RequestOutside, DisconnectSteps,
         InterruptSteps
<1> QED
  BY <1>1, Invariance, PTL

(* After Manager.Disconnect has returned the manager has no connection of  *)
(* a connect that began before it.                                         *)
THEOREM DisconnectsWin == Spec => []DisconnectWins
<1>1. IInv => DisconnectWins
  BY DEF IInv, CancelInv, DisconnectWins, AfterTake
<1> QED
  BY <1>1, Invariance, PTL

(* The types of all variables, and that nobody returns with opMu or waits  *)
(* for it while holding it.                                                *)
THEOREM HoldersRun == Spec => []HolderRuns
<1>1. IInv => HolderRuns
  BY ControlManagerAssumption
     DEF IInv, HolderRuns, TypeOK, PcInv, LockInv, Procs, ConnectCritical,
         ConnectOutside, RequestCritical, RequestOutside, DisconnectSteps,
         InterruptSteps
<1> QED
  BY <1>1, Invariance, PTL

(* A request with a fatal session error closes the connection it failed on *)
(* or none, never one that was opened meanwhile.                           *)
THEOREM FailuresStayLocal == Spec => FailsOnlyItsOwn
<1>1. IInv /\ [Next]_vars =>
        [\A p \in Requests :
           pc[p] = "fatal" /\ pc'[p] # "fatal" => conn \in {None, mine[p]}]_vars
  BY DEF IInv, OwnerInv, KnownInv
<1> QED
  BY <1>1, Invariance, PTL DEF Spec, FailsOnlyItsOwn
=============================================================================
