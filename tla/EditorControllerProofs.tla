----------------------- MODULE EditorControllerProofs -----------------------
(***************************************************************************)
(* Proofs about EditorController for every number of commands, clients and *)
(* forms, and every plan of commands.                                      *)
(*                                                                         *)
(* The five properties are one argument.  A command that awaits comes back *)
(* to a controller that others have changed; it knows by its generation    *)
(* and its attempt whether they have.  Local says, label by label, what an *)
(* unchanged stamp still promises, and LocalKept that no step of anybody   *)
(* else can break the promise without a new stamp.  The actions then fall  *)
(* into a few kinds: those that keep the client (Changes), those that give *)
(* it up under new stamps (Supersedes), those that kill a client nobody    *)
(* uses (KillStep), and the ones around the birth of a client.  That who    *)
(* was superseded changes nothing shown (SupersededIsQuiet) follows action *)
(* by action from the comparisons the code makes when it goes on (Alters). *)
(***************************************************************************)
EXTENDS EditorController, FiniteSetTheorems, TLAPS

(* The types, with the counters unbounded and the fields of a command that *)
(* TypeOK leaves out.                                                      *)
EditorType ==
  [client : {None} \cup Clients, closing : {None} \cup Clients,
   state : ConnectionState, device : {None} \cup Clients,
   running : Nat, waiters : SUBSET Commands, gen : Nat, attempt : Nat]

HelperType ==
  [proc : {"none", "starting", "up", "gone"}, disposed : BOOLEAN, gen : Nat,
   linked : BOOLEAN, owes : BOOLEAN, retired : BOOLEAN]

AnswerType == ResponseCodes \cup {"wait", "up", "failed", "yes", "no", "timeout"}

CommandType ==
  [kind : Kinds \cup {"none"}, at : Labels, held : {None} \cup Clients,
   gen : Nat, attempt : Nat, port : {"none", "stored", "picked"},
   ans : AnswerType, note : {"none", "up", "down"}, left : 0..Forms,
   wait : SUBSET Clients, cleared : {None} \cup Clients]

TypeInv ==
  /\ ed \in EditorType
  /\ helper \in [Clients -> HelperType]
  /\ cmd \in [Commands -> CommandType]

(* Where a command holds a client: held is not None there.                 *)
Holding == HelperRequests \cup {"starting", "request", "storing", "picking", "warned",
                                "preparing", "settling", "unsettled", "additive", "forms"}
(* Where a command carries the stamp of a connect attempt.                 *)
Attempting == {"ensure", "starting", "stale", "request", "connecting", "storing", "picking"}
(* Where a connect is under way on the client it asked.                    *)
OnTheWay == {"connecting", "storing", "picking"}

(* The controller and its clients.  The client in use runs, was not        *)
(* disposed of, has the generation of the moment, and none is closing      *)
(* beside it; a device is one of these two; a retired client is a disposed *)
(* one.                                                                    *)
Core(e, h) ==
  /\ e.client # None => /\ h[e.client].proc = "up" /\ ~h[e.client].disposed
                        /\ h[e.client].gen = e.gen /\ e.closing = None
  /\ e.closing # None => h[e.closing].proc \in {"up", "gone"}
  /\ e.device # None => e.device \in {e.client, e.closing}
  /\ e.closing # None /\ h[e.closing].retired => e.device = None
  /\ \A c \in Clients : h[c].retired => h[c].disposed

(* One command against the controller: whoever carries the generation of   *)
(* the moment across an await finds no newer client and none that is       *)
(* closing; whoever is detaching holds the closing client under that       *)
(* generation, or one that nobody knows any more; the newest attempt is    *)
(* never answered by another client than the one in use; the forms go      *)
(* where the reset went.                                                   *)
Local(k, e, h) ==
  /\ k.at = "unborn" => k.kind \in Kinds
  /\ k.at \in Holding => k.held # None
  /\ k.at \in Attempting => k.attempt # 0
  /\ k.at \in {"closed", "stopped", "starting"} /\ k.gen = e.gen => e.closing = None
  /\ k.at \in {"check", "ensure"} => e.closing = None
  /\ k.at = "ensure" => e.state # "running" /\ k.attempt = e.attempt
  /\ k.at = "request" => k.held = e.client
  /\ k.at = "starting" =>
       /\ k.held \notin {e.client, e.closing, e.device}
       /\ k.ans # "failed" => ~h[k.held].disposed /\ h[k.held].gen = k.gen
       /\ h[k.held].proc # "none"
       /\ k.ans = "wait" => h[k.held].proc = "starting"
       /\ k.ans = "up" => h[k.held].proc = "up"
       /\ k.gen = e.gen => e.client = None /\ e.state # "running"
  /\ k.at = "detaching" => h[k.held].proc \in {"up", "gone"}
  /\ k.at \in {"detaching", "detached"} =>
       /\ k.held # None /\ k.held # e.client
       /\ e.closing = k.held => k.gen = e.gen
  /\ k.at \in OnTheWay /\ k.attempt = e.attempt =>
       /\ k.held # e.closing
       /\ k.at = "connecting" /\ k.ans # "wait" => k.held = e.client
  /\ k.at \in {"forms", "sending"} => k.held = k.cleared
  /\ k.at \in ExitWaits =>
       \A c \in k.wait : h[c].disposed /\ h[c].proc \in {"up", "gone"}

(* Two commands: one thread, different attempts, and a client that is      *)
(* being started is known to its starter only.                             *)
Pair(m) ==
  \A p, q \in Commands : p # q =>
    /\ m[p].at \in Sync => m[q].at \notin Sync
    /\ m[p].attempt = m[q].attempt => m[p].attempt = 0
    /\ m[p].at = "starting" =>
         /\ m[p].held # m[q].held /\ m[p].held \notin m[q].wait
         /\ m[q].at = "starting" => m[p].gen # m[q].gen

(* The starter of the newest generation has the newest attempt, except     *)
(* while a newer attempt is on its way to the client without giving up the *)
(* thread.                                                                 *)
Newest(e, m) ==
  \A p \in Commands :
    m[p].at = "starting" /\ m[p].gen = e.gen /\ (\A q \in Commands : m[q].at # "ensure")
      => m[p].attempt = e.attempt

(* A helper that runs and was not disposed of has an owner.                *)
Owned(e, h, m) ==
  \A c \in Clients : h[c].proc = "up" /\ ~h[c].disposed =>
    \/ c \in {e.client, e.closing}
    \/ \E p \in Commands : m[p].at = "starting" /\ m[p].held = c

(* An operation in flight on the client in use.                            *)
Flies(k, e) ==
  k.at \in {"evaluating", "sending"} /\ e.client = k.held /\ e.gen = k.gen

FlightOf(e, m) == {p \in Commands : Flies(m[p], e)}

(* RunningIsReal, on any controller and commands.                          *)
Counted(e, m) ==
  /\ e.running <= Cardinality(FlightOf(e, m))
  /\ e.waiters # {} => e.running > 0
  /\ e.state = "running" /\ e.client # None => e.running > 0

(* The commands that "connecting" is shown for.  A connect on its way to   *)
(* its request stands for one: it runs on without giving up the thread.    *)
Bears(k, e) ==
  \/ k.at \in OnTheWay /\ k.attempt = e.attempt /\ k.held = e.client
  \/ k.at \in {"connect", "check"}
  \/ k.at \in {"ensure", "request"} /\ k.attempt = e.attempt

(* What ShownIsCurrent says, before the thread is given up too.            *)
Shown(e, m) ==
  e.client # None =>
    /\ e.state = "connected" =>
         \/ e.device = e.client
         \/ \E p \in Commands : m[p].at = "request" /\ m[p].attempt = e.attempt
    /\ e.state = "connecting" => \E p \in Commands : Bears(m[p], e)

(* The inductive invariant.                                                *)
Inv(e, h, m) ==
  /\ Core(e, h)
  /\ \A p \in Commands : Local(m[p], e, h)
  /\ Pair(m)
  /\ Newest(e, m)
  /\ Owned(e, h, m)
  /\ Counted(e, m)
  /\ Shown(e, m)

IInv == TypeInv /\ Inv(ed, helper, cmd)

----------------------------------------------------------------------------
(* Stamps.                                                                 *)

(* A finite set leaves out one of the numbers up to its size and one more. *)
LEMMA FreshNumber ==
  ASSUME NEW used, IsFiniteSet(used)
  PROVE  Fresh(used) \in Nat \ {0} /\ Fresh(used) \notin used
<1> DEFINE c == Cardinality(used)
<1>1. c \in Nat
  BY FS_CardinalityType
<1>2. IsFiniteSet(1 .. c + 1) /\ Cardinality(1 .. c + 1) = c + 1
  <2>1. 1 \in Int /\ c + 1 \in Int /\ ~(1 > c + 1) /\ c + 1 - 1 + 1 = c + 1
    BY <1>1
  <2> HIDE DEF c
  <2> QED
    BY <2>1, FS_Interval
<1>3. ~(1 .. c + 1 \subseteq used)
  <2>1. ASSUME 1 .. c + 1 \subseteq used PROVE FALSE
    <3>1. Cardinality(1 .. c + 1) <= c
      BY <2>1, FS_Subset
    <3> QED
      BY <1>1, <1>2, <3>1
  <2> QED
    BY <2>1
<1>4. Fresh(used) \in 1 .. c + 1 /\ Fresh(used) \notin used
  BY <1>3 DEF Fresh
<1> QED
  BY <1>1, <1>4

(* The new generation and the new attempt are nobody's.                    *)
LEMMA FreshStamps ==
  /\ NextGeneration \in Nat \ {0} /\ NextGeneration # ed.gen
  /\ \A p \in Commands : NextGeneration # cmd[p].gen
  /\ \A c \in Clients : NextGeneration # helper[c].gen
  /\ NextAttempt \in Nat \ {0} /\ NextAttempt # ed.attempt
  /\ \A p \in Commands : NextAttempt # cmd[p].attempt
<1> DEFINE G == {cmd[p].gen : p \in Commands}
           H == {helper[c].gen : c \in Clients}
           A == {cmd[p].attempt : p \in Commands}
<1>1. IsFiniteSet(G) /\ IsFiniteSet(A)
  <2>1. /\ [p \in Commands |-> cmd[p].gen] \in Surjection(Commands, G)
        /\ [p \in Commands |-> cmd[p].attempt] \in Surjection(Commands, A)
    BY DEF Surjection
  <2> QED
    BY <2>1, EditorAssumption, FS_Surjection
<1>2. IsFiniteSet(H)
  <2>1. [c \in Clients |-> helper[c].gen] \in Surjection(Clients, H)
    BY DEF Surjection
  <2> QED
    BY <2>1, EditorAssumption, FS_Surjection
<1>3. IsFiniteSet({ed.gen}) /\ IsFiniteSet({ed.attempt})
  BY FS_Singleton
<1>4. IsFiniteSet({ed.gen} \cup G \cup H) /\ IsFiniteSet({ed.attempt} \cup A)
  BY <1>1, <1>2, <1>3, FS_Union
<1>5. /\ NextGeneration \in Nat \ {0} /\ NextGeneration \notin {ed.gen} \cup G \cup H
      /\ NextAttempt \in Nat \ {0} /\ NextAttempt \notin {ed.attempt} \cup A
  BY <1>4, FreshNumber DEF NextGeneration, NextAttempt
<1> QED
  BY <1>5

(* None is not the name of a client.                                       *)
LEMMA NoneIsNoClient == None \notin Clients
<1>1. Cardinality(Clients) \in Nat
  BY EditorAssumption, FS_CardinalityType
<1> QED
  BY <1>1, EditorAssumption DEF None

----------------------------------------------------------------------------
(* What a step leaves alone.                                               *)

(* What a step of another command may do to the controller under a command *)
(* that awaits: stamps are replaced by new ones only, the client goes into *)
(* closing or goes, and a new one has a new generation.                    *)
EditorKeeps(k, e, e2) ==
  /\ e2.gen = e.gen \/ e2.gen # k.gen
  /\ e2.gen = e.gen \/ e.closing = None \/ e2.closing # e.closing
  /\ e2.attempt = e.attempt \/ e2.attempt # k.attempt
  /\ \/ e2.closing \in {e.closing, None}
     \/ e2.closing = e.client /\ e2.gen # k.gen /\ e2.attempt # k.attempt
  /\ \/ e2.client = e.client
     \/ e2.client = None /\ (e2.attempt # k.attempt \/ k.at # "connecting" \/ k.ans = "wait")
     \/ /\ e.client = None /\ e2.client # k.held
        /\ k.at = "starting" => e2.gen # k.gen
  /\ e2.device \in {e.device, None, e.client}
  /\ e2.state = "running" => e.state = "running" \/ e.client # None

(* What it may do to the clients: kill and bury, and nothing else to one   *)
(* that is being started.                                                  *)
HelperKeeps(k, h, h2) ==
  /\ \A c \in k.wait \cup {k.held} :
       c \in Clients /\ h[c].proc \in {"up", "gone"} => h2[c].proc \in {"up", "gone"}
  /\ \A c \in k.wait : h[c].disposed => h2[c].disposed
  /\ k.at = "starting" =>
       /\ h2[k.held].proc = h[k.held].proc
       /\ h2[k.held].disposed = h[k.held].disposed
       /\ h2[k.held].gen = h[k.held].gen

(* A command that awaits keeps its part of the invariant over such a step. *)
LEMMA LocalKept ==
  ASSUME NEW k \in CommandType, NEW e \in EditorType, NEW e2 \in EditorType,
         NEW h \in [Clients -> HelperType], NEW h2 \in [Clients -> HelperType],
         k.at \notin Sync, Local(k, e, h), EditorKeeps(k, e, e2), HelperKeeps(k, h, h2)
  PROVE  Local(k, e2, h2)
<1>1. /\ k.at = "unborn" => k.kind \in Kinds
      /\ k.at \in Holding => k.held # None
      /\ k.at \in Attempting => k.attempt # 0
      /\ k.at \in {"forms", "sending"} => k.held = k.cleared
      /\ k.at \notin {"check", "ensure", "request"}
  BY DEF Local, Sync
<1>2. k.at \in {"closed", "stopped", "starting"} /\ k.gen = e2.gen => e2.closing = None
  BY DEF Local, EditorKeeps
<1>3. k.at = "starting" =>
       /\ k.held \notin {e2.client, e2.closing, e2.device}
       /\ k.ans # "failed" => ~h2[k.held].disposed /\ h2[k.held].gen = k.gen
       /\ h2[k.held].proc # "none"
       /\ k.ans = "wait" => h2[k.held].proc = "starting"
       /\ k.ans = "up" => h2[k.held].proc = "up"
       /\ k.gen = e2.gen => e2.client = None /\ e2.state # "running"
  <2>1. SUFFICES ASSUME k.at = "starting"
                 PROVE  /\ k.held \notin {e2.client, e2.closing, e2.device}
                        /\ k.ans # "failed" => ~h2[k.held].disposed /\ h2[k.held].gen = k.gen
                        /\ h2[k.held].proc # "none"
                        /\ k.ans = "wait" => h2[k.held].proc = "starting"
                        /\ k.ans = "up" => h2[k.held].proc = "up"
                        /\ k.gen = e2.gen => e2.client = None /\ e2.state # "running"
    OBVIOUS
  <2>2. k.held # None /\ k.held \notin {e.client, e.closing, e.device}
    BY <2>1 DEF Local, Holding
  <2>3. k.held \notin {e2.client, e2.closing, e2.device}
    BY <2>1, <2>2 DEF EditorKeeps
  <2>4. k.ans # "failed" => ~h2[k.held].disposed /\ h2[k.held].gen = k.gen
    BY <2>1 DEF Local, HelperKeeps
  <2>5. /\ h2[k.held].proc # "none"
        /\ k.ans = "wait" => h2[k.held].proc = "starting"
        /\ k.ans = "up" => h2[k.held].proc = "up"
    BY <2>1 DEF Local, HelperKeeps
  <2>6. k.gen = e2.gen => e2.client = None /\ e2.state # "running"
    BY <2>1 DEF Local, EditorKeeps
  <2> QED
    BY <2>3, <2>4, <2>5, <2>6
<1>4. k.at = "detaching" => h2[k.held].proc \in {"up", "gone"}
  BY DEF Local, HelperKeeps, CommandType
<1>5. k.at \in {"detaching", "detached"} =>
       /\ k.held # None /\ k.held # e2.client
       /\ e2.closing = k.held => k.gen = e2.gen
  BY DEF Local, EditorKeeps
<1>6. k.at \in OnTheWay /\ k.attempt = e2.attempt =>
       /\ k.held # e2.closing
       /\ k.at = "connecting" /\ k.ans # "wait" => k.held = e2.client
  BY <1>1 DEF Local, EditorKeeps, OnTheWay, Holding, HelperRequests
<1>7. k.at \in ExitWaits =>
       \A c \in k.wait : h2[c].disposed /\ h2[c].proc \in {"up", "gone"}
  BY DEF Local, HelperKeeps, CommandType
<1> QED
  BY <1>1, <1>2, <1>3, <1>4, <1>5, <1>6, <1>7 DEF Local

----------------------------------------------------------------------------
(* One command goes from m[p] to k.                                        *)

(* Nobody but p has the thread.                                            *)
Alone(m, p) == \A q \in Commands : q # p => m[q].at \notin Sync

(* The command refers to nothing new but the controller's own clients.     *)
Ordinary(k, k0, e) ==
  /\ k.at # "starting" /\ k0.at # "starting"
  /\ k.attempt \in {0, k0.attempt}
  /\ k.held \in {None, k0.held, e.client}
  /\ k.wait \subseteq k0.wait \cup {e.client, e.closing, k0.held}

(* A command that goes on keeps apart from the others.                     *)
LEMMA PairKept ==
  ASSUME NEW e, NEW h, NEW m \in [Commands -> CommandType], NEW p \in Commands,
         NEW k \in CommandType, Pair(m), Alone(m, p), k.at # "starting",
         \/ k.attempt \in {0, m[p].attempt}
         \/ \A q \in Commands : k.attempt # m[q].attempt,
         k.held \in {None, m[p].held, e.client},
         k.wait \subseteq m[p].wait \cup {e.client, e.closing, m[p].held},
         \A q \in Commands : Local(m[q], e, h)
  PROVE  Pair([m EXCEPT ![p] = k])
<1> DEFINE m2 == [m EXCEPT ![p] = k]
<1>1. m2[p] = k /\ \A q \in Commands : q # p => m2[q] = m[q]
  OBVIOUS
<1>2. ASSUME NEW q \in Commands, q # p
      PROVE  /\ m[q].at \notin Sync
             /\ k.attempt = m[q].attempt => k.attempt = 0
             /\ m[q].at = "starting" => m[q].held # k.held /\ m[q].held \notin k.wait
  <2>1. m[q].at \notin Sync /\ (k.attempt = m[q].attempt => k.attempt = 0)
    BY <1>2 DEF Alone, Pair
  <2>2. ASSUME m[q].at = "starting" PROVE m[q].held # k.held /\ m[q].held \notin k.wait
    <3>1. m[q].held # m[p].held /\ m[q].held \notin m[p].wait
      BY <1>2, <2>2 DEF Pair
    <3>2. m[q].held \notin {None, e.client, e.closing}
      BY <1>2, <2>2 DEF Local, Holding
    <3> QED
      BY <3>1, <3>2
  <2> QED
    BY <2>1, <2>2
<1> HIDE DEF m2
<1> QED
  <2>1. ASSUME NEW a \in Commands, NEW b \in Commands, a # b
        PROVE  /\ m2[a].at \in Sync => m2[b].at \notin Sync
               /\ m2[a].attempt = m2[b].attempt => m2[a].attempt = 0
               /\ m2[a].at = "starting" =>
                    /\ m2[a].held # m2[b].held /\ m2[a].held \notin m2[b].wait
                    /\ m2[b].at = "starting" => m2[a].gen # m2[b].gen
    <3>1. CASE a # p /\ b # p
      BY <1>1, <2>1, <3>1 DEF Pair
    <3>2. CASE a = p
      BY <1>1, <1>2, <2>1, <3>2
    <3>3. CASE b = p
      BY <1>1, <1>2, <2>1, <3>3
    <3> QED
      BY <3>1, <3>2, <3>3
  <2> QED
    BY <2>1 DEF Pair, m2

----------------------------------------------------------------------------
(* Counting the operations in flight.                                      *)

(* The operations in flight are finitely many.                             *)
LEMMA FlightFinite ==
  ASSUME NEW e, NEW m
  PROVE  /\ IsFiniteSet(FlightOf(e, m)) /\ Cardinality(FlightOf(e, m)) \in Nat
         /\ Cardinality(FlightOf(e, m)) <= Cardinality(Commands)
         /\ Cardinality(Commands) \in Nat
<1>1. FlightOf(e, m) \subseteq Commands
  BY DEF FlightOf
<1>2. /\ IsFiniteSet(FlightOf(e, m))
      /\ Cardinality(FlightOf(e, m)) <= Cardinality(Commands)
  BY <1>1, EditorAssumption, FS_Subset
<1> QED
  BY <1>2, EditorAssumption, FS_CardinalityType

(* Nothing is counted: nothing can be counted wrong.                       *)
LEMMA IdleCounted ==
  ASSUME NEW e, NEW m, e.running = 0, e.waiters = {},
         e.state # "running" \/ e.client = None
  PROVE  Counted(e, m)
BY FlightFinite DEF Counted

(* Without a client nothing is in flight, and nothing is counted.          *)
LEMMA NoClientIdle ==
  ASSUME NEW e \in EditorType, NEW h, NEW m, Counted(e, m), e.client = None,
         \A p \in Commands : Local(m[p], e, h)
  PROVE  e.running = 0 /\ e.waiters = {}
<1>1. FlightOf(e, m) = {}
  BY DEF FlightOf, Flies, Local, Holding, HelperRequests
<1>2. Cardinality(FlightOf(e, m)) = 0
  BY <1>1, FS_EmptySet
<1>3. e.running \in Nat
  BY DEF EditorType
<1> QED
  BY <1>2, <1>3 DEF Counted

(* A command that stays in flight, or out of it, leaves the operations     *)
(* alone.                                                                  *)
LEMMA FlightSame ==
  ASSUME NEW e, NEW m \in [Commands -> CommandType], NEW p \in Commands, NEW k,
         Flies(k, e) <=> Flies(m[p], e)
  PROVE  FlightOf(e, [m EXCEPT ![p] = k]) = FlightOf(e, m)
<1> DEFINE m2 == [m EXCEPT ![p] = k]
<1>1. m2[p] = k /\ \A q \in Commands : q # p => m2[q] = m[q]
  OBVIOUS
<1> HIDE DEF m2
<1>2. FlightOf(e, m2) = FlightOf(e, m)
  BY <1>1 DEF FlightOf
<1> QED
  BY <1>2 DEF m2

(* A command that takes off is one operation more.                         *)
LEMMA FlightGains ==
  ASSUME NEW e, NEW m \in [Commands -> CommandType], NEW p \in Commands, NEW k,
         Flies(k, e), ~Flies(m[p], e)
  PROVE  Cardinality(FlightOf(e, [m EXCEPT ![p] = k])) = Cardinality(FlightOf(e, m)) + 1
<1> DEFINE m2 == [m EXCEPT ![p] = k]
<1>1. m2[p] = k /\ \A q \in Commands : q # p => m2[q] = m[q]
  OBVIOUS
<1> HIDE DEF m2
<1>2. FlightOf(e, m2) = FlightOf(e, m) \cup {p} /\ p \notin FlightOf(e, m)
  BY <1>1 DEF FlightOf
<1>3. Cardinality(FlightOf(e, m2)) = Cardinality(FlightOf(e, m)) + 1
  BY <1>2, FlightFinite, FS_AddElement
<1> QED
  BY <1>3 DEF m2

(* A command that lands is one operation fewer.                            *)
LEMMA FlightLoses ==
  ASSUME NEW e, NEW m \in [Commands -> CommandType], NEW p \in Commands, NEW k,
         Flies(m[p], e), ~Flies(k, e)
  PROVE  Cardinality(FlightOf(e, m)) = Cardinality(FlightOf(e, [m EXCEPT ![p] = k])) + 1
<1> DEFINE m2 == [m EXCEPT ![p] = k]
<1>1. m2[p] = k /\ \A q \in Commands : q # p => m2[q] = m[q]
  OBVIOUS
<1> HIDE DEF m2
<1>2. FlightOf(e, m) = FlightOf(e, m2) \cup {p} /\ p \notin FlightOf(e, m2)
  BY <1>1 DEF FlightOf
<1>3. Cardinality(FlightOf(e, m)) = Cardinality(FlightOf(e, m2)) + 1
  BY <1>2, FlightFinite, FS_AddElement
<1> QED
  BY <1>3 DEF m2

----------------------------------------------------------------------------
(* Steps that leave the client, its generation and the attempt alone.      *)

(* The controller keeps client, stamps and closing client.                 *)
SameIds(e, e2) ==
  /\ e2.client = e.client /\ e2.closing = e.closing
  /\ e2.gen = e.gen /\ e2.attempt = e.attempt
  /\ e2.device \in {e.device, None, e.client}
  /\ e2.state = "running" => e.state = "running" \/ e.client # None

(* The clients keep their processes.                                       *)
SameProcs(h, h2) ==
  \A c \in Clients : /\ h2[c].proc = h[c].proc /\ h2[c].disposed = h[c].disposed
                     /\ h2[c].gen = h[c].gen /\ h2[c].retired = h[c].retired

(* Such a step keeps every other command.                                  *)
LEMMA SameKeeps ==
  ASSUME NEW k \in CommandType, NEW e, NEW e2, NEW h, NEW h2, Local(k, e, h),
         SameIds(e, e2), SameProcs(h, h2)
  PROVE  EditorKeeps(k, e, e2) /\ HelperKeeps(k, h, h2)
<1>1. EditorKeeps(k, e, e2)
  BY DEF EditorKeeps, SameIds
<1>2. k.wait \subseteq Clients /\ (k.at = "starting" => k.held \in Clients)
  BY DEF CommandType, Local, Holding
<1> QED
  BY <1>1, <1>2 DEF HelperKeeps, SameProcs

(* Such a step keeps the controller and its clients.                       *)
LEMMA SameCore ==
  ASSUME NEW e \in EditorType, NEW e2 \in EditorType, NEW h, NEW h2,
         Core(e, h), SameIds(e, e2), SameProcs(h, h2)
  PROVE  Core(e2, h2)
<1>1. /\ e.client \in {None} \cup Clients /\ e.closing \in {None} \cup Clients
      /\ None \notin Clients
  BY NoneIsNoClient DEF EditorType
<1>2. e2.client # None => /\ h2[e2.client].proc = "up" /\ ~h2[e2.client].disposed
                          /\ h2[e2.client].gen = e2.gen /\ e2.closing = None
  BY <1>1 DEF Core, SameIds, SameProcs
<1>3. e2.closing # None => h2[e2.closing].proc \in {"up", "gone"}
  BY <1>1 DEF Core, SameIds, SameProcs
<1>4. e2.device # None => e2.device \in {e2.client, e2.closing}
  BY <1>1 DEF Core, SameIds
<1>5. e2.closing # None /\ h2[e2.closing].retired => e2.device = None
  BY <1>1 DEF Core, SameIds, SameProcs
<1>6. \A c \in Clients : h2[c].retired => h2[c].disposed
  BY DEF Core, SameProcs
<1> QED
  BY <1>2, <1>3, <1>4, <1>5, <1>6 DEF Core

(* A step that keeps the client keeps the invariant, if it does for the    *)
(* command that takes it, for the count and for what is shown.             *)
LEMMA SameStep ==
  ASSUME NEW e \in EditorType, NEW e2 \in EditorType,
         NEW h \in [Clients -> HelperType], NEW h2 \in [Clients -> HelperType],
         NEW m \in [Commands -> CommandType], NEW p \in Commands, NEW k \in CommandType,
         Inv(e, h, m), Alone(m, p), SameIds(e, e2), SameProcs(h, h2),
         Ordinary(k, m[p], e), Local(k, e2, h2),
         m[p].at = "ensure" =>
           \A q \in Commands : m[q].at = "starting" => m[q].gen # e.gen,
         Counted(e2, [m EXCEPT ![p] = k]), Shown(e2, [m EXCEPT ![p] = k])
  PROVE  Inv(e2, h2, [m EXCEPT ![p] = k])
<1> DEFINE m2 == [m EXCEPT ![p] = k]
<1>1. m2[p] = k /\ \A q \in Commands : q # p => m2[q] = m[q]
  OBVIOUS
<1>2. Pair(m2)
  BY PairKept DEF Inv, Ordinary
<1> HIDE DEF m2
<1>3. \A q \in Commands : Local(m2[q], e2, h2)
  <2>1. ASSUME NEW q \in Commands, q # p PROVE Local(m[q], e2, h2)
    BY <2>1, SameKeeps, LocalKept DEF Inv, Alone
  <2> QED
    BY <1>1, <2>1
<1>4. Core(e2, h2)
  BY SameCore DEF Inv
<1>5. Newest(e2, m2)
  <2>1. \A q \in Commands :
          m[q].at = "starting" /\ m[q].gen = e.gen /\ (\A r \in Commands : m[r].at # "ensure")
            => m[q].attempt = e.attempt
    BY DEF Inv, Newest
  <2>2. \A r \in Commands : r # p => m[r].at # "ensure"
    BY DEF Alone, Sync
  <2> QED
    BY <1>1, <2>1, <2>2 DEF Newest, SameIds, Ordinary
<1>6. Owned(e2, h2, m2)
  <2>1. SUFFICES ASSUME NEW c \in Clients, h2[c].proc = "up", ~h2[c].disposed,
                        c \notin {e.client, e.closing}
                 PROVE  \E q \in Commands : m2[q].at = "starting" /\ m2[q].held = c
    BY DEF Owned, SameIds
  <2>2. PICK q \in Commands : m[q].at = "starting" /\ m[q].held = c
    BY <2>1 DEF Inv, Owned, SameProcs
  <2>3. q # p
    BY <2>2 DEF Ordinary
  <2> QED
    BY <1>1, <2>2, <2>3
<1> QED
  BY <1>2, <1>3, <1>4, <1>5, <1>6 DEF Inv, m2

(* What is shown stays true when it does not change and p goes on with     *)
(* what it is shown for.                                                   *)
StillBears(k, k0, e) ==
  /\ e.client # None /\ e.state = "connecting" /\ Bears(k0, e) => Bears(k, e)
  /\ ~(k0.at = "request" /\ k0.attempt = e.attempt)

(* What is shown stays right over such a step.                             *)
LEMMA ShownKept ==
  ASSUME NEW e, NEW e2, NEW m \in [Commands -> CommandType], NEW p \in Commands, NEW k,
         Shown(e, m), StillBears(k, m[p], e), e2.client = e.client, e2.state = e.state,
         e2.device = e.device, e2.attempt = e.attempt
  PROVE  Shown(e2, [m EXCEPT ![p] = k])
<1> DEFINE m2 == [m EXCEPT ![p] = k]
<1>1. m2[p] = k /\ \A q \in Commands : q # p => m2[q] = m[q]
  OBVIOUS
<1> HIDE DEF m2
<1>2. SUFFICES ASSUME e2.client # None PROVE
        /\ e2.state = "connected" =>
             \/ e2.device = e2.client
             \/ \E q \in Commands : m2[q].at = "request" /\ m2[q].attempt = e2.attempt
        /\ e2.state = "connecting" => \E q \in Commands : Bears(m2[q], e2)
  BY DEF Shown, m2
<1>3. ASSUME e2.state = "connected", e2.device # e2.client
      PROVE  \E q \in Commands : m2[q].at = "request" /\ m2[q].attempt = e2.attempt
  <2>1. PICK q \in Commands : m[q].at = "request" /\ m[q].attempt = e.attempt
    BY <1>2, <1>3 DEF Shown
  <2>2. q # p
    BY <2>1 DEF StillBears
  <2> QED
    BY <1>1, <2>1, <2>2
<1>4. ASSUME e2.state = "connecting"
      PROVE  \E q \in Commands : Bears(m2[q], e2)
  <2>1. PICK q \in Commands : Bears(m[q], e)
    BY <1>2, <1>4 DEF Shown
  <2>2. Bears(m2[q], e)
    BY <1>1, <1>2, <1>4, <2>1 DEF StillBears
  <2> QED
    BY <2>2 DEF Bears
<1> QED
  BY <1>3, <1>4

(* A step of a command alone.                                              *)
LEMMA CommandStep ==
  ASSUME NEW e \in EditorType, NEW h \in [Clients -> HelperType],
         NEW m \in [Commands -> CommandType], NEW p \in Commands, NEW k \in CommandType,
         Inv(e, h, m), Alone(m, p), Ordinary(k, m[p], e), Local(k, e, h),
         m[p].at = "ensure" =>
           \A q \in Commands : m[q].at = "starting" => m[q].gen # e.gen,
         Flies(k, e) <=> Flies(m[p], e), StillBears(k, m[p], e)
  PROVE  Inv(e, h, [m EXCEPT ![p] = k])
<1>1. SameIds(e, e) /\ SameProcs(h, h)
  BY DEF SameIds, SameProcs
<1>2. FlightOf(e, [m EXCEPT ![p] = k]) = FlightOf(e, m)
  BY FlightSame
<1>3. Counted(e, [m EXCEPT ![p] = k])
  BY <1>2 DEF Inv, Counted
<1>4. Shown(e, [m EXCEPT ![p] = k])
  BY ShownKept DEF Inv
<1> QED
  BY <1>1, <1>3, <1>4, SameStep

(* A command that goes on at one of these labels has forgotten everything. *)
Blank == {"done", "ready", "connect", "disconnect", "force", "interrupt",
          "interrupt_running", "reset"}

(* It refers to no client, no attempt and no process.                      *)
IsBlank(k) ==
  /\ k \in CommandType /\ k.at \in Blank
  /\ k.held = None /\ k.attempt = 0 /\ k.wait = {}

(* A command that has forgotten everything meets its part of the           *)
(* invariant.                                                              *)
LEMMA BlankLocal ==
  ASSUME NEW k, NEW e, NEW h, k.at \in Blank
  PROVE  Local(k, e, h) /\ ~Flies(k, e)
<1>1. k.at \notin Holding \cup Attempting \cup OnTheWay \cup ExitWaits
                   \cup {"closed", "stopped", "check", "detaching", "detached", "forms",
                         "evaluating", "sending", "starting", "unborn"}
  BY DEF Blank, Holding, Attempting, OnTheWay, ExitWaits, HelperRequests
<1>2. k.at \notin {"ensure", "request"}
  BY <1>1 DEF Attempting
<1>3. Local(k, e, h)
  BY <1>1, <1>2 DEF Local
<1> QED
  BY <1>1, <1>3 DEF Flies

(* Jump, Finish and Return leave such a command.                           *)
DoneAt(p) == [NewCommand EXCEPT !.kind = cmd[p].kind, !.at = "done"]
ReadyAt(p) == [At(p, "ready") EXCEPT !.port = "none"]

(* The records that Finish, Return and Jump leave behind are such          *)
(* commands.                                                               *)
LEMMA BlankRecords ==
  ASSUME TypeInv, NEW p \in Commands, NEW label \in Blank
  PROVE  /\ IsBlank(At(p, label)) /\ At(p, label).at = label
         /\ IsBlank(DoneAt(p)) /\ IsBlank(ReadyAt(p))
<1>1. cmd[p] \in CommandType
  BY DEF TypeInv
<1>2. cmd[p].kind \in Kinds \cup {"none"} /\ cmd[p].port \in {"none", "stored", "picked"}
  BY <1>1 DEF CommandType
<1>3. /\ None \in {None} \cup Clients /\ 0 \in Nat /\ 0 \in 0 .. Forms
      /\ "wait" \in AnswerType /\ {} \in SUBSET Clients
      /\ "ready" \in Labels /\ "done" \in Labels /\ label \in Labels
      /\ "ready" \in Blank /\ "done" \in Blank
  BY EditorAssumption DEF AnswerType, Labels, Sync, Blank
<1> QED
  BY <1>2, <1>3 DEF IsBlank, CommandType, At, NewCommand, DoneAt, ReadyAt

----------------------------------------------------------------------------
(* Steps of a command that change neither the controller nor a client.     *)

(* The command that takes a step has the thread.                           *)
LEMMA ThreadIsOurs ==
  ASSUME IInv, NEW p \in Commands, ThreadFree \/ cmd[p].at \in Sync
  PROVE  Alone(cmd, p)
BY DEF IInv, Inv, Pair, Alone, ThreadFree

(* CommandStep, as a step of the specification.                            *)
LEMMA Goes ==
  ASSUME IInv, NEW p \in Commands, NEW k \in CommandType,
         ThreadFree \/ cmd[p].at \in Sync,
         Ordinary(k, cmd[p], ed), Local(k, ed, helper),
         cmd[p].at = "ensure" =>
           \A q \in Commands : cmd[q].at = "starting" => cmd[q].gen # ed.gen,
         Flies(k, ed) <=> Flies(cmd[p], ed), StillBears(k, cmd[p], ed),
         cmd' = [cmd EXCEPT ![p] = k], UNCHANGED <<ed, helper>>
  PROVE  IInv'
<1>1. /\ ed \in EditorType /\ helper \in [Clients -> HelperType]
      /\ cmd \in [Commands -> CommandType]
  BY DEF IInv, TypeInv
<1>2. Alone(cmd, p)
  BY ThreadIsOurs
<1>3. Inv(ed, helper, [cmd EXCEPT ![p] = k])
  BY <1>1, <1>2, CommandStep DEF IInv
<1>4. cmd' \in [Commands -> CommandType]
  BY <1>1
<1> QED
  BY <1>1, <1>3, <1>4 DEF IInv, TypeInv

(* Nothing that is shown depends on the command.                           *)
Unshown(k, e) ==
  /\ ~(k.at = "request" /\ k.attempt = e.attempt)
  /\ e.client = None \/ e.state # "connecting" \/ ~Bears(k, e)

(* Finish, Return and Jump make one of three records.                      *)
LEMMA BlankCases ==
  ASSUME IInv, NEW p \in Commands, NEW label \in Blank, NEW ok,
         Finish(p) \/ Return(p, ok) \/ Jump(p, label)
  PROVE  \E k \in {DoneAt(p), ReadyAt(p), At(p, label)} :
           /\ IsBlank(k) /\ k \in CommandType /\ k.at \in Blank /\ k.at # "starting"
           /\ cmd' = [cmd EXCEPT ![p] = k]
<1>1. IsBlank(At(p, label)) /\ IsBlank(DoneAt(p)) /\ IsBlank(ReadyAt(p))
  BY BlankRecords DEF IInv
<1>2. \/ cmd' = [cmd EXCEPT ![p] = DoneAt(p)]
      \/ cmd' = [cmd EXCEPT ![p] = ReadyAt(p)]
      \/ cmd' = [cmd EXCEPT ![p] = At(p, label)]
  BY DEF Finish, Return, Jump, DoneAt, ReadyAt
<1> QED
  BY <1>1, <1>2 DEF IsBlank, Blank

(* A command that has forgotten everything refers to nothing.              *)
LEMMA BlankOrdinary ==
  ASSUME NEW k, NEW k0, NEW e, IsBlank(k), k0.at # "starting"
  PROVE  Ordinary(k, k0, e)
BY DEF IsBlank, Blank, Ordinary

(* A command that leaves without touching the controller.                  *)
LEMMA Leaves ==
  ASSUME IInv, NEW p \in Commands, NEW label \in Blank, NEW ok,
         ThreadFree \/ cmd[p].at \in Sync,
         cmd[p].at # "starting",
         cmd[p].at = "ensure" =>
           \A q \in Commands : cmd[q].at = "starting" => cmd[q].gen # ed.gen,
         ~Flies(cmd[p], ed), Unshown(cmd[p], ed),
         Finish(p) \/ Return(p, ok) \/ Jump(p, label), UNCHANGED <<ed, helper>>
  PROVE  IInv'
<1>1. PICK k \in {DoneAt(p), ReadyAt(p), At(p, label)} :
        /\ IsBlank(k) /\ k \in CommandType /\ k.at \in Blank /\ k.at # "starting"
        /\ cmd' = [cmd EXCEPT ![p] = k]
  BY BlankCases
<1>2. Local(k, ed, helper) /\ ~Flies(k, ed)
  BY <1>1, BlankLocal
<1>3. StillBears(k, cmd[p], ed)
  BY DEF Unshown, StillBears
<1>4. Ordinary(k, cmd[p], ed)
  BY <1>1, BlankOrdinary
<1> QED
  BY <1>1, <1>2, <1>3, <1>4, Goes

(* Where a command is when nothing shown or counted depends on it.         *)
Elsewhere == Labels \ (OnTheWay \cup {"connect", "check", "ensure", "request", "starting",
                                     "evaluating", "sending"})

(* Such a command may leave.                                               *)
LEMMA LeavesFrom ==
  ASSUME IInv, NEW p \in Commands, NEW label \in Blank, NEW ok,
         ThreadFree \/ cmd[p].at \in Sync, cmd[p].at \in Elsewhere,
         Finish(p) \/ Return(p, ok) \/ Jump(p, label), UNCHANGED <<ed, helper>>
  PROVE  IInv'
<1>1. cmd[p].at \notin {"starting", "ensure", "request"} /\ ~Bears(cmd[p], ed)
  BY DEF Elsewhere, Bears
<1>2. ~Flies(cmd[p], ed) /\ Unshown(cmd[p], ed)
  BY <1>1 DEF Elsewhere, Flies, Unshown
<1> QED
  BY <1>1, <1>2, Leaves

(* The fields of a command that goes on at a label.                        *)
LEMMA AtRecord ==
  ASSUME IInv, NEW p \in Commands, NEW label \in Labels
  PROVE  /\ At(p, label) \in CommandType /\ At(p, label).at = label
         /\ At(p, label).held = None /\ At(p, label).attempt = 0
         /\ At(p, label).wait = {} /\ At(p, label).ans = "wait"
<1>1. /\ cmd[p].kind \in Kinds \cup {"none"} /\ 0 \in Nat /\ 0 \in 0 .. Forms
      /\ cmd[p].port \in {"none", "stored", "picked"} /\ "wait" \in AnswerType
  BY EditorAssumption DEF IInv, TypeInv, CommandType, AnswerType
<1> QED
  BY <1>1 DEF At, NewCommand, CommandType

(* The user gives a command.                                               *)
LEMMA BeginStep ==
  ASSUME IInv, NEW p \in Commands, Begin(p)
  PROVE  IInv'
<1> DEFINE l == IF cmd[p].kind \in {"eval", "words", "file"}
                THEN EnsureConnected ELSE cmd[p].kind
           k == [cmd[p] EXCEPT !.at = l]
<1>1. /\ ThreadFree /\ cmd[p].at = "unborn" /\ UNCHANGED <<ed, helper>>
      /\ cmd \in [Commands -> CommandType] /\ cmd[p] \in CommandType
      /\ cmd' = [cmd EXCEPT ![p].at = l]
  BY DEF Begin, Quiet, IInv, TypeInv
<1>2. l \in {"ready", "connect", "disconnect", "force", "interrupt"}
  BY <1>1 DEF IInv, Inv, Local, Kinds, EnsureConnected
<1> HIDE DEF l
<1>3. cmd' = [cmd EXCEPT ![p] = k]
  BY <1>1
<1>4. l \in Labels
  BY <1>2 DEF Labels, Sync
<1>5. /\ k \in CommandType /\ k.at = l /\ k.held = cmd[p].held
      /\ k.attempt = cmd[p].attempt /\ k.wait = cmd[p].wait
  BY <1>1, <1>4 DEF CommandType
<1> HIDE DEF k
<1>6. Local(k, ed, helper) /\ ~Flies(k, ed)
  BY <1>2, <1>5, BlankLocal DEF Blank
<1>7. Ordinary(k, cmd[p], ed)
  BY <1>1, <1>2, <1>5 DEF Ordinary
<1>8. ~Flies(cmd[p], ed) /\ StillBears(k, cmd[p], ed)
  BY <1>1 DEF Flies, StillBears, Bears, OnTheWay
<1> QED
  BY <1>1, <1>3, <1>5, <1>6, <1>7, <1>8, Goes

----------------------------------------------------------------------------
(* Requests on the client in use.                                          *)

(* What Await, RequestOn and AwaitHost make of a command.                  *)
AwaitAt(p, label, c) == [At(p, label) EXCEPT !.held = c, !.gen = ed.gen]
RequestAt(p, c) == [At(p, "request") EXCEPT !.held = c, !.attempt = cmd[p].attempt]
HostAt(p, label) == [cmd[p] EXCEPT !.at = label, !.ans = "wait"]

(* Their fields.                                                           *)
LEMMA Records ==
  ASSUME TypeInv, NEW p \in Commands, NEW label \in Labels, NEW c \in Clients
  PROVE  /\ AwaitAt(p, label, c) \in CommandType
         /\ AwaitAt(p, label, c).at = label /\ AwaitAt(p, label, c).held = c
         /\ AwaitAt(p, label, c).gen = ed.gen /\ AwaitAt(p, label, c).attempt = 0
         /\ AwaitAt(p, label, c).wait = {}
         /\ RequestAt(p, c) \in CommandType
         /\ RequestAt(p, c).at = "request" /\ RequestAt(p, c).held = c
         /\ RequestAt(p, c).attempt = cmd[p].attempt /\ RequestAt(p, c).wait = {}
         /\ At(p, label) \in CommandType
         /\ At(p, label).at = label /\ At(p, label).held = None
         /\ At(p, label).attempt = 0 /\ At(p, label).wait = {}
         /\ HostAt(p, label) \in CommandType
         /\ HostAt(p, label).at = label /\ HostAt(p, label).held = cmd[p].held
         /\ HostAt(p, label).gen = cmd[p].gen /\ HostAt(p, label).ans = "wait"
         /\ HostAt(p, label).attempt = cmd[p].attempt
         /\ HostAt(p, label).wait = cmd[p].wait
         /\ HostAt(p, label).cleared = cmd[p].cleared
<1>1. cmd[p] \in CommandType /\ ed.gen \in Nat
  BY DEF TypeInv, EditorType
<1>2. /\ cmd[p].kind \in Kinds \cup {"none"} /\ cmd[p].port \in {"none", "stored", "picked"}
      /\ cmd[p].attempt \in Nat
  BY <1>1 DEF CommandType
<1>3. /\ None \in {None} \cup Clients /\ 0 \in Nat /\ 0 \in 0 .. Forms
      /\ "wait" \in AnswerType /\ {} \in SUBSET Clients /\ "request" \in Labels
  BY EditorAssumption DEF AnswerType, Labels, Sync
<1>4. /\ At(p, label) \in CommandType
      /\ At(p, label).at = label /\ At(p, label).held = None
      /\ At(p, label).attempt = 0 /\ At(p, label).wait = {}
  BY <1>2, <1>3 DEF At, NewCommand, CommandType
<1>5. At(p, "request") \in CommandType /\ At(p, "request").wait = {}
      /\ At(p, "request").at = "request"
  BY <1>2, <1>3 DEF At, NewCommand, CommandType
<1>6. /\ AwaitAt(p, label, c) \in CommandType
      /\ AwaitAt(p, label, c).at = label /\ AwaitAt(p, label, c).held = c
      /\ AwaitAt(p, label, c).gen = ed.gen /\ AwaitAt(p, label, c).attempt = 0
      /\ AwaitAt(p, label, c).wait = {}
  BY <1>1, <1>4 DEF AwaitAt, CommandType
<1>7. /\ RequestAt(p, c) \in CommandType
      /\ RequestAt(p, c).at = "request" /\ RequestAt(p, c).held = c
      /\ RequestAt(p, c).attempt = cmd[p].attempt /\ RequestAt(p, c).wait = {}
  BY <1>2, <1>5 DEF RequestAt, CommandType
<1>8. /\ HostAt(p, label) \in CommandType
      /\ HostAt(p, label).at = label /\ HostAt(p, label).held = cmd[p].held
      /\ HostAt(p, label).gen = cmd[p].gen /\ HostAt(p, label).ans = "wait"
      /\ HostAt(p, label).attempt = cmd[p].attempt
      /\ HostAt(p, label).wait = cmd[p].wait
      /\ HostAt(p, label).cleared = cmd[p].cleared
  BY <1>1, <1>3 DEF HostAt, CommandType
<1> QED
  BY <1>4, <1>6, <1>7, <1>8

(* The requests and dialogs that are not counted and not shown.            *)
Asking == {"listing", "interrupting", "preparing", "file_interrupting", "resetting"}

(* A command asks the client in use and awaits the answer.                 *)
LEMMA Awaits ==
  ASSUME IInv, NEW p \in Commands, ThreadFree \/ cmd[p].at \in Sync,
         cmd[p].at \in Elsewhere, NEW label \in Asking, ed.client # None,
         Await(p, label, ed.client), UNCHANGED <<ed, helper>>
  PROVE  IInv'
<1> DEFINE k == AwaitAt(p, label, ed.client)
<1>1. TypeInv /\ ed.client \in Clients /\ label \in Labels
  BY DEF IInv, TypeInv, EditorType, Labels, HelperRequests, HostWaits, Asking
<1>2. /\ k \in CommandType /\ k.at = label /\ k.held = ed.client /\ k.gen = ed.gen
      /\ k.attempt = 0 /\ k.wait = {}
  BY <1>1, Records
<1>3. cmd' = [cmd EXCEPT ![p] = k]
  BY DEF Await, AwaitAt
<1> HIDE DEF k
<1>4. cmd[p].at \notin {"starting", "ensure", "request"} /\ ~Flies(cmd[p], ed)
  BY DEF Elsewhere, Flies
<1>5. StillBears(k, cmd[p], ed)
  BY DEF StillBears, Bears, Elsewhere
<1>6. ~Flies(k, ed) /\ Ordinary(k, cmd[p], ed)
  BY <1>2, <1>4 DEF Flies, Asking, Ordinary
<1>7. Local(k, ed, helper)
  BY <1>2 DEF Local, Asking, Attempting, OnTheWay, ExitWaits
<1> QED
  BY <1>2, <1>3, <1>4, <1>5, <1>6, <1>7, Goes

----------------------------------------------------------------------------
(* Steps that change the controller's fields, but not which client it has. *)

(* SameStep, as a step of the specification.                               *)
LEMMA Changes ==
  ASSUME IInv, NEW p \in Commands, NEW k \in CommandType,
         ThreadFree \/ cmd[p].at \in Sync,
         ed' \in EditorType, helper' \in [Clients -> HelperType],
         SameIds(ed, ed'), SameProcs(helper, helper'),
         Ordinary(k, cmd[p], ed), Local(k, ed', helper'), cmd[p].at # "ensure",
         Counted(ed', [cmd EXCEPT ![p] = k]), Shown(ed', [cmd EXCEPT ![p] = k]),
         cmd' = [cmd EXCEPT ![p] = k]
  PROVE  IInv'
<1>1. /\ ed \in EditorType /\ helper \in [Clients -> HelperType]
      /\ cmd \in [Commands -> CommandType]
  BY DEF IInv, TypeInv
<1>2. Alone(cmd, p)
  BY ThreadIsOurs
<1>3. Inv(ed', helper', [cmd EXCEPT ![p] = k])
  BY <1>1, <1>2, SameStep DEF IInv
<1>4. cmd' \in [Commands -> CommandType]
  BY <1>1
<1> QED
  BY <1>3, <1>4 DEF IInv, TypeInv

(* The count stays right when the operations in flight do.                 *)
LEMMA CountedSame ==
  ASSUME NEW e, NEW e2, NEW m \in [Commands -> CommandType], NEW p \in Commands, NEW k,
         Counted(e, m), Flies(k, e) <=> Flies(m[p], e),
         e2.client = e.client, e2.gen = e.gen, e2.running = e.running,
         e2.waiters \subseteq e.waiters \/ e.running > 0,
         e2.state = "running" => e.state = "running" \/ e.running > 0
  PROVE  Counted(e2, [m EXCEPT ![p] = k])
<1>1. FlightOf(e, [m EXCEPT ![p] = k]) = FlightOf(e, m)
  BY FlightSame
<1>2. FlightOf(e2, [m EXCEPT ![p] = k]) = FlightOf(e, [m EXCEPT ![p] = k])
  BY DEF FlightOf, Flies
<1> QED
  BY <1>1, <1>2 DEF Counted

(* Nothing shown that could be wrong.                                      *)
LEMMA ShownPlain ==
  ASSUME NEW e, NEW m,
         \/ e.client = None
         \/ e.state \notin {"connected", "connecting"}
         \/ e.state = "connected" /\ e.device = e.client
  PROVE  Shown(e, m)
BY DEF Shown

----------------------------------------------------------------------------
(* Steps that give the client up.                                          *)

(* The client is given up, under a new generation and a new attempt.       *)
Superseded(e, e2, m) ==
  /\ e2.client = None /\ e2.closing \in {None, e.client}
  /\ e2.device \in {None, e.device}
  /\ e2.running = 0 /\ e2.waiters = {}
  /\ e2.state = "running" => e.state = "running"
  /\ \A q \in Commands : e2.gen # m[q].gen /\ e2.attempt # m[q].attempt

(* The clients given up are disposed of, or closing.                       *)
GivenUp(e, e2, h, h2) ==
  /\ \A c \in Clients :
       /\ h2[c].proc = h[c].proc /\ h2[c].gen = h[c].gen
       /\ h[c].disposed => h2[c].disposed
       /\ c \notin {e.client, e.closing} => h2[c].disposed = h[c].disposed
       /\ c \in {e.client, e.closing} => h2[c].disposed \/ c = e2.closing

(* A step that gives the client up keeps the invariant: every other        *)
(* command is stale from then on.                                          *)
LEMMA SupersedeStep ==
  ASSUME NEW e \in EditorType, NEW e2 \in EditorType,
         NEW h \in [Clients -> HelperType], NEW h2 \in [Clients -> HelperType],
         NEW m \in [Commands -> CommandType], NEW p \in Commands, NEW k \in CommandType,
         Inv(e, h, m), Alone(m, p), Superseded(e, e2, m), GivenUp(e, e2, h, h2),
         Core(e2, h2), Ordinary(k, m[p], e), Local(k, e2, h2)
  PROVE  Inv(e2, h2, [m EXCEPT ![p] = k])
<1> DEFINE m2 == [m EXCEPT ![p] = k]
<1>1. m2[p] = k /\ \A q \in Commands : q # p => m2[q] = m[q]
  OBVIOUS
<1>2. Pair(m2)
  BY PairKept DEF Inv, Ordinary
<1>3. Counted(e2, m2)
  BY IdleCounted DEF Superseded
<1>4. Shown(e2, m2)
  BY ShownPlain DEF Superseded
<1> HIDE DEF m2
<1>5. ASSUME NEW q \in Commands, q # p PROVE Local(m[q], e2, h2)
  <2>1. m[q] \in CommandType /\ m[q].at \notin Sync /\ Local(m[q], e, h)
    BY <1>5 DEF Alone, Inv
  <2>2. e2.gen # m[q].gen /\ e2.attempt # m[q].attempt
    BY DEF Superseded
  <2>3. e.client # None => e.closing = None
    BY DEF Inv, Core
  <2>4. EditorKeeps(m[q], e, e2)
    BY <2>2, <2>3 DEF Superseded, EditorKeeps
  <2>5. m[q].wait \subseteq Clients
    BY <2>1 DEF CommandType
  <2>6. m[q].at = "starting" => m[q].held \in Clients /\ m[q].held \notin {e.client, e.closing}
    BY <2>1 DEF CommandType, Local, Holding
  <2>7. HelperKeeps(m[q], h, h2)
    BY <2>5, <2>6 DEF GivenUp, HelperKeeps
  <2> QED
    BY <2>1, <2>4, <2>7, LocalKept
<1>6. \A q \in Commands : Local(m2[q], e2, h2)
  BY <1>1, <1>5
<1>7. Newest(e2, m2)
  <2>1. \A q \in Commands : m2[q].at = "starting" => e2.gen # m2[q].gen
    BY <1>1 DEF Superseded, Ordinary
  <2> QED
    BY <2>1 DEF Newest
<1>8. Owned(e2, h2, m2)
  <2>1. SUFFICES ASSUME NEW c \in Clients, h2[c].proc = "up", ~h2[c].disposed,
                        c \notin {e2.client, e2.closing}
                 PROVE  \E q \in Commands : m2[q].at = "starting" /\ m2[q].held = c
    BY DEF Owned
  <2>2. h[c].proc = "up" /\ ~h[c].disposed /\ c \notin {e.client, e.closing}
    BY <2>1 DEF GivenUp
  <2>3. PICK q \in Commands : m[q].at = "starting" /\ m[q].held = c
    BY <2>2 DEF Inv, Owned
  <2>4. q # p
    BY <2>3 DEF Ordinary
  <2> QED
    BY <1>1, <2>3, <2>4
<1> QED
  BY <1>2, <1>3, <1>4, <1>6, <1>7, <1>8 DEF Inv, m2

(* SupersedeStep, as a step of the specification.                          *)
LEMMA Supersedes ==
  ASSUME IInv, NEW p \in Commands, NEW k \in CommandType,
         ThreadFree \/ cmd[p].at \in Sync,
         ed' \in EditorType, helper' \in [Clients -> HelperType],
         Superseded(ed, ed', cmd), GivenUp(ed, ed', helper, helper'), Core(ed', helper'),
         Ordinary(k, cmd[p], ed), Local(k, ed', helper'),
         cmd' = [cmd EXCEPT ![p] = k]
  PROVE  IInv'
<1>1. /\ ed \in EditorType /\ helper \in [Clients -> HelperType]
      /\ cmd \in [Commands -> CommandType]
  BY DEF IInv, TypeInv
<1>2. Alone(cmd, p)
  BY ThreadIsOurs
<1>3. Inv(ed', helper', [cmd EXCEPT ![p] = k])
  BY <1>1, <1>2, SupersedeStep DEF IInv
<1>4. cmd' \in [Commands -> CommandType]
  BY <1>1
<1> QED
  BY <1>3, <1>4 DEF IInv, TypeInv

(* The fields after disposeClient.                                         *)
LEMMA DisposeFields ==
  ASSUME NEW e \in EditorType
  PROVE  /\ DisposeClient(e) \in EditorType
         /\ DisposeClient(e).client = None /\ DisposeClient(e).closing = None
         /\ DisposeClient(e).device = None /\ DisposeClient(e).state = e.state
         /\ DisposeClient(e).running = 0 /\ DisposeClient(e).waiters = {}
         /\ DisposeClient(e).gen = NextGeneration
         /\ DisposeClient(e).attempt = NextAttempt
<1>1. NextGeneration \in Nat /\ NextAttempt \in Nat
  BY FreshStamps
<1> QED
  BY <1>1 DEF DisposeClient, ClearSessionState, ClearRunningState, Supersede, EditorType

(* The fields after handleClientError on "not_connected".                  *)
LEMMA RetireFields ==
  ASSUME NEW e \in EditorType
  PROVE  /\ HandleClientError(e, "not_connected") \in EditorType
         /\ HandleClientError(e, "not_connected").client = None
         /\ HandleClientError(e, "not_connected").closing =
              IF e.client = None THEN e.closing ELSE e.client
         /\ HandleClientError(e, "not_connected").state = "disconnected"
         /\ HandleClientError(e, "not_connected").device = None
         /\ e.client # None =>
              /\ HandleClientError(e, "not_connected").running = 0
              /\ HandleClientError(e, "not_connected").waiters = {}
              /\ HandleClientError(e, "not_connected").gen = NextGeneration
              /\ HandleClientError(e, "not_connected").attempt = NextAttempt
<1>1. NextGeneration \in Nat /\ NextAttempt \in Nat
  BY FreshStamps
<1>2. "disconnected" \in ConnectionState
  BY DEF ConnectionState
<1> QED
  BY <1>1, <1>2 DEF HandleClientError, RetireCurrentClient, ClearSessionState,
                    ClearRunningState, Supersede, EditorType

(* The clients after dispose().                                            *)
LEMMA DisposedFields ==
  ASSUME NEW h \in [Clients -> HelperType], NEW S
  PROVE  /\ Disposed(h, S) \in [Clients -> HelperType]
         /\ \A c \in Clients :
              /\ Disposed(h, S)[c].proc = h[c].proc /\ Disposed(h, S)[c].gen = h[c].gen
              /\ Disposed(h, S)[c].retired = h[c].retired
              /\ c \in S => Disposed(h, S)[c].disposed
              /\ c \notin S => Disposed(h, S)[c].disposed = h[c].disposed
<1> DEFINE h2 == Disposed(h, S)
           d(c) == [h[c] EXCEPT !.disposed = TRUE, !.linked = FALSE, !.owes = FALSE]
<1>1. ASSUME NEW c \in Clients
      PROVE  /\ h[c] \in HelperType /\ d(c) \in HelperType
             /\ d(c).proc = h[c].proc /\ d(c).gen = h[c].gen
             /\ d(c).retired = h[c].retired /\ d(c).disposed
  BY DEF HelperType
<1>2. h2 = [c \in Clients |-> IF c \in S THEN d(c) ELSE h[c]]
  BY DEF Disposed
<1> HIDE DEF h2, d
<1>3. h2 \in [Clients -> HelperType]
  BY <1>1, <1>2
<1>4. ASSUME NEW c \in Clients
      PROVE  /\ h2[c].proc = h[c].proc /\ h2[c].gen = h[c].gen
             /\ h2[c].retired = h[c].retired
             /\ c \in S => h2[c].disposed
             /\ c \notin S => h2[c].disposed = h[c].disposed
  BY <1>1, <1>2
<1> QED
  BY <1>3, <1>4 DEF h2

(* disposeClientAndWait, wherever it is called.                            *)
LEMMA DisposeStep ==
  ASSUME IInv, NEW p \in Commands, ThreadFree \/ cmd[p].at \in Sync,
         cmd[p].at # "starting", NEW label \in {"closed", "stopped", "parted", "forced"},
         DisposeClientAndWait(p, label)
  PROVE  IInv'
<1> DEFINE k == [At(p, label) EXCEPT !.gen = NextGeneration,
                                     !.wait = {ed.client, ed.closing} \ {None}]
<1>1. /\ ed' = DisposeClient(ed) /\ cmd' = [cmd EXCEPT ![p] = k]
      /\ helper' = Disposed(helper, {ed.client, ed.closing})
  BY DEF DisposeClientAndWait
<1>2. /\ ed \in EditorType /\ helper \in [Clients -> HelperType]
      /\ cmd \in [Commands -> CommandType] /\ Core(ed, helper)
      /\ ed.client \in {None} \cup Clients /\ ed.closing \in {None} \cup Clients
  BY DEF IInv, TypeInv, EditorType, Inv
<1>3. /\ ed' \in EditorType /\ ed'.client = None /\ ed'.closing = None
      /\ ed'.device = None /\ ed'.state = ed.state /\ ed'.running = 0 /\ ed'.waiters = {}
      /\ ed'.gen = NextGeneration /\ ed'.attempt = NextAttempt
  BY <1>1, <1>2, DisposeFields
<1>4. /\ helper' \in [Clients -> HelperType]
      /\ \A c \in Clients :
           /\ helper'[c].proc = helper[c].proc /\ helper'[c].gen = helper[c].gen
           /\ helper'[c].retired = helper[c].retired
           /\ c \in {ed.client, ed.closing} => helper'[c].disposed
           /\ c \notin {ed.client, ed.closing} => helper'[c].disposed = helper[c].disposed
  BY <1>1, <1>2, DisposedFields
<1>5. /\ k \in CommandType /\ k.at = label /\ k.held = None /\ k.attempt = 0
      /\ k.gen = NextGeneration /\ k.wait = {ed.client, ed.closing} \ {None}
  <2>1. label \in Labels
    BY DEF Labels, ExitWaits
  <2>2. /\ At(p, label) \in CommandType /\ At(p, label).at = label
        /\ At(p, label).held = None /\ At(p, label).attempt = 0
    BY <2>1, AtRecord
  <2>3. NextGeneration \in Nat /\ {ed.client, ed.closing} \ {None} \in SUBSET Clients
    BY <1>2, FreshStamps
  <2> QED
    BY <2>2, <2>3 DEF CommandType
<1> HIDE DEF k
<1>6. Superseded(ed, ed', cmd)
  BY <1>3, FreshStamps DEF Superseded
<1>7. GivenUp(ed, ed', helper, helper')
  BY <1>4 DEF GivenUp
<1>8. Core(ed', helper')
  BY <1>2, <1>3, <1>4 DEF Core
<1>9. Ordinary(k, cmd[p], ed)
  BY <1>5 DEF Ordinary
<1>10. \A c \in k.wait : helper'[c].disposed /\ helper'[c].proc \in {"up", "gone"}
  BY <1>2, <1>4, <1>5 DEF Core
<1>11. Local(k, ed', helper')
  BY <1>3, <1>5, <1>10 DEF Local, Holding, Attempting, OnTheWay, HelperRequests
<1> QED
  BY <1>1, <1>3, <1>4, <1>5, <1>6, <1>7, <1>8, <1>9, <1>11, Supersedes

(* The same for a command that finishes, or goes on with nothing.          *)
LEMMA BlankSupersedes ==
  ASSUME IInv, NEW p \in Commands, NEW label \in Blank, NEW ok,
         ThreadFree \/ cmd[p].at \in Sync, cmd[p].at # "starting",
         Finish(p) \/ Return(p, ok) \/ Jump(p, label),
         ed' \in EditorType, helper' \in [Clients -> HelperType],
         Superseded(ed, ed', cmd), GivenUp(ed, ed', helper, helper'), Core(ed', helper')
  PROVE  IInv'
<1>1. PICK k \in {DoneAt(p), ReadyAt(p), At(p, label)} :
        /\ IsBlank(k) /\ k \in CommandType /\ k.at \in Blank /\ k.at # "starting"
        /\ cmd' = [cmd EXCEPT ![p] = k]
  BY BlankCases
<1>2. Local(k, ed', helper')
  BY <1>1, BlankLocal
<1>3. Ordinary(k, cmd[p], ed)
  BY <1>1, BlankOrdinary
<1> QED
  BY <1>1, <1>2, <1>3, Supersedes

(* The client stays, and the command leaves.                               *)
LEMMA BlankChanges ==
  ASSUME IInv, NEW p \in Commands, NEW label \in Blank, NEW ok,
         ThreadFree \/ cmd[p].at \in Sync, cmd[p].at \notin {"starting", "ensure"},
         Finish(p) \/ Return(p, ok) \/ Jump(p, label),
         ed' \in EditorType, SameIds(ed, ed'), UNCHANGED helper,
         \A k : IsBlank(k) =>
            Counted(ed', [cmd EXCEPT ![p] = k]) /\ Shown(ed', [cmd EXCEPT ![p] = k])
  PROVE  IInv'
<1>1. PICK k \in {DoneAt(p), ReadyAt(p), At(p, label)} :
        /\ IsBlank(k) /\ k \in CommandType /\ k.at \in Blank /\ k.at # "starting"
        /\ cmd' = [cmd EXCEPT ![p] = k]
  BY BlankCases
<1>2. Local(k, ed', helper')
  BY <1>1, BlankLocal
<1>3. Ordinary(k, cmd[p], ed)
  BY <1>1, BlankOrdinary
<1>4. helper' \in [Clients -> HelperType] /\ SameProcs(helper, helper')
  BY DEF IInv, TypeInv, SameProcs
<1> QED
  BY <1>1, <1>2, <1>3, <1>4, Changes

(* The fields of the client that is retired.                               *)
LEMMA RetiredHelper ==
  ASSUME NEW x \in HelperType, x.disposed
  PROVE  /\ [x EXCEPT !.retired = TRUE] \in HelperType
         /\ [x EXCEPT !.retired = TRUE].proc = x.proc
         /\ [x EXCEPT !.retired = TRUE].gen = x.gen
         /\ [x EXCEPT !.retired = TRUE].disposed
BY DEF HelperType

(* A request that finds the link gone retires its client.                  *)
LEMMA RetireStep ==
  ASSUME IInv, NEW p \in Commands, ThreadFree, cmd[p].at # "starting", ed.client # None,
         ed' = HandleClientError(ed, "not_connected"),
         helper' = Retired(helper, "not_connected"), Finish(p)
  PROVE  IInv'
<1>1. /\ ed \in EditorType /\ helper \in [Clients -> HelperType]
      /\ Core(ed, helper) /\ ed.client \in Clients
  BY DEF IInv, TypeInv, EditorType, Inv
<1>2. /\ ed' \in EditorType /\ ed'.client = None /\ ed'.closing = ed.client
      /\ ed'.state = "disconnected" /\ ed'.device = None
      /\ ed'.running = 0 /\ ed'.waiters = {}
      /\ ed'.gen = NextGeneration /\ ed'.attempt = NextAttempt
  BY <1>1, RetireFields
<1> DEFINE d == Disposed(helper, {ed.client})
<1>3. helper' = [d EXCEPT ![ed.client] = [d[ed.client] EXCEPT !.retired = TRUE]]
  BY DEF Retired
<1>4. /\ d \in [Clients -> HelperType]
      /\ \A c \in Clients :
           /\ d[c].proc = helper[c].proc /\ d[c].gen = helper[c].gen
           /\ d[c].retired = helper[c].retired
           /\ c \in {ed.client} => d[c].disposed
           /\ c \notin {ed.client} => d[c].disposed = helper[c].disposed
  BY <1>1, DisposedFields
<1> HIDE DEF d
<1>5. /\ [d[ed.client] EXCEPT !.retired = TRUE] \in HelperType
      /\ [d[ed.client] EXCEPT !.retired = TRUE].proc = d[ed.client].proc
      /\ [d[ed.client] EXCEPT !.retired = TRUE].gen = d[ed.client].gen
      /\ [d[ed.client] EXCEPT !.retired = TRUE].disposed
  BY <1>1, <1>4, RetiredHelper
<1>6. helper' \in [Clients -> HelperType]
  BY <1>1, <1>3, <1>4, <1>5
<1>7. \A c \in Clients :
           /\ helper'[c].proc = helper[c].proc /\ helper'[c].gen = helper[c].gen
           /\ c = ed.client => helper'[c].disposed
           /\ c # ed.client => /\ helper'[c].disposed = helper[c].disposed
                               /\ helper'[c].retired = helper[c].retired
  <2>1. ASSUME NEW c \in Clients, c # ed.client PROVE helper'[c] = d[c]
    BY <1>1, <1>3, <1>4, <2>1
  <2>2. helper'[ed.client] = [d[ed.client] EXCEPT !.retired = TRUE]
    BY <1>1, <1>3, <1>4
  <2>3. ASSUME NEW c \in Clients, c # ed.client
        PROVE  /\ helper'[c].proc = helper[c].proc /\ helper'[c].gen = helper[c].gen
               /\ helper'[c].disposed = helper[c].disposed
               /\ helper'[c].retired = helper[c].retired
    BY <1>4, <2>1, <2>3
  <2>4. /\ helper'[ed.client].proc = helper[ed.client].proc
        /\ helper'[ed.client].gen = helper[ed.client].gen
        /\ helper'[ed.client].disposed
    BY <1>1, <1>4, <1>5, <2>2
  <2> QED
    BY <2>3, <2>4
<1>8. Superseded(ed, ed', cmd)
  BY <1>2, FreshStamps DEF Superseded
<1>9. GivenUp(ed, ed', helper, helper')
  BY <1>1, <1>2, <1>7, NoneIsNoClient DEF GivenUp, Core
<1>10. Core(ed', helper')
  BY <1>1, <1>2, <1>7 DEF Core
<1>11. "done" \in Blank
  BY DEF Blank
<1> QED
  BY <1>2, <1>6, <1>8, <1>9, <1>10, <1>11, BlankSupersedes

(* An error is handled and the command finishes.                           *)
LEMMA ErrorStep ==
  ASSUME IInv, NEW p \in Commands, ThreadFree, cmd[p].at \in Elsewhere,
         NEW err, ed.client # None,
         ed' = HandleClientError(ed, err), helper' = Retired(helper, err), Finish(p)
  PROVE  IInv'
<1>1. CASE err = "not_connected"
  BY <1>1, RetireStep DEF Elsewhere
<1>2. CASE err # "not_connected"
  <2>1. UNCHANGED <<ed, helper>>
    BY <1>2 DEF HandleClientError, Retired
  <2>2. "done" \in Blank
    BY DEF Blank
  <2> QED
    BY <2>1, <2>2, LeavesFrom
<1> QED
  BY <1>1, <1>2

----------------------------------------------------------------------------
(* Operations begin and end.                                               *)

(* The fields after beginRunning.                                          *)
LEMMA BeginFields ==
  ASSUME NEW e \in EditorType
  PROVE  /\ BeginRunning(e) \in EditorType
         /\ BeginRunning(e).client = e.client /\ BeginRunning(e).closing = e.closing
         /\ BeginRunning(e).gen = e.gen /\ BeginRunning(e).attempt = e.attempt
         /\ BeginRunning(e).device = e.device /\ BeginRunning(e).waiters = e.waiters
         /\ BeginRunning(e).state = "running" /\ BeginRunning(e).running = e.running + 1
<1>1. e.running + 1 \in Nat /\ "running" \in ConnectionState
  BY DEF EditorType, ConnectionState
<1> QED
  BY <1>1 DEF BeginRunning, EditorType

(* The controller when nothing runs.                                       *)
AtEase(e, s) == [e EXCEPT !.running = 0, !.waiters = {}, !.state = s]

(* Its fields.                                                             *)
LEMMA AtEaseFields ==
  ASSUME NEW e \in EditorType, NEW s \in ConnectionState
  PROVE  /\ AtEase(e, s) \in EditorType
         /\ AtEase(e, s).client = e.client /\ AtEase(e, s).closing = e.closing
         /\ AtEase(e, s).gen = e.gen /\ AtEase(e, s).attempt = e.attempt
         /\ AtEase(e, s).device = e.device /\ AtEase(e, s).running = 0
         /\ AtEase(e, s).waiters = {} /\ AtEase(e, s).state = s
BY DEF EditorType, AtEase

(* The fields after endRunning.                                            *)
LEMMA EndFields ==
  ASSUME NEW e \in EditorType
  PROVE  /\ EndRunning(e) \in EditorType
         /\ EndRunning(e).client = e.client /\ EndRunning(e).closing = e.closing
         /\ EndRunning(e).gen = e.gen /\ EndRunning(e).attempt = e.attempt
         /\ EndRunning(e).device = e.device
         /\ e.running > 1 =>
              /\ EndRunning(e).running = e.running - 1
              /\ EndRunning(e).waiters = e.waiters /\ EndRunning(e).state = e.state
         /\ ~(e.running > 1) =>
              /\ EndRunning(e).running = 0 /\ EndRunning(e).waiters = {}
              /\ EndRunning(e).state = IF e.state = "running" THEN AtRest(e) ELSE e.state
<1>1. /\ AtRest(e) \in ConnectionState /\ e.state \in ConnectionState /\ e.running \in Nat
      /\ {} \in SUBSET Commands
  BY DEF AtRest, ConnectionState, EditorType
<1>2. CASE e.running > 1
  <2>1. EndRunning(e) = [e EXCEPT !.running = e.running - 1]
    BY <1>1, <1>2 DEF EndRunning
  <2>2. e.running - 1 \in Nat
    BY <1>1, <1>2
  <2> QED
    BY <1>1, <1>2, <2>1, <2>2 DEF EditorType
<1>3. CASE ~(e.running > 1)
  <2> DEFINE s == IF e.state = "running" THEN AtRest(e) ELSE e.state
  <2>1. EndRunning(e) = AtEase(e, s)
    BY <1>1, <1>3 DEF EndRunning, AtEase
  <2>2. s \in ConnectionState
    BY <1>1
  <2> HIDE DEF s
  <2>3. /\ EndRunning(e) \in EditorType
        /\ EndRunning(e).client = e.client /\ EndRunning(e).closing = e.closing
        /\ EndRunning(e).gen = e.gen /\ EndRunning(e).attempt = e.attempt
        /\ EndRunning(e).device = e.device
        /\ EndRunning(e).running = 0 /\ EndRunning(e).waiters = {}
        /\ EndRunning(e).state = s
    BY <2>1, <2>2, AtEaseFields
  <2> QED
    BY <1>3, <2>3 DEF s
<1> QED
  BY <1>2, <1>3

(* An operation starts: one more is counted, and one more is in flight.    *)
LEMMA BeginRunningStep ==
  ASSUME IInv, NEW p \in Commands, NEW k \in CommandType,
         ThreadFree \/ cmd[p].at \in Sync, cmd[p].at \in Elsewhere, ed.client # None,
         Flies(k, ed), Ordinary(k, cmd[p], ed), k.at = "sending" => k.held = k.cleared,
         ed' = BeginRunning(ed), UNCHANGED helper, cmd' = [cmd EXCEPT ![p] = k]
  PROVE  IInv'
<1>1. /\ ed \in EditorType /\ helper \in [Clients -> HelperType]
      /\ cmd \in [Commands -> CommandType] /\ ed.running \in Nat /\ Counted(ed, cmd)
  BY DEF IInv, TypeInv, EditorType, Inv
<1>3. /\ ed' \in EditorType /\ ed'.client = ed.client /\ ed'.closing = ed.closing
      /\ ed'.gen = ed.gen /\ ed'.attempt = ed.attempt /\ ed'.device = ed.device
      /\ ed'.state = "running" /\ ed'.running = ed.running + 1
  BY <1>1, BeginFields
<1>4. SameIds(ed, ed') /\ SameProcs(helper, helper')
  BY <1>3 DEF SameIds, SameProcs
<1>5. cmd[p].at # "ensure" /\ ~Flies(cmd[p], ed)
  BY DEF Elsewhere, Flies
<1> DEFINE m2 == [cmd EXCEPT ![p] = k]
<1>6. Cardinality(FlightOf(ed, m2)) = Cardinality(FlightOf(ed, cmd)) + 1
  BY <1>1, <1>5, FlightGains
<1>7. Shown(ed', m2)
  BY <1>3, ShownPlain
<1> HIDE DEF m2
<1>8. FlightOf(ed', m2) = FlightOf(ed, m2)
  BY <1>3 DEF FlightOf, Flies
<1>9. /\ Cardinality(FlightOf(ed, cmd)) \in Nat
      /\ ed.running <= Cardinality(FlightOf(ed, cmd))
  BY <1>1, FlightFinite DEF Counted
<1>10. Counted(ed', m2)
  BY <1>1, <1>3, <1>6, <1>8, <1>9 DEF Counted
<1>11. Local(k, ed', helper')
  BY <1>3 DEF Flies, Local, Holding, HelperRequests, Attempting, OnTheWay, ExitWaits
<1> QED
  BY <1>1, <1>3, <1>4, <1>5, <1>7, <1>10, <1>11, Changes DEF m2

(* An operation ends: one fewer is counted, and one fewer is in flight.    *)
LEMMA EndRunningStep ==
  ASSUME IInv, NEW p \in Commands, ThreadFree, Flies(cmd[p], ed),
         ed' = EndRunning(ed), UNCHANGED helper, Finish(p)
  PROVE  IInv'
<1>1. /\ ed \in EditorType /\ cmd \in [Commands -> CommandType] /\ ed.running \in Nat
      /\ Counted(ed, cmd) /\ Shown(ed, cmd) /\ Core(ed, helper)
      /\ ed.state \in ConnectionState
  BY DEF IInv, TypeInv, EditorType, Inv
<1>2. /\ cmd[p].at \in {"evaluating", "sending"} /\ cmd[p].at \notin {"starting", "ensure"}
      /\ ~Bears(cmd[p], ed)
  BY DEF Flies, Bears, OnTheWay
<1>3. AtRest(ed) \in ConnectionState /\ AtRest(ed) # "running"
  BY DEF AtRest, ConnectionState
<1>4. /\ ed' \in EditorType /\ ed'.client = ed.client /\ ed'.closing = ed.closing
      /\ ed'.gen = ed.gen /\ ed'.attempt = ed.attempt /\ ed'.device = ed.device
  BY <1>1, EndFields
<1>5. ed.running > 1 =>
        /\ ed'.running = ed.running - 1 /\ ed'.waiters = ed.waiters /\ ed'.state = ed.state
  BY <1>1, EndFields
<1>6. ~(ed.running > 1) =>
        /\ ed'.running = 0 /\ ed'.waiters = {}
        /\ ed'.state = IF ed.state = "running" THEN AtRest(ed) ELSE ed.state
  BY <1>1, EndFields
<1>7. SameIds(ed, ed')
  BY <1>3, <1>4, <1>5, <1>6 DEF SameIds
<1>8. ASSUME NEW k, IsBlank(k) PROVE Counted(ed', [cmd EXCEPT ![p] = k])
  <2>1. ~Flies(k, ed)
    BY <1>8, BlankLocal DEF IsBlank
  <2>2. CASE ed.running > 1
    <3> DEFINE m2 == [cmd EXCEPT ![p] = k]
    <3>1. Cardinality(FlightOf(ed, cmd)) = Cardinality(FlightOf(ed, m2)) + 1
      BY <1>1, <2>1, FlightLoses, Zenon
    <3> HIDE DEF m2
    <3>2. FlightOf(ed', m2) = FlightOf(ed, m2)
      BY <1>4 DEF FlightOf, Flies
    <3>3. Cardinality(FlightOf(ed, m2)) \in Nat
      BY FlightFinite
    <3>4. Counted(ed', m2)
      BY <1>1, <1>5, <2>2, <3>1, <3>2, <3>3 DEF Counted
    <3> QED
      BY <3>4 DEF m2
  <2>3. CASE ~(ed.running > 1)
    BY <1>3, <1>6, <2>3, IdleCounted
  <2> QED
    BY <2>2, <2>3
<1>9. ASSUME NEW k, IsBlank(k) PROVE Shown(ed', [cmd EXCEPT ![p] = k])
  <2>1. CASE ed'.state = ed.state
    <3>1. StillBears(k, cmd[p], ed)
      BY <1>2 DEF StillBears
    <3> QED
      BY <1>1, <1>4, <2>1, <3>1, ShownKept
  <2>2. CASE ed'.state # ed.state
    <3>1. ed'.state = AtRest(ed)
      BY <1>5, <1>6, <2>2
    <3>2. ed'.state = "disconnected" \/ (ed'.state = "connected" /\ ed.device # None)
      BY <3>1 DEF AtRest
    <3>3. ed.client # None /\ ed.device # None => ed.device = ed.client
      BY <1>1 DEF Core
    <3> QED
      BY <1>4, <3>2, <3>3, ShownPlain
  <2> QED
    BY <2>1, <2>2
<1>10. "done" \in Blank
  BY DEF Blank
<1> QED
  BY <1>2, <1>4, <1>7, <1>8, <1>9, <1>10, BlankChanges

(* The end of an operation, on whatever client it was started on.          *)
LEMMA EndOperationStep ==
  ASSUME IInv, NEW p \in Commands, ThreadFree,
         cmd[p].at \in {"evaluating", "sending"}, NEW err,
         EndOperation(p, err), Finish(p)
  PROVE  IInv'
<1>1. /\ cmd[p].held # None /\ cmd[p].at # "starting" /\ ed \in EditorType
      /\ "done" \in Blank
  BY DEF IInv, TypeInv, Inv, Local, Holding, HelperRequests, Blank
<1>2. CASE ~IsCurrentClient(cmd[p].held, cmd[p].gen)
  <2>1. UNCHANGED <<ed, helper>>
    BY <1>2 DEF EndOperation
  <2>2. ~Flies(cmd[p], ed)
    BY <1>2 DEF Flies, IsCurrentClient
  <2>3. Unshown(cmd[p], ed) /\ cmd[p].at \notin {"starting", "ensure"}
    BY DEF Unshown, Bears, OnTheWay
  <2> QED
    BY <1>1, <2>1, <2>2, <2>3, Leaves
<1>3. CASE IsCurrentClient(cmd[p].held, cmd[p].gen)
  <2>1. Flies(cmd[p], ed) /\ ed.client # None
    BY <1>1, <1>3 DEF Flies, IsCurrentClient
  <2>2. /\ ed' = IF HandleClientError(ed, err).client = None THEN HandleClientError(ed, err)
                 ELSE EndRunning(HandleClientError(ed, err))
        /\ helper' = Retired(helper, err)
    BY <1>3 DEF EndOperation
  <2>3. CASE err = "not_connected"
    BY <1>1, <2>1, <2>2, <2>3, RetireFields, RetireStep
  <2>4. CASE err # "not_connected"
    <3>1. HandleClientError(ed, err) = ed /\ Retired(helper, err) = helper
      BY <2>4 DEF HandleClientError, Retired
    <3>2. ed' = EndRunning(ed) /\ UNCHANGED helper
      BY <2>1, <2>2, <3>1
    <3> QED
      BY <2>1, <3>2, EndRunningStep
  <2> QED
    BY <2>3, <2>4
<1> QED
  BY <1>2, <1>3

----------------------------------------------------------------------------
(* Steps of a command that end the process of a client nobody uses.        *)

(* A command disposes of the client it holds, which is not the one in use. *)
LEMMA KillStep ==
  ASSUME IInv, NEW p \in Commands, NEW k \in CommandType, NEW c \in Clients, ThreadFree,
         c = cmd[p].held, c # ed.client, cmd[p].at # "ensure",
         helper' = Disposed(helper, {c}), ed' \in EditorType,
         ed'.client = ed.client, ed'.gen = ed.gen, ed'.attempt = ed.attempt,
         ed'.closing = ed.closing \/ (ed.closing = c /\ ed'.closing = None),
         ed'.device \in {ed.device, None}, ed'.state = "running" => ed.state = "running",
         Core(ed', helper'),
         k.at # "starting", k.attempt \in {0, cmd[p].attempt},
         k.held \in {None, c}, k.wait \subseteq cmd[p].wait \cup {c},
         Local(k, ed', helper'),
         Counted(ed', [cmd EXCEPT ![p] = k]), Shown(ed', [cmd EXCEPT ![p] = k]),
         cmd' = [cmd EXCEPT ![p] = k]
  PROVE  IInv'
<1>1. /\ ed \in EditorType /\ helper \in [Clients -> HelperType]
      /\ cmd \in [Commands -> CommandType] /\ Inv(ed, helper, cmd)
  BY DEF IInv, TypeInv
<1>2. Alone(cmd, p)
  BY ThreadIsOurs
<1>3. /\ helper' \in [Clients -> HelperType]
      /\ \A d \in Clients :
           /\ helper'[d].proc = helper[d].proc /\ helper'[d].gen = helper[d].gen
           /\ helper'[d].retired = helper[d].retired
           /\ d \in {c} => helper'[d].disposed
           /\ d \notin {c} => helper'[d].disposed = helper[d].disposed
  BY <1>1, DisposedFields
<1> DEFINE m2 == [cmd EXCEPT ![p] = k]
<1>4. m2[p] = k /\ \A q \in Commands : q # p => m2[q] = cmd[q]
  BY <1>1
<1>5. Pair(m2)
  BY <1>1, <1>2, PairKept DEF Inv
<1>6. m2 \in [Commands -> CommandType]
  BY <1>1
<1>7. Counted(ed', m2) /\ Shown(ed', m2) /\ cmd' = m2
  OBVIOUS
<1> HIDE DEF m2
<1>8. ASSUME NEW q \in Commands, q # p PROVE Local(cmd[q], ed', helper')
  <2>1. cmd[q] \in CommandType /\ cmd[q].at \notin Sync /\ Local(cmd[q], ed, helper)
    BY <1>1, <1>2, <1>8 DEF Alone, Inv
  <2>2. EditorKeeps(cmd[q], ed, ed')
    BY DEF EditorKeeps
  <2>3. cmd[q].wait \subseteq Clients
    BY <2>1 DEF CommandType
  <2>4. cmd[q].at = "starting" => cmd[q].held \in Clients /\ cmd[q].held # c
    BY <1>1, <1>8, <2>1 DEF CommandType, Local, Holding, Inv, Pair
  <2>5. HelperKeeps(cmd[q], helper, helper')
    <3>1. \A d \in Clients : helper[d].disposed => helper'[d].disposed
      BY <1>3
    <3>2. cmd[q].at = "starting" =>
            /\ helper'[cmd[q].held].proc = helper[cmd[q].held].proc
            /\ helper'[cmd[q].held].disposed = helper[cmd[q].held].disposed
            /\ helper'[cmd[q].held].gen = helper[cmd[q].held].gen
      BY <1>3, <2>4
    <3>3. \A d \in Clients : helper'[d].proc = helper[d].proc
      BY <1>3
    <3> QED
      BY <2>3, <3>1, <3>2, <3>3 DEF HelperKeeps
  <2> QED
    BY <1>1, <1>3, <2>1, <2>2, <2>5, LocalKept
<1>9. \A q \in Commands : Local(m2[q], ed', helper')
  BY <1>4, <1>8
<1>10. Newest(ed', m2)
  <2>1. \A q \in Commands :
          cmd[q].at = "starting" /\ cmd[q].gen = ed.gen
               /\ (\A r \in Commands : cmd[r].at # "ensure")
            => cmd[q].attempt = ed.attempt
    BY <1>1 DEF Inv, Newest
  <2>2. \A r \in Commands : cmd[r].at # "ensure"
    BY <1>2 DEF Alone, Sync
  <2> QED
    BY <1>4, <2>1, <2>2 DEF Newest
<1>11. Owned(ed', helper', m2)
  <2>1. SUFFICES ASSUME NEW d \in Clients, helper'[d].proc = "up", ~helper'[d].disposed,
                        d \notin {ed'.client, ed'.closing}
                 PROVE  \E q \in Commands : m2[q].at = "starting" /\ m2[q].held = d
    BY DEF Owned
  <2>2. d # c
    BY <1>3, <2>1
  <2>3. helper[d].proc = "up" /\ ~helper[d].disposed
    BY <1>3, <2>1, <2>2
  <2>4. d \notin {ed.client, ed.closing}
    BY <2>1, <2>2
  <2>5. PICK q \in Commands : cmd[q].at = "starting" /\ cmd[q].held = d
    BY <1>1, <2>3, <2>4 DEF Inv, Owned
  <2>6. q # p
    BY <2>2, <2>5
  <2> QED
    BY <1>4, <2>5, <2>6
<1> QED
  BY <1>3, <1>5, <1>6, <1>7, <1>9, <1>10, <1>11 DEF IInv, TypeInv, Inv

(* Connect: the closing client is gone, nothing runs, a new attempt.       *)
LEMMA CheckStep ==
  ASSUME IInv, NEW p \in Commands, ThreadFree \/ cmd[p].at \in Sync,
         cmd[p].at \in {"connect", "closed"}, ed.closing = None,
         Jump(p, "check"), UNCHANGED <<ed, helper>>
  PROVE  IInv'
<1> DEFINE k == At(p, "check")
<1>1. "check" \in Labels
  BY DEF Labels, Sync
<1>2. /\ k \in CommandType /\ k.at = "check" /\ k.held = None
      /\ k.attempt = 0 /\ k.wait = {}
  BY <1>1, AtRecord
<1>3. cmd' = [cmd EXCEPT ![p] = k]
  BY DEF Jump
<1> HIDE DEF k
<1>4. ~Flies(k, ed) /\ ~Flies(cmd[p], ed) /\ Ordinary(k, cmd[p], ed)
  BY <1>2 DEF Flies, Ordinary
<1>5. StillBears(k, cmd[p], ed)
  BY <1>2 DEF StillBears, Bears
<1>6. Local(k, ed, helper)
  BY <1>2 DEF Local, Holding, HelperRequests, Attempting, OnTheWay, ExitWaits
<1> QED
  BY <1>2, <1>3, <1>4, <1>5, <1>6, Goes

(* A connect takes a new attempt.                                          *)
LEMMA AttemptStep ==
  ASSUME IInv, NEW p \in Commands, ThreadFree \/ cmd[p].at \in Sync,
         cmd[p].at \in {"check", "stopped"}, ed.closing = None,
         ed' \in EditorType, ed'.client = ed.client, ed'.closing = ed.closing,
         ed'.device = ed.device, ed'.gen = ed.gen, ed'.attempt = NextAttempt,
         ed'.running = ed.running, ed'.waiters = ed.waiters,
         ed'.state \in {ed.state, "disconnected"}, ed'.state # "running",
         cmd' = [cmd EXCEPT ![p] = [At(p, "ensure") EXCEPT !.attempt = NextAttempt]],
         UNCHANGED helper
  PROVE  IInv'
<1>1. /\ ed \in EditorType /\ helper \in [Clients -> HelperType]
      /\ cmd \in [Commands -> CommandType] /\ Inv(ed, helper, cmd)
  BY DEF IInv, TypeInv
<1>2. Alone(cmd, p)
  BY ThreadIsOurs
<1>3. /\ NextAttempt \in Nat /\ NextAttempt # 0 /\ NextAttempt # ed.attempt
      /\ \A q \in Commands : NextAttempt # cmd[q].attempt
  BY FreshStamps
<1> DEFINE k == [At(p, "ensure") EXCEPT !.attempt = NextAttempt]
<1>4. /\ k \in CommandType /\ k.at = "ensure" /\ k.held = None
      /\ k.attempt = NextAttempt /\ k.wait = {}
  <2>1. "ensure" \in Labels
    BY DEF Labels, Sync
  <2>2. /\ At(p, "ensure") \in CommandType /\ At(p, "ensure").at = "ensure"
        /\ At(p, "ensure").held = None /\ At(p, "ensure").wait = {}
    BY <2>1, AtRecord
  <2> QED
    BY <1>3, <2>2 DEF CommandType
<1>5. cmd' = [cmd EXCEPT ![p] = k]
  OBVIOUS
<1> HIDE DEF k
<1> DEFINE m2 == [cmd EXCEPT ![p] = k]
<1>6. m2[p] = k /\ \A q \in Commands : q # p => m2[q] = cmd[q]
  BY <1>1
<1>7. Pair(m2)
  BY <1>1, <1>2, <1>3, <1>4, PairKept DEF Inv
<1>8. m2 \in [Commands -> CommandType] /\ cmd' = m2
  BY <1>1, <1>4, <1>5
<1>9. ~Flies(k, ed) /\ ~Flies(cmd[p], ed)
  BY <1>4 DEF Flies
<1>10. Counted(ed', m2)
  <2>1. Counted(ed, cmd) /\ ed'.waiters \subseteq ed.waiters
    BY <1>1 DEF Inv
  <2> QED
    BY <1>1, <1>9, <2>1, CountedSame
<1> HIDE DEF m2
<1>11. Core(ed', helper')
  BY <1>1 DEF Inv, Core
<1>12. ASSUME NEW q \in Commands, q # p PROVE Local(cmd[q], ed', helper')
  <2>1. cmd[q] \in CommandType /\ cmd[q].at \notin Sync /\ Local(cmd[q], ed, helper)
    BY <1>1, <1>2, <1>12 DEF Alone, Inv
  <2>2. EditorKeeps(cmd[q], ed, ed')
    BY <1>3 DEF EditorKeeps
  <2>3. HelperKeeps(cmd[q], helper, helper')
    BY DEF HelperKeeps
  <2> QED
    BY <1>1, <2>1, <2>2, <2>3, LocalKept
<1>13. Local(k, ed', helper')
  BY <1>3, <1>4 DEF Local, Holding, HelperRequests, OnTheWay, ExitWaits
<1>14. \A q \in Commands : Local(m2[q], ed', helper')
  BY <1>6, <1>12, <1>13
<1>15. Newest(ed', m2)
  BY <1>4, <1>6 DEF Newest
<1>16. Owned(ed', helper', m2)
  <2>1. SUFFICES ASSUME NEW c \in Clients, helper[c].proc = "up", ~helper[c].disposed,
                        c \notin {ed.client, ed.closing}
                 PROVE  \E q \in Commands : m2[q].at = "starting" /\ m2[q].held = c
    BY DEF Owned
  <2>2. PICK q \in Commands : cmd[q].at = "starting" /\ cmd[q].held = c
    BY <1>1, <2>1 DEF Inv, Owned
  <2>3. q # p
    BY <2>2
  <2> QED
    BY <1>6, <2>2, <2>3
<1>17. Shown(ed', m2)
  <2>1. Bears(m2[p], ed')
    BY <1>4, <1>6 DEF Bears
  <2>2. \A q \in Commands : cmd[q].at # "request"
    BY <1>2 DEF Alone, Sync
  <2>3. ed'.client # None /\ ed'.state = "connected" => ed'.device = ed'.client
    BY <1>1, <2>2 DEF Inv, Shown
  <2> QED
    BY <2>1, <2>3 DEF Shown
<1> QED
  BY <1>1, <1>7, <1>8, <1>10, <1>11, <1>14, <1>15, <1>16, <1>17 DEF IInv, TypeInv, Inv

(* A client is created.                                                    *)
LEMMA CreateStep ==
  ASSUME IInv, NEW p \in Commands, cmd[p].at = "ensure", ed.client = None,
         NEW c \in Clients, CreateClient(p, c)
  PROVE  IInv'
<1>1. /\ ed \in EditorType /\ helper \in [Clients -> HelperType]
      /\ cmd \in [Commands -> CommandType] /\ Inv(ed, helper, cmd)
      /\ cmd[p] \in CommandType /\ ed.running \in Nat
  BY DEF IInv, TypeInv, EditorType
<1>2. Alone(cmd, p)
  BY ThreadIsOurs DEF Sync
<1>3. /\ NextGeneration \in Nat /\ NextGeneration # ed.gen
      /\ \A q \in Commands : NextGeneration # cmd[q].gen
  BY FreshStamps
<1>4. /\ ed.closing = None /\ ed.state # "running" /\ cmd[p].attempt = ed.attempt
      /\ cmd[p].attempt # 0 /\ ed.device = None
  BY <1>1 DEF Inv, Local, Core, Attempting
<1>5. /\ helper[c].proc \in {"none", "gone"}
      /\ \A q \in Commands : c # cmd[q].held /\ c \notin cmd[q].wait
  BY DEF CreateClient, Unused
<1>6. /\ ed' \in EditorType /\ ed'.client = None /\ ed'.closing = None /\ ed'.device = None
      /\ ed'.gen = NextGeneration /\ ed'.attempt = ed.attempt /\ ed'.state = ed.state
      /\ ed'.running = ed.running /\ ed'.waiters = ed.waiters
  BY <1>1, <1>3, <1>4 DEF CreateClient, EditorType
<1> DEFINE n == [NewHelper EXCEPT !.proc = "starting", !.gen = NextGeneration]
           k == [cmd[p] EXCEPT !.at = "starting", !.held = c, !.gen = NextGeneration,
                               !.ans = "wait"]
<1>7. helper' = [helper EXCEPT ![c] = n] /\ cmd' = [cmd EXCEPT ![p] = k]
  BY DEF CreateClient
<1>8. /\ n \in HelperType /\ n.proc = "starting" /\ n.gen = NextGeneration
      /\ ~n.disposed /\ ~n.retired
  BY <1>3 DEF NewHelper, HelperType
<1>9. /\ k \in CommandType /\ k.at = "starting" /\ k.held = c /\ k.gen = NextGeneration
      /\ k.ans = "wait" /\ k.attempt = cmd[p].attempt
  <2>1. "starting" \in Labels /\ "wait" \in AnswerType
    BY DEF Labels, AnswerType
  <2> QED
    BY <1>1, <1>3, <2>1 DEF CommandType
<1> HIDE DEF n, k
<1>10. /\ helper' \in [Clients -> HelperType] /\ helper'[c] = n
       /\ \A d \in Clients : d # c => helper'[d] = helper[d]
  BY <1>1, <1>7, <1>8
<1>11. /\ cmd' \in [Commands -> CommandType] /\ cmd'[p] = k
       /\ \A q \in Commands : q # p => cmd'[q] = cmd[q]
  BY <1>1, <1>7, <1>9
<1>12. ed.running = 0 /\ ed.waiters = {}
  BY <1>1, NoClientIdle DEF Inv
<1>13. Counted(ed', cmd') /\ Shown(ed', cmd')
  BY <1>6, <1>12, IdleCounted, ShownPlain
<1>14. Core(ed', helper')
  <2>1. \A d \in Clients : helper'[d].retired => helper'[d].disposed
    BY <1>1, <1>8, <1>10 DEF Inv, Core
  <2> QED
    BY <1>6, <2>1 DEF Core
<1>15. ASSUME NEW q \in Commands, q # p PROVE Local(cmd[q], ed', helper')
  <2>1. cmd[q] \in CommandType /\ cmd[q].at \notin Sync /\ Local(cmd[q], ed, helper)
    BY <1>1, <1>2, <1>15 DEF Alone, Inv
  <2>2. EditorKeeps(cmd[q], ed, ed')
    BY <1>3, <1>4, <1>6 DEF EditorKeeps
  <2>3. \A d \in Clients : d \in cmd[q].wait \cup {cmd[q].held} => helper'[d] = helper[d]
    BY <1>5, <1>10
  <2>4. cmd[q].wait \subseteq Clients /\ (cmd[q].at = "starting" => cmd[q].held \in Clients)
    BY <2>1 DEF CommandType, Local, Holding
  <2>5. HelperKeeps(cmd[q], helper, helper')
    BY <2>3, <2>4 DEF HelperKeeps
  <2> QED
    BY <1>1, <1>6, <1>10, <2>1, <2>2, <2>5, LocalKept
<1>16. Local(k, ed', helper')
  <2>1. /\ c \notin {ed'.client, ed'.closing, ed'.device} /\ c # None
    BY <1>6, NoneIsNoClient
  <2>2. /\ ~helper'[c].disposed /\ helper'[c].gen = k.gen
        /\ helper'[c].proc = "starting"
    BY <1>8, <1>9, <1>10
  <2> QED
    BY <1>4, <1>6, <1>9, <2>1, <2>2 DEF Local, OnTheWay, ExitWaits
<1>17. \A q \in Commands : Local(cmd'[q], ed', helper')
  BY <1>11, <1>15, <1>16
<1>18. Pair(cmd')
  <2>1. ASSUME NEW q \in Commands, q # p
        PROVE  /\ cmd[q].at \notin Sync
               /\ k.attempt = cmd[q].attempt => k.attempt = 0
               /\ k.held # cmd[q].held /\ k.held \notin cmd[q].wait
               /\ k.gen # cmd[q].gen
               /\ cmd[q].at = "starting" => cmd[q].held \notin k.wait
    <3>1. k.wait = cmd[p].wait
      BY <1>1 DEF k, CommandType
    <3> QED
      BY <1>1, <1>2, <1>3, <1>5, <1>9, <2>1, <3>1 DEF Alone, Inv, Pair
  <2>2. k.at \notin Sync
    BY <1>9 DEF Sync
  <2>3. ASSUME NEW a \in Commands, NEW b \in Commands, a # b
        PROVE  /\ cmd'[a].at \in Sync => cmd'[b].at \notin Sync
               /\ cmd'[a].attempt = cmd'[b].attempt => cmd'[a].attempt = 0
               /\ cmd'[a].at = "starting" =>
                    /\ cmd'[a].held # cmd'[b].held /\ cmd'[a].held \notin cmd'[b].wait
                    /\ cmd'[b].at = "starting" => cmd'[a].gen # cmd'[b].gen
    <3>1. CASE a # p /\ b # p
      BY <1>1, <1>11, <2>3, <3>1 DEF Inv, Pair
    <3>2. CASE a = p
      BY <1>11, <2>1, <2>2, <2>3, <3>2
    <3>3. CASE b = p
      BY <1>11, <2>1, <2>2, <2>3, <3>3
    <3> QED
      BY <3>1, <3>2, <3>3
  <2> QED
    BY <2>3 DEF Pair
<1>19. Newest(ed', cmd')
  BY <1>3, <1>4, <1>6, <1>9, <1>11 DEF Newest
<1>20. Owned(ed', helper', cmd')
  <2>1. SUFFICES ASSUME NEW d \in Clients, helper'[d].proc = "up", ~helper'[d].disposed
                 PROVE  \E q \in Commands : cmd'[q].at = "starting" /\ cmd'[q].held = d
    BY DEF Owned
  <2>2. d # c /\ d # None
    BY <1>8, <1>10, <2>1, NoneIsNoClient
  <2>3. PICK q \in Commands : cmd[q].at = "starting" /\ cmd[q].held = d
    BY <1>1, <1>4, <1>10, <2>1, <2>2 DEF Inv, Owned
  <2>4. q # p
    BY <2>3
  <2> QED
    BY <1>11, <2>3, <2>4
<1> QED
  BY <1>6, <1>10, <1>11, <1>13, <1>14, <1>17, <1>18, <1>19, <1>20 DEF IInv, TypeInv, Inv

(* The client that was created has started, and is still wanted.           *)
LEMMA StartedStep ==
  ASSUME IInv, NEW p \in Commands, ThreadFree, cmd[p].at = "starting",
         cmd[p].ans = "up", ed.gen = cmd[p].gen,
         ed' = [ed EXCEPT !.client = cmd[p].held], RequestOn(p, cmd[p].held),
         UNCHANGED helper
  PROVE  IInv'
<1> DEFINE c == cmd[p].held
           k == RequestAt(p, c)
<1>1. /\ ed \in EditorType /\ helper \in [Clients -> HelperType]
      /\ cmd \in [Commands -> CommandType] /\ Inv(ed, helper, cmd)
      /\ cmd[p] \in CommandType /\ ed.running \in Nat /\ TypeInv
  BY DEF IInv, TypeInv, EditorType
<1>2. Alone(cmd, p)
  BY ThreadIsOurs
<1>3. /\ c \in Clients /\ c # None /\ ~helper[c].disposed /\ helper[c].gen = ed.gen
      /\ helper[c].proc = "up" /\ ed.client = None /\ ed.closing = None
      /\ ed.state # "running" /\ cmd[p].attempt # 0
  BY <1>1 DEF Inv, Local, CommandType, Holding, Attempting
<1>4. cmd[p].attempt = ed.attempt
  BY <1>1 DEF Inv, Newest, ThreadFree, Sync
<1>5. ed.device = None
  BY <1>1, <1>3 DEF Inv, Core
<1>6. /\ ed' \in EditorType /\ ed'.client = c /\ ed'.closing = None /\ ed'.device = None
      /\ ed'.gen = ed.gen /\ ed'.attempt = ed.attempt /\ ed'.state = ed.state
      /\ ed'.running = ed.running /\ ed'.waiters = ed.waiters
  BY <1>1, <1>3, <1>5 DEF EditorType
<1>7. /\ k \in CommandType /\ k.at = "request" /\ k.held = c
      /\ k.attempt = cmd[p].attempt /\ k.wait = {}
  <2>1. "request" \in Labels
    BY DEF Labels, Sync
  <2> QED
    BY <1>1, <1>3, <2>1, Records
<1>8. cmd' = [cmd EXCEPT ![p] = k]
  BY DEF RequestOn, RequestAt
<1> HIDE DEF k, c
<1>9. /\ cmd' \in [Commands -> CommandType] /\ cmd'[p] = k
      /\ \A q \in Commands : q # p => cmd'[q] = cmd[q]
  BY <1>1, <1>7, <1>8
<1>10. ed.running = 0 /\ ed.waiters = {}
  BY <1>1, <1>3, NoClientIdle DEF Inv
<1>11. Counted(ed', cmd')
  BY <1>3, <1>6, <1>10, IdleCounted
<1>12. Shown(ed', cmd')
  <2>1. cmd'[p].at = "request" /\ cmd'[p].attempt = ed'.attempt
    BY <1>4, <1>6, <1>7, <1>9
  <2> QED
    BY <2>1 DEF Shown, Bears
<1>13. Core(ed', helper')
  BY <1>1, <1>3, <1>6 DEF Inv, Core
<1>14. ASSUME NEW q \in Commands, q # p PROVE Local(cmd[q], ed', helper')
  <2>1. cmd[q] \in CommandType /\ cmd[q].at \notin Sync /\ Local(cmd[q], ed, helper)
    BY <1>1, <1>2, <1>14 DEF Alone, Inv
  <2>2. c # cmd[q].held /\ (cmd[q].at = "starting" => ed.gen # cmd[q].gen)
    BY <1>1, <1>14 DEF Inv, Pair, c
  <2>3. EditorKeeps(cmd[q], ed, ed')
    BY <1>3, <1>5, <1>6, <2>2 DEF EditorKeeps
  <2>4. HelperKeeps(cmd[q], helper, helper')
    BY DEF HelperKeeps
  <2> QED
    BY <1>1, <1>6, <2>1, <2>3, <2>4, LocalKept
<1>15. Local(k, ed', helper')
  BY <1>3, <1>6, <1>7 DEF Local, OnTheWay, ExitWaits
<1>16. \A q \in Commands : Local(cmd'[q], ed', helper')
  BY <1>9, <1>14, <1>15
<1>17. Pair(cmd')
  <2>1. Pair([cmd EXCEPT ![p] = k])
    BY <1>1, <1>2, <1>7, PairKept DEF Inv, c
  <2> QED
    BY <1>8, <2>1
<1>18. Newest(ed', cmd')
  <2>1. \A q \in Commands : q # p /\ cmd[q].at = "starting" => ed.gen # cmd[q].gen
    BY <1>1 DEF Inv, Pair
  <2> QED
    BY <1>6, <1>7, <1>9, <2>1 DEF Newest
<1>19. Owned(ed', helper', cmd')
  <2>1. SUFFICES ASSUME NEW d \in Clients, helper[d].proc = "up", ~helper[d].disposed,
                        d # c
                 PROVE  \E q \in Commands : cmd'[q].at = "starting" /\ cmd'[q].held = d
    BY <1>6 DEF Owned
  <2>2. PICK q \in Commands : cmd[q].at = "starting" /\ cmd[q].held = d
    BY <1>1, <1>3, <2>1, NoneIsNoClient DEF Inv, Owned
  <2>3. q # p
    BY <2>1, <2>2 DEF c
  <2> QED
    BY <1>9, <2>2, <2>3
<1> QED
  BY <1>1, <1>6, <1>9, <1>11, <1>12, <1>13, <1>16, <1>17, <1>18, <1>19
  DEF IInv, TypeInv, Inv

(* It is not wanted any more, or it did not start.                         *)
LEMMA NotStartedStep ==
  ASSUME IInv, NEW p \in Commands, ThreadFree, cmd[p].at = "starting",
         helper' = Disposed(helper, {cmd[p].held}), UNCHANGED ed,
         NEW k \in CommandType, k.at # "starting", k.attempt \in {0, cmd[p].attempt},
         k.held = None, k.wait \subseteq {cmd[p].held}, Local(k, ed, helper'),
         cmd' = [cmd EXCEPT ![p] = k]
  PROVE  IInv'
<1>1. /\ ed \in EditorType /\ helper \in [Clients -> HelperType]
      /\ cmd \in [Commands -> CommandType] /\ Inv(ed, helper, cmd)
      /\ cmd[p] \in CommandType
  BY DEF IInv, TypeInv
<1>2. /\ cmd[p].held \in Clients /\ cmd[p].held # ed.client /\ cmd[p].held # ed.closing
  BY <1>1 DEF Inv, Local, CommandType, Holding
<1>3. \A d \in Clients :
           /\ helper'[d].proc = helper[d].proc /\ helper'[d].gen = helper[d].gen
           /\ helper'[d].retired = helper[d].retired
           /\ d \in {cmd[p].held} => helper'[d].disposed
           /\ d \notin {cmd[p].held} => helper'[d].disposed = helper[d].disposed
  BY <1>1, DisposedFields
<1>4. ~Flies(cmd[p], ed) /\ ~Bears(cmd[p], ed)
  BY DEF Flies, Bears, OnTheWay
<1>5. k.held = None /\ ~Flies(k, ed)
  <2>1. k.at \in {"evaluating", "sending"} => k.held # None
    BY DEF Local, Holding, HelperRequests
  <2> QED
    BY <2>1 DEF Flies
<1>6. Counted(ed, [cmd EXCEPT ![p] = k])
  <2>1. Counted(ed, cmd) /\ ed.waiters \subseteq ed.waiters
    BY <1>1 DEF Inv
  <2> QED
    BY <1>1, <1>4, <1>5, <2>1, CountedSame
<1>7. Shown(ed, [cmd EXCEPT ![p] = k])
  <2>1. StillBears(k, cmd[p], ed)
    BY <1>4 DEF StillBears
  <2> QED
    BY <1>1, <2>1, ShownKept DEF Inv
<1>8. Core(ed, helper')
  <2>1. Core(ed, helper)
    BY <1>1 DEF Inv
  <2>2. \A d \in Clients : helper'[d].retired => helper'[d].disposed
    BY <1>3, <2>1 DEF Core
  <2>3. ed.client \in {None} \cup Clients /\ ed.closing \in {None} \cup Clients
    BY <1>1 DEF EditorType
  <2>4. ed.client # None => ~helper'[ed.client].disposed
    BY <1>2, <1>3, <2>1, <2>3 DEF Core
  <2> QED
    BY <1>3, <2>1, <2>2, <2>3, <2>4 DEF Core
<1> QED
  BY <1>1, <1>2, <1>6, <1>7, <1>8, KillStep

(* ClientStarted keeps the invariant.                                      *)
LEMMA ClientStartedStep ==
  ASSUME IInv, NEW p \in Commands, ClientStarted(p)
  PROVE  IInv'
<1> USE DEF ClientStarted
<1>1. /\ ThreadFree /\ cmd[p].at = "starting" /\ cmd[p].ans = "up"
      /\ helper \in [Clients -> HelperType] /\ cmd[p] \in CommandType
      /\ Local(cmd[p], ed, helper)
  BY DEF Resumes, IInv, TypeInv, Inv
<1>2. CASE ed.gen = cmd[p].gen
  BY <1>1, <1>2, StartedStep
<1>3. CASE ed.gen # cmd[p].gen
  <2> DEFINE c == cmd[p].held
             k == [At(p, "stale") EXCEPT !.attempt = cmd[p].attempt, !.wait = {c}]
  <2>1. /\ helper' = Disposed(helper, {c}) /\ UNCHANGED ed
        /\ cmd' = [cmd EXCEPT ![p] = k]
    BY <1>3
  <2>2. c \in Clients /\ helper[c].proc = "up" /\ cmd[p].attempt \in Nat /\ cmd[p].attempt # 0
    BY <1>1 DEF Local, Holding, Attempting, CommandType
  <2>3. /\ k \in CommandType /\ k.at = "stale" /\ k.held = None
        /\ k.attempt = cmd[p].attempt /\ k.wait = {c}
    <3>1. "stale" \in Labels
      BY DEF Labels, ExitWaits
    <3>2. /\ At(p, "stale") \in CommandType /\ At(p, "stale").at = "stale"
          /\ At(p, "stale").held = None
      BY <3>1, AtRecord
    <3>3. {c} \in SUBSET Clients
      BY <2>2
    <3> QED
      BY <2>2, <3>2, <3>3 DEF CommandType
  <2> HIDE DEF k
  <2>4. helper'[c].disposed /\ helper'[c].proc = "up"
    BY <1>1, <2>1, <2>2, DisposedFields
  <2>5. Local(k, ed, helper')
    BY <2>2, <2>3, <2>4 DEF Local, Holding, HelperRequests, OnTheWay
  <2> QED
    BY <1>1, <2>1, <2>3, <2>5, NotStartedStep
<1> QED
  BY <1>2, <1>3

(* ClientNotStarted keeps the invariant.                                   *)
LEMMA ClientNotStartedStep ==
  ASSUME IInv, NEW p \in Commands, ClientNotStarted(p)
  PROVE  IInv'
<1>1. /\ ThreadFree /\ cmd[p].at = "starting" /\ ed \in EditorType
      /\ Local(cmd[p], ed, helper) /\ helper' = Disposed(helper, {cmd[p].held})
      /\ ed' = IF ed.gen # cmd[p].gen THEN ed ELSE [ed EXCEPT !.client = None]
      /\ NoClient(p)
  BY DEF ClientNotStarted, Resumes, IInv, TypeInv, Inv
<1>2. UNCHANGED ed
  <2>1. CASE ed.gen = cmd[p].gen
    <3>1. ed.client = None
      BY <1>1, <2>1 DEF Local
    <3>2. [ed EXCEPT !.client = None] = ed
      BY <1>1, <3>1 DEF EditorType
    <3> QED
      BY <1>1, <2>1, <3>2
  <2>2. CASE ed.gen # cmd[p].gen
    BY <1>1, <2>2
  <2> QED
    BY <2>1, <2>2
<1>3. "done" \in Blank
  BY DEF Blank
<1>4. PICK k \in {DoneAt(p), ReadyAt(p), At(p, "done")} :
        /\ IsBlank(k) /\ k \in CommandType /\ k.at \in Blank /\ k.at # "starting"
        /\ cmd' = [cmd EXCEPT ![p] = k]
  BY <1>1, <1>3, BlankCases DEF NoClient
<1>5. k.attempt = 0 /\ k.held = None /\ k.wait = {}
  BY <1>4 DEF IsBlank
<1>6. Local(k, ed, helper')
  BY <1>4, BlankLocal
<1> QED
  BY <1>1, <1>2, <1>4, <1>5, <1>6, NotStartedStep

----------------------------------------------------------------------------
(* connectToDevice, action by action.                                      *)

(* WaitForClosing keeps the invariant.                                     *)
LEMMA WaitForClosingStep ==
  ASSUME IInv, NEW p \in Commands, WaitForClosing(p)
  PROVE  IInv'
<1>1. cmd[p].at = "connect" /\ cmd[p].at \in Sync /\ cmd[p].at # "starting"
  BY DEF WaitForClosing, Sync
<1>2. CASE ed.closing # None
  BY <1>1, <1>2, DisposeStep DEF WaitForClosing
<1>3. CASE ed.closing = None
  BY <1>1, <1>3, CheckStep DEF WaitForClosing
<1> QED
  BY <1>2, <1>3

(* AfterClosing keeps the invariant.                                       *)
LEMMA AfterClosingStep ==
  ASSUME IInv, NEW p \in Commands, AfterClosing(p)
  PROVE  IInv'
<1>1. /\ ThreadFree /\ cmd[p].at = "closed" /\ Local(cmd[p], ed, helper)
      /\ UNCHANGED <<ed, helper>>
  BY DEF AfterClosing, Resumes, IInv, Inv
<1>2. CASE IsDisposedGenerationCurrent(cmd[p].gen)
  <2>1. ed.closing = None /\ Jump(p, "check")
    BY <1>1, <1>2 DEF IsDisposedGenerationCurrent, Local, AfterClosing
  <2> QED
    BY <1>1, <2>1, CheckStep
<1>3. CASE ~IsDisposedGenerationCurrent(cmd[p].gen)
  <2>1. Return(p, ed.state = "connected") /\ "done" \in Blank
    BY <1>3 DEF AfterClosing, Blank
  <2>2. cmd[p].at \in Elsewhere
    BY <1>1 DEF Elsewhere, Labels, ExitWaits, OnTheWay
  <2> QED
    BY <1>1, <2>1, <2>2, LeavesFrom
<1> QED
  BY <1>2, <1>3

(* StopRunning keeps the invariant.                                        *)
LEMMA StopRunningStep ==
  ASSUME IInv, NEW p \in Commands, StopRunning(p)
  PROVE  IInv'
<1>1. /\ cmd[p].at = "check" /\ cmd[p].at \in Sync /\ cmd[p].at # "starting"
      /\ ed.closing = None /\ ed \in EditorType
  BY DEF StopRunning, Sync, IInv, TypeInv, Inv, Local
<1>2. CASE ed.state = "running"
  BY <1>1, <1>2, DisposeStep DEF StopRunning
<1>3. CASE ed.state # "running"
  <2>1. /\ ed' = [ed EXCEPT !.attempt = NextAttempt] /\ UNCHANGED helper
        /\ cmd' = [cmd EXCEPT ![p] = [At(p, "ensure") EXCEPT !.attempt = NextAttempt]]
    BY <1>3 DEF StopRunning
  <2>2. NextAttempt \in Nat
    BY FreshStamps
  <2>3. /\ ed' \in EditorType /\ ed'.client = ed.client /\ ed'.closing = ed.closing
        /\ ed'.device = ed.device /\ ed'.gen = ed.gen /\ ed'.attempt = NextAttempt
        /\ ed'.running = ed.running /\ ed'.waiters = ed.waiters /\ ed'.state = ed.state
    BY <1>1, <2>1, <2>2 DEF EditorType
  <2> QED
    BY <1>1, <1>3, <2>1, <2>3, AttemptStep
<1> QED
  BY <1>2, <1>3

(* AfterStop keeps the invariant.                                          *)
LEMMA AfterStopStep ==
  ASSUME IInv, NEW p \in Commands, AfterStop(p)
  PROVE  IInv'
<1>1. /\ ThreadFree /\ cmd[p].at = "stopped" /\ Local(cmd[p], ed, helper)
      /\ UNCHANGED helper /\ ed \in EditorType
  BY DEF AfterStop, Resumes, IInv, TypeInv, Inv
<1>2. CASE IsDisposedGenerationCurrent(cmd[p].gen)
  <2>1. /\ ed' = [ed EXCEPT !.state = "disconnected", !.attempt = NextAttempt]
        /\ cmd' = [cmd EXCEPT ![p] = [At(p, "ensure") EXCEPT !.attempt = NextAttempt]]
    BY <1>2 DEF AfterStop
  <2>2. NextAttempt \in Nat /\ "disconnected" \in ConnectionState
    BY FreshStamps DEF ConnectionState
  <2>3. /\ ed' \in EditorType /\ ed'.client = ed.client /\ ed'.closing = ed.closing
        /\ ed'.device = ed.device /\ ed'.gen = ed.gen /\ ed'.attempt = NextAttempt
        /\ ed'.running = ed.running /\ ed'.waiters = ed.waiters
        /\ ed'.state = "disconnected"
    BY <1>1, <2>1, <2>2 DEF EditorType
  <2>4. ed.closing = None
    BY <1>1, <1>2 DEF IsDisposedGenerationCurrent, Local
  <2> QED
    BY <1>1, <2>1, <2>3, <2>4, AttemptStep
<1>3. CASE ~IsDisposedGenerationCurrent(cmd[p].gen)
  <2>1. Return(p, ed.state = "connected") /\ "done" \in Blank /\ UNCHANGED ed
    BY <1>3 DEF AfterStop, Blank
  <2>2. cmd[p].at \in Elsewhere
    BY <1>1 DEF Elsewhere, Labels, ExitWaits, OnTheWay
  <2> QED
    BY <1>1, <2>1, <2>2, LeavesFrom
<1> QED
  BY <1>2, <1>3

(* A command takes up the client there is.                                 *)
LEMMA RequestStep ==
  ASSUME IInv, NEW p \in Commands, ThreadFree \/ cmd[p].at \in Sync,
         cmd[p].at \in {"ensure", "stale"}, ed.client # None,
         RequestOn(p, ed.client), UNCHANGED <<ed, helper>>
  PROVE  IInv'
<1> DEFINE k == RequestAt(p, ed.client)
<1>1. /\ TypeInv /\ ed.client \in Clients /\ "request" \in Labels
      /\ \A q \in Commands : Local(cmd[q], ed, helper)
  BY DEF IInv, TypeInv, EditorType, Labels, Sync, Inv
<1>2. /\ k \in CommandType /\ k.at = "request" /\ k.held = ed.client
      /\ k.attempt = cmd[p].attempt /\ k.wait = {}
  BY <1>1, Records
<1>3. cmd' = [cmd EXCEPT ![p] = k]
  BY DEF RequestOn, RequestAt
<1> HIDE DEF k
<1>4. \A q \in Commands : cmd[q].at = "starting" => cmd[q].gen # ed.gen
  BY <1>1 DEF Local
<1>5. ~Flies(k, ed) /\ ~Flies(cmd[p], ed) /\ Ordinary(k, cmd[p], ed)
  BY <1>2 DEF Flies, Ordinary
<1>6. StillBears(k, cmd[p], ed)
  BY <1>2 DEF StillBears, Bears, OnTheWay
<1>7. cmd[p].attempt # 0
  BY <1>1 DEF Local, Attempting
<1>8. Local(k, ed, helper)
  BY <1>2, <1>7 DEF Local, OnTheWay, ExitWaits
<1> QED
  BY <1>2, <1>3, <1>4, <1>5, <1>6, <1>8, Goes

(* EnsureClient keeps the invariant.                                       *)
LEMMA EnsureClientStep ==
  ASSUME IInv, NEW p \in Commands, EnsureClient(p)
  PROVE  IInv'
<1>1. cmd[p].at = "ensure" /\ cmd[p].at \in Sync /\ cmd[p].at # "starting"
  BY DEF EnsureClient, Sync
<1>2. CASE ed.client # None
  BY <1>1, <1>2, RequestStep DEF EnsureClient
<1>3. CASE ed.client = None /\ \E c \in Clients : CreateClient(p, c)
  BY <1>1, <1>3, CreateStep
<1>4. CASE /\ ed.client = None /\ \A c \in Clients : helper[c].proc = "none"
           /\ NoClient(p) /\ UNCHANGED <<ed, helper>>
  <2>1. \A q \in Commands : Local(cmd[q], ed, helper) /\ cmd[q] \in CommandType
    BY DEF IInv, TypeInv, Inv
  <2>2. \A q \in Commands : cmd[q].at # "starting"
    BY <1>4, <2>1 DEF Local, Holding, CommandType
  <2>3. ~Flies(cmd[p], ed) /\ Unshown(cmd[p], ed) /\ "done" \in Blank
    BY <1>1, <1>4 DEF Flies, Unshown, Blank
  <2> QED
    BY <1>1, <1>4, <2>2, <2>3, Leaves DEF NoClient
<1> QED
  BY <1>2, <1>3, <1>4 DEF EnsureClient

(* StaleClientGone keeps the invariant.                                    *)
LEMMA StaleClientGoneStep ==
  ASSUME IInv, NEW p \in Commands, StaleClientGone(p)
  PROVE  IInv'
<1>1. ThreadFree /\ cmd[p].at = "stale" /\ UNCHANGED <<ed, helper>>
  BY DEF StaleClientGone, Resumes
<1>2. CASE ed.client # None
  BY <1>1, <1>2, RequestStep DEF StaleClientGone
<1>3. CASE ed.client = None
  <2>1. NoClient(p) /\ "done" \in Blank
    BY <1>3 DEF StaleClientGone, Blank
  <2>2. cmd[p].at \in Elsewhere
    BY <1>1 DEF Elsewhere, Labels, ExitWaits, OnTheWay
  <2> QED
    BY <1>1, <2>1, <2>2, LeavesFrom DEF NoClient
<1> QED
  BY <1>2, <1>3

(* RequestConnect keeps the invariant.                                     *)
LEMMA RequestConnectStep ==
  ASSUME IInv, NEW p \in Commands, RequestConnect(p)
  PROVE  IInv'
<1>1. /\ cmd[p].at = "request" /\ cmd[p].at \in Sync /\ UNCHANGED helper
      /\ ed \in EditorType /\ cmd \in [Commands -> CommandType] /\ cmd[p] \in CommandType
      /\ helper \in [Clients -> HelperType] /\ Inv(ed, helper, cmd)
  BY DEF RequestConnect, Sync, IInv, TypeInv
<1>2. CASE ed.attempt # cmd[p].attempt
  <2>1. Return(p, ed.state = "connected") /\ UNCHANGED ed
    BY <1>2 DEF RequestConnect
  <2>2. ~Flies(cmd[p], ed) /\ Unshown(cmd[p], ed) /\ "done" \in Blank
    BY <1>1, <1>2 DEF Flies, Unshown, Blank, Bears, OnTheWay
  <2> QED
    BY <1>1, <2>1, <2>2, Leaves
<1>3. CASE ed.attempt = cmd[p].attempt
  <2>1. ed' = [ed EXCEPT !.state = "connecting"]
    BY <1>3 DEF RequestConnect
  <2>2. PICK port \in IF cmd[p].port = "picked" THEN {"picked"} ELSE {"none", "stored"} :
          cmd' = [cmd EXCEPT ![p] = [cmd[p] EXCEPT !.at = "connecting", !.port = port,
                                                   !.ans = "wait", !.note = "none"]]
    BY <1>1, <1>3 DEF RequestConnect
  <2> DEFINE k == [cmd[p] EXCEPT !.at = "connecting", !.port = port,
                                 !.ans = "wait", !.note = "none"]
  <2>3. /\ k \in CommandType /\ k.at = "connecting" /\ k.held = cmd[p].held
        /\ k.attempt = cmd[p].attempt /\ k.wait = cmd[p].wait /\ k.ans = "wait"
    <3>1. /\ "connecting" \in Labels /\ "wait" \in AnswerType
          /\ port \in {"none", "stored", "picked"}
      BY DEF Labels, HelperRequests, AnswerType
    <3> QED
      BY <1>1, <3>1 DEF CommandType
  <2>4. cmd' = [cmd EXCEPT ![p] = k]
    BY <2>2
  <2> HIDE DEF k
  <2>5. "connecting" \in ConnectionState
    BY DEF ConnectionState
  <2>6. /\ ed' \in EditorType /\ ed'.client = ed.client /\ ed'.closing = ed.closing
        /\ ed'.device = ed.device /\ ed'.gen = ed.gen /\ ed'.attempt = ed.attempt
        /\ ed'.running = ed.running /\ ed'.waiters = ed.waiters
        /\ ed'.state = "connecting"
    BY <1>1, <2>1, <2>5 DEF EditorType
  <2>7. SameIds(ed, ed') /\ SameProcs(helper, helper')
    BY <1>1, <2>6 DEF SameIds, SameProcs
  <2>8. cmd[p].held = ed.client /\ cmd[p].held # None /\ cmd[p].attempt # 0
    BY <1>1 DEF Inv, Local, Holding, Attempting
  <2>9. ed.closing = None
    BY <1>1, <2>8 DEF Inv, Core
  <2>10. ~Flies(k, ed) /\ ~Flies(cmd[p], ed) /\ Ordinary(k, cmd[p], ed)
    BY <1>1, <2>3 DEF Flies, Ordinary
  <2>11. Local(k, ed', helper')
    BY <2>3, <2>6, <2>8, <2>9 DEF Local, ExitWaits
  <2>12. Counted(ed', [cmd EXCEPT ![p] = k])
    <3>1. Counted(ed, cmd) /\ ed'.waiters \subseteq ed.waiters
      BY <1>1, <2>6 DEF Inv
    <3> QED
      BY <1>1, <2>6, <2>10, <3>1, CountedSame
  <2>13. Shown(ed', [cmd EXCEPT ![p] = k])
    <3>1. [cmd EXCEPT ![p] = k][p] = k
      BY <1>1
    <3>2. Bears(k, ed')
      BY <1>3, <2>3, <2>6, <2>8 DEF Bears, OnTheWay
    <3> QED
      BY <2>6, <3>1, <3>2 DEF Shown
  <2> QED
    BY <1>1, <2>3, <2>4, <2>6, <2>7, <2>10, <2>11, <2>12, <2>13, Changes
<1> QED
  BY <1>2, <1>3

(* A connect goes on waiting.                                              *)
LEMMA OnTheWayStep ==
  ASSUME IInv, NEW p \in Commands, ThreadFree, cmd[p].at \in OnTheWay,
         NEW k \in CommandType, k.at \in OnTheWay, k.ans = "wait",
         k.held = cmd[p].held, k.attempt = cmd[p].attempt, k.wait = cmd[p].wait,
         cmd' = [cmd EXCEPT ![p] = k], UNCHANGED <<ed, helper>>
  PROVE  IInv'
<1>1. /\ cmd[p].at \notin {"starting", "ensure", "request"} /\ k.at # "starting"
      /\ Local(cmd[p], ed, helper)
  BY DEF OnTheWay, IInv, Inv
<1>2. ~Flies(k, ed) /\ ~Flies(cmd[p], ed) /\ Ordinary(k, cmd[p], ed)
  BY <1>1 DEF Flies, OnTheWay, Ordinary
<1>3. StillBears(k, cmd[p], ed)
  BY <1>1 DEF StillBears, Bears, OnTheWay
<1>4. k.held # None /\ k.attempt # 0 /\ (k.attempt = ed.attempt => k.held # ed.closing)
  BY <1>1 DEF Local, OnTheWay, Holding, HelperRequests, Attempting
<1>5. Local(k, ed, helper)
  BY <1>4 DEF Local, OnTheWay, ExitWaits
<1> QED
  BY <1>1, <1>2, <1>3, <1>5, Goes

(* AwaitHost leaves HostAt behind.                                         *)
LEMMA HostStep ==
  ASSUME IInv, NEW p \in Commands, NEW label \in Labels, AwaitHost(p, label)
  PROVE  /\ HostAt(p, label) \in CommandType
         /\ HostAt(p, label).at = label /\ HostAt(p, label).held = cmd[p].held
         /\ HostAt(p, label).gen = cmd[p].gen /\ HostAt(p, label).ans = "wait"
         /\ HostAt(p, label).attempt = cmd[p].attempt
         /\ HostAt(p, label).wait = cmd[p].wait
         /\ HostAt(p, label).cleared = cmd[p].cleared
         /\ cmd' = [cmd EXCEPT ![p] = HostAt(p, label)]
<1>1. cmd[p] \in CommandType /\ cmd \in [Commands -> CommandType] /\ "wait" \in AnswerType
  BY DEF IInv, TypeInv, AnswerType
<1>2. cmd' = [cmd EXCEPT ![p] = HostAt(p, label)]
  BY <1>1 DEF AwaitHost, HostAt
<1> QED
  BY <1>1, <1>2 DEF HostAt, CommandType

(* The state becomes "disconnected" or "idle"; the device may be forgotten *)
LEMMA QuietFields ==
  ASSUME NEW e \in EditorType, NEW s \in {"disconnected", "idle"}
  PROVE  /\ [e EXCEPT !.state = s] \in EditorType
         /\ [e EXCEPT !.state = s].client = e.client
         /\ [e EXCEPT !.state = s].closing = e.closing
         /\ [e EXCEPT !.state = s].device = e.device
         /\ [e EXCEPT !.state = s].gen = e.gen /\ [e EXCEPT !.state = s].attempt = e.attempt
         /\ [e EXCEPT !.state = s].running = e.running
         /\ [e EXCEPT !.state = s].waiters = e.waiters /\ [e EXCEPT !.state = s].state = s
         /\ ClearSessionState(e) \in EditorType
         /\ ClearSessionState(e).client = e.client
         /\ ClearSessionState(e).closing = e.closing
         /\ ClearSessionState(e).device = None
         /\ ClearSessionState(e).gen = e.gen /\ ClearSessionState(e).attempt = e.attempt
         /\ ClearSessionState(e).running = e.running
         /\ ClearSessionState(e).waiters = e.waiters /\ ClearSessionState(e).state = e.state
<1>1. s \in ConnectionState
  BY DEF ConnectionState
<1> QED
  BY <1>1 DEF ClearSessionState, EditorType

(* The state changes and the device is forgotten.                          *)
LEMMA ClearedFields ==
  ASSUME NEW e \in EditorType, NEW s \in {"disconnected", "idle"}
  PROVE  /\ [ClearSessionState(e) EXCEPT !.state = s] \in EditorType
         /\ [ClearSessionState(e) EXCEPT !.state = s].client = e.client
         /\ [ClearSessionState(e) EXCEPT !.state = s].closing = e.closing
         /\ [ClearSessionState(e) EXCEPT !.state = s].device = None
         /\ [ClearSessionState(e) EXCEPT !.state = s].gen = e.gen
         /\ [ClearSessionState(e) EXCEPT !.state = s].attempt = e.attempt
         /\ [ClearSessionState(e) EXCEPT !.state = s].running = e.running
         /\ [ClearSessionState(e) EXCEPT !.state = s].waiters = e.waiters
         /\ [ClearSessionState(e) EXCEPT !.state = s].state = s
<1> DEFINE f == ClearSessionState(e)
<1>1. /\ f \in EditorType /\ f.client = e.client /\ f.closing = e.closing
      /\ f.device = None /\ f.gen = e.gen /\ f.attempt = e.attempt
      /\ f.running = e.running /\ f.waiters = e.waiters
  BY QuietFields
<1> HIDE DEF f
<1>2. /\ [f EXCEPT !.state = s] \in EditorType
      /\ [f EXCEPT !.state = s].client = f.client
      /\ [f EXCEPT !.state = s].closing = f.closing
      /\ [f EXCEPT !.state = s].device = f.device
      /\ [f EXCEPT !.state = s].gen = f.gen
      /\ [f EXCEPT !.state = s].attempt = f.attempt
      /\ [f EXCEPT !.state = s].running = f.running
      /\ [f EXCEPT !.state = s].waiters = f.waiters
      /\ [f EXCEPT !.state = s].state = s
  BY <1>1, QuietFields
<1> QED
  BY <1>1, <1>2 DEF f

(* The state says that there is no connection; the count stays.            *)
Quieter(e, e2) ==
  /\ e2 \in EditorType
  /\ e2.client = e.client /\ e2.closing = e.closing /\ e2.gen = e.gen
  /\ e2.attempt = e.attempt /\ e2.device \in {e.device, None}
  /\ e2.running = e.running /\ e2.waiters = e.waiters
  /\ e2.state \in {"disconnected", "idle"}

(* A command says so and leaves.                                           *)
LEMMA QuieterStep ==
  ASSUME IInv, NEW p \in Commands, NEW label \in Blank, NEW ok, ThreadFree,
         cmd[p].at \notin {"starting", "ensure"}, ~Flies(cmd[p], ed),
         Finish(p) \/ Return(p, ok) \/ Jump(p, label),
         Quieter(ed, ed'), UNCHANGED helper
  PROVE  IInv'
<1>1. SameIds(ed, ed')
  BY DEF Quieter, SameIds
<1>2. /\ cmd \in [Commands -> CommandType] /\ Counted(ed, cmd)
      /\ ed'.waiters \subseteq ed.waiters
  BY DEF IInv, TypeInv, Inv, Quieter
<1>3. ASSUME NEW k, IsBlank(k)
      PROVE  Counted(ed', [cmd EXCEPT ![p] = k]) /\ Shown(ed', [cmd EXCEPT ![p] = k])
  <2>1. ~Flies(k, ed)
    BY <1>3, BlankLocal DEF IsBlank
  <2>2. /\ ed'.client = ed.client /\ ed'.gen = ed.gen /\ ed'.running = ed.running
        /\ ed'.state # "running" /\ ed'.state \notin {"connected", "connecting"}
    BY DEF Quieter
  <2>3. Counted(ed', [cmd EXCEPT ![p] = k])
    BY <1>2, <2>1, <2>2, CountedSame
  <2>4. Shown(ed', [cmd EXCEPT ![p] = k])
    BY <2>2, ShownPlain
  <2> QED
    BY <2>3, <2>4
<1> QED
  BY <1>1, <1>3, BlankChanges DEF Quieter

(* A connect is told that there is no link: the client goes.               *)
LEMMA AbandonStep ==
  ASSUME IInv, NEW p \in Commands, ThreadFree, cmd[p].at = "connecting",
         AbandonClient, Return(p, FALSE)
  PROVE  IInv'
<1> DEFINE e == HandleClientError(ed, "not_connected")
           r == Retired(helper, "not_connected")
<1>1. ed' = DisposeClient(e) /\ helper' = Disposed(r, {e.closing})
  BY DEF AbandonClient
<1>2. /\ ed \in EditorType /\ helper \in [Clients -> HelperType] /\ Core(ed, helper)
      /\ ed.client \in {None} \cup Clients /\ ed.closing \in {None} \cup Clients
  BY DEF IInv, TypeInv, EditorType, Inv
<1>3. /\ e \in EditorType /\ e.state = "disconnected"
      /\ e.closing = IF ed.client = None THEN ed.closing ELSE ed.client
  BY <1>2, RetireFields
<1>4. /\ ed' \in EditorType /\ ed'.client = None /\ ed'.closing = None
      /\ ed'.device = None /\ ed'.state = "disconnected"
      /\ ed'.running = 0 /\ ed'.waiters = {}
      /\ ed'.gen = NextGeneration /\ ed'.attempt = NextAttempt
  BY <1>1, <1>3, DisposeFields
<1>5. /\ r \in [Clients -> HelperType]
      /\ \A c \in Clients :
           /\ r[c].proc = helper[c].proc /\ r[c].gen = helper[c].gen
           /\ helper[c].disposed => r[c].disposed
           /\ c # ed.client => r[c].disposed = helper[c].disposed
           /\ r[c].retired => r[c].disposed
  <2>1. CASE ed.client = None
    <3>1. r = helper
      BY <2>1 DEF Retired
    <3> QED
      BY <1>2, <3>1 DEF Core
  <2>2. CASE ed.client # None
    <3> DEFINE d == Disposed(helper, {ed.client})
               n == [d[ed.client] EXCEPT !.retired = TRUE]
    <3>1. r = [d EXCEPT ![ed.client] = n] /\ ed.client \in Clients
      BY <1>2, <2>2 DEF Retired
    <3>2. /\ d \in [Clients -> HelperType]
          /\ \A c \in Clients :
               /\ d[c].proc = helper[c].proc /\ d[c].gen = helper[c].gen
               /\ d[c].retired = helper[c].retired
               /\ c \in {ed.client} => d[c].disposed
               /\ c \notin {ed.client} => d[c].disposed = helper[c].disposed
      BY <1>2, DisposedFields
    <3>3. d[ed.client] \in HelperType /\ d[ed.client].disposed
      BY <3>1, <3>2
    <3> HIDE DEF d
    <3>4. /\ n \in HelperType /\ n.proc = d[ed.client].proc
          /\ n.gen = d[ed.client].gen /\ n.disposed
      BY <3>3, RetiredHelper
    <3> HIDE DEF n, r
    <3>5. /\ r \in [Clients -> HelperType] /\ r[ed.client] = n
          /\ \A c \in Clients : c # ed.client => r[c] = d[c]
      BY <3>1, <3>2, <3>4
    <3>6. ASSUME NEW c \in Clients, c # ed.client
          PROVE  /\ r[c].proc = helper[c].proc /\ r[c].gen = helper[c].gen
                 /\ r[c].disposed = helper[c].disposed
                 /\ r[c].retired = helper[c].retired
      BY <3>2, <3>5, <3>6
    <3>7. \A c \in Clients : helper[c].retired => helper[c].disposed
      BY <1>2 DEF Core
    <3>8. /\ r[ed.client].proc = helper[ed.client].proc
          /\ r[ed.client].gen = helper[ed.client].gen /\ r[ed.client].disposed
      BY <3>1, <3>2, <3>4, <3>5
    <3>9. ASSUME NEW c \in Clients
          PROVE  /\ r[c].proc = helper[c].proc /\ r[c].gen = helper[c].gen
                 /\ helper[c].disposed => r[c].disposed
                 /\ c # ed.client => r[c].disposed = helper[c].disposed
                 /\ r[c].retired => r[c].disposed
      <4>1. CASE c = ed.client
        BY <3>8, <4>1
      <4>2. CASE c # ed.client
        BY <3>6, <3>7, <4>2
      <4> QED
        BY <4>1, <4>2
    <3> QED
      BY <3>5, <3>9
  <2> QED
    BY <2>1, <2>2
<1> HIDE DEF e, r
<1>6. /\ helper' \in [Clients -> HelperType]
      /\ \A c \in Clients :
           /\ helper'[c].proc = r[c].proc /\ helper'[c].gen = r[c].gen
           /\ helper'[c].retired = r[c].retired
           /\ c \in {e.closing} => helper'[c].disposed
           /\ c \notin {e.closing} => helper'[c].disposed = r[c].disposed
  BY <1>1, <1>5, DisposedFields
<1>7. Superseded(ed, ed', cmd)
  BY <1>4, FreshStamps DEF Superseded
<1>8. ASSUME NEW c \in Clients
      PROVE  /\ helper'[c].proc = helper[c].proc /\ helper'[c].gen = helper[c].gen
             /\ helper[c].disposed => helper'[c].disposed
             /\ c \notin {ed.client, ed.closing} => helper'[c].disposed = helper[c].disposed
             /\ c \in {ed.client, ed.closing} => helper'[c].disposed
             /\ helper'[c].retired => helper'[c].disposed
  <2>1. ed.client # None => ed.closing = None
    BY <1>2 DEF Core
  <2>2. c \in {ed.client, ed.closing} <=> c = e.closing
    BY <1>3, <2>1, NoneIsNoClient
  <2>3. CASE c = e.closing
    BY <1>5, <1>6, <2>2, <2>3
  <2>4. CASE c # e.closing
    <3>1. /\ helper'[c].disposed = r[c].disposed /\ helper'[c].retired = r[c].retired
          /\ r[c].disposed = helper[c].disposed /\ (r[c].retired => r[c].disposed)
      BY <1>5, <1>6, <2>2, <2>4
    <3> QED
      BY <1>5, <1>6, <2>2, <2>4, <3>1
  <2> QED
    BY <2>3, <2>4
<1>9. GivenUp(ed, ed', helper, helper')
  BY <1>8 DEF GivenUp
<1>10. Core(ed', helper')
  BY <1>4, <1>8 DEF Core
<1>11. "done" \in Blank
  BY DEF Blank
<1> QED
  BY <1>4, <1>6, <1>7, <1>9, <1>10, <1>11, BlankSupersedes

(* ConnectAnswered keeps the invariant.                                    *)
LEMMA ConnectAnsweredStep ==
  ASSUME IInv, NEW p \in Commands, ConnectAnswered(p)
  PROVE  IInv'
<1>1. /\ ThreadFree /\ cmd[p].at = "connecting" /\ cmd[p].at \in OnTheWay
      /\ cmd[p].at \notin {"starting", "ensure", "request"} /\ ~Flies(cmd[p], ed)
  BY DEF ConnectAnswered, Resumes, OnTheWay, Flies
<1>2. /\ ed \in EditorType /\ helper \in [Clients -> HelperType] /\ Inv(ed, helper, cmd)
      /\ cmd \in [Commands -> CommandType] /\ Local(cmd[p], ed, helper)
      /\ ed.client \in {None} \cup Clients
  BY DEF IInv, TypeInv, Inv, EditorType
<1>3. "done" \in Blank
  BY DEF Blank
<1>4. CASE /\ ed.attempt # cmd[p].attempt /\ Return(p, ed.state = "connected")
           /\ UNCHANGED <<ed, helper>>
  <2>1. Unshown(cmd[p], ed)
    BY <1>1, <1>4 DEF Unshown, Bears
  <2> QED
    BY <1>1, <1>3, <1>4, <2>1, Leaves
<1>5. CASE /\ ed.attempt = cmd[p].attempt /\ Answer(p) = "ok"
           /\ ed' = ApplyConnectedDevice(ed, cmd[p].held)
           /\ Return(p, TRUE) /\ UNCHANGED helper
  <2>1. cmd[p].ans # "wait"
    BY <1>5 DEF Answer
  <2>2. cmd[p].held = ed.client
    BY <1>1, <1>2, <1>5, <2>1 DEF Local
  <2>3. "connected" \in ConnectionState
    BY DEF ConnectionState
  <2>4. /\ ed' \in EditorType /\ ed'.client = ed.client /\ ed'.closing = ed.closing
        /\ ed'.device = ed.client /\ ed'.gen = ed.gen /\ ed'.attempt = ed.attempt
        /\ ed'.running = 0 /\ ed'.waiters = {} /\ ed'.state = "connected"
    BY <1>2, <1>5, <2>2, <2>3 DEF ApplyConnectedDevice, ClearRunningState, EditorType
  <2>5. SameIds(ed, ed')
    BY <2>4 DEF SameIds
  <2>6. \A k : Counted(ed', [cmd EXCEPT ![p] = k]) /\ Shown(ed', [cmd EXCEPT ![p] = k])
    BY <2>4, IdleCounted, ShownPlain
  <2> QED
    BY <1>1, <1>3, <1>5, <2>4, <2>5, <2>6, BlankChanges
<1>6. CASE /\ AwaitHost(p, "storing") \/ AwaitHost(p, "picking")
           /\ UNCHANGED <<ed, helper>>
  <2>1. /\ "storing" \in Labels /\ "picking" \in Labels
        /\ "storing" \in OnTheWay /\ "picking" \in OnTheWay
    BY DEF Labels, HostWaits, OnTheWay
  <2> QED
    BY <1>1, <1>6, <2>1, HostStep, OnTheWayStep
<1>7. CASE AbandonClient /\ Return(p, FALSE)
  BY <1>1, <1>7, AbandonStep
<1>8. CASE /\ ed' = [ClearSessionState(ed) EXCEPT !.state = "disconnected"]
           /\ AwaitHost(p, "warned") /\ UNCHANGED helper
  <2> DEFINE k == HostAt(p, "warned")
  <2>1. "warned" \in Labels
    BY DEF Labels, HostWaits
  <2>2. /\ k \in CommandType /\ k.at = "warned" /\ k.held = cmd[p].held
        /\ k.attempt = cmd[p].attempt /\ k.wait = cmd[p].wait
        /\ cmd' = [cmd EXCEPT ![p] = k]
    BY <1>8, <2>1, HostStep
  <2> HIDE DEF k
  <2>3. Quieter(ed, ed')
    BY <1>2, <1>8, ClearedFields DEF Quieter
  <2>4. /\ ed' \in EditorType /\ ed'.client = ed.client /\ ed'.gen = ed.gen
        /\ ed'.running = ed.running /\ ed'.waiters \subseteq ed.waiters
        /\ ed'.state # "running" /\ ed'.state \notin {"connected", "connecting"}
        /\ SameIds(ed, ed') /\ SameProcs(helper, helper')
        /\ helper' \in [Clients -> HelperType]
    BY <1>2, <1>8, <2>3 DEF Quieter, SameIds, SameProcs
  <2>5. ~Flies(k, ed) /\ Ordinary(k, cmd[p], ed)
    BY <1>1, <2>2 DEF Flies, Ordinary
  <2>6. k.held # None
    BY <1>1, <1>2, <2>2 DEF Local, Holding, HelperRequests
  <2>7. Local(k, ed', helper')
    BY <2>2, <2>6 DEF Local, Attempting, OnTheWay, ExitWaits
  <2>8. Counted(ed', [cmd EXCEPT ![p] = k])
    <3>1. Counted(ed, cmd)
      BY <1>2 DEF Inv
    <3> QED
      BY <1>1, <1>2, <2>4, <2>5, <3>1, CountedSame
  <2>9. Shown(ed', [cmd EXCEPT ![p] = k])
    BY <2>4, ShownPlain
  <2> QED
    BY <1>1, <2>2, <2>4, <2>5, <2>7, <2>8, <2>9, Changes
<1>9. CASE /\ ed' = DisposeClient(ed) /\ helper' = Disposed(helper, {ed.client, ed.closing})
           /\ Return(p, FALSE)
  <2>1. /\ ed' \in EditorType /\ ed'.client = None /\ ed'.closing = None
        /\ ed'.device = None /\ ed'.state = ed.state /\ ed'.running = 0 /\ ed'.waiters = {}
        /\ ed'.gen = NextGeneration /\ ed'.attempt = NextAttempt
    BY <1>2, <1>9, DisposeFields
  <2>2. /\ helper' \in [Clients -> HelperType]
        /\ \A c \in Clients :
             /\ helper'[c].proc = helper[c].proc /\ helper'[c].gen = helper[c].gen
             /\ helper'[c].retired = helper[c].retired
             /\ c \in {ed.client, ed.closing} => helper'[c].disposed
             /\ c \notin {ed.client, ed.closing} => helper'[c].disposed = helper[c].disposed
    BY <1>2, <1>9, DisposedFields
  <2>3. Superseded(ed, ed', cmd)
    BY <2>1, FreshStamps DEF Superseded
  <2>4. GivenUp(ed, ed', helper, helper')
    BY <2>2 DEF GivenUp
  <2>5. Core(ed', helper')
    <3>1. Core(ed, helper)
      BY <1>2 DEF Inv
    <3> QED
      BY <2>1, <2>2, <3>1 DEF Core
  <2> QED
    BY <1>1, <1>3, <1>9, <2>1, <2>2, <2>3, <2>4, <2>5, BlankSupersedes
<1>10. CASE /\ ed' = [ed EXCEPT !.state = "disconnected"] /\ UNCHANGED helper
            /\ Return(p, FALSE)
  <2>1. Quieter(ed, ed')
    BY <1>2, <1>10, QuietFields DEF Quieter
  <2> QED
    BY <1>1, <1>3, <1>10, <2>1, QuieterStep
<1> QED
  BY <1>4, <1>5, <1>6, <1>7, <1>8, <1>9, <1>10 DEF ConnectAnswered

(* PortForgotten keeps the invariant.                                      *)
LEMMA PortForgottenStep ==
  ASSUME IInv, NEW p \in Commands, PortForgotten(p)
  PROVE  IInv'
<1> DEFINE k == [cmd[p] EXCEPT !.at = "connecting", !.port = "none",
                               !.ans = "wait", !.note = "none"]
<1>1. /\ ThreadFree /\ cmd[p].at = "storing" /\ cmd[p] \in CommandType
      /\ cmd' = [cmd EXCEPT ![p] = k] /\ UNCHANGED <<ed, helper>>
  BY DEF PortForgotten, Resumes, IInv, TypeInv
<1>2. "connecting" \in Labels /\ "wait" \in AnswerType
  BY DEF Labels, HelperRequests, AnswerType
<1>3. /\ k \in CommandType /\ k.at = "connecting" /\ k.held = cmd[p].held
      /\ k.attempt = cmd[p].attempt /\ k.wait = cmd[p].wait /\ k.ans = "wait"
  BY <1>1, <1>2 DEF CommandType
<1> HIDE DEF k
<1>4. cmd[p].at \in OnTheWay /\ k.at \in OnTheWay
  BY <1>1, <1>3 DEF OnTheWay
<1> QED
  BY <1>1, <1>3, <1>4, OnTheWayStep

(* DevicePicked keeps the invariant.                                       *)
LEMMA DevicePickedStep ==
  ASSUME IInv, NEW p \in Commands, DevicePicked(p)
  PROVE  IInv'
<1>1. /\ ThreadFree /\ cmd[p].at = "picking" /\ UNCHANGED helper /\ ed \in EditorType
      /\ cmd[p].at \notin {"starting", "ensure", "request"} /\ ~Flies(cmd[p], ed)
  BY DEF DevicePicked, Resumes, IInv, TypeInv, Flies
<1>2. CASE cmd[p].ans = "yes"
  <2> DEFINE k == [At(p, "connect") EXCEPT !.port = "picked"]
  <2>1. cmd' = [cmd EXCEPT ![p] = k] /\ UNCHANGED ed
    BY <1>2 DEF DevicePicked
  <2>2. "connect" \in Labels
    BY DEF Labels, Sync
  <2>3. /\ At(p, "connect") \in CommandType /\ At(p, "connect").at = "connect"
        /\ At(p, "connect").held = None /\ At(p, "connect").attempt = 0
        /\ At(p, "connect").wait = {}
    BY <2>2, AtRecord
  <2>4. /\ k \in CommandType /\ k.at = "connect" /\ k.held = None
        /\ k.attempt = 0 /\ k.wait = {}
    BY <2>3 DEF CommandType
  <2> HIDE DEF k
  <2>5. k.at \in Blank /\ Ordinary(k, cmd[p], ed)
    BY <1>1, <2>4 DEF Blank, Ordinary
  <2>6. Local(k, ed, helper) /\ ~Flies(k, ed)
    BY <2>5, BlankLocal
  <2>7. StillBears(k, cmd[p], ed)
    BY <1>1, <2>4 DEF StillBears, Bears
  <2> QED
    BY <1>1, <2>1, <2>4, <2>5, <2>6, <2>7, Goes
<1>3. CASE cmd[p].ans # "yes"
  <2>1. /\ ed' = [ClearSessionState(ed) EXCEPT !.state = "disconnected"]
        /\ Finish(p) /\ "done" \in Blank
    BY <1>3 DEF DevicePicked, Blank
  <2>2. Quieter(ed, ed')
    BY <1>1, <2>1, ClearedFields DEF Quieter
  <2> QED
    BY <1>1, <2>1, <2>2, QuieterStep
<1> QED
  BY <1>2, <1>3

(* NoDeviceWarned keeps the invariant.                                     *)
LEMMA NoDeviceWarnedStep ==
  ASSUME IInv, NEW p \in Commands, NoDeviceWarned(p)
  PROVE  IInv'
<1>1. /\ ThreadFree /\ cmd[p].at = "warned" /\ UNCHANGED <<ed, helper>>
      /\ Return(p, ed.state = "connected") /\ "done" \in Blank
  BY DEF NoDeviceWarned, Resumes, Blank
<1>2. cmd[p].at \in Elsewhere
  BY <1>1 DEF Elsewhere, Labels, HostWaits, OnTheWay
<1> QED
  BY <1>1, <1>2, LeavesFrom

----------------------------------------------------------------------------
(* disconnect and forceReconnect.                                          *)

(* The controller once disconnect has put its client aside.                *)
PartedFrom(e, c) ==
  [ClearRunningState(Supersede(e)) EXCEPT !.client = None, !.closing = c, !.state = "idle"]

(* Its fields.                                                             *)
LEMMA PartedFields ==
  ASSUME NEW e \in EditorType, NEW c \in {None} \cup Clients
  PROVE  /\ PartedFrom(e, c) \in EditorType
         /\ PartedFrom(e, c).client = None /\ PartedFrom(e, c).closing = c
         /\ PartedFrom(e, c).device = e.device /\ PartedFrom(e, c).state = "idle"
         /\ PartedFrom(e, c).running = 0 /\ PartedFrom(e, c).waiters = {}
         /\ PartedFrom(e, c).gen = NextGeneration
         /\ PartedFrom(e, c).attempt = NextAttempt
<1>1. /\ NextGeneration \in Nat /\ NextAttempt \in Nat /\ "idle" \in ConnectionState
      /\ 0 \in Nat /\ {} \in SUBSET Commands
  BY FreshStamps DEF ConnectionState
<1> HIDE DEF NextGeneration, NextAttempt
<1> QED
  BY <1>1 DEF PartedFrom, ClearRunningState, Supersede, EditorType

(* The controller after a disconnect with nothing to disconnect.           *)
Reset(e) == ClearRunningState(Supersede(e))

(* Its fields.                                                             *)
LEMMA ResetFields ==
  ASSUME NEW e \in EditorType
  PROVE  /\ Reset(e) \in EditorType
         /\ Reset(e).client = e.client /\ Reset(e).closing = e.closing
         /\ Reset(e).device = e.device /\ Reset(e).state = e.state
         /\ Reset(e).running = 0 /\ Reset(e).waiters = {}
         /\ Reset(e).gen = NextGeneration /\ Reset(e).attempt = NextAttempt
<1>1. /\ NextGeneration \in Nat /\ NextAttempt \in Nat
      /\ 0 \in Nat /\ {} \in SUBSET Commands
  BY FreshStamps
<1> QED
  BY <1>1 DEF Reset, ClearRunningState, Supersede, EditorType

(* The command that asks the client it put aside to detach.                *)
DetachAt(p) == [cmd[p] EXCEPT !.at = "detaching", !.held = ed.client,
                              !.gen = NextGeneration, !.ans = "wait"]

(* Its fields.                                                             *)
LEMMA DetachRecord ==
  ASSUME TypeInv, NEW p \in Commands
  PROVE  /\ DetachAt(p) \in CommandType
         /\ DetachAt(p).at = "detaching" /\ DetachAt(p).held = ed.client
         /\ DetachAt(p).gen = NextGeneration /\ DetachAt(p).ans = "wait"
         /\ DetachAt(p).attempt = cmd[p].attempt /\ DetachAt(p).wait = cmd[p].wait
<1>1. /\ NextGeneration \in Nat /\ "detaching" \in Labels /\ "wait" \in AnswerType
      /\ ed.client \in {None} \cup Clients /\ cmd[p] \in CommandType
  BY FreshStamps DEF TypeInv, EditorType, Labels, HelperRequests, AnswerType
<1> QED
  BY <1>1 DEF DetachAt, CommandType

(* Disconnect keeps the invariant.                                         *)
LEMMA DisconnectStep ==
  ASSUME IInv, NEW p \in Commands, Disconnect(p)
  PROVE  IInv'
<1>1. /\ cmd[p].at = "disconnect" /\ cmd[p].at \in Sync /\ "done" \in Blank
      /\ cmd[p].at # "starting"
  BY DEF Disconnect, Sync, Blank
<1>2. /\ ed \in EditorType /\ helper \in [Clients -> HelperType] /\ Core(ed, helper)
      /\ ed.client \in {None} \cup Clients /\ TypeInv
  BY DEF IInv, TypeInv, Inv, EditorType
<1>3. CASE /\ ed.client = None /\ ed.closing = None
           /\ ed' = [ClearSessionState(ClearRunningState(Supersede(ed)))
                        EXCEPT !.state = "idle"]
           /\ Finish(p) /\ UNCHANGED helper
  <2>1. ed' = [ClearSessionState(Reset(ed)) EXCEPT !.state = "idle"]
    BY <1>3 DEF Reset
  <2>2. /\ ed' \in EditorType /\ ed'.client = None /\ ed'.closing = None
        /\ ed'.device = None /\ ed'.state = "idle" /\ ed'.running = 0 /\ ed'.waiters = {}
        /\ ed'.gen = NextGeneration /\ ed'.attempt = NextAttempt
    <3> DEFINE f == Reset(ed)
    <3>1. /\ f \in EditorType /\ f.client = None /\ f.closing = None
          /\ f.running = 0 /\ f.waiters = {}
          /\ f.gen = NextGeneration /\ f.attempt = NextAttempt
      BY <1>2, <1>3, ResetFields
    <3>2. ed' = [ClearSessionState(f) EXCEPT !.state = "idle"]
      BY <2>1
    <3> HIDE DEF f
    <3> QED
      BY <3>1, <3>2, ClearedFields
  <2>3. Superseded(ed, ed', cmd)
    BY <2>2, FreshStamps DEF Superseded
  <2>4. GivenUp(ed, ed', helper, helper')
    BY <1>3, NoneIsNoClient DEF GivenUp
  <2>5. Core(ed', helper')
    BY <1>2, <1>3, <2>2 DEF Core
  <2>6. helper' \in [Clients -> HelperType]
    BY <1>2, <1>3
  <2> QED
    BY <1>1, <1>3, <2>2, <2>3, <2>4, <2>5, <2>6, BlankSupersedes
<1>4. CASE DisposeClientAndWait(p, "parted")
  BY <1>1, <1>4, DisposeStep
<1>5. CASE /\ ed.client # None
           /\ ed' = [ClearRunningState(Supersede(ed))
                       EXCEPT !.client = None, !.closing = ed.client, !.state = "idle"]
           /\ cmd' = [cmd EXCEPT ![p] = [@ EXCEPT !.at = "detaching", !.held = ed.client,
                                                  !.gen = NextGeneration, !.ans = "wait"]]
           /\ UNCHANGED helper
  <2> DEFINE k == DetachAt(p)
  <2>1. cmd' = [cmd EXCEPT ![p] = k] /\ ed' = PartedFrom(ed, ed.client)
    BY <1>2, <1>5 DEF DetachAt, PartedFrom, TypeInv
  <2>2. /\ k \in CommandType /\ k.at = "detaching" /\ k.held = ed.client
        /\ k.gen = NextGeneration /\ k.attempt = cmd[p].attempt /\ k.wait = cmd[p].wait
    BY <1>2, DetachRecord
  <2> HIDE DEF k
  <2>3. /\ ed' \in EditorType /\ ed'.client = None /\ ed'.closing = ed.client
        /\ ed'.device = ed.device /\ ed'.state = "idle" /\ ed'.running = 0
        /\ ed'.waiters = {} /\ ed'.gen = NextGeneration /\ ed'.attempt = NextAttempt
    BY <1>2, <2>1, PartedFields
  <2>4. /\ ed.client \in Clients /\ helper[ed.client].proc = "up"
        /\ ~helper[ed.client].disposed /\ ed.closing = None
        /\ ~helper[ed.client].retired
    BY <1>2, <1>5 DEF Core
  <2>5. Superseded(ed, ed', cmd)
    BY <2>3, FreshStamps DEF Superseded
  <2>6. GivenUp(ed, ed', helper, helper')
    BY <1>5, <2>3, <2>4, NoneIsNoClient DEF GivenUp
  <2>7. Core(ed', helper')
    BY <1>2, <1>5, <2>3, <2>4 DEF Core
  <2>8. Ordinary(k, cmd[p], ed)
    BY <1>1, <2>2 DEF Ordinary
  <2>9. Local(k, ed', helper')
    BY <1>5, <2>2, <2>3, <2>4 DEF Local, Attempting, OnTheWay, ExitWaits
  <2>10. helper' \in [Clients -> HelperType]
    BY <1>2, <1>5
  <2> QED
    BY <1>1, <2>1, <2>2, <2>3, <2>5, <2>6, <2>7, <2>8, <2>9, <2>10, Supersedes
<1> QED
  BY <1>3, <1>4, <1>5 DEF Disconnect

(* Parted keeps the invariant.                                             *)
LEMMA PartedStep ==
  ASSUME IInv, NEW p \in Commands, Parted(p)
  PROVE  IInv'
<1>1. /\ ThreadFree /\ cmd[p].at = "parted" /\ Finish(p) /\ UNCHANGED helper
      /\ "done" \in Blank /\ ed \in EditorType
  BY DEF Parted, Resumes, Blank, IInv, TypeInv
<1>2. cmd[p].at \in Elsewhere /\ cmd[p].at \notin {"starting", "ensure"} /\ ~Flies(cmd[p], ed)
  BY <1>1 DEF Elsewhere, Labels, ExitWaits, OnTheWay, Flies
<1>3. CASE ed' = [ed EXCEPT !.state = "idle"]
  <2>1. Quieter(ed, ed')
    BY <1>1, <1>3, QuietFields DEF Quieter
  <2> QED
    BY <1>1, <1>2, <2>1, QuieterStep
<1>4. CASE UNCHANGED ed
  BY <1>1, <1>2, <1>4, LeavesFrom
<1> QED
  BY <1>3, <1>4 DEF Parted

(* The closing client is forgotten, if it is c.                            *)
LeftOff(e, c) == [e EXCEPT !.closing = IF @ = c THEN None ELSE @]

(* The fields after it.                                                    *)
LEMMA LeftOffFields ==
  ASSUME NEW e \in EditorType, NEW c
  PROVE  /\ LeftOff(e, c) \in EditorType
         /\ LeftOff(e, c).client = e.client
         /\ LeftOff(e, c).closing = IF e.closing = c THEN None ELSE e.closing
         /\ LeftOff(e, c).device = e.device /\ LeftOff(e, c).state = e.state
         /\ LeftOff(e, c).running = e.running /\ LeftOff(e, c).waiters = e.waiters
         /\ LeftOff(e, c).gen = e.gen /\ LeftOff(e, c).attempt = e.attempt
BY DEF LeftOff, EditorType

(* The finally block of disconnect: the client it put aside is killed, and *)
(* if it is the closing one then nothing newer has come and the device     *)
(* goes too.                                                               *)
LEMMA FinishDisconnectStep ==
  ASSUME IInv, NEW p \in Commands, ThreadFree, cmd[p].at \in {"detaching", "detached"},
         FinishDisconnect(p)
  PROVE  IInv'
<1> DEFINE c == cmd[p].held
           e == LeftOff(ed, c)
           k == DoneAt(p)
<1>1. /\ ed \in EditorType /\ helper \in [Clients -> HelperType] /\ Core(ed, helper)
      /\ TypeInv /\ cmd[p] \in CommandType /\ cmd \in [Commands -> CommandType]
      /\ Counted(ed, cmd) /\ Shown(ed, cmd) /\ "done" \in Blank
  BY DEF IInv, TypeInv, Inv, Blank
<1>2. /\ c # None /\ c # ed.client /\ (ed.closing = c => cmd[p].gen = ed.gen)
      /\ c \in Clients
  <2>1. c # None /\ c # ed.client /\ (ed.closing = c => cmd[p].gen = ed.gen)
    BY DEF IInv, Inv, Local
  <2>2. c \in {None} \cup Clients
    BY <1>1 DEF CommandType
  <2> QED
    BY <2>1, <2>2
<1>3. /\ helper' = Disposed(helper, {c}) /\ cmd' = [cmd EXCEPT ![p] = k]
      /\ ed' = IF ed.client = None /\ ed.gen = cmd[p].gen
               THEN [ClearSessionState(e) EXCEPT !.state = "idle"] ELSE e
  BY DEF FinishDisconnect, Finish, DoneAt, LeftOff, IsDisposedGenerationCurrent
<1>4. /\ IsBlank(k) /\ k \in CommandType /\ k.at \in Blank /\ k.held = None
      /\ k.attempt = 0 /\ k.wait = {}
  BY <1>1, BlankRecords DEF IsBlank
<1>5. /\ e \in EditorType /\ e.client = ed.client
      /\ e.closing = IF ed.closing = c THEN None ELSE ed.closing
      /\ e.device = ed.device /\ e.state = ed.state /\ e.running = ed.running
      /\ e.waiters = ed.waiters /\ e.gen = ed.gen /\ e.attempt = ed.attempt
  BY <1>1, LeftOffFields
<1> HIDE DEF e, k, c
<1>6. /\ ed' \in EditorType /\ ed'.client = ed.client
      /\ ed'.closing = IF ed.closing = c THEN None ELSE ed.closing
      /\ ed'.running = ed.running /\ ed'.waiters = ed.waiters
      /\ ed'.gen = ed.gen /\ ed'.attempt = ed.attempt
      /\ \/ ed.client = None /\ ed'.device = None /\ ed'.state = "idle"
         \/ /\ ed'.device = ed.device /\ ed'.state = ed.state
            /\ ~(ed.client = None /\ ed.gen = cmd[p].gen)
  <2>1. CASE ed.client = None /\ ed.gen = cmd[p].gen
    BY <1>3, <1>5, <2>1, ClearedFields
  <2>2. CASE ~(ed.client = None /\ ed.gen = cmd[p].gen)
    BY <1>3, <1>5, <2>2
  <2> QED
    BY <2>1, <2>2
<1>7. /\ helper' \in [Clients -> HelperType]
      /\ \A d \in Clients :
           /\ helper'[d].proc = helper[d].proc /\ helper'[d].gen = helper[d].gen
           /\ helper'[d].retired = helper[d].retired
           /\ d \in {c} => helper'[d].disposed
           /\ d \notin {c} => helper'[d].disposed = helper[d].disposed
  BY <1>1, <1>3, DisposedFields
<1>8. Core(ed', helper')
  <2>1. ed.client # None =>
          /\ helper'[ed.client].proc = "up" /\ ~helper'[ed.client].disposed
          /\ helper'[ed.client].gen = ed.gen /\ ed.closing = None
    BY <1>1, <1>2, <1>7 DEF Core, EditorType
  <2>2. ed'.closing # None => ed'.closing = ed.closing /\ ed.closing # c /\ ed.closing \in Clients
    BY <1>1, <1>6 DEF EditorType
  <2>3. ed'.closing # None => helper'[ed'.closing].proc \in {"up", "gone"}
    BY <1>1, <1>7, <2>2 DEF Core
  <2>4. ed'.device # None => ed'.device \in {ed'.client, ed'.closing}
    <3>1. ed.closing # c \/ (ed.client = None /\ ed.gen = cmd[p].gen)
      BY <1>2, <2>1
    <3> QED
      BY <1>1, <1>6, <3>1 DEF Core
  <2>5. ed'.closing # None /\ helper'[ed'.closing].retired => ed'.device = None
    BY <1>1, <1>6, <1>7, <2>2 DEF Core
  <2>6. \A d \in Clients : helper'[d].retired => helper'[d].disposed
    BY <1>1, <1>7 DEF Core
  <2>7. ed'.closing = None \/ ed'.client = None
    BY <1>6, <2>1
  <2> QED
    BY <1>6, <2>1, <2>3, <2>4, <2>5, <2>6, <2>7 DEF Core
<1>9. Local(k, ed', helper') /\ ~Flies(k, ed) /\ ~Flies(cmd[p], ed)
  BY <1>4, BlankLocal DEF Flies
<1>10. Counted(ed', [cmd EXCEPT ![p] = k])
  <2>1. ed'.state = "running" => ed.state = "running"
    BY <1>6
  <2>2. ed'.waiters \subseteq ed.waiters
    BY <1>6
  <2> QED
    BY <1>1, <1>6, <1>9, <2>1, <2>2, CountedSame
<1>11. Shown(ed', [cmd EXCEPT ![p] = k])
  <2>1. StillBears(k, cmd[p], ed)
    BY DEF StillBears, Bears, OnTheWay
  <2>2. CASE ed.client = None
    BY <1>6, <2>2, ShownPlain
  <2>3. CASE ed.client # None
    BY <1>1, <1>6, <2>1, <2>3, ShownKept
  <2> QED
    BY <2>2, <2>3
<1>12. /\ c = cmd[p].held /\ cmd[p].at # "ensure" /\ k.at # "starting"
       /\ k.attempt \in {0, cmd[p].attempt} /\ k.held \in {None, c}
       /\ k.wait \subseteq cmd[p].wait \cup {c}
  BY <1>4 DEF Blank, c
<1>13. /\ ed'.closing = ed.closing \/ (ed.closing = c /\ ed'.closing = None)
       /\ ed'.device \in {ed.device, None}
       /\ ed'.state = "running" => ed.state = "running"
  BY <1>6
<1> QED
  BY <1>2, <1>3, <1>4, <1>6, <1>8, <1>9, <1>10, <1>11, <1>12, <1>13, KillStep

(* The command that waits for the client that did not detach in time.      *)
KilledAt(p) == [cmd[p] EXCEPT !.at = "detached", !.wait = {cmd[p].held}]

(* Detached keeps the invariant.                                           *)
LEMMA DetachedStep ==
  ASSUME IInv, NEW p \in Commands, Detached(p)
  PROVE  IInv'
<1>1. ThreadFree /\ cmd[p].at \in {"detaching", "detached"}
  BY DEF Detached, Resumes
<1>2. CASE FinishDisconnect(p)
  BY <1>1, <1>2, FinishDisconnectStep
<1>3. CASE /\ cmd[p].at = "detaching"
           /\ helper' = Disposed(helper, {cmd[p].held})
           /\ cmd' = [cmd EXCEPT ![p].at = "detached", ![p].wait = {cmd[p].held}]
           /\ UNCHANGED ed
  <2> DEFINE c == cmd[p].held
             k == KilledAt(p)
  <2>1. /\ ed \in EditorType /\ helper \in [Clients -> HelperType] /\ Core(ed, helper)
        /\ TypeInv /\ cmd[p] \in CommandType /\ cmd \in [Commands -> CommandType]
        /\ Counted(ed, cmd) /\ Shown(ed, cmd)
    BY DEF IInv, TypeInv, Inv
  <2>2. /\ c # None /\ c # ed.client /\ (ed.closing = c => cmd[p].gen = ed.gen)
        /\ c \in Clients /\ helper[c].proc \in {"up", "gone"}
    <3>1. /\ c # None /\ c # ed.client /\ (ed.closing = c => cmd[p].gen = ed.gen)
          /\ helper[c].proc \in {"up", "gone"}
      BY <1>3 DEF IInv, Inv, Local
    <3>2. c \in {None} \cup Clients
      BY <2>1 DEF CommandType
    <3> QED
      BY <3>1, <3>2
  <2>3. cmd' = [cmd EXCEPT ![p] = k] /\ helper' = Disposed(helper, {c}) /\ UNCHANGED ed
    BY <1>3, <2>1 DEF KilledAt
  <2>4. /\ k \in CommandType /\ k.at = "detached" /\ k.held = c /\ k.gen = cmd[p].gen
        /\ k.attempt = cmd[p].attempt /\ k.wait = {c}
    <3>1. "detached" \in Labels
      BY DEF Labels, ExitWaits
    <3> QED
      BY <2>1, <2>2, <3>1 DEF KilledAt, CommandType
  <2> HIDE DEF k, c
  <2>5. /\ helper' \in [Clients -> HelperType]
        /\ \A d \in Clients :
             /\ helper'[d].proc = helper[d].proc /\ helper'[d].gen = helper[d].gen
             /\ helper'[d].retired = helper[d].retired
             /\ d \in {c} => helper'[d].disposed
             /\ d \notin {c} => helper'[d].disposed = helper[d].disposed
    BY <2>1, <2>3, DisposedFields
  <2>6. Core(ed', helper')
    <3>1. ed.client # None =>
            /\ helper'[ed.client].proc = "up" /\ ~helper'[ed.client].disposed
            /\ helper'[ed.client].gen = ed.gen /\ ed.closing = None
      BY <2>1, <2>2, <2>5 DEF Core, EditorType
    <3>2. \A d \in Clients : helper'[d].retired => helper'[d].disposed
      BY <2>1, <2>5 DEF Core
    <3>3. ed.closing # None => /\ helper'[ed.closing].proc \in {"up", "gone"}
                               /\ helper'[ed.closing].retired = helper[ed.closing].retired
      BY <2>1, <2>5 DEF Core, EditorType
    <3> QED
      BY <2>1, <2>3, <3>1, <3>2, <3>3 DEF Core
  <2>7. Local(k, ed', helper')
    BY <2>2, <2>3, <2>4, <2>5 DEF Local, Holding, HelperRequests, Attempting, OnTheWay
  <2>8. ~Flies(k, ed) /\ ~Flies(cmd[p], ed) /\ StillBears(k, cmd[p], ed)
    BY <1>3, <2>4 DEF Flies, StillBears, Bears, OnTheWay
  <2>9. Counted(ed', [cmd EXCEPT ![p] = k])
    BY <2>1, <2>3, <2>8, CountedSame
  <2>10. Shown(ed', [cmd EXCEPT ![p] = k])
    BY <2>1, <2>3, <2>8, ShownKept
  <2>11. /\ c = cmd[p].held /\ cmd[p].at # "ensure" /\ k.at # "starting"
         /\ k.attempt \in {0, cmd[p].attempt} /\ k.held \in {None, c}
         /\ k.wait \subseteq cmd[p].wait \cup {c} /\ ed' \in EditorType
    BY <1>3, <2>1, <2>3, <2>4 DEF c
  <2> QED
    BY <1>1, <2>2, <2>3, <2>4, <2>6, <2>7, <2>9, <2>10, <2>11, KillStep
<1> QED
  BY <1>2, <1>3 DEF Detached, Resumes

(* ForceReconnect keeps the invariant.                                     *)
LEMMA ForceReconnectStep ==
  ASSUME IInv, NEW p \in Commands, ForceReconnect(p)
  PROVE  IInv'
<1>1. /\ cmd[p].at \in Sync /\ cmd[p].at # "starting"
      /\ DisposeClientAndWait(p, "forced")
  BY DEF ForceReconnect, Sync
<1> QED
  BY <1>1, DisposeStep

(* Forced keeps the invariant.                                             *)
LEMMA ForcedStep ==
  ASSUME IInv, NEW p \in Commands, Forced(p)
  PROVE  IInv'
<1>1. /\ ThreadFree /\ cmd[p].at = "forced" /\ UNCHANGED helper
      /\ "done" \in Blank /\ "connect" \in Blank /\ ed \in EditorType
  BY DEF Forced, Resumes, Blank, IInv, TypeInv
<1>2. cmd[p].at \in Elsewhere /\ cmd[p].at \notin {"starting", "ensure"} /\ ~Flies(cmd[p], ed)
  BY <1>1 DEF Elsewhere, Labels, ExitWaits, OnTheWay, Flies
<1>3. CASE ed' = [ed EXCEPT !.state = "disconnected"] /\ Jump(p, "connect")
  <2>1. Quieter(ed, ed')
    BY <1>1, <1>3, QuietFields DEF Quieter
  <2> QED
    BY <1>1, <1>2, <1>3, <2>1, QuieterStep
<1>4. CASE UNCHANGED ed /\ Finish(p)
  BY <1>1, <1>2, <1>4, LeavesFrom
<1> QED
  BY <1>3, <1>4 DEF Forced

----------------------------------------------------------------------------
(* runRequest and interrupt.                                               *)

(* RunRequest keeps the invariant.                                         *)
LEMMA RunRequestStep ==
  ASSUME IInv, NEW p \in Commands, RunRequest(p)
  PROVE  IInv'
<1>1. /\ cmd[p].at = "ready" /\ cmd[p].at \in Sync /\ "done" \in Blank /\ UNCHANGED helper
      /\ cmd[p].kind \in {"eval", "words"}
  BY DEF RunRequest, Sync, Blank
<1>2. cmd[p].at \in Elsewhere /\ cmd[p].at \notin {"starting", "ensure"}
  BY <1>1 DEF Elsewhere, Labels, Sync, OnTheWay
<1>3. /\ ed \in EditorType /\ ed.client \in {None} \cup Clients /\ TypeInv
      /\ Inv(ed, helper, cmd)
  BY DEF IInv, TypeInv, EditorType
<1>4. CASE Finish(p) /\ UNCHANGED ed
  BY <1>1, <1>2, <1>4, LeavesFrom
<1>5. CASE Finish(p) /\ ed.client = None /\ ed' = EndRunning(BeginRunning(ed))
  <2> DEFINE b == BeginRunning(ed)
  <2>1. ed.running = 0 /\ ed.waiters = {}
    BY <1>3, <1>5, NoClientIdle DEF Inv
  <2>2. /\ b \in EditorType /\ b.client = ed.client /\ b.closing = ed.closing
        /\ b.gen = ed.gen /\ b.attempt = ed.attempt /\ b.device = ed.device
        /\ b.state = "running" /\ b.running = 1 /\ ed' = EndRunning(b)
    BY <1>3, <1>5, <2>1, BeginFields
  <2> HIDE DEF b
  <2>3. ~(b.running > 1)
    BY <2>2
  <2>4. /\ ed' \in EditorType /\ ed'.client = None /\ ed'.closing = ed.closing
        /\ ed'.gen = ed.gen /\ ed'.attempt = ed.attempt /\ ed'.device = ed.device
        /\ ed'.running = 0 /\ ed'.waiters = {} /\ ed'.state = AtRest(b)
    BY <1>5, <2>2, <2>3, EndFields
  <2>5. ed'.state # "running"
    BY <2>4 DEF AtRest
  <2>6. SameIds(ed, ed')
    BY <1>5, <2>4, <2>5 DEF SameIds
  <2>7. \A k : Counted(ed', [cmd EXCEPT ![p] = k]) /\ Shown(ed', [cmd EXCEPT ![p] = k])
    BY <2>4, <2>5, IdleCounted, ShownPlain
  <2> QED
    BY <1>1, <1>2, <1>5, <2>4, <2>6, <2>7, BlankChanges
<1>6. CASE ed.client # None /\ ed' = BeginRunning(ed) /\ Await(p, "evaluating", ed.client)
  <2> DEFINE k == AwaitAt(p, "evaluating", ed.client)
  <2>1. "evaluating" \in Labels /\ ed.client \in Clients
    BY <1>3, <1>6 DEF Labels, HelperRequests
  <2>2. /\ k \in CommandType /\ k.at = "evaluating" /\ k.held = ed.client /\ k.gen = ed.gen
        /\ k.attempt = 0 /\ k.wait = {}
    BY <1>3, <2>1, Records
  <2>3. cmd' = [cmd EXCEPT ![p] = k]
    BY <1>6 DEF Await, AwaitAt
  <2> HIDE DEF k
  <2>4. Flies(k, ed) /\ Ordinary(k, cmd[p], ed) /\ k.at # "sending"
    BY <1>2, <2>2 DEF Flies, Ordinary
  <2> QED
    BY <1>1, <1>2, <1>6, <2>2, <2>3, <2>4, BeginRunningStep
<1>7. CASE ed.client # None /\ UNCHANGED ed /\ Await(p, "listing", ed.client)
  <2>1. "listing" \in Asking
    BY DEF Asking
  <2> QED
    BY <1>1, <1>2, <1>7, <2>1, Awaits
<1> QED
  BY <1>1, <1>4, <1>5, <1>6, <1>7 DEF RunRequest

(* RequestAnswered keeps the invariant.                                    *)
LEMMA RequestAnsweredStep ==
  ASSUME IInv, NEW p \in Commands, RequestAnswered(p)
  PROVE  IInv'
<1>1. ThreadFree /\ Finish(p) /\ "done" \in Blank
  BY DEF RequestAnswered, Resumes, Blank
<1>2. CASE cmd[p].at = "evaluating"
  <2>1. EndOperation(p, Answer(p))
    BY <1>2 DEF RequestAnswered, Resumes
  <2> QED
    BY <1>1, <1>2, <2>1, EndOperationStep
<1>3. CASE cmd[p].at \in {"listing", "interrupting"}
  <2>1. /\ cmd[p].at \in Elsewhere /\ cmd[p].held # None
        /\ IF IsCurrentClient(cmd[p].held, cmd[p].gen)
           THEN /\ ed' = HandleClientError(ed, Answer(p))
                /\ helper' = Retired(helper, Answer(p))
           ELSE UNCHANGED <<ed, helper>>
    BY <1>3 DEF RequestAnswered, Resumes, Elsewhere, Labels, HelperRequests, OnTheWay,
                IInv, Inv, Local, Holding
  <2>2. CASE IsCurrentClient(cmd[p].held, cmd[p].gen)
    BY <1>1, <2>1, <2>2, ErrorStep DEF IsCurrentClient
  <2>3. CASE ~IsCurrentClient(cmd[p].held, cmd[p].gen)
    BY <1>1, <2>1, <2>3, LeavesFrom
  <2> QED
    BY <2>2, <2>3
<1> QED
  BY <1>2, <1>3 DEF RequestAnswered, Resumes

(* Interrupt keeps the invariant.                                          *)
LEMMA InterruptStep ==
  ASSUME IInv, NEW p \in Commands, Interrupt(p)
  PROVE  IInv'
<1>1. /\ cmd[p].at \in Elsewhere /\ cmd[p].at \in Sync /\ "done" \in Blank
      /\ "interrupting" \in Asking
  BY DEF Interrupt, Elsewhere, Labels, Sync, OnTheWay, Blank, Asking
<1> QED
  BY <1>1, LeavesFrom, Awaits DEF Interrupt

----------------------------------------------------------------------------
(* sendFile.                                                               *)

(* Prepare keeps the invariant.                                            *)
LEMMA PrepareStep ==
  ASSUME IInv, NEW p \in Commands, Prepare(p)
  PROVE  IInv'
<1>1. /\ cmd[p].at \in Elsewhere /\ cmd[p].at \in Sync /\ "done" \in Blank
      /\ "preparing" \in Asking
  BY DEF Prepare, Elsewhere, Labels, Sync, OnTheWay, Blank, Asking
<1> QED
  BY <1>1, LeavesFrom, Awaits DEF Prepare

(* Prepared keeps the invariant.                                           *)
LEMMA PreparedStep ==
  ASSUME IInv, NEW p \in Commands, Prepared(p)
  PROVE  IInv'
<1>1. /\ cmd[p].at \in Elsewhere /\ ThreadFree
      /\ "done" \in Blank /\ "interrupt_running" \in Blank
  BY DEF Prepared, Resumes, Elsewhere, Labels, HostWaits, OnTheWay, Blank
<1> QED
  BY <1>1, LeavesFrom DEF Prepared

(* InterruptRunning keeps the invariant.                                   *)
LEMMA InterruptRunningStep ==
  ASSUME IInv, NEW p \in Commands, InterruptRunningBeforeFileSend(p)
  PROVE  IInv'
<1>1. /\ cmd[p].at \in Elsewhere /\ cmd[p].at \in Sync
      /\ "done" \in Blank /\ "reset" \in Blank /\ "file_interrupting" \in Asking
  BY DEF InterruptRunningBeforeFileSend, Elsewhere, Labels, Sync, OnTheWay, Blank, Asking
<1> QED
  BY <1>1, LeavesFrom, Awaits DEF InterruptRunningBeforeFileSend

(* PrepareFileSendReset keeps the invariant.                               *)
LEMMA PrepareFileSendResetStep ==
  ASSUME IInv, NEW p \in Commands, PrepareFileSendReset(p)
  PROVE  IInv'
<1>1. /\ cmd[p].at \in Elsewhere /\ cmd[p].at \in Sync
      /\ "done" \in Blank /\ "resetting" \in Asking
  BY DEF PrepareFileSendReset, Elsewhere, Labels, Sync, OnTheWay, Blank, Asking
<1> QED
  BY <1>1, LeavesFrom, Awaits DEF PrepareFileSendReset

(* The waiters of runningOperations.                                       *)
WithWaiters(e, W) == [e EXCEPT !.waiters = W]

(* The fields when they change.                                            *)
LEMMA WaiterFields ==
  ASSUME NEW e \in EditorType, NEW W \in SUBSET Commands
  PROVE  /\ WithWaiters(e, W) \in EditorType
         /\ WithWaiters(e, W).client = e.client /\ WithWaiters(e, W).closing = e.closing
         /\ WithWaiters(e, W).device = e.device /\ WithWaiters(e, W).state = e.state
         /\ WithWaiters(e, W).running = e.running /\ WithWaiters(e, W).waiters = W
         /\ WithWaiters(e, W).gen = e.gen /\ WithWaiters(e, W).attempt = e.attempt
BY DEF WithWaiters, EditorType

(* A command begins or ends to wait for the operations in flight.          *)
LEMMA WaitersStep ==
  ASSUME IInv, NEW p \in Commands, NEW k \in CommandType, ThreadFree,
         cmd[p].at \in Elsewhere, Ordinary(k, cmd[p], ed), Local(k, ed, helper),
         ~Flies(k, ed), NEW W \in SUBSET Commands, W \subseteq ed.waiters \/ ed.running > 0,
         ed' = WithWaiters(ed, W), UNCHANGED helper, cmd' = [cmd EXCEPT ![p] = k]
  PROVE  IInv'
<1>1. /\ ed \in EditorType /\ helper \in [Clients -> HelperType]
      /\ cmd \in [Commands -> CommandType] /\ Counted(ed, cmd) /\ Shown(ed, cmd)
  BY DEF IInv, TypeInv, Inv
<1>2. /\ ed' \in EditorType /\ ed'.client = ed.client /\ ed'.closing = ed.closing
      /\ ed'.device = ed.device /\ ed'.state = ed.state /\ ed'.running = ed.running
      /\ ed'.waiters = W /\ ed'.gen = ed.gen /\ ed'.attempt = ed.attempt
  BY <1>1, WaiterFields
<1>3. SameIds(ed, ed') /\ SameProcs(helper, helper')
  BY <1>2 DEF SameIds, SameProcs
<1>4. Local(k, ed', helper')
  BY <1>2 DEF Local
<1>5. ~Flies(cmd[p], ed) /\ StillBears(k, cmd[p], ed) /\ cmd[p].at # "ensure"
  BY DEF Elsewhere, Flies, StillBears, Bears
<1>6. Counted(ed', [cmd EXCEPT ![p] = k])
  BY <1>1, <1>2, <1>5, CountedSame
<1>7. Shown(ed', [cmd EXCEPT ![p] = k])
  BY <1>1, <1>2, <1>5, ShownKept
<1>8. helper' \in [Clients -> HelperType]
  BY <1>1
<1> QED
  BY <1>2, <1>3, <1>4, <1>5, <1>6, <1>7, <1>8, Changes

(* A command that waits for something else to be answered, and goes on     *)
(* holding the client it holds.                                            *)
LEMMA StaysLocal ==
  ASSUME IInv, NEW p \in Commands, NEW k \in CommandType, cmd[p].held # None,
         cmd[p].at \in Elsewhere, k.at \in {"settling", "unsettled", "additive"},
         k.held = cmd[p].held, k.attempt = cmd[p].attempt, k.wait = cmd[p].wait
  PROVE  Local(k, ed, helper) /\ ~Flies(k, ed) /\ Ordinary(k, cmd[p], ed)
<1>1. Local(k, ed, helper)
  BY DEF Local, Attempting, OnTheWay, ExitWaits
<1>2. ~Flies(k, ed)
  BY DEF Flies
<1>3. Ordinary(k, cmd[p], ed)
  BY DEF Ordinary, Elsewhere
<1> QED
  BY <1>1, <1>2, <1>3

(* FileInterrupted keeps the invariant.                                    *)
LEMMA FileInterruptedStep ==
  ASSUME IInv, NEW p \in Commands, FileInterrupted(p)
  PROVE  IInv'
<1>1. /\ ThreadFree /\ cmd[p].at = "file_interrupting" /\ "done" \in Blank
      /\ "reset" \in Blank
  BY DEF FileInterrupted, Resumes, Blank
<1>2. cmd[p].at \in Elsewhere /\ cmd[p].held # None
  BY <1>1 DEF Elsewhere, Labels, HelperRequests, OnTheWay, IInv, Inv, Local, Holding
<1>3. CASE Finish(p) /\ UNCHANGED <<ed, helper>>
  BY <1>1, <1>2, <1>3, LeavesFrom
<1>4. CASE /\ IsCurrentClient(cmd[p].held, cmd[p].gen)
           /\ ed' = HandleClientError(ed, Answer(p))
           /\ helper' = Retired(helper, Answer(p)) /\ Finish(p)
  BY <1>1, <1>2, <1>4, ErrorStep DEF IsCurrentClient
<1>5. CASE Jump(p, "reset") /\ UNCHANGED <<ed, helper>>
  BY <1>1, <1>2, <1>5, LeavesFrom
<1>6. CASE /\ ed.running > 0 /\ ed' = [ed EXCEPT !.waiters = @ \cup {p}]
           /\ AwaitHost(p, "settling") /\ UNCHANGED helper
  <2> DEFINE k == HostAt(p, "settling")
             W == ed.waiters \cup {p}
  <2>1. "settling" \in Labels
    BY DEF Labels
  <2>2. /\ k \in CommandType /\ k.at = "settling" /\ k.held = cmd[p].held
        /\ k.attempt = cmd[p].attempt /\ k.wait = cmd[p].wait
        /\ cmd' = [cmd EXCEPT ![p] = k]
    BY <1>6, <2>1, HostStep
  <2>3. ed' = WithWaiters(ed, W) /\ W \in SUBSET Commands
    BY <1>6 DEF WithWaiters, IInv, TypeInv, EditorType
  <2> HIDE DEF k, W
  <2>4. Local(k, ed, helper) /\ ~Flies(k, ed) /\ Ordinary(k, cmd[p], ed)
    BY <1>2, <2>2, StaysLocal
  <2> QED
    BY <1>1, <1>2, <1>6, <2>2, <2>3, <2>4, WaitersStep
<1> QED
  BY <1>3, <1>4, <1>5, <1>6 DEF FileInterrupted

(* RunningFinished keeps the invariant.                                    *)
LEMMA RunningFinishedStep ==
  ASSUME IInv, NEW p \in Commands, RunningFinished(p)
  PROVE  IInv'
<1> DEFINE W == ed.waiters \ {p}
<1>1. /\ ThreadFree /\ cmd[p].at = "settling" /\ UNCHANGED helper
      /\ "done" \in Blank /\ "reset" \in Blank
  BY DEF RunningFinished, Resumes, Blank
<1>2. cmd[p].at \in Elsewhere /\ cmd[p].held # None /\ cmd[p].at # "starting"
  BY <1>1 DEF Elsewhere, Labels, OnTheWay, IInv, Inv, Local, Holding
<1>3. ed' = WithWaiters(ed, W) /\ W \in SUBSET Commands /\ W \subseteq ed.waiters
  BY DEF WithWaiters, RunningFinished, IInv, TypeInv, EditorType
<1> HIDE DEF W
<1>4. CASE AwaitHost(p, "unsettled")
  <2> DEFINE k == HostAt(p, "unsettled")
  <2>1. "unsettled" \in Labels
    BY DEF Labels, HostWaits
  <2>2. /\ k \in CommandType /\ k.at = "unsettled" /\ k.held = cmd[p].held
        /\ k.attempt = cmd[p].attempt /\ k.wait = cmd[p].wait
        /\ cmd' = [cmd EXCEPT ![p] = k]
    BY <1>4, <2>1, HostStep
  <2> HIDE DEF k
  <2>3. Local(k, ed, helper) /\ ~Flies(k, ed) /\ Ordinary(k, cmd[p], ed)
    BY <1>2, <2>2, StaysLocal
  <2> QED
    BY <1>1, <1>2, <1>3, <2>2, <2>3, WaitersStep
<1>5. CASE Jump(p, "reset") \/ Finish(p)
  <2>1. PICK k \in {DoneAt(p), ReadyAt(p), At(p, "reset")} :
          /\ IsBlank(k) /\ k \in CommandType /\ k.at \in Blank /\ k.at # "starting"
          /\ cmd' = [cmd EXCEPT ![p] = k]
    BY <1>1, <1>5, BlankCases
  <2>2. Local(k, ed, helper) /\ ~Flies(k, ed) /\ Ordinary(k, cmd[p], ed)
    BY <1>2, <2>1, BlankLocal, BlankOrdinary
  <2> QED
    BY <1>1, <1>2, <1>3, <2>1, <2>2, WaitersStep
<1> QED
  BY <1>4, <1>5 DEF RunningFinished

(* ForceOffered keeps the invariant.                                       *)
LEMMA ForceOfferedStep ==
  ASSUME IInv, NEW p \in Commands, ForceOffered(p)
  PROVE  IInv'
<1>1. /\ ThreadFree /\ cmd[p].at = "unsettled" /\ UNCHANGED <<ed, helper>>
      /\ "done" \in Blank /\ cmd[p].at \notin {"starting", "ensure", "request"}
  BY DEF ForceOffered, Resumes, Blank
<1>2. cmd[p].at \in Elsewhere
  BY <1>1 DEF Elsewhere, Labels, HostWaits, OnTheWay
<1>3. CASE cmd' = [cmd EXCEPT ![p] = [At(p, "force") EXCEPT !.kind = "force"]]
  <2> DEFINE k == [At(p, "force") EXCEPT !.kind = "force"]
  <2>1. "force" \in Labels /\ "force" \in Kinds
    BY DEF Labels, Sync, Kinds
  <2>2. /\ At(p, "force") \in CommandType /\ At(p, "force").at = "force"
        /\ At(p, "force").held = None /\ At(p, "force").attempt = 0
        /\ At(p, "force").wait = {}
    BY <2>1, AtRecord
  <2>3. /\ k \in CommandType /\ k.at = "force" /\ k.held = None
        /\ k.attempt = 0 /\ k.wait = {}
    BY <2>1, <2>2 DEF CommandType
  <2>4. cmd' = [cmd EXCEPT ![p] = k]
    BY <1>3
  <2> HIDE DEF k
  <2>5. k.at \in Blank /\ Ordinary(k, cmd[p], ed)
    BY <1>1, <2>3 DEF Blank, Ordinary
  <2>6. Local(k, ed, helper) /\ ~Flies(k, ed)
    BY <2>5, BlankLocal
  <2>7. StillBears(k, cmd[p], ed) /\ ~Flies(cmd[p], ed)
    BY <1>1 DEF StillBears, Bears, OnTheWay, Flies
  <2> QED
    BY <1>1, <2>3, <2>4, <2>5, <2>6, <2>7, Goes
<1>4. CASE Finish(p)
  BY <1>1, <1>2, <1>4, LeavesFrom
<1> QED
  BY <1>3, <1>4 DEF ForceOffered

(* The command that goes on to its forms.                                  *)
FormsAt(p) == [cmd[p] EXCEPT !.at = "forms", !.cleared = cmd[p].held]

(* The reset has succeeded, or the user goes on without it.                *)
LEMMA FormsStep ==
  ASSUME IInv, NEW p \in Commands, ThreadFree, cmd[p].at \in {"resetting", "additive"},
         cmd' = [cmd EXCEPT ![p].at = "forms", ![p].cleared = cmd[p].held],
         UNCHANGED <<ed, helper>>
  PROVE  IInv'
<1> DEFINE k == FormsAt(p)
<1>1. /\ cmd \in [Commands -> CommandType] /\ cmd[p] \in CommandType /\ cmd[p].held # None
  BY DEF IInv, TypeInv, Inv, Local, Holding, HelperRequests
<1>2. cmd' = [cmd EXCEPT ![p] = k]
  BY <1>1 DEF FormsAt
<1>3. "forms" \in Labels
  BY DEF Labels, Sync
<1>4. /\ k \in CommandType /\ k.at = "forms" /\ k.held = cmd[p].held
      /\ k.cleared = cmd[p].held /\ k.attempt = cmd[p].attempt /\ k.wait = cmd[p].wait
  BY <1>1, <1>3 DEF FormsAt, CommandType
<1> HIDE DEF k
<1>5. Local(k, ed, helper)
  BY <1>1, <1>4 DEF Local, Attempting, OnTheWay, ExitWaits
<1>6. /\ ~Flies(k, ed) /\ ~Flies(cmd[p], ed) /\ Ordinary(k, cmd[p], ed)
      /\ StillBears(k, cmd[p], ed) /\ cmd[p].at # "ensure"
  BY <1>4 DEF Flies, Ordinary, StillBears, Bears, OnTheWay
<1> QED
  BY <1>2, <1>4, <1>5, <1>6, Goes

(* FileReset keeps the invariant.                                          *)
LEMMA FileResetStep ==
  ASSUME IInv, NEW p \in Commands, FileReset(p)
  PROVE  IInv'
<1>1. ThreadFree /\ cmd[p].at = "resetting" /\ "done" \in Blank
  BY DEF FileReset, Resumes, Blank
<1>2. /\ cmd[p].at \in Elsewhere /\ cmd[p].held # None
      /\ cmd[p].at \notin {"starting", "ensure", "request"}
  BY <1>1 DEF Elsewhere, Labels, HelperRequests, OnTheWay, IInv, Inv, Local, Holding
<1>3. CASE /\ cmd' = [cmd EXCEPT ![p].at = "forms", ![p].cleared = cmd[p].held]
           /\ UNCHANGED <<ed, helper>>
  BY <1>1, <1>3, FormsStep
<1>4. CASE AwaitHost(p, "additive") /\ UNCHANGED <<ed, helper>>
  <2> DEFINE k == HostAt(p, "additive")
  <2>1. "additive" \in Labels
    BY DEF Labels, HostWaits
  <2>2. /\ k \in CommandType /\ k.at = "additive" /\ k.held = cmd[p].held
        /\ k.attempt = cmd[p].attempt /\ k.wait = cmd[p].wait
        /\ cmd' = [cmd EXCEPT ![p] = k]
    BY <1>4, <2>1, HostStep
  <2> HIDE DEF k
  <2>3. Local(k, ed, helper) /\ ~Flies(k, ed) /\ Ordinary(k, cmd[p], ed)
    BY <1>2, <2>2, StaysLocal
  <2>4. StillBears(k, cmd[p], ed) /\ ~Flies(cmd[p], ed)
    BY <1>1 DEF StillBears, Bears, OnTheWay, Flies
  <2> QED
    BY <1>1, <1>2, <1>4, <2>2, <2>3, <2>4, Goes
<1>5. CASE /\ IsCurrentClient(cmd[p].held, cmd[p].gen)
           /\ ed' = HandleClientError(ed, Answer(p))
           /\ helper' = Retired(helper, Answer(p)) /\ Finish(p)
  BY <1>1, <1>2, <1>5, ErrorStep DEF IsCurrentClient
<1>6. CASE UNCHANGED <<ed, helper>> /\ Finish(p)
  BY <1>1, <1>2, <1>6, LeavesFrom
<1> QED
  BY <1>3, <1>4, <1>5, <1>6 DEF FileReset

(* SendAnyway keeps the invariant.                                         *)
LEMMA SendAnywayStep ==
  ASSUME IInv, NEW p \in Commands, SendAnyway(p)
  PROVE  IInv'
<1>1. /\ ThreadFree /\ cmd[p].at = "additive" /\ "done" \in Blank
      /\ UNCHANGED <<ed, helper>>
  BY DEF SendAnyway, Resumes, Blank
<1>2. cmd[p].at \in Elsewhere
  BY <1>1 DEF Elsewhere, Labels, HostWaits, OnTheWay
<1>3. CASE cmd' = [cmd EXCEPT ![p].at = "forms", ![p].cleared = cmd[p].held]
  BY <1>1, <1>3, FormsStep
<1>4. CASE Finish(p)
  BY <1>1, <1>2, <1>4, LeavesFrom
<1> QED
  BY <1>3, <1>4 DEF SendAnyway

(* The command that sends its first form.                                  *)
SendAt(p) == [cmd[p] EXCEPT !.at = "sending", !.held = ed.client, !.gen = ed.gen,
                            !.ans = "wait", !.left = Forms - 1]

(* RunSourceForms keeps the invariant.                                     *)
LEMMA RunSourceFormsStep ==
  ASSUME IInv, NEW p \in Commands, RunSourceForms(p)
  PROVE  IInv'
<1>1. /\ cmd[p].at = "forms" /\ cmd[p].at \in Sync /\ "done" \in Blank
      /\ UNCHANGED helper
  BY DEF RunSourceForms, Sync, Blank
<1>2. cmd[p].at \in Elsewhere
  BY <1>1 DEF Elsewhere, Labels, Sync, OnTheWay
<1>3. CASE UNCHANGED ed /\ Finish(p)
  BY <1>1, <1>2, <1>3, LeavesFrom
<1>4. CASE IsCurrentClient(cmd[p].held, cmd[p].gen)
  <2> DEFINE k == SendAt(p)
  <2>1. /\ ed' = BeginRunning(ed) /\ cmd \in [Commands -> CommandType]
        /\ cmd' = [cmd EXCEPT ![p] = [@ EXCEPT !.at = "sending", !.held = ed.client,
                                               !.gen = ed.gen, !.ans = "wait",
                                               !.left = Forms - 1]]
    BY <1>4 DEF RunSourceForms, IInv, TypeInv
  <2>2. cmd' = [cmd EXCEPT ![p] = k]
    BY <2>1 DEF SendAt
  <2>3. /\ cmd[p] \in CommandType /\ "sending" \in Labels /\ "wait" \in AnswerType
        /\ Forms - 1 \in 0 .. Forms /\ ed.gen \in Nat /\ ed.client \in {None} \cup Clients
    BY <2>1, EditorAssumption
       DEF IInv, TypeInv, EditorType, Labels, HelperRequests, AnswerType
  <2>4. /\ k \in CommandType /\ k.at = "sending" /\ k.held = ed.client /\ k.gen = ed.gen
        /\ k.cleared = cmd[p].cleared /\ k.attempt = cmd[p].attempt /\ k.wait = cmd[p].wait
    BY <2>3 DEF SendAt, CommandType
  <2> HIDE DEF k
  <2>5. ed.client # None /\ cmd[p].cleared = ed.client
    BY <1>1, <1>4 DEF IsCurrentClient, IInv, Inv, Local, Holding
  <2>6. Flies(k, ed) /\ Ordinary(k, cmd[p], ed) /\ k.held = k.cleared
    BY <1>1, <2>4, <2>5 DEF Flies, Ordinary
  <2> QED
    BY <1>1, <1>2, <2>1, <2>2, <2>4, <2>5, <2>6, BeginRunningStep
<1> QED
  BY <1>3, <1>4 DEF RunSourceForms

(* The command that sends its next form.                                   *)
NextForm(p) == [cmd[p] EXCEPT !.left = cmd[p].left - 1, !.ans = "wait"]

(* FormAnswered keeps the invariant.                                       *)
LEMMA FormAnsweredStep ==
  ASSUME IInv, NEW p \in Commands, FormAnswered(p)
  PROVE  IInv'
<1>1. ThreadFree /\ cmd[p].at = "sending"
  BY DEF FormAnswered, Resumes
<1>2. CASE /\ cmd[p].left > 0
           /\ cmd' = [cmd EXCEPT ![p].left = @ - 1, ![p].ans = "wait"]
           /\ UNCHANGED <<ed, helper>>
  <2> DEFINE k == NextForm(p)
  <2>1. /\ cmd \in [Commands -> CommandType] /\ cmd[p] \in CommandType
        /\ "wait" \in AnswerType /\ Local(cmd[p], ed, helper)
    BY DEF IInv, TypeInv, Inv, AnswerType
  <2>2. cmd[p].left - 1 \in 0 .. Forms
    BY <1>2, <2>1, EditorAssumption DEF CommandType
  <2>3. cmd' = [cmd EXCEPT ![p] = k]
    BY <1>2, <2>1 DEF NextForm
  <2>4. /\ k \in CommandType /\ k.at = cmd[p].at /\ k.held = cmd[p].held
        /\ k.gen = cmd[p].gen /\ k.attempt = cmd[p].attempt /\ k.wait = cmd[p].wait
        /\ k.cleared = cmd[p].cleared
    BY <2>1, <2>2 DEF NextForm, CommandType
  <2> HIDE DEF k
  <2>5. Local(k, ed, helper)
    BY <1>1, <2>1, <2>4 DEF Local, Attempting, OnTheWay, ExitWaits, Holding, HelperRequests
  <2>6. Flies(k, ed) <=> Flies(cmd[p], ed)
    BY <2>4 DEF Flies
  <2>7. /\ Ordinary(k, cmd[p], ed) /\ StillBears(k, cmd[p], ed) /\ cmd[p].at # "ensure"
    BY <1>1, <2>4 DEF Ordinary, StillBears, Bears, OnTheWay
  <2> QED
    BY <1>1, <1>2, <2>3, <2>4, <2>5, <2>6, <2>7, Goes
<1>3. CASE EndOperation(p, Answer(p)) /\ Finish(p)
  BY <1>1, <1>3, EndOperationStep
<1> QED
  BY <1>2, <1>3 DEF FormAnswered

----------------------------------------------------------------------------
(* The outside.                                                            *)

(* The command with its answer.                                            *)
AnswerAt(p, a) == [cmd[p] EXCEPT !.ans = a]

(* Its fields.                                                             *)
LEMMA AnswerRecord ==
  ASSUME TypeInv, NEW p \in Commands, NEW a \in AnswerType
  PROVE  /\ AnswerAt(p, a) \in CommandType
         /\ AnswerAt(p, a).kind = cmd[p].kind /\ AnswerAt(p, a).at = cmd[p].at
         /\ AnswerAt(p, a).held = cmd[p].held
         /\ AnswerAt(p, a).gen = cmd[p].gen /\ AnswerAt(p, a).attempt = cmd[p].attempt
         /\ AnswerAt(p, a).wait = cmd[p].wait /\ AnswerAt(p, a).cleared = cmd[p].cleared
         /\ AnswerAt(p, a).ans = a
         /\ [cmd EXCEPT ![p].ans = a] = [cmd EXCEPT ![p] = AnswerAt(p, a)]
<1>1. cmd \in [Commands -> CommandType] /\ cmd[p] \in CommandType
  BY DEF TypeInv
<1>2. [cmd EXCEPT ![p].ans = a] = [cmd EXCEPT ![p] = AnswerAt(p, a)]
  BY <1>1 DEF AnswerAt
<1> QED
  BY <1>1, <1>2 DEF AnswerAt, CommandType

(* A timer or the user answers.                                            *)
LEMMA AnswerStep ==
  ASSUME IInv, NEW p \in Commands, NEW a \in AnswerType, ThreadFree,
         cmd[p].at \in {"detaching", "settling"} \cup HostWaits,
         cmd' = [cmd EXCEPT ![p].ans = a], UNCHANGED <<ed, helper>>
  PROVE  IInv'
<1> DEFINE k == AnswerAt(p, a)
<1>1. /\ k \in CommandType /\ k.kind = cmd[p].kind /\ k.at = cmd[p].at
      /\ k.held = cmd[p].held /\ k.gen = cmd[p].gen
      /\ k.attempt = cmd[p].attempt /\ k.wait = cmd[p].wait /\ k.cleared = cmd[p].cleared
      /\ cmd' = [cmd EXCEPT ![p] = k]
  BY AnswerRecord DEF IInv
<1> HIDE DEF k
<1>2. /\ cmd[p].at \notin {"starting", "ensure", "request", "connecting", "evaluating", "sending"}
  BY DEF HostWaits
<1>3. Local(cmd[p], ed, helper)
  BY DEF IInv, Inv
<1>4. Local(k, ed, helper)
  BY <1>1, <1>2, <1>3 DEF Local
<1>5. ~Flies(k, ed) /\ ~Flies(cmd[p], ed) /\ Ordinary(k, cmd[p], ed)
  BY <1>1, <1>2 DEF Flies, Ordinary
<1>6. StillBears(k, cmd[p], ed)
  BY <1>1, <1>2 DEF StillBears, Bears
<1> QED
  BY <1>1, <1>2, <1>4, <1>5, <1>6, Goes

(* TimerExpires keeps the invariant.                                       *)
LEMMA TimerExpiresStep ==
  ASSUME IInv, NEW p \in Commands, TimerExpires(p)
  PROVE  IInv'
<1>1. "timeout" \in AnswerType
  BY DEF AnswerType
<1> QED
  BY <1>1, AnswerStep DEF TimerExpires, Quiet

(* HostAnswers keeps the invariant.                                        *)
LEMMA HostAnswersStep ==
  ASSUME IInv, NEW p \in Commands, NEW a \in {"yes", "no"}, HostAnswers(p, a)
  PROVE  IInv'
<1>1. a \in AnswerType
  BY DEF AnswerType
<1> QED
  BY <1>1, AnswerStep DEF HostAnswers, Quiet

(* A command that has not settled has no answer, and its helper runs.      *)
LEMMA Unsettled ==
  ASSUME NEW p \in Commands, Quiet
  PROVE  /\ cmd[p].at \in HelperRequests => cmd[p].ans = "wait" /\ IsRunning(cmd[p].held)
         /\ cmd[p].at = "starting" => cmd[p].ans = "wait"
BY DEF Quiet, Settled

(* The clients when the link of one of them changes.                       *)
LinkAt(h, c, up, owes) == [h EXCEPT ![c].linked = up, ![c].owes = owes]

(* Their processes do not.                                                 *)
LEMMA LinkFields ==
  ASSUME NEW h \in [Clients -> HelperType], NEW c \in Clients,
         NEW up \in BOOLEAN, NEW owes \in BOOLEAN
  PROVE  /\ LinkAt(h, c, up, owes) \in [Clients -> HelperType]
         /\ SameProcs(h, LinkAt(h, c, up, owes))
<1> DEFINE x == [h[c] EXCEPT !.linked = up, !.owes = owes]
<1>1. /\ x \in HelperType /\ x.proc = h[c].proc /\ x.disposed = h[c].disposed
      /\ x.gen = h[c].gen /\ x.retired = h[c].retired
  BY DEF HelperType
<1>2. LinkAt(h, c, up, owes) = [h EXCEPT ![c] = x]
  BY DEF LinkAt
<1> HIDE DEF x
<1> QED
  BY <1>1, <1>2 DEF SameProcs

(* HelperResponds keeps the invariant.                                     *)
LEMMA HelperRespondsStep ==
  ASSUME IInv, NEW p \in Commands, NEW a \in ResponseCodes, NEW lost \in BOOLEAN,
         HelperResponds(p, a, lost)
  PROVE  IInv'
<1> DEFINE c == cmd[p].held
           k == AnswerAt(p, a)
           up == helper[c].linked /\ ~lost /\ cmd[p].at # "detaching"
           owes == helper[c].owes \/ ((a = "not_connected" \/ lost) /\ cmd[p].at # "connecting")
<1>1. /\ Quiet /\ ThreadFree /\ cmd[p].at \in HelperRequests /\ a \in AnswerType
      /\ cmd' = [cmd EXCEPT ![p].ans = a]
  BY DEF HelperResponds, Quiet, AnswerType
<1>2. /\ ed \in EditorType /\ helper \in [Clients -> HelperType] /\ TypeInv
      /\ cmd \in [Commands -> CommandType] /\ cmd[p] \in CommandType
      /\ Counted(ed, cmd) /\ Shown(ed, cmd) /\ Local(cmd[p], ed, helper)
  BY DEF IInv, TypeInv, Inv
<1>3. c # None /\ c \in Clients /\ IsRunning(c)
  <2>1. c # None
    BY <1>1, <1>2 DEF Local, Holding
  <2>2. c \in {None} \cup Clients
    BY <1>2 DEF CommandType
  <2> QED
    BY <1>1, <2>1, <2>2, Unsettled
<1>4. UNCHANGED ed
  <2>1. ~(IsCurrentHelper(c) /\ ed.state = "running" /\ ed.running = 0)
    BY <1>2, <1>3 DEF Counted, IsCurrentHelper, IsCurrentClient
  <2> QED
    BY <2>1 DEF HelperResponds
<1>5. helper' = LinkAt(helper, c, up, owes)
  <2>1. helper' = [helper EXCEPT
              ![c].linked = @ /\ ~lost /\ cmd[p].at # "detaching",
              ![c].owes = @ \/ ((a = "not_connected" \/ lost) /\ cmd[p].at # "connecting")]
    BY DEF HelperResponds
  <2> QED
    BY <1>2, <1>3, <2>1 DEF LinkAt
<1>6. up \in BOOLEAN /\ owes \in BOOLEAN
  OBVIOUS
<1> HIDE DEF up, owes
<1>7. helper' \in [Clients -> HelperType] /\ SameProcs(helper, helper')
  BY <1>2, <1>3, <1>5, <1>6, LinkFields
<1>8. /\ k \in CommandType /\ k.kind = cmd[p].kind /\ k.at = cmd[p].at /\ k.held = c
      /\ k.gen = cmd[p].gen
      /\ k.attempt = cmd[p].attempt /\ k.wait = cmd[p].wait /\ k.cleared = cmd[p].cleared
      /\ cmd' = [cmd EXCEPT ![p] = k]
  BY <1>1, <1>2, AnswerRecord
<1> HIDE DEF k, c
<1>9. /\ cmd[p].at \notin {"starting", "ensure", "request"}
      /\ cmd[p].at \notin Sync /\ cmd[p].at \notin ExitWaits
  BY <1>1 DEF HelperRequests, Sync, ExitWaits
<1>10. cmd[p].at = "connecting" /\ cmd[p].attempt = ed.attempt => c = ed.client
  <2>1. SUFFICES ASSUME cmd[p].at = "connecting", cmd[p].attempt = ed.attempt
                 PROVE  c = ed.client
    OBVIOUS
  <2>2. c # ed.closing
    BY <1>2, <2>1 DEF Local, OnTheWay, c
  <2>3. ASSUME NEW q \in Commands, cmd[q].at = "starting", cmd[q].held = c PROVE FALSE
    <3>1. q # p
      BY <2>1, <2>3
    <3> QED
      BY <2>3, <3>1 DEF IInv, Inv, Pair, c
  <2> QED
    BY <1>3, <2>2, <2>3 DEF IInv, Inv, Owned, IsRunning
<1>11. Local(k, ed', helper')
  BY <1>2, <1>3, <1>4, <1>7, <1>8, <1>9, <1>10
     DEF Local, OnTheWay, Attempting, Sync, SameProcs, c
<1>12. Flies(k, ed) <=> Flies(cmd[p], ed)
  BY <1>8 DEF Flies, c
<1>13. StillBears(k, cmd[p], ed)
  BY <1>8, <1>9 DEF StillBears, Bears, c
<1>14. Ordinary(k, cmd[p], ed)
  BY <1>8, <1>9 DEF Ordinary, c
<1>15. Counted(ed', [cmd EXCEPT ![p] = k])
  BY <1>2, <1>4, <1>12, CountedSame
<1>16. Shown(ed', [cmd EXCEPT ![p] = k])
  BY <1>2, <1>4, <1>13, ShownKept
<1>17. ed' \in EditorType /\ SameIds(ed, ed')
  BY <1>2, <1>4 DEF SameIds
<1> QED
  BY <1>1, <1>7, <1>8, <1>9, <1>11, <1>14, <1>15, <1>16, <1>17, Changes

(* The fields when the device is lost.                                     *)
LEMMA LoseFields ==
  ASSUME NEW e \in EditorType
  PROVE  /\ LoseDevice(e) \in EditorType
         /\ LoseDevice(e).client = e.client /\ LoseDevice(e).closing = e.closing
         /\ LoseDevice(e).device = None /\ LoseDevice(e).state = "disconnected"
         /\ LoseDevice(e).running = 0 /\ LoseDevice(e).waiters = {}
         /\ LoseDevice(e).gen = e.gen /\ LoseDevice(e).attempt = e.attempt
<1> DEFINE f == ClearRunningState(e)
<1>1. /\ f \in EditorType /\ f.client = e.client /\ f.closing = e.closing
      /\ f.running = 0 /\ f.waiters = {} /\ f.gen = e.gen /\ f.attempt = e.attempt
  BY DEF ClearRunningState, EditorType
<1> DEFINE g == [ClearSessionState(f) EXCEPT !.state = "disconnected"]
<1>2. LoseDevice(e) = g
  BY DEF LoseDevice
<1> HIDE DEF f
<1>3. /\ g \in EditorType /\ g.client = f.client /\ g.closing = f.closing
      /\ g.device = None /\ g.gen = f.gen /\ g.attempt = f.attempt
      /\ g.running = f.running /\ g.waiters = f.waiters /\ g.state = "disconnected"
  BY <1>1, ClearedFields
<1> HIDE DEF g
<1> QED
  BY <1>1, <1>2, <1>3

(* The fields after applyConnectedDevice.                                  *)
LEMMA ApplyFields ==
  ASSUME NEW e \in EditorType, NEW c \in Clients
  PROVE  /\ ApplyConnectedDevice(e, c) \in EditorType
         /\ ApplyConnectedDevice(e, c).client = e.client
         /\ ApplyConnectedDevice(e, c).closing = e.closing
         /\ ApplyConnectedDevice(e, c).device = c
         /\ ApplyConnectedDevice(e, c).state = "connected"
         /\ ApplyConnectedDevice(e, c).running = 0
         /\ ApplyConnectedDevice(e, c).waiters = {}
         /\ ApplyConnectedDevice(e, c).gen = e.gen
         /\ ApplyConnectedDevice(e, c).attempt = e.attempt
<1>1. "connected" \in ConnectionState
  BY DEF ConnectionState
<1> QED
  BY <1>1 DEF ApplyConnectedDevice, ClearRunningState, EditorType

(* The command whose connect has been announced.                           *)
NoteAt(p, note) == [cmd[p] EXCEPT !.note = note]

(* ConnectAnnounced keeps the invariant.                                   *)
LEMMA ConnectAnnouncedStep ==
  ASSUME IInv, NEW p \in Commands, NEW up \in BOOLEAN, ConnectAnnounced(p, up)
  PROVE  IInv'
<1> DEFINE c == cmd[p].held
           note == IF up THEN "up" ELSE "down"
           k == NoteAt(p, note)
           owes == helper[c].owes
<1>1. /\ Quiet /\ ThreadFree /\ cmd[p].at = "connecting" /\ cmd[p].at \in HelperRequests
      /\ cmd' = [cmd EXCEPT ![p].note = note]
      /\ helper' = [helper EXCEPT ![c].linked = up]
  BY DEF ConnectAnnounced, Quiet, HelperRequests
<1>2. /\ ed \in EditorType /\ helper \in [Clients -> HelperType] /\ TypeInv
      /\ cmd \in [Commands -> CommandType] /\ cmd[p] \in CommandType
      /\ Counted(ed, cmd) /\ Shown(ed, cmd) /\ Local(cmd[p], ed, helper)
  BY DEF IInv, TypeInv, Inv
<1>3. c # None /\ c \in Clients /\ cmd[p].ans = "wait"
  <2>1. c # None
    BY <1>1, <1>2 DEF Local, Holding
  <2>2. c \in {None} \cup Clients
    BY <1>2 DEF CommandType
  <2> QED
    BY <1>1, <2>1, <2>2, Unsettled
<1>4. /\ k \in CommandType /\ k.kind = cmd[p].kind /\ k.at = cmd[p].at /\ k.held = c
      /\ k.gen = cmd[p].gen /\ k.ans = "wait"
      /\ k.attempt = cmd[p].attempt /\ k.wait = cmd[p].wait /\ k.cleared = cmd[p].cleared
  BY <1>2, <1>3 DEF NoteAt, CommandType
<1>5. cmd' = [cmd EXCEPT ![p] = k]
  BY <1>1, <1>2 DEF NoteAt
<1>6. helper' = LinkAt(helper, c, up, owes) /\ owes \in BOOLEAN
  BY <1>1, <1>2, <1>3 DEF LinkAt, HelperType
<1> HIDE DEF owes
<1>7. helper' \in [Clients -> HelperType] /\ SameProcs(helper, helper')
  BY <1>2, <1>3, <1>6, LinkFields
<1> HIDE DEF k, note
<1>8. /\ ed' \in EditorType /\ ed'.client = ed.client /\ ed'.closing = ed.closing
      /\ ed'.gen = ed.gen /\ ed'.attempt = ed.attempt
      /\ \/ UNCHANGED ed
         \/ /\ ed'.running = 0 /\ ed'.waiters = {}
            /\ \/ ed'.state = "connected" /\ ed'.device = ed.client
               \/ ed'.state = "disconnected" /\ ed'.device = None
  <2>1. CASE ~IsCurrentHelper(c)
    BY <1>2, <2>1 DEF ConnectAnnounced
  <2>2. CASE IsCurrentHelper(c) /\ up
    <3>1. ed' = ApplyConnectedDevice(ed, c) /\ c = ed.client
      BY <2>2 DEF ConnectAnnounced, IsCurrentHelper, IsCurrentClient
    <3> QED
      BY <1>2, <1>3, <3>1, ApplyFields
  <2>3. CASE IsCurrentHelper(c) /\ ~up
    <3>1. ed' = LoseDevice(ed)
      BY <2>3 DEF ConnectAnnounced
    <3> QED
      BY <1>2, <3>1, LoseFields
  <2> QED
    BY <2>1, <2>2, <2>3
<1>9. SameIds(ed, ed')
  BY <1>8 DEF SameIds
<1>10. Ordinary(k, cmd[p], ed)
  BY <1>1, <1>4 DEF Ordinary
<1>11. Local(k, ed', helper')
  BY <1>1, <1>2, <1>4, <1>8
     DEF Local, OnTheWay, Attempting, Holding, ExitWaits
<1>12. Flies(k, ed) <=> Flies(cmd[p], ed)
  BY <1>4 DEF Flies
<1>13. StillBears(k, cmd[p], ed)
  BY <1>1, <1>4 DEF StillBears, Bears
<1>14. Counted(ed', [cmd EXCEPT ![p] = k]) /\ Shown(ed', [cmd EXCEPT ![p] = k])
  <2>1. CASE UNCHANGED ed
    BY <1>2, <1>12, <1>13, <2>1, CountedSame, ShownKept
  <2>2. CASE /\ ed'.running = 0 /\ ed'.waiters = {}
             /\ \/ ed'.state = "connected" /\ ed'.device = ed.client
                \/ ed'.state = "disconnected" /\ ed'.device = None
    <3>1. ed'.state # "running"
      BY <2>2
    <3>2. \/ ed'.state \notin {"connected", "connecting"}
          \/ ed'.state = "connected" /\ ed'.device = ed'.client
      BY <1>8, <2>2
    <3> QED
      BY <2>2, <3>1, <3>2, IdleCounted, ShownPlain
  <2> QED
    BY <1>8, <2>1, <2>2
<1>15. cmd[p].at # "ensure"
  BY <1>1
<1> QED
  BY <1>1, <1>4, <1>5, <1>7, <1>8, <1>9, <1>10, <1>11, <1>14, <1>15, Changes

(* The outside changes the clients, and no command.                        *)
LEMMA OutsiderStep ==
  ASSUME IInv, ThreadFree, UNCHANGED cmd,
         ed' \in EditorType, helper' \in [Clients -> HelperType],
         ed'.gen = ed.gen, ed'.attempt = ed.attempt,
         \A q \in Commands : /\ EditorKeeps(cmd[q], ed, ed')
                             /\ HelperKeeps(cmd[q], helper, helper'),
         Core(ed', helper'), Owned(ed', helper', cmd), Counted(ed', cmd), Shown(ed', cmd)
  PROVE  IInv'
<1>1. /\ ed \in EditorType /\ helper \in [Clients -> HelperType]
      /\ cmd \in [Commands -> CommandType]
      /\ Pair(cmd) /\ Newest(ed, cmd) /\ \A q \in Commands : Local(cmd[q], ed, helper)
  BY DEF IInv, TypeInv, Inv
<1>2. ASSUME NEW q \in Commands PROVE Local(cmd[q], ed', helper')
  <2>1. cmd[q] \in CommandType /\ cmd[q].at \notin Sync
    BY <1>1, <1>2 DEF ThreadFree
  <2> QED
    BY <1>1, <1>2, <2>1, LocalKept
<1>3. Newest(ed', cmd)
  BY <1>1 DEF Newest
<1>4. Inv(ed', helper', cmd)
  BY <1>1, <1>2, <1>3 DEF Inv
<1> QED
  BY <1>1, <1>4 DEF IInv, TypeInv

(* HelperAnnouncesLoss keeps the invariant.                                *)
LEMMA HelperAnnouncesLossStep ==
  ASSUME IInv, NEW c \in Clients, HelperAnnouncesLoss(c)
  PROVE  IInv'
<1> DEFINE up == helper[c].linked
<1>1. /\ ThreadFree /\ UNCHANGED cmd /\ helper' = [helper EXCEPT ![c].owes = FALSE]
      /\ ed' = IF IsCurrentHelper(c) THEN LoseDevice(ed) ELSE ed
  BY DEF HelperAnnouncesLoss
<1>2. /\ ed \in EditorType /\ helper \in [Clients -> HelperType]
      /\ cmd \in [Commands -> CommandType] /\ Core(ed, helper)
      /\ Counted(ed, cmd) /\ Shown(ed, cmd) /\ Owned(ed, helper, cmd)
      /\ \A q \in Commands : Local(cmd[q], ed, helper)
  BY DEF IInv, TypeInv, Inv
<1>3. helper' = LinkAt(helper, c, up, FALSE) /\ up \in BOOLEAN /\ FALSE \in BOOLEAN
  BY <1>1, <1>2 DEF LinkAt, HelperType
<1> HIDE DEF up
<1>4. helper' \in [Clients -> HelperType] /\ SameProcs(helper, helper')
  BY <1>2, <1>3, LinkFields
<1>5. /\ ed' \in EditorType /\ ed'.client = ed.client /\ ed'.closing = ed.closing
      /\ ed'.gen = ed.gen /\ ed'.attempt = ed.attempt
      /\ \/ UNCHANGED ed
         \/ /\ ed'.running = 0 /\ ed'.waiters = {}
            /\ ed'.state = "disconnected" /\ ed'.device = None
  BY <1>1, <1>2, LoseFields
<1>6. SameIds(ed, ed')
  BY <1>5 DEF SameIds
<1>7. Core(ed', helper')
  BY <1>2, <1>4, <1>5, <1>6, SameCore
<1>8. \A q \in Commands : /\ EditorKeeps(cmd[q], ed, ed')
                          /\ HelperKeeps(cmd[q], helper, helper')
  BY <1>2, <1>4, <1>6, SameKeeps
<1>9. Owned(ed', helper', cmd)
  BY <1>2, <1>4, <1>5 DEF Owned, SameProcs
<1>10. Counted(ed', cmd) /\ Shown(ed', cmd)
  <2>1. CASE UNCHANGED ed
    BY <1>2, <2>1
  <2>2. CASE /\ ed'.running = 0 /\ ed'.waiters = {}
             /\ ed'.state = "disconnected" /\ ed'.device = None
    <3>1. ed'.state # "running" /\ ed'.state \notin {"connected", "connecting"}
      BY <2>2
    <3> QED
      BY <2>2, <3>1, IdleCounted, ShownPlain
  <2> QED
    BY <1>5, <2>1, <2>2
<1> QED
  BY <1>1, <1>4, <1>5, <1>7, <1>8, <1>9, <1>10, OutsiderStep

(* The controller after the exit of its client.                            *)
ExitFrom(e) == [LoseDevice(e) EXCEPT !.client = None]

(* Its fields.                                                             *)
LEMMA ExitFields ==
  ASSUME NEW e \in EditorType
  PROVE  /\ ExitFrom(e) \in EditorType
         /\ ExitFrom(e).client = None /\ ExitFrom(e).closing = e.closing
         /\ ExitFrom(e).device = None /\ ExitFrom(e).state = "disconnected"
         /\ ExitFrom(e).running = 0 /\ ExitFrom(e).waiters = {}
         /\ ExitFrom(e).gen = e.gen /\ ExitFrom(e).attempt = e.attempt
<1> DEFINE f == LoseDevice(e)
<1>1. /\ f \in EditorType /\ f.closing = e.closing /\ f.device = None
      /\ f.state = "disconnected" /\ f.running = 0 /\ f.waiters = {}
      /\ f.gen = e.gen /\ f.attempt = e.attempt
  BY LoseFields
<1>2. ExitFrom(e) = [f EXCEPT !.client = None]
  BY DEF ExitFrom
<1> HIDE DEF f
<1> QED
  BY <1>1, <1>2 DEF EditorType

(* HandleHelperExit keeps the invariant.                                   *)
LEMMA HandleHelperExitStep ==
  ASSUME IInv, NEW c \in Clients, HandleHelperExit(c)
  PROVE  IInv'
<1>1. /\ Quiet /\ ThreadFree /\ UNCHANGED cmd /\ helper[c].proc = "up"
      /\ helper' = [helper EXCEPT ![c] = Gone]
  BY DEF HandleHelperExit, Quiet
<1>2. /\ ed \in EditorType /\ helper \in [Clients -> HelperType]
      /\ cmd \in [Commands -> CommandType] /\ Core(ed, helper)
      /\ Counted(ed, cmd) /\ Shown(ed, cmd) /\ Owned(ed, helper, cmd)
      /\ \A q \in Commands : Local(cmd[q], ed, helper)
  BY DEF IInv, TypeInv, Inv
<1>3. /\ Gone \in HelperType /\ Gone.proc = "gone" /\ Gone.disposed /\ ~Gone.retired
  BY DEF Gone, NewHelper, HelperType
<1>4. /\ helper' \in [Clients -> HelperType]
      /\ helper'[c].proc = "gone" /\ helper'[c].disposed /\ ~helper'[c].retired
      /\ \A d \in Clients : d # c => helper'[d] = helper[d]
  BY <1>1, <1>2, <1>3
<1>5. ed.client = c <=> IsCurrentHelper(c)
  BY <1>2, NoneIsNoClient DEF Core, IsCurrentHelper, IsCurrentClient
<1>6. \A q \in Commands : HelperKeeps(cmd[q], helper, helper')
  <2>1. ASSUME NEW q \in Commands, cmd[q].at = "starting" PROVE cmd[q].held # c
    <3>1. cmd[q].ans = "wait"
      BY <1>1, <2>1, Unsettled
    <3>2. helper[cmd[q].held].proc = "starting"
      BY <1>2, <2>1, <3>1 DEF Local
    <3> QED
      BY <1>1, <3>2
  <2>2. \A q \in Commands : cmd[q].at = "starting" => cmd[q].held \in Clients
    <3>1. \A q \in Commands : cmd[q].held \in {None} \cup Clients
      BY <1>2 DEF CommandType
    <3>2. \A q \in Commands : cmd[q].at = "starting" => cmd[q].held # None
      BY <1>2 DEF Local, Holding
    <3> QED
      BY <3>1, <3>2
  <2>3. \A q \in Commands : cmd[q].wait \subseteq Clients
    BY <1>2 DEF CommandType
  <2>4. \A d \in Clients :
          /\ helper[d].proc \in {"up", "gone"} => helper'[d].proc \in {"up", "gone"}
          /\ helper[d].disposed => helper'[d].disposed
    BY <1>4
  <2> QED
    BY <1>4, <2>1, <2>2, <2>3, <2>4 DEF HelperKeeps
<1>7. \A d \in Clients : helper'[d].retired => helper'[d].disposed
  BY <1>2, <1>4 DEF Core
<1>8. CASE ed.client = c
  <2>1. ed' = ExitFrom(ed)
    BY <1>5, <1>8 DEF HandleHelperExit, ExitFrom
  <2>2. /\ ed' \in EditorType /\ ed'.client = None /\ ed'.closing = ed.closing
        /\ ed'.device = None /\ ed'.state = "disconnected" /\ ed'.running = 0
        /\ ed'.waiters = {} /\ ed'.gen = ed.gen /\ ed'.attempt = ed.attempt
    BY <1>2, <2>1, ExitFields
  <2>3. ed.closing = None
    BY <1>2, <1>8, NoneIsNoClient DEF Core
  <2>4. Core(ed', helper')
    BY <1>7, <2>2, <2>3 DEF Core
  <2>5. Owned(ed', helper', cmd)
    BY <1>2, <1>4, <1>8, <2>2 DEF Owned
  <2>6. Counted(ed', cmd) /\ Shown(ed', cmd)
    BY <2>2, IdleCounted, ShownPlain
  <2>7. ASSUME NEW q \in Commands PROVE EditorKeeps(cmd[q], ed, ed')
    <3>1. cmd[q].at # "connecting" \/ cmd[q].ans = "wait"
      BY <1>1, <2>7, Unsettled DEF HelperRequests
    <3> QED
      BY <2>2, <3>1 DEF EditorKeeps
  <2> QED
    BY <1>1, <1>4, <1>6, <2>2, <2>4, <2>5, <2>6, <2>7, OutsiderStep
<1>9. CASE ed.client # c
  <2>1. ed' = IF ed.closing = c /\ helper[c].retired THEN [ed EXCEPT !.closing = None] ELSE ed
    BY <1>5, <1>9 DEF HandleHelperExit
  <2>2. /\ ed' \in EditorType /\ ed'.client = ed.client
        /\ ed'.device = ed.device /\ ed'.state = ed.state /\ ed'.running = ed.running
        /\ ed'.waiters = ed.waiters /\ ed'.gen = ed.gen /\ ed'.attempt = ed.attempt
        /\ \/ ed'.closing = ed.closing
           \/ ed.closing = c /\ helper[c].retired /\ ed'.closing = None
    BY <1>2, <2>1 DEF EditorType
  <2>3. ed.client \in {None} \cup Clients /\ ed.closing \in {None} \cup Clients
    BY <1>2 DEF EditorType
  <2>4. Core(ed', helper')
    <3>1. ed'.client # None =>
            /\ helper'[ed'.client].proc = "up" /\ ~helper'[ed'.client].disposed
            /\ helper'[ed'.client].gen = ed'.gen /\ ed'.closing = None
      BY <1>2, <1>4, <1>9, <2>2, <2>3 DEF Core
    <3>2. CASE ed.closing # c
      BY <1>2, <1>4, <1>7, <2>2, <2>3, <3>1, <3>2 DEF Core
    <3>3. CASE ed.closing = c
      <4>1. c # None
        BY NoneIsNoClient
      <4>2. ed.device = None \/ ~helper[c].retired
        BY <1>2, <3>3, <4>1 DEF Core
      <4>3. ed'.device # None => ed'.device \in {ed'.client, ed'.closing}
        BY <1>2, <2>2, <3>3, <4>2 DEF Core
      <4>4. ed'.closing # None =>
              helper'[ed'.closing].proc \in {"up", "gone"} /\ ~helper'[ed'.closing].retired
        BY <1>4, <2>2, <3>3
      <4> QED
        BY <1>7, <3>1, <4>3, <4>4 DEF Core
    <3> QED
      BY <3>2, <3>3
  <2>5. Owned(ed', helper', cmd)
    BY <1>2, <1>4, <2>2 DEF Owned
  <2>6. Counted(ed', cmd)
    <3>1. FlightOf(ed', cmd) = FlightOf(ed, cmd)
      BY <2>2 DEF FlightOf, Flies
    <3> QED
      BY <1>2, <2>2, <3>1 DEF Counted
  <2>7. Shown(ed', cmd)
    BY <1>2, <2>2 DEF Shown, Bears
  <2>8. \A q \in Commands : EditorKeeps(cmd[q], ed, ed')
    BY <2>2 DEF EditorKeeps
  <2> QED
    BY <1>1, <1>4, <1>6, <2>2, <2>4, <2>5, <2>6, <2>7, <2>8, OutsiderStep
<1> QED
  BY <1>8, <1>9

(* A client whose process has started or has not.                          *)
Spawned(x, ok) == IF ok THEN [x EXCEPT !.proc = "up"] ELSE Gone

(* HelperSpawns keeps the invariant.                                       *)
LEMMA HelperSpawnsStep ==
  ASSUME IInv, NEW p \in Commands, NEW ok \in BOOLEAN, HelperSpawns(p, ok)
  PROVE  IInv'
<1> DEFINE c == cmd[p].held
           a == IF ok THEN "up" ELSE "failed"
           k == AnswerAt(p, a)
           x == Spawned(helper[c], ok)
           m == [cmd EXCEPT ![p] = k]
<1>1. /\ Quiet /\ ThreadFree /\ cmd[p].at = "starting" /\ cmd[p].ans = "wait"
      /\ UNCHANGED ed /\ a \in AnswerType /\ cmd' = [cmd EXCEPT ![p].ans = a]
  BY DEF HelperSpawns, Quiet, AnswerType
<1>2. /\ ed \in EditorType /\ helper \in [Clients -> HelperType] /\ TypeInv
      /\ cmd \in [Commands -> CommandType] /\ cmd[p] \in CommandType
      /\ Core(ed, helper) /\ Owned(ed, helper, cmd)
      /\ Counted(ed, cmd) /\ Shown(ed, cmd) /\ Pair(cmd) /\ Newest(ed, cmd)
      /\ \A q \in Commands : Local(cmd[q], ed, helper)
  BY DEF IInv, TypeInv, Inv
<1>3. /\ c # None /\ c \notin {ed.client, ed.closing, ed.device} /\ c \in Clients
      /\ helper[c].proc = "starting" /\ ~helper[c].disposed /\ helper[c].gen = cmd[p].gen
  <2>1. /\ c # None /\ c \notin {ed.client, ed.closing, ed.device}
        /\ helper[c].proc = "starting" /\ ~helper[c].disposed /\ helper[c].gen = cmd[p].gen
    BY <1>1, <1>2 DEF Local, Holding
  <2>2. c \in {None} \cup Clients
    BY <1>2 DEF CommandType
  <2> QED
    BY <2>1, <2>2
<1>4. helper' = [helper EXCEPT ![c] = x]
  BY DEF HelperSpawns, Spawned
<1>5. /\ k \in CommandType /\ k.kind = cmd[p].kind /\ k.at = cmd[p].at /\ k.held = c
      /\ k.gen = cmd[p].gen /\ k.ans = a
      /\ k.attempt = cmd[p].attempt /\ k.wait = cmd[p].wait /\ k.cleared = cmd[p].cleared
      /\ cmd' = m
  BY <1>1, <1>2, AnswerRecord
<1>6. /\ x \in HelperType /\ (x.retired => x.disposed)
      /\ ok => x.proc = "up" /\ ~x.disposed /\ x.gen = cmd[p].gen
      /\ ~ok => x.proc = "gone" /\ x.disposed
  <2>1. CASE ok
    <3>1. /\ x \in HelperType /\ x.proc = "up" /\ x.disposed = helper[c].disposed
          /\ x.gen = helper[c].gen /\ x.retired = helper[c].retired
      BY <1>2, <1>3, <2>1 DEF Spawned, HelperType
    <3> QED
      BY <1>2, <1>3, <2>1, <3>1 DEF Core
  <2>2. CASE ~ok
    <3>1. Gone \in HelperType /\ Gone.proc = "gone" /\ Gone.disposed
      BY DEF Gone, NewHelper, HelperType
    <3> QED
      BY <2>2, <3>1 DEF Spawned
  <2> QED
    BY <2>1, <2>2
<1>7. (ok => a = "up") /\ (~ok => a = "failed")
  OBVIOUS
<1> HIDE DEF c, a, k, x
<1>8. /\ helper' \in [Clients -> HelperType] /\ helper'[c] = x
      /\ \A d \in Clients : d # c => helper'[d] = helper[d]
  BY <1>2, <1>3, <1>4, <1>6
<1>9. /\ m \in [Commands -> CommandType] /\ m[p] = k
      /\ \A q \in Commands : q # p => m[q] = cmd[q]
      /\ \A q \in Commands : /\ m[q].at = cmd[q].at /\ m[q].held = cmd[q].held
                              /\ m[q].gen = cmd[q].gen /\ m[q].attempt = cmd[q].attempt
                              /\ m[q].wait = cmd[q].wait
  BY <1>2, <1>5 DEF c
<1>10. Core(ed, helper')
  <2>1. \A d \in Clients : helper'[d].retired => helper'[d].disposed
    BY <1>2, <1>6, <1>8 DEF Core
  <2>2. /\ ed.client # None => helper'[ed.client] = helper[ed.client]
        /\ ed.closing # None => helper'[ed.closing] = helper[ed.closing]
    BY <1>2, <1>3, <1>8 DEF EditorType
  <2> QED
    BY <1>2, <2>1, <2>2 DEF Core
<1>11. ASSUME NEW q \in Commands PROVE Local(m[q], ed, helper')
  <2>1. CASE q # p
    <3>1. EditorKeeps(cmd[q], ed, ed)
      BY DEF EditorKeeps
    <3>2. HelperKeeps(cmd[q], helper, helper')
      <4>1. cmd[q].at = "starting" => cmd[q].held # c /\ cmd[q].held \in Clients
        <5>1. cmd[q].held \in {None} \cup Clients
          BY <1>2, <1>11 DEF CommandType
        <5>2. cmd[q].at = "starting" => cmd[q].held # c /\ cmd[q].held # None
          BY <1>1, <1>2, <1>11, <2>1 DEF Pair, Local, Holding, c
        <5> QED
          BY <5>1, <5>2
      <4>2. cmd[q].wait \subseteq Clients
        BY <1>2, <1>11 DEF CommandType
      <4>3. \A d \in Clients :
              /\ helper[d].proc \in {"up", "gone"} => helper'[d].proc \in {"up", "gone"}
              /\ helper[d].disposed => helper'[d].disposed
        BY <1>3, <1>8
      <4> QED
        BY <1>8, <4>1, <4>2, <4>3 DEF HelperKeeps
    <3>3. cmd[q] \in CommandType /\ cmd[q].at \notin Sync
      BY <1>1, <1>2, <1>11 DEF ThreadFree
    <3> QED
      BY <1>2, <1>8, <1>9, <1>11, <2>1, <3>1, <3>2, <3>3, LocalKept
  <2>2. CASE q = p
    <3>1. Local(cmd[p], ed, helper)
      BY <1>2
    <3>2. /\ a # "wait" /\ helper'[c].proc # "none"
          /\ a # "failed" => ~helper'[c].disposed /\ helper'[c].gen = k.gen
          /\ a = "up" => helper'[c].proc = "up"
      BY <1>5, <1>6, <1>7, <1>8
    <3> QED
      BY <1>1, <1>3, <1>5, <1>9, <2>2, <3>1, <3>2
         DEF Local, OnTheWay, Attempting, ExitWaits
  <2> QED
    BY <2>1, <2>2
<1>12. Pair(m) /\ Newest(ed, m)
  BY <1>2, <1>9 DEF Pair, Newest
<1>13. Owned(ed, helper', m)
  <2>1. ASSUME NEW d \in Clients, helper'[d].proc = "up", ~helper'[d].disposed
        PROVE  \/ d \in {ed.client, ed.closing}
               \/ \E q \in Commands : m[q].at = "starting" /\ m[q].held = d
    <3>1. CASE d = c
      BY <1>1, <1>9, <3>1 DEF c
    <3>2. CASE d # c
      BY <1>2, <1>8, <1>9, <2>1, <3>2 DEF Owned
    <3> QED
      BY <3>1, <3>2
  <2> QED
    BY <2>1 DEF Owned
<1>14. ~Flies(k, ed) /\ ~Flies(cmd[p], ed) /\ StillBears(k, cmd[p], ed)
  BY <1>1, <1>5 DEF Flies, StillBears, Bears, OnTheWay
<1>15. Counted(ed, m) /\ Shown(ed, m)
  BY <1>2, <1>14, CountedSame, ShownKept
<1>16. Inv(ed, helper', m)
  BY <1>10, <1>11, <1>12, <1>13, <1>15 DEF Inv
<1> HIDE DEF m
<1> QED
  BY <1>1, <1>2, <1>5, <1>8, <1>9, <1>16 DEF IInv, TypeInv

----------------------------------------------------------------------------
(* The invariant is inductive.                                             *)

(* The commands at the start.                                              *)
LEMMA InitRecords ==
  ASSUME NEW plan \in FreshPlans \cup ConnectedPlans
  PROVE  \A p \in Commands :
           /\ Given(plan)[p] \in CommandType
           /\ Given(plan)[p].at \in {"unborn", "done"}
           /\ Given(plan)[p].at = "unborn" => Given(plan)[p].kind \in Kinds
           /\ Given(plan)[p].attempt = 0
<1>1. /\ 0 \in Nat /\ 0 \in 0 .. Forms /\ "wait" \in AnswerType
      /\ "unborn" \in Labels /\ "done" \in Labels
      /\ \A p \in DOMAIN plan : plan[p] \in Kinds
  BY EditorAssumption DEF AnswerType, Labels
<1>2. ASSUME NEW p \in Commands
      PROVE  /\ Given(plan)[p] \in CommandType
             /\ Given(plan)[p].at \in {"unborn", "done"}
             /\ Given(plan)[p].at = "unborn" => Given(plan)[p].kind \in Kinds
             /\ Given(plan)[p].attempt = 0
  <2>1. CASE p \in DOMAIN plan
    <3> DEFINE x == plan[p]
    <3>1. x \in Kinds /\ Given(plan)[p] = [NewCommand EXCEPT !.kind = x]
      BY <1>1, <1>2, <2>1 DEF Given
    <3> HIDE DEF x
    <3> QED
      BY <1>1, <3>1 DEF NewCommand, CommandType
  <2>2. CASE p \notin DOMAIN plan
    <3>1. Given(plan)[p] = [NewCommand EXCEPT !.at = "done"]
      BY <1>2, <2>2 DEF Given
    <3> QED
      BY <1>1, <3>1 DEF NewCommand, CommandType
  <2> QED
    BY <2>1, <2>2
<1> QED
  BY <1>2

(* A command that has not begun, or that has ended, holds nothing.         *)
LEMMA InitLocal ==
  ASSUME NEW k, NEW e, NEW h, k.at \in {"unborn", "done"},
         k.at = "unborn" => k.kind \in Kinds
  PROVE  Local(k, e, h) /\ ~Flies(k, e)
<1>1. Local(k, e, h)
  BY DEF Local, Holding, HelperRequests, Attempting, OnTheWay, ExitWaits
<1>2. ~Flies(k, e)
  BY DEF Flies
<1> QED
  BY <1>1, <1>2

(* The invariant holds at the start, connected or not.                     *)
LEMMA InitInv ==
  ASSUME Init
  PROVE  IInv
<1>1. PICK plan \in FreshPlans \cup ConnectedPlans : cmd = Given(plan)
  BY DEF Init
<1>2. \A p \in Commands : /\ cmd[p] \in CommandType /\ cmd[p].at \in {"unborn", "done"}
                          /\ cmd[p].at = "unborn" => cmd[p].kind \in Kinds
                          /\ cmd[p].attempt = 0
  BY <1>1, InitRecords
<1>3. cmd \in [Commands -> CommandType]
  BY <1>1, <1>2 DEF Given
<1>4. Pair(cmd) /\ Newest(ed, cmd) /\ \A p \in Commands : Local(cmd[p], ed, helper)
  <2>1. Pair(cmd)
    BY <1>2 DEF Pair, Sync
  <2>2. Newest(ed, cmd)
    BY <1>2 DEF Newest
  <2> QED
    BY <1>2, <2>1, <2>2, InitLocal
<1>5. /\ 0 \in Nat /\ 1 \in Nat /\ {} \in SUBSET Commands /\ "idle" \in ConnectionState
      /\ "connected" \in ConnectionState
  BY DEF ConnectionState
<1>6. CASE ed = NewController /\ helper = [c \in Clients |-> NewHelper]
  <2>1. /\ ed \in EditorType /\ ed.client = None /\ ed.closing = None /\ ed.device = None
        /\ ed.running = 0 /\ ed.waiters = {} /\ ed.state = "idle"
    BY <1>5, <1>6 DEF NewController, EditorType, None
  <2>2. NewHelper \in HelperType /\ NewHelper.proc = "none" /\ ~NewHelper.retired
    BY <1>5 DEF NewHelper, HelperType
  <2>3. /\ helper \in [Clients -> HelperType]
        /\ \A c \in Clients : helper[c].proc = "none" /\ ~helper[c].retired
    BY <1>6, <2>2
  <2>4. Core(ed, helper) /\ Owned(ed, helper, cmd)
    BY <2>1, <2>3 DEF Core, Owned
  <2>5. Counted(ed, cmd) /\ Shown(ed, cmd)
    BY <2>1, IdleCounted, ShownPlain
  <2> QED
    BY <1>3, <1>4, <2>1, <2>3, <2>4, <2>5 DEF IInv, TypeInv, Inv
<1>7. CASE /\ ConnectedPlans # {}
           /\ ed = [NewController EXCEPT !.client = 1, !.state = "connected", !.device = 1,
                                        !.gen = 1, !.attempt = 1]
           /\ helper = [c \in Clients |->
                 IF c = 1 THEN [NewHelper EXCEPT !.proc = "up", !.gen = 1, !.linked = TRUE]
                 ELSE NewHelper]
  <2>1. 1 \in Clients
    <3>1. Clients # {} /\ Clients = 1 .. Cardinality(Clients)
      BY <1>7, EditorAssumption
    <3>2. Cardinality(Clients) \in Nat
      BY EditorAssumption, FS_CardinalityType
    <3> QED
      BY <3>1, <3>2
  <2>2. /\ ed \in EditorType /\ ed.client = 1 /\ ed.closing = None /\ ed.device = 1
        /\ ed.running = 0 /\ ed.waiters = {} /\ ed.state = "connected" /\ ed.gen = 1
    BY <1>5, <1>7, <2>1 DEF NewController, EditorType, None
  <2> DEFINE x == [NewHelper EXCEPT !.proc = "up", !.gen = 1, !.linked = TRUE]
  <2>3. /\ NewHelper \in HelperType /\ NewHelper.proc = "none" /\ ~NewHelper.retired
        /\ x \in HelperType /\ x.proc = "up" /\ ~x.retired /\ ~x.disposed /\ x.gen = 1
    BY <1>5 DEF NewHelper, HelperType
  <2>4. helper = [c \in Clients |-> IF c = 1 THEN x ELSE NewHelper]
    BY <1>7
  <2> HIDE DEF x
  <2>5. /\ helper \in [Clients -> HelperType] /\ helper[1] = x
        /\ \A c \in Clients : ~helper[c].retired
        /\ \A c \in Clients : helper[c].proc = "up" => c = 1
    BY <2>1, <2>3, <2>4
  <2>6. Core(ed, helper) /\ Owned(ed, helper, cmd)
    BY <2>2, <2>3, <2>5 DEF Core, Owned
  <2>7. Counted(ed, cmd) /\ Shown(ed, cmd)
    BY <2>2, IdleCounted, ShownPlain
  <2> QED
    BY <1>3, <1>4, <2>2, <2>5, <2>6, <2>7 DEF IInv, TypeInv, Inv
<1> QED
  BY <1>6, <1>7 DEF Init

(* Every stretch of the controller's code keeps the invariant.             *)
LEMMA CodeStep ==
  ASSUME IInv, NEW p \in Commands, Code(p)
  PROVE  IInv'
<1>1. CASE \/ WaitForClosing(p) \/ AfterClosing(p) \/ StopRunning(p) \/ AfterStop(p)
           \/ EnsureClient(p) \/ ClientStarted(p) \/ ClientNotStarted(p)
           \/ StaleClientGone(p)
  BY <1>1, WaitForClosingStep, AfterClosingStep, StopRunningStep, AfterStopStep,
     EnsureClientStep, ClientStartedStep, ClientNotStartedStep, StaleClientGoneStep
<1>2. CASE \/ RequestConnect(p) \/ ConnectAnswered(p) \/ PortForgotten(p)
           \/ DevicePicked(p) \/ NoDeviceWarned(p)
  BY <1>2, RequestConnectStep, ConnectAnsweredStep, PortForgottenStep, DevicePickedStep,
     NoDeviceWarnedStep
<1>3. CASE \/ Disconnect(p) \/ Parted(p) \/ Detached(p) \/ ForceReconnect(p) \/ Forced(p)
  BY <1>3, DisconnectStep, PartedStep, DetachedStep, ForceReconnectStep, ForcedStep
<1>4. CASE \/ RunRequest(p) \/ RequestAnswered(p) \/ Interrupt(p)
  BY <1>4, RunRequestStep, RequestAnsweredStep, InterruptStep
<1>5. CASE \/ Prepare(p) \/ Prepared(p) \/ InterruptRunningBeforeFileSend(p)
           \/ FileInterrupted(p) \/ RunningFinished(p) \/ ForceOffered(p)
  BY <1>5, PrepareStep, PreparedStep, InterruptRunningStep, FileInterruptedStep,
     RunningFinishedStep, ForceOfferedStep
<1>6. CASE \/ PrepareFileSendReset(p) \/ FileReset(p) \/ SendAnyway(p)
           \/ RunSourceForms(p) \/ FormAnswered(p)
  BY <1>6, PrepareFileSendResetStep, FileResetStep, SendAnywayStep, RunSourceFormsStep,
     FormAnsweredStep
<1> QED
  BY <1>1, <1>2, <1>3, <1>4, <1>5, <1>6 DEF Code

(* Everything the outside does keeps it.                                   *)
LEMMA OutsideStep ==
  ASSUME IInv, Outside
  PROVE  IInv'
<1>1. CASE \E p \in Commands : Begin(p)
  BY <1>1, BeginStep
<1>2. CASE \E p \in Commands, ok \in BOOLEAN : HelperSpawns(p, ok) \/ ConnectAnnounced(p, ok)
  BY <1>2, HelperSpawnsStep, ConnectAnnouncedStep
<1>3. CASE \E p \in Commands, a \in ResponseCodes, lost \in BOOLEAN : HelperResponds(p, a, lost)
  BY <1>3, HelperRespondsStep
<1>4. CASE \E c \in Clients : HelperCrashes(c) \/ KilledHelperExits(c) \/ HelperAnnouncesLoss(c)
  BY <1>4, HandleHelperExitStep, HelperAnnouncesLossStep DEF HelperCrashes, KilledHelperExits
<1>5. CASE \E p \in Commands : TimerExpires(p) \/ \E a \in {"yes", "no"} : HostAnswers(p, a)
  BY <1>5, TimerExpiresStep, HostAnswersStep
<1> QED
  BY <1>1, <1>2, <1>3, <1>4, <1>5 DEF Outside

(* The invariant holds in every state, for any number of commands, clients *)
(* and forms and whatever the plans.                                       *)
THEOREM Inductive == Spec => []IInv
<1>1. Init => IInv
  BY InitInv
<1>2. IInv /\ [Next]_vars => IInv'
  <2>1. SUFFICES ASSUME IInv, [Next]_vars PROVE IInv'
    OBVIOUS
  <2>2. CASE UNCHANGED vars
    BY <2>1, <2>2 DEF vars, IInv, TypeInv
  <2>3. CASE \E p \in Commands : Code(p)
    BY <2>1, <2>3, CodeStep
  <2>4. CASE Outside
    BY <2>1, <2>4, OutsideStep
  <2>5. CASE AllDone
    BY <2>1, <2>5 DEF AllDone, vars, IInv, TypeInv
  <2> QED
    BY <2>1, <2>2, <2>3, <2>4, <2>5 DEF Next
<1> QED
  BY <1>1, <1>2, PTL DEF Spec

----------------------------------------------------------------------------
(* What follows from it.                                                   *)

(* The types of EditorController follow.                                   *)
LEMMA Typed ==
  ASSUME IInv
  PROVE  TypeOK
<1>1. /\ ed \in EditorType /\ helper \in [Clients -> HelperType]
      /\ cmd \in [Commands -> CommandType] /\ Counted(ed, cmd)
  BY DEF IInv, TypeInv, Inv
<1>2. ed.running \in 0 .. Cardinality(Commands)
  <2>1. ed.running \in Nat /\ ed.running <= Cardinality(FlightOf(ed, cmd))
    BY <1>1 DEF EditorType, Counted
  <2> QED
    BY <2>1, FlightFinite
<1>3. ed \in [client : {None} \cup Clients, closing : {None} \cup Clients,
              state : ConnectionState, device : {None} \cup Clients,
              running : 0..Cardinality(Commands), waiters : SUBSET Commands,
              gen : Nat, attempt : Nat]
  BY <1>1, <1>2 DEF EditorType
<1>4. ASSUME NEW c \in Clients
      PROVE  /\ helper[c].proc \in {"none", "starting", "up", "gone"}
             /\ helper[c].gen \in Nat
             /\ \A f \in {"disposed", "linked", "owes", "retired"} : helper[c][f] \in BOOLEAN
  <2>1. helper[c] \in HelperType
    BY <1>1, <1>4
  <2> QED
    BY <2>1 DEF HelperType
<1>5. ASSUME NEW p \in Commands
      PROVE  /\ cmd[p].kind \in Kinds \cup {"none"} /\ cmd[p].at \in Labels
             /\ cmd[p].held \in {None} \cup Clients /\ cmd[p].left \in 0 .. Forms
             /\ cmd[p].wait \subseteq Clients
  BY <1>1, <1>5 DEF CommandType
<1> QED
  BY <1>3, <1>4, <1>5 DEF TypeOK

(* A helper process that runs and was not disposed of is the client in     *)
(* use, the one that is closing, or in the hands of its starter, and the   *)
(* client in use always runs: whatever connect, disconnect, force          *)
(* reconnect and the errors of requests do to one another (client,         *)
(* closingClient, clientGeneration).                                       *)
THEOREM NoProcessIsOrphaned == Spec => []NoOrphan
<1>1. IInv => NoOrphan
  <2>1. SUFFICES ASSUME IInv PROVE NoOrphan
    OBVIOUS
  <2>2. TypeOK
    BY <2>1, Typed
  <2> QED
    BY <2>1, <2>2 DEF IInv, Inv, Owned, Core, NoOrphan, IsRunning
<1> QED
  BY <1>1, Inductive, PTL

(* runningOperations never counts more than is in flight on the client in  *)
(* use, and nobody waits for nothing: requireIdle refuses only while       *)
(* something runs.                                                         *)
THEOREM RunningStateIsReal == Spec => []RunningIsReal
<1>1. IInv => RunningIsReal
  <2>1. SUFFICES ASSUME IInv PROVE RunningIsReal
    OBVIOUS
  <2>2. FlightOf(ed, cmd) = InFlight
    BY DEF FlightOf, Flies, InFlight, IsCurrentClient
  <2> QED
    BY <2>1, <2>2 DEF IInv, Inv, Counted, RunningIsReal
<1> QED
  BY <1>1, Inductive, PTL

(* A command that goes on alone, and that shows nothing new if it was      *)
(* superseded.                                                             *)
Alters(p) ==
  /\ \A q \in Commands \ {p} : cmd'[q] = cmd[q]
  /\ Outdated(p) /\ ~PickerCancelled(p) => ed'.state = ed.state /\ ed'.device = ed.device

(* A step between two awaits that is not the first after one belongs to a  *)
(* command that nobody can have superseded.                                *)
LEMMA SyncIsNotOutdated ==
  ASSUME NEW p \in Commands, cmd[p].at \in (Sync \ {"request"}) \cup {"unborn"}
  PROVE  ~Outdated(p)
BY DEF Outdated, Sync, ExitWaits, HelperRequests

(* A command at a label of Sync may change what is shown: it is current.   *)
LEMMA EnsureClientAlters ==
  ASSUME IInv, NEW p \in Commands, EnsureClient(p)
  PROVE  Alters(p)
<1>0. cmd \in [Commands -> CommandType]
  BY DEF IInv, TypeInv
<1>1. cmd[p].at = "ensure"
  BY DEF EnsureClient
<1>2. ~Outdated(p)
  BY <1>1, SyncIsNotOutdated DEF Sync
<1>3. \A q \in Commands \ {p} : cmd'[q] = cmd[q]
  <2>1. CASE RequestOn(p, ed.client)
    BY <1>0, <2>1 DEF RequestOn
  <2>2. CASE NoClient(p)
    BY <1>0, <2>2 DEF NoClient, Return, Finish
  <2>3. CASE \E c \in Clients : CreateClient(p, c)
    <3>1. PICK c \in Clients : CreateClient(p, c)
      BY <2>3
    <3> DEFINE k == [cmd[p] EXCEPT !.at = "starting", !.held = c, !.gen = NextGeneration,
                                   !.ans = "wait"]
    <3>2. cmd' = [cmd EXCEPT ![p] = k]
      BY <3>1 DEF CreateClient
    <3> HIDE DEF k
    <3> QED
      BY <1>0, <3>2
  <2> QED
    BY <2>1, <2>2, <2>3 DEF EnsureClient
<1> QED
  BY <1>2, <1>3 DEF Alters

LEMMA SyncAlters ==
  ASSUME IInv, NEW p \in Commands,
         \/ WaitForClosing(p) \/ StopRunning(p) \/ Disconnect(p) \/ ForceReconnect(p)
         \/ RunRequest(p) \/ Interrupt(p) \/ Prepare(p) \/ InterruptRunningBeforeFileSend(p)
         \/ PrepareFileSendReset(p) \/ RunSourceForms(p)
  PROVE  Alters(p)
<1>0. cmd \in [Commands -> CommandType]
  BY DEF IInv, TypeInv
<1>1. cmd[p].at \in Sync \ {"request"}
  BY DEF WaitForClosing, StopRunning, Disconnect, ForceReconnect, RunRequest,
     Interrupt, Prepare, InterruptRunningBeforeFileSend, PrepareFileSendReset, RunSourceForms,
     Sync
<1>2. \A q \in Commands \ {p} : cmd'[q] = cmd[q]
  <2>1. CASE WaitForClosing(p) \/ StopRunning(p) \/ ForceReconnect(p) \/ Disconnect(p)
    BY <1>0, <2>1 DEF WaitForClosing, StopRunning, ForceReconnect, Disconnect, DisposeClientAndWait,
       Jump, Finish
  <2>2. CASE RunRequest(p) \/ Interrupt(p) \/ Prepare(p)
    BY <1>0, <2>2 DEF RunRequest, Interrupt, Prepare, Finish, Await
  <2>3. CASE InterruptRunningBeforeFileSend(p) \/ PrepareFileSendReset(p) \/ RunSourceForms(p)
    BY <1>0, <2>3 DEF InterruptRunningBeforeFileSend, PrepareFileSendReset, RunSourceForms, Jump,
       Finish, Await
  <2> QED
    BY <2>1, <2>2, <2>3
<1> QED
  BY <1>1, <1>2, SyncIsNotOutdated DEF Alters

(* A connect whose attempt is not the newest does not even ask.            *)
LEMMA RequestConnectAlters ==
  ASSUME IInv, NEW p \in Commands, RequestConnect(p)
  PROVE  Alters(p)
<1>0. cmd \in [Commands -> CommandType]
  BY DEF IInv, TypeInv
<1>1. Outdated(p) => cmd[p].attempt # ed.attempt
  <2>1. cmd[p].at = "request"
    BY Zenon DEF RequestConnect
  <2> QED
    BY <2>1 DEF Outdated, ExitWaits, HelperRequests
<1>2. CASE ed.attempt # cmd[p].attempt
  <2>1. Return(p, ed.state = "connected") /\ UNCHANGED ed
    BY <1>2 DEF RequestConnect
  <2> QED
    BY <1>0, <2>1 DEF Return, Finish, Alters
<1>3. CASE ed.attempt = cmd[p].attempt
  <2>1. PICK port \in IF cmd[p].port = "picked" THEN {"picked"} ELSE {"none", "stored"} :
          cmd' = [cmd EXCEPT ![p] = [cmd[p] EXCEPT !.at = "connecting", !.port = port,
                                                   !.ans = "wait", !.note = "none"]]
    BY <1>3, Zenon DEF RequestConnect
  <2> DEFINE k == [cmd[p] EXCEPT !.at = "connecting", !.port = port,
                                 !.ans = "wait", !.note = "none"]
  <2>2. cmd' = [cmd EXCEPT ![p] = k]
    BY <2>1
  <2> HIDE DEF k
  <2> QED
    BY <1>0, <1>1, <1>3, <2>2 DEF Alters
<1> QED
  BY <1>2, <1>3

(* A connect that comes back compares its attempt, and what it had not yet *)
(* begun its generation.                                                   *)
LEMMA ConnectAlters ==
  ASSUME IInv, NEW p \in Commands,
         \/ AfterClosing(p) \/ AfterStop(p) \/ ClientStarted(p) \/ ClientNotStarted(p)
         \/ StaleClientGone(p) \/ RequestConnect(p) \/ ConnectAnswered(p)
         \/ PortForgotten(p) \/ DevicePicked(p) \/ NoDeviceWarned(p)
  PROVE  Alters(p)
<1> USE DEF Resumes, Return, Jump, Finish
<1>0. ed \in EditorType /\ cmd \in [Commands -> CommandType]
  BY DEF IInv, TypeInv
<1>1. CASE AfterClosing(p) \/ StaleClientGone(p) \/ PortForgotten(p) \/ NoDeviceWarned(p)
  BY <1>0, <1>1 DEF AfterClosing, StaleClientGone, PortForgotten, NoDeviceWarned, NoClient,
     RequestOn, Alters
<1>2. CASE AfterStop(p)
  <2>1. cmd[p].at = "stopped"
    BY <1>2 DEF AfterStop
  <2>2. Outdated(p) => cmd[p].gen # ed.gen
    BY <2>1 DEF Outdated, ExitWaits, HelperRequests
  <2> QED
    BY <1>0, <1>2, <2>2 DEF AfterStop, IsDisposedGenerationCurrent, Alters
<1>3. CASE ClientStarted(p) \/ ClientNotStarted(p)
  <2>1. ed'.state = ed.state /\ ed'.device = ed.device
    BY <1>0, <1>3 DEF ClientStarted, ClientNotStarted, EditorType
  <2>2. \A q \in Commands \ {p} : cmd'[q] = cmd[q]
    BY <1>0, <1>3 DEF ClientStarted, ClientNotStarted, RequestOn, NoClient
  <2> QED
    BY <2>1, <2>2 DEF Alters
<1>4. CASE RequestConnect(p)
  BY <1>4, RequestConnectAlters
<1>5. CASE ConnectAnswered(p)
  <2>1. cmd[p].at = "connecting"
    BY <1>5 DEF ConnectAnswered
  <2>2. Outdated(p) => cmd[p].attempt # ed.attempt
    BY <2>1 DEF Outdated, ExitWaits, HelperRequests
  <2>3. \A q \in Commands \ {p} : cmd'[q] = cmd[q]
    BY <1>0, <1>5 DEF ConnectAnswered, AwaitHost
  <2>4. Outdated(p) => UNCHANGED ed
    BY <1>5, <2>2 DEF ConnectAnswered
  <2> QED
    BY <2>3, <2>4 DEF Alters
<1>6. CASE DevicePicked(p)
  <2>1. cmd[p].at = "picking"
    BY <1>6 DEF DevicePicked
  <2> QED
    BY <1>0, <1>6, <2>1 DEF DevicePicked, PickerCancelled, Alters
<1> QED
  BY <1>1, <1>2, <1>3, <1>4, <1>5, <1>6

(* Whoever comes back from parting compares its generation.                *)
LEMMA PartingAlters ==
  ASSUME IInv, NEW p \in Commands, Parted(p) \/ Detached(p) \/ Forced(p)
  PROVE  Alters(p)
<1>0. ed \in EditorType /\ cmd \in [Commands -> CommandType]
  BY DEF IInv, TypeInv
<1>1. cmd[p].at \in {"parted", "detaching", "detached", "forced"}
  BY DEF Parted, Detached, Forced, Resumes
<1>2. Outdated(p) => cmd[p].gen # ed.gen
  BY <1>1 DEF Outdated, ExitWaits, HelperRequests
<1>3. \A q \in Commands \ {p} : cmd'[q] = cmd[q]
  BY <1>0 DEF Parted, Detached, FinishDisconnect, Forced, Finish, Jump
<1>4. CASE Parted(p) \/ Forced(p)
  BY <1>2, <1>3, <1>4 DEF Parted, Forced, IsDisposedGenerationCurrent, Alters
<1>5. CASE Detached(p)
  <2>1. ASSUME FinishDisconnect(p), Outdated(p)
        PROVE  ed'.state = ed.state /\ ed'.device = ed.device
    BY <1>0, <1>2, <2>1 DEF FinishDisconnect, IsDisposedGenerationCurrent, EditorType
  <2> QED
    BY <1>3, <1>5, <2>1 DEF Detached, Alters
<1> QED
  BY <1>4, <1>5

(* Whoever comes back from a request compares client and generation before *)
(* it takes an error for the client's end.                                 *)
LEMMA RequestAlters ==
  ASSUME IInv, NEW p \in Commands,
         \/ RequestAnswered(p) \/ Prepared(p) \/ FileInterrupted(p) \/ RunningFinished(p)
         \/ ForceOffered(p) \/ FileReset(p) \/ SendAnyway(p) \/ FormAnswered(p)
  PROVE  Alters(p)
<1> USE DEF Resumes, Jump, Finish, AwaitHost
<1>0. ed \in EditorType /\ cmd \in [Commands -> CommandType]
  BY DEF IInv, TypeInv
<1>1. CASE Prepared(p) \/ ForceOffered(p) \/ SendAnyway(p)
  BY <1>0, <1>1 DEF Prepared, ForceOffered, SendAnyway, Alters
<1>2. CASE RunningFinished(p)
  BY <1>0, <1>2 DEF RunningFinished, Alters, EditorType
<1>3. CASE RequestAnswered(p) \/ FormAnswered(p)
  <2>1. cmd[p].at \in {"evaluating", "listing", "interrupting", "sending"}
    BY <1>3 DEF RequestAnswered, FormAnswered
  <2>2. Outdated(p) => ~IsCurrentClient(cmd[p].held, cmd[p].gen)
    BY <2>1 DEF Outdated, ExitWaits, HelperRequests
  <2>3. \A q \in Commands \ {p} : cmd'[q] = cmd[q]
    BY <1>0, <1>3 DEF RequestAnswered, FormAnswered
  <2> QED
    BY <1>3, <2>2, <2>3 DEF RequestAnswered, FormAnswered, EndOperation, Alters
<1>4. CASE FileInterrupted(p) \/ FileReset(p)
  <2>1. cmd[p].at \in {"file_interrupting", "resetting"}
    BY <1>4 DEF FileInterrupted, FileReset
  <2>2. Outdated(p) => ~IsCurrentClient(cmd[p].held, cmd[p].gen)
    BY <2>1 DEF Outdated, ExitWaits, HelperRequests
  <2>3. \A q \in Commands \ {p} : cmd'[q] = cmd[q]
    BY <1>0, <1>4 DEF FileInterrupted, FileReset
  <2> QED
    BY <1>4, <2>2, <2>3 DEF FileInterrupted, FileReset, Alters
<1> QED
  BY <1>1, <1>2, <1>3, <1>4

(* So does every stretch of the controller's code.                         *)
LEMMA CodeAlters ==
  ASSUME IInv, NEW p \in Commands, Code(p)
  PROVE  Alters(p)
BY EnsureClientAlters, SyncAlters, ConnectAlters, PartingAlters, RequestAlters DEF Code

(* What comes from the outside lets a command begin and no other go on.    *)
LEMMA OutsideStays ==
  ASSUME IInv, Outside \/ AllDone, NEW q \in Commands, GoesOn(q)
  PROVE  ~Outdated(q)
<1>0. cmd \in [Commands -> CommandType]
  BY DEF IInv, TypeInv
<1>1. CASE \E p \in Commands : Begin(p)
  <2>1. PICK p \in Commands : Begin(p)
    BY <1>1
  <2>2. q = p /\ cmd[p].at = "unborn"
    BY <1>0, <2>1 DEF Begin, GoesOn
  <2> QED
    BY <2>2, SyncIsNotOutdated
<1>2. ASSUME NEW p \in Commands, NEW ok \in BOOLEAN,
             HelperSpawns(p, ok) \/ ConnectAnnounced(p, ok)
      PROVE  FALSE
  BY <1>0, <1>2 DEF HelperSpawns, ConnectAnnounced, GoesOn, CommandType
<1>3. ASSUME NEW p \in Commands, NEW a \in ResponseCodes, NEW lost \in BOOLEAN,
             HelperResponds(p, a, lost)
      PROVE  FALSE
  BY <1>0, <1>3 DEF HelperResponds, GoesOn, CommandType
<1>4. ASSUME NEW c \in Clients,
             HelperCrashes(c) \/ KilledHelperExits(c) \/ HelperAnnouncesLoss(c)
      PROVE  FALSE
  BY <1>4 DEF HelperCrashes, KilledHelperExits, HandleHelperExit, HelperAnnouncesLoss, GoesOn
<1>5. ASSUME NEW p \in Commands, TimerExpires(p) \/ \E a \in {"yes", "no"} : HostAnswers(p, a)
      PROVE  FALSE
  BY <1>0, <1>5 DEF TimerExpires, HostAnswers, GoesOn, CommandType
<1>6. CASE AllDone
  BY <1>6 DEF AllDone, vars, GoesOn
<1> QED
  BY <1>1, <1>2, <1>3, <1>4, <1>5, <1>6 DEF Outside

(* What is shown is the client's that is in use, and a command that was    *)
(* superseded while it awaited does not change it, neither its answer nor  *)
(* its failure: the comparisons of attempt, generation and client after    *)
(* each await are enough, except after the picker, whose cancellation is   *)
(* left out of the statement (handleConnectError makes none there).        *)
THEOREM ShownStateIsCurrent == Spec => ShownIsCurrent
<1>1. IInv => ShowsCurrent
  <2>1. SUFFICES ASSUME IInv PROVE ShowsCurrent
    OBVIOUS
  <2>2. ed.device # None => ed.device \in {ed.client, ed.closing}
    BY <2>1 DEF IInv, Inv, Core
  <2>3. ASSUME ed.client # None, Quiet, ed.state = "connected" PROVE ed.device = ed.client
    <3>1. \A p \in Commands : cmd[p].at # "request"
      BY <2>3 DEF Quiet, ThreadFree, Sync
    <3> QED
      BY <2>1, <2>3, <3>1 DEF IInv, Inv, Shown
  <2>4. ASSUME ed.client # None, Quiet, ed.state = "connecting"
        PROVE  \E p \in Commands :
                 /\ cmd[p].at \in {"connecting", "storing", "picking"}
                 /\ cmd[p].attempt = ed.attempt /\ cmd[p].held = ed.client
    <3>1. PICK p \in Commands : Bears(cmd[p], ed)
      BY <2>1, <2>4 DEF IInv, Inv, Shown
    <3>2. cmd[p].at \notin {"connect", "check", "ensure", "request"}
      BY <2>4 DEF Quiet, ThreadFree, Sync
    <3> QED
      BY <3>1, <3>2 DEF Bears, OnTheWay
  <2> QED
    BY <2>2, <2>3, <2>4 DEF ShowsCurrent
<1>2. IInv /\ [Next]_vars => [SupersededIsQuiet]_vars
  <2>1. SUFFICES ASSUME IInv, Next, NEW q \in Commands, Outdated(q), GoesOn(q),
                        ~PickerCancelled(q)
                 PROVE  ed'.state = ed.state /\ ed'.device = ed.device
    BY DEF SupersededIsQuiet
  <2>2. PICK p \in Commands : Code(p)
    BY <2>1, OutsideStays DEF Next
  <2>3. Alters(p)
    BY <2>1, <2>2, CodeAlters
  <2>4. q = p
    BY <2>1, <2>3 DEF Alters, GoesOn
  <2> QED
    BY <2>1, <2>3, <2>4 DEF Alters
<1> QED
  BY <1>1, <1>2, Inductive, PTL DEF Spec, ShownIsCurrent

(* The forms of a file reach only the helper that was reset for that file, *)
(* whatever was replaced during the awaits of sendFile.                    *)
THEOREM FormsGoWhereReset == Spec => []FormsFollowReset
<1>1. IInv => FormsFollowReset
  BY DEF IInv, Inv, Local, FormsFollowReset
<1> QED
  BY <1>1, Inductive, PTL

(* waitForExit is called only on a helper that has been killed, so that a  *)
(* silent one holds up neither disconnect nor force reconnect.             *)
THEOREM OnlyTheKilledAreAwaited == Spec => []AwaitsOnlyTheKilled
<1>1. IInv => AwaitsOnlyTheKilled
  BY DEF IInv, Inv, Local, AwaitsOnlyTheKilled
<1> QED
  BY <1>1, Inductive, PTL

=============================================================================
