--------------------------- MODULE ControlLinkProofs ---------------------------
(***************************************************************************)
(* Proofs about ControlLink, for every number of sequence numbers and of   *)
(* disturbances and losses.                                                *)
(*                                                                         *)
(* Sequence numbers start again after the last one, and an old session may *)
(* have left anything on the line, so that an event has the right numbers  *)
(* does not make it the answer.  What does is that a session never has     *)
(* more than one request under way, that IDLE is the last thing the device *)
(* prints for it, and that the host sends nothing more before it has read  *)
(* that IDLE: then nothing of the session is left anywhere.                *)
(***************************************************************************)
EXTENDS ControlLink, FiniteSetTheorems, SequenceTheorems, TLAPS

----------------------------------------------------------------------------
(* The inductive invariant.                                                *)

Requests == {"hello", "run", "detach"}
Reports == Requests \cup {"value", "error", "interrupted", "idle"}

BodyOf(kinds) ==
  [t : {"body"}, sid : Nat \ {0}, kind : kinds, seq : 0 .. SeqMax, ref : Nat]

Request == BodyOf(Requests)
Report == BodyOf(Reports)

RestToken == [t : {"rest"}, lines : Nat]
DevToken == {Zero, CtrlC, Newline, Enter} \cup RestToken \cup Request
HostToken == {Zero, Prompt, Ready, Garbage} \cup Report

LineTypes == toDev \in Seq(DevToken) /\ toHost \in Seq(HostToken)

LineStates == {"empty", "bytes", "program"}

DeviceTypes ==
  /\ mode \in {"shell", "control"}
  /\ line \in LineStates /\ inFrame \in BOOLEAN /\ bound \in BOOLEAN
  /\ rx \in {Empty, Garbage} \cup Request
  /\ devSid \in Nat /\ nextSeq \in 0 .. SeqMax
  /\ busy \in {NotBusy, Program} \cup Request

HostTypes ==
  /\ phase \in Phases /\ tries \in 0 .. 3
  /\ sid \in Nat /\ ref \in Nat /\ seq \in 0 .. SeqMax
  /\ hostIn \in BOOLEAN
  /\ hostRx \in {Empty, Garbage} \cup Report
  /\ heard \in SUBSET Report

BoundTypes == disturb \in 0 .. Disturbances /\ lose \in 0 .. Losses

TypeInv == LineTypes /\ DeviceTypes /\ HostTypes /\ BoundTypes

(* What is under way to the device or with it, and to the host.            *)
DevBodies == {x \in Range(toDev) \cup {rx, busy} : IsBody(x)}
HostBodies == {x \in Range(toHost) \cup {hostRx} : IsBody(x)}

IsIdle(x) == IsBody(x) /\ x.kind = "idle"

(* A request is run in a bound session, between frames; the shell runs     *)
(* everything else.                                                        *)
ModeInv ==
  /\ IsBody(busy) => /\ mode = "control" /\ bound /\ rx = Empty /\ ~inFrame
                     /\ busy.sid = devSid
  /\ busy = Program => mode = "shell"
  /\ bound => devSid # 0

(* A session has one request under way, at most.                           *)
OneEach(q) ==
  \A i, j \in DOMAIN q : IsBody(q[i]) /\ IsBody(q[j]) /\ q[i].sid = q[j].sid => i = j

NoneOf(q, x) == IsBody(x) => \A y \in Range(q) : IsBody(y) => y.sid # x.sid

OneInv == OneEach(toDev) /\ NoneOf(toDev, rx) /\ NoneOf(toDev, busy)

(* IDLE is the last of its session.                                        *)
IdleLast(q) ==
  \A i, j \in DOMAIN q : IsIdle(q[i]) /\ IsBody(q[j]) /\ q[i].sid = q[j].sid => j <= i

IdleInv ==
  /\ IdleLast(toHost)
  /\ IsIdle(hostRx) => NoneOf(toHost, hostRx)
  /\ \A x \in HostBodies, y \in DevBodies : IsIdle(x) => x.sid # y.sid

(* The device counts the requests of its session.                          *)
CountInv ==
  bound => /\ \A x \in DevBodies : x.sid = devSid => x.seq = nextSeq
           /\ \A x \in HostBodies :
                IsIdle(x) /\ x.sid = devSid => nextSeq = AfterSeq(x.seq)

(* Whatever there is of the host's session belongs to its request.         *)
CurrentInv ==
  \A x \in DevBodies \cup HostBodies :
    x.sid = sid => Waiting /\ x.seq = seq /\ x.ref = ref

HostInv ==
  /\ Waiting \/ phase = "ready" => sid # 0
  /\ phase = "ready" /\ bound /\ devSid = sid => nextSeq = seq
  /\ AnswersMatch

IInv == TypeInv /\ ModeInv /\ OneInv /\ IdleInv /\ CountInv /\ CurrentInv /\ HostInv

----------------------------------------------------------------------------
(* Tokens and bodies.                                                      *)

LEMMA TokenFacts ==
  /\ ~IsBody(Zero) /\ ~IsBody(CtrlC) /\ ~IsBody(Newline) /\ ~IsBody(Enter)
  /\ ~IsBody(Prompt) /\ ~IsBody(Ready) /\ ~IsBody(Empty) /\ ~IsBody(Garbage)
  /\ ~IsBody(NotBusy) /\ ~IsBody(Program) /\ Empty # Garbage /\ NotBusy # Program
  /\ \A x \in RestToken : ~IsBody(x)
BY DEF IsBody, Zero, CtrlC, Newline, Enter, Prompt, Ready, Empty, Garbage, NotBusy,
       Program, RestToken

LEMMA BodyFacts ==
  ASSUME NEW kinds, NEW x \in BodyOf(kinds)
  PROVE  /\ IsBody(x) /\ x.sid \in Nat /\ x.sid # 0 /\ x.kind \in kinds
         /\ x.seq \in 0 .. SeqMax /\ x.ref \in Nat
BY DEF BodyOf, IsBody

LEMMA MakeBody ==
  ASSUME NEW kinds, NEW s \in Nat \ {0}, NEW k \in kinds, NEW q \in 0 .. SeqMax, NEW r \in Nat
  PROVE  /\ Body(s, k, q, r) \in BodyOf(kinds) /\ IsBody(Body(s, k, q, r))
         /\ Body(s, k, q, r).sid = s /\ Body(s, k, q, r).kind = k
         /\ Body(s, k, q, r).seq = q /\ Body(s, k, q, r).ref = r
BY DEF Body, BodyOf, IsBody

LEMMA MakeReport ==
  ASSUME NEW s \in Nat \ {0}, NEW k \in Reports, NEW q \in 0 .. SeqMax, NEW r \in Nat
  PROVE  /\ Body(s, k, q, r) \in Report
         /\ Body(s, k, q, r).sid = s /\ Body(s, k, q, r).kind = k
         /\ Body(s, k, q, r).seq = q /\ Body(s, k, q, r).ref = r
BY DEF Body, Report, BodyOf

LEMMA RequestIsReport ==
  /\ Request \subseteq Report
  /\ \A x \in Request : IsBody(x) /\ x.kind \in Requests /\ ~IsIdle(x)
  /\ \A x \in Report : IsBody(x)
<1>1. \A x \in BodyOf(Requests) : x \in BodyOf(Reports)
  BY DEF BodyOf, Reports
<1>2. \A x \in BodyOf(Requests) : x.kind # "idle"
  BY DEF BodyOf, Requests
<1> QED
  BY <1>1, <1>2, BodyFacts DEF Request, Report, IsIdle

LEMMA AfterSeqType ==
  ASSUME NEW q \in 0 .. SeqMax
  PROVE  AfterSeq(q) \in 0 .. SeqMax /\ AfterSeq(0) = 1
BY ControlLinkAssumption DEF AfterSeq

----------------------------------------------------------------------------
(* Queues: what is left when tokens are taken out, and when some are added. *)

Thinner(r, q) ==
  \E f \in [DOMAIN r -> DOMAIN q] :
    /\ \A i, j \in DOMAIN r : i < j => f[i] < f[j]
    /\ \A i \in DOMAIN r : r[i] = q[f[i]]

LEMMA ThinnerFacts ==
  ASSUME NEW T, NEW q \in Seq(T), NEW r \in Seq(T), Thinner(r, q)
  PROVE  /\ Range(r) \subseteq Range(q)
         /\ OneEach(q) => OneEach(r)
         /\ IdleLast(q) => IdleLast(r)
<1>1. PICK f \in [DOMAIN r -> DOMAIN q] :
        /\ \A i, j \in DOMAIN r : i < j => f[i] < f[j]
        /\ \A i \in DOMAIN r : r[i] = q[f[i]]
  BY DEF Thinner
<1>2. /\ Len(q) \in Nat /\ DOMAIN q = 1 .. Len(q)
      /\ Len(r) \in Nat /\ DOMAIN r = 1 .. Len(r)
  BY LenProperties
<1>3. Range(r) \subseteq Range(q)
  BY <1>1 DEF Range
<1>4. \A i \in DOMAIN r : f[i] \in DOMAIN q /\ r[i] = q[f[i]] /\ i \in Nat /\ f[i] \in Nat
  BY <1>1, <1>2
<1>5. ASSUME OneEach(q) PROVE OneEach(r)
  <2> SUFFICES ASSUME NEW i \in DOMAIN r, NEW j \in DOMAIN r,
                      IsBody(r[i]), IsBody(r[j]), r[i].sid = r[j].sid
               PROVE  i = j
    BY DEF OneEach
  <2>1. f[i] = f[j] /\ f[i] \in Nat /\ i \in Nat /\ j \in Nat
    BY <1>4, <1>5 DEF OneEach
  <2>2. (i < j => f[i] < f[j]) /\ (j < i => f[j] < f[i])
    BY <1>1
  <2> QED
    BY <2>1, <2>2
<1>6. ASSUME IdleLast(q) PROVE IdleLast(r)
  <2> SUFFICES ASSUME NEW i \in DOMAIN r, NEW j \in DOMAIN r,
                      IsIdle(r[i]), IsBody(r[j]), r[i].sid = r[j].sid
               PROVE  j <= i
    BY DEF IdleLast
  <2>1. f[j] <= f[i] /\ f[i] \in Nat /\ f[j] \in Nat /\ i \in Nat /\ j \in Nat
    BY <1>4, <1>6 DEF IdleLast
  <2>2. i < j => f[i] < f[j]
    BY <1>1
  <2> QED
    BY <2>1, <2>2
<1> QED
  BY <1>3, <1>5, <1>6

LEMMA TailThinner ==
  ASSUME NEW T, NEW q \in Seq(T), q # <<>>
  PROVE  Tail(q) \in Seq(T) /\ Thinner(Tail(q), q)
<1> DEFINE r == Tail(q)
           f == [i \in DOMAIN r |-> i + 1]
<1>1. r \in Seq(T) /\ Len(r) = Len(q) - 1 /\ \A i \in 1 .. Len(r) : r[i] = q[i + 1]
  BY HeadTailProperties
<1> HIDE DEF r
<1>2. /\ Len(q) \in Nat /\ DOMAIN q = 1 .. Len(q)
      /\ Len(r) \in Nat /\ DOMAIN r = 1 .. Len(r)
  BY <1>1, LenProperties
<1>3. /\ f \in [DOMAIN r -> DOMAIN q]
      /\ \A i, j \in DOMAIN r : i < j => f[i] < f[j]
      /\ \A i \in DOMAIN r : r[i] = q[f[i]]
  BY <1>1, <1>2
<1>4. Thinner(r, q)
  BY <1>3 DEF Thinner
<1> QED
  BY <1>1, <1>4 DEF r

LEMMA SubSeqThinner ==
  ASSUME NEW T, NEW q \in Seq(T), NEW n \in 1 .. Len(q)
  PROVE  SubSeq(q, n + 1, Len(q)) \in Seq(T) /\ Thinner(SubSeq(q, n + 1, Len(q)), q)
<1> DEFINE r == SubSeq(q, n + 1, Len(q))
           f == [i \in DOMAIN r |-> i + n]
<1>0. Len(q) \in Nat /\ DOMAIN q = 1 .. Len(q) /\ n + 1 \in Int /\ Len(q) \in Int /\ n \in Nat
  BY LenProperties
<1>1. /\ r \in Seq(T) /\ Len(r) = IF n + 1 <= Len(q) THEN Len(q) - (n + 1) + 1 ELSE 0
      /\ \A i \in 1 .. Len(q) - (n + 1) + 1 : r[i] = q[(n + 1) + i - 1]
  <2>1. \A i \in n + 1 .. Len(q) : q[i] \in T
    BY <1>0
  <2> QED
    BY <1>0, <2>1, SubSeqProperties
<1> HIDE DEF r
<1>2. Len(r) \in Nat /\ DOMAIN r = 1 .. Len(r)
  BY <1>1, LenProperties
<1>2a. Len(r) = Len(q) - n
  <2>1. Len(r) = IF n + 1 <= Len(q) THEN Len(q) - (n + 1) + 1 ELSE 0
    BY <1>1
  <2>2. n <= Len(q) /\ n \in Nat /\ Len(q) \in Nat
    BY <1>0
  <2> QED
    BY <2>1, <2>2
<1>2b. \A i \in 1 .. Len(r) : r[i] = q[i + n]
  <2> TAKE i \in 1 .. Len(r)
  <2>1. i \in 1 .. Len(q) - (n + 1) + 1 /\ (n + 1) + i - 1 = i + n
    BY <1>0, <1>2, <1>2a
  <2> QED
    BY <1>1, <2>1
<1>3. /\ f \in [DOMAIN r -> DOMAIN q]
      /\ \A i, j \in DOMAIN r : i < j => f[i] < f[j]
      /\ \A i \in DOMAIN r : r[i] = q[f[i]]
  BY <1>0, <1>2, <1>2a, <1>2b
<1>4. Thinner(r, q)
  BY <1>3 DEF Thinner
<1> QED
  BY <1>1, <1>4 DEF r

LEMMA RemoveAtThinner ==
  ASSUME NEW T, NEW q \in Seq(T), NEW n \in 1 .. Len(q)
  PROVE  RemoveAt(q, n) \in Seq(T) /\ Thinner(RemoveAt(q, n), q)
<1> DEFINE front == SubSeq(q, 1, n - 1)
           back == SubSeq(q, n + 1, Len(q))
           r == RemoveAt(q, n)
           f == [i \in DOMAIN r |-> IF i < n THEN i ELSE i + 1]
<1>0. /\ Len(q) \in Nat /\ DOMAIN q = 1 .. Len(q) /\ n \in Nat
      /\ \A i \in 1 .. Len(q) : q[i] \in T
  BY LenProperties
<1>1. front \in Seq(T) /\ Len(front) = n - 1 /\ \A i \in 1 .. n - 1 : front[i] = q[i]
  BY <1>0, SubSeqProperties
<1>2. back \in Seq(T) /\ Len(back) = Len(q) - n /\ \A i \in 1 .. Len(q) - n : back[i] = q[n + i]
  <2>1. n + 1 \in Int /\ Len(q) \in Int /\ \A i \in n + 1 .. Len(q) : q[i] \in T
    BY <1>0
  <2>2. /\ back \in Seq(T)
        /\ Len(back) = IF n + 1 <= Len(q) THEN Len(q) - (n + 1) + 1 ELSE 0
        /\ \A i \in 1 .. Len(q) - (n + 1) + 1 : back[i] = q[(n + 1) + i - 1]
    BY <2>1, SubSeqProperties
  <2> HIDE DEF back
  <2>3. n <= Len(q) /\ Len(q) - (n + 1) + 1 = Len(q) - n
    BY <1>0
  <2>4. Len(back) = Len(q) - n
    <3>1. Len(back) = IF n + 1 <= Len(q) THEN Len(q) - (n + 1) + 1 ELSE 0
      BY <2>2
    <3>2. n \in Nat /\ Len(q) \in Nat /\ n <= Len(q)
      BY <1>0
    <3> QED
      BY <3>1, <3>2
  <2>5. \A i \in 1 .. Len(q) - n : back[i] = q[n + i]
    <3> TAKE i \in 1 .. Len(q) - n
    <3>1. i \in 1 .. Len(q) - (n + 1) + 1 /\ (n + 1) + i - 1 = n + i
      BY <1>0, <2>3
    <3> QED
      BY <2>2, <3>1
  <2> QED
    BY <2>2, <2>4, <2>5
<1>3. r = front \o back
  BY DEF RemoveAt
<1> HIDE DEF front, back, r
<1>4. /\ r \in Seq(T) /\ Len(r) = Len(q) - 1
      /\ \A i \in 1 .. Len(q) - 1 : r[i] = IF i <= n - 1 THEN front[i] ELSE back[i - (n - 1)]
  <2>1. /\ r \in Seq(T) /\ Len(r) = Len(front) + Len(back)
        /\ \A i \in 1 .. Len(front) + Len(back) :
             r[i] = IF i <= Len(front) THEN front[i] ELSE back[i - Len(front)]
    BY <1>1, <1>2, <1>3, ConcatProperties
  <2>2. Len(front) = n - 1 /\ Len(front) + Len(back) = Len(q) - 1
    BY <1>0, <1>1, <1>2
  <2> QED
    BY <2>1, <2>2
<1>5. DOMAIN r = 1 .. Len(q) - 1
  BY <1>4, LenProperties
<1>6. \A i \in 1 .. Len(q) - 1 : r[i] = q[IF i < n THEN i ELSE i + 1]
  <2> TAKE i \in 1 .. Len(q) - 1
  <2>1. CASE i < n
    <3>1. i \in 1 .. n - 1 /\ i <= n - 1
      BY <1>0, <2>1
    <3> QED
      BY <1>1, <1>4, <2>1, <3>1
  <2>2. CASE ~(i < n)
    <3>1. i - (n - 1) \in 1 .. Len(q) - n /\ n + (i - (n - 1)) = i + 1 /\ ~(i <= n - 1)
      BY <1>0, <2>2
    <3> QED
      BY <1>2, <1>4, <2>2, <3>1
  <2> QED
    BY <2>1, <2>2
<1>7. /\ f \in [DOMAIN r -> DOMAIN q]
      /\ \A i, j \in DOMAIN r : i < j => f[i] < f[j]
      /\ \A i \in DOMAIN r : r[i] = q[f[i]]
  BY <1>0, <1>5, <1>6
<1>8. Thinner(r, q)
  BY <1>7 DEF Thinner
<1> QED
  BY <1>4, <1>8 DEF r

(* Reading the first token.                                                *)
LEMMA TakeFacts ==
  ASSUME NEW T, NEW q \in Seq(T), q # <<>>
  PROVE  /\ Tail(q) \in Seq(T) /\ Head(q) \in Range(q) /\ Head(q) \in T
         /\ Range(Tail(q)) \subseteq Range(q)
         /\ OneEach(q) => OneEach(Tail(q)) /\ NoneOf(Tail(q), Head(q))
         /\ IdleLast(q) => /\ IdleLast(Tail(q))
                           /\ IsIdle(Head(q)) => NoneOf(Tail(q), Head(q))
<1> DEFINE r == Tail(q)
           h == Head(q)
<1>1. /\ r \in Seq(T) /\ Range(r) \subseteq Range(q)
      /\ OneEach(q) => OneEach(r)
      /\ IdleLast(q) => IdleLast(r)
  BY TailThinner, ThinnerFacts
<1>2. Len(q) \in Nat /\ DOMAIN q = 1 .. Len(q) /\ Len(q) # 0
  BY LenProperties, EmptySeq
<1>3. h = q[1] /\ h \in T
  BY HeadTailProperties DEF Head
<1>4. Len(r) = Len(q) - 1 /\ \A i \in 1 .. Len(r) : r[i] = q[i + 1]
  BY HeadTailProperties
<1> HIDE DEF r, h
<1>5. 1 \in DOMAIN q /\ h \in Range(q)
  BY <1>2, <1>3 DEF Range
<1>6. \A y \in Range(r) : \E i \in DOMAIN q : y = q[i] /\ i > 1
  <2> TAKE y \in Range(r)
  <2>1. PICK i \in 1 .. Len(r) : y = r[i]
    BY <1>1, LenProperties DEF Range
  <2>2. i + 1 \in DOMAIN q /\ i + 1 > 1 /\ y = q[i + 1]
    BY <1>2, <1>4, <2>1
  <2> QED
    BY <2>2
<1>7. OneEach(q) => NoneOf(r, h)
  BY <1>2, <1>3, <1>5, <1>6 DEF OneEach, NoneOf
<1>8. IdleLast(q) /\ IsIdle(h) => NoneOf(r, h)
  BY <1>2, <1>3, <1>5, <1>6 DEF IdleLast, NoneOf
<1> QED
  BY <1>1, <1>3, <1>5, <1>7, <1>8 DEF r, h

(* Writing more.                                                           *)
LEMMA AddFacts ==
  ASSUME NEW T, NEW q \in Seq(T), NEW a \in Seq(T)
  PROVE  /\ q \o a \in Seq(T) /\ Range(q \o a) = Range(q) \cup Range(a)
         /\ /\ OneEach(q) /\ OneEach(a)
            /\ \A x \in Range(q), y \in Range(a) : IsBody(x) /\ IsBody(y) => x.sid # y.sid
            => OneEach(q \o a)
         /\ /\ IdleLast(q) /\ IdleLast(a)
            /\ \A x \in Range(q), y \in Range(a) : IsIdle(x) /\ IsBody(y) => x.sid # y.sid
            => IdleLast(q \o a)
<1> DEFINE r == q \o a
<1>1. /\ r \in Seq(T) /\ Len(r) = Len(q) + Len(a)
      /\ \A i \in 1 .. Len(q) + Len(a) : r[i] = IF i <= Len(q) THEN q[i] ELSE a[i - Len(q)]
  BY ConcatProperties
<1> HIDE DEF r
<1>2. /\ Len(q) \in Nat /\ DOMAIN q = 1 .. Len(q) /\ Len(a) \in Nat /\ DOMAIN a = 1 .. Len(a)
      /\ DOMAIN r = 1 .. Len(q) + Len(a)
  BY <1>1, LenProperties
<1>3. \A i \in DOMAIN r : \/ i \in DOMAIN q /\ r[i] = q[i]
                          \/ i - Len(q) \in DOMAIN a /\ r[i] = a[i - Len(q)] /\ i > Len(q)
  BY <1>1, <1>2
<1>4. /\ \A i \in DOMAIN q : i \in DOMAIN r /\ r[i] = q[i]
      /\ \A i \in DOMAIN a : i + Len(q) \in DOMAIN r /\ r[i + Len(q)] = a[i]
  <2>1. \A i \in DOMAIN q : i \in DOMAIN r /\ r[i] = q[i]
    BY <1>1, <1>2
  <2>2. ASSUME NEW i \in DOMAIN a PROVE i + Len(q) \in DOMAIN r /\ r[i + Len(q)] = a[i]
    <3>1. i + Len(q) \in 1 .. Len(q) + Len(a) /\ ~(i + Len(q) <= Len(q)) /\ i + Len(q) - Len(q) = i
      BY <1>2
    <3> QED
      BY <1>1, <1>2, <3>1
  <2> QED
    BY <2>1, <2>2
<1>5. Range(r) = Range(q) \cup Range(a)
  <2>1. Range(r) \subseteq Range(q) \cup Range(a)
    BY <1>3 DEF Range
  <2>2. Range(q) \subseteq Range(r) /\ Range(a) \subseteq Range(r)
    BY <1>4 DEF Range
  <2> QED
    BY <2>1, <2>2
<1>6. ASSUME OneEach(q), OneEach(a),
             \A x \in Range(q), y \in Range(a) : IsBody(x) /\ IsBody(y) => x.sid # y.sid
      PROVE  OneEach(r)
  <2> SUFFICES ASSUME NEW i \in DOMAIN r, NEW j \in DOMAIN r,
                      IsBody(r[i]), IsBody(r[j]), r[i].sid = r[j].sid
               PROVE  i = j
    BY DEF OneEach
  <2>1. \A k \in DOMAIN q : q[k] \in Range(q)
    BY DEF Range
  <2>2. \A k \in DOMAIN a : a[k] \in Range(a)
    BY DEF Range
  <2>3. i \in Nat /\ j \in Nat
    BY <1>2
  <2>4. CASE i \in DOMAIN q /\ j \in DOMAIN q
    BY <1>4, <1>6, <2>4 DEF OneEach
  <2>5. CASE i \notin DOMAIN q /\ j \notin DOMAIN q
    <3>1. i - Len(q) = j - Len(q)
      BY <1>3, <1>6, <2>5 DEF OneEach
    <3> QED
      BY <1>2, <2>3, <3>1
  <2>6. CASE i \in DOMAIN q /\ j \notin DOMAIN q
    BY <1>3, <1>4, <1>6, <2>1, <2>2, <2>6
  <2>7. CASE i \notin DOMAIN q /\ j \in DOMAIN q
    BY <1>3, <1>4, <1>6, <2>1, <2>2, <2>7
  <2> QED
    BY <2>4, <2>5, <2>6, <2>7
<1>7. ASSUME IdleLast(q), IdleLast(a),
             \A x \in Range(q), y \in Range(a) : IsIdle(x) /\ IsBody(y) => x.sid # y.sid
      PROVE  IdleLast(r)
  <2> SUFFICES ASSUME NEW i \in DOMAIN r, NEW j \in DOMAIN r,
                      IsIdle(r[i]), IsBody(r[j]), r[i].sid = r[j].sid
               PROVE  j <= i
    BY DEF IdleLast
  <2>1. \A k \in DOMAIN q : q[k] \in Range(q)
    BY DEF Range
  <2>2. \A k \in DOMAIN a : a[k] \in Range(a)
    BY DEF Range
  <2>3. i \in Nat /\ j \in Nat
    BY <1>2
  <2>4. CASE i \in DOMAIN q /\ j \in DOMAIN q
    BY <1>4, <1>7, <2>4 DEF IdleLast
  <2>5. CASE i \notin DOMAIN q /\ j \notin DOMAIN q
    <3>1. j - Len(q) <= i - Len(q)
      BY <1>3, <1>7, <2>5 DEF IdleLast
    <3> QED
      BY <1>2, <2>3, <3>1
  <2>6. CASE i \in DOMAIN q /\ j \notin DOMAIN q
    BY <1>3, <1>4, <1>7, <2>1, <2>2, <2>6
  <2>7. CASE i \notin DOMAIN q /\ j \in DOMAIN q
    BY <1>2, <2>3, <2>7
  <2> QED
    BY <2>4, <2>5, <2>6, <2>7
<1> QED
  BY <1>1, <1>5, <1>6, <1>7 DEF r

----------------------------------------------------------------------------
(* The texts that are written.                                             *)

LEMMA NothingFacts ==
  ASSUME NEW T
  PROVE  <<>> \in Seq(T) /\ Range(<<>>) = {} /\ OneEach(<<>>) /\ IdleLast(<<>>)
BY DEF Range, OneEach, IdleLast

LEMMA OneFacts ==
  ASSUME NEW T, NEW x \in T
  PROVE  <<x>> \in Seq(T) /\ Range(<<x>>) = {x} /\ OneEach(<<x>>) /\ IdleLast(<<x>>)
<1>1. <<x>> \in Seq(T) /\ DOMAIN <<x>> = {1} /\ <<x>>[1] = x
  OBVIOUS
<1>2. Range(<<x>>) = {x}
  BY <1>1 DEF Range
<1> QED
  BY <1>1, <1>2 DEF OneEach, IdleLast

LEMMA PlainFacts ==
  ASSUME NEW q, \A y \in Range(q) : ~IsBody(y)
  PROVE  OneEach(q) /\ IdleLast(q)
<1>1. \A i \in DOMAIN q : ~IsBody(q[i])
  BY DEF Range
<1> QED
  BY <1>1 DEF OneEach, IdleLast, IsIdle

LEMMA TwoFacts ==
  ASSUME NEW T, NEW x \in T, NEW y \in T, ~IsBody(x), ~IsBody(y)
  PROVE  /\ <<x, y>> \in Seq(T) /\ Range(<<x, y>>) = {x, y}
         /\ OneEach(<<x, y>>) /\ IdleLast(<<x, y>>)
<1>1. <<x, y>> \in Seq(T) /\ DOMAIN <<x, y>> = {1, 2} /\ <<x, y>>[1] = x /\ <<x, y>>[2] = y
  OBVIOUS
<1>2. Range(<<x, y>>) = {x, y}
  BY <1>1 DEF Range
<1> QED
  BY <1>1, <1>2, PlainFacts

LEMMA FrameFacts ==
  ASSUME NEW T, NEW b \in T, Zero \in T
  PROVE  /\ Frame(b) \in Seq(T) /\ Range(Frame(b)) = {Zero, b}
         /\ OneEach(Frame(b)) /\ IdleLast(Frame(b))
<1> DEFINE f == Frame(b)
<1>1. f \in Seq(T) /\ DOMAIN f = {1, 2, 3} /\ f[1] = Zero /\ f[2] = b /\ f[3] = Zero
  BY DEF Frame
<1> HIDE DEF f
<1>2. Range(f) = {Zero, b}
  BY <1>1 DEF Range
<1>3. \A i \in DOMAIN f : IsBody(f[i]) => i = 2
  BY <1>1, TokenFacts
<1>4. OneEach(f) /\ IdleLast(f)
  BY <1>1, <1>3 DEF OneEach, IdleLast, IsIdle
<1> QED
  BY <1>1, <1>2, <1>4 DEF f

(* An answer and the IDLE after it.                                        *)
LEMMA EventsFacts ==
  ASSUME NEW b \in Request, NEW k \in Reports \ {"idle"}
  PROVE  /\ Event(b, k) \o Event(b, "idle") \in Seq(HostToken)
         /\ IdleLast(Event(b, k) \o Event(b, "idle"))
         /\ \A y \in Range(Event(b, k) \o Event(b, "idle")) :
              IsBody(y) => y.sid = b.sid /\ y.seq = b.seq /\ y.ref = b.ref
<1> DEFINE x == Body(b.sid, k, b.seq, b.ref)
           z == Body(b.sid, "idle", b.seq, b.ref)
<1>1. b.sid \in Nat \ {0} /\ b.seq \in 0 .. SeqMax /\ b.ref \in Nat /\ "idle" \in Reports
  BY BodyFacts DEF Request, Reports
<1>2. x \in Report /\ x.sid = b.sid /\ x.seq = b.seq /\ x.ref = b.ref /\ x.kind = k
  <2>1. k \in Reports
    OBVIOUS
  <2> QED
    BY <1>1, <2>1, MakeReport
<1>3. z \in Report /\ z.sid = b.sid /\ z.seq = b.seq /\ z.ref = b.ref
  BY <1>1, MakeReport
<1>4. Event(b, k) = Frame(x) /\ Event(b, "idle") = Frame(z)
  BY DEF Event
<1> HIDE DEF x, z
<1>5. x \in HostToken /\ z \in HostToken /\ Zero \in HostToken
  BY <1>2, <1>3 DEF HostToken
<1>6. /\ Frame(x) \in Seq(HostToken) /\ Range(Frame(x)) = {Zero, x} /\ IdleLast(Frame(x))
      /\ Frame(z) \in Seq(HostToken) /\ Range(Frame(z)) = {Zero, z} /\ IdleLast(Frame(z))
  BY <1>5, FrameFacts
<1>7. \A y \in Range(Frame(x)) : ~IsIdle(y)
  BY <1>2, <1>6, TokenFacts DEF IsIdle
<1>8. /\ Frame(x) \o Frame(z) \in Seq(HostToken) /\ IdleLast(Frame(x) \o Frame(z))
      /\ Range(Frame(x) \o Frame(z)) = {Zero, x, z}
  BY <1>6, <1>7, AddFacts
<1> QED
  BY <1>2, <1>3, <1>4, <1>8, TokenFacts

----------------------------------------------------------------------------
(* Fresh identities.                                                       *)

LEMMA FreshNumber ==
  ASSUME NEW used, IsFiniteSet(used)
  PROVE  Fresh(used) \in Nat \ {0} /\ Fresh(used) \notin used
<1> DEFINE c == Cardinality(used)
<1>1. c \in Nat
  BY FS_CardinalityType
<1>2. IsFiniteSet(1 .. c + 1) /\ Cardinality(1 .. c + 1) = c + 1
  <2>1. 1 \in Int /\ c + 1 \in Int /\ ~(1 > c + 1) /\ c + 1 - 1 + 1 = c + 1
    BY <1>1
  <2> HIDE DEF c
  <2> QED
    BY <2>1, FS_Interval
<1>3. ~(1 .. c + 1 \subseteq used)
  <2>1. ASSUME 1 .. c + 1 \subseteq used PROVE FALSE
    <3>1. Cardinality(1 .. c + 1) <= c
      BY <2>1, FS_Subset
    <3> QED
      BY <1>1, <1>2, <3>1
  <2> QED
    BY <2>1
<1>4. Fresh(used) \in 1 .. c + 1 /\ Fresh(used) \notin used
  BY <1>3 DEF Fresh
<1> QED
  BY <1>1, <1>4

LEMMA RangeFinite ==
  ASSUME NEW T, NEW q \in Seq(T)
  PROVE  IsFiniteSet(Range(q))
<1>1. q \in Surjection(1 .. Len(q), Range(q)) /\ 1 \in Int /\ Len(q) \in Int
  BY LenProperties DEF Surjection, Range
<1>2. IsFiniteSet(1 .. Len(q))
  BY <1>1, FS_Interval
<1> QED
  BY <1>1, <1>2, FS_Surjection

LEMMA FreshIds ==
  ASSUME TypeInv
  PROVE  /\ FreshRef \in Nat /\ FreshSid \in Nat \ {0} /\ FreshSid # devSid
         /\ \A x \in DevBodies \cup HostBodies : x.sid # FreshSid
<1>1. IsFiniteSet(Range(toDev)) /\ IsFiniteSet(Range(toHost))
  BY RangeFinite DEF TypeInv, LineTypes
<1>2. IsFiniteSet(Range(toDev) \cup Range(toHost) \cup {rx, busy, hostRx})
  <2> DEFINE S0 == Range(toDev) \cup Range(toHost)
             S1 == S0 \cup {rx}
             S2 == S1 \cup {busy}
             S3 == S2 \cup {hostRx}
  <2>1. IsFiniteSet(S0)
    BY <1>1, FS_Union
  <2>2. IsFiniteSet(S1)
    BY <2>1, FS_AddElement
  <2>3. IsFiniteSet(S2)
    <3> HIDE DEF S1
    <3> QED BY <2>2, FS_AddElement
  <2>4. IsFiniteSet(S3)
    <3> HIDE DEF S2
    <3> QED BY <2>3, FS_AddElement
  <2>5. S3 = Range(toDev) \cup Range(toHost) \cup {rx, busy, hostRx}
    OBVIOUS
  <2> QED
    BY <2>4, <2>5
<1>3. Bodies \subseteq Range(toDev) \cup Range(toHost) \cup {rx, busy, hostRx}
  BY DEF Bodies
<1>4. IsFiniteSet(Bodies)
  BY <1>2, <1>3, FS_Subset
<1> DEFINE S == {x.sid : x \in Bodies}
           R == {x.ref : x \in Bodies}
<1>5. IsFiniteSet(S)
  <2>1. [x \in Bodies |-> x.sid] \in Surjection(Bodies, S)
    BY DEF Surjection
  <2> HIDE DEF S
  <2> QED
    BY <1>4, <2>1, FS_Surjection
<1>6. IsFiniteSet(R)
  <2>1. [x \in Bodies |-> x.ref] \in Surjection(Bodies, R)
    BY DEF Surjection
  <2> HIDE DEF R
  <2> QED
    BY <1>4, <2>1, FS_Surjection
<1>7. IsFiniteSet(S \cup {devSid})
  BY <1>5, FS_AddElement
<1>8. FreshRef = Fresh(R) /\ FreshSid = Fresh(S \cup {devSid})
  BY DEF FreshRef, FreshSid
<1>9. /\ FreshRef \in Nat \ {0} /\ FreshSid \in Nat \ {0}
      /\ FreshSid \notin S \cup {devSid}
  <2> HIDE DEF S, R
  <2> QED
    BY <1>6, <1>7, <1>8, FreshNumber
<1>10. \A x \in DevBodies \cup HostBodies : x \in Bodies
  BY DEF DevBodies, HostBodies, Bodies
<1> QED
  BY <1>9, <1>10

----------------------------------------------------------------------------
(* Three kinds of steps.                                                   *)

LEMMA DevBodyFacts ==
  ASSUME TypeInv
  PROVE  /\ \A x \in DevBodies : x \in Request /\ ~IsIdle(x) /\ x.sid # 0
         /\ \A x \in HostBodies : x \in Report /\ x.sid # 0
<1>1. \A x \in Range(toDev) : x \in DevToken
  BY DEF TypeInv, LineTypes, Range
<1>2. \A x \in Range(toHost) : x \in HostToken
  BY DEF TypeInv, LineTypes, Range
<1>3. \A x \in DevBodies : x \in Request
  BY <1>1, TokenFacts DEF DevBodies, DevToken, TypeInv, DeviceTypes
<1>4. \A x \in HostBodies : x \in Report
  BY <1>2, TokenFacts DEF HostBodies, HostToken, TypeInv, HostTypes
<1> QED
  BY <1>3, <1>4, RequestIsReport, BodyFacts DEF Request, Report

(* Nothing new: bodies are read, lost or echoed.                           *)
LEMMA QuietStep ==
  ASSUME IInv, TypeInv', ModeInv', OneInv', HostInv',
         IdleLast(toHost'), IsIdle(hostRx') => NoneOf(toHost', hostRx'),
         \A y \in DevBodies' : y \in DevBodies,
         \A y \in HostBodies' : y \in HostBodies \/ y \in DevBodies,
         bound' => bound /\ devSid' = devSid /\ nextSeq' = nextSeq,
         \/ sid' = 0
         \/ sid' = sid /\ seq' = seq /\ ref' = ref /\ (Waiting => Waiting')
  PROVE  IInv'
<1>1. TypeInv /\ IdleInv /\ CountInv /\ CurrentInv
  BY DEF IInv
<1>2. /\ \A x \in DevBodies : ~IsIdle(x) /\ x.sid # 0
      /\ \A x \in HostBodies : x.sid # 0
  BY <1>1, DevBodyFacts
<1>3. IdleInv'
  <2>1. \A x \in HostBodies, y \in DevBodies : IsIdle(x) => x.sid # y.sid
    BY <1>1 DEF IdleInv
  <2>2. \A x \in HostBodies', y \in DevBodies' : IsIdle(x) => x.sid # y.sid
    BY <1>2, <2>1
  <2> QED
    BY <2>2 DEF IdleInv
<1>4. CountInv'
  <2>1. ASSUME bound'
        PROVE  /\ \A x \in DevBodies' : x.sid = devSid' => x.seq = nextSeq'
               /\ \A x \in HostBodies' : IsIdle(x) /\ x.sid = devSid' => nextSeq' = AfterSeq(x.seq)
    <3>1. /\ \A x \in DevBodies : x.sid = devSid => x.seq = nextSeq
          /\ \A x \in HostBodies : IsIdle(x) /\ x.sid = devSid => nextSeq = AfterSeq(x.seq)
      BY <1>1, <2>1 DEF CountInv
    <3> QED
      BY <1>2, <2>1, <3>1
  <2> QED
    BY <2>1 DEF CountInv
<1>5. CurrentInv'
  <2>1. \A x \in DevBodies' \cup HostBodies' : x \in DevBodies \cup HostBodies
    OBVIOUS
  <2>2. \A x \in DevBodies \cup HostBodies :
          x.sid # 0 /\ (x.sid = sid => Waiting /\ x.seq = seq /\ x.ref = ref)
    BY <1>1, <1>2 DEF CurrentInv
  <2>3. \A x \in DevBodies' \cup HostBodies' :
          x.sid = sid' => Waiting' /\ x.seq = seq' /\ x.ref = ref'
    BY <2>1, <2>2
  <2> QED
    BY <2>3 DEF CurrentInv
<1> QED
  BY <1>3, <1>4, <1>5 DEF IInv

(* The device answers request r and forgets it.                            *)
LEMMA AnswerStep ==
  ASSUME IInv, TypeInv', ModeInv', OneInv',
         UNCHANGED host, NEW r \in DevBodies,
         NEW a \in Seq(HostToken), toHost' = toHost \o a, IdleLast(a),
         \A y \in Range(a) : IsBody(y) => y.sid = r.sid /\ y.seq = r.seq /\ y.ref = r.ref,
         \A y \in DevBodies' : y \in DevBodies /\ y.sid # r.sid,
         bound' => devSid' = r.sid /\ nextSeq' = AfterSeq(r.seq)
  PROVE  IInv'
<1>1. TypeInv /\ IdleInv /\ CountInv /\ CurrentInv /\ HostInv
  BY DEF IInv
<1>2. UNCHANGED <<phase, tries, sid, seq, ref, hostIn, hostRx, heard>>
  BY DEF host
<1>3. \A x \in HostBodies, y \in DevBodies : IsIdle(x) => x.sid # y.sid
  BY <1>1 DEF IdleInv
<1>4. \A x \in Range(toHost) : IsBody(x) => x \in HostBodies
  BY DEF HostBodies
<1>5. toHost \in Seq(HostToken) /\ IdleLast(toHost)
  BY <1>1 DEF TypeInv, LineTypes, IdleInv
<1>6. \A x \in Range(toHost), y \in Range(a) : IsIdle(x) /\ IsBody(y) => x.sid # y.sid
  BY <1>3, <1>4 DEF IsIdle
<1>7. Range(toHost') = Range(toHost) \cup Range(a) /\ IdleLast(toHost')
  BY <1>5, <1>6, AddFacts
<1>8. \A y \in HostBodies' : \/ y \in HostBodies
                             \/ y.sid = r.sid /\ y.seq = r.seq /\ y.ref = r.ref
  BY <1>2, <1>7 DEF HostBodies
<1>9. IdleInv'
  <2>1. IsIdle(hostRx') => NoneOf(toHost', hostRx')
    <3>1. IsIdle(hostRx) => NoneOf(toHost, hostRx) /\ hostRx \in HostBodies
      BY <1>1 DEF IdleInv, HostBodies, IsIdle
    <3>2. IsIdle(hostRx) => hostRx.sid # r.sid
      BY <1>3, <3>1
    <3> QED
      BY <1>2, <1>7, <3>1, <3>2 DEF NoneOf
  <2>2. \A x \in HostBodies', y \in DevBodies' : IsIdle(x) => x.sid # y.sid
    BY <1>3, <1>8
  <2> QED
    BY <1>7, <2>1, <2>2 DEF IdleInv
<1>10. CountInv'
  <2>1. \A x \in HostBodies : IsIdle(x) => x.sid # r.sid
    BY <1>3
  <2> QED
    BY <1>8, <2>1 DEF CountInv
<1>11. CurrentInv'
  <2>1. \A x \in DevBodies \cup HostBodies :
          x.sid = sid => Waiting /\ x.seq = seq /\ x.ref = ref
    BY <1>1 DEF CurrentInv
  <2>2. Waiting' <=> Waiting
    BY <1>2 DEF Waiting
  <2>3. \A x \in DevBodies' \cup HostBodies' :
          x.sid = sid => Waiting /\ x.seq = seq /\ x.ref = ref
    BY <1>8, <2>1
  <2> QED
    BY <1>2, <2>2, <2>3 DEF CurrentInv
<1>12. HostInv'
  <2>1. r.sid = sid => Waiting
    BY <1>1 DEF CurrentInv
  <2>2. ~(phase = "ready" /\ Waiting)
    BY DEF Waiting
  <2>3. phase' = "ready" /\ bound' /\ devSid' = sid' => nextSeq' = seq'
    BY <1>2, <2>1, <2>2
  <2>4. Waiting' <=> Waiting
    BY <1>2 DEF Waiting
  <2> QED
    BY <1>1, <1>2, <2>3, <2>4 DEF HostInv, AnswersMatch
<1> QED
  BY <1>9, <1>10, <1>11, <1>12 DEF IInv

(* The host sends a request in a session that has nothing under way.       *)
LEMMA SendStep ==
  ASSUME IInv, NEW k \in Requests, NEW s \in Nat \ {0}, NEW q \in 0 .. SeqMax,
         NEW next \in {"hello", "wait", "detach"}, Send(k, s, q, next),
         \A x \in DevBodies \cup HostBodies : x.sid # s,
         bound /\ devSid = s => q = nextSeq,
         toHost' \in Seq(HostToken), Range(toHost') \subseteq Range(toHost), IdleLast(toHost'),
         UNCHANGED <<device, tries>>, BoundTypes'
  PROVE  IInv'
<1> DEFINE b == Body(s, k, q, FreshRef)
<1>1. TypeInv /\ ModeInv /\ OneInv /\ IdleInv /\ CountInv
  BY DEF IInv
<1>2. /\ sid' = s /\ seq' = q /\ ref' = FreshRef /\ phase' = next
      /\ hostIn' = FALSE /\ hostRx' = Empty /\ heard' = {}
      /\ toDev' = toDev \o Frame(b)
  BY DEF Send, Write
<1>3. FreshRef \in Nat
  BY <1>1, FreshIds
<1>4. b \in Request /\ IsBody(b) /\ b.sid = s /\ b.seq = q /\ b.ref = FreshRef
  BY <1>3, MakeBody DEF Request
<1> HIDE DEF b
<1>5. /\ Frame(b) \in Seq(DevToken) /\ Range(Frame(b)) = {Zero, b} /\ OneEach(Frame(b))
  <2>1. b \in DevToken /\ Zero \in DevToken
    BY <1>4 DEF DevToken
  <2> QED
    BY <2>1, FrameFacts
<1>6. \A x \in Range(toDev) : IsBody(x) => x \in DevBodies
  BY DEF DevBodies
<1>7. \A x \in Range(toDev), y \in Range(Frame(b)) : IsBody(x) /\ IsBody(y) => x.sid # y.sid
  BY <1>4, <1>5, <1>6, TokenFacts
<1>8. toDev \in Seq(DevToken) /\ OneEach(toDev)
  BY <1>1 DEF TypeInv, LineTypes, OneInv
<1>9. toDev' \in Seq(DevToken) /\ OneEach(toDev') /\ Range(toDev') = Range(toDev) \cup {Zero, b}
  <2> DEFINE f == Frame(b)
             t == toDev \o f
  <2>1. /\ t \in Seq(DevToken) /\ Range(t) = Range(toDev) \cup Range(f)
        /\ OneEach(t)
    <3> HIDE DEF f
    <3> QED
      BY <1>5, <1>7, <1>8, AddFacts DEF f
  <2> HIDE DEF t
  <2>2. toDev' = t
    BY <1>2 DEF t
  <2> QED
    BY <1>5, <2>1, <2>2
<1>10. UNCHANGED <<mode, line, inFrame, rx, bound, devSid, nextSeq, busy>>
  BY DEF device
<1>11. \A x \in DevBodies' : x \in DevBodies \/ x = b
  BY <1>9, <1>10, TokenFacts DEF DevBodies
<1>12. \A x \in HostBodies' : x \in HostBodies /\ x \in Range(toHost')
  BY <1>2, TokenFacts DEF HostBodies
<1>13. TypeInv'
  <2>1. DeviceTypes'
    BY <1>1, <1>10 DEF TypeInv, DeviceTypes
  <2>2. HostTypes'
    BY <1>1, <1>2, <1>3 DEF TypeInv, HostTypes, Phases
  <2> QED
    BY <1>9, <2>1, <2>2 DEF TypeInv, LineTypes
<1>14. ModeInv'
  BY <1>1, <1>10 DEF ModeInv
<1>15. OneInv'
  <2>1. (IsBody(rx) => rx \in DevBodies) /\ (IsBody(busy) => busy \in DevBodies)
    BY DEF DevBodies
  <2>2. NoneOf(toDev', rx) /\ NoneOf(toDev', busy)
    BY <1>1, <1>4, <1>9, <2>1, TokenFacts DEF OneInv, NoneOf
  <2> QED
    BY <1>9, <1>10, <2>2 DEF OneInv
<1>16. IdleInv'
  <2>1. \A x \in HostBodies, y \in DevBodies : IsIdle(x) => x.sid # y.sid
    BY <1>1 DEF IdleInv
  <2>2. \A x \in HostBodies', y \in DevBodies' : IsIdle(x) => x.sid # y.sid
    BY <1>4, <1>11, <1>12, <2>1
  <2>3. ~IsIdle(hostRx')
    BY <1>2, TokenFacts DEF IsIdle
  <2> QED
    BY <2>2, <2>3 DEF IdleInv
<1>17. CountInv'
  BY <1>1, <1>4, <1>10, <1>11, <1>12 DEF CountInv
<1>18. CurrentInv'
  <2>1. Waiting'
    BY <1>2 DEF Waiting
  <2>2. \A x \in DevBodies' \cup HostBodies' : x.sid = s => x.seq = q /\ x.ref = FreshRef
    BY <1>4, <1>11, <1>12
  <2> QED
    BY <1>2, <2>1, <2>2 DEF CurrentInv
<1>19. HostInv'
  BY <1>2 DEF HostInv, AnswersMatch
<1> QED
  BY <1>13, <1>14, <1>15, <1>16, <1>17, <1>18, <1>19 DEF IInv

----------------------------------------------------------------------------
(* The device.                                                             *)

LEMMA DeviceQuiet ==
  ASSUME IInv, NEW a \in Seq(HostToken), toHost' = toHost \o a, IdleLast(a),
         \A y \in Range(a) : IsBody(y) => y \in DevBodies,
         toDev' \in Seq(DevToken), DeviceTypes', ModeInv', OneInv',
         \A y \in DevBodies' : y \in DevBodies,
         UNCHANGED <<host, disturb, lose>>,
         bound' => bound /\ devSid' = devSid /\ nextSeq' = nextSeq
  PROVE  IInv'
<1>1. TypeInv /\ IdleInv /\ HostInv
  BY DEF IInv
<1>2. UNCHANGED <<phase, tries, sid, seq, ref, hostIn, hostRx, heard, disturb, lose>>
  BY DEF host
<1>3. \A x \in HostBodies, y \in DevBodies : IsIdle(x) => x.sid # y.sid
  BY <1>1 DEF IdleInv
<1>4. \A x \in Range(toHost) : IsBody(x) => x \in HostBodies
  BY DEF HostBodies
<1>5. toHost \in Seq(HostToken) /\ IdleLast(toHost)
  BY <1>1 DEF TypeInv, LineTypes, IdleInv
<1>6. \A x \in Range(toHost), y \in Range(a) : IsIdle(x) /\ IsBody(y) => x.sid # y.sid
  BY <1>3, <1>4 DEF IsIdle
<1>7. /\ toHost' \in Seq(HostToken) /\ IdleLast(toHost')
      /\ Range(toHost') = Range(toHost) \cup Range(a)
  BY <1>5, <1>6, AddFacts
<1>8. \A y \in HostBodies' : y \in HostBodies \/ y \in DevBodies
  BY <1>2, <1>7 DEF HostBodies
<1>9. IsIdle(hostRx') => NoneOf(toHost', hostRx')
  <2>1. IsIdle(hostRx) => NoneOf(toHost, hostRx) /\ hostRx \in HostBodies
    BY <1>1 DEF IdleInv, HostBodies, IsIdle
  <2> QED
    BY <1>2, <1>3, <1>7, <2>1 DEF NoneOf
<1>10. TypeInv'
  <2>1. HostTypes' /\ BoundTypes'
    BY <1>1, <1>2 DEF TypeInv, HostTypes, BoundTypes
  <2> QED
    BY <1>7, <2>1 DEF TypeInv, LineTypes
<1>11. Waiting' <=> Waiting
  BY <1>2 DEF Waiting
<1>12. HostInv'
  BY <1>1, <1>2, <1>11 DEF HostInv, AnswersMatch
<1> QED
  BY <1>2, <1>7, <1>8, <1>9, <1>10, <1>11, <1>12, QuietStep

LEMMA DeviceSilent ==
  ASSUME IInv, toHost' = toHost,
         toDev' \in Seq(DevToken), DeviceTypes', ModeInv', OneInv',
         \A y \in DevBodies' : y \in DevBodies,
         UNCHANGED <<host, disturb, lose>>,
         bound' => bound /\ devSid' = devSid /\ nextSeq' = nextSeq
  PROVE  IInv'
<1> DEFINE a == <<>>
<1>1. a \in Seq(HostToken) /\ IdleLast(a) /\ Range(a) = {}
  BY NothingFacts
<1>2. toHost \in Seq(HostToken)
  BY DEF IInv, TypeInv, LineTypes
<1>3. toHost' = toHost \o a
  BY <1>2, ConcatEmptySeq
<1> HIDE DEF a
<1> QED
  BY <1>1, <1>3, DeviceQuiet

(* Reading a token of the line.                                            *)
LEMMA ReadFacts ==
  ASSUME IInv, toDev # <<>>, toDev' = Tail(toDev)
  PROVE  /\ toDev' \in Seq(DevToken) /\ OneEach(toDev') /\ NoneOf(toDev', Head(toDev))
         /\ Head(toDev) \in Range(toDev) /\ Head(toDev) \in DevToken
         /\ Range(toDev') \subseteq Range(toDev)
         /\ NoneOf(toDev', rx) /\ NoneOf(toDev', busy)
         /\ IsBody(Head(toDev)) => Head(toDev) \in Request /\ Head(toDev) \in DevBodies
<1>1. toDev \in Seq(DevToken) /\ OneEach(toDev) /\ NoneOf(toDev, rx) /\ NoneOf(toDev, busy)
  BY DEF IInv, TypeInv, LineTypes, OneInv
<1>2. /\ toDev' \in Seq(DevToken) /\ OneEach(toDev') /\ NoneOf(toDev', Head(toDev))
      /\ Head(toDev) \in Range(toDev) /\ Head(toDev) \in DevToken
      /\ Range(toDev') \subseteq Range(toDev)
  BY <1>1, TakeFacts
<1>3. NoneOf(toDev', rx) /\ NoneOf(toDev', busy)
  BY <1>1, <1>2 DEF NoneOf
<1>4. IsBody(Head(toDev)) => Head(toDev) \in Request /\ Head(toDev) \in DevBodies
  BY <1>2, TokenFacts DEF DevToken, DevBodies
<1> QED
  BY <1>2, <1>3, <1>4

(* A read that changes only the shell's line.                              *)
LEMMA ReadStep ==
  ASSUME IInv, toDev # <<>>, toDev' = Tail(toDev), line' \in LineStates,
         UNCHANGED <<mode, inFrame, rx, bound, devSid, nextSeq, busy>>
  PROVE  /\ toDev' \in Seq(DevToken) /\ DeviceTypes' /\ ModeInv' /\ OneInv'
         /\ \A y \in DevBodies' : y \in DevBodies
<1>1. /\ toDev' \in Seq(DevToken) /\ OneEach(toDev') /\ Range(toDev') \subseteq Range(toDev)
      /\ NoneOf(toDev', rx) /\ NoneOf(toDev', busy)
  BY ReadFacts
<1>2. DeviceTypes'
  BY DEF IInv, TypeInv, DeviceTypes
<1>3. ModeInv'
  BY DEF IInv, ModeInv
<1>4. OneInv'
  BY <1>1 DEF OneInv
<1>5. \A y \in DevBodies' : y \in DevBodies
  BY <1>1 DEF DevBodies
<1> QED
  BY <1>1, <1>2, <1>3, <1>4, <1>5

LEMMA ShellInterruptStep ==
  ASSUME IInv, ShellInterrupt
  PROVE  IInv'
<1> DEFINE a == <<Prompt>>
<1>1. /\ toDev # <<>> /\ toDev' = Tail(toDev) /\ line' = "empty" /\ toHost' = toHost \o a
      /\ UNCHANGED <<mode, inFrame, rx, bound, devSid, nextSeq, busy, host, disturb, lose>>
  BY DEF ShellInterrupt, Shell, Prints
<1>2. a \in Seq(HostToken) /\ IdleLast(a) /\ Range(a) = {Prompt}
  BY OneFacts DEF HostToken
<1> HIDE DEF a
<1>2a. line' \in LineStates
  BY <1>1 DEF LineStates
<1>3. /\ toDev' \in Seq(DevToken) /\ DeviceTypes' /\ ModeInv' /\ OneInv'
      /\ \A y \in DevBodies' : y \in DevBodies
  BY <1>1, <1>2a, ReadStep
<1> QED
  BY <1>1, <1>2, <1>3, TokenFacts, DeviceQuiet

LEMMA ShellLineStep ==
  ASSUME IInv, ShellLine
  PROVE  IInv'
<1> DEFINE a == <<Prompt>>
<1>1. /\ toDev # <<>> /\ toDev' = Tail(toDev)
      /\ \/ line' = "empty" /\ toHost' = toHost \o a
         \/ line' = line /\ toHost' = toHost
      /\ UNCHANGED <<mode, inFrame, rx, bound, devSid, nextSeq, busy, host, disturb, lose>>
  BY DEF ShellLine, Shell, Prints
<1>2. a \in Seq(HostToken) /\ IdleLast(a) /\ Range(a) = {Prompt}
  BY OneFacts DEF HostToken
<1> HIDE DEF a
<1>3. line' \in LineStates
  BY <1>1 DEF IInv, TypeInv, DeviceTypes, LineStates
<1>4. /\ toDev' \in Seq(DevToken) /\ DeviceTypes' /\ ModeInv' /\ OneInv'
      /\ \A y \in DevBodies' : y \in DevBodies
  BY <1>1, <1>3, ReadStep
<1>5. CASE toHost' = toHost \o a
  BY <1>1, <1>2, <1>4, <1>5, TokenFacts, DeviceQuiet
<1>6. CASE toHost' = toHost
  BY <1>1, <1>4, <1>6, DeviceSilent
<1> QED
  BY <1>1, <1>5, <1>6

LEMMA ShellBytesStep ==
  ASSUME IInv, ShellBytes
  PROVE  IInv'
<1>1. PICK x : /\ toDev # <<>> /\ toDev' = Tail(toDev) /\ Head(toDev) = x
               /\ IsFrameByte(x)
               /\ line' \in LineStates
               /\ \/ toHost' = toHost \o <<IF IsRest(x) THEN Garbage ELSE x>>
                  \/ toHost' = toHost \o <<Garbage, Prompt>>
                  \/ toHost' = toHost \o <<Garbage>>
  BY DEF ShellBytes, Shell, Prints, LineStates
<1>2. UNCHANGED <<mode, inFrame, rx, bound, devSid, nextSeq, busy, host, disturb, lose>>
  BY DEF ShellBytes
<1>3. /\ toDev' \in Seq(DevToken) /\ DeviceTypes' /\ ModeInv' /\ OneInv'
      /\ \A y \in DevBodies' : y \in DevBodies
  BY <1>1, <1>2, ReadStep
<1>4. ASSUME NEW z \in HostToken, IsBody(z) => z \in DevBodies, toHost' = toHost \o <<z>>
      PROVE  IInv'
  <2> DEFINE a == <<z>>
  <2>1. a \in Seq(HostToken) /\ IdleLast(a) /\ Range(a) = {z}
    BY <1>4, OneFacts
  <2>2. toHost' = toHost \o a
    BY <1>4
  <2> HIDE DEF a
  <2> QED
    BY <1>2, <1>3, <1>4, <2>1, <2>2, DeviceQuiet
<1>5. Garbage \in HostToken /\ Prompt \in HostToken /\ ~IsBody(Garbage) /\ ~IsBody(Prompt)
  BY TokenFacts DEF HostToken
<1>6. CASE toHost' = toHost \o <<IF IsRest(x) THEN Garbage ELSE x>>
  <2>1. CASE IsRest(x)
    BY <1>4, <1>5, <1>6, <2>1
  <2>2. CASE ~IsRest(x)
    <3>1. x \in HostToken /\ (IsBody(x) => x \in DevBodies)
      BY <1>1, <2>2, ReadFacts, RequestIsReport DEF HostToken, IsFrameByte
    <3> QED
      BY <1>4, <1>6, <2>2, <3>1
  <2> QED
    BY <2>1, <2>2
<1>7. CASE toHost' = toHost \o <<Garbage, Prompt>>
  <2> DEFINE a == <<Garbage, Prompt>>
  <2>1. a \in Seq(HostToken) /\ IdleLast(a) /\ Range(a) = {Garbage, Prompt}
    BY <1>5, TwoFacts
  <2>2. toHost' = toHost \o a
    BY <1>7
  <2> HIDE DEF a
  <2> QED
    BY <1>2, <1>3, <1>5, <2>1, <2>2, DeviceQuiet
<1>8. CASE toHost' = toHost \o <<Garbage>>
  BY <1>4, <1>5, <1>8
<1> QED
  BY <1>1, <1>6, <1>7, <1>8

(* The shell starts a program.                                             *)
LEMMA ShellRunsStep ==
  ASSUME IInv, ShellRuns, mode = "shell", busy = NotBusy,
         toDev' \in Seq(DevToken), OneEach(toDev'),
         \A y \in Range(toDev') : IsBody(y) => y \in Range(toDev)
  PROVE  /\ DeviceTypes' /\ ModeInv' /\ OneInv'
         /\ \A y \in DevBodies' : y \in DevBodies
         /\ bound' = bound /\ devSid' = devSid /\ nextSeq' = nextSeq
         /\ UNCHANGED <<host, disturb, lose>>
<1>1. /\ line' = "empty" /\ busy' = Program
      /\ UNCHANGED <<mode, inFrame, rx, bound, devSid, nextSeq, host, disturb, lose>>
  BY DEF ShellRuns
<1>2. DeviceTypes'
  BY <1>1 DEF IInv, TypeInv, DeviceTypes, LineStates
<1>3. ModeInv'
  BY <1>1, TokenFacts DEF IInv, ModeInv
<1>4. NoneOf(toDev, rx)
  BY DEF IInv, OneInv
<1>5. OneInv'
  BY <1>1, <1>4, TokenFacts DEF OneInv, NoneOf
<1>6. \A y \in DevBodies' : y \in DevBodies
  BY <1>1, TokenFacts DEF DevBodies
<1> QED
  BY <1>1, <1>2, <1>3, <1>5, <1>6

LEMMA ShellLineRunsStep ==
  ASSUME IInv, ShellLineRuns
  PROVE  IInv'
<1>1. /\ mode = "shell" /\ busy = NotBusy /\ ShellRuns
      /\ toDev # <<>> /\ toDev' = Tail(toDev) /\ toHost' = toHost
  BY DEF ShellLineRuns, Shell
<1>2. /\ toDev' \in Seq(DevToken) /\ OneEach(toDev')
      /\ \A y \in Range(toDev') : IsBody(y) => y \in Range(toDev)
  BY <1>1, ReadFacts
<1>3. /\ DeviceTypes' /\ ModeInv' /\ OneInv'
      /\ \A y \in DevBodies' : y \in DevBodies
      /\ bound' = bound /\ devSid' = devSid /\ nextSeq' = nextSeq
      /\ UNCHANGED <<host, disturb, lose>>
  BY <1>1, <1>2, ShellRunsStep
<1> QED
  BY <1>1, <1>2, <1>3, DeviceSilent

LEMMA LinesType ==
  ASSUME NEW x \in DevToken
  PROVE  Lines(x) \in Nat
<1>1. CASE IsRest(x)
  <2>1. ~IsRest(Zero) /\ ~IsRest(CtrlC) /\ ~IsRest(Newline) /\ ~IsRest(Enter)
    BY DEF IsRest, Zero, CtrlC, Newline, Enter
  <2>2. \A y \in Request : ~IsRest(y)
    BY RequestIsReport DEF IsRest, IsBody
  <2>3. x \in RestToken
    BY <1>1, <2>1, <2>2 DEF DevToken
  <2> QED
    BY <1>1, <2>3 DEF Lines, RestToken, IsBody, IsRest
<1>2. CASE ~IsRest(x)
  BY <1>2, ControlLinkAssumption DEF Lines
<1> QED
  BY <1>1, <1>2

LEMMA ShellBytesRunStep ==
  ASSUME IInv, ShellBytesRun
  PROVE  IInv'
<1> DEFINE a == <<Garbage>>
<1>1. PICK x : /\ mode = "shell" /\ busy = NotBusy
               /\ toDev # <<>> /\ Head(toDev) = x
               /\ \E n \in 0 .. Lines(x) : toDev' = <<Rest(n)>> \o Tail(toDev)
  BY DEF ShellBytesRun, Shell
<1>2. ShellRuns /\ toHost' = toHost \o a
  BY DEF ShellBytesRun, Prints
<1>3. /\ toDev \in Seq(DevToken) /\ OneEach(toDev)
      /\ Tail(toDev) \in Seq(DevToken) /\ x \in DevToken /\ OneEach(Tail(toDev))
      /\ Range(Tail(toDev)) \subseteq Range(toDev)
  BY <1>1, TakeFacts DEF IInv, TypeInv, LineTypes, OneInv
<1>4. PICK n \in Nat : toDev' = <<Rest(n)>> \o Tail(toDev)
  BY <1>1, <1>3, LinesType
<1>5. Rest(n) \in DevToken /\ ~IsBody(Rest(n))
  BY TokenFacts DEF Rest, RestToken, DevToken
<1> DEFINE q == <<Rest(n)>>
           t == Tail(toDev)
<1>6. q \in Seq(DevToken) /\ Range(q) = {Rest(n)} /\ OneEach(q)
  BY <1>5, OneFacts
<1>6a. toDev' = q \o t /\ t \in Seq(DevToken) /\ OneEach(t) /\ Range(t) \subseteq Range(toDev)
  BY <1>3, <1>4
<1> HIDE DEF q, t
<1>7. /\ toDev' \in Seq(DevToken) /\ OneEach(toDev')
      /\ Range(toDev') = {Rest(n)} \cup Range(t)
  BY <1>5, <1>6, <1>6a, AddFacts
<1>8. \A y \in Range(toDev') : IsBody(y) => y \in Range(toDev)
  BY <1>5, <1>6a, <1>7
<1>9. /\ DeviceTypes' /\ ModeInv' /\ OneInv'
      /\ \A y \in DevBodies' : y \in DevBodies
      /\ bound' = bound /\ devSid' = devSid /\ nextSeq' = nextSeq
      /\ UNCHANGED <<host, disturb, lose>>
  BY <1>1, <1>2, <1>7, <1>8, ShellRunsStep
<1>10. a \in Seq(HostToken) /\ IdleLast(a) /\ Range(a) = {Garbage}
  BY OneFacts DEF HostToken
<1> HIDE DEF a
<1> QED
  BY <1>2, <1>7, <1>9, <1>10, TokenFacts, DeviceQuiet

(* A program of the shell ends, interrupted or not.                        *)
LEMMA ProgramEndsStep ==
  ASSUME IInv, ProgramEnds, toDev' \in Seq(DevToken), OneEach(toDev'),
         Range(toDev') \subseteq Range(toDev)
  PROVE  IInv'
<1> DEFINE a == <<Garbage, Prompt>>
<1>1. /\ toHost' = toHost \o a /\ busy' = NotBusy
      /\ UNCHANGED <<mode, line, inFrame, rx, bound, devSid, nextSeq, host, disturb, lose>>
  BY DEF ProgramEnds, Prints
<1>2. Garbage \in HostToken /\ Prompt \in HostToken /\ ~IsBody(Garbage) /\ ~IsBody(Prompt)
  BY TokenFacts DEF HostToken
<1>3. a \in Seq(HostToken) /\ IdleLast(a) /\ Range(a) = {Garbage, Prompt}
  BY <1>2, TwoFacts
<1> HIDE DEF a
<1>4. DeviceTypes'
  BY <1>1 DEF IInv, TypeInv, DeviceTypes
<1>5. ModeInv'
  BY <1>1, TokenFacts DEF IInv, ModeInv
<1>6. OneInv'
  BY <1>1, TokenFacts DEF IInv, OneInv, NoneOf
<1>7. \A y \in DevBodies' : y \in DevBodies
  BY <1>1, TokenFacts DEF DevBodies
<1> QED
  BY <1>1, <1>2, <1>3, <1>4, <1>5, <1>6, <1>7, DeviceQuiet

LEMMA FinishProgramStep ==
  ASSUME IInv, FinishProgram
  PROVE  IInv'
<1>1. toDev' \in Seq(DevToken) /\ OneEach(toDev') /\ Range(toDev') \subseteq Range(toDev)
  BY DEF FinishProgram, IInv, TypeInv, LineTypes, OneInv
<1> QED
  BY <1>1, ProgramEndsStep DEF FinishProgram

LEMMA InterruptProgramStep ==
  ASSUME IInv, InterruptProgram
  PROVE  IInv'
<1>1. toDev' \in Seq(DevToken) /\ OneEach(toDev') /\ Range(toDev') \subseteq Range(toDev)
  BY ReadFacts DEF InterruptProgram
<1> QED
  BY <1>1, ProgramEndsStep DEF InterruptProgram

(* The control loop starts or ends: no session.                            *)
LEMMA SwitchFacts ==
  ASSUME IInv, toDev # <<>>, toDev' = Tail(toDev), busy = NotBusy, busy' = NotBusy,
         mode' \in {"shell", "control"}, line' \in LineStates,
         inFrame' = FALSE, rx' = Empty, bound' = FALSE, devSid' = 0, nextSeq' = 0
  PROVE  /\ toDev' \in Seq(DevToken) /\ DeviceTypes' /\ ModeInv' /\ OneInv'
         /\ \A y \in DevBodies' : y \in DevBodies /\ y \in Range(toDev')
<1>1. /\ toDev' \in Seq(DevToken) /\ OneEach(toDev') /\ Range(toDev') \subseteq Range(toDev)
  BY ReadFacts
<1>2. DeviceTypes'
  <2>1. devSid' \in Nat /\ nextSeq' \in 0 .. SeqMax
    BY ControlLinkAssumption
  <2> QED
    BY <2>1, Zenon DEF DeviceTypes
<1>3. ModeInv'
  BY TokenFacts DEF ModeInv
<1>4. OneInv'
  BY <1>1, TokenFacts DEF OneInv, NoneOf
<1>5. \A y \in DevBodies' : y \in DevBodies /\ y \in Range(toDev')
  BY <1>1, TokenFacts DEF DevBodies
<1> QED
  BY <1>1, <1>2, <1>3, <1>4, <1>5

LEMMA EnterControlStep ==
  ASSUME IInv, EnterControl
  PROVE  IInv'
<1> DEFINE a == <<Ready>>
<1>1. /\ toDev # <<>> /\ toDev' = Tail(toDev) /\ toHost' = toHost \o a
      /\ busy = NotBusy /\ mode' = "control" /\ inFrame' = FALSE /\ rx' = Empty
      /\ bound' = FALSE /\ devSid' = 0 /\ nextSeq' = 0
      /\ UNCHANGED <<line, busy, host, disturb, lose>>
  BY DEF EnterControl, Shell, Prints
<1>2. a \in Seq(HostToken) /\ IdleLast(a) /\ Range(a) = {Ready}
  BY OneFacts DEF HostToken
<1> HIDE DEF a
<1>3. line \in LineStates
  BY DEF IInv, TypeInv, DeviceTypes
<1>4. /\ toDev' \in Seq(DevToken) /\ DeviceTypes' /\ ModeInv' /\ OneInv'
      /\ \A y \in DevBodies' : y \in DevBodies
  BY <1>1, <1>3, SwitchFacts
<1> QED
  BY <1>1, <1>2, <1>4, TokenFacts, DeviceQuiet

LEMMA ControlInterruptStep ==
  ASSUME IInv, ControlInterrupt
  PROVE  IInv'
<1> DEFINE a == <<Prompt>>
<1>1. /\ toDev # <<>> /\ toDev' = Tail(toDev) /\ busy = NotBusy
      /\ mode' = "shell" /\ line' = "empty" /\ inFrame' = FALSE /\ rx' = Empty
      /\ bound' = FALSE /\ devSid' = 0 /\ nextSeq' = 0
      /\ UNCHANGED <<busy, host, disturb, lose>>
  BY DEF ControlInterrupt, Reads, LeaveControl
<1>2. toHost' = toHost \o (<<>> \o a)
  BY DEF ControlInterrupt, LeaveControl, Prints
<1>3. a \in Seq(HostToken) /\ IdleLast(a) /\ Range(a) = {Prompt}
  BY OneFacts DEF HostToken
<1> HIDE DEF a
<1>4. toHost' = toHost \o a
  BY <1>2, <1>3, ConcatEmptySeq
<1>5. /\ toDev' \in Seq(DevToken) /\ DeviceTypes' /\ ModeInv' /\ OneInv'
      /\ \A y \in DevBodies' : y \in DevBodies
  BY <1>1, SwitchFacts DEF LineStates
<1> QED
  BY <1>1, <1>3, <1>4, <1>5, TokenFacts, DeviceQuiet

LEMMA SkipByteStep ==
  ASSUME IInv, SkipByte
  PROVE  IInv'
<1>1. /\ toDev # <<>> /\ toDev' = Tail(toDev) /\ toHost' = toHost
      /\ UNCHANGED <<mode, line, inFrame, rx, bound, devSid, nextSeq, busy, host, disturb, lose>>
  BY DEF SkipByte, Reads, device
<1>2. line' \in LineStates
  BY <1>1 DEF IInv, TypeInv, DeviceTypes
<1>3. /\ toDev' \in Seq(DevToken) /\ DeviceTypes' /\ ModeInv' /\ OneInv'
      /\ \A y \in DevBodies' : y \in DevBodies
  BY <1>1, <1>2, ReadStep
<1> QED
  BY <1>1, <1>3, DeviceSilent

(* A read in the control loop that changes only the frame buffer.          *)
LEMMA BufferStep ==
  ASSUME IInv, toDev # <<>>, toDev' = Tail(toDev), toHost' = toHost, busy = NotBusy,
         inFrame' \in BOOLEAN,
         rx' \in {Empty, Garbage} \/ (rx' = Head(toDev) /\ IsBody(rx')),
         UNCHANGED <<mode, line, bound, devSid, nextSeq, busy, host, disturb, lose>>
  PROVE  IInv'
<1>1. /\ toDev' \in Seq(DevToken) /\ OneEach(toDev') /\ NoneOf(toDev', Head(toDev))
      /\ Range(toDev') \subseteq Range(toDev) /\ Head(toDev) \in Range(toDev)
      /\ IsBody(Head(toDev)) => Head(toDev) \in Request /\ Head(toDev) \in DevBodies
  BY ReadFacts
<1>2. DeviceTypes'
  BY <1>1 DEF IInv, TypeInv, DeviceTypes
<1>3. ModeInv'
  BY TokenFacts DEF IInv, ModeInv
<1>4. OneInv'
  BY <1>1, TokenFacts DEF OneInv, NoneOf
<1>5. \A y \in DevBodies' : y \in DevBodies
  BY <1>1, TokenFacts DEF DevBodies
<1> QED
  BY <1>1, <1>2, <1>3, <1>4, <1>5, DeviceSilent

LEMMA StartFrameStep ==
  ASSUME IInv, StartFrame
  PROVE  IInv'
BY BufferStep DEF StartFrame, Reads

LEMMA PushByteStep ==
  ASSUME IInv, PushByte
  PROVE  IInv'
<1>1. PICK x : /\ toDev # <<>> /\ toDev' = Tail(toDev) /\ Head(toDev) = x /\ busy = NotBusy
               /\ rx' = Push(rx, x)
  BY DEF PushByte, Reads
<1>2. /\ toHost' = toHost /\ inFrame' = inFrame
      /\ UNCHANGED <<mode, line, bound, devSid, nextSeq, busy, host, disturb, lose>>
  BY DEF PushByte
<1>3. rx' \in {Empty, Garbage} \/ (rx' = Head(toDev) /\ IsBody(rx'))
  BY <1>1 DEF Push
<1>4. inFrame' \in BOOLEAN
  BY <1>2 DEF IInv, TypeInv, DeviceTypes
<1> QED
  BY <1>1, <1>2, <1>3, <1>4, BufferStep

LEMMA BadFrameStep ==
  ASSUME IInv, BadFrame
  PROVE  IInv'
BY BufferStep DEF BadFrame, EndFrame, Reads

LEMMA IgnoreStep ==
  ASSUME IInv, Ignore
  PROVE  IInv'
BY BufferStep DEF Ignore, EndFrame, Reads

(* A request that is accepted is the one of its session.                   *)
LEMMA RequestFacts ==
  ASSUME IInv, IsBody(rx), toDev # <<>>, toDev' = Tail(toDev)
  PROVE  /\ rx \in Request /\ rx \in DevBodies /\ rx.sid \in Nat /\ rx.sid # 0
         /\ NoneOf(toDev', rx) /\ OneEach(toDev') /\ toDev' \in Seq(DevToken)
         /\ Range(toDev') \subseteq Range(toDev)
<1>1. rx \in Request
  BY TokenFacts DEF IInv, TypeInv, DeviceTypes
<1> QED
  BY <1>1, ReadFacts, BodyFacts DEF Request, DevBodies

LEMMA RunRequestStep ==
  ASSUME IInv, RunRequest
  PROVE  IInv'
<1>1. /\ IsBody(rx) /\ bound /\ rx.sid = devSid /\ rx.seq = nextSeq
      /\ toDev # <<>> /\ toDev' = Tail(toDev) /\ busy = NotBusy /\ mode = "control"
      /\ inFrame' = FALSE /\ rx' = Empty /\ busy' = rx /\ toHost' = toHost
      /\ UNCHANGED <<mode, line, bound, devSid, nextSeq, host, disturb, lose>>
  BY DEF RunRequest, Accepted, EndFrame, Reads
<1>2. /\ rx \in Request /\ rx \in DevBodies /\ rx.sid # 0
      /\ NoneOf(toDev', rx) /\ OneEach(toDev') /\ toDev' \in Seq(DevToken)
      /\ Range(toDev') \subseteq Range(toDev)
  BY <1>1, RequestFacts
<1>3. DeviceTypes'
  BY <1>1, <1>2 DEF IInv, TypeInv, DeviceTypes
<1>4. ModeInv'
  BY <1>1, TokenFacts DEF IInv, ModeInv
<1>5. OneInv'
  BY <1>1, <1>2, TokenFacts DEF OneInv, NoneOf
<1>6. \A y \in DevBodies' : y \in DevBodies
  BY <1>1, <1>2, TokenFacts DEF DevBodies
<1> QED
  BY <1>1, <1>2, <1>3, <1>4, <1>5, <1>6, DeviceSilent

LEMMA HelloStep ==
  ASSUME IInv, Hello
  PROVE  IInv'
<1> DEFINE a == Event(rx, "hello") \o Event(rx, "idle")
<1>1. /\ IsBody(rx) /\ rx.seq = 0
      /\ toDev # <<>> /\ toDev' = Tail(toDev) /\ busy = NotBusy
      /\ inFrame' = FALSE /\ rx' = Empty /\ toHost' = toHost \o a
      /\ bound' = TRUE /\ devSid' = rx.sid /\ nextSeq' = 1
      /\ UNCHANGED <<mode, line, busy, host, disturb, lose>>
  BY DEF Hello, EndFrame, Reads, Prints
<1>2. /\ rx \in Request /\ rx \in DevBodies /\ rx.sid \in Nat /\ rx.sid # 0
      /\ NoneOf(toDev', rx) /\ OneEach(toDev') /\ toDev' \in Seq(DevToken)
      /\ Range(toDev') \subseteq Range(toDev)
  BY <1>1, RequestFacts
<1>3. /\ a \in Seq(HostToken) /\ IdleLast(a)
      /\ \A y \in Range(a) : IsBody(y) => y.sid = rx.sid /\ y.seq = rx.seq /\ y.ref = rx.ref
  <2>1. "hello" \in Reports \ {"idle"}
    BY DEF Reports, Requests
  <2> QED
    BY <1>2, <2>1, EventsFacts
<1> HIDE DEF a
<1>4. TypeInv'
  <2>1. DeviceTypes'
    <3>1. nextSeq' \in 0 .. SeqMax
      BY <1>1, ControlLinkAssumption
    <3>2. mode' \in {"shell", "control"} /\ line' \in LineStates
      BY <1>1 DEF IInv, TypeInv, DeviceTypes
    <3> QED
      BY <1>1, <1>2, <3>1, <3>2, Zenon DEF DeviceTypes
  <2>2. toHost' \in Seq(HostToken)
    BY <1>1, <1>3, AddFacts DEF IInv, TypeInv, LineTypes
  <2>3. HostTypes' /\ BoundTypes'
    BY <1>1 DEF IInv, TypeInv, HostTypes, BoundTypes, host
  <2> QED
    BY <1>2, <2>1, <2>2, <2>3 DEF TypeInv, LineTypes
<1>5. ModeInv'
  BY <1>1, <1>2, TokenFacts DEF ModeInv
<1>6. OneInv'
  BY <1>1, <1>2, TokenFacts DEF OneInv, NoneOf
<1>7. \A y \in DevBodies' : y \in DevBodies /\ y.sid # rx.sid
  BY <1>1, <1>2, TokenFacts DEF DevBodies, NoneOf
<1>8. nextSeq' = AfterSeq(rx.seq)
  BY <1>1, ControlLinkAssumption DEF AfterSeq
<1> QED
  BY <1>1, <1>2, <1>3, <1>4, <1>5, <1>6, <1>7, <1>8, AnswerStep

LEMMA DetachRequestStep ==
  ASSUME IInv, DetachRequest
  PROVE  IInv'
<1> DEFINE z == Body(rx.sid, "idle", rx.seq, rx.ref)
           f == Frame(z)
           p == <<Prompt>>
           a == f \o p
<1>1. /\ IsBody(rx) /\ toDev # <<>> /\ toDev' = Tail(toDev) /\ busy = NotBusy
      /\ mode' = "shell" /\ line' = "empty" /\ inFrame' = FALSE /\ rx' = Empty
      /\ bound' = FALSE /\ devSid' = 0 /\ nextSeq' = 0
      /\ UNCHANGED <<busy, host, disturb, lose>>
  BY DEF DetachRequest, Accepted, Reads, LeaveControl
<1>1a. toHost' = toHost \o a
  BY DEF DetachRequest, LeaveControl, Prints, Event
<1>2. /\ rx \in Request /\ rx \in DevBodies
      /\ NoneOf(toDev', rx) /\ toDev' \in Seq(DevToken)
  BY <1>1, RequestFacts
<1>2a. rx.sid \in Nat \ {0} /\ rx.seq \in 0 .. SeqMax /\ rx.ref \in Nat /\ "idle" \in Reports
  BY <1>2, BodyFacts DEF Request, Reports
<1>2b. z \in Report /\ z.sid = rx.sid /\ z.seq = rx.seq /\ z.ref = rx.ref
  BY <1>2a, MakeReport
<1> HIDE DEF z
<1>2c. z \in HostToken /\ Zero \in HostToken /\ Prompt \in HostToken
  BY <1>2b DEF HostToken
<1>2d. f \in Seq(HostToken) /\ Range(f) = {Zero, z} /\ IdleLast(f)
  BY <1>2c, FrameFacts
<1>2e. p \in Seq(HostToken) /\ Range(p) = {Prompt} /\ IdleLast(p)
  BY <1>2c, OneFacts
<1> HIDE DEF f, p
<1>2f. a \in Seq(HostToken) /\ IdleLast(a) /\ Range(a) = {Zero, z, Prompt}
  <2>1. \A x \in Range(f), y \in Range(p) : IsIdle(x) /\ IsBody(y) => x.sid # y.sid
    BY <1>2e, TokenFacts
  <2>2. Range(f) \cup Range(p) = {Zero, z, Prompt}
    BY <1>2d, <1>2e
  <2> QED
    BY <1>2d, <1>2e, <2>1, <2>2, AddFacts
<1>3. \A y \in Range(a) : IsBody(y) => y.sid = rx.sid /\ y.seq = rx.seq /\ y.ref = rx.ref
  BY <1>2b, <1>2f, TokenFacts
<1> HIDE DEF a
<1>4. /\ DeviceTypes' /\ ModeInv' /\ OneInv'
      /\ \A y \in DevBodies' : y \in DevBodies /\ y \in Range(toDev')
  BY <1>1, SwitchFacts DEF LineStates
<1>5. TypeInv'
  <2>2. toHost' \in Seq(HostToken)
    BY <1>1a, <1>2f, AddFacts DEF IInv, TypeInv, LineTypes
  <2>3. HostTypes' /\ BoundTypes'
    BY <1>1 DEF IInv, TypeInv, HostTypes, BoundTypes, host
  <2> QED
    BY <1>2, <1>4, <2>2, <2>3 DEF TypeInv, LineTypes
<1>6. \A y \in DevBodies' : y \in DevBodies /\ y.sid # rx.sid
  <2>1. \A y \in DevBodies' : IsBody(y)
    BY DEF DevBodies
  <2> QED
    BY <1>1, <1>2, <1>4, <2>1 DEF NoneOf
<1> QED
  BY <1>1, <1>1a, <1>2, <1>2f, <1>3, <1>4, <1>5, <1>6, AnswerStep

(* The program ends, by itself or by CTRL-C.                               *)
LEMMA EndStep ==
  ASSUME IInv, IsBody(busy), NEW k \in {"value", "error", "interrupted"},
         toHost' = toHost \o (Event(busy, k) \o Event(busy, "idle")),
         toDev' \in Seq(DevToken), OneEach(toDev'), Range(toDev') \subseteq Range(toDev),
         busy' = NotBusy, nextSeq' = AfterSeq(nextSeq),
         UNCHANGED <<mode, line, inFrame, rx, bound, devSid, host, disturb, lose>>
  PROVE  IInv'
<1> DEFINE a == Event(busy, k) \o Event(busy, "idle")
<1>1. TypeInv /\ ModeInv /\ OneInv /\ CountInv
  BY DEF IInv
<1>2. busy \in Request /\ busy \in DevBodies /\ IsBody(busy)
  <2>1. busy \in Request
    BY <1>1, TokenFacts DEF TypeInv, DeviceTypes
  <2> QED
    BY <2>1, RequestIsReport DEF DevBodies
<1>3. bound /\ rx = Empty /\ busy.sid = devSid /\ busy.seq = nextSeq
  BY <1>1, <1>2 DEF ModeInv, CountInv
<1>4. /\ a \in Seq(HostToken) /\ IdleLast(a)
      /\ \A y \in Range(a) : IsBody(y) => y.sid = busy.sid /\ y.seq = busy.seq /\ y.ref = busy.ref
  <2>1. k \in Reports \ {"idle"}
    BY DEF Reports
  <2> QED
    BY <1>2, <2>1, EventsFacts
<1>4a. toHost' = toHost \o a
  OBVIOUS
<1> HIDE DEF a
<1>5. TypeInv'
  <2>1. DeviceTypes'
    <3>1. nextSeq' \in 0 .. SeqMax
      BY <1>1, AfterSeqType DEF TypeInv, DeviceTypes
    <3> QED
      BY <1>1, <3>1 DEF TypeInv, DeviceTypes
  <2>2. toHost' \in Seq(HostToken)
    <3>1. toHost \in Seq(HostToken)
      BY <1>1 DEF TypeInv, LineTypes
    <3>2. toHost \o a \in Seq(HostToken)
      BY <1>4, <3>1, ConcatProperties
    <3> QED
      BY <1>4a, <3>2
  <2>3. HostTypes' /\ BoundTypes'
    BY <1>1 DEF TypeInv, HostTypes, BoundTypes, host
  <2> QED
    BY <2>1, <2>2, <2>3 DEF TypeInv, LineTypes
<1>6. ModeInv'
  BY <1>1, TokenFacts DEF ModeInv
<1>7. OneInv'
  BY <1>3, TokenFacts DEF OneInv, NoneOf
<1>8. \A y \in DevBodies' : y \in DevBodies /\ y.sid # busy.sid
  BY <1>1, <1>2, <1>3, TokenFacts DEF DevBodies, OneInv, NoneOf
<1> QED
  BY <1>2, <1>3, <1>4, <1>4a, <1>5, <1>6, <1>7, <1>8, AnswerStep

LEMMA FinishRequestStep ==
  ASSUME IInv, FinishRequest
  PROVE  IInv'
<1>1. PICK k \in {"value", "error"} :
        toHost' = toHost \o (Event(busy, k) \o Event(busy, "idle"))
  BY DEF FinishRequest, Prints
<1>2. /\ IsBody(busy) /\ busy' = NotBusy /\ nextSeq' = AfterSeq(nextSeq) /\ toDev' = toDev
      /\ UNCHANGED <<mode, line, inFrame, rx, bound, devSid, host, disturb, lose>>
  BY DEF FinishRequest
<1>3. toDev' \in Seq(DevToken) /\ OneEach(toDev') /\ Range(toDev') \subseteq Range(toDev)
  BY <1>2 DEF IInv, TypeInv, LineTypes, OneInv
<1> QED
  BY <1>1, <1>2, <1>3, EndStep

LEMMA InterruptRequestStep ==
  ASSUME IInv, InterruptRequest
  PROVE  IInv'
<1>1. toHost' = toHost \o (Event(busy, "interrupted") \o Event(busy, "idle"))
  BY DEF InterruptRequest, Prints
<1>2. /\ IsBody(busy) /\ busy' = NotBusy /\ nextSeq' = AfterSeq(nextSeq)
      /\ toDev # <<>> /\ toDev' = Tail(toDev)
      /\ UNCHANGED <<mode, line, inFrame, rx, bound, devSid, host, disturb, lose>>
  BY DEF InterruptRequest
<1>3. toDev' \in Seq(DevToken) /\ OneEach(toDev') /\ Range(toDev') \subseteq Range(toDev)
  BY <1>2, ReadFacts
<1> QED
  BY <1>1, <1>2, <1>3, EndStep

----------------------------------------------------------------------------
(* The host and the line.                                                  *)

LEMMA HostQuiet ==
  ASSUME IInv, UNCHANGED device, toDev' \in Seq(DevToken), OneEach(toDev'),
         \A y \in Range(toDev') : IsBody(y) => y \in Range(toDev),
         toHost' \in Seq(HostToken), IdleLast(toHost'), Range(toHost') \subseteq Range(toHost),
         HostTypes', BoundTypes', HostInv',
         IsBody(hostRx') => hostRx' \in HostBodies,
         IsIdle(hostRx') => NoneOf(toHost', hostRx'),
         \/ sid' = 0
         \/ sid' = sid /\ seq' = seq /\ ref' = ref /\ (Waiting => Waiting')
  PROVE  IInv'
<1>1. TypeInv /\ ModeInv /\ OneInv
  BY DEF IInv
<1>2. UNCHANGED <<mode, line, inFrame, rx, bound, devSid, nextSeq, busy>>
  BY DEF device
<1>3. TypeInv'
  BY <1>1, <1>2 DEF TypeInv, LineTypes, DeviceTypes
<1>4. ModeInv'
  BY <1>1, <1>2 DEF ModeInv
<1>5. OneInv'
  BY <1>1, <1>2 DEF OneInv, NoneOf
<1>6. \A y \in DevBodies' : y \in DevBodies
  BY <1>2 DEF DevBodies
<1>7. \A y \in HostBodies' : y \in HostBodies
  BY DEF HostBodies
<1> QED
  BY <1>2, <1>3, <1>4, <1>5, <1>6, <1>7, QuietStep

(* The two directions, when nothing is taken from them.                    *)
LEMMA LineFacts ==
  ASSUME IInv
  PROVE  /\ toDev \in Seq(DevToken) /\ OneEach(toDev)
         /\ toHost \in Seq(HostToken) /\ IdleLast(toHost)
         /\ IsIdle(hostRx) => NoneOf(toHost, hostRx)
         /\ HostTypes /\ BoundTypes
BY DEF IInv, TypeInv, LineTypes, OneInv, IdleInv

(* Writing bytes that are not a frame.                                     *)
LEMMA WriteFacts ==
  ASSUME IInv, NEW a \in Seq(DevToken), \A y \in Range(a) : ~IsBody(y), toDev' = toDev \o a
  PROVE  /\ toDev' \in Seq(DevToken) /\ OneEach(toDev')
         /\ \A y \in Range(toDev') : IsBody(y) => y \in Range(toDev)
<1>1. toDev \in Seq(DevToken) /\ OneEach(toDev)
  BY LineFacts
<1>2. OneEach(a)
  BY PlainFacts
<1>3. \A x \in Range(toDev), y \in Range(a) : IsBody(x) /\ IsBody(y) => x.sid # y.sid
  OBVIOUS
<1> QED
  BY <1>1, <1>2, <1>3, AddFacts

(* waitForRaw.                                                             *)
LEMMA SeesFacts ==
  ASSUME IInv, NEW x, Sees(x)
  PROVE  /\ toHost' \in Seq(HostToken) /\ Range(toHost') \subseteq Range(toHost)
         /\ IdleLast(toHost')
<1>1. toHost \in Seq(HostToken) /\ IdleLast(toHost)
  BY LineFacts
<1>2. PICK n \in 1 .. Len(toHost) : toHost' = SubSeq(toHost, n + 1, Len(toHost))
  BY <1>1, LenProperties DEF Sees
<1>3. toHost' \in Seq(HostToken) /\ Thinner(toHost', toHost)
  BY <1>1, <1>2, SubSeqThinner
<1> QED
  BY <1>1, <1>3, ThinnerFacts

LEMMA OpenSerialStep ==
  ASSUME IInv, OpenSerial
  PROVE  IInv'
<1>1. /\ phase = "closed" /\ phase' = "prompt" /\ tries' = 0 /\ toHost' \in {toHost, <<>>}
      /\ UNCHANGED <<toDev, device, sid, seq, ref, hostIn, hostRx, heard, disturb, lose>>
  BY DEF OpenSerial
<1>2. /\ toDev \in Seq(DevToken) /\ OneEach(toDev)
      /\ toHost \in Seq(HostToken) /\ IdleLast(toHost)
      /\ IsIdle(hostRx) => NoneOf(toHost, hostRx)
      /\ HostTypes /\ BoundTypes
  BY LineFacts
<1>3. /\ toHost' \in Seq(HostToken) /\ IdleLast(toHost') /\ Range(toHost') \subseteq Range(toHost)
  BY <1>1, <1>2, NothingFacts
<1>4. HostTypes' /\ BoundTypes'
  BY <1>1, <1>2 DEF HostTypes, BoundTypes, Phases
<1>5. HostInv'
  BY <1>1 DEF IInv, HostInv, Waiting, AnswersMatch
<1>6. (IsBody(hostRx') => hostRx' \in HostBodies) /\ (IsIdle(hostRx') => NoneOf(toHost', hostRx'))
  BY <1>1, <1>2, <1>3 DEF HostBodies, NoneOf
<1>7. ~Waiting
  BY <1>1 DEF Waiting
<1> QED
  BY <1>1, <1>2, <1>3, <1>4, <1>5, <1>6, <1>7, HostQuiet

LEMMA GetPromptStep ==
  ASSUME IInv, GetPrompt
  PROVE  IInv'
<1> DEFINE a == <<Enter>>
<1>1. /\ phase = "prompt" /\ phase' = "enter" /\ Sees(Prompt) /\ toDev' = toDev \o a
      /\ UNCHANGED <<device, tries, sid, seq, ref, hostIn, hostRx, heard, disturb, lose>>
  BY DEF GetPrompt, Write
<1>2. a \in Seq(DevToken) /\ \A y \in Range(a) : ~IsBody(y)
  BY OneFacts, TokenFacts DEF DevToken
<1> HIDE DEF a
<1>3. /\ toDev' \in Seq(DevToken) /\ OneEach(toDev')
      /\ \A y \in Range(toDev') : IsBody(y) => y \in Range(toDev)
  BY <1>1, <1>2, WriteFacts
<1>4. /\ toHost' \in Seq(HostToken) /\ Range(toHost') \subseteq Range(toHost)
      /\ IdleLast(toHost')
  BY <1>1, SeesFacts
<1>5. HostTypes' /\ BoundTypes'
  BY <1>1, LineFacts DEF HostTypes, BoundTypes, Phases
<1>6. HostInv'
  BY <1>1 DEF IInv, HostInv, Waiting, AnswersMatch
<1>7. (IsBody(hostRx') => hostRx' \in HostBodies) /\ (IsIdle(hostRx') => NoneOf(toHost', hostRx'))
  BY <1>1, <1>4, LineFacts DEF HostBodies, NoneOf
<1>8. ~Waiting
  BY <1>1 DEF Waiting
<1> QED
  BY <1>1, <1>3, <1>4, <1>5, <1>6, <1>7, <1>8, HostQuiet

LEMMA SendHelloStep ==
  ASSUME IInv, SendHello
  PROVE  IInv'
<1>1. /\ Sees(Ready) /\ Send("hello", FreshSid, 0, "hello")
      /\ UNCHANGED <<device, tries, disturb, lose>>
  BY DEF SendHello
<1>2. /\ FreshSid \in Nat \ {0} /\ FreshSid # devSid
      /\ \A x \in DevBodies \cup HostBodies : x.sid # FreshSid
  BY FreshIds DEF IInv
<1>3. /\ toHost' \in Seq(HostToken) /\ Range(toHost') \subseteq Range(toHost)
      /\ IdleLast(toHost')
  BY <1>1, SeesFacts
<1>4. BoundTypes' /\ 0 \in 0 .. SeqMax /\ "hello" \in Requests
  BY <1>1, LineFacts, ControlLinkAssumption DEF BoundTypes, Requests
<1> QED
  BY <1>1, <1>2, <1>3, <1>4, SendStep

(* Between requests nothing of the session is under way.                   *)
LEMMA ReadyFacts ==
  ASSUME IInv, phase = "ready"
  PROVE  /\ sid \in Nat \ {0} /\ seq \in 0 .. SeqMax
         /\ \A x \in DevBodies \cup HostBodies : x.sid # sid
         /\ bound /\ devSid = sid => seq = nextSeq
<1>1. sid \in Nat /\ seq \in 0 .. SeqMax
  BY LineFacts DEF HostTypes
<1>2. ~Waiting
  BY DEF Waiting
<1>3. sid # 0 /\ (bound /\ devSid = sid => seq = nextSeq)
  BY DEF IInv, HostInv
<1> QED
  BY <1>1, <1>2, <1>3 DEF IInv, CurrentInv

LEMMA SendRequestStep ==
  ASSUME IInv, SendRequest
  PROVE  IInv'
<1>1. /\ phase = "ready" /\ Send("run", sid, seq, "wait")
      /\ UNCHANGED <<toHost, device, tries, disturb, lose>>
  BY DEF SendRequest
<1>2. /\ toHost' \in Seq(HostToken) /\ Range(toHost') \subseteq Range(toHost)
      /\ IdleLast(toHost') /\ BoundTypes' /\ "run" \in Requests
  BY <1>1, LineFacts DEF BoundTypes, Requests
<1> QED
  BY <1>1, <1>2, ReadyFacts, SendStep

LEMMA SendDetachStep ==
  ASSUME IInv, SendDetach
  PROVE  IInv'
<1>1. /\ phase = "ready" /\ Send("detach", sid, seq, "detach")
      /\ disturb > 0 /\ disturb' = disturb - 1
      /\ UNCHANGED <<toHost, device, tries, lose>>
  BY DEF SendDetach
<1>2. /\ toHost' \in Seq(HostToken) /\ Range(toHost') \subseteq Range(toHost)
      /\ IdleLast(toHost') /\ "detach" \in Requests
  BY <1>1, LineFacts DEF Requests
<1>3. BoundTypes'
  BY <1>1, LineFacts, ControlLinkAssumption DEF BoundTypes
<1> QED
  BY <1>1, <1>2, <1>3, ReadyFacts, SendStep

(* Reading the first token from the device.                                *)
LEMMA HostReadsFacts ==
  ASSUME IInv, NEW x, HostReads(x)
  PROVE  /\ toHost' \in Seq(HostToken) /\ IdleLast(toHost') /\ Range(toHost') \subseteq Range(toHost)
         /\ x \in Range(toHost) /\ x \in HostToken
         /\ IsIdle(x) => NoneOf(toHost', x)
         /\ IsIdle(hostRx) => NoneOf(toHost', hostRx)
         /\ Waiting /\ UNCHANGED <<toDev, device, disturb, lose>>
<1>1. /\ toHost \in Seq(HostToken) /\ IdleLast(toHost)
      /\ IsIdle(hostRx) => NoneOf(toHost, hostRx)
  BY LineFacts
<1>2. /\ toHost # <<>> /\ x = Head(toHost) /\ toHost' = Tail(toHost)
      /\ Waiting /\ UNCHANGED <<toDev, device, disturb, lose>>
  BY DEF HostReads
<1>3. /\ toHost' \in Seq(HostToken) /\ IdleLast(toHost') /\ Range(toHost') \subseteq Range(toHost)
      /\ x \in Range(toHost) /\ x \in HostToken
      /\ IsIdle(x) => NoneOf(toHost', x)
  BY <1>1, <1>2, TakeFacts
<1>4. IsIdle(hostRx) => NoneOf(toHost', hostRx)
  BY <1>1, <1>3 DEF NoneOf
<1> QED
  BY <1>2, <1>3, <1>4

(* What the host read while it waits goes on belonging to its request.     *)
LEMMA HostReadStep ==
  ASSUME IInv, NEW x, HostReads(x), UNCHANGED <<phase, tries, sid, seq, ref>>,
         hostIn' \in BOOLEAN, hostRx' \in {Empty, Garbage} \cup Report,
         heard' \in SUBSET Report, AnswersMatch',
         IsBody(hostRx') => hostRx' \in HostBodies,
         IsIdle(hostRx') => NoneOf(toHost', hostRx')
  PROVE  IInv'
<1>1. /\ toHost' \in Seq(HostToken) /\ IdleLast(toHost') /\ Range(toHost') \subseteq Range(toHost)
      /\ UNCHANGED <<toDev, device, disturb, lose>>
  BY HostReadsFacts
<1>2. HostTypes' /\ BoundTypes'
  BY <1>1, LineFacts DEF HostTypes, BoundTypes
<1>3. HostInv'
  BY <1>1 DEF IInv, HostInv, Waiting, device
<1>4. Waiting => Waiting'
  BY DEF Waiting
<1>5. /\ toDev' \in Seq(DevToken) /\ OneEach(toDev')
      /\ \A y \in Range(toDev') : IsBody(y) => y \in Range(toDev)
  BY <1>1, LineFacts
<1> QED
  BY <1>1, <1>2, <1>3, <1>4, <1>5, HostQuiet

LEMMA HostStartStep ==
  ASSUME IInv, HostStart
  PROVE  IInv'
<1>1. /\ HostReads(Zero) /\ hostRx = Empty /\ hostIn' = TRUE
      /\ UNCHANGED <<phase, tries, sid, seq, ref, hostRx, heard>>
  BY DEF HostStart
<1>2. heard' \in SUBSET Report /\ AnswersMatch'
  BY <1>1, LineFacts DEF HostTypes, IInv, HostInv, AnswersMatch
<1>3. ~IsBody(hostRx') /\ ~IsIdle(hostRx') /\ hostRx' \in {Empty, Garbage} \cup Report
  BY <1>1, TokenFacts DEF IsIdle
<1> QED
  BY <1>1, <1>2, <1>3, HostReadStep

LEMMA HostByteStep ==
  ASSUME IInv, HostByte
  PROVE  IInv'
<1>1. PICK x \in Range(toHost) :
        HostReads(x) /\ hostRx' = IF hostIn THEN Push(hostRx, x) ELSE hostRx
  BY DEF HostByte
<1>2. UNCHANGED <<phase, tries, sid, seq, ref, hostIn, heard>>
  BY DEF HostByte
<1>3. heard' \in SUBSET Report /\ AnswersMatch' /\ hostIn' \in BOOLEAN
  BY <1>2, LineFacts DEF HostTypes, IInv, HostInv, AnswersMatch
<1>4. /\ x \in HostToken /\ (IsIdle(x) => NoneOf(toHost', x))
      /\ (IsIdle(hostRx) => NoneOf(toHost', hostRx))
  BY <1>1, HostReadsFacts
<1>5. hostRx' = hostRx \/ hostRx' = Garbage \/ (hostRx' = x /\ IsBody(x))
  BY <1>1 DEF Push
<1>6. hostRx \in {Empty, Garbage} \cup Report
  BY LineFacts DEF HostTypes
<1>7. IsBody(x) => x \in Report
  BY <1>4, TokenFacts DEF HostToken
<1>8. hostRx' \in {Empty, Garbage} \cup Report
  BY <1>5, <1>6, <1>7
<1>9. IsBody(hostRx') => hostRx' \in HostBodies
  BY <1>5, TokenFacts DEF HostBodies
<1>10. IsIdle(hostRx') => NoneOf(toHost', hostRx')
  BY <1>4, <1>5, TokenFacts DEF IsIdle
<1> QED
  BY <1>1, <1>2, <1>3, <1>8, <1>9, <1>10, HostReadStep

LEMMA HostEventStep ==
  ASSUME IInv, HostEvent
  PROVE  IInv'
<1>1. /\ HostReads(Zero) /\ IsBody(hostRx)
      /\ heard' = heard \cup {b \in {hostRx} : ForUs(b)}
      /\ hostIn' = FALSE /\ hostRx' = Empty
      /\ UNCHANGED <<phase, tries, sid, seq, ref>>
  BY DEF HostEvent, HostFrame
<1>2. hostRx \in Report /\ hostRx \in HostBodies /\ heard \in SUBSET Report
  BY <1>1, LineFacts, TokenFacts DEF HostTypes, HostBodies
<1>3. ForUs(hostRx) => hostRx.ref = ref
  BY <1>2 DEF IInv, CurrentInv, ForUs
<1>4. heard' \in SUBSET Report
  BY <1>1, <1>2
<1>5. AnswersMatch'
  BY <1>1, <1>3 DEF IInv, HostInv, AnswersMatch
<1>6. ~IsBody(hostRx') /\ ~IsIdle(hostRx')
  BY <1>1, TokenFacts DEF IsIdle
<1>7. hostIn' \in BOOLEAN /\ hostRx' \in {Empty, Garbage} \cup Report
  BY <1>1
<1> QED
  BY <1>1, <1>4, <1>5, <1>6, <1>7, HostReadStep

(* With IDLE the session has nothing left anywhere, and the next number is *)
(* the one the device expects.                                             *)
LEMMA HostDoneStep ==
  ASSUME IInv, HostDone
  PROVE  IInv'
<1>1. /\ HostReads(Zero) /\ IsBody(hostRx) /\ IsIdle(hostRx)
      /\ hostRx.sid = sid /\ hostRx.seq = seq
      /\ heard' = heard \cup {hostRx}
      /\ phase' = "ready" /\ seq' = AfterSeq(seq)
      /\ hostIn' = FALSE /\ hostRx' = Empty
      /\ UNCHANGED <<tries, sid, ref>>
  BY DEF HostDone, HostFrame, Ends, ForUs, IsIdle
<1>2. /\ toHost' \in Seq(HostToken) /\ IdleLast(toHost') /\ Range(toHost') \subseteq Range(toHost)
      /\ NoneOf(toHost', hostRx)
      /\ Waiting /\ UNCHANGED <<toDev, device, disturb, lose>>
  BY <1>1, HostReadsFacts
<1>3. UNCHANGED <<mode, line, inFrame, rx, bound, devSid, nextSeq, busy>>
  BY <1>2 DEF device
<1>4. TypeInv /\ ModeInv /\ OneInv /\ IdleInv /\ CountInv /\ CurrentInv /\ HostInv
  BY DEF IInv
<1>5. hostRx \in Report /\ hostRx \in HostBodies
  BY <1>1, LineFacts, TokenFacts DEF HostTypes, HostBodies
<1>6. DevBodies' = DevBodies
  BY <1>2, <1>3 DEF DevBodies
<1>7. \A y \in HostBodies' : y \in HostBodies /\ y.sid # sid
  BY <1>1, <1>2, TokenFacts DEF HostBodies, NoneOf
<1>8. \A y \in DevBodies : y.sid # sid
  BY <1>1, <1>4, <1>5 DEF IdleInv
<1>9. hostRx.ref = ref
  BY <1>1, <1>4, <1>5 DEF CurrentInv
<1>10. TypeInv'
  <2>1. LineTypes' /\ BoundTypes'
    BY <1>2, LineFacts DEF LineTypes, BoundTypes
  <2>2. DeviceTypes'
    BY <1>3, <1>4 DEF TypeInv, DeviceTypes
  <2>3. seq' \in 0 .. SeqMax
    BY <1>1, LineFacts, AfterSeqType DEF HostTypes
  <2>4. HostTypes'
    BY <1>1, <1>5, <2>3, LineFacts DEF HostTypes, Phases
  <2> QED
    BY <2>1, <2>2, <2>4 DEF TypeInv
<1>11. ModeInv' /\ OneInv'
  BY <1>2, <1>3, <1>4 DEF ModeInv, OneInv
<1>12. IdleInv'
  <2>1. ~IsIdle(hostRx')
    BY <1>1, TokenFacts DEF IsIdle
  <2>2. \A x \in HostBodies', y \in DevBodies' : IsIdle(x) => x.sid # y.sid
    BY <1>4, <1>6, <1>7 DEF IdleInv
  <2> QED
    BY <1>2, <2>1, <2>2 DEF IdleInv
<1>13. CountInv'
  BY <1>3, <1>4, <1>6, <1>7 DEF CountInv
<1>14. CurrentInv'
  BY <1>1, <1>6, <1>7, <1>8 DEF CurrentInv
<1>15. HostInv'
  <2>1. sid # 0
    BY <1>2, <1>4 DEF HostInv
  <2>2. bound /\ devSid = sid => nextSeq = AfterSeq(seq)
    BY <1>1, <1>4, <1>5 DEF CountInv
  <2>3. AnswersMatch'
    BY <1>1, <1>4, <1>9 DEF HostInv, AnswersMatch
  <2> QED
    BY <1>1, <1>3, <2>1, <2>2, <2>3 DEF HostInv
<1> QED
  BY <1>10, <1>11, <1>12, <1>13, <1>14, <1>15 DEF IInv

(* The line is closed.                                                     *)
LEMMA ClosedStep ==
  ASSUME IInv, Closed, UNCHANGED <<toDev, device>>, BoundTypes',
         toHost' \in Seq(HostToken), IdleLast(toHost'), Range(toHost') \subseteq Range(toHost)
  PROVE  IInv'
<1>1. /\ phase' = "closed" /\ tries' = 0 /\ sid' = 0 /\ seq' = 0 /\ ref' = 0
      /\ hostIn' = FALSE /\ hostRx' = Empty /\ heard' = {}
  BY DEF Closed
<1>2. HostTypes'
  <2>1. 0 \in 0 .. SeqMax /\ 0 \in 0 .. 3
    BY ControlLinkAssumption
  <2> QED
    BY <1>1, <2>1 DEF HostTypes, Phases
<1>3. HostInv'
  BY <1>1 DEF HostInv, Waiting, AnswersMatch
<1>4. ~IsBody(hostRx') /\ ~IsIdle(hostRx')
  BY <1>1, TokenFacts DEF IsIdle
<1>5. /\ toDev' \in Seq(DevToken) /\ OneEach(toDev')
      /\ \A y \in Range(toDev') : IsBody(y) => y \in Range(toDev)
  BY LineFacts
<1> QED
  BY <1>1, <1>2, <1>3, <1>4, <1>5, HostQuiet

LEMMA HostLastStep ==
  ASSUME IInv, HostLast
  PROVE  IInv'
<1>1. HostReads(Zero) /\ Closed
  BY DEF HostLast, HostFrame
<1>2. /\ toHost' \in Seq(HostToken) /\ IdleLast(toHost') /\ Range(toHost') \subseteq Range(toHost)
      /\ UNCHANGED <<toDev, device, disturb, lose>>
  BY <1>1, HostReadsFacts
<1>3. BoundTypes'
  BY <1>2, LineFacts DEF BoundTypes
<1> QED
  BY <1>1, <1>2, <1>3, ClosedStep

(* The host writes bytes and goes on as before.                            *)
LEMMA HostWriteStep ==
  ASSUME IInv, NEW a \in Seq(DevToken), \A y \in Range(a) : ~IsBody(y), toDev' = toDev \o a,
         tries' \in 0 .. 3, BoundTypes',
         UNCHANGED <<toHost, device, phase, sid, seq, ref, hostIn, hostRx, heard>>
  PROVE  IInv'
<1>1. /\ toDev' \in Seq(DevToken) /\ OneEach(toDev')
      /\ \A y \in Range(toDev') : IsBody(y) => y \in Range(toDev)
  BY WriteFacts
<1>2. HostTypes'
  BY LineFacts DEF HostTypes
<1>3. HostInv'
  BY DEF IInv, HostInv, Waiting, AnswersMatch, device
<1>4. /\ toHost' \in Seq(HostToken) /\ IdleLast(toHost') /\ Range(toHost') \subseteq Range(toHost)
      /\ IsIdle(hostRx') => NoneOf(toHost', hostRx')
  BY LineFacts
<1>5. IsBody(hostRx') => hostRx' \in HostBodies
  BY DEF HostBodies
<1>6. Waiting => Waiting'
  BY DEF Waiting
<1> QED
  BY <1>1, <1>2, <1>3, <1>4, <1>5, <1>6, HostQuiet

LEMMA RecoveryFacts ==
  ASSUME NEW n \in 1 .. 3
  PROVE  Recovery[n] \in Seq(DevToken) /\ \A y \in Range(Recovery[n]) : ~IsBody(y)
<1>1. CtrlC \in DevToken /\ Newline \in DevToken /\ ~IsBody(CtrlC) /\ ~IsBody(Newline)
  BY TokenFacts DEF DevToken
<1>2. /\ <<CtrlC>> \in Seq(DevToken) /\ Range(<<CtrlC>>) = {CtrlC}
      /\ <<Newline>> \in Seq(DevToken) /\ Range(<<Newline>>) = {Newline}
  BY <1>1, OneFacts
<1>3. <<CtrlC, Newline>> \in Seq(DevToken) /\ Range(<<CtrlC, Newline>>) = {CtrlC, Newline}
  BY <1>1, TwoFacts
<1>4. \/ Recovery[n] = <<CtrlC>> \/ Recovery[n] = <<Newline>> \/ Recovery[n] = <<CtrlC, Newline>>
  <2>1. n = 1 \/ n = 2 \/ n = 3
    OBVIOUS
  <2> QED
    BY <2>1 DEF Recovery
<1> QED
  BY <1>1, <1>2, <1>3, <1>4

LEMMA TimeoutStep ==
  ASSUME IInv, Timeout
  PROVE  IInv'
<1>1. BoundTypes'
  <2>1. lose' = lose /\ (disturb' = disturb \/ (disturb > 0 /\ disturb' = disturb - 1))
    BY DEF Timeout
  <2> QED
    BY <2>1, LineFacts, ControlLinkAssumption DEF BoundTypes
<1>2. CASE Recover
  <2>1. /\ tries < 3 /\ toDev' = toDev \o Recovery[tries + 1] /\ tries' = tries + 1
        /\ UNCHANGED <<toHost, device, phase, sid, seq, ref, hostIn, hostRx, heard>>
    BY <1>2 DEF Recover, Write
  <2>2. tries + 1 \in 1 .. 3 /\ tries' \in 0 .. 3
    BY <2>1, LineFacts DEF HostTypes
  <2>3. /\ Recovery[tries + 1] \in Seq(DevToken)
        /\ \A y \in Range(Recovery[tries + 1]) : ~IsBody(y)
    BY <2>2, RecoveryFacts
  <2> QED
    BY <1>1, <2>1, <2>2, <2>3, HostWriteStep
<1>3. CASE Closed /\ UNCHANGED <<toDev, toHost, device>>
  <2>1. /\ toHost' \in Seq(HostToken) /\ IdleLast(toHost')
        /\ Range(toHost') \subseteq Range(toHost)
    BY <1>3, LineFacts
  <2> QED
    BY <1>1, <1>3, <2>1, ClosedStep
<1> QED
  BY <1>2, <1>3 DEF Timeout

LEMMA DisconnectStep ==
  ASSUME IInv, Disconnect
  PROVE  IInv'
<1>1. /\ disturb > 0 /\ disturb' = disturb - 1 /\ Closed
      /\ UNCHANGED <<toDev, toHost, device, lose>>
  BY DEF Disconnect
<1>2. BoundTypes'
  BY <1>1, LineFacts, ControlLinkAssumption DEF BoundTypes
<1>3. /\ toHost' \in Seq(HostToken) /\ IdleLast(toHost')
      /\ Range(toHost') \subseteq Range(toHost)
  BY <1>1, LineFacts
<1> QED
  BY <1>1, <1>2, <1>3, ClosedStep

LEMMA InterruptStep ==
  ASSUME IInv, Interrupt
  PROVE  IInv'
<1> DEFINE a == <<CtrlC>>
<1>1. /\ disturb > 0 /\ disturb' = disturb - 1 /\ toDev' = toDev \o a
      /\ UNCHANGED <<toHost, device, host, lose>>
  BY DEF Interrupt, Write
<1>2. a \in Seq(DevToken) /\ \A y \in Range(a) : ~IsBody(y)
  BY OneFacts, TokenFacts DEF DevToken
<1> HIDE DEF a
<1>3. BoundTypes'
  BY <1>1, LineFacts, ControlLinkAssumption DEF BoundTypes
<1>4. UNCHANGED <<phase, tries, sid, seq, ref, hostIn, hostRx, heard>>
  BY <1>1 DEF host
<1>5. tries' \in 0 .. 3
  BY <1>4, LineFacts DEF HostTypes
<1> QED
  BY <1>1, <1>2, <1>3, <1>4, <1>5, HostWriteStep

LEMMA LoseStep ==
  ASSUME IInv, Lose
  PROVE  IInv'
<1>1. lose > 0 /\ lose' = lose - 1 /\ UNCHANGED <<device, host, disturb>>
  BY DEF Lose
<1>2. UNCHANGED <<phase, tries, sid, seq, ref, hostIn, hostRx, heard>>
  BY <1>1 DEF host
<1>3. BoundTypes'
  BY <1>1, LineFacts, ControlLinkAssumption DEF BoundTypes
<1>4. HostTypes'
  BY <1>2, LineFacts DEF HostTypes
<1>5. HostInv'
  BY <1>1, <1>2 DEF IInv, HostInv, Waiting, AnswersMatch, device
<1>6. (IsBody(hostRx') => hostRx' \in HostBodies) /\ (Waiting => Waiting')
  BY <1>2 DEF HostBodies, Waiting
<1>7. toDev \in Seq(DevToken) /\ toHost \in Seq(HostToken)
  BY LineFacts
<1>8. /\ toDev' \in Seq(DevToken) /\ OneEach(toDev')
      /\ \A y \in Range(toDev') : IsBody(y) => y \in Range(toDev)
  <2>1. CASE UNCHANGED toDev
    BY <2>1, LineFacts
  <2>2. CASE \E i \in DOMAIN toDev : toDev' = RemoveAt(toDev, i)
    <3>1. PICK i \in 1 .. Len(toDev) : toDev' = RemoveAt(toDev, i)
      BY <1>7, <2>2, LenProperties
    <3>2. toDev' \in Seq(DevToken) /\ Thinner(toDev', toDev)
      BY <1>7, <3>1, RemoveAtThinner
    <3> QED
      BY <1>7, <3>2, LineFacts, ThinnerFacts
  <2> QED
    BY <2>1, <2>2 DEF Lose
<1>9. /\ toHost' \in Seq(HostToken) /\ IdleLast(toHost') /\ Range(toHost') \subseteq Range(toHost)
  <2>1. CASE UNCHANGED toHost
    BY <2>1, LineFacts
  <2>2. CASE \E i \in DOMAIN toHost : toHost' = RemoveAt(toHost, i)
    <3>1. PICK i \in 1 .. Len(toHost) : toHost' = RemoveAt(toHost, i)
      BY <1>7, <2>2, LenProperties
    <3>2. toHost' \in Seq(HostToken) /\ Thinner(toHost', toHost)
      BY <1>7, <3>1, RemoveAtThinner
    <3> QED
      BY <1>7, <3>2, LineFacts, ThinnerFacts
  <2> QED
    BY <2>1, <2>2 DEF Lose
<1>10. IsIdle(hostRx') => NoneOf(toHost', hostRx')
  BY <1>2, <1>9, LineFacts DEF NoneOf
<1> QED
  BY <1>1, <1>2, <1>3, <1>4, <1>5, <1>6, <1>8, <1>9, <1>10, HostQuiet

----------------------------------------------------------------------------
(* The invariant, and what it gives.                                       *)

LEMMA InitStep ==
  ASSUME Init
  PROVE  IInv
<1>1. /\ toDev = <<>> /\ toHost = <<Prompt>>
      /\ mode = "shell" /\ line = "empty" /\ inFrame = FALSE /\ rx = Empty
      /\ bound = FALSE /\ devSid = 0 /\ nextSeq = 0 /\ busy = NotBusy
      /\ phase = "closed" /\ tries = 0 /\ sid = 0 /\ seq = 0 /\ ref = 0
      /\ hostIn = FALSE /\ hostRx = Empty /\ heard = {}
      /\ disturb = Disturbances /\ lose = Losses
  BY DEF Init
<1>2. Prompt \in HostToken
  BY DEF HostToken
<1>3. /\ <<Prompt>> \in Seq(HostToken) /\ Range(<<Prompt>>) = {Prompt} /\ IdleLast(<<Prompt>>)
  BY <1>2, OneFacts
<1>4. <<>> \in Seq(DevToken) /\ Range(<<>>) = {} /\ OneEach(<<>>)
  BY NothingFacts
<1>5. /\ toDev \in Seq(DevToken) /\ Range(toDev) = {} /\ OneEach(toDev)
  BY <1>1, <1>4
<1>6. /\ toHost \in Seq(HostToken) /\ Range(toHost) = {Prompt} /\ IdleLast(toHost)
  BY <1>1, <1>3
<1>7. DevBodies = {} /\ HostBodies = {}
  BY <1>1, <1>5, <1>6, TokenFacts DEF DevBodies, HostBodies
<1>8. 0 \in 0 .. SeqMax /\ 0 \in 0 .. 3 /\ 0 \in Nat
  BY ControlLinkAssumption
<1>9. TypeInv
  <2>1. DeviceTypes
    BY <1>1, <1>8 DEF DeviceTypes, LineStates
  <2>2. HostTypes
    BY <1>1, <1>8 DEF HostTypes, Phases
  <2>3. BoundTypes
    BY <1>1, ControlLinkAssumption DEF BoundTypes
  <2> QED
    BY <1>5, <1>6, <2>1, <2>2, <2>3 DEF TypeInv, LineTypes
<1>10. ModeInv /\ OneInv
  BY <1>1, <1>5, TokenFacts DEF ModeInv, OneInv, NoneOf
<1>11. IdleInv
  BY <1>1, <1>6, <1>7, TokenFacts DEF IdleInv, IsIdle
<1>12. CountInv /\ CurrentInv
  BY <1>1, <1>7 DEF CountInv, CurrentInv
<1>13. HostInv
  BY <1>1 DEF HostInv, Waiting, AnswersMatch
<1> QED
  BY <1>9, <1>10, <1>11, <1>12, <1>13 DEF IInv

LEMMA StutterStep ==
  ASSUME IInv, UNCHANGED vars
  PROVE  IInv'
<1>1. UNCHANGED <<toDev, toHost, mode, line, inFrame, rx, bound, devSid, nextSeq, busy,
                  phase, tries, sid, seq, ref, hostIn, hostRx, heard, disturb, lose>>
  BY DEF vars, device, host
<1>2. TypeInv' /\ ModeInv' /\ OneInv'
  BY <1>1 DEF IInv, TypeInv, LineTypes, DeviceTypes, HostTypes, BoundTypes, ModeInv, OneInv
<1>3. DevBodies' = DevBodies /\ HostBodies' = HostBodies /\ (Waiting' <=> Waiting)
  BY <1>1 DEF DevBodies, HostBodies, Waiting
<1>4. IdleInv' /\ CountInv' /\ CurrentInv'
  BY <1>1, <1>3 DEF IInv, IdleInv, CountInv, CurrentInv
<1>5. HostInv'
  BY <1>1, <1>3 DEF IInv, HostInv, AnswersMatch
<1> QED
  BY <1>2, <1>4, <1>5 DEF IInv

LEMMA NextStep ==
  ASSUME IInv, [Next]_vars
  PROVE  IInv'
<1>1. CASE DeviceReads
  <2>1. CASE ShellInterrupt \/ ShellLine \/ EnterControl \/ ShellBytes
    BY <2>1, ShellInterruptStep, ShellLineStep, EnterControlStep, ShellBytesStep
  <2>1a. CASE ShellLineRuns \/ ShellBytesRun \/ InterruptProgram
    BY <2>1a, ShellLineRunsStep, ShellBytesRunStep, InterruptProgramStep
  <2>2. CASE ControlInterrupt \/ SkipByte \/ StartFrame \/ PushByte \/ BadFrame
    BY <2>2, ControlInterruptStep, SkipByteStep, StartFrameStep, PushByteStep, BadFrameStep
  <2>3. CASE Ignore \/ Hello \/ RunRequest \/ DetachRequest \/ InterruptRequest
    BY <2>3, IgnoreStep, HelloStep, RunRequestStep, DetachRequestStep, InterruptRequestStep
  <2> QED
    BY <1>1, <2>1, <2>1a, <2>2, <2>3 DEF DeviceReads
<1>2. CASE FinishRequest \/ FinishProgram
  BY <1>2, FinishRequestStep, FinishProgramStep
<1>3. CASE OpenSerial \/ GetPrompt \/ SendHello \/ SendRequest \/ SendDetach
  BY <1>3, OpenSerialStep, GetPromptStep, SendHelloStep, SendRequestStep, SendDetachStep
<1>4. CASE HostTakes
  BY <1>4, HostStartStep, HostByteStep, HostEventStep, HostDoneStep, HostLastStep DEF HostTakes
<1>5. CASE Timeout \/ Disconnect \/ Interrupt \/ Lose
  BY <1>5, TimeoutStep, DisconnectStep, InterruptStep, LoseStep
<1>6. CASE UNCHANGED vars
  BY <1>6, StutterStep
<1> QED
  BY <1>1, <1>2, <1>3, <1>4, <1>5, <1>6 DEF Next

LEMMA Invariance == Spec => []IInv
<1>1. Init => IInv
  BY InitStep
<1>2. IInv /\ [Next]_vars => IInv'
  BY NextStep
<1> QED
  BY <1>1, <1>2, PTL DEF Spec

(* runRequest compares the session and the sequence number of an event and *)
(* nothing else.  That is enough: whatever it takes for an answer was sent *)
(* for the request it is waiting for, although numbers are used again and  *)
(* the line may lose anything.                                             *)
THEOREM AnswersAreOwn == Spec => []AnswersMatch
<1>1. IInv => AnswersMatch
  BY DEF IInv, HostInv
<1> QED
  BY <1>1, Invariance, PTL

(* The device counts a request when it has answered it, the host when it   *)
(* has read IDLE: "unexpected sequence" is never printed for this host,    *)
(* and both agree on the next number between requests.                     *)
THEOREM CountersAgree == Spec => []InStep
<1>1. ASSUME IInv PROVE InStep
  <2>1. LineTypes /\ DeviceTypes /\ HostTypes /\ BoundTypes
    BY <1>1 DEF IInv, TypeInv
  <2>2. \A x \in Range(toDev) : x \in DevToken
    BY <2>1 DEF LineTypes, Range
  <2>3. \A x \in Range(toHost) : x \in HostToken
    BY <2>1 DEF LineTypes, Range
  <2>4. /\ \A x \in Range(toDev) :
             x \in {Zero, CtrlC, Newline, Enter} \/ IsBody(x) \/ IsRest(x)
        /\ \A x \in Range(toHost) : x \in {Zero, Prompt, Ready, Garbage} \/ IsBody(x)
    BY <2>2, <2>3, RequestIsReport DEF DevToken, HostToken, RestToken, IsRest
  <2>5. /\ rx \in {Empty, Garbage} \/ IsBody(rx)
        /\ busy \in {NotBusy, Program} \/ IsBody(busy)
        /\ hostRx \in {Empty, Garbage} \/ IsBody(hostRx)
        /\ \A b \in heard : IsBody(b)
    BY <2>1, RequestIsReport DEF DeviceTypes, HostTypes
  <2>6. TypeOK
    BY <1>1, <2>1, <2>4, <2>5
       DEF TypeOK, DeviceTypes, LineStates, HostTypes, BoundTypes, IInv, ModeInv
  <2>7. IsBody(rx) /\ bound /\ rx.sid = devSid => rx.seq = nextSeq
    BY <1>1 DEF IInv, CountInv, DevBodies
  <2>8. phase = "ready" /\ bound /\ devSid = sid => nextSeq = seq
    BY <1>1 DEF IInv, HostInv
  <2> QED
    BY <2>6, <2>7, <2>8 DEF InStep
<1> QED
  BY <1>1, Invariance, PTL
=============================================================================
