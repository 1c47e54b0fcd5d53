------------------------ MODULE PayloadArenaProofs --------------------------
(***************************************************************************)
(* Proofs about PayloadArena, for every object capacity, payload capacity  *)
(* and set of request lengths.                                             *)
(*                                                                         *)
(* That the free list never outgrows its array is a counting argument.     *)
(* When no span is being returned, every free span is directly followed by *)
(* an object's span (the list is coalesced, its last span does not reach   *)
(* the extent, and no unit is lost), and one object id is not behind a     *)
(* free span: either it owns nothing, or it got its span last, and spans   *)
(* are taken from the front of a free span that no free span touches.  So  *)
(* the free spans map one-to-one into a proper subset of the object ids,   *)
(* and one entry is always left for the insertion.                         *)
(***************************************************************************)
EXTENDS PayloadArena, FunctionTheorems, FiniteSetTheorems,
        SequenceTheorems, TLAPS

\* No span ends before offset x, except for spans that do not touch it.
NoFreeBefore(x) ==
  /\ \A k \in 1 .. Len(spans) : End(spans[k]) # x
  /\ held.length > 0 => End(held) # x

\* Free spans and owned spans are not empty and lie below the extent; only
\* live objects own a span.
Bounds ==
  /\ \A k \in 1 .. Len(spans) : spans[k].length > 0 /\ End(spans[k]) <= extent
  /\ \A o \in Owners : End(payload[o]) <= extent /\ o \in live
  /\ held.length > 0 => End(held) <= extent

\* A caller holds a span only while it appends the object or returns the span.
HeldWhen ==
  /\ pc = "insert" => held.length > 0
  /\ pc \in {"idle", "coalesce", "trim"} => held.length = 0

\* The entries before position n do not touch one another.
ApartBelow(n) ==
  \A j, k \in 1 .. Len(spans) : j < k /\ k < n => End(spans[j]) < spans[k].offset

\* What the coalescing and trimming loops have established so far.
Separation ==
  /\ pc = "coalesce" => i >= 2 /\ ApartBelow(i)
  /\ pc \in {"idle", "append", "trim"} => ApartBelow(Len(spans) + 1)
  /\ pc \in {"idle", "append"} => \A k \in 1 .. Len(spans) : End(spans[k]) < extent

\* Some object id is not directly behind a free span.
Anchor ==
  \E o \in ObjectIds : payload[o].length = 0 \/ NoFreeBefore(payload[o].offset)

\* A span just taken is not directly behind a free span.
HeldAnchor ==
  pc = "append" /\ held.length > 0 =>
    \A k \in 1 .. Len(spans) : End(spans[k]) # held.offset

\* There is room for one more entry whenever an insertion may come next.
Room ==
  /\ Len(spans) <= ObjectCapacity
  /\ pc \in {"idle", "append", "insert"} => Len(spans) < ObjectCapacity

\* The inductive invariant.
IInv ==
  /\ TypeOK
  /\ Bounds
  /\ HeldWhen
  /\ NoOverlap
  /\ NoLeak
  /\ Separation
  /\ Anchor
  /\ HeldAnchor
  /\ Room

-----------------------------------------------------------------------------
(* The two array moves. *)

\* What the memmove that opens a gap at position k, and the write into it, leave.
LEMMA InsertAtEntries ==
  ASSUME NEW s \in Seq(Span), NEW k \in 1 .. Len(s) + 1, NEW e \in Span
  PROVE  /\ InsertAt(s, k, e) \in Seq(Span)
         /\ Len(InsertAt(s, k, e)) = Len(s) + 1
         /\ \A m \in 1 .. Len(s) + 1 :
              InsertAt(s, k, e)[m] = IF m < k THEN s[m] ELSE IF m = k THEN e ELSE s[m - 1]
<1> DEFINE front == SubSeq(s, 1, k - 1)
           back == SubSeq(s, k, Len(s))
<1>0. \A m \in 1 .. Len(s) : s[m] \in Span
  OBVIOUS
<1>1. front \in Seq(Span) /\ Len(front) = k - 1 /\ \A m \in 1 .. k - 1 : front[m] = s[m]
  BY <1>0, SubSeqProperties
<1>2. /\ back \in Seq(Span) /\ Len(back) = Len(s) - k + 1
      /\ \A m \in 1 .. Len(s) - k + 1 : back[m] = s[k + m - 1]
  BY <1>0, SubSeqProperties
<1>3. <<e>> \in Seq(Span) /\ Len(<<e>>) = 1 /\ <<e>>[1] = e
  OBVIOUS
<1> HIDE DEF front, back
<1>4. /\ front \o <<e>> \in Seq(Span) /\ Len(front \o <<e>>) = k
      /\ \A m \in 1 .. k : (front \o <<e>>)[m] = IF m < k THEN s[m] ELSE e
  BY <1>1, <1>3, ConcatProperties
<1> DEFINE head == front \o <<e>>
<1> HIDE DEF head
<1>5. head \in Seq(Span) /\ Len(head) = k
  BY <1>4 DEF head
<1>6. /\ head \o back \in Seq(Span) /\ Len(head \o back) = Len(s) + 1
      /\ \A m \in 1 .. Len(s) + 1 :
           (head \o back)[m] = IF m <= k THEN head[m] ELSE back[m - k]
  <2>1. /\ head \o back \in Seq(Span)
        /\ Len(head \o back) = Len(head) + Len(back)
        /\ \A m \in 1 .. Len(head) + Len(back) :
             (head \o back)[m] = IF m <= Len(head) THEN head[m] ELSE back[m - Len(head)]
    BY <1>2, <1>5, ConcatProperties
  <2>2. Len(head) = k /\ Len(head) + Len(back) = Len(s) + 1
    BY <1>2, <1>5
  <2> QED
    BY <2>1, <2>2
<1>7. \A m \in 1 .. k : head[m] = IF m < k THEN s[m] ELSE e
  BY <1>4 DEF head
<1>8. InsertAt(s, k, e) = head \o back
  BY DEF InsertAt, head, front, back
<1>9. ASSUME NEW m \in 1 .. Len(s) + 1
      PROVE  (head \o back)[m] = IF m < k THEN s[m] ELSE IF m = k THEN e ELSE s[m - 1]
  <2>0. m <= k \/ m > k
    OBVIOUS
  <2>1. CASE m <= k
    BY <1>6, <1>7, <2>1
  <2>2. CASE m > k
    <3>1. m - k \in 1 .. Len(s) - k + 1 /\ k + (m - k) - 1 = m - 1
      BY <2>2
    <3> QED
      BY <1>2, <1>6, <2>2, <3>1
  <2> QED
    BY <2>0, <2>1, <2>2, Zenon
<1> QED
  BY <1>6, <1>8, <1>9

\* What the memmove that closes the gap at position k leaves.
LEMMA RemoveAtEntries ==
  ASSUME NEW s \in Seq(Span), NEW k \in 1 .. Len(s)
  PROVE  /\ RemoveAt(s, k) \in Seq(Span)
         /\ Len(RemoveAt(s, k)) = Len(s) - 1
         /\ \A m \in 1 .. Len(s) - 1 :
              RemoveAt(s, k)[m] = IF m < k THEN s[m] ELSE s[m + 1]
<1> DEFINE front == SubSeq(s, 1, k - 1)
           back == SubSeq(s, k + 1, Len(s))
<1>0. \A m \in 1 .. Len(s) : s[m] \in Span
  OBVIOUS
<1>1. front \in Seq(Span) /\ Len(front) = k - 1 /\ \A m \in 1 .. k - 1 : front[m] = s[m]
  BY <1>0, SubSeqProperties
<1>2. /\ back \in Seq(Span) /\ Len(back) = Len(s) - k
      /\ \A m \in 1 .. Len(s) - k : back[m] = s[k + m]
  BY <1>0, SubSeqProperties
<1>3. RemoveAt(s, k) = front \o back
  BY DEF RemoveAt
<1> HIDE DEF front, back
<1>4. /\ front \o back \in Seq(Span) /\ Len(front \o back) = Len(s) - 1
      /\ \A m \in 1 .. Len(s) - 1 :
           (front \o back)[m] = IF m <= k - 1 THEN front[m] ELSE back[m - (k - 1)]
  <2>1. /\ front \o back \in Seq(Span)
        /\ Len(front \o back) = Len(front) + Len(back)
        /\ \A m \in 1 .. Len(front) + Len(back) :
             (front \o back)[m] = IF m <= Len(front) THEN front[m] ELSE back[m - Len(front)]
    BY <1>1, <1>2, ConcatProperties
  <2>2. Len(front) = k - 1 /\ Len(front) + Len(back) = Len(s) - 1
    BY <1>1, <1>2
  <2> QED
    BY <2>1, <2>2
<1> QED
  BY <1>1, <1>2, <1>3, <1>4

-----------------------------------------------------------------------------
(* The initial state and the allocation steps. *)

LEMMA InitIInv == Init => IInv
<1> SUFFICES ASSUME Init PROVE IInv
  OBVIOUS
<1>1. Len(spans) = 0 /\ Owners = {} /\ held.length = 0 /\ pc = "idle" /\ 0 \in ObjectIds
  BY ObjectCapacityAssumption DEF Init, Owners, NoSpan, ObjectIds
<1>2. TypeOK
  BY ObjectCapacityAssumption, PayloadCapacityAssumption
  DEF Init, TypeOK, Span, NoSpan, ObjectIds
<1>3. Bounds /\ HeldWhen /\ NoOverlap /\ Separation /\ HeldAnchor
  BY <1>1 DEF Bounds, HeldWhen, NoOverlap, Separation, ApartBelow, HeldAnchor
<1>4. NoLeak
  BY DEF Init, NoLeak
<1>5. Anchor
  BY <1>1 DEF Init, Anchor, NoSpan
<1>6. Room
  BY <1>1, ObjectCapacityAssumption DEF Room
<1> QED
  BY <1>2, <1>3, <1>4, <1>5, <1>6 DEF IInv

\* The entries of the free list and the owned spans are pairs of naturals.
LEMMA SpanFields ==
  ASSUME TypeOK
  PROVE  /\ Len(spans) \in Nat
         /\ \A k \in 1 .. Len(spans) :
              spans[k] \in Span /\ spans[k].offset \in Nat /\ spans[k].length \in Nat
         /\ \A o \in ObjectIds : payload[o].offset \in Nat /\ payload[o].length \in Nat
         /\ held.offset \in Nat /\ held.length \in Nat
         /\ extent \in Nat
<1>1. \A x \in Span : x.offset \in Nat /\ x.length \in Nat
  BY DEF Span
<1>2. Len(spans) \in Nat /\ \A k \in 1 .. Len(spans) : spans[k] \in Span
  BY DEF TypeOK
<1>3. (\A o \in ObjectIds : payload[o] \in Span) /\ held \in Span
  BY DEF TypeOK
<1>4. extent \in Nat
  BY PayloadCapacityAssumption DEF TypeOK
<1> QED
  BY <1>1, <1>2, <1>3, <1>4

\* Positions before and after the removal of entry k.
Before(k, m) == IF m < k THEN m ELSE m + 1
After(k, n) == IF n < k THEN n ELSE n - 1

\* t is s without entry k: the other entries are there, in the same order.
IsRemoval(s, k, t) ==
  /\ t \in Seq(Span)
  /\ Len(t) = Len(s) - 1
  /\ \A m \in 1 .. Len(t) : /\ Before(k, m) \in 1 .. Len(s)
                            /\ Before(k, m) # k
                            /\ t[m] = s[Before(k, m)]
  /\ \A m, n \in 1 .. Len(t) : m < n => Before(k, m) < Before(k, n)
  /\ \A n \in 1 .. Len(s) : n # k => /\ After(k, n) \in 1 .. Len(t)
                                     /\ t[After(k, n)] = s[n]

LEMMA RemovalKeepsOrder ==
  ASSUME NEW s \in Seq(Span), NEW k \in 1 .. Len(s)
  PROVE  IsRemoval(s, k, RemoveAt(s, k))
<1> DEFINE t == RemoveAt(s, k)
<1>0. Len(s) \in Nat /\ k \in Int
  OBVIOUS
<1>1. /\ t \in Seq(Span) /\ Len(t) = Len(s) - 1 /\ Len(s) \in Nat /\ k \in Int
      /\ \A m \in 1 .. Len(s) - 1 : t[m] = IF m < k THEN s[m] ELSE s[m + 1]
  BY <1>0, RemoveAtEntries, Zenon
<1> HIDE DEF t
<1>2. \A m \in 1 .. Len(t) : /\ Before(k, m) \in 1 .. Len(s)
                             /\ Before(k, m) # k
                             /\ t[m] = s[Before(k, m)]
  BY <1>1 DEF Before
<1>3. \A m, n \in 1 .. Len(t) : m < n => Before(k, m) < Before(k, n)
  BY <1>1 DEF Before
<1>4. ASSUME NEW n \in 1 .. Len(s), n # k
      PROVE  After(k, n) \in 1 .. Len(t) /\ t[After(k, n)] = s[n]
  <2>1. CASE n < k
    BY <1>1, <2>1 DEF After
  <2>2. CASE n > k
    <3>1. After(k, n) = n - 1 /\ n - 1 \in 1 .. Len(t) /\ ~(n - 1 < k) /\ (n - 1) + 1 = n
      BY <1>1, <2>2 DEF After
    <3> QED
      BY <1>1, <3>1
  <2> QED
    BY <1>1, <1>4, <2>1, <2>2
<1>5. IsRemoval(s, k, t)
  BY <1>1, <1>2, <1>3, <1>4 DEF IsRemoval
<1> QED
  BY <1>5 DEF t

\* Taking the reserved units from the front of free span k keeps the invariant:
\* the span in the caller's hands is disjoint from everything else and no free
\* span ends where it begins.
LEMMA TakeFreeSpanStep ==
  ASSUME IInv, NEW reserved \in Nat, reserved > 0, pc = "idle", pc' = "append",
         TakeFreeSpan(reserved),
         UNCHANGED <<extent, payload, live, objectCount, i>>, used' \in Int
  PROVE  IInv'
<1>0. TypeOK /\ Bounds /\ HeldWhen /\ NoOverlap /\ NoLeak /\ Separation /\ Anchor /\ Room
  BY DEF IInv
<1>00. /\ Len(spans) \in Nat /\ extent \in Nat
       /\ \A n \in 1 .. Len(spans) :
            /\ spans[n].offset \in Nat /\ spans[n].length \in Nat /\ End(spans[n]) \in Nat
            /\ spans[n].offset < End(spans[n])
       /\ \A o \in ObjectIds :
            payload[o].offset \in Nat /\ payload[o].length \in Nat /\ End(payload[o]) \in Nat
  BY <1>0, SpanFields DEF End, Bounds
<1>1. PICK k \in 1 .. Len(spans) :
        /\ FirstFit(reserved, k)
        /\ held' = [offset |-> spans[k].offset, length |-> reserved]
        /\ spans' = IF spans[k].length = reserved
                    THEN RemoveAt(spans, k)
                    ELSE [spans EXCEPT ![k] = [offset |-> spans[k].offset + reserved,
                                               length |-> spans[k].length - reserved]]
  BY DEF TakeFreeSpan
<1> DEFINE whole == spans[k].length = reserved
           old(m) == IF whole THEN Before(k, m) ELSE m
           new(n) == IF whole THEN After(k, n) ELSE n
<1>2. spans[k].length >= reserved
  BY <1>1 DEF FirstFit
<1>3. /\ held' \in Span /\ held'.offset = spans[k].offset /\ held'.length = reserved
      /\ held'.offset \in Nat
  BY <1>0, <1>1, SpanFields DEF Span
<1>03. End(held') \in Nat /\ End(held') <= End(spans[k])
  BY <1>00, <1>2, <1>3 DEF End
\* Every new entry is an old one, or the remainder of entry k, in the same order.
<1>4. /\ spans' \in Seq(Span) /\ Len(spans') \in Nat /\ Len(spans') <= Len(spans)
      /\ \A m \in 1 .. Len(spans') :
           /\ old(m) \in 1 .. Len(spans)
           /\ spans'[m].offset \in Nat /\ spans'[m].length \in Nat /\ spans'[m].length > 0
           /\ End(spans'[m]) = End(spans[old(m)])
           /\ spans'[m].offset >= spans[old(m)].offset
           /\ old(m) = k => spans'[m].offset = spans[k].offset + reserved
      /\ \A m, n \in 1 .. Len(spans') : m < n => old(m) < old(n)
      /\ \A n \in 1 .. Len(spans) : n # k =>
           new(n) \in 1 .. Len(spans') /\ spans'[new(n)] = spans[n]
      /\ ~whole => k \in 1 .. Len(spans')
  <2>1. CASE whole
    <3>1. IsRemoval(spans, k, spans')
      BY <1>0, <1>1, <2>1, RemovalKeepsOrder DEF TypeOK
    <3>2. \A m : old(m) = Before(k, m) /\ new(m) = After(k, m)
      BY <2>1
    <3> HIDE DEF old, new
    <3>3. spans' \in Seq(Span) /\ Len(spans') = Len(spans) - 1
      BY <3>1 DEF IsRemoval
    <3>4. \A m \in 1 .. Len(spans') :
            old(m) \in 1 .. Len(spans) /\ old(m) # k /\ spans'[m] = spans[old(m)]
      BY <3>1, <3>2 DEF IsRemoval
    <3>5. \A m, n \in 1 .. Len(spans') : m < n => old(m) < old(n)
      BY <3>1, <3>2 DEF IsRemoval
    <3>6. \A n \in 1 .. Len(spans) : n # k =>
            new(n) \in 1 .. Len(spans') /\ spans'[new(n)] = spans[n]
      BY <3>1, <3>2 DEF IsRemoval
    <3>7. ASSUME NEW m \in 1 .. Len(spans')
          PROVE  /\ spans'[m].offset \in Nat /\ spans'[m].length \in Nat
                 /\ spans'[m].length > 0
                 /\ End(spans'[m]) = End(spans[old(m)])
                 /\ spans'[m].offset >= spans[old(m)].offset
      BY <1>0, <1>00, <3>4 DEF Bounds
    <3> QED
      BY <1>00, <2>1, <3>3, <3>4, <3>5, <3>6, <3>7
  <2>2. CASE ~whole
    <3>1. [offset |-> spans[k].offset + reserved, length |-> spans[k].length - reserved] \in Span
      BY <1>0, <1>2, SpanFields DEF Span
    <3>2. /\ spans' \in Seq(Span) /\ Len(spans') = Len(spans)
          /\ \A m \in 1 .. Len(spans) : m # k => spans'[m] = spans[m]
          /\ spans'[k].offset = spans[k].offset + reserved
          /\ spans'[k].length = spans[k].length - reserved
      BY <1>0, <1>1, <2>2, <3>1 DEF TypeOK
    <3>3. \A m : old(m) = m /\ new(m) = m
      BY <2>2
    <3>4. \A m \in 1 .. Len(spans) :
           /\ spans'[m].offset \in Nat /\ spans'[m].length \in Nat /\ spans'[m].length > 0
           /\ End(spans'[m]) = End(spans[m])
           /\ spans'[m].offset >= spans[m].offset
      <4> SUFFICES ASSUME NEW m \in 1 .. Len(spans)
                   PROVE  /\ spans'[m].offset \in Nat /\ spans'[m].length \in Nat
                          /\ spans'[m].length > 0
                          /\ End(spans'[m]) = End(spans[m])
                          /\ spans'[m].offset >= spans[m].offset
        OBVIOUS
      <4>1. CASE m = k
        <5>1. spans[k].length > reserved
          BY <1>00, <1>2, <2>2
        <5>2. spans[k].offset \in Nat /\ spans[k].length \in Nat
          BY <1>00
        <5>3. End(spans'[k]) = End(spans[k])
          BY <3>2, <5>2 DEF End
        <5> QED
          BY <3>2, <4>1, <5>1, <5>2, <5>3
      <4>2. CASE m # k
        <5>1. spans[m].length > 0
          BY <1>0 DEF Bounds
        <5> QED
          BY <1>00, <3>2, <4>2, <5>1
      <4> QED
        BY <4>1, <4>2
    <3> QED
      BY <1>0, <3>2, <3>3, <3>4, SpanFields
  <2> QED
    BY <2>1, <2>2
<1> HIDE DEF old
<1>5. Owners' = Owners
  BY DEF Owners
<1>6. TypeOK'
  BY <1>0, <1>3, <1>4 DEF TypeOK
<1>7. Bounds'
  <2>1. \A m \in 1 .. Len(spans') : spans'[m].length > 0 /\ End(spans'[m]) <= extent
    BY <1>0, <1>4 DEF Bounds
  <2>2. End(held') <= extent
    <3>1. End(spans[k]) <= extent
      BY <1>0 DEF Bounds
    <3> QED
      BY <1>00, <1>2, <1>3, <3>1 DEF End
  <2> QED
    BY <1>0, <1>5, <2>1, <2>2 DEF Bounds
<1>8. HeldWhen' /\ Room'
  <2>1. Len(spans) < ObjectCapacity
    BY <1>0 DEF Room
  <2> QED
    BY <1>00, <1>4, <2>1, ObjectCapacityAssumption DEF HeldWhen, Room
<1>9. NoOverlap'
  <2>1. ASSUME NEW m \in 1 .. Len(spans'), NEW n \in 1 .. Len(spans'), m < n
        PROVE  End(spans'[m]) <= spans'[n].offset
    <3>1. /\ old(m) \in 1 .. Len(spans) /\ old(n) \in 1 .. Len(spans) /\ old(m) < old(n)
          /\ End(spans'[m]) = End(spans[old(m)]) /\ spans'[n].offset >= spans[old(n)].offset
          /\ spans'[n].offset \in Nat
      BY <1>4, <2>1
    <3>2. End(spans[old(m)]) <= spans[old(n)].offset
      BY <1>0, <3>1 DEF NoOverlap
    <3>3. End(spans[old(m)]) \in Nat /\ spans[old(n)].offset \in Nat
      BY <1>00, <3>1
    <3> HIDE DEF old
    <3> QED
      BY <3>1, <3>2, <3>3
  <2>2. ASSUME NEW o \in Owners, NEW m \in 1 .. Len(spans')
        PROVE  Disjoint(payload[o], spans'[m])
    <3>1. Disjoint(payload[o], spans[old(m)]) /\ o \in ObjectIds
      BY <1>0, <1>4 DEF NoOverlap, Owners
    <3>2. /\ old(m) \in 1 .. Len(spans) /\ End(spans'[m]) = End(spans[old(m)])
          /\ spans'[m].offset >= spans[old(m)].offset /\ spans'[m].offset \in Nat
      BY <1>4
    <3> QED
      BY <1>00, <3>1, <3>2 DEF Disjoint
  <2>3. ASSUME NEW o \in Owners
        PROVE  Disjoint(held', payload[o])
    <3>1. Disjoint(payload[o], spans[k]) /\ o \in ObjectIds
      BY <1>0 DEF NoOverlap, Owners
    <3> QED
      BY <1>00, <1>03, <1>3, <3>1 DEF Disjoint
  <2>4. ASSUME NEW m \in 1 .. Len(spans')
        PROVE  Disjoint(held', spans'[m])
    <3>1. /\ old(m) \in 1 .. Len(spans) /\ End(spans'[m]) = End(spans[old(m)])
          /\ spans'[m].offset >= spans[old(m)].offset /\ spans'[m].offset \in Nat
          /\ old(m) = k => spans'[m].offset = spans[k].offset + reserved
      BY <1>4
    <3>2. CASE old(m) < k
      <4>1. End(spans[old(m)]) <= spans[k].offset
        BY <1>0, <3>1, <3>2 DEF NoOverlap
      <4> QED
        BY <1>00, <1>3, <3>1, <4>1 DEF Disjoint
    <3>3. CASE old(m) = k
      <4>1. End(held') = spans'[m].offset
        BY <1>3, <3>1, <3>3 DEF End
      <4> QED
        BY <3>1, <4>1 DEF Disjoint
    <3>4. CASE old(m) > k
      <4>1. End(spans[k]) <= spans[old(m)].offset
        BY <1>0, <3>1, <3>4 DEF NoOverlap
      <4>2. End(held') <= End(spans[k])
        BY <1>00, <1>2, <1>3 DEF End
      <4>3. End(held') \in Nat
        BY <1>3 DEF End
      <4> QED
        BY <1>00, <3>1, <4>1, <4>2, <4>3 DEF Disjoint
    <3> QED
      BY <3>1, <3>2, <3>3, <3>4
  <2> QED
    BY <1>0, <1>5, <2>1, <2>2, <2>3, <2>4 DEF NoOverlap
<1>10. NoLeak'
  <2> SUFFICES ASSUME NEW u \in 0 .. extent - 1
               PROVE  \/ \E m \in 1 .. Len(spans') : Within(u, spans'[m])
                      \/ \E o \in Owners : Within(u, payload[o])
                      \/ Within(u, held')
    BY <1>5 DEF NoLeak
  <2>1. ~Within(u, held)
    BY <1>0, SpanFields DEF HeldWhen, Within, End
  <2>2. CASE \E o \in Owners : Within(u, payload[o])
    BY <2>2
  <2>3. ASSUME NEW n \in 1 .. Len(spans), Within(u, spans[n]), n # k
        PROVE  \E m \in 1 .. Len(spans') : Within(u, spans'[m])
    BY <1>4, <2>3
  <2>4. CASE Within(u, spans[k]) /\ u < spans[k].offset + reserved
    BY <1>3, <2>4 DEF Within, End
  <2>5. CASE Within(u, spans[k]) /\ ~(u < spans[k].offset + reserved)
    <3>1. ~whole
      BY <1>0, <2>5, SpanFields DEF Within, End
    <3>2. k \in 1 .. Len(spans') /\ old(k) = k
      BY <1>4, <3>1 DEF old
    <3>3. Within(u, spans'[k])
      BY <1>0, <1>4, <2>5, <3>2, SpanFields DEF Within
    <3> QED
      BY <3>2, <3>3
  <2> QED
    BY <1>0, <2>1, <2>2, <2>3, <2>4, <2>5 DEF NoLeak
<1>11. Separation'
  <2>1. ASSUME NEW m \in 1 .. Len(spans'), NEW n \in 1 .. Len(spans'), m < n
        PROVE  End(spans'[m]) < spans'[n].offset
    <3>1. /\ old(m) \in 1 .. Len(spans) /\ old(n) \in 1 .. Len(spans) /\ old(m) < old(n)
          /\ End(spans'[m]) = End(spans[old(m)]) /\ spans'[n].offset >= spans[old(n)].offset
          /\ spans'[n].offset \in Nat
      BY <1>4, <2>1
    <3>2. End(spans[old(m)]) < spans[old(n)].offset
      <4>1. ApartBelow(Len(spans) + 1) /\ old(n) < Len(spans) + 1
        BY <1>0, <1>00, <3>1 DEF Separation
      <4> QED
        BY <3>1, <4>1 DEF ApartBelow
    <3>3. End(spans[old(m)]) \in Nat /\ spans[old(n)].offset \in Nat
      BY <1>00, <3>1
    <3> HIDE DEF old
    <3> QED
      BY <3>1, <3>2, <3>3
  <2>2. \A m \in 1 .. Len(spans') : End(spans'[m]) < extent
    BY <1>0, <1>4 DEF Separation
  <2> QED
    BY <2>1, <2>2 DEF Separation, ApartBelow
<1>12. Anchor'
  <2>1. PICK o \in ObjectIds : payload[o].length = 0 \/ NoFreeBefore(payload[o].offset)
    BY <1>0 DEF Anchor
  <2>2. ASSUME payload[o].length > 0, NoFreeBefore(payload[o].offset)
        PROVE  NoFreeBefore(payload[o].offset)'
    <3>1. \A m \in 1 .. Len(spans') : End(spans'[m]) # payload[o].offset
      BY <1>4, <2>2 DEF NoFreeBefore
    <3>2. End(held') # payload[o].offset
      <4>1. o \in Owners /\ Disjoint(payload[o], spans[k])
        BY <1>0, <2>2 DEF Owners, NoOverlap
      <4>2. End(spans[k]) # payload[o].offset
        BY <2>2 DEF NoFreeBefore
      <4> QED
        BY <1>0, <1>2, <1>3, <2>2, <4>1, <4>2, SpanFields DEF Disjoint, End
    <3> QED
      BY <3>1, <3>2 DEF NoFreeBefore
  <2> QED
    BY <1>0, <2>1, <2>2, SpanFields DEF Anchor
<1>13. HeldAnchor'
  <2> SUFFICES ASSUME NEW m \in 1 .. Len(spans') PROVE End(spans'[m]) # held'.offset
    BY DEF HeldAnchor
  <2>1. old(m) \in 1 .. Len(spans) /\ End(spans'[m]) = End(spans[old(m)])
    BY <1>4
  <2>2. CASE old(m) < k
    BY <1>0, <1>3, <2>1, <2>2, SpanFields DEF Separation, ApartBelow, End
  <2>3. CASE old(m) = k
    BY <1>0, <1>3, <2>1, <2>3, SpanFields DEF Bounds, End
  <2>4. CASE old(m) > k
    <3>1. End(spans[k]) <= spans[old(m)].offset /\ spans[old(m)].length > 0
      BY <1>0, <2>1, <2>4 DEF Bounds, NoOverlap
    <3> QED
      BY <1>00, <1>3, <2>1, <3>1
  <2> QED
    BY <2>1, <2>2, <2>3, <2>4
<1> QED
  BY <1>6, <1>7, <1>8, <1>9, <1>10, <1>11, <1>12, <1>13 DEF IInv

\* The numbers the steps below compute with.
LEMMA Fields ==
  ASSUME IInv
  PROVE  /\ Len(spans) \in Nat /\ extent \in Nat /\ ObjectCapacity \in Nat
         /\ \A n \in 1 .. Len(spans) :
              /\ spans[n].offset \in Nat /\ spans[n].length \in Nat /\ End(spans[n]) \in Nat
              /\ spans[n].offset < End(spans[n]) /\ End(spans[n]) <= extent
         /\ \A o \in ObjectIds :
              payload[o].offset \in Nat /\ payload[o].length \in Nat /\ End(payload[o]) \in Nat
         /\ \A o \in Owners :
              /\ o \in ObjectIds /\ payload[o].offset < End(payload[o])
              /\ End(payload[o]) <= extent
         /\ held.offset \in Nat /\ held.length \in Nat /\ End(held) \in Nat
         /\ held.length > 0 => held.offset < End(held) /\ End(held) <= extent
<1>1. TypeOK /\ Bounds
  BY DEF IInv
<1>2. \A n \in 1 .. Len(spans) :
              /\ spans[n].offset \in Nat /\ spans[n].length \in Nat /\ End(spans[n]) \in Nat
              /\ spans[n].offset < End(spans[n]) /\ End(spans[n]) <= extent
  BY <1>1, SpanFields DEF Bounds, End
<1>3. \A o \in ObjectIds :
              payload[o].offset \in Nat /\ payload[o].length \in Nat /\ End(payload[o]) \in Nat
  BY <1>1, SpanFields DEF End
<1>4. \A o \in Owners :
              /\ o \in ObjectIds /\ payload[o].offset < End(payload[o])
              /\ End(payload[o]) <= extent
  BY <1>1, SpanFields DEF Bounds, End, Owners
<1>5. /\ held.offset \in Nat /\ held.length \in Nat /\ End(held) \in Nat
      /\ held.length > 0 => held.offset < End(held) /\ End(held) <= extent
  BY <1>1, SpanFields DEF Bounds, End
<1> QED
  BY <1>1, <1>2, <1>3, <1>4, <1>5, SpanFields, ObjectCapacityAssumption

\* A span at the end of the used part lies behind every other span, and no free
\* span reaches it.
LEMMA ExtendArenaStep ==
  ASSUME IInv, NEW reserved \in Nat, reserved > 0, pc = "idle", pc' = "append",
         ExtendArena(reserved),
         UNCHANGED <<payload, live, objectCount, i>>, used' \in Int
  PROVE  IInv'
<1>0. TypeOK /\ Bounds /\ HeldWhen /\ NoOverlap /\ NoLeak /\ Separation /\ Anchor /\ Room
  BY DEF IInv
<1>1. /\ held' \in Span /\ held'.offset = extent /\ held'.length = reserved
      /\ extent' = extent + reserved /\ spans' = spans /\ payload' = payload
      /\ extent' \in 0 .. PayloadCapacity
  BY Fields, PayloadCapacityAssumption DEF ExtendArena, Span
<1>2. End(held') = extent' /\ extent < extent' /\ extent' \in Nat
  BY <1>1, Fields DEF End
<1>3. Owners' = Owners
  BY DEF Owners
<1>4. TypeOK'
  BY <1>0, <1>1 DEF TypeOK
<1>5. Bounds'
  <2>1. \A n \in 1 .. Len(spans) : spans[n].length > 0 /\ End(spans[n]) <= extent'
    BY <1>0, <1>1, <1>2, Fields DEF Bounds
  <2>2. \A o \in Owners : End(payload[o]) <= extent' /\ o \in live
    BY <1>0, <1>1, <1>2, Fields DEF Bounds
  <2> QED
    BY <1>1, <1>2, <1>3, <2>1, <2>2 DEF Bounds
<1>6. HeldWhen' /\ Room'
  BY <1>0, <1>1 DEF HeldWhen, Room
<1>7. NoOverlap'
  <2>1. \A o \in Owners : Disjoint(held', payload[o])
    BY <1>1, Fields DEF Disjoint
  <2>2. \A n \in 1 .. Len(spans) : Disjoint(held', spans[n])
    BY <1>1, Fields DEF Disjoint
  <2> QED
    BY <1>0, <1>1, <1>3, <2>1, <2>2 DEF NoOverlap
<1>8. NoLeak'
  <2> SUFFICES ASSUME NEW u \in 0 .. extent' - 1
               PROVE  \/ \E n \in 1 .. Len(spans) : Within(u, spans[n])
                      \/ \E o \in Owners : Within(u, payload[o])
                      \/ Within(u, held')
    BY <1>1, <1>3 DEF NoLeak
  <2>1. CASE u < extent
    <3>1. u \in 0 .. extent - 1 /\ ~Within(u, held)
      BY <1>0, <1>2, <2>1, Fields DEF HeldWhen, Within, End
    <3> QED
      BY <1>0, <3>1 DEF NoLeak
  <2>2. CASE ~(u < extent)
    <3>1. Within(u, held')
      BY <1>1, <1>2, <2>2, Fields DEF Within
    <3> QED
      BY <3>1
  <2> QED
    BY <2>1, <2>2
<1>9. Separation'
  <2>1. ApartBelow(Len(spans) + 1) /\ \A n \in 1 .. Len(spans) : End(spans[n]) < extent
    BY <1>0 DEF Separation
  <2>2. \A n \in 1 .. Len(spans) : End(spans[n]) < extent'
    BY <1>2, <2>1, Fields
  <2> QED
    BY <1>1, <2>1, <2>2 DEF Separation, ApartBelow
<1>10. Anchor'
  <2>1. PICK o \in ObjectIds : payload[o].length = 0 \/ NoFreeBefore(payload[o].offset)
    BY <1>0 DEF Anchor
  <2>2. ASSUME payload[o].length > 0, NoFreeBefore(payload[o].offset)
        PROVE  NoFreeBefore(payload[o].offset)'
    <3>1. End(held') # payload[o].offset
      <4>1. o \in Owners
        BY <2>2 DEF Owners
      <4> QED
        BY <1>2, <4>1, Fields
    <3> QED
      BY <1>1, <2>2, <3>1 DEF NoFreeBefore
  <2> QED
    BY <1>1, <2>1, <2>2, Fields DEF Anchor
<1>11. HeldAnchor'
  BY <1>0, <1>1, Fields DEF HeldAnchor, Separation
<1> QED
  BY <1>4, <1>5, <1>6, <1>7, <1>8, <1>9, <1>10, <1>11 DEF IInv

\* An object without payload leaves the arena alone.
LEMMA AllocNothingStep ==
  ASSUME IInv, pc = "idle", pc' = "append", held' = NoSpan,
         UNCHANGED <<spans, extent, payload, live, objectCount, i>>, used' \in Int
  PROVE  IInv'
<1>1. held' \in Span /\ held'.length = 0 /\ held.length = 0 /\ held' = NoSpan
  BY DEF IInv, HeldWhen, NoSpan, Span
<1>2. Owners' = Owners
  BY DEF Owners
<1>3. TypeOK' /\ Bounds' /\ HeldWhen' /\ NoOverlap' /\ HeldAnchor' /\ Room'
  BY <1>1, <1>2
  DEF IInv, TypeOK, Bounds, HeldWhen, NoOverlap, HeldAnchor, Room
<1>4. NoLeak'
  <2>1. \A u \in 0 .. extent - 1 : ~Within(u, held)
    BY <1>1, Fields DEF Within, End
  <2> QED
    BY <1>2, <2>1 DEF IInv, NoLeak
<1>5. Separation'
  BY DEF IInv, Separation, ApartBelow
<1>6. Anchor'
  BY <1>1 DEF IInv, Anchor, NoFreeBefore
<1> QED
  BY <1>3, <1>4, <1>5, <1>6 DEF IInv

LEMMA AllocPayloadStep ==
  ASSUME IInv, NEW reserved \in Requests, AllocPayload(reserved)
  PROVE  IInv'
<1>1. reserved \in Nat
  BY RequestsAssumption
<1>2. used' \in Int /\ pc = "idle" /\ pc' = "append"
      /\ UNCHANGED <<payload, live, objectCount, i>>
  BY <1>1 DEF AllocPayload, IInv, TypeOK
<1>3. CASE reserved = 0 /\ held' = NoSpan /\ UNCHANGED <<spans, extent>>
  BY <1>2, <1>3, AllocNothingStep
<1>4. CASE reserved > 0 /\ TakeFreeSpan(reserved) /\ UNCHANGED extent
  BY <1>1, <1>2, <1>4, TakeFreeSpanStep
<1>5. CASE reserved > 0 /\ ExtendArena(reserved)
  BY <1>1, <1>2, <1>5, ExtendArenaStep
<1> QED
  BY <1>3, <1>4, <1>5 DEF AllocPayload

-----------------------------------------------------------------------------
(* Objects take spans over and give them up. *)

\* Object o takes over the span its allocator holds.
LEMMA AppendObjectStep ==
  ASSUME IInv, AppendObject
  PROVE  IInv'
<1>0. TypeOK /\ Bounds /\ HeldWhen /\ NoOverlap /\ NoLeak /\ Separation /\ Anchor
      /\ HeldAnchor /\ Room
  BY DEF IInv
<1>1. PICK o \in ObjectIds \ live :
        /\ \A m \in 0 .. o - 1 : m \in live
        /\ payload' = [payload EXCEPT ![o] = held]
        /\ live' = live \union {o}
        /\ objectCount' = IF o < objectCount THEN objectCount ELSE o + 1
  BY DEF AppendObject
<1>2. /\ pc = "append" /\ pc' = "idle" /\ held' = NoSpan
      /\ UNCHANGED <<spans, extent, used, i>>
  BY DEF AppendObject
<1>3. held' \in Span /\ held'.length = 0
  BY <1>2 DEF Span, NoSpan
<1>4. /\ payload'[o] = held
      /\ \A q \in ObjectIds : q # o => payload'[q] = payload[q]
      /\ payload' \in [ObjectIds -> Span]
  BY <1>0, <1>1 DEF TypeOK
<1>5. o \notin Owners /\ payload[o].length = 0
  BY <1>0, <1>1, Fields DEF Bounds, Owners
<1>6. \A q \in Owners' : \/ q = o /\ held.length > 0
                         \/ q # o /\ q \in Owners /\ payload'[q] = payload[q]
  BY <1>4, <1>5 DEF Owners
<1>7. \A q \in Owners : q # o /\ q \in Owners' /\ payload'[q] = payload[q]
  BY <1>4, <1>5 DEF Owners
<1>8. TypeOK'
  <2>1. live' \subseteq 0 .. objectCount' - 1 /\ objectCount' \in 0 .. ObjectCapacity
    BY <1>0, <1>1, ObjectCapacityAssumption DEF TypeOK, ObjectIds
  <2> QED
    BY <1>0, <1>1, <1>2, <1>3, <1>4, <2>1 DEF TypeOK
<1>9. Bounds'
  BY <1>0, <1>1, <1>2, <1>3, <1>4, <1>6 DEF Bounds
<1>10. HeldWhen' /\ Room' /\ HeldAnchor'
  BY <1>0, <1>2, <1>3 DEF HeldWhen, Room, HeldAnchor
<1>11. NoOverlap'
  <2>1. \A q, r \in Owners' : q # r => Disjoint(payload'[q], payload'[r])
    <3> SUFFICES ASSUME NEW q \in Owners', NEW r \in Owners', q # r
                 PROVE  Disjoint(payload'[q], payload'[r])
      OBVIOUS
    <3>1. CASE q = o
      BY <1>0, <1>4, <1>6, <3>1 DEF NoOverlap
    <3>2. CASE r = o
      BY <1>0, <1>4, <1>6, <3>2 DEF NoOverlap, Disjoint
    <3>3. CASE q # o /\ r # o
      BY <1>0, <1>6, <3>3 DEF NoOverlap
    <3> QED
      BY <3>1, <3>2, <3>3
  <2>2. \A q \in Owners', k \in 1 .. Len(spans) : Disjoint(payload'[q], spans[k])
    BY <1>0, <1>4, <1>6 DEF NoOverlap
  <2> QED
    BY <1>0, <1>2, <1>3, <2>1, <2>2 DEF NoOverlap
<1>12. NoLeak'
  <2> SUFFICES ASSUME NEW u \in 0 .. extent - 1
               PROVE  \/ \E k \in 1 .. Len(spans) : Within(u, spans[k])
                      \/ \E q \in Owners' : Within(u, payload'[q])
    BY <1>2 DEF NoLeak
  <2>1. CASE \E q \in Owners : Within(u, payload[q])
    BY <1>7, <2>1
  <2>2. CASE Within(u, held)
    <3>1. held.length > 0
      BY <2>2, Fields DEF Within, End
    <3>2. o \in Owners'
      BY <1>4, <3>1 DEF Owners
    <3> QED
      BY <1>4, <2>2, <3>2
  <2> QED
    BY <1>0, <2>1, <2>2 DEF NoLeak
<1>13. Separation'
  BY <1>0, <1>2 DEF Separation, ApartBelow
<1>14. Anchor'
  <2>1. CASE held.length = 0
    BY <1>4, <2>1 DEF Anchor
  <2>2. CASE held.length > 0
    <3>2. PICK q \in ObjectIds : payload[q].length = 0 \/ NoFreeBefore(payload[q].offset)
      BY <1>0 DEF Anchor
    <3>3. CASE q = o
      <4>1. \A k \in 1 .. Len(spans') : End(spans'[k]) # payload'[o].offset
        BY <1>0, <1>2, <1>4, <2>2 DEF HeldAnchor
      <4> QED
        BY <1>3, <4>1 DEF Anchor, NoFreeBefore
    <3>4. CASE q # o
      <4>1. payload'[q] = payload[q]
        BY <1>4, <3>4
      <4> QED
        BY <1>2, <1>3, <3>2, <4>1 DEF Anchor, NoFreeBefore
    <3> QED
      BY <3>3, <3>4
  <2> QED
    BY <2>1, <2>2, Fields
<1> QED
  BY <1>8, <1>9, <1>10, <1>11, <1>12, <1>13, <1>14 DEF IInv

\* The allocator gives its span back.
LEMMA AbandonPayloadStep ==
  ASSUME IInv, AbandonPayload
  PROVE  IInv'
<1>1. /\ pc = "append" /\ UNCHANGED <<spans, extent, payload, live, objectCount, i>>
      /\ used' \in Int
      /\ \/ held.length = 0 /\ held' = NoSpan /\ pc' = "idle"
         \/ held.length > 0 /\ held' = held /\ pc' = "insert"
  BY Fields DEF AbandonPayload, ReleasePayload, IInv, TypeOK
<1>2. Owners' = Owners
  BY <1>1 DEF Owners
<1>3. CASE held.length > 0 /\ held' = held /\ pc' = "insert"
  BY <1>1, <1>2, <1>3
  DEF IInv, TypeOK, Bounds, HeldWhen, NoOverlap, NoLeak, Separation, ApartBelow, Anchor,
      NoFreeBefore, HeldAnchor, Room
<1>4. CASE held.length = 0 /\ held' = NoSpan /\ pc' = "idle"
  <2>1. held' \in Span /\ held'.length = 0
    BY <1>4 DEF NoSpan, Span
  <2>2. \A u \in 0 .. extent - 1 : ~Within(u, held)
    BY <1>4, Fields DEF Within, End
  <2>3. NoLeak'
    BY <1>1, <1>2, <2>2 DEF IInv, NoLeak
  <2>4. TypeOK' /\ Bounds' /\ HeldWhen' /\ NoOverlap' /\ HeldAnchor' /\ Room'
    BY <1>1, <1>2, <1>4, <2>1
    DEF IInv, TypeOK, Bounds, HeldWhen, NoOverlap, HeldAnchor, Room
  <2>5. Separation' /\ Anchor'
    BY <1>1, <1>4, <2>1 DEF IInv, Separation, ApartBelow, Anchor, NoFreeBefore
  <2> QED
    BY <2>3, <2>4, <2>5 DEF IInv
<1> QED
  BY <1>1, <1>3, <1>4

\* Object o gives its span up.
LEMMA ReleaseObjectStep ==
  ASSUME IInv, NEW o \in ObjectIds, ReleaseObject(o)
  PROVE  IInv'
<1>0. TypeOK /\ Bounds /\ HeldWhen /\ NoOverlap /\ NoLeak /\ Separation /\ Room
  BY DEF IInv
<1>1. /\ pc = "idle" /\ UNCHANGED <<spans, extent, objectCount, i>>
      /\ used' \in Int
      /\ live' = live \ {o}
      /\ \/ payload[o].length = 0 /\ held' = NoSpan /\ pc' = "idle"
         \/ payload[o].length > 0 /\ held' = payload[o] /\ pc' = "insert"
  BY Fields DEF ReleaseObject, ReleasePayload, IInv, TypeOK
<1>2. /\ payload' \in [ObjectIds -> Span] /\ payload'[o].length = 0
      /\ \A q \in ObjectIds : q # o => payload'[q] = payload[q]
  BY <1>0 DEF ReleaseObject, TypeOK, NoSpan, Span
<1>3. \A q \in Owners' : q # o /\ q \in Owners /\ payload'[q] = payload[q]
  BY <1>2 DEF Owners
<1>4. \A q \in Owners : q # o => q \in Owners' /\ payload'[q] = payload[q]
  BY <1>2 DEF Owners
<1>5. /\ held' \in Span /\ held'.length = payload[o].length
      /\ payload[o].length > 0 => held' = payload[o] /\ o \in Owners
  BY <1>0, <1>1, Fields DEF NoSpan, Span, TypeOK, Owners
<1>6. TypeOK'
  BY <1>0, <1>1, <1>2, <1>5 DEF TypeOK
<1>7. Bounds'
  BY <1>0, <1>1, <1>3, <1>5, Fields DEF Bounds
<1>8. HeldWhen' /\ Room' /\ HeldAnchor'
  BY <1>0, <1>1, <1>5 DEF HeldWhen, Room, HeldAnchor
<1>9. NoOverlap'
  <2>1. \A q, r \in Owners' : q # r => Disjoint(payload'[q], payload'[r])
    BY <1>0, <1>3 DEF NoOverlap
  <2>2. \A q \in Owners', k \in 1 .. Len(spans) : Disjoint(payload'[q], spans[k])
    BY <1>0, <1>3 DEF NoOverlap
  <2>3. held'.length > 0 =>
          /\ \A q \in Owners' : Disjoint(held', payload'[q])
          /\ \A k \in 1 .. Len(spans) : Disjoint(held', spans[k])
    BY <1>0, <1>3, <1>5 DEF NoOverlap
  <2> QED
    BY <1>0, <1>1, <2>1, <2>2, <2>3 DEF NoOverlap
<1>10. NoLeak'
  <2> SUFFICES ASSUME NEW u \in 0 .. extent - 1
               PROVE  \/ \E k \in 1 .. Len(spans) : Within(u, spans[k])
                      \/ \E q \in Owners' : Within(u, payload'[q])
                      \/ Within(u, held')
    BY <1>1 DEF NoLeak
  <2>1. ~Within(u, held)
    BY <1>0, <1>1, Fields DEF HeldWhen, Within, End
  <2>2. ASSUME NEW q \in Owners, Within(u, payload[q])
        PROVE  (\E r \in Owners' : Within(u, payload'[r])) \/ Within(u, held')
    <3>1. CASE q = o
      BY <1>5, <2>2, <3>1 DEF Owners
    <3>2. CASE q # o
      BY <1>4, <2>2, <3>2
    <3> QED
      BY <3>1, <3>2
  <2> QED
    BY <1>0, <2>1, <2>2 DEF NoLeak
<1>11. Separation'
  BY <1>0, <1>1 DEF Separation, ApartBelow
<1>12. Anchor'
  BY <1>2 DEF Anchor
<1> QED
  BY <1>6, <1>7, <1>8, <1>9, <1>10, <1>11, <1>12 DEF IInv

-----------------------------------------------------------------------------
(* The loops that return a span to the free list. *)

\* Positions after and before an insertion at k.
Shifted(k, n) == IF n < k THEN n ELSE n + 1
Unshifted(k, m) == IF m < k THEN m ELSE m - 1

\* t is s with e inserted at position k.
IsInsertion(s, k, e, t) ==
  /\ t \in Seq(Span)
  /\ Len(t) = Len(s) + 1
  /\ k \in 1 .. Len(t) /\ t[k] = e
  /\ \A n \in 1 .. Len(s) : Shifted(k, n) \in 1 .. Len(t) /\ t[Shifted(k, n)] = s[n]
  /\ \A m \in 1 .. Len(t) : m # k => /\ Unshifted(k, m) \in 1 .. Len(s)
                                     /\ t[m] = s[Unshifted(k, m)]
                                     /\ m < k => Unshifted(k, m) < k
                                     /\ m > k => Unshifted(k, m) >= k
  /\ \A m, n \in 1 .. Len(t) : m < n /\ m # k /\ n # k => Unshifted(k, m) < Unshifted(k, n)

LEMMA InsertionKeepsOrder ==
  ASSUME NEW s \in Seq(Span), NEW k \in 1 .. Len(s) + 1, NEW e \in Span
  PROVE  IsInsertion(s, k, e, InsertAt(s, k, e))
<1> DEFINE t == InsertAt(s, k, e)
<1>0. Len(s) \in Nat /\ k \in Int
  OBVIOUS
<1>1. /\ t \in Seq(Span) /\ Len(t) = Len(s) + 1 /\ Len(s) \in Nat /\ k \in Int
      /\ \A m \in 1 .. Len(s) + 1 :
           t[m] = IF m < k THEN s[m] ELSE IF m = k THEN e ELSE s[m - 1]
  BY <1>0, InsertAtEntries, Zenon
<1> HIDE DEF t
<1>2. ASSUME NEW n \in 1 .. Len(s)
      PROVE  Shifted(k, n) \in 1 .. Len(t) /\ t[Shifted(k, n)] = s[n]
  <2>1. CASE n < k
    BY <1>1, <2>1 DEF Shifted
  <2>2. CASE ~(n < k)
    <3>1. Shifted(k, n) = n + 1 /\ n + 1 \in 1 .. Len(s) + 1 /\ ~(n + 1 < k)
          /\ n + 1 # k /\ (n + 1) - 1 = n
      BY <1>1, <2>2 DEF Shifted
    <3> QED
      BY <1>1, <3>1
  <2> QED
    BY <2>1, <2>2
<1>3. \A m \in 1 .. Len(t) : m # k => /\ Unshifted(k, m) \in 1 .. Len(s)
                                      /\ t[m] = s[Unshifted(k, m)]
                                      /\ m < k => Unshifted(k, m) < k
                                      /\ m > k => Unshifted(k, m) >= k
  BY <1>1 DEF Unshifted
<1>4. \A m, n \in 1 .. Len(t) : m < n /\ m # k /\ n # k => Unshifted(k, m) < Unshifted(k, n)
  BY <1>1 DEF Unshifted
<1>5. k \in 1 .. Len(t) /\ t[k] = e
  BY <1>1
<1>6. IsInsertion(s, k, e, t)
  BY <1>1, <1>2, <1>3, <1>4, <1>5 DEF IsInsertion
<1> QED
  BY <1>6 DEF t

\* The insertion keeps the list in address order; the array has room for it.
LEMMA InsertSpanStep ==
  ASSUME IInv, InsertSpan
  PROVE  IInv'
<1>0. TypeOK /\ Bounds /\ HeldWhen /\ NoOverlap /\ NoLeak /\ Anchor /\ Room
  BY DEF IInv
<1>1. PICK k \in 1 .. Len(spans) + 1 :
        /\ \A m \in 1 .. k - 1 : spans[m].offset < held.offset
        /\ k <= Len(spans) => spans[k].offset >= held.offset
        /\ spans' = InsertAt(spans, k, held)
  BY DEF InsertSpan
<1>2. /\ pc = "insert" /\ pc' = "coalesce" /\ held' = NoSpan /\ i' = 2
      /\ UNCHANGED <<extent, used, payload, live, objectCount>>
  BY DEF InsertSpan
<1>3. held' \in Span /\ held'.length = 0 /\ held.length > 0
  BY <1>0, <1>2 DEF Span, NoSpan, HeldWhen
<1>4. IsInsertion(spans, k, held, spans')
  BY <1>0, <1>1, InsertionKeepsOrder DEF TypeOK
<1>5. Owners' = Owners
  BY <1>2 DEF Owners
<1>6. TypeOK'
  BY <1>0, <1>2, <1>3, <1>4 DEF TypeOK, IsInsertion
<1>7. Bounds'
  BY <1>0, <1>2, <1>3, <1>4, <1>5 DEF Bounds, IsInsertion
<1>8. HeldWhen' /\ HeldAnchor'
  BY <1>2, <1>3 DEF HeldWhen, HeldAnchor
<1>9. Room'
  <2>1. Len(spans') = Len(spans) + 1 /\ Len(spans) < ObjectCapacity
    BY <1>0, <1>2, <1>4 DEF Room, IsInsertion
  <2> QED
    BY <1>2, <2>1, Fields DEF Room
<1>10. NoOverlap'
  <2>1. ASSUME NEW m \in 1 .. Len(spans'), NEW n \in 1 .. Len(spans'), m < n
        PROVE  End(spans'[m]) <= spans'[n].offset
    <3>1. CASE m # k /\ n # k
      BY <1>0, <1>4, <2>1, <3>1 DEF NoOverlap, IsInsertion
    <3>2. CASE n = k
      <4> DEFINE j == Unshifted(k, m)
      <4>1. j \in 1 .. Len(spans) /\ j < k /\ spans'[m] = spans[j] /\ spans'[n] = held
        BY <1>4, <2>1, <3>2 DEF IsInsertion
      <4> HIDE DEF j
      <4>2. spans[j].offset < held.offset /\ Disjoint(held, spans[j])
        BY <1>0, <1>1, <1>3, <4>1 DEF NoOverlap
      <4> QED
        BY <1>3, <4>1, <4>2, Fields DEF Disjoint
    <3>3. CASE m = k
      <4> DEFINE j == Unshifted(k, n)
      <4>1. j \in 1 .. Len(spans) /\ j >= k /\ spans'[n] = spans[j] /\ spans'[m] = held
        BY <1>4, <2>1, <3>3 DEF IsInsertion
      <4> HIDE DEF j
      <4>2. k \in 1 .. Len(spans) /\ spans[k].offset >= held.offset
        BY <1>1, <4>1, Fields
      <4>3. j = k \/ End(spans[k]) <= spans[j].offset
        BY <1>0, <4>1, <4>2 DEF NoOverlap
      <4>4. spans[j].offset >= held.offset
        BY <4>1, <4>2, <4>3, Fields
      <4>5. Disjoint(held, spans[j])
        BY <1>0, <1>3, <4>1 DEF NoOverlap
      <4> QED
        BY <1>3, <4>1, <4>4, <4>5, Fields DEF Disjoint
    <3> QED
      BY <3>1, <3>2, <3>3
  <2>2. ASSUME NEW o \in Owners, NEW m \in 1 .. Len(spans')
        PROVE  Disjoint(payload[o], spans'[m])
    <3>1. CASE m = k
      BY <1>0, <1>3, <1>4, <3>1 DEF NoOverlap, IsInsertion, Disjoint
    <3>2. CASE m # k
      BY <1>0, <1>4, <3>2 DEF NoOverlap, IsInsertion
    <3> QED
      BY <3>1, <3>2
  <2> QED
    BY <1>0, <1>2, <1>3, <1>5, <2>1, <2>2 DEF NoOverlap
<1>11. NoLeak'
  <2> SUFFICES ASSUME NEW u \in 0 .. extent - 1
               PROVE  \/ \E m \in 1 .. Len(spans') : Within(u, spans'[m])
                      \/ \E o \in Owners : Within(u, payload[o])
    BY <1>2, <1>5 DEF NoLeak
  <2>1. CASE \E n \in 1 .. Len(spans) : Within(u, spans[n])
    BY <1>4, <2>1 DEF IsInsertion
  <2>2. CASE Within(u, held)
    BY <1>4, <2>2 DEF IsInsertion
  <2> QED
    BY <1>0, <2>1, <2>2 DEF NoLeak
<1>12. Separation'
  BY <1>2 DEF Separation, ApartBelow
<1>13. Anchor'
  <2>1. PICK o \in ObjectIds : payload[o].length = 0 \/ NoFreeBefore(payload[o].offset)
    BY <1>0 DEF Anchor
  <2>2. ASSUME NoFreeBefore(payload[o].offset)
        PROVE  NoFreeBefore(payload[o].offset)'
    <3>1. \A m \in 1 .. Len(spans') : End(spans'[m]) # payload[o].offset
      BY <1>3, <1>4, <2>2 DEF NoFreeBefore, IsInsertion
    <3> QED
      BY <1>2, <1>3, <3>1 DEF NoFreeBefore
  <2> QED
    BY <1>2, <2>1, <2>2 DEF Anchor
<1> QED
  BY <1>6, <1>7, <1>8, <1>9, <1>10, <1>11, <1>12, <1>13 DEF IInv

LEMMA CoalesceSkipStep ==
  ASSUME IInv, CoalesceSkip
  PROVE  IInv'
<1>1. /\ pc = "coalesce" /\ i <= Len(spans) /\ Apart(i) /\ i' = i + 1
      /\ UNCHANGED <<spans, extent, used, payload, live, objectCount, held, pc>>
  BY DEF CoalesceSkip
<1>2. Owners' = Owners
  BY <1>1 DEF Owners
<1>3. i \in Nat /\ i >= 2 /\ ApartBelow(i)
  BY <1>1 DEF IInv, TypeOK, Separation
\* Entry i joins the entries that do not touch one another.
<1>4. ASSUME NEW m \in 1 .. Len(spans), NEW n \in 1 .. Len(spans), m < n, n < i + 1
      PROVE  End(spans[m]) < spans[n].offset
  <2>1. CASE n < i
    BY <1>3, <1>4, <2>1 DEF ApartBelow
  <2>2. CASE n = i /\ m = i - 1
    BY <1>1, <2>2 DEF Apart
  <2>3. CASE n = i /\ m < i - 1
    <3>1. i - 1 \in 1 .. Len(spans) /\ i - 1 < i
      BY <1>1, <1>3, Fields
    <3>2. End(spans[m]) < spans[i - 1].offset
      BY <1>3, <2>3, <3>1 DEF ApartBelow
    <3>3. End(spans[i - 1]) < spans[i].offset
      BY <1>1 DEF Apart
    <3> QED
      <4>1. /\ spans[i - 1].offset \in Nat /\ End(spans[i - 1]) \in Nat
            /\ spans[i - 1].offset < End(spans[i - 1]) /\ End(spans[m]) \in Nat
        BY <3>1, Fields
      <4>2. spans[i].offset \in Nat
        BY <2>3, Fields
      <4> QED
        BY <2>3, <3>2, <3>3, <4>1, <4>2
  <2> QED
    BY <1>3, <1>4, <2>1, <2>2, <2>3
<1>5. Separation'
  BY <1>1, <1>3, <1>4 DEF Separation, ApartBelow
<1> QED
  BY <1>1, <1>2, <1>3, <1>5
  DEF IInv, TypeOK, Bounds, HeldWhen, NoOverlap, NoLeak, Anchor, NoFreeBefore, HeldAnchor, Room

\* Folding entry i into entry i-1 changes neither the free units nor where the
\* remaining spans end.
LEMMA CoalesceMergeStep ==
  ASSUME IInv, CoalesceMerge
  PROVE  IInv'
<1> DEFINE merged == [offset |-> spans[i - 1].offset,
                      length |-> End(spans[i]) - spans[i - 1].offset]
           joined == [spans EXCEPT ![i - 1] = merged]
           old(m) == Before(i, m)
<1>0. TypeOK /\ Bounds /\ HeldWhen /\ NoOverlap /\ NoLeak /\ Separation /\ Anchor /\ Room
  BY DEF IInv
<1>1. /\ pc = "coalesce" /\ i <= Len(spans) /\ ~Apart(i)
      /\ UNCHANGED <<extent, used, payload, live, objectCount, held, i, pc>>
  BY DEF CoalesceMerge
<1>2. i \in Nat /\ i >= 2 /\ ApartBelow(i) /\ i \in 1 .. Len(spans) /\ i - 1 \in 1 .. Len(spans)
  BY <1>0, <1>1, Fields DEF TypeOK, Separation
<1>3. /\ End(spans[i - 1]) = spans[i].offset
      /\ spans[i - 1].offset < End(spans[i])
      /\ End(spans[i - 1]) < End(spans[i])
  <2>1. End(spans[i - 1]) <= spans[i].offset /\ ~(End(spans[i - 1]) < spans[i].offset)
    BY <1>0, <1>1, <1>2 DEF NoOverlap, Apart
  <2> QED
    BY <1>2, <2>1, Fields
<1>03. /\ spans[i - 1].offset \in Nat /\ End(spans[i - 1]) \in Nat
       /\ spans[i].offset \in Nat /\ End(spans[i]) \in Nat
       /\ spans[i - 1].offset < End(spans[i - 1]) /\ spans[i].offset < End(spans[i])
  BY <1>2, Fields
<1>4. /\ merged \in Span /\ merged.offset = spans[i - 1].offset /\ merged.length > 0
      /\ End(merged) = End(spans[i])
  <2>1. End(spans[i]) - spans[i - 1].offset \in Nat /\ spans[i - 1].offset \in Nat
        /\ End(spans[i]) - spans[i - 1].offset > 0 /\ End(spans[i]) \in Nat
    BY <1>2, <1>3, Fields
  <2>2. merged \in Span /\ merged.offset = spans[i - 1].offset
        /\ merged.length = End(spans[i]) - spans[i - 1].offset
    BY <2>1 DEF Span
  <2> HIDE DEF merged
  <2>3. End(merged) = End(spans[i])
    <3>1. \A x, y \in Nat : x + (y - x) = y
      OBVIOUS
    <3>2. End(merged) = spans[i - 1].offset + (End(spans[i]) - spans[i - 1].offset)
      BY <2>2 DEF End
    <3> QED
      BY <2>1, <3>1, <3>2
  <2> QED
    BY <2>1, <2>2, <2>3
<1>5. spans' = RemoveAt(joined, i)
  BY <1>3 DEF CoalesceMerge
<1> HIDE DEF merged
<1>6. /\ joined \in Seq(Span) /\ Len(joined) = Len(spans) /\ joined[i - 1] = merged
      /\ \A n \in 1 .. Len(spans) : n # i - 1 => joined[n] = spans[n]
  BY <1>0, <1>2, <1>4 DEF TypeOK
<1> HIDE DEF joined
<1>7. IsRemoval(joined, i, spans')
  BY <1>2, <1>5, <1>6, RemovalKeepsOrder
\* New entry m is old entry old(m), except that the merged one, at i-1, ends
\* where entry i ended.
<1>8. /\ spans' \in Seq(Span) /\ Len(spans') = Len(spans) - 1
      /\ \A m \in 1 .. Len(spans') :
           /\ old(m) \in 1 .. Len(spans) /\ old(m) # i /\ (m < i => old(m) = m)
           /\ m # i - 1 => spans'[m] = spans[old(m)] /\ old(m) # i - 1
           /\ m = i - 1 => spans'[m] = merged
      /\ \A m, n \in 1 .. Len(spans') : m < n => old(m) < old(n)
      /\ i - 1 \in 1 .. Len(spans')
      /\ \A n \in 1 .. Len(spans) : n # i /\ n # i - 1 =>
           After(i, n) \in 1 .. Len(spans') /\ spans'[After(i, n)] = spans[n]
  <2>1. /\ \A m : m < i => Before(i, m) = m
        /\ \A m \in Int : m # i - 1 => Before(i, m) # i - 1
    BY <1>2 DEF Before
  <2>2. Len(spans') = Len(spans) - 1 /\ i - 1 \in 1 .. Len(spans')
    BY <1>2, <1>6, <1>7, Fields DEF IsRemoval
  <2>3. spans' \in Seq(Span)
    BY <1>7 DEF IsRemoval
  <2>4. /\ \A m \in 1 .. Len(spans') :
             old(m) \in 1 .. Len(spans) /\ old(m) # i /\ spans'[m] = joined[old(m)]
        /\ \A m, n \in 1 .. Len(spans') : m < n => old(m) < old(n)
    BY <1>6, <1>7 DEF IsRemoval
  <2>5. ASSUME NEW m \in 1 .. Len(spans')
        PROVE  /\ m < i => old(m) = m
               /\ m # i - 1 => spans'[m] = spans[old(m)] /\ old(m) # i - 1
               /\ m = i - 1 => spans'[m] = merged
    BY <1>2, <1>6, <2>1, <2>4
  <2>6. ASSUME NEW n \in 1 .. Len(spans), n # i, n # i - 1
        PROVE  After(i, n) \in 1 .. Len(spans') /\ spans'[After(i, n)] = spans[n]
    BY <1>6, <1>7, <2>6 DEF IsRemoval
  <2> QED
    BY <2>2, <2>3, <2>4, <2>5, <2>6
<1> HIDE DEF old
<1>9. Owners' = Owners
  BY <1>1 DEF Owners
<1>10. TypeOK'
  BY <1>0, <1>1, <1>8 DEF TypeOK
<1>11. Bounds'
  <2>1. ASSUME NEW m \in 1 .. Len(spans')
        PROVE  spans'[m].length > 0 /\ End(spans'[m]) <= extent
    <3>1. CASE m = i - 1
      BY <1>0, <1>2, <1>4, <1>8, <3>1 DEF Bounds
    <3>2. CASE m # i - 1
      BY <1>0, <1>8, <3>2 DEF Bounds
    <3> QED
      BY <3>1, <3>2
  <2> QED
    BY <1>0, <1>1, <1>9, <2>1 DEF Bounds
<1>12. HeldWhen' /\ HeldAnchor'
  BY <1>0, <1>1 DEF HeldWhen, HeldAnchor
<1>13. Room'
  BY <1>0, <1>1, <1>8, Fields DEF Room
\* Two new entries are in order; they do not touch when both lie before i-1, or
\* when the second is the merged one.
<1>14. ASSUME NEW m \in 1 .. Len(spans'), NEW n \in 1 .. Len(spans'), m < n
       PROVE  /\ End(spans'[m]) <= spans'[n].offset
              /\ n < i => End(spans'[m]) < spans'[n].offset
  <2>0. m \in Int /\ n \in Int
    OBVIOUS
  <2>1. CASE m = i - 1
    <3>1. spans'[m] = merged /\ n > i - 1 /\ n # i - 1 /\ ~(n < i)
      BY <1>2, <1>8, <1>14, <2>0, <2>1
    <3>2. /\ old(n) \in 1 .. Len(spans) /\ spans'[n] = spans[old(n)]
          /\ old(m) = i - 1 /\ old(m) < old(n) /\ old(n) # i
      BY <1>2, <1>8, <1>14, <2>1, <3>1
    <3>3. i < old(n)
      BY <1>2, <3>2
    <3>4. End(spans[i]) <= spans[old(n)].offset
      BY <1>0, <1>2, <3>2, <3>3 DEF NoOverlap
    <3> QED
      BY <1>4, <3>1, <3>2, <3>4
  <2>2. CASE n = i - 1
    <3>1. /\ spans'[n] = merged /\ spans'[m] = spans[m] /\ m \in 1 .. Len(spans) /\ m < i - 1
      BY <1>2, <1>8, <1>14, <2>0, <2>2
    <3>2. End(spans[m]) < spans[i - 1].offset
      BY <1>2, <3>1 DEF ApartBelow
    <3>3. End(spans[m]) \in Nat
      BY <3>1, Fields
    <3> QED
      BY <1>03, <1>4, <3>1, <3>2, <3>3
  <2>3. CASE m # i - 1 /\ n # i - 1
    <3>1. /\ old(m) \in 1 .. Len(spans) /\ old(n) \in 1 .. Len(spans) /\ old(m) < old(n)
          /\ spans'[m] = spans[old(m)] /\ spans'[n] = spans[old(n)]
          /\ n < i => old(n) = n
      BY <1>8, <1>14, <2>3
    <3>2. End(spans[old(m)]) <= spans[old(n)].offset
      BY <1>0, <3>1 DEF NoOverlap
    <3>3. n < i => End(spans[old(m)]) < spans[old(n)].offset
      BY <1>2, <3>1 DEF ApartBelow
    <3> QED
      BY <3>1, <3>2, <3>3
  <2> QED
    BY <2>1, <2>2, <2>3
<1>15. NoOverlap'
  <2>1. ASSUME NEW o \in Owners, NEW m \in 1 .. Len(spans')
        PROVE  Disjoint(payload[o], spans'[m])
    <3>1. CASE m = i - 1
      <4>1. Disjoint(payload[o], spans[i - 1]) /\ Disjoint(payload[o], spans[i])
        BY <1>0, <1>2 DEF NoOverlap
      <4>2. spans'[m] = merged
        BY <1>8, <3>1
      <4> QED
        <5>1. payload[o].offset \in Nat /\ End(payload[o]) \in Nat
              /\ payload[o].offset < End(payload[o])
          BY Fields
        <5> QED
          BY <1>03, <1>3, <1>4, <4>1, <4>2, <5>1 DEF Disjoint
    <3>2. CASE m # i - 1
      BY <1>0, <1>8, <3>2 DEF NoOverlap
    <3> QED
      BY <3>1, <3>2
  <2>2. held.length = 0
    BY <1>0, <1>1 DEF HeldWhen
  <2> QED
    BY <1>0, <1>1, <1>9, <1>14, <2>1, <2>2, Fields DEF NoOverlap
<1>16. NoLeak'
  <2> SUFFICES ASSUME NEW u \in 0 .. extent - 1
               PROVE  \/ \E m \in 1 .. Len(spans') : Within(u, spans'[m])
                      \/ \E o \in Owners : Within(u, payload[o])
                      \/ Within(u, held)
    BY <1>1, <1>9 DEF NoLeak
  <2>1. ASSUME NEW n \in 1 .. Len(spans), Within(u, spans[n])
        PROVE  \E m \in 1 .. Len(spans') : Within(u, spans'[m])
    <3>1. CASE n # i /\ n # i - 1
      BY <1>8, <2>1, <3>1
    <3>2. CASE n = i \/ n = i - 1
      <4>1. Within(u, merged)
        <5>1. CASE n = i
          BY <1>03, <1>3, <1>4, <2>1, <5>1 DEF Within
        <5>2. CASE n = i - 1
          BY <1>03, <1>3, <1>4, <2>1, <5>2 DEF Within
        <5> QED
          BY <3>2, <5>1, <5>2
      <4>2. i - 1 \in 1 .. Len(spans') /\ spans'[i - 1] = merged
        BY <1>8
      <4> QED
        BY <4>1, <4>2
    <3> QED
      BY <3>1, <3>2
  <2> QED
    BY <1>0, <2>1 DEF NoLeak
<1>17. Separation'
  BY <1>1, <1>2, <1>14 DEF Separation, ApartBelow
<1>18. Anchor'
  <2>1. PICK o \in ObjectIds : payload[o].length = 0 \/ NoFreeBefore(payload[o].offset)
    BY <1>0 DEF Anchor
  <2>2. ASSUME NoFreeBefore(payload[o].offset)
        PROVE  NoFreeBefore(payload[o].offset)'
    <3>1. ASSUME NEW m \in 1 .. Len(spans')
          PROVE  End(spans'[m]) # payload[o].offset
      <4>1. CASE m = i - 1
        BY <1>2, <1>4, <1>8, <2>2, <4>1 DEF NoFreeBefore
      <4>2. CASE m # i - 1
        BY <1>8, <2>2, <4>2 DEF NoFreeBefore
      <4> QED
        BY <4>1, <4>2
    <3> QED
      BY <1>1, <2>2, <3>1 DEF NoFreeBefore
  <2> QED
    BY <1>1, <2>1, <2>2 DEF Anchor
<1> QED
  BY <1>10, <1>11, <1>12, <1>13, <1>15, <1>16, <1>17, <1>18 DEF IInv

\* Past the last entry the whole list is apart.
LEMMA CoalesceDoneStep ==
  ASSUME IInv, CoalesceDone
  PROVE  IInv'
<1>1. /\ pc = "coalesce" /\ i > Len(spans) /\ pc' = "trim"
      /\ UNCHANGED <<spans, extent, used, payload, live, objectCount, held, i>>
  BY DEF CoalesceDone
<1>2. Owners' = Owners
  BY <1>1 DEF Owners
<1>3. i \in Nat /\ ApartBelow(i)
  BY <1>1 DEF IInv, TypeOK, Separation
<1>4. ApartBelow(Len(spans) + 1)
  BY <1>1, <1>3, Fields DEF ApartBelow
<1>5. Separation'
  BY <1>1, <1>4 DEF Separation, ApartBelow
<1> QED
  BY <1>1, <1>2, <1>5
  DEF IInv, TypeOK, Bounds, HeldWhen, NoOverlap, NoLeak, Anchor, NoFreeBefore, HeldAnchor, Room

\* Cutting the last span off: everything else lies before it.
LEMMA TrimTailStep ==
  ASSUME IInv, TrimTail
  PROVE  IInv'
<1> DEFINE last == Len(spans)
           old(m) == Before(last, m)
<1>0. TypeOK /\ Bounds /\ HeldWhen /\ NoOverlap /\ NoLeak /\ Separation /\ Anchor /\ Room
  BY DEF IInv
<1>1. /\ pc = "trim" /\ spans # <<>> /\ End(spans[last]) = extent
      /\ extent' = spans[last].offset /\ spans' = RemoveAt(spans, last)
      /\ UNCHANGED <<used, payload, live, objectCount, held, i, pc>>
  BY DEF TrimTail, TailIsFree
<1>2. last \in 1 .. Len(spans) /\ last \in Nat
  BY <1>0, <1>1, Fields DEF TypeOK
<1>3. /\ spans[last].offset \in Nat /\ extent \in Nat /\ extent' \in Nat /\ extent' < extent
      /\ spans[last].length > 0
  <2>1. spans[last].length > 0
    BY <1>0, <1>2 DEF Bounds
  <2> QED
    BY <1>1, <1>2, <2>1, Fields
<1>4. IsRemoval(spans, last, spans')
  BY <1>0, <1>1, <1>2, RemovalKeepsOrder DEF TypeOK
<1>5. /\ spans' \in Seq(Span) /\ Len(spans') = last - 1
      /\ \A m \in 1 .. Len(spans') : /\ m \in 1 .. Len(spans) /\ m < last
                                     /\ spans'[m] = spans[m]
  <2>1. Len(spans') = last - 1
    BY <1>4 DEF IsRemoval
  <2>2. \A m \in 1 .. Len(spans') : m \in 1 .. Len(spans) /\ m < last /\ Before(last, m) = m
    BY <1>2, <2>1 DEF Before
  <2> QED
    BY <1>4, <2>1, <2>2 DEF IsRemoval
<1> HIDE DEF last
<1>6. Owners' = Owners
  BY <1>1 DEF Owners
<1>7. TypeOK'
  <2>1. extent' \in 0 .. PayloadCapacity
    BY <1>0, <1>3, PayloadCapacityAssumption DEF TypeOK
  <2> QED
    BY <1>0, <1>1, <1>5, <2>1 DEF TypeOK
<1>8. ASSUME NEW m \in 1 .. Len(spans')
      PROVE  spans'[m] = spans[m] /\ m \in 1 .. Len(spans) /\ End(spans[m]) < extent'
  <2>1. spans'[m] = spans[m] /\ m \in 1 .. Len(spans) /\ m < last
    BY <1>5
  <2>2. ApartBelow(Len(spans) + 1) /\ last < Len(spans) + 1
    BY <1>0, <1>1, Fields DEF Separation, last
  <2> QED
    BY <1>1, <1>2, <2>1, <2>2 DEF ApartBelow
<1>9. ASSUME NEW o \in Owners
      PROVE  End(payload[o]) <= extent'
  <2>1. Disjoint(payload[o], spans[last])
    BY <1>0, <1>2 DEF NoOverlap
  <2>2. /\ payload[o].offset \in Nat /\ End(payload[o]) \in Nat
        /\ payload[o].offset < End(payload[o]) /\ End(payload[o]) <= extent
    BY Fields
  <2> QED
    BY <1>1, <1>3, <2>1, <2>2 DEF Disjoint
<1>10. Bounds'
  <2>1. \A m \in 1 .. Len(spans') : spans'[m].length > 0 /\ End(spans'[m]) <= extent'
    BY <1>0, <1>3, <1>8, Fields DEF Bounds
  <2>2. held.length = 0
    BY <1>0, <1>1 DEF HeldWhen
  <2> QED
    BY <1>0, <1>1, <1>6, <1>9, <2>1, <2>2, Fields DEF Bounds
<1>11. HeldWhen' /\ HeldAnchor'
  BY <1>0, <1>1 DEF HeldWhen, HeldAnchor
<1>12. Room'
  BY <1>0, <1>1, <1>2, <1>5, Fields DEF Room, last
<1>13. NoOverlap'
  <2>1. held.length = 0
    BY <1>0, <1>1 DEF HeldWhen
  <2>2. \A m, n \in 1 .. Len(spans') : m < n => End(spans'[m]) <= spans'[n].offset
    BY <1>0, <1>8 DEF NoOverlap
  <2>3. \A o \in Owners, m \in 1 .. Len(spans') : Disjoint(payload[o], spans'[m])
    BY <1>0, <1>8 DEF NoOverlap
  <2> QED
    BY <1>0, <1>1, <1>6, <2>1, <2>2, <2>3, Fields DEF NoOverlap
<1>14. NoLeak'
  <2> SUFFICES ASSUME NEW u \in 0 .. extent' - 1
               PROVE  \/ \E m \in 1 .. Len(spans') : Within(u, spans'[m])
                      \/ \E o \in Owners : Within(u, payload[o])
                      \/ Within(u, held)
    BY <1>1, <1>6 DEF NoLeak
  <2>1. u \in 0 .. extent - 1 /\ ~Within(u, spans[last])
    BY <1>1, <1>3 DEF Within
  <2>2. ASSUME NEW n \in 1 .. Len(spans), Within(u, spans[n])
        PROVE  \E m \in 1 .. Len(spans') : Within(u, spans'[m])
    <3>1. n # last
      BY <2>1, <2>2
    <3>2. n \in 1 .. Len(spans')
      BY <1>2, <1>5, <3>1 DEF last
    <3> QED
      BY <1>5, <2>2, <3>2
  <2> QED
    BY <1>0, <2>1, <2>2 DEF NoLeak
<1>15. Separation'
  <2>1. ASSUME NEW m \in 1 .. Len(spans'), NEW n \in 1 .. Len(spans'), m < n
        PROVE  End(spans'[m]) < spans'[n].offset
    <3>1. ApartBelow(Len(spans) + 1) /\ n < Len(spans) + 1
      BY <1>0, <1>1, <1>8, Fields DEF Separation
    <3> QED
      BY <1>8, <2>1, <3>1 DEF ApartBelow
  <2> QED
    BY <1>1, <2>1 DEF Separation, ApartBelow
<1>16. Anchor'
  <2>1. PICK o \in ObjectIds : payload[o].length = 0 \/ NoFreeBefore(payload[o].offset)
    BY <1>0 DEF Anchor
  <2>2. ASSUME NoFreeBefore(payload[o].offset)
        PROVE  NoFreeBefore(payload[o].offset)'
    BY <1>1, <1>8, <2>2 DEF NoFreeBefore
  <2> QED
    BY <1>1, <2>1, <2>2 DEF Anchor
<1> QED
  BY <1>7, <1>10, <1>11, <1>12, <1>13, <1>14, <1>15, <1>16 DEF IInv

\* In a canonical arena every free span is directly followed by an owned span,
\* and one object id is not behind a free span: the list leaves an entry free.
LEMMA CanonicalLeavesRoom ==
  ASSUME IInv, pc = "trim", \A k \in 1 .. Len(spans) : End(spans[k]) < extent
  PROVE  Len(spans) < ObjectCapacity
<1>1. TypeOK /\ HeldWhen /\ NoOverlap /\ NoLeak /\ Separation /\ Anchor
  BY DEF IInv
<1>2. PICK free \in ObjectIds : payload[free].length = 0 \/ NoFreeBefore(payload[free].offset)
  BY <1>1 DEF Anchor
<1> DEFINE others == ObjectIds \ {free}
<1>3. ASSUME NEW k \in 1 .. Len(spans)
      PROVE  \E o \in others : payload[o].offset = End(spans[k])
  <2> DEFINE u == End(spans[k])
  <2>1. u \in 0 .. extent - 1 /\ u \in Nat
    BY Fields
  <2>2. ~Within(u, held)
    BY <1>1, <2>1, Fields DEF HeldWhen, Within, End
  <2>3. ASSUME NEW n \in 1 .. Len(spans), Within(u, spans[n])
        PROVE  FALSE
    <3>0. ApartBelow(Len(spans) + 1) /\ k < Len(spans) + 1 /\ n < Len(spans) + 1
      BY <1>1, Fields DEF Separation
    <3>1. CASE n = k
      BY <2>1, <2>3, <3>1 DEF Within
    <3>2. CASE k < n
      <4>1. u < spans[n].offset
        BY <3>0, <3>2 DEF ApartBelow
      <4> QED
        BY <2>1, <2>3, <4>1, Fields DEF Within
    <3>3. CASE n < k
      <4>1. End(spans[n]) < spans[k].offset /\ spans[k].offset < u /\ spans[k].offset \in Nat
            /\ End(spans[n]) \in Nat
        BY <3>0, <3>3, Fields DEF ApartBelow
      <4> QED
        BY <2>1, <2>3, <4>1 DEF Within
    <3> QED
      BY <3>1, <3>2, <3>3
  <2>4. PICK o \in Owners : Within(u, payload[o])
    BY <1>1, <2>1, <2>2, <2>3 DEF NoLeak
  <2>5. /\ o \in ObjectIds /\ payload[o].offset \in Nat /\ End(payload[o]) \in Nat
        /\ payload[o].length > 0
        /\ spans[k].offset \in Nat /\ spans[k].offset < u
    BY Fields DEF Owners
  <2>6. Disjoint(payload[o], spans[k])
    BY <1>1 DEF NoOverlap
  <2>7. payload[o].offset = u
    BY <2>1, <2>4, <2>5, <2>6 DEF Disjoint, Within
  <2>8. o # free
    BY <1>2, <2>5, <2>7 DEF NoFreeBefore
  <2> QED
    BY <2>5, <2>7, <2>8
<1> DEFINE f == [k \in 1 .. Len(spans) |->
                   CHOOSE o \in others : payload[o].offset = End(spans[k])]
<1>4. \A k \in 1 .. Len(spans) : f[k] \in others /\ payload[f[k]].offset = End(spans[k])
  BY <1>3
<1>5. ASSUME NEW j \in 1 .. Len(spans), NEW k \in 1 .. Len(spans), j < k
      PROVE  f[j] # f[k]
  <2>1. End(spans[j]) < End(spans[k])
    <3>1. End(spans[j]) <= spans[k].offset
      BY <1>1, <1>5 DEF NoOverlap
    <3> QED
      BY <3>1, Fields
  <2> QED
    BY <1>4, <2>1, Fields
<1> HIDE DEF f, others
<1>6. f \in Injection(1 .. Len(spans), others)
  <2>1. f \in [1 .. Len(spans) -> others]
    BY <1>4 DEF f
  <2>2. \A j, k \in 1 .. Len(spans) : f[j] = f[k] => j = k
    BY <1>5
  <2> QED
    BY <2>1, <2>2 DEF Injection, IsInjective
<1>7. IsFiniteSet(ObjectIds) /\ Cardinality(ObjectIds) = ObjectCapacity
  <2>1. 0 \in Int /\ ObjectCapacity - 1 \in Int /\ ObjectCapacity > 0
    BY ObjectCapacityAssumption
  <2>2. /\ IsFiniteSet(ObjectIds)
        /\ Cardinality(ObjectIds) =
             IF 0 > ObjectCapacity - 1 THEN 0 ELSE (ObjectCapacity - 1) - 0 + 1
    BY <2>1, FS_Interval DEF ObjectIds
  <2> QED
    BY <2>1, <2>2, ObjectCapacityAssumption
<1>8. IsFiniteSet(others) /\ Cardinality(others) = ObjectCapacity - 1
  BY <1>7, FS_RemoveElement DEF others
<1>9. Cardinality(1 .. Len(spans)) <= ObjectCapacity - 1
  BY <1>6, <1>8, FS_Injection
<1>10. Cardinality(1 .. Len(spans)) = Len(spans)
  <2>1. 1 \in Int /\ Len(spans) \in Int /\ Len(spans) \in Nat
    BY Fields
  <2>2. Cardinality(1 .. Len(spans)) = IF 1 > Len(spans) THEN 0 ELSE Len(spans) - 1 + 1
    BY <2>1, FS_Interval
  <2> QED
    BY <2>1, <2>2
<1> QED
  BY <1>9, <1>10, Fields

LEMMA TrimDoneStep ==
  ASSUME IInv, TrimDone
  PROVE  IInv'
<1>1. /\ pc = "trim" /\ pc' = "idle" /\ ~TailIsFree /\ i' = 1
      /\ UNCHANGED <<spans, extent, used, payload, live, objectCount, held>>
  BY DEF TrimDone
<1>2. Owners' = Owners
  BY <1>1 DEF Owners
<1>3. ASSUME NEW k \in 1 .. Len(spans)
      PROVE  End(spans[k]) < extent
  <2> DEFINE last == Len(spans)
  <2>1. last \in 1 .. Len(spans) /\ spans # <<>>
    BY Fields DEF IInv, TypeOK
  <2>2. End(spans[last]) < extent
    BY <1>1, <2>1, Fields DEF TailIsFree
  <2>3. CASE k = last
    BY <2>2, <2>3
  <2>4. CASE k # last
    <3>1. k < last
      BY <2>4, Fields
    <3>2. End(spans[k]) <= spans[last].offset
      BY <2>1, <3>1 DEF IInv, NoOverlap
    <3>3. spans[last].offset \in Nat /\ spans[last].offset < extent /\ End(spans[k]) \in Nat
      BY <2>1, Fields
    <3> QED
      BY <3>2, <3>3, Fields
  <2> QED
    BY <2>3, <2>4
<1>4. Room'
  BY <1>1, <1>3, CanonicalLeavesRoom DEF IInv, Room
<1>5. Separation'
  BY <1>1, <1>3 DEF IInv, Separation, ApartBelow
<1> QED
  BY <1>1, <1>2, <1>4, <1>5
  DEF IInv, TypeOK, Bounds, HeldWhen, NoOverlap, NoLeak, Anchor, NoFreeBefore, HeldAnchor

LEMMA ClearOverlayStateStep ==
  ASSUME IInv, ClearOverlayState
  PROVE  IInv'
<1>1. /\ pc = "idle" /\ live = {} /\ spans' = <<>> /\ extent' = 0 /\ used' = 0
      /\ objectCount' = 0
      /\ UNCHANGED <<payload, live, held, i, pc>>
  BY DEF ClearOverlayState
<1>2. Owners = {} /\ Owners' = {} /\ held.length = 0
  BY <1>1 DEF IInv, Bounds, HeldWhen, Owners
<1>3. Len(spans') = 0 /\ spans' \in Seq(Span)
  BY <1>1
<1>4. TypeOK'
  BY <1>1, <1>3, PayloadCapacityAssumption, ObjectCapacityAssumption DEF IInv, TypeOK
<1>5. Bounds' /\ HeldWhen' /\ NoOverlap' /\ HeldAnchor' /\ Separation'
  BY <1>1, <1>2, <1>3
  DEF IInv, Bounds, HeldWhen, NoOverlap, HeldAnchor, Separation, ApartBelow
<1>6. NoLeak'
  BY <1>1 DEF NoLeak
<1>7. Room'
  BY <1>1, <1>3, ObjectCapacityAssumption DEF Room
<1>8. Anchor'
  BY <1>1, <1>2, <1>3 DEF IInv, Anchor, NoFreeBefore
<1> QED
  BY <1>4, <1>5, <1>6, <1>7, <1>8 DEF IInv

-----------------------------------------------------------------------------
(* The theorems. *)

LEMMA NextIInv == IInv /\ [Next]_vars => IInv'
<1> SUFFICES ASSUME IInv, [Next]_vars PROVE IInv'
  OBVIOUS
<1>1. ASSUME NEW reserved \in Requests, AllocPayload(reserved) PROVE IInv'
  BY <1>1, AllocPayloadStep
<1>2. CASE AppendObject
  BY <1>2, AppendObjectStep
<1>3. CASE AbandonPayload
  BY <1>3, AbandonPayloadStep
<1>4. ASSUME NEW o \in ObjectIds, ReleaseObject(o) PROVE IInv'
  BY <1>4, ReleaseObjectStep
<1>5. CASE InsertSpan
  BY <1>5, InsertSpanStep
<1>6. CASE CoalesceSkip
  BY <1>6, CoalesceSkipStep
<1>7. CASE CoalesceMerge
  BY <1>7, CoalesceMergeStep
<1>8. CASE CoalesceDone
  BY <1>8, CoalesceDoneStep
<1>9. CASE TrimTail
  BY <1>9, TrimTailStep
<1>10. CASE TrimDone
  BY <1>10, TrimDoneStep
<1>11. CASE ClearOverlayState
  BY <1>11, ClearOverlayStateStep
<1>12. CASE UNCHANGED vars
  BY <1>12
  DEF vars, IInv, TypeOK, Bounds, HeldWhen, NoOverlap, NoLeak, Separation, ApartBelow, Anchor,
      NoFreeBefore, HeldAnchor, Room, Owners
<1> QED
  BY <1>1, <1>2, <1>3, <1>4, <1>5, <1>6, <1>7, <1>8, <1>9, <1>10, <1>11, <1>12
  DEF Next, ReturnSpan

LEMMA SpecIInv == Spec => []IInv
BY InitIInv, NextIInv, PTL DEF Spec

\* The variables of the arena keep their types.
THEOREM PayloadArenaTypeOK == Spec => []TypeOK
<1>1. IInv => TypeOK
  BY DEF IInv
<1> QED
  BY <1>1, SpecIInv, PTL

\* The fixed array of the free list never overflows, for every object capacity,
\* buffer size and mix of request lengths: the unchecked write of
\* frothy_runtime_add_payload_free_span stays within the array.
THEOREM PayloadArenaFreeListFits == Spec => []FreeListFits
<1>1. IInv => FreeListFits
  BY DEF IInv, Room, FreeListFits
<1> QED
  BY <1>1, SpecIInv, PTL

\* No two owners ever share a unit of the buffer, and no unit below the extent
\* is ever lost.
THEOREM PayloadArenaOneOwner == Spec => []OneOwner
<1>1. IInv => OneOwner
  BY DEF IInv, OneOwner
<1> QED
  BY <1>1, SpecIInv, PTL

\* Between operations the free list is coalesced and trimmed.
THEOREM PayloadArenaCanonical == Spec => []Canonical
<1>1. IInv => Canonical
  <2> SUFFICES ASSUME IInv, pc = "idle"
               PROVE  /\ \A k \in 2 .. Len(spans) : End(spans[k - 1]) < spans[k].offset
                      /\ spans # <<>> => End(spans[Len(spans)]) < extent
    BY DEF Canonical
  <2>1. /\ ApartBelow(Len(spans) + 1)
        /\ \A k \in 1 .. Len(spans) : End(spans[k]) < extent
    BY DEF IInv, Separation
  <2>2. ASSUME NEW k \in 2 .. Len(spans)
        PROVE  End(spans[k - 1]) < spans[k].offset
    <3>1. k - 1 \in 1 .. Len(spans) /\ k \in 1 .. Len(spans) /\ k - 1 < k /\ k < Len(spans) + 1
      BY Fields
    <3> QED
      BY <2>1, <3>1 DEF ApartBelow
  <2>3. spans # <<>> => Len(spans) \in 1 .. Len(spans)
    BY Fields DEF IInv, TypeOK
  <2> QED
    BY <2>1, <2>2, <2>3
<1> QED
  BY <1>1, SpecIInv, PTL

\* Once nothing owns storage the whole arena is free again.
THEOREM PayloadArenaReclaimed == Spec => []ReclaimedWhenEmpty
<1>1. IInv => ReclaimedWhenEmpty
  <2> SUFFICES ASSUME IInv, pc = "idle", Owners = {}
               PROVE  extent = 0 /\ spans = <<>>
    BY DEF ReclaimedWhenEmpty
  <2>1. held.length = 0
    BY DEF IInv, HeldWhen
  <2>2. /\ \A k \in 1 .. Len(spans) : End(spans[k]) < extent
        /\ \A j, k \in 1 .. Len(spans) : j < k => End(spans[j]) <= spans[k].offset
    BY DEF IInv, Separation, NoOverlap
  <2>3. extent = 0
    <3> SUFFICES ASSUME extent > 0 PROVE FALSE
      BY Fields
    <3>1. extent - 1 \in 0 .. extent - 1 /\ extent - 1 \in Nat
      BY Fields
    <3>2. ~Within(extent - 1, held)
      BY <2>1, <3>1, Fields DEF Within, End
    <3>3. PICK k \in 1 .. Len(spans) : Within(extent - 1, spans[k])
      BY <3>1, <3>2 DEF IInv, NoLeak
    <3> QED
      BY <2>2, <3>1, <3>3, Fields DEF Within
  <2>4. Len(spans) = 0
    BY <2>2, <2>3, Fields
  <2> QED
    BY <2>3, <2>4 DEF IInv, TypeOK
<1> QED
  BY <1>1, SpecIInv, PTL
-----------------------------------------------------------------------------
(* payload_bytes_used. *)

UnitsOf(s) == s.offset .. End(s) - 1

\* A span has as many units as its length says.
LEMMA SpanUnits ==
  ASSUME NEW s, s.offset \in Nat, s.length \in Nat
  PROVE  /\ IsFiniteSet(UnitsOf(s)) /\ Cardinality(UnitsOf(s)) = s.length
         /\ \A u \in Nat : u \in UnitsOf(s) <=> Within(u, s)
<1> DEFINE a == s.offset
           b == End(s) - 1
<1>1. a \in Int /\ b \in Int /\ (a > b <=> s.length = 0) /\ b - a + 1 = s.length
  BY DEF End
<1>2. UnitsOf(s) = a .. b
  BY DEF UnitsOf
<1>3. \A u \in Nat : u \in UnitsOf(s) <=> Within(u, s)
  BY <1>1 DEF UnitsOf, Within, End
<1> HIDE DEF a, b
<1>4. IsFiniteSet(a .. b) /\ Cardinality(a .. b) = IF a > b THEN 0 ELSE b - a + 1
  BY <1>1, FS_Interval
<1> QED
  BY <1>1, <1>2, <1>3, <1>4

\* Disjoint spans have no unit in common.
LEMMA DisjointUnits ==
  ASSUME NEW s, NEW t, s.offset \in Nat, s.length \in Nat, t.offset \in Nat, t.length \in Nat,
         Disjoint(s, t), NEW u \in Nat, Within(u, s), Within(u, t)
  PROVE  FALSE
<1>1. s.offset <= u /\ u < s.offset + s.length /\ t.offset <= u /\ u < t.offset + t.length
  BY DEF Within, End
<1>2. s.offset + s.length <= t.offset \/ t.offset + t.length <= s.offset
  BY DEF Disjoint, End
<1> QED
  BY <1>1, <1>2

\* Adding a disjoint span to a set of units.
LEMMA AddSpan ==
  ASSUME NEW S, IsFiniteSet(S), NEW s, s.offset \in Nat, s.length \in Nat,
         \A u \in S : u \notin UnitsOf(s)
  PROVE  /\ IsFiniteSet(S \cup UnitsOf(s))
         /\ Cardinality(S \cup UnitsOf(s)) = Cardinality(S) + s.length
<1> DEFINE T == UnitsOf(s)
<1>1. IsFiniteSet(T) /\ Cardinality(T) = s.length
  BY SpanUnits
<1>2. S \cap T = {}
  OBVIOUS
<1> HIDE DEF T
<1>3. /\ IsFiniteSet(S \cup T)
      /\ Cardinality(S \cup T) = Cardinality(S) + Cardinality(T) - Cardinality(S \cap T)
  BY <1>1, FS_Union
<1>4. Cardinality(S \cap T) = 0 /\ Cardinality(S) \in Nat
  BY <1>2, FS_EmptySet, FS_CardinalityType
<1>5. Cardinality(S \cup T) = Cardinality(S) + s.length
  BY <1>1, <1>3, <1>4
<1> QED
  BY <1>3, <1>5 DEF T

LEMMA OwnedFacts ==
  ASSUME IInv
  PROVE  /\ IsFiniteSet(OwnedUnits) /\ OwnedUnits \subseteq Nat
         /\ \A o \in Owners, u \in Nat : Within(u, payload[o]) => u \in 0 .. PayloadCapacity - 1
         /\ \A u \in Nat : Within(u, held) => u \in 0 .. PayloadCapacity - 1
<1>1. OwnedUnits \subseteq 0 .. PayloadCapacity - 1
  BY DEF OwnedUnits
<1>2. IsFiniteSet(0 .. PayloadCapacity - 1)
  <2>1. 0 \in Int /\ PayloadCapacity - 1 \in Int
    BY PayloadCapacityAssumption
  <2> QED
    BY <2>1, FS_Interval
<1>3. IsFiniteSet(OwnedUnits)
  BY <1>1, <1>2, FS_Subset
<1>4. extent <= PayloadCapacity /\ extent \in Nat
  BY PayloadCapacityAssumption DEF IInv, TypeOK
<1>5. \A o \in Owners, u \in Nat : Within(u, payload[o]) => u \in 0 .. PayloadCapacity - 1
  BY <1>4, Fields, PayloadCapacityAssumption DEF Within
<1>6. \A u \in Nat : Within(u, held) => u \in 0 .. PayloadCapacity - 1
  <2>1. \A u \in Nat : Within(u, held) => held.length > 0
    BY Fields DEF Within, End
  <2> QED
    BY <1>4, <2>1, Fields, PayloadCapacityAssumption DEF Within
<1> QED
  BY <1>1, <1>3, <1>5, <1>6

\* A step that touches neither the objects nor an allocation.
LEMMA AccountingSame ==
  ASSUME Accounting, UNCHANGED <<payload, used>>, pc # "append", pc' # "append"
  PROVE  Accounting'
<1>1. Owners' = Owners
  BY DEF Owners
<1>2. OwnedUnits' = OwnedUnits
  BY <1>1 DEF OwnedUnits
<1> QED
  BY <1>2 DEF Accounting

\* The span a caller gets is counted at once.
LEMMA AllocPayloadCounts ==
  ASSUME IInv, IInv', Accounting, NEW reserved \in Requests, AllocPayload(reserved)
  PROVE  Accounting'
<1>1. /\ pc = "idle" /\ pc' = "append" /\ used' = used + reserved /\ payload' = payload
      /\ reserved \in Nat
  BY RequestsAssumption DEF AllocPayload
<1>2. held'.length = reserved
  BY DEF AllocPayload, TakeFreeSpan, ExtendArena, NoSpan
<1>3. held'.offset \in Nat /\ held'.length \in Nat
  BY SpanFields DEF IInv, TypeOK, Span
<1>4. Owners' = Owners
  BY <1>1 DEF Owners
<1>5. \A u \in OwnedUnits : u \in Nat /\ \E o \in Owners : Within(u, payload[o])
  BY <1>1, PayloadCapacityAssumption DEF OwnedUnits
<1>6. \A u \in OwnedUnits : u \notin UnitsOf(held')
  <2> SUFFICES ASSUME NEW u \in OwnedUnits, u \in UnitsOf(held') PROVE FALSE
    OBVIOUS
  <2>1. PICK o \in Owners : Within(u, payload[o])
    BY <1>5
  <2>2. u \in Nat /\ Within(u, held') /\ o \in ObjectIds
    BY <1>3, <1>5, SpanUnits DEF Owners
  <2>3. held'.length > 0
    BY <1>3, <2>2 DEF Within, End
  <2>4. Disjoint(held', payload[o])
    BY <1>1, <1>4, <2>3 DEF IInv, NoOverlap
  <2>5. payload[o].offset \in Nat /\ payload[o].length \in Nat
    BY <2>2, Fields
  <2> QED
    BY <1>3, <2>1, <2>2, <2>4, <2>5, DisjointUnits
<1>7. OwnedUnits' = OwnedUnits \cup UnitsOf(held')
  <2>1. \A u \in Nat : Within(u, held') => u \in 0 .. PayloadCapacity - 1
    <3>1. extent' \in 0 .. PayloadCapacity /\ (held'.length > 0 => End(held') <= extent')
      BY DEF IInv, TypeOK, Bounds
    <3>2. End(held') \in Nat /\ \A u \in Nat : Within(u, held') => held'.length > 0 /\ u < End(held')
      BY <1>3 DEF Within, End
    <3> QED
      BY <3>1, <3>2, PayloadCapacityAssumption
  <2>2. \A u \in UnitsOf(held') : u \in Nat /\ Within(u, held')
    BY <1>3 DEF UnitsOf, Within, End
  <2>3. ASSUME NEW u \in OwnedUnits' PROVE u \in OwnedUnits \cup UnitsOf(held')
    <3>1. u \in 0 .. PayloadCapacity - 1 /\ u \in Nat
          /\ ((\E o \in Owners : Within(u, payload[o])) \/ Within(u, held'))
      BY <1>1, <1>4, <2>3, PayloadCapacityAssumption DEF OwnedUnits
    <3> QED
      BY <1>3, <3>1, SpanUnits DEF OwnedUnits
  <2>4. ASSUME NEW u \in OwnedUnits PROVE u \in OwnedUnits'
    <3>1. u \in 0 .. PayloadCapacity - 1 /\ \E o \in Owners : Within(u, payload[o])
      BY <1>5, <2>4 DEF OwnedUnits
    <3> QED
      BY <1>1, <1>4, <3>1 DEF OwnedUnits
  <2>5. ASSUME NEW u \in UnitsOf(held') PROVE u \in OwnedUnits'
    BY <1>1, <2>1, <2>2, <2>5 DEF OwnedUnits
  <2> QED
    BY <2>3, <2>4, <2>5
<1>8. Cardinality(OwnedUnits \cup UnitsOf(held')) = Cardinality(OwnedUnits) + held'.length
  BY <1>3, <1>6, OwnedFacts, AddSpan
<1> QED
  BY <1>1, <1>2, <1>7, <1>8 DEF Accounting

\* An object takes over what its allocator held.
LEMMA AppendObjectCounts ==
  ASSUME IInv, Accounting, AppendObject
  PROVE  Accounting'
<1>1. /\ pc = "append" /\ pc' = "idle" /\ used' = used
      /\ \E o \in ObjectIds \ live : payload' = [payload EXCEPT ![o] = held]
  BY DEF AppendObject
<1>2. PICK o \in ObjectIds \ live : payload' = [payload EXCEPT ![o] = held]
  BY <1>1
<1>3. o \notin Owners /\ (\A q \in Owners : q \in ObjectIds)
  BY DEF IInv, Bounds, Owners
<1>4. payload'[o] = held /\ \A q \in ObjectIds : q # o => payload'[q] = payload[q]
  BY <1>2 DEF IInv, TypeOK
<1>5. \A q \in Owners : q \in Owners' /\ payload'[q] = payload[q]
  BY <1>3, <1>4 DEF Owners
<1>6. \A q \in Owners' : (q = o /\ payload'[q] = held) \/ (q \in Owners /\ payload'[q] = payload[q])
  BY <1>4 DEF Owners
<1>7. \A u \in Nat : Within(u, held) => o \in Owners'
  BY <1>4, Fields DEF Within, End, Owners
<1>8. OwnedUnits' = OwnedUnits
  <2>1. ASSUME NEW u \in OwnedUnits' PROVE u \in OwnedUnits
    <3>1. u \in 0 .. PayloadCapacity - 1 /\ \E q \in Owners' : Within(u, payload'[q])
      BY <1>1, <2>1 DEF OwnedUnits
    <3> QED
      BY <1>1, <1>6, <3>1 DEF OwnedUnits
  <2>2. ASSUME NEW u \in OwnedUnits PROVE u \in OwnedUnits'
    <3>1. /\ u \in 0 .. PayloadCapacity - 1 /\ u \in Nat
          /\ (\E q \in Owners : Within(u, payload[q])) \/ Within(u, held)
      BY <2>2, PayloadCapacityAssumption DEF OwnedUnits
    <3>2. \E q \in Owners' : Within(u, payload'[q])
      BY <1>4, <1>5, <1>7, <3>1
    <3> QED
      BY <3>1, <3>2 DEF OwnedUnits
  <2> QED
    BY <2>1, <2>2
<1> QED
  BY <1>1, <1>8 DEF Accounting

\* What is given back was counted, and is counted no more.
LEMMA GiveBack ==
  ASSUME IInv, Accounting, NEW s, s.offset \in Nat, s.length \in Nat,
         used' = used - s.length, OwnedUnits = OwnedUnits' \cup UnitsOf(s),
         \A u \in OwnedUnits' : u \notin UnitsOf(s)
  PROVE  Accounting'
<1>1. IsFiniteSet(OwnedUnits')
  <2>1. OwnedUnits' \subseteq OwnedUnits
    OBVIOUS
  <2> QED
    BY <2>1, OwnedFacts, FS_Subset
<1>2. Cardinality(OwnedUnits) = Cardinality(OwnedUnits') + s.length
  BY <1>1, AddSpan
<1>3. Cardinality(OwnedUnits') \in Nat
  BY <1>1, FS_CardinalityType
<1> QED
  BY <1>2, <1>3 DEF Accounting

LEMMA AbandonPayloadCounts ==
  ASSUME IInv, Accounting, AbandonPayload
  PROVE  Accounting'
<1>1. /\ pc = "append" /\ pc' # "append" /\ used' = used - held.length /\ payload' = payload
  BY DEF AbandonPayload, ReleasePayload
<1>2. held.offset \in Nat /\ held.length \in Nat
  BY Fields
<1>3. Owners' = Owners
  BY <1>1 DEF Owners
<1>4. \A u \in OwnedUnits' : /\ u \in 0 .. PayloadCapacity - 1 /\ u \in Nat
                             /\ \E o \in Owners : Within(u, payload[o])
  BY <1>1, <1>3, PayloadCapacityAssumption DEF OwnedUnits
<1>5. \A u \in OwnedUnits' : u \notin UnitsOf(held)
  <2> SUFFICES ASSUME NEW u \in OwnedUnits', u \in UnitsOf(held) PROVE FALSE
    OBVIOUS
  <2>1. PICK o \in Owners : Within(u, payload[o])
    BY <1>4
  <2>2. u \in Nat /\ Within(u, held) /\ o \in ObjectIds
    BY <1>2, <1>4, SpanUnits DEF Owners
  <2>3. held.length > 0
    BY <1>2, <2>2 DEF Within, End
  <2>4. Disjoint(held, payload[o])
    BY <2>3 DEF IInv, NoOverlap
  <2>5. payload[o].offset \in Nat /\ payload[o].length \in Nat
    BY <2>2, Fields
  <2> QED
    BY <1>2, <2>1, <2>2, <2>4, <2>5, DisjointUnits
<1>6. OwnedUnits = OwnedUnits' \cup UnitsOf(held)
  <2>1. \A u \in UnitsOf(held) : u \in Nat /\ Within(u, held)
    BY <1>2 DEF UnitsOf, Within, End
  <2>2. ASSUME NEW u \in OwnedUnits PROVE u \in OwnedUnits' \cup UnitsOf(held)
    <3>1. /\ u \in 0 .. PayloadCapacity - 1 /\ u \in Nat
          /\ (\E q \in Owners : Within(u, payload[q])) \/ Within(u, held)
      BY <2>2, PayloadCapacityAssumption DEF OwnedUnits
    <3>2. Within(u, held) => u \in UnitsOf(held)
      BY <1>2, <3>1, SpanUnits
    <3>3. (\E q \in Owners : Within(u, payload[q])) => u \in OwnedUnits'
      BY <1>1, <1>3, <3>1 DEF OwnedUnits
    <3> QED
      BY <3>1, <3>2, <3>3
  <2>3. ASSUME NEW u \in OwnedUnits' PROVE u \in OwnedUnits
    BY <1>4, <2>3 DEF OwnedUnits
  <2>4. ASSUME NEW u \in UnitsOf(held) PROVE u \in OwnedUnits
    BY <1>1, <2>1, <2>4, OwnedFacts DEF OwnedUnits
  <2> QED
    BY <2>2, <2>3, <2>4
<1> QED
  BY <1>1, <1>2, <1>5, <1>6, GiveBack

LEMMA ReleaseObjectCounts ==
  ASSUME IInv, Accounting, NEW o \in ObjectIds, ReleaseObject(o)
  PROVE  Accounting'
<1> DEFINE s == payload[o]
<1>1. /\ pc = "idle" /\ pc' # "append" /\ used' = used - s.length
      /\ payload' = [payload EXCEPT ![o] = NoSpan]
  BY DEF ReleaseObject, ReleasePayload
<1>2. s.offset \in Nat /\ s.length \in Nat
  BY Fields
<1>3. payload'[o].length = 0 /\ \A q \in ObjectIds : q # o => payload'[q] = payload[q]
  BY <1>1 DEF IInv, TypeOK, NoSpan
<1>4. \A q \in Owners' : q # o /\ q \in Owners /\ payload'[q] = payload[q]
  BY <1>3 DEF Owners
<1>5. \A q \in Owners : q # o => q \in Owners' /\ payload'[q] = payload[q]
  BY <1>3 DEF Owners
<1>6. \A u \in OwnedUnits' : /\ u \in 0 .. PayloadCapacity - 1 /\ u \in Nat
                             /\ \E q \in Owners : q # o /\ Within(u, payload[q])
  <2> TAKE u \in OwnedUnits'
  <2>1. u \in 0 .. PayloadCapacity - 1 /\ \E q \in Owners' : Within(u, payload'[q])
    BY <1>1 DEF OwnedUnits
  <2> QED
    BY <1>4, <2>1, PayloadCapacityAssumption
<1>7. s.length > 0 => o \in Owners
  BY DEF Owners
<1> HIDE DEF s
<1>8. \A u \in OwnedUnits' : u \notin UnitsOf(s)
  <2> SUFFICES ASSUME NEW u \in OwnedUnits', u \in UnitsOf(s) PROVE FALSE
    OBVIOUS
  <2>1. PICK q \in Owners : q # o /\ Within(u, payload[q])
    BY <1>6
  <2>2. u \in Nat /\ Within(u, s) /\ q \in ObjectIds
    BY <1>2, <1>6, SpanUnits DEF Owners
  <2>3. s.length > 0
    BY <1>2, <2>2 DEF Within, End
  <2>4. Disjoint(s, payload[q])
    BY <1>7, <2>1, <2>3 DEF IInv, NoOverlap, s
  <2>5. payload[q].offset \in Nat /\ payload[q].length \in Nat
    BY <2>2, Fields
  <2> QED
    BY <1>2, <2>1, <2>2, <2>4, <2>5, DisjointUnits
<1>9. OwnedUnits = OwnedUnits' \cup UnitsOf(s)
  <2>1. \A u \in UnitsOf(s) : u \in Nat /\ Within(u, s) /\ s.length > 0
    BY <1>2 DEF UnitsOf, Within, End
  <2>2. ASSUME NEW u \in OwnedUnits PROVE u \in OwnedUnits' \cup UnitsOf(s)
    <3>1. /\ u \in 0 .. PayloadCapacity - 1 /\ u \in Nat
          /\ \E q \in Owners : Within(u, payload[q])
      BY <1>1, <2>2, PayloadCapacityAssumption DEF OwnedUnits
    <3>2. PICK q \in Owners : Within(u, payload[q])
      BY <3>1
    <3>3. CASE q = o
      BY <1>2, <3>1, <3>2, <3>3, SpanUnits DEF s
    <3>4. CASE q # o
      BY <1>5, <3>1, <3>2, <3>4 DEF OwnedUnits
    <3> QED
      BY <3>3, <3>4
  <2>3. ASSUME NEW u \in OwnedUnits' PROVE u \in OwnedUnits
    BY <1>6, <2>3 DEF OwnedUnits
  <2>4. ASSUME NEW u \in UnitsOf(s) PROVE u \in OwnedUnits
    <3>1. u \in Nat /\ Within(u, payload[o]) /\ o \in Owners
      BY <1>7, <2>1, <2>4 DEF s
    <3> QED
      BY <3>1, OwnedFacts DEF OwnedUnits
  <2> QED
    BY <2>2, <2>3, <2>4
<1> QED
  BY <1>1, <1>2, <1>8, <1>9, GiveBack

LEMMA ClearOverlayStateCounts ==
  ASSUME IInv, ClearOverlayState
  PROVE  Accounting'
<1>1. pc' = "idle" /\ live = {} /\ used' = 0 /\ payload' = payload
  BY DEF ClearOverlayState
<1>2. Owners' = {}
  BY <1>1 DEF IInv, Bounds, Owners
<1>3. OwnedUnits' = {}
  BY <1>1, <1>2 DEF OwnedUnits
<1> QED
  BY <1>1, <1>3, FS_EmptySet DEF Accounting

\* payload_bytes_used is the number of units that objects and running
\* allocators hold, so that its unchecked decrement never wraps, whichever
\* allocation failed and however it was undone.
THEOREM PayloadArenaAccounting == Spec => []Accounting
<1>1. Init => Accounting
  <2> SUFFICES ASSUME Init PROVE Accounting
    OBVIOUS
  <2>1. pc = "idle" /\ used = 0 /\ Owners = {}
    BY DEF Init, Owners, NoSpan
  <2>2. OwnedUnits = {}
    BY <2>1 DEF OwnedUnits
  <2> QED
    BY <2>1, <2>2, FS_EmptySet DEF Accounting
<1>2. IInv /\ IInv' /\ Accounting /\ [Next]_vars => Accounting'
  <2> SUFFICES ASSUME IInv, IInv', Accounting, [Next]_vars PROVE Accounting'
    OBVIOUS
  <2>1. ASSUME NEW reserved \in Requests, AllocPayload(reserved) PROVE Accounting'
    BY <2>1, AllocPayloadCounts
  <2>2. CASE AppendObject
    BY <2>2, AppendObjectCounts
  <2>3. CASE AbandonPayload
    BY <2>3, AbandonPayloadCounts
  <2>4. ASSUME NEW o \in ObjectIds, ReleaseObject(o) PROVE Accounting'
    BY <2>4, ReleaseObjectCounts
  <2>5. CASE ReturnSpan
    <3>1. UNCHANGED <<payload, used>> /\ pc # "append" /\ pc' # "append"
      BY <2>5 DEF ReturnSpan, InsertSpan, CoalesceSkip, CoalesceMerge, CoalesceDone,
                  TrimTail, TrimDone
    <3> QED
      BY <3>1, AccountingSame
  <2>6. CASE ClearOverlayState
    BY <2>6, ClearOverlayStateCounts
  <2>7. CASE UNCHANGED vars
    BY <2>7 DEF vars, Accounting, OwnedUnits, Owners
  <2> QED
    BY <2>1, <2>2, <2>3, <2>4, <2>5, <2>6, <2>7 DEF Next
<1> QED
  BY <1>1, <1>2, SpecIInv, PTL DEF Spec
=============================================================================
