--------------------------- MODULE BaseImageProofs ---------------------------
(***************************************************************************)
(* Proofs about BaseImage for every base image and every capacity.         *)
(*                                                                         *)
(* The reset finds the base slots by their place: it clears the first      *)
(* frothy_base_slot_count slots and drops the overlay.  That this gives    *)
(* back the base image rests on the layout of the slot table: the base     *)
(* names come first, in the order of their installation, everything after  *)
(* them belongs to the program.  A reset that is cut short breaks it until *)
(* the device is started again, and then only the types are left.          *)
(***************************************************************************)
EXTENDS BaseImage, FiniteSetTheorems, SequenceTheorems, NaturalsInduction, TLAPS

----------------------------------------------------------------------------
(* The inductive invariant.                                                *)

Size == Len(BaseSeq)

BoundTo(tab, id) == {k \in DOMAIN tab : tab[k].impl = id}

LiveIds(objs) == {id \in Ids : Live(objs, id)}

(* The base image fits: an install never runs out of objects.              *)
RoomInv == phase = "install" => Cardinality(LiveIds(objects)) <= pos

(* Where the names are.                                                    *)
LayoutInv ==
  \A k \in DOMAIN slots :
    /\ k <= Size => slots[k].name = BaseSeq[k] /\ slots[k].at = 0
    /\ k > Size => /\ slots[k].name \in UserNames \ BaseNames
                   /\ slots[k].overlay
                   /\ slots[k].at = k - Size
    /\ \A j \in DOMAIN slots : slots[j].name = slots[k].name => j = k

(* How far an install has got.                                             *)
PhaseInv ==
  /\ phase = "install" => Len(slots) = IF booted THEN Size ELSE pos
  /\ phase = "install" => heap = 0
  /\ phase = "idle" => /\ booted /\ status = "ok"
                       /\ pos = Size /\ registry = Size
                       /\ Len(slots) = Size + heap
  /\ phase # "off"

(* What the base slots are bound to.                                       *)
BaseBound(k) ==
  IF BaseSeq[k] = Boot THEN slots[k].impl = Unbound
  ELSE slots[k].impl \in Ids /\ objects[slots[k].impl].of = BaseSeq[k]

BoundInv ==
  \A k \in DOMAIN slots :
    /\ slots[k].overlay => phase = "idle" /\ slots[k].impl \in Ids
    /\ k <= pos /\ k <= Size /\ ~slots[k].overlay => BaseBound(k)
    /\ k > pos /\ k <= Size => slots[k].impl = Unbound

CountInv == \A id \in Ids : objects[id].refs = Cardinality(BoundTo(slots, id))

Uncut == LayoutInv /\ PhaseInv /\ BoundInv /\ CountInv

IInv == TypeOK /\ RoomInv /\ (cut \/ Uncut)

----------------------------------------------------------------------------
(* Facts about the constants.                                              *)

LEMMA BaseFacts ==
  /\ BaseSeq \in Seq(BaseNames) /\ Size \in Nat
  /\ Len(Natives) \in Nat /\ Len(Natives \o Ffi) \in Nat
  /\ \A i \in 1 .. Size : BaseSeq[i] \in BaseNames
  /\ \A n \in BaseNames : \E i \in 1 .. Size : BaseSeq[i] = n
  /\ \A i, j \in 1 .. Size : BaseSeq[i] = BaseSeq[j] => i = j
  /\ \A i \in 1 .. Size : BaseSeq[i] = Boot => i <= Len(Natives)
  /\ Size <= SlotCapacity /\ Size <= ObjectCapacity
  /\ SlotCapacity \in Nat /\ ObjectCapacity \in Nat /\ Unbound \notin Ids
<1>1. /\ Natives \in Seq(BaseNames) /\ Ffi \in Seq(BaseNames) /\ Lib \in Seq(BaseNames)
  BY BaseImageAssumption
<1>2. Natives \o Ffi \in Seq(BaseNames) /\ Len(Natives \o Ffi) = Len(Natives) + Len(Ffi)
  BY <1>1, ConcatProperties
<1>3. (Natives \o Ffi) \o Lib \in Seq(BaseNames)
  BY <1>1, <1>2, ConcatProperties
<1>4. BaseSeq = (Natives \o Ffi) \o Lib
  BY DEF BaseSeq
<1>5. BaseSeq \in Seq(BaseNames) /\ Size \in Nat /\ DOMAIN BaseSeq = 1 .. Size
  BY <1>3, <1>4, LenProperties DEF Size
<1>6. PICK b \in 1 .. Len(Natives) : Natives[b] = Boot
  BY <1>1, LenProperties, BaseImageAssumption
<1>7. Len(Natives) \in Nat /\ Len(Ffi) \in Nat /\ Len(Lib) \in Nat
  BY <1>1, LenProperties
<1>8. (Natives \o Ffi)[b] = Boot
  BY <1>1, <1>6, <1>7, ConcatProperties
<1>9. BaseSeq[b] = Boot /\ b \in 1 .. Size
  BY <1>1, <1>2, <1>4, <1>6, <1>7, <1>8, ConcatProperties DEF Size
<1>10. \A i, j \in 1 .. Size : BaseSeq[i] = BaseSeq[j] => i = j
  BY <1>5, BaseImageAssumption
<1>11. /\ \A i \in 1 .. Size : BaseSeq[i] \in BaseNames
       /\ \A n \in BaseNames : \E i \in 1 .. Size : BaseSeq[i] = n
  BY <1>5 DEF BaseNames
<1>12. \A i \in 1 .. Size : BaseSeq[i] = Boot => i <= Len(Natives)
  BY <1>6, <1>7, <1>9, <1>10
<1> QED
  BY <1>2, <1>5, <1>7, <1>10, <1>11, <1>12, BaseImageAssumption DEF Size, Ids

(* A set of numbers has a least one: among the sets of members up to k, for *)
(* every member k, there is one that contains no other.                    *)
LEMMA LeastNumber ==
  ASSUME NEW S \in SUBSET Nat, S # {}
  PROVE  \E m \in S : \A k \in S : m <= k
<1> DEFINE Below(k) == {j \in S : j <= k}
           F == {Below(k) : k \in S}
           R == StrictSubsetOrdering(Nat)
<1>1. ASSUME NEW k \in S PROVE Below(k) \in FiniteSubsetsOf(Nat)
  <2>1. Below(k) \in SUBSET Nat /\ k \in Nat /\ \A j \in Below(k) : j <= k
    OBVIOUS
  <2>2. IsFiniteSet(Below(k))
    BY <2>1, FS_BoundedSetOfNaturals
  <2> QED
    BY <2>1, <2>2 DEF FiniteSubsetsOf
<1>2. F \subseteq FiniteSubsetsOf(Nat) /\ F # {}
  BY <1>1
<1>3. PICK x \in F : \A y \in F : ~(<<y, x>> \in R)
  <2> HIDE DEF F
  <2> QED
    BY <1>2, FS_StrictSubsetOrderingWellFounded, WFMin
<1>4. PICK m \in S : x = Below(m)
  BY <1>3
<1>5. ASSUME NEW k \in S, k < m PROVE <<Below(k), Below(m)>> \in R
  <2>0. S \subseteq Nat /\ k \in Nat /\ m \in Nat /\ k < m
    BY <1>5
  <2>1a. \A j \in Nat : j <= k => j <= m
    BY <2>0
  <2>1b. m <= m /\ ~(m <= k)
    BY <2>0
  <2>1. Below(k) \subseteq Below(m) /\ m \in Below(m) /\ m \notin Below(k)
    BY <2>0, <2>1a, <2>1b
  <2>2. Below(k) \in SUBSET Nat /\ Below(m) \in SUBSET Nat
    OBVIOUS
  <2> QED
    BY <2>1, <2>2 DEF StrictSubsetOrdering
<1>6. ASSUME NEW k \in S PROVE ~(k < m)
  BY <1>3, <1>4, <1>5
<1> QED
  BY <1>4, <1>6

(* A set of places of a sequence has a first and a last one.               *)
LEMMA LastPlace ==
  ASSUME NEW n \in Nat, NEW S \in SUBSET (1 .. n), S # {}
  PROVE  \E m \in S : \A k \in S : k <= m
<1> DEFINE T == {k \in Nat : \E s \in S : k = n - s}
<1>1. PICK e \in S : e \in 1 .. n
  OBVIOUS
<1>1a. n - e \in T /\ T \in SUBSET Nat
  BY <1>1
<1>2. PICK t \in T : \A k \in T : t <= k
  <2> HIDE DEF T
  <2> QED BY <1>1a, LeastNumber
<1>3. PICK m \in S : t = n - m
  BY <1>2
<1>4. \A k \in S : k \in 1 .. n /\ n - k \in T
  OBVIOUS
<1>5. \A k \in S : n - m <= n - k
  BY <1>2, <1>3, <1>4
<1> QED
  BY <1>3, <1>4, <1>5

----------------------------------------------------------------------------
(* Objects.                                                                *)

ObjectTable == [Ids -> [of : BaseNames \cup {User}, refs : Nat]]

LEMMA FreshFacts ==
  ASSUME NEW objs \in ObjectTable, HasRoom(objs)
  PROVE  Fresh(objs) \in Ids /\ objs[Fresh(objs)].refs = 0
<1> DEFINE S == {id \in Ids : ~Live(objs, id)}
<1>1. S # {} /\ S \in SUBSET Nat
  BY BaseFacts DEF HasRoom, Ids
<1>2. PICK m \in S : \A k \in S : m <= k
  <2> HIDE DEF S
  <2> QED BY <1>1, LeastNumber
<1>3. m \in Ids /\ ~Live(objs, m) /\ \A k \in Ids : k < m => Live(objs, k)
  BY <1>2, BaseFacts DEF Ids
<1>4. Fresh(objs) \in Ids /\ ~Live(objs, Fresh(objs))
  BY <1>3 DEF Fresh
<1> QED
  BY <1>4 DEF Live, ObjectTable

(* What an operation does to the table, object by object.                  *)
LEMMA NewObjectFacts ==
  ASSUME NEW objs \in ObjectTable, HasRoom(objs), NEW def \in BaseNames \cup {User}
  PROVE  /\ NewObject(objs, def) \in ObjectTable
         /\ \A x \in Ids : NewObject(objs, def)[x] =
              IF x = Fresh(objs) THEN [of |-> def, refs |-> 1] ELSE objs[x]
BY FreshFacts DEF NewObject, ObjectTable

LEMMA RetainFacts ==
  ASSUME NEW objs \in ObjectTable, NEW id \in Ids
  PROVE  /\ Retain(objs, id) \in ObjectTable
         /\ \A x \in Ids :
              /\ Retain(objs, id)[x].of = objs[x].of
              /\ Retain(objs, id)[x].refs = objs[x].refs + (IF x = id THEN 1 ELSE 0)
BY DEF Retain, ObjectTable

LEMMA ReleaseFacts ==
  ASSUME NEW objs \in ObjectTable, NEW id \in Ids, Live(objs, id)
  PROVE  /\ Release(objs, id) \in ObjectTable
         /\ \A x \in Ids :
              /\ Release(objs, id)[x].of = objs[x].of
              /\ Release(objs, id)[x].refs = objs[x].refs - (IF x = id THEN 1 ELSE 0)
BY DEF Release, ObjectTable, Live

(* One object more is at most one live object more.                        *)
LEMMA LiveCount ==
  ASSUME NEW objs \in ObjectTable
  PROVE  /\ IsFiniteSet(LiveIds(objs)) /\ Cardinality(LiveIds(objs)) \in Nat
         /\ Cardinality(LiveIds(objs)) < ObjectCapacity => HasRoom(objs)
<1>1. IsFiniteSet(Ids) /\ Cardinality(Ids) = ObjectCapacity
  <2>1. /\ IsFiniteSet(0 .. ObjectCapacity - 1)
        /\ Cardinality(0 .. ObjectCapacity - 1) =
             IF 0 > ObjectCapacity - 1 THEN 0 ELSE ObjectCapacity - 1 - 0 + 1
    <3>1. 0 \in Int /\ ObjectCapacity - 1 \in Int
      BY BaseFacts
    <3> QED
      BY <3>1, FS_Interval
  <2> QED
    BY <2>1, BaseFacts DEF Ids
<1>2. LiveIds(objs) \in SUBSET Ids
  BY DEF LiveIds
<1>3. IsFiniteSet(LiveIds(objs)) /\ Cardinality(LiveIds(objs)) \in Nat
  BY <1>1, <1>2, FS_Subset, FS_CardinalityType
<1>4. ASSUME ~HasRoom(objs) PROVE LiveIds(objs) = Ids
  BY <1>4 DEF HasRoom, LiveIds
<1> QED
  BY <1>1, <1>3, <1>4, BaseFacts

LEMMA LiveGrows ==
  ASSUME NEW objs \in ObjectTable, NEW more \in ObjectTable, NEW id \in Ids,
         \A x \in Ids : x # id => more[x].refs <= objs[x].refs
  PROVE  Cardinality(LiveIds(more)) <= Cardinality(LiveIds(objs)) + 1
<1>1. LiveIds(more) \in SUBSET (LiveIds(objs) \cup {id})
  BY DEF LiveIds, Live, ObjectTable
<1>2. /\ IsFiniteSet(LiveIds(objs)) /\ Cardinality(LiveIds(objs)) \in Nat
      /\ Cardinality(LiveIds(more)) \in Nat
  BY LiveCount
<1>3. /\ IsFiniteSet(LiveIds(objs) \cup {id})
      /\ Cardinality(LiveIds(objs) \cup {id}) <= Cardinality(LiveIds(objs)) + 1
  <2>1. /\ IsFiniteSet(LiveIds(objs) \cup {id})
        /\ Cardinality(LiveIds(objs) \cup {id}) =
             IF id \in LiveIds(objs) THEN Cardinality(LiveIds(objs))
             ELSE Cardinality(LiveIds(objs)) + 1
    BY <1>2, FS_AddElement
  <2> QED
    BY <2>1, <1>2
<1>4. Cardinality(LiveIds(more)) <= Cardinality(LiveIds(objs) \cup {id})
  BY <1>1, <1>3, FS_Subset
<1>5. Cardinality(LiveIds(objs) \cup {id}) \in Nat
  BY <1>3, FS_CardinalityType
<1> QED
  BY <1>2, <1>3, <1>4, <1>5

----------------------------------------------------------------------------
(* Slots.                                                                  *)

LEMMA FindFacts ==
  ASSUME NEW tab \in Seq(Slot), NEW n, Named(tab, n) # {}
  PROVE  Find(tab, n) \in 1 .. Len(tab) /\ tab[Find(tab, n)].name = n
<1>1. Named(tab, n) \in SUBSET Nat
  BY LenProperties DEF Named
<1>2. PICK m \in Named(tab, n) : \A k \in Named(tab, n) : m <= k
  BY <1>1, LeastNumber
<1>3. Find(tab, n) \in Named(tab, n)
  BY <1>2 DEF Find
<1> QED
  BY <1>3, LenProperties DEF Named

(* The table after a name is found or made, slot by slot.                  *)
FoundAs(n, f, i) ==
  /\ f \in Seq(Slot) /\ Len(f) \in Nat /\ Len(f) <= SlotCapacity
  /\ i \in 1 .. Len(f) /\ f[i].name = n
  /\ Named(slots, n) # {} => /\ f = slots /\ i \in 1 .. Len(slots)
                             /\ slots[i].name = n /\ OldImpl(n) = slots[i].impl
  /\ Named(slots, n) = {} =>
       /\ Len(f) = Len(slots) + 1 /\ i = Len(slots) + 1
       /\ OldImpl(n) = Unbound
       /\ f[i].at = IF booted THEN heap + 1 ELSE 0
       /\ \A k \in 1 .. Len(slots) :
            /\ f[k].impl = slots[k].impl /\ f[k].overlay = slots[k].overlay
            /\ ~(booted /\ slots[k].at = heap + 1) => f[k] = slots[k]

LEMMA FindOrCreateFacts ==
  ASSUME TypeOK, NEW n \in BaseNames \cup UserNames, CanFindOrCreate(n)
  PROVE  FoundAs(n, FindOrCreate(n), IndexOf(n))
<1> DEFINE f == FindOrCreate(n)
           i == IndexOf(n)
<1>1. slots \in Seq(Slot) /\ Len(slots) \in Nat /\ DOMAIN slots = 1 .. Len(slots)
  BY LenProperties DEF TypeOK
<1>2. CASE Named(slots, n) # {}
  <2>1. f = slots /\ i = Find(slots, n) /\ OldImpl(n) = slots[i].impl
    BY <1>2 DEF FindOrCreate, IndexOf, OldImpl
  <2>2. i \in 1 .. Len(slots) /\ slots[i].name = n
    BY <1>1, <1>2, <2>1, FindFacts
  <2> HIDE DEF f, i
  <2>2a. Len(slots) \in Nat /\ Len(slots) <= SlotCapacity /\ slots \in Seq(Slot)
    BY <1>1 DEF TypeOK
  <2>3. FoundAs(n, f, i)
    BY <1>2, <2>1, <2>2, <2>2a DEF FoundAs
  <2> QED
    BY <2>3 DEF f, i
<1>3. CASE Named(slots, n) = {}
  <2> DEFINE new == [name |-> n, impl |-> Unbound, overlay |-> FALSE,
                     at |-> IF booted THEN heap + 1 ELSE 0]
             old == [k \in DOMAIN slots |->
                       IF booted /\ slots[k].at = heap + 1 THEN [slots[k] EXCEPT !.name = n]
                       ELSE slots[k]]
  <2>1. f = Append(old, new) /\ i = Len(slots) + 1 /\ OldImpl(n) = Unbound
    BY <1>3 DEF FindOrCreate, IndexOf, OldImpl, Create
  <2>2. new \in Slot
    BY DEF Slot, TypeOK
  <2>3. \A k \in 1 .. Len(slots) : slots[k] \in Slot
    BY <1>1
  <2>4. \A k \in 1 .. Len(slots) :
          /\ old[k] \in Slot
          /\ old[k].impl = slots[k].impl /\ old[k].overlay = slots[k].overlay
          /\ ~(booted /\ slots[k].at = heap + 1) => old[k] = slots[k]
    BY <1>1, <2>3 DEF Slot
  <2>5. old \in Seq(Slot) /\ Len(old) = Len(slots)
    <3>1. old \in [1 .. Len(slots) -> Slot]
      BY <1>1, <2>4
    <3> HIDE DEF old
    <3> QED
      BY <1>1, <3>1, SeqDef, LenProperties
  <2>6. Len(slots) < SlotCapacity
    BY <1>3 DEF CanFindOrCreate
  <2>7. /\ f \in Seq(Slot) /\ Len(f) = Len(slots) + 1 /\ f[Len(slots) + 1] = new
        /\ \A k \in 1 .. Len(slots) : f[k] = old[k]
    <3> HIDE DEF old, new, f, i
    <3> QED
      BY <1>1, <2>1, <2>2, <2>5, AppendProperties
  <2>8. new.name = n /\ new.at = IF booted THEN heap + 1 ELSE 0
    OBVIOUS
  <2> HIDE DEF f, i, old, new
  <2>9. FoundAs(n, f, i)
    BY <1>1, <1>3, <2>1, <2>4, <2>6, <2>7, <2>8, BaseFacts DEF FoundAs
  <2> QED
    BY <2>9 DEF f, i
<1> QED
  BY <1>2, <1>3

(* And after it is bound.                                                  *)
BoundAs(n, id, ov, t, i) ==
  /\ t \in Seq(Slot) /\ Len(t) \in Nat /\ Len(t) <= SlotCapacity
  /\ i \in 1 .. Len(t)
  /\ t[i].name = n /\ t[i].impl = id /\ t[i].overlay = ov
  /\ Named(slots, n) # {} =>
       /\ Len(t) = Len(slots) /\ i \in 1 .. Len(slots) /\ slots[i].name = n
       /\ OldImpl(n) = slots[i].impl /\ t[i].at = slots[i].at
       /\ \A k \in 1 .. Len(slots) : k # i => t[k] = slots[k]
  /\ Named(slots, n) = {} =>
       /\ Len(t) = Len(slots) + 1 /\ i = Len(slots) + 1 /\ OldImpl(n) = Unbound
       /\ t[i].at = IF booted THEN heap + 1 ELSE 0
       /\ \A k \in 1 .. Len(slots) :
            /\ t[k].impl = slots[k].impl /\ t[k].overlay = slots[k].overlay
            /\ ~(booted /\ slots[k].at = heap + 1) => t[k] = slots[k]

LEMMA BindFacts ==
  ASSUME TypeOK, NEW n \in BaseNames \cup UserNames, CanFindOrCreate(n),
         NEW id \in Ids \cup {Unbound}, NEW ov \in BOOLEAN
  PROVE  BoundAs(n, id, ov, Bind(n, id, ov), IndexOf(n))
<1> DEFINE f == FindOrCreate(n)
           i == IndexOf(n)
           t == Bind(n, id, ov)
<1>0. FoundAs(n, f, i)
  BY FindOrCreateFacts
<1>2. t = [f EXCEPT ![i].impl = id, ![i].overlay = ov]
  BY DEF Bind
<1> HIDE DEF f, i, t
<1>1. /\ f \in Seq(Slot) /\ Len(f) \in Nat /\ Len(f) <= SlotCapacity
      /\ i \in 1 .. Len(f) /\ f[i].name = n
  BY <1>0 DEF FoundAs
<1>3. DOMAIN f = 1 .. Len(f) /\ \A k \in 1 .. Len(f) : f[k] \in Slot
  BY <1>1, LenProperties
<1>4. /\ DOMAIN t = 1 .. Len(f)
      /\ t[i] = [[f[i] EXCEPT !.impl = id] EXCEPT !.overlay = ov]
      /\ \A k \in 1 .. Len(f) : k # i => t[k] = f[k]
  BY <1>1, <1>2, <1>3
<1>4a. /\ t[i] \in Slot /\ t[i].name = f[i].name /\ t[i].impl = id
       /\ t[i].overlay = ov /\ t[i].at = f[i].at
  BY <1>1, <1>3, <1>4 DEF Slot
<1>4b. t \in [1 .. Len(f) -> Slot]
  <2>1. t = [k \in 1 .. Len(f) |-> t[k]]
    BY <1>2, <1>3, <1>4
  <2>2. \A k \in 1 .. Len(f) : t[k] \in Slot
    BY <1>3, <1>4, <1>4a
  <2> QED
    BY <2>1, <2>2
<1>5. t \in Seq(Slot) /\ Len(t) = Len(f)
  BY <1>1, <1>4b, SeqDef, LenProperties
<1>6. Len(slots) \in Nat
  BY LenProperties DEF TypeOK
<1>7. BoundAs(n, id, ov, t, i)
  <2>1. CASE Named(slots, n) # {}
    <3>1. /\ f = slots /\ i \in 1 .. Len(slots)
          /\ slots[i].name = n /\ OldImpl(n) = slots[i].impl
      BY <1>0, <2>1 DEF FoundAs
    <3>2. \A k \in 1 .. Len(slots) : k # i => t[k] = slots[k]
      BY <1>4, <3>1
    <3> QED
      BY <1>1, <1>4a, <1>5, <2>1, <3>1, <3>2 DEF BoundAs
  <2>2. CASE Named(slots, n) = {}
    <3>1. /\ Len(f) = Len(slots) + 1 /\ i = Len(slots) + 1
          /\ OldImpl(n) = Unbound
          /\ f[i].at = IF booted THEN heap + 1 ELSE 0
          /\ \A k \in 1 .. Len(slots) :
               /\ f[k].impl = slots[k].impl /\ f[k].overlay = slots[k].overlay
               /\ ~(booted /\ slots[k].at = heap + 1) => f[k] = slots[k]
      BY <1>0, <2>2 DEF FoundAs
    <3>2. \A k \in 1 .. Len(slots) : t[k] = f[k]
      BY <1>4, <1>6, <3>1
    <3> QED
      BY <1>1, <1>4a, <1>5, <2>2, <3>1, <3>2 DEF BoundAs
  <2> QED
    BY <2>1, <2>2
<1> QED
  BY <1>7 DEF t, i

LEMMA BoundToFinite ==
  ASSUME NEW tab \in Seq(Slot), NEW x
  PROVE  /\ IsFiniteSet(BoundTo(tab, x)) /\ Cardinality(BoundTo(tab, x)) \in Nat
         /\ BoundTo(tab, x) \in SUBSET (1 .. Len(tab))
         /\ Cardinality(BoundTo(tab, x)) = 0 <=> BoundTo(tab, x) = {}
<1>1. Len(tab) \in Nat /\ DOMAIN tab = 1 .. Len(tab)
  BY LenProperties
<1>2. IsFiniteSet(1 .. Len(tab))
  <2>1. 1 \in Int /\ Len(tab) \in Int
    BY <1>1
  <2> QED
    BY <2>1, FS_Interval
<1>3. BoundTo(tab, x) \in SUBSET (1 .. Len(tab))
  BY <1>1 DEF BoundTo
<1> QED
  BY <1>2, <1>3, FS_Subset, FS_CardinalityType, FS_EmptySet

(* Binding a slot moves one reference.                                     *)
LEMMA BindCount ==
  ASSUME TypeOK, NEW n \in BaseNames \cup UserNames, CanFindOrCreate(n),
         NEW id \in Ids \cup {Unbound}, NEW ov \in BOOLEAN, NEW x \in Ids
  PROVE  Cardinality(BoundTo(Bind(n, id, ov), x)) =
           Cardinality(BoundTo(slots, x))
             + (IF x = id THEN 1 ELSE 0) - (IF x = OldImpl(n) THEN 1 ELSE 0)
<1> DEFINE t == Bind(n, id, ov)
           i == IndexOf(n)
           A == BoundTo(slots, x)
           B == BoundTo(t, x)
<1>1. /\ slots \in Seq(Slot) /\ Len(slots) \in Nat /\ DOMAIN slots = 1 .. Len(slots)
      /\ x # Unbound
  BY LenProperties, BaseFacts DEF TypeOK
<1>0. BoundAs(n, id, ov, t, i)
  BY BindFacts
<1> HIDE DEF t, i
<1>2. /\ t \in Seq(Slot) /\ Len(t) \in Nat /\ i \in 1 .. Len(t) /\ t[i].impl = id
  BY <1>0 DEF BoundAs
<1>2a. DOMAIN t = 1 .. Len(t)
  BY <1>2, LenProperties
<1>3. /\ i \in A <=> x = OldImpl(n)
      /\ \A k \in 1 .. Len(t) : k # i => k \in 1 .. Len(slots) /\ t[k].impl = slots[k].impl
      /\ 1 .. Len(slots) \subseteq 1 .. Len(t)
  BY <1>0, <1>1 DEF BoundAs, BoundTo
<1>4. \A k : k \in B <=> IF k = i THEN x = id ELSE k \in A
  BY <1>1, <1>2, <1>2a, <1>3 DEF BoundTo
<1>5. IsFiniteSet(A) /\ IsFiniteSet(B) /\ Cardinality(A) \in Nat /\ Cardinality(B) \in Nat
  BY <1>1, <1>2, BoundToFinite
<1> HIDE DEF A, B
<1>6. IsFiniteSet(A \ {i}) /\ Cardinality(A \ {i}) = IF i \in A THEN Cardinality(A) - 1 ELSE Cardinality(A)
  BY <1>5, FS_RemoveElement
<1>7. B \ {i} = A \ {i}
  BY <1>4
<1>8. Cardinality(B \ {i}) = IF i \in B THEN Cardinality(B) - 1 ELSE Cardinality(B)
  BY <1>5, FS_RemoveElement
<1>9. i \in B <=> x = id
  BY <1>4
<1>10. Cardinality(B) = Cardinality(A) + (IF x = id THEN 1 ELSE 0) - (IF x = OldImpl(n) THEN 1 ELSE 0)
  <2>1. Cardinality(B \ {i}) = Cardinality(A \ {i})
    BY <1>7
  <2>2. i \in A <=> x = OldImpl(n)
    BY <1>3
  <2> QED
    BY <2>1, <2>2, <1>5, <1>6, <1>8, <1>9
<1> QED
  BY <1>10 DEF t, A, B

----------------------------------------------------------------------------
(* The steps, one lemma for each.                                          *)

LEMMA TypeFacts ==
  ASSUME TypeOK
  PROVE  /\ slots \in Seq(Slot) /\ Len(slots) \in Nat /\ DOMAIN slots = 1 .. Len(slots)
         /\ \A k \in 1 .. Len(slots) : slots[k] \in Slot
         /\ objects \in ObjectTable /\ pos \in Nat /\ pos <= Size /\ heap \in Nat
         /\ Size \in Nat
BY LenProperties, BaseFacts DEF TypeOK, ObjectTable, Size

LEMMA OldImplType ==
  ASSUME TypeOK, NEW n
  PROVE  OldImpl(n) \in Ids \cup {Unbound}
<1>1. CASE Named(slots, n) = {}
  BY <1>1 DEF OldImpl
<1>2. CASE Named(slots, n) # {}
  BY <1>2, TypeFacts, FindFacts DEF OldImpl, Slot
<1> QED
  BY <1>1, <1>2

LEMMA WriteObjectsFacts ==
  ASSUME TypeOK, NEW n, NEW objs \in ObjectTable, ~WriteFails(objs, n)
  PROVE  /\ WriteObjects(objs, n) \in ObjectTable
         /\ \A x \in Ids :
              /\ WriteObjects(objs, n)[x].of = objs[x].of
              /\ WriteObjects(objs, n)[x].refs =
                   objs[x].refs - (IF x = OldImpl(n) THEN 1 ELSE 0)
<1>1. CASE OldImpl(n) = Unbound
  BY <1>1, BaseFacts DEF WriteObjects, ObjectTable
<1>2. CASE OldImpl(n) # Unbound
  BY <1>2, OldImplType, ReleaseFacts DEF WriteObjects, WriteFails
<1> QED
  BY <1>1, <1>2

(* A slot's binding is counted.                                            *)
LEMMA BoundIsLive ==
  ASSUME TypeOK, CountInv, NEW k \in 1 .. Len(slots), slots[k].impl \in Ids
  PROVE  objects[slots[k].impl].refs > 0
<1>1. k \in BoundTo(slots, slots[k].impl)
  BY TypeFacts DEF BoundTo
<1>2. /\ Cardinality(BoundTo(slots, slots[k].impl)) \in Nat
      /\ Cardinality(BoundTo(slots, slots[k].impl)) # 0
  BY <1>1, TypeFacts, BoundToFinite
<1> QED
  BY <1>2 DEF CountInv

LEMMA InitStep == Init => IInv
<1> SUFFICES ASSUME Init PROVE IInv
  OBVIOUS
<1>1. slots = <<>> /\ Len(slots) = 0 /\ DOMAIN slots = {} /\ slots \in Seq(Slot)
  BY DEF Init
<1>2. objects = [id \in Ids |-> [of |-> User, refs |-> 0]]
  BY DEF Init
<1>3. TypeOK
  <2>1. slots \in Seq(Slot) /\ Len(slots) = 0
    BY <1>1
  <2>2. objects \in [Ids -> [of : BaseNames \cup {User}, refs : Nat]]
    BY <1>2
  <2>3. /\ registry = 0 /\ heap = 0 /\ phase = "install" /\ pos = 0 /\ booted = FALSE
        /\ status = "ok" /\ cut = FALSE
    BY DEF Init
  <2>4. Len(BaseSeq) \in Nat /\ SlotCapacity \in Nat
    BY BaseFacts DEF Size
  <2>5. /\ Len(slots) <= SlotCapacity /\ registry \in 0 .. SlotCapacity
        /\ heap \in Nat /\ pos \in 0 .. Len(BaseSeq)
    BY <2>1, <2>3, <2>4
  <2> QED
    BY <2>1, <2>2, <2>3, <2>5, Zenon DEF TypeOK
<1>4. LiveIds(objects) = {}
  BY <1>2 DEF LiveIds, Live
<1>5. RoomInv
  BY <1>4, FS_EmptySet DEF RoomInv, Init
<1>6. CountInv
  <2>1. \A id \in Ids : BoundTo(slots, id) = {} /\ objects[id].refs = 0
    BY <1>1, <1>2 DEF BoundTo
  <2> QED
    BY <2>1, FS_EmptySet DEF CountInv
<1>7. LayoutInv /\ PhaseInv /\ BoundInv
  BY <1>1 DEF LayoutInv, PhaseInv, BoundInv, Init
<1> QED
  BY <1>3, <1>5, <1>6, <1>7 DEF IInv, Uncut

(* "n is ...", for a value that is new or retained.                        *)
LEMMA AssignStep ==
  ASSUME IInv, NEW n \in UserNames, NEW id \in Ids, NEW objs \in ObjectTable,
         Assign(n, id, objs),
         \A x \in Ids : objs[x].refs = objects[x].refs + (IF x = id THEN 1 ELSE 0),
         \A x \in Ids : objects[x].refs > 0 => objs[x].of = objects[x].of
  PROVE  IInv'
<1> DEFINE i == IndexOf(n)
<1>1. TypeOK /\ CanFindOrCreate(n) /\ n \in BaseNames \cup UserNames /\ ~WriteFails(objs, n)
  BY DEF IInv, Assign
<1>2. BoundAs(n, id, TRUE, slots', i)
  <2>1. slots' = Bind(n, id, TRUE)
    BY DEF Assign
  <2> QED
    BY <1>1, <2>1, BindFacts
<1> HIDE DEF i
<1>3. /\ objects' \in ObjectTable
      /\ \A x \in Ids : /\ objects'[x].of = objs[x].of
                        /\ objects'[x].refs = objs[x].refs - (IF x = OldImpl(n) THEN 1 ELSE 0)
  BY <1>1, WriteObjectsFacts DEF Assign
<1>4. /\ heap' = HeapAfter(n) /\ phase = "idle"
      /\ UNCHANGED <<registry, phase, pos, booted, status, cut>>
  BY DEF Assign
<1>5. TypeOK'
  <2>1. slots' \in Seq(Slot) /\ Len(slots') <= SlotCapacity
    BY <1>2 DEF BoundAs
  <2>2. heap' \in Nat
    BY <1>1, <1>4 DEF HeapAfter, TypeOK
  <2> QED
    BY <1>1, <1>3, <1>4, <2>1, <2>2 DEF TypeOK, ObjectTable
<1>6. RoomInv'
  BY <1>4 DEF RoomInv
<1>7. ASSUME ~cut PROVE Uncut'
  <2>1. LayoutInv /\ PhaseInv /\ BoundInv /\ CountInv
    BY <1>7 DEF IInv, Uncut
  <2>2. /\ booted /\ status = "ok" /\ pos = Size /\ registry = Size
        /\ Len(slots) = Size + heap
    BY <2>1, <1>4 DEF PhaseInv
  <2>3. /\ \A k \in 1 .. Len(slots) :
             /\ k <= Size => slots[k].name = BaseSeq[k] /\ slots[k].at = 0
             /\ k > Size => /\ slots[k].name \in UserNames \ BaseNames
                            /\ slots[k].overlay /\ slots[k].at = k - Size
        /\ \A j, k \in 1 .. Len(slots) : slots[j].name = slots[k].name => j = k
    BY <1>1, <2>1, TypeFacts DEF LayoutInv
  <2>4. Size \in Nat /\ heap \in Nat /\ Len(slots) \in Nat /\ DOMAIN slots = 1 .. Len(slots)
    BY <1>1, TypeFacts
  <2>5. slots' \in Seq(Slot) /\ Len(slots') \in Nat /\ DOMAIN slots' = 1 .. Len(slots')
    BY <1>2, LenProperties DEF BoundAs
  <2>6. /\ i \in 1 .. Len(slots') /\ slots'[i].name = n /\ slots'[i].impl = id
        /\ slots'[i].overlay
    BY <1>2 DEF BoundAs
  <2> DEFINE Others == \A k \in 1 .. Len(slots') : k # i =>
                       /\ k \in 1 .. Len(slots)
                       /\ slots'[k].impl = slots[k].impl
                       /\ slots'[k].overlay = slots[k].overlay
  <2>7. ASSUME Named(slots, n) # {} PROVE LayoutInv' /\ PhaseInv' /\ Others
    <3>1. /\ Len(slots') = Len(slots) /\ i \in 1 .. Len(slots) /\ slots[i].name = n
          /\ slots'[i].at = slots[i].at
          /\ \A k \in 1 .. Len(slots) : k # i => slots'[k] = slots[k]
      BY <1>2, <2>7 DEF BoundAs
    <3>2. heap' = heap
      BY <1>4, <2>7 DEF HeapAfter
    <3>3. \A k \in 1 .. Len(slots) :
            /\ slots'[k].name = slots[k].name /\ slots'[k].at = slots[k].at
            /\ slots[k].overlay => slots'[k].overlay
            /\ k # i => slots'[k].impl = slots[k].impl /\ slots'[k].overlay = slots[k].overlay
      BY <2>6, <3>1
    <3>4. LayoutInv'
      BY <2>3, <2>5, <3>1, <3>3 DEF LayoutInv
    <3>5. PhaseInv'
      BY <1>4, <2>2, <3>1, <3>2 DEF PhaseInv
    <3> QED
      BY <3>1, <3>3, <3>4, <3>5
  <2>8. ASSUME Named(slots, n) = {} PROVE LayoutInv' /\ PhaseInv' /\ Others
    <3>1. /\ Len(slots') = Len(slots) + 1 /\ i = Len(slots) + 1
          /\ slots'[i].at = heap + 1
          /\ \A k \in 1 .. Len(slots) : slots[k].at # heap + 1 => slots'[k] = slots[k]
      BY <1>2, <2>2, <2>8 DEF BoundAs
    <3>2. heap' = heap + 1
      BY <1>4, <2>2, <2>8 DEF HeapAfter
    <3>3. \A k \in 1 .. Len(slots) : slots[k].at # heap + 1
      BY <2>2, <2>3, <2>4
    <3>4. \A k \in 1 .. Len(slots) : slots'[k] = slots[k]
      BY <3>1, <3>3
    <3>5. \A k \in 1 .. Len(slots) : slots[k].name # n
      BY <2>4, <2>8 DEF Named
    <3>6. n \in UserNames \ BaseNames
      <4>1. ASSUME n \in BaseNames PROVE FALSE
        <5>1. PICK k \in 1 .. Size : BaseSeq[k] = n
          BY <4>1, BaseFacts
        <5>2. k \in 1 .. Len(slots) /\ slots[k].name = n
          BY <2>2, <2>3, <2>4, <5>1
        <5> QED
          BY <3>5, <5>2
      <4> QED
        BY <4>1
    <3>7. \A k \in 1 .. Len(slots') : k = i \/ k \in 1 .. Len(slots)
      BY <2>4, <3>1
    <3>8. i > Size /\ i - Size = heap + 1
      BY <2>2, <2>4, <3>1
    <3>9. LayoutInv'
      BY <2>3, <2>4, <2>5, <2>6, <3>1, <3>4, <3>5, <3>6, <3>7, <3>8 DEF LayoutInv
    <3>10. PhaseInv'
      BY <1>4, <2>2, <2>4, <3>1, <3>2 DEF PhaseInv
    <3> QED
      BY <3>4, <3>7, <3>9, <3>10
  <2>9. LayoutInv' /\ PhaseInv' /\ Others
    BY <2>7, <2>8
  <2>10. CountInv'
    <3>1. \A x \in Ids : Cardinality(BoundTo(slots', x)) =
            Cardinality(BoundTo(slots, x))
              + (IF x = id THEN 1 ELSE 0) - (IF x = OldImpl(n) THEN 1 ELSE 0)
      BY <1>1, BindCount DEF Assign
    <3>2. \A x \in Ids : objects[x].refs = Cardinality(BoundTo(slots, x))
      BY <2>1 DEF CountInv
    <3>3. \A x \in Ids : objects'[x].refs = Cardinality(BoundTo(slots', x))
      <4> TAKE x \in Ids
      <4>1. objs[x].refs \in Nat /\ objects[x].refs \in Nat
        BY <1>1, TypeFacts DEF ObjectTable
      <4>2. objs[x].refs = objects[x].refs + (IF x = id THEN 1 ELSE 0)
        OBVIOUS
      <4>3. objects'[x].refs = objs[x].refs - (IF x = OldImpl(n) THEN 1 ELSE 0)
        BY <1>3
      <4> QED
        BY <3>1, <3>2, <4>1, <4>2, <4>3
    <3> QED
      BY <3>3 DEF CountInv
  <2>11. \A k \in 1 .. Len(slots') : k # i /\ k <= Size /\ ~slots'[k].overlay => BaseBound(k)'
    <3> SUFFICES ASSUME NEW k \in 1 .. Len(slots'), k # i, k <= Size, ~slots'[k].overlay
                 PROVE  BaseBound(k)'
      OBVIOUS
    <3>1. /\ k \in 1 .. Len(slots) /\ slots'[k].impl = slots[k].impl
          /\ ~slots[k].overlay
      BY <2>9
    <3>2. BaseBound(k)
      BY <2>1, <2>2, <2>4, <3>1 DEF BoundInv
    <3>3. slots[k].impl \in Ids => objects'[slots[k].impl].of = objects[slots[k].impl].of
      BY <1>1, <1>3, <2>1, <3>1, BoundIsLive
    <3> QED
      BY <3>1, <3>2, <3>3 DEF BaseBound
  <2>12. BoundInv'
    <3>1. \A k \in 1 .. Len(slots') : slots'[k].overlay => slots'[k].impl \in Ids
      BY <2>1, <2>4, <2>6, <2>9 DEF BoundInv
    <3>2. \A k \in 1 .. Len(slots') : k <= Size => ~(k > Size)
      BY <2>4, <2>5
    <3> QED
      BY <1>4, <2>2, <2>5, <2>6, <2>11, <3>1, <3>2 DEF BoundInv
  <2> QED
    BY <2>9, <2>10, <2>12 DEF Uncut
<1> QED
  BY <1>4, <1>5, <1>6, <1>7 DEF IInv

LEMMA DefineStep ==
  ASSUME IInv, NEW n \in UserNames, Define(n)
  PROVE  IInv'
<1>1. TypeOK /\ HasRoom(objects) /\ Assign(n, Fresh(objects), NewObject(objects, User))
  BY DEF IInv, Define
<1>2. objects \in ObjectTable
  BY <1>1, TypeFacts
<1>3. /\ Fresh(objects) \in Ids /\ objects[Fresh(objects)].refs = 0
      /\ NewObject(objects, User) \in ObjectTable
      /\ \A x \in Ids : NewObject(objects, User)[x] =
           IF x = Fresh(objects) THEN [of |-> User, refs |-> 1] ELSE objects[x]
  BY <1>1, <1>2, FreshFacts, NewObjectFacts
<1>4. \A x \in Ids :
        /\ NewObject(objects, User)[x].refs =
             objects[x].refs + (IF x = Fresh(objects) THEN 1 ELSE 0)
        /\ objects[x].refs > 0 => NewObject(objects, User)[x].of = objects[x].of
  BY <1>2, <1>3 DEF ObjectTable
<1> QED
  BY <1>1, <1>3, <1>4, AssignStep

LEMMA AliasStep ==
  ASSUME IInv, NEW n \in UserNames, NEW m \in BaseNames \cup UserNames, Alias(n, m)
  PROVE  IInv'
<1>1. /\ TypeOK /\ OldImpl(m) # Unbound
      /\ Assign(n, OldImpl(m), Retain(objects, OldImpl(m)))
  BY DEF IInv, Alias
<1>2. objects \in ObjectTable /\ OldImpl(m) \in Ids
  BY <1>1, TypeFacts, OldImplType
<1> QED
  BY <1>1, <1>2, RetainFacts, AssignStep

(* One name of the base image is installed; objs is the table after it.    *)
LEMMA InstalledStep ==
  ASSUME IInv, phase = "install", pos < Size, NEW id \in Ids \cup {Unbound},
         Installed(id), objects' \in ObjectTable,
         Cardinality(LiveIds(objects')) <= pos + 1,
         id = Unbound <=> Current = Boot,
         id # Unbound => objects'[id].of = Current,
         \A x \in Ids : objects[x].refs > 0 => objects'[x].of = objects[x].of,
         OldImpl(Current) = Unbound =>
           \A x \in Ids : objects'[x].refs = objects[x].refs + (IF x = id THEN 1 ELSE 0)
  PROVE  IInv'
<1> DEFINE i == IndexOf(Current)
<1>0. /\ TypeOK /\ pos \in Nat /\ Size \in Nat /\ pos + 1 \in 1 .. Size
      /\ Current = BaseSeq[pos + 1]
  BY TypeFacts DEF IInv, Current
<1>1. Current \in BaseNames \cup UserNames /\ CanFindOrCreate(Current)
  BY <1>0, BaseFacts DEF Installed
<1>2. BoundAs(Current, id, FALSE, slots', i)
  <2>1. slots' = Bind(Current, id, FALSE)
    BY DEF Installed
  <2> QED
    BY <1>0, <1>1, <2>1, BindFacts
<1> HIDE DEF i
<1>4. /\ heap' = HeapAfter(Current) /\ pos' = pos + 1
      /\ UNCHANGED <<registry, phase, booted, status, cut>>
  BY DEF Installed
<1>5. TypeOK'
  <2>1. slots' \in Seq(Slot) /\ Len(slots') <= SlotCapacity
    BY <1>2 DEF BoundAs
  <2>2. heap' \in Nat /\ pos' \in 0 .. Len(BaseSeq)
    BY <1>0, <1>4 DEF HeapAfter, TypeOK, Size
  <2> QED
    BY <1>0, <1>4, <2>1, <2>2 DEF TypeOK, ObjectTable
<1>6. RoomInv'
  BY <1>4 DEF RoomInv
<1>7. ASSUME ~cut PROVE Uncut'
  <2>1. LayoutInv /\ PhaseInv /\ BoundInv /\ CountInv
    BY <1>7 DEF IInv, Uncut
  <2>2. heap = 0 /\ Len(slots) = IF booted THEN Size ELSE pos
    BY <2>1 DEF PhaseInv
  <2>4. Len(slots) \in Nat /\ DOMAIN slots = 1 .. Len(slots)
    BY <1>0, TypeFacts
  <2>3. /\ \A k \in 1 .. Len(slots) : k <= Size /\ slots[k].name = BaseSeq[k] /\ slots[k].at = 0
        /\ \A j, k \in 1 .. Len(slots) : slots[j].name = slots[k].name => j = k
    BY <1>0, <2>1, <2>2, <2>4 DEF LayoutInv
  <2>5. slots' \in Seq(Slot) /\ Len(slots') \in Nat /\ DOMAIN slots' = 1 .. Len(slots')
    BY <1>2, LenProperties DEF BoundAs
  <2>6. /\ i \in 1 .. Len(slots') /\ slots'[i].name = Current /\ slots'[i].impl = id
        /\ ~slots'[i].overlay
    BY <1>2 DEF BoundAs
  <2> DEFINE Placed == /\ i = pos + 1 /\ OldImpl(Current) = Unbound
                       /\ Len(slots') = IF booted THEN Size ELSE pos + 1
                       /\ heap' = 0 /\ slots'[i].at = 0
                       /\ \A k \in 1 .. Len(slots') :
                            k # i => k \in 1 .. Len(slots) /\ slots'[k] = slots[k]
  <2>7. ASSUME booted PROVE Placed
    <3>1. pos + 1 \in 1 .. Len(slots) /\ slots[pos + 1].name = Current
      BY <1>0, <2>2, <2>3, <2>7
    <3>2. Named(slots, Current) # {}
      BY <2>4, <3>1 DEF Named
    <3>3. /\ Len(slots') = Len(slots) /\ i \in 1 .. Len(slots) /\ slots[i].name = Current
          /\ OldImpl(Current) = slots[i].impl /\ slots'[i].at = slots[i].at
          /\ \A k \in 1 .. Len(slots) : k # i => slots'[k] = slots[k]
      BY <1>2, <3>2 DEF BoundAs
    <3>4. i = pos + 1
      BY <2>3, <3>1, <3>3
    <3>5. slots[pos + 1].impl = Unbound
      BY <1>0, <2>1, <2>4, <3>1 DEF BoundInv
    <3>6. heap' = 0
      BY <1>4, <2>2, <3>2 DEF HeapAfter
    <3> QED
      BY <2>2, <2>3, <2>7, <3>3, <3>4, <3>5, <3>6
  <2>8. ASSUME ~booted PROVE Placed
    <3>1. \A k \in 1 .. Len(slots) : k \in 1 .. Size /\ k # pos + 1
      BY <1>0, <2>2, <2>4, <2>8
    <3>2. Named(slots, Current) = {}
      BY <1>0, <2>3, <2>4, <3>1, BaseFacts DEF Named
    <3>3. /\ Len(slots') = Len(slots) + 1 /\ i = Len(slots) + 1
          /\ OldImpl(Current) = Unbound /\ slots'[i].at = 0
          /\ \A k \in 1 .. Len(slots) : slots'[k] = slots[k]
      BY <1>2, <2>8, <3>2 DEF BoundAs
    <3>4. heap' = 0
      BY <1>4, <2>2, <2>8 DEF HeapAfter
    <3>5. \A k \in 1 .. Len(slots') : k # i => k \in 1 .. Len(slots)
      BY <2>4, <3>3
    <3> QED
      BY <2>2, <2>8, <3>3, <3>4, <3>5
  <2>9. Placed
    BY <2>7, <2>8, <1>0 DEF TypeOK
  <2> HIDE DEF Placed
  <2>9a. i = pos + 1 /\ OldImpl(Current) = Unbound /\ heap' = 0 /\ slots'[i].at = 0
    BY <2>9 DEF Placed
  <2>9b. Len(slots') = IF booted THEN Size ELSE pos + 1
    BY <2>9 DEF Placed
  <2>9c. \A k \in 1 .. Len(slots') : k # i => k \in 1 .. Len(slots) /\ slots'[k] = slots[k]
    BY <2>9 DEF Placed
  <2>10. \A k \in 1 .. Len(slots') : /\ k \in 1 .. Size /\ slots'[k].name = BaseSeq[k]
                                     /\ slots'[k].at = 0
    <3>1. \A k \in 1 .. Len(slots') : k \in 1 .. Size
      BY <1>0, <2>9b
    <3> QED
      BY <1>0, <2>3, <2>6, <2>9a, <2>9c, <3>1
  <2>11. LayoutInv'
    <3>1. \A k \in 1 .. Len(slots') : ~(k > Size)
      BY <1>0, <2>10
    <3>2. \A j, k \in 1 .. Len(slots') : slots'[j].name = slots'[k].name => j = k
      BY <2>10, BaseFacts
    <3> QED
      BY <2>5, <2>10, <3>1, <3>2 DEF LayoutInv
  <2>12. PhaseInv'
    BY <1>4, <2>9a, <2>9b DEF PhaseInv
  <2>13. CountInv'
    <3>1. \A x \in Ids : Cardinality(BoundTo(slots', x)) =
            Cardinality(BoundTo(slots, x))
              + (IF x = id THEN 1 ELSE 0) - (IF x = OldImpl(Current) THEN 1 ELSE 0)
      BY <1>0, <1>1, BindCount DEF Installed
    <3>2. \A x \in Ids : objects[x].refs = Cardinality(BoundTo(slots, x))
      BY <2>1 DEF CountInv
    <3>3. \A x \in Ids : objects'[x].refs = Cardinality(BoundTo(slots', x))
      <4> TAKE x \in Ids
      <4>1. objects[x].refs \in Nat /\ x # OldImpl(Current)
        BY <1>0, <2>9a, TypeFacts, BaseFacts DEF ObjectTable
      <4>2. objects'[x].refs = objects[x].refs + (IF x = id THEN 1 ELSE 0)
        BY <2>9a
      <4> QED
        BY <3>1, <3>2, <4>1, <4>2
    <3> QED
      BY <3>3 DEF CountInv
  <2>14. \A k \in 1 .. Len(slots') : k <= pos + 1 => BaseBound(k)'
    <3> SUFFICES ASSUME NEW k \in 1 .. Len(slots'), k <= pos + 1
                 PROVE  BaseBound(k)'
      OBVIOUS
    <3>1. CASE k = i
      <4>1. BaseSeq[k] = Current /\ slots'[k].impl = id
        BY <1>0, <2>6, <2>9a, <3>1
      <4> QED
        BY <4>1 DEF BaseBound
    <3>2. CASE k # i
      <4>1. k \in 1 .. Len(slots) /\ slots'[k] = slots[k] /\ k <= pos /\ k <= Size
        BY <1>0, <2>3, <2>5, <2>9a, <2>9c, <3>2
      <4>2. ~slots[k].overlay
        BY <2>1, <2>4, <4>1 DEF BoundInv
      <4>3. BaseBound(k)
        BY <2>1, <2>4, <4>1, <4>2 DEF BoundInv
      <4>4. slots[k].impl \in Ids => objects'[slots[k].impl].of = objects[slots[k].impl].of
        BY <1>0, <2>1, <4>1, BoundIsLive
      <4> QED
        BY <4>1, <4>3, <4>4 DEF BaseBound
    <3> QED
      BY <3>1, <3>2
  <2>15. BoundInv'
    <3>1. \A k \in 1 .. Len(slots') : ~slots'[k].overlay
      BY <2>1, <2>4, <2>6, <2>9c DEF BoundInv
    <3>2. \A k \in 1 .. Len(slots') : k > pos + 1 => slots'[k].impl = Unbound
      <4> SUFFICES ASSUME NEW k \in 1 .. Len(slots'), k > pos + 1
                   PROVE  slots'[k].impl = Unbound
        OBVIOUS
      <4>1. k # i /\ k > pos /\ k <= Size
        BY <1>0, <2>5, <2>9a, <2>10
      <4> QED
        BY <2>1, <2>4, <2>9c, <4>1 DEF BoundInv
    <3> QED
      BY <1>4, <2>5, <2>14, <3>1, <3>2 DEF BoundInv
  <2> QED
    BY <2>11, <2>12, <2>13, <2>15 DEF Uncut
<1> QED
  BY <1>4, <1>5, <1>6, <1>7 DEF IInv

(* There is always an object for the next name.                            *)
LEMMA InstallingFacts ==
  ASSUME IInv, NEW part, Installing(part)
  PROVE  /\ TypeOK /\ phase = "install" /\ pos < Size /\ pos \in Nat
         /\ objects \in ObjectTable /\ HasRoom(objects)
         /\ Cardinality(LiveIds(objects)) <= pos
         /\ Cardinality(LiveIds(objects)) \in Nat
         /\ Current \in BaseNames
         /\ part # "native" => Current # Boot
<1>1. TypeOK /\ phase = "install" /\ pos < Size /\ pos \in Nat /\ objects \in ObjectTable
  BY TypeFacts DEF IInv, Installing, Size
<1>2. Cardinality(LiveIds(objects)) <= pos
  BY <1>1 DEF IInv, RoomInv
<1>3. Cardinality(LiveIds(objects)) \in Nat /\ HasRoom(objects)
  BY <1>1, <1>2, LiveCount, BaseFacts
<1>4. pos + 1 \in 1 .. Size
  BY <1>1, BaseFacts
<1>5. Current \in BaseNames
  BY <1>4, BaseFacts DEF Current
<1>6. part # "native" => ~(pos < Len(Natives))
  BY DEF Installing
<1>7. Current = Boot => pos + 1 <= Len(Natives)
  BY <1>4, BaseFacts DEF Current
<1> QED
  BY <1>1, <1>2, <1>3, <1>5, <1>6, <1>7, BaseFacts

(* The new object, and what may be released after it is made.              *)
LEMMA NewObjectStep ==
  ASSUME IInv, NEW part, Installing(part)
  PROVE  LET objs == NewObject(objects, Current)
         IN  /\ objs \in ObjectTable /\ Fresh(objects) \in Ids
             /\ objs[Fresh(objects)].of = Current
             /\ Cardinality(LiveIds(objs)) <= pos + 1
             /\ \A x \in Ids : objects[x].refs > 0 => objs[x].of = objects[x].of
             /\ \A x \in Ids : objs[x].refs = objects[x].refs + (IF x = Fresh(objects) THEN 1 ELSE 0)
<1> DEFINE objs == NewObject(objects, Current)
           new == Fresh(objects)
<1>1. /\ objects \in ObjectTable /\ HasRoom(objects) /\ Current \in BaseNames /\ pos \in Nat
      /\ Cardinality(LiveIds(objects)) <= pos /\ Cardinality(LiveIds(objects)) \in Nat
  BY InstallingFacts
<1>2. /\ objs \in ObjectTable /\ new \in Ids /\ objects[new].refs = 0
      /\ \A x \in Ids : objs[x] = IF x = new THEN [of |-> Current, refs |-> 1] ELSE objects[x]
  BY <1>1, FreshFacts, NewObjectFacts
<1> HIDE DEF objs, new
<1>3. /\ objs[new].of = Current
      /\ \A x \in Ids : objects[x].refs > 0 => objs[x].of = objects[x].of
      /\ \A x \in Ids : objs[x].refs = objects[x].refs + (IF x = new THEN 1 ELSE 0)
  BY <1>1, <1>2 DEF ObjectTable
<1>4. \A x \in Ids : x # new => objs[x].refs <= objects[x].refs
  BY <1>1, <1>2 DEF ObjectTable
<1>5. Cardinality(LiveIds(objs)) <= Cardinality(LiveIds(objects)) + 1
  BY <1>1, <1>2, <1>4, LiveGrows
<1>6. Cardinality(LiveIds(objs)) \in Nat
  BY <1>2, LiveCount
<1>7. Cardinality(LiveIds(objs)) <= pos + 1
  BY <1>1, <1>5, <1>6
<1> QED
  BY <1>2, <1>3, <1>7 DEF objs, new

LEMMA LiveShrinks ==
  ASSUME NEW objs \in ObjectTable, NEW less \in ObjectTable,
         \A x \in Ids : less[x].refs <= objs[x].refs
  PROVE  Cardinality(LiveIds(less)) <= Cardinality(LiveIds(objs))
<1>1. LiveIds(less) \in SUBSET LiveIds(objs)
  BY DEF LiveIds, Live, ObjectTable
<1> QED
  BY <1>1, LiveCount, FS_Subset

LEMMA InstallNativeStep ==
  ASSUME IInv, InstallNative
  PROVE  IInv'
<1>1. Installing("native")
  BY DEF InstallNative
<1>2. /\ phase = "install" /\ pos < Size /\ pos \in Nat /\ objects \in ObjectTable
      /\ Cardinality(LiveIds(objects)) <= pos /\ Cardinality(LiveIds(objects)) \in Nat
  BY <1>1, InstallingFacts
<1>3. CASE Current = Boot
  <2>1. Installed(Unbound) /\ objects' = objects
    BY <1>3 DEF InstallNative
  <2>2. \A x \in Ids : objects'[x].refs = objects[x].refs + (IF x = Unbound THEN 1 ELSE 0)
    BY <1>2, <2>1, BaseFacts DEF ObjectTable
  <2>3. Cardinality(LiveIds(objects')) <= pos + 1
    BY <1>2, <2>1
  <2> QED
    BY <1>2, <1>3, <2>1, <2>2, <2>3, InstalledStep
<1>4. CASE Current # Boot
  <2>1. Installed(Fresh(objects)) /\ objects' = NewObject(objects, Current)
    BY <1>4 DEF InstallNative
  <2>2. Fresh(objects) \in Ids /\ Fresh(objects) # Unbound
    BY <1>1, NewObjectStep, BaseFacts
  <2> QED
    BY <1>1, <1>2, <1>4, <2>1, <2>2, NewObjectStep, InstalledStep
<1> QED
  BY <1>3, <1>4

LEMMA InstallFfiStep ==
  ASSUME IInv, InstallFfi
  PROVE  IInv'
<1> DEFINE objs == NewObject(objects, Current)
           old == OldImpl(Current)
           new == Fresh(objects)
<1>1. /\ Installing("ffi") /\ Installed(new)
      /\ objects' = IF old \in {Unbound, new} \/ ~Live(objs, old)
                      THEN objs ELSE Release(objs, old)
  BY DEF InstallFfi
<1>2. TypeOK /\ phase = "install" /\ pos < Size /\ pos \in Nat /\ Current # Boot
  BY <1>1, InstallingFacts
<1>3. /\ objs \in ObjectTable /\ new \in Ids /\ objs[new].of = Current
      /\ Cardinality(LiveIds(objs)) <= pos + 1
      /\ \A x \in Ids : objects[x].refs > 0 => objs[x].of = objects[x].of
      /\ \A x \in Ids : objs[x].refs = objects[x].refs + (IF x = new THEN 1 ELSE 0)
  BY <1>1, NewObjectStep
<1>4. old \in Ids \cup {Unbound} /\ new # Unbound
  BY <1>2, <1>3, OldImplType, BaseFacts
<1>5. old = Unbound => objects' = objs
  BY <1>1
<1> HIDE DEF objs, old, new
<1>6. /\ objects' \in ObjectTable
      /\ \A x \in Ids : objects'[x].of = objs[x].of /\ objects'[x].refs <= objs[x].refs
  <2>1. CASE objects' = objs
    BY <1>3, <2>1 DEF ObjectTable
  <2>2. CASE objects' # objs
    <3>1. old \in Ids /\ Live(objs, old) /\ objects' = Release(objs, old)
      BY <1>1, <1>4, <2>2
    <3>2. /\ objects' \in ObjectTable
          /\ \A x \in Ids : /\ objects'[x].of = objs[x].of
                            /\ objects'[x].refs = objs[x].refs - (IF x = old THEN 1 ELSE 0)
      BY <1>3, <3>1, ReleaseFacts
    <3> QED
      BY <1>3, <3>2 DEF ObjectTable
  <2> QED
    BY <2>1, <2>2
<1>7. Cardinality(LiveIds(objects')) <= pos + 1
  <2>1. Cardinality(LiveIds(objects')) <= Cardinality(LiveIds(objs))
    BY <1>3, <1>6, LiveShrinks
  <2>2. Cardinality(LiveIds(objects')) \in Nat /\ Cardinality(LiveIds(objs)) \in Nat
    BY <1>3, <1>6, LiveCount
  <2> QED
    BY <1>2, <1>3, <2>1, <2>2
<1>8. /\ objects'[new].of = Current
      /\ \A x \in Ids : objects[x].refs > 0 => objects'[x].of = objects[x].of
      /\ old = Unbound => \A x \in Ids :
           objects'[x].refs = objects[x].refs + (IF x = new THEN 1 ELSE 0)
  BY <1>3, <1>5, <1>6
<1> QED
  BY <1>1, <1>2, <1>3, <1>4, <1>6, <1>7, <1>8, InstalledStep DEF old

LEMMA EvalLibFormStep ==
  ASSUME IInv, EvalLibForm
  PROVE  IInv'
<1> DEFINE objs == NewObject(objects, Current)
           new == Fresh(objects)
<1>1. /\ Installing("lib") /\ ~WriteFails(objs, Current) /\ Installed(new)
      /\ objects' = WriteObjects(objs, Current)
  BY DEF EvalLibForm
<1>2. TypeOK /\ phase = "install" /\ pos < Size /\ pos \in Nat /\ Current # Boot
  BY <1>1, InstallingFacts
<1>3. /\ objs \in ObjectTable /\ new \in Ids /\ objs[new].of = Current
      /\ Cardinality(LiveIds(objs)) <= pos + 1
      /\ \A x \in Ids : objects[x].refs > 0 => objs[x].of = objects[x].of
      /\ \A x \in Ids : objs[x].refs = objects[x].refs + (IF x = new THEN 1 ELSE 0)
  BY <1>1, NewObjectStep
<1>4. new # Unbound
  BY <1>3, BaseFacts
<1> HIDE DEF objs, new
<1>5. /\ objects' \in ObjectTable
      /\ \A x \in Ids :
           /\ objects'[x].of = objs[x].of
           /\ objects'[x].refs = objs[x].refs - (IF x = OldImpl(Current) THEN 1 ELSE 0)
  BY <1>1, <1>2, <1>3, WriteObjectsFacts
<1>6. \A x \in Ids : objs[x].refs \in Nat /\ objects'[x].refs <= objs[x].refs
  BY <1>3, <1>5 DEF ObjectTable
<1>7. Cardinality(LiveIds(objects')) <= pos + 1
  <2>1. Cardinality(LiveIds(objects')) <= Cardinality(LiveIds(objs))
    BY <1>3, <1>5, <1>6, LiveShrinks
  <2>2. Cardinality(LiveIds(objects')) \in Nat /\ Cardinality(LiveIds(objs)) \in Nat
    BY <1>3, <1>5, LiveCount
  <2> QED
    BY <1>2, <1>3, <2>1, <2>2
<1>8. OldImpl(Current) = Unbound => \A x \in Ids :
        objects'[x].refs = objects[x].refs + (IF x = new THEN 1 ELSE 0)
  BY <1>3, <1>5, <1>6, BaseFacts
<1> QED
  BY <1>1, <1>2, <1>3, <1>4, <1>5, <1>7, <1>8, InstalledStep

(* An install that fails leaves the layout to the next power-on.           *)
LEMMA InstallFailsStep ==
  ASSUME IInv, InstallFails
  PROVE  IInv'
<1>1. /\ UNCHANGED <<slots, registry, objects, heap, pos, booted>>
      /\ phase' \in {"idle", "off"} /\ status' = "error" /\ cut' = TRUE
  BY DEF InstallFails
<1>2. TypeOK'
  BY <1>1 DEF IInv, TypeOK
<1>3. RoomInv'
  BY <1>1 DEF RoomInv
<1> QED
  BY <1>1, <1>2, <1>3 DEF IInv

LEMMA InstallDoneStep ==
  ASSUME IInv, InstallDone
  PROVE  IInv'
<1>1. /\ phase = "install" /\ pos = Size /\ registry' = Len(slots) /\ phase' = "idle"
      /\ status' = "ok" /\ booted' = TRUE /\ slots' = slots /\ objects' = objects
      /\ heap' = heap /\ pos' = pos /\ cut' = cut
  BY DEF InstallDone, Size
<1>2. TypeOK /\ Len(slots) \in Nat /\ Len(slots) <= SlotCapacity /\ Size \in Nat
  BY TypeFacts DEF IInv, TypeOK
<1>3. TypeOK'
  <2>1. registry' \in 0 .. SlotCapacity
    BY <1>1, <1>2, BaseFacts
  <2> QED
    BY <1>1, <1>2, <2>1 DEF TypeOK
<1>4. RoomInv'
  BY <1>1 DEF RoomInv
<1>5. ASSUME ~cut PROVE Uncut'
  <2>1. LayoutInv /\ PhaseInv /\ BoundInv /\ CountInv
    BY <1>5 DEF IInv, Uncut
  <2>2. heap = 0 /\ Len(slots) = Size
    BY <1>1, <2>1 DEF PhaseInv
  <2>3. LayoutInv' /\ CountInv'
    BY <1>1, <2>1 DEF LayoutInv, CountInv
  <2>4. PhaseInv'
    BY <1>1, <1>2, <2>2 DEF PhaseInv
  <2>5. BoundInv'
    BY <1>1, <2>1 DEF BoundInv, BaseBound
  <2> QED
    BY <2>3, <2>4, <2>5 DEF Uncut
<1> QED
  BY <1>1, <1>3, <1>4, <1>5 DEF IInv

LEMMA DeadFacts ==
  ASSUME NEW objs \in ObjectTable
  PROVE  /\ Dead(objs) \in ObjectTable
         /\ \A x \in Ids : Dead(objs)[x].refs = 0
         /\ LiveIds(Dead(objs)) = {}
<1>1. Dead(objs) \in ObjectTable /\ \A x \in Ids : Dead(objs)[x].refs = 0
  BY DEF Dead, ObjectTable
<1> QED
  BY <1>1 DEF LiveIds, Live

LEMMA PowerOnStep ==
  ASSUME IInv, PowerOn
  PROVE  IInv'
<1>1. /\ slots' = <<>> /\ registry' = 0 /\ objects' = Dead(objects) /\ heap' = 0
      /\ phase' = "install" /\ pos' = 0 /\ booted' = FALSE /\ status' = "ok" /\ cut' = FALSE
  BY DEF PowerOn
<1>2. /\ objects' \in ObjectTable /\ LiveIds(objects') = {}
      /\ \A x \in Ids : objects'[x].refs = 0
  BY <1>1, TypeFacts, DeadFacts DEF IInv
<1>3. slots' \in Seq(Slot) /\ Len(slots') = 0 /\ DOMAIN slots' = {}
  BY <1>1
<1>4. TypeOK'
  <2>1. slots' \in Seq(Slot) /\ Len(slots') = 0
    BY <1>3
  <2>2. Len(BaseSeq) \in Nat /\ SlotCapacity \in Nat
    BY BaseFacts DEF Size
  <2>3. /\ Len(slots') <= SlotCapacity /\ registry' \in 0 .. SlotCapacity
        /\ heap' \in Nat /\ pos' \in 0 .. Len(BaseSeq)
    BY <1>1, <2>1, <2>2
  <2>4. objects' \in [Ids -> [of : BaseNames \cup {User}, refs : Nat]]
    BY <1>2 DEF ObjectTable
  <2> QED
    BY <1>1, <2>1, <2>3, <2>4, Zenon DEF TypeOK
<1>5. RoomInv'
  BY <1>1, <1>2, FS_EmptySet DEF RoomInv
<1>6. CountInv'
  <2>1. \A id \in Ids : BoundTo(slots', id) = {}
    BY <1>3 DEF BoundTo
  <2> QED
    BY <1>2, <2>1, FS_EmptySet DEF CountInv
<1>7. LayoutInv' /\ PhaseInv' /\ BoundInv'
  BY <1>1, <1>3 DEF LayoutInv, PhaseInv, BoundInv
<1> QED
  BY <1>4, <1>5, <1>6, <1>7 DEF IInv, Uncut

----------------------------------------------------------------------------
(* The reset.                                                              *)

LEMMA ClearFacts ==
  ASSUME NEW tab \in Seq(Slot), NEW upto \in Int
  PROVE  /\ ClearBaseSlots(tab, upto) \in Seq(Slot)
         /\ Len(ClearBaseSlots(tab, upto)) = Len(tab)
         /\ \A k \in 1 .. Len(tab) :
              /\ ClearBaseSlots(tab, upto)[k].name = tab[k].name
              /\ ClearBaseSlots(tab, upto)[k].at = tab[k].at
              /\ k <= upto => /\ ClearBaseSlots(tab, upto)[k].impl = Unbound
                              /\ ~ClearBaseSlots(tab, upto)[k].overlay
              /\ ~(k <= upto) => ClearBaseSlots(tab, upto)[k] = tab[k]
<1> DEFINE c == ClearBaseSlots(tab, upto)
           cleared(k) == [tab[k] EXCEPT !.overlay = FALSE, !.impl = Unbound]
<1>1. Len(tab) \in Nat /\ DOMAIN tab = 1 .. Len(tab) /\ \A k \in 1 .. Len(tab) : tab[k] \in Slot
  BY LenProperties
<1>2. c = [k \in 1 .. Len(tab) |->
             IF k <= upto THEN cleared(k) ELSE tab[k]]
  BY <1>1 DEF ClearBaseSlots
<1> HIDE DEF c
<1>2a. \A k \in 1 .. Len(tab) :
         /\ cleared(k) \in Slot /\ cleared(k).name = tab[k].name /\ cleared(k).at = tab[k].at
         /\ cleared(k).impl = Unbound /\ ~cleared(k).overlay
  BY <1>1 DEF Slot
<1> HIDE DEF cleared
<1>3. \A k \in 1 .. Len(tab) :
        /\ c[k] \in Slot /\ c[k].name = tab[k].name /\ c[k].at = tab[k].at
        /\ k <= upto => c[k].impl = Unbound /\ ~c[k].overlay
        /\ ~(k <= upto) => c[k] = tab[k]
  BY <1>1, <1>2, <1>2a
<1>3a. c = [k \in 1 .. Len(tab) |-> c[k]]
  BY <1>2
<1>4. c \in [1 .. Len(tab) -> Slot]
  BY <1>3, <1>3a
<1>5. c \in Seq(Slot) /\ Len(c) = Len(tab)
  BY <1>1, <1>4, SeqDef, LenProperties
<1> QED
  BY <1>3, <1>5 DEF c

Kept(tab) == {k \in DOMAIN tab : ~tab[k].overlay /\ tab[k].name # NoName}

(* What froth_slot_reset_overlay leaves, up to the last slot it keeps.     *)
LEMMA ResetOverlayFacts ==
  ASSUME NEW tab \in Seq(Slot)
  PROVE  /\ ResetOverlay(tab) \in Seq(Slot)
         /\ Len(ResetOverlay(tab)) \in Nat /\ Len(ResetOverlay(tab)) <= Len(tab)
         /\ Len(ResetOverlay(tab)) = 0 \/ Len(ResetOverlay(tab)) \in Kept(tab)
         /\ \A k \in Kept(tab) : k <= Len(ResetOverlay(tab))
         /\ \A k \in 1 .. Len(ResetOverlay(tab)) :
              ~tab[k].overlay => ResetOverlay(tab)[k] = tab[k]
<1> DEFINE P(m) == (m = 0 \/ m \in Kept(tab)) /\ \A k \in Kept(tab) : k <= m
           end == CHOOSE m \in 0 .. Len(tab) : P(m)
           r == ResetOverlay(tab)
           none == [name |-> NoName, impl |-> Unbound, overlay |-> FALSE, at |-> 0]
<1>1. Len(tab) \in Nat /\ DOMAIN tab = 1 .. Len(tab) /\ \A k \in 1 .. Len(tab) : tab[k] \in Slot
  BY LenProperties
<1>2. Kept(tab) \in SUBSET (1 .. Len(tab))
  BY <1>1 DEF Kept
<1>3. \E m \in 0 .. Len(tab) : P(m)
  <2>1. CASE Kept(tab) = {}
    <3>1. 0 \in 0 .. Len(tab) /\ P(0)
      BY <1>1, <2>1
    <3> QED
      BY <3>1
  <2>2. CASE Kept(tab) # {}
    <3>1. PICK m \in Kept(tab) : \A k \in Kept(tab) : k <= m
      BY <1>1, <1>2, <2>2, LastPlace
    <3>2. m \in 0 .. Len(tab) /\ P(m)
      BY <1>1, <1>2, <3>1
    <3> QED
      BY <3>2
  <2> QED
    BY <2>1, <2>2
<1>4. end \in 0 .. Len(tab) /\ P(end)
  BY <1>3
<1>5. r = [k \in 1 .. end |-> IF tab[k].overlay THEN none ELSE tab[k]]
  BY DEF ResetOverlay, Kept
<1>6. none \in Slot
  BY DEF Slot
<1> HIDE DEF end, r, none
<1>7. \A k \in 1 .. end : r[k] \in Slot /\ (~tab[k].overlay => r[k] = tab[k])
  BY <1>1, <1>4, <1>5, <1>6
<1>8. r \in [1 .. end -> Slot]
  BY <1>5, <1>7
<1>9. r \in Seq(Slot) /\ Len(r) = end /\ end \in Nat /\ end <= Len(tab)
  BY <1>1, <1>4, <1>8, SeqDef, LenProperties
<1> QED
  BY <1>4, <1>7, <1>9 DEF r

(* Nothing dangles when the counts are exact, and no base name is missing. *)
LEMMA UncutResets ==
  ASSUME TypeOK, Uncut, phase = "idle"
  PROVE  DanglingOverlay = {} /\ RegistryHoles = {}
<1>1. slots \in Seq(Slot) /\ Len(slots) \in Nat /\ DOMAIN slots = 1 .. Len(slots)
  BY TypeFacts
<1>2. ASSUME NEW k \in DanglingOverlay PROVE FALSE
  <2> DEFINE id == slots[k].impl
             A == {j \in OverlaySlots : j <= k /\ slots[j].impl = id}
  <2>1. k \in 1 .. Len(slots) /\ id \in Ids /\ objects[id].refs < Cardinality(A)
    BY <1>1, TypeFacts DEF DanglingOverlay, OverlaySlots, OverlayRefs, Slot
  <2>2. A \in SUBSET BoundTo(slots, id)
    BY DEF OverlaySlots, BoundTo
  <2>3. IsFiniteSet(BoundTo(slots, id)) /\ Cardinality(BoundTo(slots, id)) \in Nat
    BY <1>1, BoundToFinite
  <2> HIDE DEF A
  <2>4. Cardinality(A) <= Cardinality(BoundTo(slots, id)) /\ Cardinality(A) \in Nat
    BY <2>2, <2>3, FS_Subset, FS_CardinalityType
  <2>5. objects[id].refs = Cardinality(BoundTo(slots, id))
    BY <2>1 DEF Uncut, CountInv
  <2> QED
    BY <2>1, <2>3, <2>4, <2>5
<1>3. ASSUME NEW k \in RegistryHoles PROVE FALSE
  <2>1. k \in 1 .. registry /\ slots[k].name = NoName
    BY DEF RegistryHoles
  <2>2. registry = Size /\ Len(slots) = Size + heap /\ heap \in Nat /\ Size \in Nat
    BY TypeFacts DEF Uncut, PhaseInv
  <2>3. k \in 1 .. Size /\ k \in 1 .. Len(slots) /\ k <= Size
    BY <2>1, <2>2
  <2>4. slots[k].name = BaseSeq[k]
    BY <1>1, <2>3 DEF Uncut, LayoutInv
  <2>5. BaseSeq[k] \in BaseNames
    BY <2>3, BaseFacts
  <2> QED
    BY <2>1, <2>4, <2>5, BaseImageAssumption
<1> QED
  BY <1>2, <1>3

LEMMA ResetFailsOnHoleStep ==
  ASSUME IInv, ResetFailsOnHole
  PROVE  IInv'
<1>1. /\ phase = "idle" /\ RegistryHoles # {} /\ objects' = Dead(objects)
      /\ status' = "error" /\ UNCHANGED <<registry, heap, phase, pos, booted, cut>>
      /\ \E h \in RegistryHoles : slots' = ClearBaseSlots(slots, h - 1)
  BY DEF ResetFailsOnHole
<1>1a. \A h \in RegistryHoles : h - 1 \in Int
  BY DEF RegistryHoles, IInv, TypeOK
<1>2. TypeOK /\ slots \in Seq(Slot) /\ objects \in ObjectTable
  BY TypeFacts DEF IInv
<1>3. slots' \in Seq(Slot) /\ Len(slots') = Len(slots)
  BY <1>1, <1>1a, <1>2, ClearFacts
<1>4. objects' \in ObjectTable
  BY <1>1, <1>2, DeadFacts
<1>5. TypeOK'
  BY <1>1, <1>2, <1>3, <1>4 DEF TypeOK, ObjectTable
<1>6. RoomInv'
  BY <1>1 DEF RoomInv
<1>7. cut
  BY <1>1, <1>2, UncutResets DEF IInv
<1> QED
  BY <1>1, <1>5, <1>6, <1>7 DEF IInv

(* Until the reset meets an object that is gone, every count it lowers was *)
(* positive: consider the last slot before that one bound to the object.   *)
LEMMA ResetFailsOnReleaseStep ==
  ASSUME IInv, ResetFailsOnRelease
  PROVE  IInv'
<1> DEFINE A(d, id) == {k \in OverlaySlots : k < d /\ slots[k].impl = id}
<1>1. /\ phase = "idle" /\ DanglingOverlay # {} /\ status' = "error"
      /\ UNCHANGED <<slots, registry, heap, phase, pos, booted, cut>>
  BY DEF ResetFailsOnRelease
<1>2. PICK d \in DanglingOverlay :
        /\ \A k \in DanglingOverlay : d <= k
        /\ objects' = [id \in Ids |->
             [objects[id] EXCEPT !.refs = @ - Cardinality(A(d, id))]]
  BY DEF ResetFailsOnRelease
<1>3. /\ TypeOK /\ slots \in Seq(Slot) /\ objects \in ObjectTable
      /\ Len(slots) \in Nat /\ DOMAIN slots = 1 .. Len(slots)
  BY TypeFacts DEF IInv
<1>4. d \in 1 .. Len(slots) /\ OverlaySlots \in SUBSET (1 .. Len(slots))
  BY <1>3 DEF DanglingOverlay, OverlaySlots
<1>5. ASSUME NEW id \in Ids
      PROVE  Cardinality(A(d, id)) \in Nat /\ Cardinality(A(d, id)) <= objects[id].refs
  <2> DEFINE S == A(d, id)
  <2>1. S \in SUBSET (1 .. Len(slots))
    BY <1>4
  <2>2. objects[id].refs \in Nat
    BY <1>3 DEF ObjectTable
  <2>3. CASE S = {}
    <3>1. Cardinality(S) = 0
      BY <2>3, FS_EmptySet
    <3> HIDE DEF S
    <3>2. Cardinality(S) \in Nat /\ Cardinality(S) <= objects[id].refs
      BY <2>2, <3>1
    <3> QED
      BY <3>2 DEF S
  <2>4. CASE S # {}
    <3> HIDE DEF S
    <3>1. PICK e \in S : \A k \in S : k <= e
      BY <1>3, <2>1, <2>4, LastPlace
    <3> USE DEF S
    <3>2. e \in OverlaySlots /\ e < d /\ slots[e].impl = id /\ e \in 1 .. Len(slots)
      BY <1>4, <3>1
    <3>3. e \notin DanglingOverlay
      BY <1>2, <1>4, <3>2
    <3>4. {j \in OverlaySlots : j <= e /\ slots[j].impl = slots[e].impl} = S
      <4>1. \A j \in OverlaySlots : slots[j].impl = id => (j <= e <=> j < d /\ j <= e)
        BY <1>4, <3>2
      <4>2. \A j \in OverlaySlots : slots[j].impl = id /\ j < d => j <= e
        BY <3>1
      <4> QED
        BY <3>2, <4>1, <4>2
    <3>5. OverlayRefs(e) = Cardinality(S)
      BY <3>4 DEF OverlayRefs
    <3>6. ~(objects[id].refs < Cardinality(S))
      BY <3>2, <3>3, <3>5 DEF DanglingOverlay
    <3>7. S \in SUBSET BoundTo(slots, id)
      BY DEF OverlaySlots, BoundTo
    <3> HIDE DEF S
    <3>8. Cardinality(S) \in Nat
      BY <1>3, <3>7, BoundToFinite, FS_Subset, FS_CardinalityType
    <3>9. Cardinality(S) \in Nat /\ Cardinality(S) <= objects[id].refs
      BY <2>2, <3>6, <3>8
    <3> QED
      BY <3>9 DEF S
  <2> QED
    BY <2>3, <2>4
<1>6. objects' \in ObjectTable
  <2>1. \A id \in Ids : objects[id].refs - Cardinality(A(d, id)) \in Nat
    <3> HIDE DEF A
    <3>1. \A id \in Ids : objects[id].refs \in Nat
      BY <1>3 DEF ObjectTable
    <3> QED
      BY <1>5, <3>1
  <2> HIDE DEF A
  <2> QED
    BY <1>2, <1>3, <2>1 DEF ObjectTable
<1>7. TypeOK'
  BY <1>1, <1>3, <1>6 DEF TypeOK, ObjectTable
<1>8. RoomInv'
  BY <1>1 DEF RoomInv
<1>9. cut
  BY <1>1, <1>3, UncutResets DEF IInv
<1> QED
  BY <1>1, <1>7, <1>8, <1>9 DEF IInv

LEMMA ResetBeginStep ==
  ASSUME IInv, ResetBegin
  PROVE  IInv'
<1> DEFINE c == ClearBaseSlots(slots, registry)
<1>1. /\ phase = "idle" /\ objects' = Dead(objects) /\ slots' = ResetOverlay(c)
      /\ heap' = 0 /\ registry' = 0 /\ phase' = "install" /\ pos' = 0
      /\ UNCHANGED <<booted, status, cut>>
  BY DEF ResetBegin
<1>2. /\ TypeOK /\ slots \in Seq(Slot) /\ objects \in ObjectTable /\ Len(slots) \in Nat
      /\ DOMAIN slots = 1 .. Len(slots) /\ Len(slots) <= SlotCapacity
  BY TypeFacts DEF IInv, TypeOK
<1>3. /\ c \in Seq(Slot) /\ Len(c) = Len(slots)
      /\ \A k \in 1 .. Len(slots) :
           /\ c[k].name = slots[k].name /\ c[k].at = slots[k].at
           /\ k <= registry => c[k].impl = Unbound /\ ~c[k].overlay
           /\ ~(k <= registry) => c[k] = slots[k]
  <2>1. registry \in Int
    BY <1>2 DEF TypeOK
  <2> QED
    BY <1>2, <2>1, ClearFacts
<1> HIDE DEF c
<1>4. /\ slots' \in Seq(Slot) /\ Len(slots') \in Nat /\ Len(slots') <= Len(c)
      /\ Len(slots') = 0 \/ Len(slots') \in Kept(c)
      /\ \A k \in Kept(c) : k <= Len(slots')
      /\ \A k \in 1 .. Len(slots') : ~c[k].overlay => slots'[k] = c[k]
  BY <1>1, <1>3, ResetOverlayFacts
<1>5. /\ objects' \in ObjectTable /\ LiveIds(objects') = {}
      /\ \A x \in Ids : objects'[x].refs = 0
  BY <1>1, <1>2, DeadFacts
<1>6. TypeOK'
  <2>1. Len(slots') <= SlotCapacity
    BY <1>2, <1>3, <1>4, BaseFacts
  <2>2. registry' \in 0 .. SlotCapacity /\ heap' \in Nat /\ pos' \in 0 .. Len(BaseSeq)
    BY <1>1, BaseFacts DEF Size
  <2>3. booted' \in BOOLEAN /\ status' \in {"ok", "error"} /\ cut' \in BOOLEAN
    BY <1>1, <1>2 DEF TypeOK
  <2> QED
    BY <1>1, <1>4, <1>5, <2>1, <2>2, <2>3 DEF TypeOK, ObjectTable
<1>7. RoomInv'
  BY <1>1, <1>5, FS_EmptySet DEF RoomInv
<1>8. ASSUME ~cut PROVE Uncut'
  <2>1. LayoutInv /\ PhaseInv
    BY <1>8 DEF IInv, Uncut
  <2>2. /\ booted /\ registry = Size /\ Len(slots) = Size + heap
        /\ heap \in Nat /\ Size \in Nat
    BY <1>1, <1>2, <2>1, TypeFacts DEF PhaseInv
  <2>3. \A k \in 1 .. Len(slots) :
          /\ k <= Size => slots[k].name = BaseSeq[k] /\ slots[k].at = 0
          /\ k > Size => slots[k].overlay
    BY <1>2, <2>1 DEF LayoutInv
  <2>4. DOMAIN c = 1 .. Len(slots)
    BY <1>3, LenProperties
  <2>5. Kept(c) = 1 .. Size
    <3>1. ASSUME NEW k \in 1 .. Size PROVE k \in Kept(c)
      <4>1. k \in 1 .. Len(slots) /\ k <= registry /\ k <= Size
        BY <2>2
      <4>2. c[k].name = BaseSeq[k] /\ ~c[k].overlay
        BY <1>3, <2>3, <4>1
      <4>3. BaseSeq[k] # NoName
        BY BaseFacts, BaseImageAssumption
      <4> QED
        BY <2>4, <4>1, <4>2, <4>3 DEF Kept
    <3>2. ASSUME NEW k \in Kept(c) PROVE k \in 1 .. Size
      <4>1. k \in 1 .. Len(slots) /\ ~c[k].overlay
        BY <2>4 DEF Kept
      <4>2. ~(k > Size)
        BY <1>3, <2>2, <2>3, <4>1
      <4> QED
        BY <2>2, <4>1, <4>2
    <3> QED
      BY <3>1, <3>2
  <2>6. Len(slots') = Size
    BY <1>4, <2>2, <2>5
  <2>7. \A k \in 1 .. Size : /\ k \in 1 .. Len(slots) /\ k <= registry
                             /\ slots'[k] = c[k]
    <3>1. \A k \in 1 .. Size : k \in 1 .. Len(slots) /\ k <= registry
      BY <2>2
    <3>2. \A k \in 1 .. Size : ~c[k].overlay
      BY <1>3, <3>1
    <3> QED
      BY <1>4, <2>6, <3>1, <3>2
  <2>8. \A k \in 1 .. Size : /\ slots'[k].name = BaseSeq[k] /\ slots'[k].at = 0
                             /\ slots'[k].impl = Unbound /\ ~slots'[k].overlay
    BY <1>3, <2>3, <2>7, <2>2
  <2>9. DOMAIN slots' = 1 .. Size
    BY <1>4, <2>6, LenProperties
  <2>10. LayoutInv'
    <3>1. \A k \in 1 .. Size : ~(k > Size)
      BY <2>2
    <3>2. \A j, k \in 1 .. Size : slots'[j].name = slots'[k].name => j = k
      BY <2>8, BaseFacts
    <3> QED
      BY <2>8, <2>9, <3>1, <3>2 DEF LayoutInv
  <2>11. PhaseInv'
    BY <1>1, <2>2, <2>6 DEF PhaseInv
  <2>12. BoundInv'
    <3>1. \A k \in 1 .. Size : ~(k <= pos')
      BY <1>1, <2>2
    <3> QED
      BY <2>8, <2>9, <3>1 DEF BoundInv
  <2>13. CountInv'
    <3>1. \A x \in Ids : BoundTo(slots', x) = {}
      BY <2>8, <2>9, BaseFacts DEF BoundTo
    <3> QED
      BY <1>5, <3>1, FS_EmptySet DEF CountInv
  <2> QED
    BY <2>10, <2>11, <2>12, <2>13 DEF Uncut
<1> QED
  BY <1>1, <1>6, <1>7, <1>8 DEF IInv

----------------------------------------------------------------------------
(* The invariant, and what it says.                                        *)

LEMMA NextStep ==
  ASSUME IInv, [Next]_vars
  PROVE  IInv'
<1>1. ASSUME NEW n \in UserNames, Define(n) PROVE IInv'
  BY <1>1, DefineStep
<1>2. ASSUME NEW n \in UserNames, NEW m \in BaseNames \cup UserNames, Alias(n, m) PROVE IInv'
  BY <1>2, AliasStep
<1>3. CASE ResetFailsOnRelease
  BY <1>3, ResetFailsOnReleaseStep
<1>4. CASE ResetFailsOnHole
  BY <1>4, ResetFailsOnHoleStep
<1>5. CASE ResetBegin
  BY <1>5, ResetBeginStep
<1>6. CASE InstallNative
  BY <1>6, InstallNativeStep
<1>7. CASE InstallFfi
  BY <1>7, InstallFfiStep
<1>8. CASE EvalLibForm
  BY <1>8, EvalLibFormStep
<1>9. CASE InstallFails
  BY <1>9, InstallFailsStep
<1>10. CASE InstallDone
  BY <1>10, InstallDoneStep
<1>11. CASE PowerOn
  BY <1>11, PowerOnStep
<1>12. CASE UNCHANGED vars
  BY <1>12 DEF IInv, TypeOK, RoomInv, Uncut, LayoutInv, PhaseInv, BoundInv, BaseBound,
               CountInv, vars
<1> QED
  BY <1>1, <1>2, <1>3, <1>4, <1>5, <1>6, <1>7, <1>8, <1>9, <1>10, <1>11, <1>12 DEF Next

LEMMA Invariance == Spec => []IInv
<1>1. Init => IInv
  BY InitStep
<1>2. IInv /\ [Next]_vars => IInv'
  BY NextStep
<1> QED
  BY <1>1, <1>2, PTL DEF Spec

(* Every variable keeps its type, and once a boot or a reset has succeeded *)
(* the count of every object is the number of slots bound to it, unless a  *)
(* reset was cut short (frothy_slot_write_owned, frothy_value_release,     *)
(* frothy_base_image_reset).                                               *)
THEOREM CountsAreExact == Spec => []RefsExact
<1>1. IInv => RefsExact
  BY DEF IInv, Uncut, CountInv, BoundTo, RefsExact, Settled
<1> QED
  BY <1>1, Invariance, PTL

(* Base definitions survive wipe and reset, unless one was cut short: every *)
(* base name has its one slot, bound to its definition until the program   *)
(* assigns it (frothy_base_image_install, frothy_base_image_reset).        *)
THEOREM BaseDefinitionsSurvive == Spec => []BaseSurvivesUncut
<1>1. ASSUME IInv, ~cut, Settled, NEW n \in BaseNames PROVE Intact(n)
  <2>1. /\ TypeOK /\ LayoutInv /\ PhaseInv /\ BoundInv /\ CountInv /\ phase = "idle"
    BY <1>1 DEF IInv, Uncut, Settled
  <2>2. /\ pos = Size /\ Len(slots) = Size + heap /\ heap \in Nat /\ Size \in Nat
        /\ DOMAIN slots = 1 .. Len(slots)
    BY <2>1, TypeFacts DEF PhaseInv
  <2>3. PICK k \in 1 .. Size : BaseSeq[k] = n
    BY <1>1, BaseFacts
  <2>4. k \in 1 .. Len(slots) /\ k <= pos /\ k <= Size
    BY <2>2, <2>3
  <2>5. slots[k].name = n /\ \A j \in DOMAIN slots : slots[j].name = n => j = k
    BY <2>1, <2>2, <2>3, <2>4 DEF LayoutInv
  <2>6. Named(slots, n) = {k}
    BY <2>2, <2>4, <2>5 DEF Named
  <2>7. ~slots[k].overlay => BaseBound(k)
    BY <2>1, <2>2, <2>4 DEF BoundInv
  <2>8. slots[k].impl \in Ids => slots[k].impl # Unbound /\ Live(objects, slots[k].impl)
    BY <2>1, <2>4, BoundIsLive, BaseFacts DEF Live
  <2> QED
    BY <2>3, <2>6, <2>7, <2>8 DEF BaseBound, Intact
<1>2. IInv => BaseSurvivesUncut
  BY <1>1 DEF BaseSurvivesUncut, BaseSurvives
<1> QED
  BY <1>2, Invariance, PTL

(* A reset that reports success, none before it having been cut short,     *)
(* gives back the slot table of the first boot, in the same order and with *)
(* nothing of the overlay (froth_slot_reset_overlay).                      *)
THEOREM ResetsArePristine == Spec => ResetIsPristine
<1>1. ASSUME IInv, Next, ~cut, phase = "install", phase' = "idle", status' = "ok"
      PROVE  Pristine'
  <2>1. InstallDone
    BY <1>1 DEF Next, Define, Alias, Assign, ResetFailsOnRelease, ResetFailsOnHole, ResetBegin,
                InstallNative, InstallFfi, EvalLibForm, Installed, InstallFails, PowerOn
  <2>2. /\ TypeOK /\ LayoutInv /\ PhaseInv /\ BoundInv
    BY <1>1 DEF IInv, Uncut
  <2>3. /\ pos = Size /\ registry' = Len(slots) /\ slots' = slots /\ heap' = heap
    BY <2>1 DEF InstallDone, Size
  <2>4. heap = 0 /\ Len(slots) = Size /\ Size \in Nat /\ DOMAIN slots = 1 .. Len(slots)
    BY <1>1, <2>2, <2>3, TypeFacts DEF PhaseInv
  <2>5. \A k \in DOMAIN slots : slots[k].name = BaseSeq[k] /\ ~slots[k].overlay
    <3>1. \A k \in DOMAIN slots : k <= Size
      BY <2>4
    <3> QED
      BY <1>1, <2>2, <3>1 DEF LayoutInv, BoundInv
  <2> QED
    BY <2>3, <2>4, <2>5 DEF Pristine, Size
<1>2. IInv /\ [Next]_vars =>
        [~cut /\ phase = "install" /\ phase' = "idle" /\ status' = "ok" => Pristine']_vars
  BY <1>1
<1> QED
  BY <1>2, Invariance, PTL DEF Spec, ResetIsPristine
=============================================================================
