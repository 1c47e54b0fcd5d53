--------------------------- MODULE EvaluatorProofs ---------------------------
(***************************************************************************)
(* Proofs about Evaluator: for every number of frames, objects, slots and  *)
(* arena values, buffers are stacked, every count is exact and code that   *)
(* runs is alive.                                                          *)
(*                                                                         *)
(* The counts are numbers of places.  Sections 1 to 3 know only an object  *)
(* table and how often the rest of the runtime refers to each object; the  *)
(* frames come in section 4, the actions in section 7.                     *)
(***************************************************************************)
EXTENDS Evaluator, FiniteSetTheorems, SequenceTheorems, TLAPS

----------------------------------------------------------------------------
(* 1. Counting.                                                            *)

Is(v, o) == IF v = o THEN 1 ELSE 0

(* A function with finitely many places holds o a number of times.         *)
LEMMA OccType ==
  ASSUME NEW f, NEW o, IsFiniteSet(DOMAIN f)
  PROVE  /\ Occurrences(f, o) \in Nat
         /\ IsFiniteSet({k \in DOMAIN f : f[k] = o})
<1>1. {k \in DOMAIN f : f[k] = o} \in SUBSET DOMAIN f
  OBVIOUS
<1> QED
  BY <1>1, FS_Subset, FS_CardinalityType DEF Occurrences

(* Disjoint finite sets of places add up.                                  *)
LEMMA DisjointSum ==
  ASSUME NEW S, NEW T, IsFiniteSet(S), IsFiniteSet(T), S \cap T = {}
  PROVE  /\ IsFiniteSet(S \cup T)
         /\ Cardinality(S \cup T) = Cardinality(S) + Cardinality(T)
<1>1. Cardinality(S) \in Nat /\ Cardinality(T) \in Nat
  BY FS_CardinalityType
<1>2. Cardinality(S \cap T) = 0
  BY FS_EmptySet
<1>3. IsFiniteSet(S \cup T)
      /\ Cardinality(S \cup T) = Cardinality(S) + Cardinality(T) - Cardinality(S \cap T)
  BY FS_Union
<1> QED
  BY <1>1, <1>2, <1>3

(* One place changes: the old value is held once less, the new one once    *)
(* more.                                                                   *)
LEMMA OccUpdate ==
  ASSUME NEW f, NEW g, NEW p, NEW o, IsFiniteSet(DOMAIN f), DOMAIN g = DOMAIN f,
         p \in DOMAIN f, \A k \in DOMAIN f : k # p => g[k] = f[k]
  PROVE  Occurrences(g, o) + Is(f[p], o) = Occurrences(f, o) + Is(g[p], o)
<1> DEFINE F == {k \in DOMAIN f : f[k] = o}
           G == {k \in DOMAIN g : g[k] = o}
           R == {k \in DOMAIN f : k # p /\ f[k] = o}
<1>1. R \in SUBSET DOMAIN f /\ p \notin R
  OBVIOUS
<1>2. IsFiniteSet(R) /\ Cardinality(R) \in Nat
  BY <1>1, FS_Subset, FS_CardinalityType
<1>3. Cardinality(R \cup {p}) = Cardinality(R) + 1
  BY <1>1, <1>2, FS_AddElement
<1>4. F = IF f[p] = o THEN R \cup {p} ELSE R
  OBVIOUS
<1>5. G = IF g[p] = o THEN R \cup {p} ELSE R
  OBVIOUS
<1>6. Occurrences(f, o) = Cardinality(F) /\ Occurrences(g, o) = Cardinality(G)
  BY DEF Occurrences
<1> HIDE DEF F, G, R
<1> QED
  BY <1>2, <1>3, <1>4, <1>5, <1>6 DEF Is

(* The places of a set and the others.                                     *)
LEMMA OccSplit ==
  ASSUME NEW f, NEW g, NEW r, NEW o, IsFiniteSet(DOMAIN f),
         DOMAIN g \subseteq DOMAIN f, \A k \in DOMAIN g : g[k] = f[k],
         DOMAIN r = DOMAIN f,
         \A k \in DOMAIN g : r[k] # o,
         \A k \in DOMAIN f : k \notin DOMAIN g => r[k] = f[k]
  PROVE  Occurrences(f, o) = Occurrences(g, o) + Occurrences(r, o)
<1> DEFINE F == {k \in DOMAIN f : f[k] = o}
           G == {k \in DOMAIN g : g[k] = o}
           R == {k \in DOMAIN r : r[k] = o}
<1>1. G \in SUBSET DOMAIN f /\ R \in SUBSET DOMAIN f /\ G \cap R = {} /\ F = G \cup R
  OBVIOUS
<1>2. IsFiniteSet(G) /\ IsFiniteSet(R)
  BY <1>1, FS_Subset
<1>3. Occurrences(f, o) = Cardinality(F) /\ Occurrences(g, o) = Cardinality(G)
      /\ Occurrences(r, o) = Cardinality(R)
  BY DEF Occurrences
<1> HIDE DEF F, G, R
<1> QED
  BY <1>1, <1>2, <1>3, DisjointSum

(* Two functions hold o at the same places.                                *)
LEMMA OccSame ==
  ASSUME NEW f, NEW g, NEW o,
         \A k : (k \in DOMAIN f /\ f[k] = o) <=> (k \in DOMAIN g /\ g[k] = o)
  PROVE  Occurrences(f, o) = Occurrences(g, o)
<1>1. {k \in DOMAIN f : f[k] = o} = {k \in DOMAIN g : g[k] = o}
  OBVIOUS
<1> QED
  BY <1>1 DEF Occurrences

(* Nothing holds o, or something does.                                     *)
LEMMA OccZero ==
  ASSUME NEW f, NEW o, IsFiniteSet(DOMAIN f)
  PROVE  /\ (\A k \in DOMAIN f : f[k] # o) => Occurrences(f, o) = 0
         /\ \A k \in DOMAIN f : f[k] = o => Occurrences(f, o) > 0
<1> DEFINE F == {k \in DOMAIN f : f[k] = o}
<1>1. IsFiniteSet(F) /\ Cardinality(F) \in Nat /\ Occurrences(f, o) = Cardinality(F)
  BY OccType, FS_CardinalityType DEF Occurrences
<1>2. Cardinality(F) = 0 <=> F = {}
  BY <1>1, FS_EmptySet
<1>3. F = {} <=> \A k \in DOMAIN f : f[k] # o
  OBVIOUS
<1> HIDE DEF F
<1> QED
  BY <1>1, <1>2, <1>3

(* A tuple of one value, and of three.                                     *)
LEMMA OccOne ==
  ASSUME NEW v, NEW o
  PROVE  Occurrences(<<v>>, o) = Is(v, o)
<1> DEFINE F == {k \in DOMAIN <<v>> : <<v>>[k] = o}
<1>1. F = IF v = o THEN {1} ELSE {}
  OBVIOUS
<1>2. Occurrences(<<v>>, o) = Cardinality(F)
  BY DEF Occurrences
<1> HIDE DEF F
<1> QED
  BY <1>1, <1>2, FS_Singleton, FS_EmptySet DEF Is

(* A tuple of three values.                                                *)
LEMMA OccThree ==
  ASSUME NEW f, NEW o, DOMAIN f = 1 .. 3
  PROVE  Occurrences(f, o) = Is(f[1], o) + Is(f[2], o) + Is(f[3], o)
<1> DEFINE At(k) == IF f[k] = o THEN {k} ELSE {}
           F == {k \in DOMAIN f : f[k] = o}
<1>0. F = (At(1) \cup At(2)) \cup At(3)
  OBVIOUS
<1>1. \A k \in 1 .. 3 : IsFiniteSet(At(k)) /\ Cardinality(At(k)) = Is(f[k], o)
  BY FS_Singleton, FS_EmptySet DEF Is
<1>2. At(1) \cap At(2) = {} /\ (At(1) \cup At(2)) \cap At(3) = {}
  OBVIOUS
<1>3. Occurrences(f, o) = Cardinality(F)
  BY DEF Occurrences
<1> HIDE DEF F, At
<1>4. IsFiniteSet(At(1) \cup At(2))
      /\ Cardinality(At(1) \cup At(2)) = Cardinality(At(1)) + Cardinality(At(2))
  BY <1>1, <1>2, DisjointSum
<1>5. Cardinality(F) = Cardinality(At(1) \cup At(2)) + Cardinality(At(3))
  BY <1>0, <1>1, <1>2, <1>4, DisjointSum
<1> QED
  BY <1>1, <1>3, <1>4, <1>5

----------------------------------------------------------------------------
(* 2. Releasing.  An object table h is exact for X when every live object  *)
(* counts the X[o] references from outside and those of the live objects,  *)
(* and is referred to at all, and nothing refers to a free entry.          *)

(* Where the objects in S hold o.                                          *)
KidPlaces(h, S, o) ==
  {q \in S \X Elements : q[2] \in DOMAIN h[q[1]].kids /\ h[q[1]].kids[q[2]] = o}
KidCount(h, S, o) == Cardinality(KidPlaces(h, S, o))

KidsLen(kind) == IF kind = "cells" THEN 1 ELSE IF kind = "record" THEN 2 ELSE 0

(* The entries of the table: a free one holds nothing, cells one value, a  *)
(* record two; a record definition takes one argument, its field.          *)
HeapOK(h) ==
  /\ h \in [ObjectIds -> Objects]
  /\ \A o \in ObjectIds : /\ h[o].kind = "free" => h[o] = NoObject
                          /\ Len(h[o].kids) = KidsLen(h[o].kind)
                          /\ h[o].kind = "def" => h[o].arity = 1

Counts == [ObjectIds -> Nat]

Exact(h, X) ==
  \A o \in ObjectIds :
    IF o \in Live(h) THEN h[o].refs = X[o] + KidCount(h, Live(h), o) /\ h[o].refs > 0
    ELSE X[o] + KidCount(h, Live(h), o) = 0

(* The references that are left when the values of f are given up.         *)
Less(X, f) == [o \in ObjectIds |-> X[o] - Occurrences(f, o)]

(* What stays of the live objects of h.                                    *)
Kept(g, h) ==
  \A o \in Live(g) : /\ o \in Live(h)
                     /\ g[o].kind = h[o].kind /\ g[o].arity = h[o].arity
                     /\ g[o].kids = h[o].kids

(* What objects hold, as the model counts it and as places.                *)
LEMMA KidsOcc ==
  ASSUME NEW h, NEW S, NEW o
  PROVE  Occurrences(Kids(h, S), o) = KidCount(h, S, o)
<1>1. {p \in DOMAIN Kids(h, S) : Kids(h, S)[p] = o} = KidPlaces(h, S, o)
  BY DEF Kids, KidPlaces
<1> QED
  BY <1>1 DEF Occurrences, KidCount

(* The places of more objects are more, and of disjoint sets add up.       *)
LEMMA KidCountType ==
  ASSUME NEW h, NEW S, NEW o, S \subseteq ObjectIds
  PROVE  IsFiniteSet(KidPlaces(h, S, o)) /\ KidCount(h, S, o) \in Nat
<1>0. 0 \in Int /\ 1 \in Int /\ 2 \in Int /\ ObjectCapacity \in Int
  BY EvaluatorAssumption
<1>1. IsFiniteSet(ObjectIds) /\ IsFiniteSet(Elements)
  BY <1>0, FS_Interval DEF ObjectIds, Elements
<1>2. IsFiniteSet(S)
  BY <1>1, FS_Subset
<1>3. IsFiniteSet(S \X Elements)
  BY <1>1, <1>2, FS_Product
<1>4. KidPlaces(h, S, o) \in SUBSET (S \X Elements)
  BY DEF KidPlaces
<1> QED
  BY <1>3, <1>4, FS_Subset, FS_CardinalityType DEF KidCount

(* More objects hold more.                                                 *)
LEMMA KidCountMono ==
  ASSUME NEW h, NEW S, NEW T, NEW o, S \subseteq T, T \subseteq ObjectIds
  PROVE  KidCount(h, S, o) <= KidCount(h, T, o)
<1>1. KidPlaces(h, S, o) \in SUBSET KidPlaces(h, T, o)
  BY DEF KidPlaces
<1> QED
  BY <1>1, KidCountType, FS_Subset DEF KidCount

(* Some objects and the others.                                            *)
LEMMA KidCountSplit ==
  ASSUME NEW h, NEW S, NEW T, NEW o, S \subseteq T, T \subseteq ObjectIds
  PROVE  KidCount(h, T, o) = KidCount(h, S, o) + KidCount(h, T \ S, o)
<1>1. KidPlaces(h, T, o) = KidPlaces(h, S, o) \cup KidPlaces(h, T \ S, o)
  BY DEF KidPlaces
<1>2. KidPlaces(h, S, o) \cap KidPlaces(h, T \ S, o) = {}
  BY DEF KidPlaces
<1>3. IsFiniteSet(KidPlaces(h, S, o)) /\ IsFiniteSet(KidPlaces(h, T \ S, o))
  BY KidCountType
<1> QED
  BY <1>1, <1>2, <1>3, DisjointSum DEF KidCount

(* The same objects hold the same.                                         *)
LEMMA KidCountSame ==
  ASSUME NEW h, NEW g, NEW S, NEW o, \A d \in S : g[d].kids = h[d].kids
  PROVE  KidCount(g, S, o) = KidCount(h, S, o)
<1>1. KidPlaces(g, S, o) = KidPlaces(h, S, o)
  BY DEF KidPlaces
<1> QED
  BY <1>1 DEF KidCount

(* Sets of objects that contain what is released as often as it is held.   *)
Closed(h, todo) ==
  {S \in SUBSET Live(h) :
     \A o \in Live(h) : h[o].refs <= Drops(h, todo, S, o) => o \in S}

(* What is dropped, as places.                                             *)
LEMMA DropsCount ==
  ASSUME NEW h, NEW todo, NEW S, NEW o, IsFiniteSet(DOMAIN todo), S \subseteq ObjectIds
  PROVE  /\ Drops(h, todo, S, o) = Occurrences(todo, o) + KidCount(h, S, o)
         /\ Occurrences(todo, o) \in Nat /\ KidCount(h, S, o) \in Nat
BY KidsOcc, OccType, KidCountType DEF Drops

(* More is dropped when more objects die.                                  *)
LEMMA DropsMono ==
  ASSUME NEW h, NEW todo, NEW S, NEW T, NEW o, IsFiniteSet(DOMAIN todo),
         S \subseteq T, T \subseteq ObjectIds
  PROVE  Drops(h, todo, S, o) <= Drops(h, todo, T, o)
BY DropsCount, KidCountMono, S \subseteq ObjectIds

(* Dead is the least closed set: the intersection of all of them is one.   *)
LEMMA DeadLeast ==
  ASSUME NEW h, HeapOK(h), NEW todo, IsFiniteSet(DOMAIN todo)
  PROVE  /\ Dead(h, todo) \in Closed(h, todo)
         /\ \A T \in Closed(h, todo) : Dead(h, todo) \subseteq T
<1> DEFINE C == Closed(h, todo)
           M == {o \in Live(h) : \A S \in C : o \in S}
<1>0. Live(h) \subseteq ObjectIds
  BY DEF Live
<1>1. ASSUME NEW o \in Live(h), h[o].refs <= Drops(h, todo, M, o) PROVE o \in M
  <2> SUFFICES ASSUME NEW S \in C PROVE o \in S
    OBVIOUS
  <2>1. M \subseteq S /\ S \subseteq ObjectIds /\ M \subseteq ObjectIds
    BY <1>0 DEF Closed
  <2>2. Drops(h, todo, M, o) <= Drops(h, todo, S, o)
    BY <2>1, DropsMono
  <2>3. h[o].refs \in Nat
    BY <1>0 DEF HeapOK, Objects
  <2>4. Drops(h, todo, M, o) \in Nat /\ Drops(h, todo, S, o) \in Nat
    BY <2>1, DropsCount
  <2>5. h[o].refs <= Drops(h, todo, S, o)
    BY <1>1, <2>2, <2>3, <2>4
  <2> QED
    BY <2>5 DEF Closed
<1>2. M \in C
  BY <1>1 DEF Closed
<1>3. \A T \in C : M \subseteq T
  OBVIOUS
<1>7. ASSUME NEW S \in SUBSET Live(h), NEW o \in Live(h)
      PROVE  h[o].refs > Drops(h, todo, S, o) <=> ~(h[o].refs <= Drops(h, todo, S, o))
  <2>1. h[o].refs \in Nat
    BY <1>0 DEF HeapOK, Objects
  <2>2. Drops(h, todo, S, o) \in Nat
    BY <1>0, DropsCount
  <2> QED
    BY <2>1, <2>2
<1>8. C = {S \in SUBSET Live(h) : \A o \in Live(h) \ S : h[o].refs > Drops(h, todo, S, o)}
  BY <1>7 DEF Closed
<1>4. Dead(h, todo) = CHOOSE S \in C : \A T \in C : S \subseteq T
  <2> HIDE DEF C
  <2> QED
    BY <1>8 DEF Dead
<1> HIDE DEF C, M
<1>5. \E S \in C : \A T \in C : S \subseteq T
  BY <1>2, <1>3
<1>6. Dead(h, todo) \in C /\ \A T \in C : Dead(h, todo) \subseteq T
  BY <1>4, <1>5
<1> QED
  BY <1>6 DEF C

(* An object dies exactly when it is released as often as it is held.      *)
LEMMA DeadIff ==
  ASSUME NEW h, HeapOK(h), NEW todo, IsFiniteSet(DOMAIN todo)
  PROVE  /\ Dead(h, todo) \subseteq Live(h)
         /\ \A o \in Live(h) :
              o \in Dead(h, todo) <=> h[o].refs <= Drops(h, todo, Dead(h, todo), o)
<1> DEFINE D == Dead(h, todo)
           G == {o \in D : h[o].refs <= Drops(h, todo, D, o)}
<1>1. /\ D \subseteq Live(h)
      /\ \A o \in Live(h) : h[o].refs <= Drops(h, todo, D, o) => o \in D
      /\ \A T \in Closed(h, todo) : D \subseteq T
  BY DeadLeast DEF Closed
<1> HIDE DEF D
<1>0. Live(h) \subseteq ObjectIds
  BY DEF Live
<1>2. ASSUME NEW o \in Live(h), h[o].refs <= Drops(h, todo, G, o) PROVE o \in G
  <2>1. G \subseteq D /\ D \subseteq ObjectIds /\ G \subseteq ObjectIds
    BY <1>0, <1>1
  <2>2. Drops(h, todo, G, o) <= Drops(h, todo, D, o)
    BY <2>1, DropsMono
  <2>3. h[o].refs \in Nat
    BY <1>0 DEF HeapOK, Objects
  <2>4. Drops(h, todo, G, o) \in Nat /\ Drops(h, todo, D, o) \in Nat
    BY <2>1, DropsCount
  <2>5. h[o].refs <= Drops(h, todo, D, o)
    BY <1>2, <2>2, <2>3, <2>4
  <2> QED
    BY <1>1, <2>5
<1>3. G \in Closed(h, todo)
  BY <1>1, <1>2 DEF Closed
<1>4. D \subseteq G
  BY <1>1, <1>3
<1> QED
  BY <1>1, <1>4 DEF D

(* What Release makes of an entry.                                         *)
LEMMA ReleaseEntry ==
  ASSUME NEW h, HeapOK(h), NEW todo, IsFiniteSet(DOMAIN todo),
         ~(Range(todo) \subseteq {Imm}), NEW o \in ObjectIds
  PROVE  LET g == Release(h, todo)
             D == Dead(h, todo)
         IN  /\ DOMAIN g = ObjectIds
             /\ o \notin Live(h) => g[o] = h[o]
             /\ o \in D => g[o] = NoObject
             /\ o \in Live(h) \ D =>
                  /\ g[o].kind = h[o].kind /\ g[o].arity = h[o].arity
                  /\ g[o].kids = h[o].kids
                  /\ g[o].refs = h[o].refs - Drops(h, todo, D, o)
                  /\ g[o].refs \in Nat => g[o] \in Objects
<1> DEFINE g == Release(h, todo)
           D == Dead(h, todo)
<1>1. D \subseteq Live(h)
  BY DeadIff
<1>2. g = [p \in ObjectIds |->
            IF p \notin Live(h) THEN h[p]
            ELSE IF p \in D THEN NoObject
            ELSE [h[p] EXCEPT !.refs = @ - Drops(h, todo, D, p)]]
  BY DEF Release
<1>3. h[o] \in Objects
  BY DEF HeapOK
<1>4. DOMAIN g = ObjectIds
  BY <1>2
<1>5. g[o] = IF o \notin Live(h) THEN h[o]
             ELSE IF o \in D THEN NoObject
             ELSE [h[o] EXCEPT !.refs = @ - Drops(h, todo, D, o)]
  BY <1>2
<1> HIDE DEF g, D
<1>6. [h[o] EXCEPT !.refs = @ - Drops(h, todo, D, o)]
      = [kind |-> h[o].kind, refs |-> h[o].refs - Drops(h, todo, D, o),
         arity |-> h[o].arity, kids |-> h[o].kids]
  BY <1>3 DEF Objects
<1>7. CASE o \in Live(h) \ D
  <2>1. g[o] = [kind |-> h[o].kind, refs |-> h[o].refs - Drops(h, todo, D, o),
                arity |-> h[o].arity, kids |-> h[o].kids]
    BY <1>5, <1>6, <1>7
  <2>2. /\ g[o].kind = h[o].kind /\ g[o].arity = h[o].arity
        /\ g[o].kids = h[o].kids
        /\ g[o].refs = h[o].refs - Drops(h, todo, D, o)
    BY <2>1
  <2>3. g[o] = [kind |-> h[o].kind, refs |-> g[o].refs, arity |-> h[o].arity,
                kids |-> h[o].kids]
    BY <2>1, <2>2
  <2>4. g[o].refs \in Nat => g[o] \in Objects
    BY <1>3, <2>3 DEF Objects
  <2> QED
    BY <1>4, <1>7, <2>2, <2>4 DEF g, D
<1> QED
  BY <1>1, <1>4, <1>5, <1>7 DEF g, D

(* frothy_value_release of values that are held keeps the table exact: what *)
(* lives on is what somebody else still holds.                             *)
LEMMA ReleaseExact ==
  ASSUME NEW h, HeapOK(h), NEW X \in Counts, Exact(h, X),
         NEW todo, IsFiniteSet(DOMAIN todo),
         \A o \in ObjectIds : Occurrences(todo, o) <= X[o]
  PROVE  /\ HeapOK(Release(h, todo))
         /\ Less(X, todo) \in Counts
         /\ Exact(Release(h, todo), Less(X, todo))
         /\ Kept(Release(h, todo), h)
<1> DEFINE g == Release(h, todo)
           D == Dead(h, todo)
           Y == Less(X, todo)
<1>a. \A o \in ObjectIds : Occurrences(todo, o) \in Nat /\ X[o] \in Nat
  BY OccType DEF Counts
<1>b. Y \in Counts /\ \A o \in ObjectIds : Y[o] = X[o] - Occurrences(todo, o)
  BY <1>a DEF Less, Counts
<1>0. Live(h) \subseteq ObjectIds
  BY DEF Live
<1>1. CASE Range(todo) \subseteq {Imm}
  <2>1. g = h
    BY <1>1 DEF Release
  <2>2. ASSUME NEW o \in ObjectIds PROVE Occurrences(todo, o) = 0
    <3>1. \A k \in DOMAIN todo : todo[k] # o
      BY <1>1, EvaluatorAssumption DEF Range, ObjectIds
    <3> QED
      BY <3>1, OccZero
  <2>3. Y = X
    BY <1>a, <2>2 DEF Less, Counts
  <2> QED
    BY <1>b, <2>1, <2>3 DEF Kept
<1>2. CASE ~(Range(todo) \subseteq {Imm})
  <2>1. /\ D \subseteq Live(h)
        /\ \A o \in Live(h) : o \in D <=> h[o].refs <= Drops(h, todo, D, o)
    BY DeadIff
  <2>2. D \subseteq ObjectIds
    BY <1>0, <2>1
  <2>3. ASSUME NEW o \in ObjectIds
        PROVE  /\ Drops(h, todo, D, o) = Occurrences(todo, o) + KidCount(h, D, o)
               /\ KidCount(h, D, o) \in Nat /\ KidCount(h, Live(h) \ D, o) \in Nat
               /\ KidCount(h, Live(h), o) = KidCount(h, D, o) + KidCount(h, Live(h) \ D, o)
    <3>1. Live(h) \ D \subseteq ObjectIds
      BY <1>0
    <3> QED
      BY <1>0, <2>1, <2>2, <3>1, DropsCount, KidCountType, KidCountSplit
  <2>4. \A o \in ObjectIds :
          /\ DOMAIN g = ObjectIds
          /\ o \notin Live(h) => g[o] = h[o]
          /\ o \in D => g[o] = NoObject
          /\ o \in Live(h) \ D =>
               /\ g[o].kind = h[o].kind /\ g[o].arity = h[o].arity
               /\ g[o].kids = h[o].kids
               /\ g[o].refs = h[o].refs - Drops(h, todo, D, o)
               /\ g[o].refs \in Nat => g[o] \in Objects
    BY <1>2, ReleaseEntry
  <2>5. \A o \in ObjectIds : h[o] \in Objects /\ h[o].refs \in Nat
    BY DEF HeapOK, Objects
  <2> HIDE DEF g, D, Y
  <2>6. \A o \in ObjectIds : o \in Live(h) \ D => h[o].refs > Drops(h, todo, D, o)
    BY <2>1, <2>3, <2>5, <1>a
  <2>7. ASSUME NEW o \in ObjectIds
        PROVE  /\ g[o] \in Objects
               /\ g[o].kind = "free" => g[o] = NoObject
               /\ Len(g[o].kids) = KidsLen(g[o].kind)
               /\ o \in Live(g) <=> o \in Live(h) \ D
    <3>1. CASE o \notin Live(h)
      <4>1. o \notin D
        BY <2>1, <3>1
      <4> QED
        BY <2>4, <2>5, <3>1, <4>1 DEF HeapOK, Live
    <3>2. CASE o \in D
      <4>1. NoObject \in Objects /\ NoObject.kind = "free" /\ Len(NoObject.kids) = 0
        BY DEF NoObject, Objects, ObjectKinds
      <4> QED
        BY <2>4, <3>2, <4>1 DEF Live, KidsLen
    <3>3. CASE o \in Live(h) \ D
      <4>1. h[o].refs - Drops(h, todo, D, o) \in Nat
        BY <2>3, <2>5, <2>6, <3>3, <1>a
      <4> HIDE DEF Drops
      <4>2. g[o] \in Objects /\ g[o].kind = h[o].kind /\ g[o].kids = h[o].kids
        BY <2>4, <3>3, <4>1
      <4> QED
        BY <3>3, <4>2 DEF HeapOK, Live
    <3> QED
      BY <3>1, <3>2, <3>3
  <2>8. HeapOK(g) /\ Live(g) = Live(h) \ D
    <3>1. g = [o \in ObjectIds |-> g[o]]
      <4>1. g = [p \in ObjectIds |->
            IF p \notin Live(h) THEN h[p]
            ELSE IF p \in D THEN NoObject
            ELSE [h[p] EXCEPT !.refs = @ - Drops(h, todo, D, p)]]
        BY <1>2 DEF Release, g, D
      <4> QED
        BY <4>1
    <3>2. Live(g) = Live(h) \ D
      BY <2>7, <1>0, <2>2 DEF Live
    <3>3. g \in [ObjectIds -> Objects]
      BY <2>7, <3>1
    <3>4. ASSUME NEW o \in ObjectIds, g[o].kind = "def" PROVE g[o].arity = 1
      <4>1. CASE o \notin Live(h)
        BY <2>4, <3>4, <4>1 DEF HeapOK
      <4>2. CASE o \in D
        BY <2>4, <3>4, <4>2 DEF NoObject
      <4>3. CASE o \in Live(h) \ D
        BY <2>4, <3>4, <4>3 DEF HeapOK
      <4> QED
        BY <4>1, <4>2, <4>3
    <3> QED
      BY <2>7, <3>2, <3>3, <3>4 DEF HeapOK
  <2>9. ASSUME NEW o \in ObjectIds PROVE KidCount(g, Live(g), o) = KidCount(h, Live(h) \ D, o)
    <3>1. \A d \in Live(h) \ D : g[d].kids = h[d].kids
      BY <1>0, <2>4
    <3> QED
      BY <2>8, <3>1, KidCountSame
  <2>10. Exact(g, Y)
    <3> SUFFICES ASSUME NEW o \in ObjectIds
                 PROVE  IF o \in Live(g)
                          THEN g[o].refs = Y[o] + KidCount(g, Live(g), o) /\ g[o].refs > 0
                          ELSE Y[o] + KidCount(g, Live(g), o) = 0
      BY DEF Exact
    <3>0. Occurrences(todo, o) <= X[o]
      OBVIOUS
    <3>a. /\ Occurrences(todo, o) \in Nat /\ X[o] \in Nat
          /\ Y[o] = X[o] - Occurrences(todo, o)
          /\ h[o].refs \in Nat
      BY <1>a, <1>b, <2>5
    <3>b. /\ Drops(h, todo, D, o) = Occurrences(todo, o) + KidCount(h, D, o)
          /\ KidCount(h, D, o) \in Nat /\ KidCount(h, Live(h) \ D, o) \in Nat
          /\ KidCount(h, Live(h), o) = KidCount(h, D, o) + KidCount(h, Live(h) \ D, o)
      BY <2>3
    <3>c. KidCount(g, Live(g), o) = KidCount(h, Live(h) \ D, o)
      BY <2>9
    <3>d. o \in Live(g) <=> o \in Live(h) \ D
      BY <2>8
    <3>1. CASE o \notin Live(h)
      <4>1. X[o] + KidCount(h, Live(h), o) = 0
        BY <3>1 DEF Exact
      <4>3. X[o] + (KidCount(h, D, o) + KidCount(h, Live(h) \ D, o)) = 0
        BY <4>1, <3>b
      <4>4. X[o] = 0 /\ KidCount(h, Live(h) \ D, o) = 0
        BY <4>3, <3>a, <3>b
      <4>2. Y[o] + KidCount(h, Live(h) \ D, o) = 0
        BY <4>4, <3>0, <3>a
      <4> QED
        BY <4>2, <3>1, <3>c, <3>d
    <3>2. CASE o \in D
      <4>1. h[o].refs = X[o] + KidCount(h, Live(h), o)
        BY <2>1, <3>2 DEF Exact
      <4>2. h[o].refs <= Drops(h, todo, D, o)
        BY <2>1, <3>2
      <4>3. Y[o] + KidCount(h, Live(h) \ D, o) = 0
        BY <4>1, <4>2, <3>0, <3>a, <3>b
      <4> QED
        BY <4>3, <3>2, <3>c, <3>d
    <3>3. CASE o \in Live(h) \ D
      <4>1. h[o].refs = X[o] + KidCount(h, Live(h), o)
        BY <3>3 DEF Exact
      <4>2. g[o].refs = h[o].refs - Drops(h, todo, D, o)
        BY <2>4, <3>3
      <4>3. h[o].refs > Drops(h, todo, D, o)
        BY <2>6, <3>3
      <4> QED
        BY <4>1, <4>2, <4>3, <3>0, <3>3, <3>a, <3>b, <3>c, <3>d
    <3> QED
      BY <3>1, <3>2, <3>3
  <2>11. Kept(g, h)
    BY <1>0, <2>4, <2>8 DEF Kept
  <2> QED
    BY <1>b, <2>8, <2>10, <2>11 DEF g, Y
<1> QED
  BY <1>1, <1>2

----------------------------------------------------------------------------
(* 3. Holding one more, making an object, and replacing what one holds.    *)

More(X, v) == [o \in ObjectIds |-> X[o] + Is(v, o)]

(* The same objects, but for their counts.                                 *)
SameObjects(g, h) ==
  \A o \in ObjectIds : /\ g[o].kind = h[o].kind /\ g[o].arity = h[o].arity
                       /\ g[o].kids = h[o].kids

(* One reference more.                                                     *)
LEMMA MoreType ==
  ASSUME NEW X \in Counts, NEW v
  PROVE  More(X, v) \in Counts /\ \A o \in ObjectIds : More(X, v)[o] = X[o] + Is(v, o)
BY DEF More, Counts, Is

(* What is held is alive, from outside or by an object.                    *)
LEMMA HeldLives ==
  ASSUME NEW h, NEW X \in Counts, Exact(h, X), NEW o \in ObjectIds, X[o] > 0
  PROVE  o \in Live(h)
<1>1. X[o] \in Nat /\ KidCount(h, Live(h), o) \in Nat
  BY KidCountType DEF Counts, Live
<1> QED
  BY <1>1 DEF Exact

(* What a live object holds is alive.                                      *)
LEMMA KidLives ==
  ASSUME NEW h, HeapOK(h), NEW X \in Counts, Exact(h, X), NEW d \in Live(h),
         NEW k \in Elements, k \in DOMAIN h[d].kids
  PROVE  h[d].kids[k] \in Values /\ (h[d].kids[k] \in ObjectIds => h[d].kids[k] \in Live(h))
<1> DEFINE o == h[d].kids[k]
<1>1. d \in ObjectIds /\ h[d].kids \in Seq(Values)
  BY DEF Live, HeapOK, Objects
<1>2. o \in Values
  BY <1>1
<1>3. ASSUME o \in ObjectIds PROVE o \in Live(h)
  <2>1. <<d, k>> \in KidPlaces(h, Live(h), o)
    BY DEF KidPlaces
  <2>2. IsFiniteSet(KidPlaces(h, Live(h), o)) /\ KidCount(h, Live(h), o) \in Nat
    BY KidCountType DEF Live
  <2>3. KidCount(h, Live(h), o) # 0
    BY <2>1, <2>2, FS_EmptySet DEF KidCount
  <2>4. X[o] \in Nat
    BY <1>3 DEF Counts
  <2>5. X[o] + KidCount(h, Live(h), o) # 0
    BY <2>2, <2>3, <2>4
  <2> QED
    BY <1>3, <2>5 DEF Exact
<1> QED
  BY <1>2, <1>3

(* frothy_value_retain: one reference more, the same objects.              *)
LEMMA RetainExact ==
  ASSUME NEW h, HeapOK(h), NEW X \in Counts, Exact(h, X), NEW v \in Values,
         v \in ObjectIds => v \in Live(h)
  PROVE  /\ HeapOK(Retain(h, v))
         /\ Exact(Retain(h, v), More(X, v))
         /\ SameObjects(Retain(h, v), h)
         /\ Live(Retain(h, v)) = Live(h)
<1> DEFINE g == Retain(h, v)
           Y == More(X, v)
<1>0. Y \in Counts /\ \A o \in ObjectIds : Y[o] = X[o] + Is(v, o)
  BY MoreType
<1>1. CASE v \notin ObjectIds
  <2>1. g = h /\ \A o \in ObjectIds : Is(v, o) = 0
    BY <1>1 DEF Retain, Is
  <2>2. Y = X
    BY <2>1 DEF More, Counts
  <2> QED
    BY <2>1, <2>2 DEF SameObjects
<1>2. CASE v \in ObjectIds
  <2>1. g = [h EXCEPT ![v] = [h[v] EXCEPT !.refs = @ + 1]]
    BY <1>2 DEF Retain
  <2>2. h[v] \in Objects
    BY <1>2 DEF HeapOK
  <2>3. /\ [h[v] EXCEPT !.refs = @ + 1] \in Objects
        /\ [h[v] EXCEPT !.refs = @ + 1].kind = h[v].kind
        /\ [h[v] EXCEPT !.refs = @ + 1].arity = h[v].arity
        /\ [h[v] EXCEPT !.refs = @ + 1].kids = h[v].kids
        /\ [h[v] EXCEPT !.refs = @ + 1].refs = h[v].refs + 1
    BY <2>2 DEF Objects
  <2>4. /\ g \in [ObjectIds -> Objects]
        /\ \A o \in ObjectIds : o # v => g[o] = h[o]
        /\ g[v].kind = h[v].kind /\ g[v].arity = h[v].arity /\ g[v].kids = h[v].kids
        /\ g[v].refs = h[v].refs + 1
    BY <1>2, <2>1, <2>3 DEF HeapOK
  <2> HIDE DEF g, Y
  <2>5. SameObjects(g, h)
    BY <2>4 DEF SameObjects
  <2>6. Live(g) = Live(h)
    BY <2>5 DEF SameObjects, Live
  <2>7. HeapOK(g)
    <3>1. g[v].kind # "free"
      BY <1>2, <2>6 DEF Live
    <3> QED
      BY <3>1, <2>4, <2>5 DEF HeapOK, SameObjects
  <2>8. Exact(g, Y)
    <3> SUFFICES ASSUME NEW o \in ObjectIds
                 PROVE  IF o \in Live(g)
                          THEN g[o].refs = Y[o] + KidCount(g, Live(g), o) /\ g[o].refs > 0
                          ELSE Y[o] + KidCount(g, Live(g), o) = 0
      BY DEF Exact
    <3>1. KidCount(g, Live(g), o) = KidCount(h, Live(h), o)
      <4>1. \A d \in Live(h) : g[d].kids = h[d].kids
        BY <2>5 DEF SameObjects, Live
      <4> QED
        BY <2>6, <4>1, KidCountSame
    <3>2. KidCount(h, Live(h), o) \in Nat /\ X[o] \in Nat /\ h[o].refs \in Nat
      BY KidCountType DEF Live, Counts, HeapOK, Objects
    <3>3. Y[o] = X[o] + Is(v, o)
      BY <1>0
    <3>4. IF o \in Live(h) THEN h[o].refs = X[o] + KidCount(h, Live(h), o) /\ h[o].refs > 0
          ELSE X[o] + KidCount(h, Live(h), o) = 0
      BY DEF Exact
    <3>5. CASE o = v
      <4>1. o \in Live(h) /\ Is(v, o) = 1 /\ g[o].refs = h[o].refs + 1
        BY <1>2, <2>4, <3>5 DEF Is
      <4> QED
        BY <4>1, <2>6, <3>1, <3>2, <3>3, <3>4
    <3>6. CASE o # v
      <4>1. Is(v, o) = 0 /\ g[o].refs = h[o].refs
        BY <2>4, <3>6 DEF Is
      <4>2. Y[o] = X[o]
        BY <3>2, <3>3, <4>1
      <4> QED
        BY <4>1, <4>2, <2>6, <3>1, <3>4
    <3> QED
      BY <3>5, <3>6
  <2> QED
    BY <2>5, <2>6, <2>7, <2>8 DEF g, Y
<1> QED
  BY <1>1, <1>2

(* What one object holds, element by element.                              *)
LEMMA KidsOfOne ==
  ASSUME NEW h, HeapOK(h), NEW d \in ObjectIds, NEW o
  PROVE  /\ Len(h[d].kids) = 0 => KidCount(h, {d}, o) = 0
         /\ Len(h[d].kids) = 1 => KidCount(h, {d}, o) = Is(h[d].kids[1], o)
         /\ Len(h[d].kids) = 2 =>
              KidCount(h, {d}, o) = Is(h[d].kids[1], o) + Is(h[d].kids[2], o)
<1> DEFINE At(k) == IF h[d].kids[k] = o THEN {<<d, k>>} ELSE {}
           P == KidPlaces(h, {d}, o)
<1>0. h[d].kids \in Seq(Values) /\ DOMAIN h[d].kids = 1 .. Len(h[d].kids)
  BY DEF HeapOK, Objects
<1>1. \A k \in Elements : IsFiniteSet(At(k)) /\ Cardinality(At(k)) = Is(h[d].kids[k], o)
  BY FS_Singleton, FS_EmptySet DEF Is
<1>2. At(1) \cap At(2) = {}
  OBVIOUS
<1>3. CASE Len(h[d].kids) = 0
  <2>1. P = {}
    BY <1>0, <1>3 DEF KidPlaces
  <2>2. Cardinality(P) = 0
    BY <2>1, FS_EmptySet
  <2> HIDE DEF P
  <2> QED
    BY <1>3, <2>2 DEF KidCount, P
<1>4. CASE Len(h[d].kids) = 1
  <2>1. P = At(1)
    BY <1>0, <1>4 DEF KidPlaces, Elements
  <2> HIDE DEF At, P
  <2>2. Cardinality(P) = Is(h[d].kids[1], o)
    BY <1>1, <2>1 DEF Elements
  <2> QED
    BY <1>4, <2>2 DEF KidCount, P
<1>5. CASE Len(h[d].kids) = 2
  <2>1. P = At(1) \cup At(2)
    BY <1>0, <1>5 DEF KidPlaces, Elements
  <2> HIDE DEF At, P
  <2>2. IsFiniteSet(At(1)) /\ IsFiniteSet(At(2))
        /\ Cardinality(At(1)) = Is(h[d].kids[1], o) /\ Cardinality(At(2)) = Is(h[d].kids[2], o)
    BY <1>1 DEF Elements
  <2>3. Cardinality(P) = Cardinality(At(1)) + Cardinality(At(2))
    BY <1>2, <2>1, <2>2, DisjointSum
  <2> QED
    BY <1>5, <2>2, <2>3 DEF KidCount, P
<1> QED
  BY <1>3, <1>4, <1>5

(* A set of numbers has a least one: among the sets of members up to k, for *)
(* every member k, there is one that contains no other.                    *)
LEMMA LeastNumber ==
  ASSUME NEW S \in SUBSET Nat, S # {}
  PROVE  \E m \in S : \A k \in S : m <= k
<1> DEFINE Below(k) == {j \in S : j <= k}
           F == {Below(k) : k \in S}
           R == StrictSubsetOrdering(Nat)
<1>1. ASSUME NEW k \in S PROVE Below(k) \in FiniteSubsetsOf(Nat)
  <2>1. Below(k) \in SUBSET Nat /\ k \in Nat /\ \A j \in Below(k) : j <= k
    OBVIOUS
  <2>2. IsFiniteSet(Below(k))
    BY <2>1, FS_BoundedSetOfNaturals
  <2> QED
    BY <2>1, <2>2 DEF FiniteSubsetsOf
<1>2. F \subseteq FiniteSubsetsOf(Nat) /\ F # {}
  BY <1>1
<1>3. PICK x \in F : \A y \in F : ~(<<y, x>> \in R)
  <2> HIDE DEF F
  <2> QED
    BY <1>2, FS_StrictSubsetOrderingWellFounded, WFMin
<1>4. PICK m \in S : x = Below(m)
  BY <1>3
<1>5. ASSUME NEW k \in S, k < m PROVE <<Below(k), Below(m)>> \in R
  <2>0. S \subseteq Nat /\ k \in Nat /\ m \in Nat /\ k < m
    BY <1>5
  <2>1. (\A j \in Nat : j <= k => j <= m) /\ m <= m /\ ~(m <= k)
    BY <2>0
  <2>2. Below(k) \subseteq Below(m) /\ m \in Below(m) /\ m \notin Below(k)
    BY <2>0, <2>1
  <2>3. Below(k) \in SUBSET Nat /\ Below(m) \in SUBSET Nat
    BY <2>0
  <2> QED
    BY <2>2, <2>3 DEF StrictSubsetOrdering
<1>6. \A k \in S : ~(k < m)
  BY <1>3, <1>4, <1>5
<1>7. \A k \in S : k \in Nat /\ m \in Nat
  OBVIOUS
<1> QED
  BY <1>6, <1>7

(* A new object takes a free entry.                                        *)
LEMMA AppendedFree ==
  ASSUME NEW h, CanAppend(h)
  PROVE  Appended(h) \in ObjectIds /\ Appended(h) \notin Live(h)
<1> DEFINE S == ObjectIds \ Live(h)
<1>1. S \in SUBSET Nat /\ S # {}
  BY DEF CanAppend, Live, ObjectIds
<1>2. \E m \in S : \A k \in S : m <= k
  BY <1>1, LeastNumber
<1>3. Appended(h) = CHOOSE x \in S : \A y \in S : x =< y
  BY DEF Appended, Min
<1> HIDE DEF S
<1>4. Appended(h) \in S
  BY <1>2, <1>3
<1> QED
  BY <1>4 DEF S

(* The counts X, those that kids hold not among them, which Y counts.      *)
Moved(Y, X, kids) ==
  \A o \in ObjectIds :
    Y[o] = X[o] + (IF Len(kids) = 0 THEN 0 ELSE Is(kids[1], o))
                + (IF Len(kids) = 2 THEN Is(kids[2], o) ELSE 0)

(* A new object whose elements are references that were counted before.    *)
LEMMA AppendExact ==
  ASSUME NEW h, HeapOK(h), CanAppend(h),
         NEW kind \in ObjectKinds \ {"free"}, NEW arity \in 0 .. 1, kind = "def" => arity = 1,
         NEW kids \in Seq(Values), Len(kids) = KidsLen(kind),
         NEW X \in Counts, NEW Y \in Counts, Exact(h, Y), Moved(Y, X, kids)
  PROVE  LET g == Append1(h, Object(kind, arity, kids))
             new == Appended(h)
         IN  /\ HeapOK(g)
             /\ Exact(g, More(X, new))
             /\ new \in ObjectIds /\ new \notin Live(h)
             /\ \A o \in ObjectIds : o # new => g[o] = h[o]
             /\ Live(g) = Live(h) \cup {new}
<1> DEFINE g == Append1(h, Object(kind, arity, kids))
           new == Appended(h)
           Z == More(X, new)
           obj == Object(kind, arity, kids)
<1>1. new \in ObjectIds /\ new \notin Live(h)
  BY AppendedFree
<1>2. /\ obj \in Objects /\ obj.kind = kind /\ obj.kids = kids /\ obj.refs = 1
      /\ obj.arity = arity
  BY DEF Object, Objects
<1>3. g = [h EXCEPT ![new] = obj]
  BY DEF Append1
<1>4. Z \in Counts /\ \A o \in ObjectIds : Z[o] = X[o] + Is(new, o)
  BY MoreType
<1> HIDE DEF new, g, obj, Z
<1>5. /\ g \in [ObjectIds -> Objects] /\ g[new] = obj
      /\ \A o \in ObjectIds : o # new => g[o] = h[o]
  BY <1>1, <1>2, <1>3 DEF HeapOK
<1>6. HeapOK(g)
  BY <1>2, <1>5 DEF HeapOK
<1>7. Live(g) = Live(h) \cup {new}
  BY <1>1, <1>2, <1>5 DEF Live
<1>8. ASSUME NEW o \in ObjectIds
      PROVE  KidCount(g, Live(g), o) = KidCount(h, Live(h), o) + (Y[o] - X[o])
  <2>1. KidCount(g, Live(g), o) = KidCount(g, Live(h), o) + KidCount(g, {new}, o)
    <3>1. Live(h) \subseteq Live(g) /\ Live(g) \subseteq ObjectIds /\ Live(g) \ Live(h) = {new}
      BY <1>1, <1>7 DEF Live
    <3> QED
      BY <3>1, KidCountSplit
  <2>2. KidCount(g, Live(h), o) = KidCount(h, Live(h), o)
    <3>1. \A d \in Live(h) : g[d].kids = h[d].kids
      BY <1>1, <1>5 DEF Live
    <3> QED
      BY <3>1, KidCountSame
  <2>3. KidCount(g, {new}, o) = (IF Len(kids) = 0 THEN 0 ELSE Is(kids[1], o))
                                 + (IF Len(kids) = 2 THEN Is(kids[2], o) ELSE 0)
    <3>1. Len(kids) \in {0, 1, 2} /\ g[new].kids = kids
      BY <1>2, <1>5 DEF KidsLen
    <3>2. \A v : Is(v, o) \in Nat
      BY DEF Is
    <3>4. /\ Len(g[new].kids) = 0 => KidCount(g, {new}, o) = 0
          /\ Len(g[new].kids) = 1 => KidCount(g, {new}, o) = Is(g[new].kids[1], o)
          /\ Len(g[new].kids) = 2 =>
               KidCount(g, {new}, o) = Is(g[new].kids[1], o) + Is(g[new].kids[2], o)
      BY <1>1, <1>6, KidsOfOne
    <3>3. /\ Len(kids) = 0 => KidCount(g, {new}, o) = 0
          /\ Len(kids) = 1 => KidCount(g, {new}, o) = Is(kids[1], o)
          /\ Len(kids) = 2 => KidCount(g, {new}, o) = Is(kids[1], o) + Is(kids[2], o)
      BY <3>1, <3>4
    <3> QED
      BY <3>1, <3>2, <3>3
  <2>4. KidCount(g, {new}, o) = Y[o] - X[o]
    <3>1. X[o] \in Nat /\ \A v : Is(v, o) \in Nat
      BY DEF Counts, Is
    <3>2. Y[o] = X[o] + (IF Len(kids) = 0 THEN 0 ELSE Is(kids[1], o))
                       + (IF Len(kids) = 2 THEN Is(kids[2], o) ELSE 0)
      BY DEF Moved
    <3> QED
      BY <2>3, <3>1, <3>2
  <2> QED
    BY <2>1, <2>2, <2>4
<1>9. Exact(g, Z)
  <2> SUFFICES ASSUME NEW o \in ObjectIds
               PROVE  IF o \in Live(g)
                        THEN g[o].refs = Z[o] + KidCount(g, Live(g), o) /\ g[o].refs > 0
                        ELSE Z[o] + KidCount(g, Live(g), o) = 0
    BY DEF Exact
  <2>1. KidCount(g, Live(g), o) = KidCount(h, Live(h), o) + (Y[o] - X[o])
    BY <1>8
  <2>2. /\ KidCount(h, Live(h), o) \in Nat /\ X[o] \in Nat /\ Y[o] \in Nat
        /\ h[o].refs \in Nat /\ Z[o] = X[o] + Is(new, o)
    BY <1>4, KidCountType DEF Live, Counts, HeapOK, Objects
  <2>3. IF o \in Live(h) THEN h[o].refs = Y[o] + KidCount(h, Live(h), o) /\ h[o].refs > 0
        ELSE Y[o] + KidCount(h, Live(h), o) = 0
    BY DEF Exact
  <2>4. CASE o = new
    <3>1. o \notin Live(h) /\ o \in Live(g) /\ Is(new, o) = 1 /\ g[o].refs = 1
      BY <1>1, <1>2, <1>5, <1>7, <2>4 DEF Is
    <3>2. Y[o] + KidCount(h, Live(h), o) = 0
      BY <2>3, <3>1
    <3>3. Z[o] + KidCount(g, Live(g), o) = 1
      BY <2>1, <2>2, <3>1, <3>2
    <3> QED
      BY <3>1, <3>3
  <2>5. CASE o # new
    <3>1. Is(new, o) = 0 /\ g[o] = h[o] /\ (o \in Live(g) <=> o \in Live(h))
      BY <1>5, <1>7, <2>5 DEF Is
    <3>2. Z[o] + KidCount(g, Live(g), o) = Y[o] + KidCount(h, Live(h), o)
      BY <2>1, <2>2, <3>1
    <3> QED
      BY <2>3, <3>1, <3>2
  <2> QED
    BY <2>4, <2>5
<1> QED
  BY <1>1, <1>5, <1>6, <1>7, <1>9 DEF g, new, Z, obj

(* g is h with another first element in the object c.                      *)
OneKid(g, h, c) ==
  /\ HeapOK(g) /\ HeapOK(h) /\ c \in Live(h)
  /\ \A o \in ObjectIds : o # c => g[o] = h[o]
  /\ g[c].kind = h[c].kind /\ g[c].arity = h[c].arity /\ g[c].refs = h[c].refs
  /\ DOMAIN g[c].kids = DOMAIN h[c].kids /\ 1 \in DOMAIN h[c].kids
  /\ \A k \in DOMAIN h[c].kids : k # 1 => g[c].kids[k] = h[c].kids[k]

(* The same objects live when an element changes.                          *)
LEMMA OneKidLive ==
  ASSUME NEW g, NEW h, NEW c, OneKid(g, h, c)
  PROVE  c \in ObjectIds /\ Live(g) = Live(h)
BY DEF OneKid, Live

(* An element that changes: one reference less, one more.                  *)
LEMMA SetKid ==
  ASSUME NEW h, HeapOK(h), NEW c \in Live(h), 1 \in DOMAIN h[c].kids, NEW w \in Values
  PROVE  OneKid(WithKid(h, c, w), h, c) /\ WithKid(h, c, w)[c].kids[1] = w
<1> DEFINE g == WithKid(h, c, w)
           kids == [h[c].kids EXCEPT ![1] = w]
           e == [h[c] EXCEPT !.kids = kids]
<1>1. c \in ObjectIds /\ h[c] \in Objects /\ h[c].kids \in Seq(Values)
  BY DEF Live, HeapOK, Objects
<1>2. /\ kids \in Seq(Values) /\ Len(kids) = Len(h[c].kids)
      /\ DOMAIN kids = DOMAIN h[c].kids /\ kids[1] = w
      /\ \A k \in DOMAIN h[c].kids : k # 1 => kids[k] = h[c].kids[k]
  BY <1>1
<1>3. g = [h EXCEPT ![c] = e]
  BY <1>1 DEF HeapOK, WithKid
<1> HIDE DEF kids
<1>4. /\ e \in Objects /\ e.kind = h[c].kind /\ e.arity = h[c].arity /\ e.refs = h[c].refs
      /\ e.kids = kids
  BY <1>1, <1>2 DEF Objects
<1> HIDE DEF g, e
<1>5. g \in [ObjectIds -> Objects] /\ g[c] = e /\ \A o \in ObjectIds : o # c => g[o] = h[o]
  BY <1>1, <1>3, <1>4 DEF HeapOK
<1>6. e.kind # "free"
  BY <1>4 DEF Live
<1>7. HeapOK(g)
  BY <1>1, <1>2, <1>4, <1>5, <1>6 DEF HeapOK
<1> QED
  BY <1>1, <1>2, <1>4, <1>5, <1>7 DEF OneKid, g

(* The old element is referred to once less, the new one once more.        *)
LEMMA OneKidExact ==
  ASSUME NEW g, NEW h, NEW c, OneKid(g, h, c), NEW X \in Counts, NEW Y \in Counts,
         Exact(h, X),
         \A o \in ObjectIds : Y[o] + Is(g[c].kids[1], o) = X[o] + Is(h[c].kids[1], o)
  PROVE  Exact(g, Y)
<1>1. c \in ObjectIds /\ Live(g) = Live(h)
  BY OneKidLive
<1>2. ASSUME NEW o \in ObjectIds
      PROVE  KidCount(g, Live(g), o) + Is(h[c].kids[1], o)
             = KidCount(h, Live(h), o) + Is(g[c].kids[1], o)
  <2> DEFINE F == Kids(h, Live(h))
             G == Kids(g, Live(h))
  <2>1. DOMAIN F = {q \in Live(h) \X Elements : q[2] \in DOMAIN h[q[1]].kids}
        /\ \A q \in DOMAIN F : F[q] = h[q[1]].kids[q[2]]
    BY DEF Kids
  <2>2. DOMAIN G = {q \in Live(h) \X Elements : q[2] \in DOMAIN g[q[1]].kids}
        /\ \A q \in DOMAIN G : G[q] = g[q[1]].kids[q[2]]
    BY DEF Kids
  <2> HIDE DEF F, G
  <2>3. \A d \in Live(h) : DOMAIN g[d].kids = DOMAIN h[d].kids
    BY DEF OneKid, Live
  <2>4. DOMAIN G = DOMAIN F
    BY <2>1, <2>2, <2>3
  <2>5. IsFiniteSet(DOMAIN F)
    <3>0. 0 \in Int /\ 1 \in Int /\ 2 \in Int /\ ObjectCapacity \in Int
      BY EvaluatorAssumption
    <3>1. IsFiniteSet(ObjectIds) /\ IsFiniteSet(Elements)
      BY <3>0, FS_Interval DEF ObjectIds, Elements
    <3>2. IsFiniteSet(ObjectIds \X Elements)
      BY <3>1, FS_Product
    <3>3. DOMAIN F \in SUBSET (ObjectIds \X Elements)
      BY <2>1 DEF Live
    <3> QED
      BY <3>2, <3>3, FS_Subset
  <2>6. <<c, 1>> \in DOMAIN F /\ F[<<c, 1>>] = h[c].kids[1] /\ G[<<c, 1>>] = g[c].kids[1]
    BY <2>1, <2>2, <2>4 DEF OneKid, Elements
  <2>7. ASSUME NEW q \in DOMAIN F, q # <<c, 1>> PROVE G[q] = F[q]
    <3>1. q \in Live(h) \X Elements /\ q[2] \in DOMAIN h[q[1]].kids /\ q = <<q[1], q[2]>>
      BY <2>1
    <3>2. q[1] # c \/ q[2] # 1
      BY <2>7, <3>1
    <3>3. g[q[1]].kids[q[2]] = h[q[1]].kids[q[2]]
      BY <3>1, <3>2 DEF OneKid, Live
    <3> QED
      BY <2>1, <2>2, <2>4, <3>3
  <2>8. Occurrences(G, o) + Is(F[<<c, 1>>], o) = Occurrences(F, o) + Is(G[<<c, 1>>], o)
    BY <2>4, <2>5, <2>6, <2>7, OccUpdate
  <2>9. Occurrences(F, o) = KidCount(h, Live(h), o) /\ Occurrences(G, o) = KidCount(g, Live(g), o)
    BY <1>1, KidsOcc DEF F, G
  <2> QED
    BY <2>6, <2>8, <2>9
<1> SUFFICES ASSUME NEW o \in ObjectIds
             PROVE  IF o \in Live(g)
                      THEN g[o].refs = Y[o] + KidCount(g, Live(g), o) /\ g[o].refs > 0
                      ELSE Y[o] + KidCount(g, Live(g), o) = 0
  BY DEF Exact
<1>3. g[o].refs = h[o].refs /\ (o \in Live(g) <=> o \in Live(h))
  BY <1>1 DEF OneKid
<1>4. /\ KidCount(h, Live(h), o) \in Nat /\ KidCount(g, Live(g), o) \in Nat
      /\ X[o] \in Nat /\ Y[o] \in Nat
  BY KidCountType DEF Live, Counts
<1>5. Is(h[c].kids[1], o) \in Nat /\ Is(g[c].kids[1], o) \in Nat
  BY DEF Is
<1>6. Y[o] + KidCount(g, Live(g), o) = X[o] + KidCount(h, Live(h), o)
  <2>1. Y[o] + Is(g[c].kids[1], o) = X[o] + Is(h[c].kids[1], o)
    OBVIOUS
  <2> QED
    BY <1>2, <1>4, <1>5, <2>1
<1>7. IF o \in Live(h) THEN h[o].refs = X[o] + KidCount(h, Live(h), o) /\ h[o].refs > 0
      ELSE X[o] + KidCount(h, Live(h), o) = 0
  BY DEF Exact
<1> QED
  BY <1>3, <1>6, <1>7

(* The other element does not matter for what dies, as long as its object  *)
(* does not.                                                               *)
LEMMA OneKidDead ==
  ASSUME NEW g, NEW h, NEW c, OneKid(g, h, c), NEW todo, IsFiniteSet(DOMAIN todo),
         c \notin Dead(g, todo)
  PROVE  /\ Dead(h, todo) = Dead(g, todo)
         /\ \A o \in ObjectIds : Drops(h, todo, Dead(g, todo), o) = Drops(g, todo, Dead(g, todo), o)
<1> DEFINE D == Dead(h, todo)
           E == Dead(g, todo)
<1>0. /\ c \in ObjectIds /\ Live(g) = Live(h) /\ Live(h) \subseteq ObjectIds
      /\ HeapOK(g) /\ HeapOK(h)
  BY OneKidLive DEF OneKid, Live
<1>1. /\ D \in Closed(h, todo) /\ \A T \in Closed(h, todo) : D \subseteq T
      /\ E \in Closed(g, todo) /\ \A T \in Closed(g, todo) : E \subseteq T
  BY <1>0, DeadLeast
<1> HIDE DEF D, E
<1>2. ASSUME NEW S \in SUBSET Live(h), c \notin S, NEW o
      PROVE  Drops(h, todo, S, o) = Drops(g, todo, S, o)
  <2>1. \A d \in S : g[d].kids = h[d].kids
    BY <1>0, <1>2 DEF OneKid
  <2>2. KidCount(g, S, o) = KidCount(h, S, o)
    BY <2>1, KidCountSame
  <2>3. S \subseteq ObjectIds
    BY <1>0
  <2> QED
    BY <2>2, <2>3, DropsCount
<1>3. \A o \in Live(h) : g[o].refs = h[o].refs
  BY <1>0 DEF OneKid
<1>4. E \in SUBSET Live(h) /\ c \notin E
  BY <1>0, <1>1 DEF Closed, E
<1>5. E \in Closed(h, todo)
  BY <1>0, <1>1, <1>2, <1>3, <1>4 DEF Closed
<1>6. D \subseteq E /\ D \in SUBSET Live(h) /\ c \notin D
  BY <1>1, <1>4, <1>5
<1>7. D \in Closed(g, todo)
  BY <1>0, <1>1, <1>2, <1>3, <1>6 DEF Closed
<1>8. D = E
  BY <1>1, <1>6, <1>7
<1>9. \A o \in ObjectIds : Drops(h, todo, E, o) = Drops(g, todo, E, o)
  BY <1>2, <1>4
<1> QED
  BY <1>8, <1>9 DEF D, E

(* frothy_value_release of the element, which then is replaced by a value  *)
(* that was held outside.                                                  *)
LEMMA WriteKidExact ==
  ASSUME NEW h, HeapOK(h), NEW X \in Counts, Exact(h, X),
         NEW c \in ObjectIds, X[c] > 0, 1 \in DOMAIN h[c].kids, NEW w \in Values,
         NEW Y \in Counts, \A o \in ObjectIds : Y[o] + Is(w, o) = X[o]
  PROVE  LET g == WithKid(Release(h, <<h[c].kids[1]>>), c, w)
         IN  /\ HeapOK(g) /\ Exact(g, Y)
             /\ \A o \in Live(g) : /\ o \in Live(h) /\ g[o].kind = h[o].kind
                                   /\ g[o].arity = h[o].arity
<1> DEFINE old == h[c].kids[1]
           h0 == WithKid(h, c, Imm)
           r == Release(h, <<old>>)
           r0 == Release(h0, <<old>>)
           X0 == More(X, old)
           g == WithKid(r, c, w)
<1>1. c \in Live(h)
  BY HeldLives
<1>2. old \in Values /\ Imm \in Values
  BY <1>1 DEF HeapOK, Objects, Values
<1>3. OneKid(h0, h, c) /\ h0[c].kids[1] = Imm
  BY <1>1, <1>2, SetKid
<1>4. X0 \in Counts /\ \A o \in ObjectIds : X0[o] = X[o] + Is(old, o)
  BY MoreType
<1> HIDE DEF old, h0, X0
<1>5. \A o \in ObjectIds : Is(Imm, o) = 0
  BY EvaluatorAssumption DEF Is, ObjectIds
<1>6. HeapOK(h0) /\ Exact(h0, X0)
  <2>1. \A o \in ObjectIds : X0[o] + Is(h0[c].kids[1], o) = X[o] + Is(h[c].kids[1], o)
    <3>1. \A o \in ObjectIds : X[o] \in Nat /\ Is(old, o) \in Nat
      BY DEF Counts, Is
    <3> QED
      BY <1>3, <1>4, <1>5, <3>1 DEF old
  <2> QED
    BY <1>3, <1>4, <2>1, OneKidExact DEF OneKid
<1>7. \A o : Occurrences(<<old>>, o) = Is(old, o)
  BY OccOne
<1>8. IsFiniteSet(DOMAIN <<old>>)
  <2>1. DOMAIN <<old>> = {1}
    OBVIOUS
  <2> QED
    BY <2>1, FS_Singleton
<1>9. Less(X0, <<old>>) = X
  <2>1. \A o \in ObjectIds : X[o] \in Nat /\ Is(old, o) \in Nat
    BY DEF Counts, Is
  <2>2. \A o \in ObjectIds : X0[o] - Occurrences(<<old>>, o) = X[o]
    BY <1>4, <1>7, <2>1
  <2> QED
    BY <2>2 DEF Less, Counts
<1>10. HeapOK(r0) /\ Exact(r0, X) /\ Kept(r0, h0)
  <2>1. \A o \in ObjectIds : Occurrences(<<old>>, o) <= X0[o]
    <3>1. \A o \in ObjectIds : X[o] \in Nat /\ Is(old, o) \in Nat
      BY DEF Counts, Is
    <3> QED
      BY <1>4, <1>7, <3>1
  <2> QED
    BY <1>4, <1>6, <1>8, <1>9, <2>1, ReleaseExact
<1>11. c \in Live(r0)
  BY <1>10, HeldLives
<1>12. /\ r \in [ObjectIds -> Objects] /\ \A o \in ObjectIds : o # c => r[o] = r0[o]
       /\ r[c].kind = r0[c].kind /\ r[c].arity = r0[c].arity /\ r[c].refs = r0[c].refs
       /\ r[c].kids = h[c].kids /\ r0[c].kids = h0[c].kids
  <2>1. CASE Range(<<old>>) \subseteq {Imm}
    <3>1. r = h /\ r0 = h0
      BY <2>1 DEF Release
    <3> QED
      BY <1>3, <3>1 DEF OneKid, HeapOK
  <2>2. CASE ~(Range(<<old>>) \subseteq {Imm})
    <3> DEFINE D == Dead(h0, <<old>>)
    <3>1. \A o \in ObjectIds : o \in D => r0[o] = NoObject
      BY <1>6, <1>8, <2>2, ReleaseEntry
    <3>2. c \notin D
      BY <1>11, <3>1 DEF Live, NoObject
    <3>3. Dead(h, <<old>>) = D
          /\ \A o \in ObjectIds : Drops(h, <<old>>, D, o) = Drops(h0, <<old>>, D, o)
      BY <1>3, <1>8, <3>2, OneKidDead
    <3>4. r = [p \in ObjectIds |->
               IF p \notin Live(h) THEN h[p]
               ELSE IF p \in D THEN NoObject
               ELSE [h[p] EXCEPT !.refs = @ - Drops(h, <<old>>, D, p)]]
      BY <2>2, <3>3 DEF Release
    <3>5. r0 = [p \in ObjectIds |->
               IF p \notin Live(h0) THEN h0[p]
               ELSE IF p \in D THEN NoObject
               ELSE [h0[p] EXCEPT !.refs = @ - Drops(h0, <<old>>, D, p)]]
      BY <2>2 DEF Release
    <3>6. Live(h0) = Live(h) /\ \A o \in ObjectIds : o # c => h0[o] = h[o]
      BY <1>3, OneKidLive DEF OneKid
    <3> HIDE DEF D, r, r0
    <3>7. \A o \in ObjectIds : o # c => r[o] = r0[o]
      BY <3>3, <3>4, <3>5, <3>6
    <3>8. /\ r[c] = [h[c] EXCEPT !.refs = @ - Drops(h, <<old>>, D, c)]
          /\ r0[c] = [h0[c] EXCEPT !.refs = @ - Drops(h0, <<old>>, D, c)]
      BY <1>1, <3>2, <3>4, <3>5, <3>6
    <3>9. h[c] \in Objects /\ h0[c] \in Objects /\ r0[c] \in Objects
      BY <1>6, <1>10 DEF HeapOK, r0
    <3> DEFINE n == Drops(h0, <<old>>, D, c)
    <3> HIDE DEF n
    <3>10. /\ r[c] = [h[c] EXCEPT !.refs = @ - n]
           /\ r0[c] = [h0[c] EXCEPT !.refs = @ - n]
      BY <3>3, <3>8 DEF n
    <3>11. /\ r0[c].kind = h0[c].kind /\ r0[c].arity = h0[c].arity
           /\ r0[c].kids = h0[c].kids /\ r0[c].refs = h0[c].refs - n
      BY <3>9, <3>10 DEF Objects
    <3>12. /\ r[c].kind = h[c].kind /\ r[c].arity = h[c].arity
           /\ r[c].kids = h[c].kids /\ r[c].refs = h[c].refs - n
      BY <3>9, <3>10 DEF Objects
    <3>13. h0[c].kind = h[c].kind /\ h0[c].arity = h[c].arity /\ h0[c].refs = h[c].refs
      BY <1>3 DEF OneKid
    <3>14. r[c].refs \in Nat
      BY <3>9, <3>11, <3>12, <3>13 DEF Objects
    <3>15. r[c] \in Objects
      <4> DEFINE m == r[c].refs
      <4>1. r[c] = [kind |-> h[c].kind, refs |-> m, arity |-> h[c].arity, kids |-> h[c].kids]
        BY <3>9, <3>10, <3>12 DEF Objects
      <4> HIDE DEF m
      <4>2. m \in Nat
        BY <3>14 DEF m
      <4> QED
        BY <4>1, <4>2, <3>9 DEF Objects
    <3>16. r \in [ObjectIds -> Objects]
      <4>1. \A o \in ObjectIds : r[o] \in Objects
        BY <3>7, <3>15, <1>10 DEF HeapOK, r0
      <4>2. r = [o \in ObjectIds |-> r[o]]
        BY <3>4
      <4> QED
        BY <4>1, <4>2
    <3> QED
      BY <3>7, <3>11, <3>12, <3>13, <3>16 DEF r, r0
  <2> QED
    BY <2>1, <2>2
<1> HIDE DEF r, r0
<1>13. /\ OneKid(r, r0, c) /\ r[c].kids = h[c].kids
  <2>1. \A k \in DOMAIN h[c].kids : k # 1 => h[c].kids[k] = h0[c].kids[k]
    BY <1>3 DEF OneKid
  <2>2. DOMAIN h0[c].kids = DOMAIN h[c].kids /\ Len(h0[c].kids) = Len(h[c].kids)
        /\ h[c].kind = h0[c].kind
    BY <1>3, <1>6 DEF OneKid, HeapOK
  <2>3. HeapOK(r)
    <3>1. r[c].kind # "free"
      BY <1>11, <1>12 DEF Live
    <3>2. Len(r[c].kids) = KidsLen(r[c].kind)
      BY <1>10, <1>12, <2>2 DEF HeapOK
    <3> QED
      BY <1>10, <1>12, <3>1, <3>2 DEF HeapOK
  <2> QED
    BY <1>10, <1>11, <1>12, <2>1, <2>2, <2>3 DEF OneKid
<1>14. Live(r) = Live(r0)
  BY <1>13, OneKidLive
<1>15. OneKid(g, r, c) /\ g[c].kids[1] = w
  BY <1>11, <1>13, <1>14, SetKid DEF OneKid
<1> HIDE DEF g
<1>16. OneKid(g, r0, c)
  BY <1>13, <1>14, <1>15 DEF OneKid
<1>17. r0[c].kids[1] = Imm
  BY <1>3, <1>12
<1>18. \A o \in ObjectIds : Y[o] + Is(g[c].kids[1], o) = X[o] + Is(r0[c].kids[1], o)
  <2>1. \A o \in ObjectIds : X[o] \in Nat
    BY DEF Counts
  <2> QED
    BY <1>5, <1>15, <1>17, <2>1
<1>19. Exact(g, Y)
  BY <1>10, <1>16, <1>18, OneKidExact
<1>20. \A o \in Live(g) : o \in Live(h) /\ g[o].kind = h[o].kind /\ g[o].arity = h[o].arity
  <2>1. Live(g) = Live(r0) /\ Live(h0) = Live(h)
    BY <1>3, <1>16, OneKidLive
  <2>2. \A o \in Live(r0) : g[o].kind = r0[o].kind /\ g[o].arity = r0[o].arity
    BY <1>16 DEF OneKid, Live
  <2>3. \A o \in Live(h) : h0[o].kind = h[o].kind /\ h0[o].arity = h[o].arity
    BY <1>3 DEF OneKid, Live
  <2> QED
    BY <1>10, <2>1, <2>2, <2>3 DEF Kept
<1>21. HeapOK(g)
  BY <1>16 DEF OneKid
<1> QED
  BY <1>19, <1>20, <1>21 DEF g, r, old

----------------------------------------------------------------------------
(* 4. The stack of frames: fr the frames, ar and us the arena, rl the      *)
(* locals of the program, res its value.                                   *)

(* A frame that evaluates arguments into its buffer, and one whose last    *)
(* child delivers where the frame itself has to.                           *)
ArgPhase(f) == f.kind \in {"call", "builtin"} /\ f.phase = 2
Passing(f) == \/ f.kind = "call" /\ f.phase = 3
              \/ f.kind \in {"if", "seq"} /\ f.phase = 2

(* A frame has a buffer only while it evaluates or passes arguments, and   *)
(* no value that its children have not delivered yet.                      *)
FrameOK(f) ==
  /\ f \in Frames
  /\ f.kind \notin {"call", "builtin"} \/ f.phase < 2 => f.index = 0 /\ f.buffer = NoBuffer
  /\ f.index <= f.buffer.count
  /\ \A k \in 1 .. 3 : k > f.phase => f.values[k] = Imm
  /\ f.kind = "while" /\ f.phase = 2 => f.values[1] = Imm

(* All frames.                                                             *)
FramesOK(fr) ==
  /\ fr \in Seq(Frames) /\ Len(fr) <= FrameCapacity
  /\ \A n \in 1 .. Len(fr) : FrameOK(fr[n])

Buf(fr, rl, n) == IF n = 0 THEN rl ELSE fr[n].buffer

(* Buffers are stacked without a gap.                                      *)
Stacked(fr, us, rl) ==
  /\ rl \in Buffers /\ us \in 0 .. ArenaLimit
  /\ \A m, n \in 0 .. Len(fr) :
       m < n => \A i \in Cells(Buf(fr, rl, m)), j \in Cells(Buf(fr, rl, n)) : i < j
  /\ \A n \in 0 .. Len(fr) : \A i \in Cells(Buf(fr, rl, n)) : i \in 1 .. us
  /\ \A i \in 1 .. us : \E n \in 0 .. Len(fr) : i \in Cells(Buf(fr, rl, n))

(* The rest of the arena is empty, and so are arguments not evaluated yet. *)
ArenaOK(fr, ar, us) ==
  /\ ar \in [1 .. ArenaLimit -> Values]
  /\ \A i \in 1 .. ArenaLimit : i > us => ar[i] = Imm
  /\ \A n \in 1 .. Len(fr) : ArgPhase(fr[n]) =>
       \A i \in Cells(fr[n].buffer) : i > fr[n].buffer.base + fr[n].index => ar[i] = Imm

(* A frame delivers to a place of a frame below it: the scratch value of   *)
(* its phase or the argument it evaluates.                                 *)
OutsOK(fr) ==
  \A m \in 1 .. Len(fr) :
    /\ fr[m].out[1] = "scratch" => /\ fr[m].out[2] < m
                                   /\ fr[m].out[3] = fr[fr[m].out[2]].phase
    /\ fr[m].out[1] = "arena" =>
         \E n \in 1 .. m - 1 : /\ ArgPhase(fr[n])
                               /\ fr[m].out[2] \in Cells(fr[n].buffer)
                               /\ fr[m].out[2] <= fr[n].buffer.base + fr[n].index

(* Only passing frames deliver to the same place, and to the result.       *)
Distinct(fr) ==
  /\ \A m, n \in 1 .. Len(fr) : m < n /\ ~Passing(fr[m]) => fr[m].out # fr[n].out
  /\ \A n \in 2 .. Len(fr) :
       fr[n].out[1] = "result" => Passing(fr[n - 1]) /\ fr[n - 1].out = fr[n].out

(* What is at the place out.                                               *)
At(fr, ar, res, out) ==
  IF out[1] = "result" THEN res
  ELSE IF out[1] = "arena" THEN ar[out[2]]
  ELSE fr[out[2]].values[out[3]]

(* Nothing is yet where a value will be delivered.                         *)
FreeOuts(fr, ar, res) ==
  /\ \A m \in 1 .. Len(fr) : ~Passing(fr[m]) => At(fr, ar, res, fr[m].out) = Imm
  /\ Len(fr) > 0 /\ res # Imm => Passing(fr[Len(fr)]) /\ fr[Len(fr)].out[1] = "result"

(* The locals of a frame lie below its buffer, outside of arguments that   *)
(* are being evaluated.                                                    *)
LocalsOK(fr, us) ==
  \A m \in 1 .. Len(fr) : \A i \in Cells(fr[m].locals) :
    /\ i \in 1 .. us
    /\ \A n \in 1 .. Len(fr) : m <= n => \A j \in Cells(fr[n].buffer) : i < j
    /\ \A n \in 1 .. Len(fr) : ArgPhase(fr[n]) => i \notin Cells(fr[n].buffer)

StackOK(fr, ar, us, rl, res) ==
  /\ FramesOK(fr)
  /\ Stacked(fr, us, rl)
  /\ ArenaOK(fr, ar, us)
  /\ OutsOK(fr)
  /\ Distinct(fr)
  /\ FreeOuts(fr, ar, res)
  /\ LocalsOK(fr, us)
  /\ res \in Values

(* The callee of a call whose arguments are evaluated, or that runs.       *)
CalleesOK(fr, h) ==
  \A n \in 1 .. Len(fr) :
    fr[n].kind = "call" /\ fr[n].phase >= 2 =>
      /\ fr[n].values[1] \in Live(h)
      /\ h[fr[n].values[1]].kind \in {"code", "native", "def"}
      /\ h[fr[n].values[1]].arity = fr[n].buffer.count
      /\ fr[n].phase = 3 => h[fr[n].values[1]].kind = "code"

(* The references from outside of the object table.                        *)
ScratchOf(fr) == [p \in (1 .. Len(fr)) \X (1 .. 3) |-> fr[p[1]].values[p[2]]]
External(sl, res, fr, ar) ==
  [o \in ObjectIds |-> Occurrences(sl, o) + Is(res, o)
                         + Occurrences(ScratchOf(fr), o) + Occurrences(ar, o)]
ExternalStale(sl, res) == [o \in ObjectIds |-> Occurrences(sl, o) + Is(res, o)]

(* The inductive invariant.                                                *)
Inv ==
  /\ TypeOK
  /\ HeapOK(heap)
  /\ ~running => /\ ~stale /\ frames = <<>> /\ arena = EmptyArena /\ used = 0
                 /\ rootLocals = NoBuffer
  /\ ~stale => /\ StackOK(frames, arena, used, rootLocals, result)
               /\ CalleesOK(frames, heap)
               /\ Exact(heap, External(slots, result, frames, arena))
  /\ stale => result = Imm /\ Exact(heap, ExternalStale(slots, result))

(* The places a value may be delivered to.                                 *)
LEMMA OutFields ==
  ASSUME NEW out \in Outs
  PROVE  /\ out[1] \in {"result", "arena", "scratch"}
         /\ out[1] = "arena" => out[2] \in 1 .. ArenaLimit
         /\ out[1] = "scratch" => out[2] \in 1 .. FrameCapacity /\ out[3] \in 1 .. 3
BY DEF Outs

(* Two places are equal when their parts are.                              *)
LEMMA OutEqual ==
  ASSUME NEW x \in Outs, NEW y \in Outs, x[1] = y[1],
         x[1] # "result" => x[2] = y[2],
         x[1] = "scratch" => x[3] = y[3]
  PROVE  x = y
<1>1. CASE x[1] = "result"
  BY <1>1 DEF Outs
<1>2. CASE x[1] = "arena"
  <2>1. \A z \in Outs : z[1] = "arena" => z = <<"arena", z[2], 0>>
    BY DEF Outs
  <2>2. x = <<"arena", x[2], 0>> /\ y = <<"arena", y[2], 0>>
    BY <1>2, <2>1
  <2> QED
    BY <1>2, <2>2
<1>3. CASE x[1] = "scratch"
  BY <1>3 DEF Outs
<1> QED
  BY <1>1, <1>2, <1>3, OutFields

(* The types of a frame's fields.                                          *)
LEMMA FrameFields ==
  ASSUME NEW f \in Frames
  PROVE  /\ f.kind \in FrameKinds /\ f.phase \in 0 .. 3 /\ f.index \in 0 .. ArenaLimit
         /\ f.values \in [1 .. 3 -> Values] /\ f.out \in Outs
         /\ f.buffer \in Buffers /\ f.locals \in Buffers
         /\ f.buffer.base \in Nat /\ f.buffer.count \in Nat
         /\ f.locals.base \in Nat /\ f.locals.count \in Nat
         /\ f.buffer.base \in 0 .. ArenaLimit /\ f.buffer.count \in 0 .. ArenaLimit
<1>1. /\ f.kind \in FrameKinds /\ f.phase \in 0 .. 3 /\ f.index \in 0 .. ArenaLimit
      /\ f.values \in [1 .. 3 -> Values] /\ f.out \in Outs
      /\ f.buffer \in Buffers /\ f.locals \in Buffers
  BY DEF Frames
<1>2. \A b \in Buffers : /\ b.base \in 0 .. ArenaLimit /\ b.count \in 0 .. ArenaLimit
                         /\ b.base \in Nat /\ b.count \in Nat
  BY EvaluatorAssumption DEF Buffers
<1> QED
  BY <1>1, <1>2

(* The same frame but for its values.                                      *)
SameShape(g, f) ==
  /\ g.kind = f.kind /\ g.phase = f.phase /\ g.index = f.index
  /\ g.buffer = f.buffer /\ g.locals = f.locals /\ g.out = f.out

(* frothy_eval_complete_value, place by place.                             *)
Deliver(fr, out, v) ==
  LET popped == Front(fr) IN
    IF out[1] = "scratch" THEN [popped EXCEPT ![out[2]].values[out[3]] = v] ELSE popped
DeliverArena(a, b, out, v) ==
  LET rest == Erased(a, b) IN
    IF out[1] = "arena" THEN [rest EXCEPT ![out[2]] = v] ELSE rest
DeliverResult(res, out, v) == IF out[1] = "result" THEN v ELSE res
UsedBelow(b, us) == IF b.count > 0 THEN b.base ELSE us

(* A frame with another scratch value.                                     *)
WithValue(f, k, v) == [f EXCEPT !.values[k] = v]

(* Only one scratch value changes.                                         *)
LEMMA WithValueFields ==
  ASSUME NEW f \in Frames, NEW k \in 1 .. 3, NEW v \in Values
  PROVE  /\ WithValue(f, k, v) \in Frames /\ SameShape(WithValue(f, k, v), f)
         /\ \A j \in 1 .. 3 : WithValue(f, k, v).values[j] = IF j = k THEN v ELSE f.values[j]
<1> DEFINE w == [f.values EXCEPT ![k] = v]
           g == [f EXCEPT !.values = w]
<1>1. w \in [1 .. 3 -> Values] /\ \A j \in 1 .. 3 : w[j] = IF j = k THEN v ELSE f.values[j]
  BY FrameFields
<1>2. WithValue(f, k, v) = g
  BY DEF WithValue
<1> HIDE DEF w
<1>3. g \in Frames /\ SameShape(g, f) /\ g.values = w
  BY <1>1 DEF Frames, SameShape
<1> QED
  BY <1>1, <1>2, <1>3

(* The frames after a delivery: at most one scratch value changed.         *)
LEMMA DeliverFrames ==
  ASSUME NEW fr \in Seq(Frames), Len(fr) > 0, NEW v \in Values, NEW out \in Outs,
         out[1] = "scratch" => out[2] \in 1 .. Len(fr) - 1
  PROVE  LET g == Deliver(fr, out, v)
         IN  /\ g \in Seq(Frames) /\ Len(g) = Len(fr) - 1
             /\ \A m \in 1 .. Len(fr) - 1 :
                  /\ SameShape(g[m], fr[m])
                  /\ \A k \in 1 .. 3 :
                       g[m].values[k] = IF out[1] = "scratch" /\ out[2] = m /\ out[3] = k
                                          THEN v ELSE fr[m].values[k]
<1> DEFINE p == Front(fr)
<1>1. /\ p \in Seq(Frames) /\ Len(p) = Len(fr) - 1
      /\ \A m \in 1 .. Len(fr) - 1 : p[m] = fr[m] /\ fr[m] \in Frames
  <2>1. /\ 1 \in Int /\ Len(fr) \in Nat /\ Len(fr) - 1 \in Int
        /\ \A i \in 1 .. Len(fr) - 1 : fr[i] \in Frames
    OBVIOUS
  <2>2. /\ SubSeq(fr, 1, Len(fr) - 1) \in Seq(Frames)
        /\ Len(SubSeq(fr, 1, Len(fr) - 1)) =
             IF 1 <= Len(fr) - 1 THEN (Len(fr) - 1) - 1 + 1 ELSE 0
        /\ \A i \in 1 .. (Len(fr) - 1) - 1 + 1 :
             SubSeq(fr, 1, Len(fr) - 1)[i] = fr[1 + i - 1]
    BY <2>1, SubSeqProperties
  <2>3. p = SubSeq(fr, 1, Len(fr) - 1)
    BY DEF Front
  <2> DEFINE t == SubSeq(fr, 1, Len(fr) - 1)
  <2>6. Len(t) = IF 1 <= Len(fr) - 1 THEN (Len(fr) - 1) - 1 + 1 ELSE 0
    BY <2>2
  <2>7. p = t
    BY <2>3
  <2> HIDE DEF t, p
  <2>4. Len(p) = Len(fr) - 1
    BY <2>1, <2>6, <2>7
  <2>5. \A m \in 1 .. Len(fr) - 1 : m \in 1 .. (Len(fr) - 1) - 1 + 1 /\ 1 + m - 1 = m
    BY <2>1
  <2> QED
    BY <2>1, <2>2, <2>4, <2>5, <2>7 DEF t
<1> HIDE DEF p
<1>2. CASE out[1] # "scratch"
  <2>1. Deliver(fr, out, v) = p
    BY <1>2 DEF Deliver, p
  <2> QED
    BY <1>1, <1>2, <2>1 DEF SameShape
<1>3. CASE out[1] = "scratch"
  <2> DEFINE q == out[2]
             k == out[3]
             e == WithValue(fr[q], k, v)
             g == [p EXCEPT ![q] = e]
  <2>1. q \in 1 .. Len(fr) - 1 /\ k \in 1 .. 3 /\ p[q] = fr[q] /\ fr[q] \in Frames
    BY <1>1, <1>3, OutFields
  <2>2. Deliver(fr, out, v) = g
    BY <1>3, <2>1 DEF Deliver, p, WithValue
  <2>3. e \in Frames /\ SameShape(e, fr[q])
        /\ \A j \in 1 .. 3 : e.values[j] = IF j = k THEN v ELSE fr[q].values[j]
    <3> HIDE DEF q, k
    <3> QED
      BY <2>1, WithValueFields, SMTT(40)
  <2> HIDE DEF e
  <2>4. g \in Seq(Frames) /\ Len(g) = Len(fr) - 1 /\ g[q] = e
        /\ \A m \in 1 .. Len(fr) - 1 : m # q => g[m] = fr[m]
    BY <1>1, <2>1, <2>3, SMTT(40)
  <2> HIDE DEF g
  <2>5. ASSUME NEW m \in 1 .. Len(fr) - 1
        PROVE  /\ SameShape(g[m], fr[m])
               /\ \A j \in 1 .. 3 : g[m].values[j] = IF q = m /\ k = j THEN v ELSE fr[m].values[j]
    <3>1. CASE m = q
      BY <2>3, <2>4, <3>1
    <3>2. CASE m # q
      BY <2>4, <3>2 DEF SameShape
    <3> QED
      BY <3>1, <3>2
  <2> QED
    BY <1>3, <2>2, <2>4, <2>5
<1> QED
  BY <1>2, <1>3

(* The places of a buffer, as numbers.                                     *)
LEMMA CellsAre ==
  ASSUME NEW b, b.base \in Nat, b.count \in Nat, NEW i
  PROVE  i \in Cells(b) <=> i \in Nat /\ b.base < i /\ i <= b.base + b.count
BY DEF Cells

(* The types of a stack, frame by frame.                                   *)
LEMMA StackTypes ==
  ASSUME NEW fr, NEW ar, NEW us, NEW rl, NEW res, StackOK(fr, ar, us, rl, res)
  PROVE  /\ fr \in Seq(Frames) /\ Len(fr) \in Nat
         /\ us \in Nat /\ ArenaLimit \in Nat /\ us <= ArenaLimit
         /\ \A n \in 1 .. Len(fr) :
              /\ fr[n] \in Frames
              /\ fr[n].phase \in 0 .. 3 /\ fr[n].index \in Nat /\ fr[n].out \in Outs
              /\ fr[n].values \in [1 .. 3 -> Values]
              /\ fr[n].buffer.base \in Nat /\ fr[n].buffer.count \in Nat
              /\ fr[n].locals.base \in Nat /\ fr[n].locals.count \in Nat
         /\ \A n \in 0 .. Len(fr) : /\ Buf(fr, rl, n).base \in Nat
                                    /\ Buf(fr, rl, n).count \in Nat
<1>1. fr \in Seq(Frames) /\ \A n \in 1 .. Len(fr) : fr[n] \in Frames
  BY DEF StackOK, FramesOK
<1>2. us \in Nat /\ ArenaLimit \in Nat /\ us <= ArenaLimit
      /\ rl.base \in Nat /\ rl.count \in Nat
  BY EvaluatorAssumption DEF StackOK, Stacked, Buffers
<1>3. \A n \in 1 .. Len(fr) :
              /\ fr[n] \in Frames
              /\ fr[n].phase \in 0 .. 3 /\ fr[n].index \in Nat /\ fr[n].out \in Outs
              /\ fr[n].values \in [1 .. 3 -> Values]
              /\ fr[n].buffer.base \in Nat /\ fr[n].buffer.count \in Nat
              /\ fr[n].locals.base \in Nat /\ fr[n].locals.count \in Nat
  BY <1>1, <1>2, FrameFields
<1>4. Len(fr) \in Nat
  BY <1>1
<1> QED
  BY <1>1, <1>2, <1>3, <1>4 DEF Buf

(* Where a frame delivers in the arena: to an argument of a frame below it, *)
(* which is in no frame's locals and not in its own buffer.                *)
LEMMA OutInArena ==
  ASSUME NEW fr, NEW ar, NEW us, NEW rl, NEW res, StackOK(fr, ar, us, rl, res),
         NEW m \in 1 .. Len(fr), fr[m].out[1] = "arena"
  PROVE  LET i == fr[m].out[2]
         IN  /\ i \in 1 .. us
             /\ \A n \in 1 .. Len(fr) : i \notin Cells(fr[n].locals)
             /\ \A n \in m .. Len(fr) : \A j \in Cells(fr[n].buffer) : i < j
             /\ \A n \in 1 .. Len(fr) :
                  ArgPhase(fr[n]) /\ i \in Cells(fr[n].buffer) =>
                    i <= fr[n].buffer.base + fr[n].index
<1> DEFINE i == fr[m].out[2]
<1>0. Len(fr) \in Nat
  BY StackTypes
<1>1. PICK p \in 1 .. m - 1 : /\ ArgPhase(fr[p]) /\ i \in Cells(fr[p].buffer)
                              /\ i <= fr[p].buffer.base + fr[p].index
  BY DEF StackOK, OutsOK
<1>2. p \in 1 .. Len(fr) /\ p \in 0 .. Len(fr) /\ Buf(fr, rl, p) = fr[p].buffer
  BY <1>0 DEF Buf
<1>3. i \in 1 .. us
  BY <1>1, <1>2 DEF StackOK, Stacked
<1>4. \A n \in 1 .. Len(fr) : i \notin Cells(fr[n].locals)
  BY <1>1, <1>2 DEF StackOK, LocalsOK
<1>8. \A x, y \in 0 .. Len(fr) :
        x < y => \A k \in Cells(Buf(fr, rl, x)), j \in Cells(Buf(fr, rl, y)) : k < j
  BY DEF StackOK, Stacked
<1>5. ASSUME NEW n \in 1 .. Len(fr), NEW j \in Cells(fr[n].buffer)
      PROVE  (p < n => i < j) /\ (n < p => j < i)
  <2>1. n \in 0 .. Len(fr) /\ Buf(fr, rl, n) = fr[n].buffer
    BY <1>0 DEF Buf
  <2> QED
    BY <1>1, <1>2, <1>8, <2>1
<1>6. \A n \in m .. Len(fr) : \A j \in Cells(fr[n].buffer) : i < j
  <2>1. \A n \in m .. Len(fr) : n \in 1 .. Len(fr) /\ p < n
    BY <1>0, <1>1
  <2> QED
    BY <1>5, <2>1
<1>7. ASSUME NEW n \in 1 .. Len(fr), ArgPhase(fr[n]), i \in Cells(fr[n].buffer)
      PROVE  i <= fr[n].buffer.base + fr[n].index
  <2>1. i \in Nat /\ n \in Nat /\ p \in Nat
    BY <1>2, <1>3
  <2> HIDE DEF i
  <2>4. (p < n => i < i) /\ (n < p => i < i)
    BY <1>5, <1>7
  <2>2. ~(p < n) /\ ~(n < p)
    BY <2>1, <2>4
  <2>3. n = p
    BY <2>1, <2>2
  <2> QED
    BY <1>1, <2>3
<1> QED
  BY <1>3, <1>4, <1>6, <1>7

(* The top frame is popped and its value is delivered, over an arena a in  *)
(* which only locals of that frame may have changed.                       *)
LEMMA PopStack ==
  ASSUME NEW fr, NEW ar, NEW us, NEW rl, NEW res, StackOK(fr, ar, us, rl, res),
         Len(fr) > 0, NEW v \in Values, NEW a \in [1 .. ArenaLimit -> Values],
         \A i \in 1 .. ArenaLimit : a[i] # ar[i] => i \in Cells(fr[Len(fr)].locals),
         NEW out, out = fr[Len(fr)].out, NEW b, b = fr[Len(fr)].buffer
  PROVE  StackOK(Deliver(fr, out, v), DeliverArena(a, b, out, v), UsedBelow(b, us), rl,
                 DeliverResult(res, out, v))
<1> DEFINE D == Len(fr)
           g == Deliver(fr, out, v)
           a2 == DeliverArena(a, b, out, v)
           u2 == UsedBelow(b, us)
           r2 == DeliverResult(res, out, v)
<1>1. /\ fr \in Seq(Frames) /\ D \in Nat
      /\ us \in Nat /\ ArenaLimit \in Nat /\ us <= ArenaLimit
      /\ \A n \in 1 .. Len(fr) :
              /\ fr[n] \in Frames
              /\ fr[n].phase \in 0 .. 3 /\ fr[n].index \in Nat /\ fr[n].out \in Outs
              /\ fr[n].values \in [1 .. 3 -> Values]
              /\ fr[n].buffer.base \in Nat /\ fr[n].buffer.count \in Nat
              /\ fr[n].locals.base \in Nat /\ fr[n].locals.count \in Nat
  BY StackTypes
<1>2. /\ D \in 1 .. D /\ D \in 0 .. D /\ 1 .. D - 1 \subseteq 1 .. D
      /\ 0 .. D - 1 \subseteq 0 .. D /\ Buf(fr, rl, D) = b
      /\ b.base \in Nat /\ b.count \in Nat
  BY <1>1 DEF Buf
<1>3. /\ out \in Outs
      /\ out[1] \in {"result", "arena", "scratch"}
      /\ out[1] = "arena" => out[2] \in 1 .. ArenaLimit
      /\ out[1] = "scratch" => out[2] \in 1 .. D - 1 /\ out[3] \in 1 .. 3
                               /\ out[3] = fr[out[2]].phase
  <2>1. out \in Outs
    BY <1>1, <1>2
  <2>2. out[1] = "scratch" => out[2] < D /\ out[3] = fr[out[2]].phase
    BY <1>2 DEF StackOK, OutsOK
  <2>3. out[1] = "scratch" => out[2] \in 1 .. FrameCapacity
    BY <2>1, OutFields
  <2>4. out[1] = "scratch" => out[2] \in 1 .. D - 1
    BY <1>1, <2>2, <2>3, EvaluatorAssumption
  <2> QED
    BY <2>1, <2>2, <2>4, OutFields
<1>4. /\ g \in Seq(Frames) /\ Len(g) = D - 1
      /\ \A m \in 1 .. D - 1 :
           /\ SameShape(g[m], fr[m])
           /\ \A k \in 1 .. 3 :
                g[m].values[k] = IF out[1] = "scratch" /\ out[2] = m /\ out[3] = k
                                   THEN v ELSE fr[m].values[k]
  BY <1>1, <1>3, DeliverFrames
<1>5. /\ a2 \in [1 .. ArenaLimit -> Values]
      /\ \A i \in 1 .. ArenaLimit :
           a2[i] = IF out[1] = "arena" /\ i = out[2] THEN v
                   ELSE IF i \in Cells(b) THEN Imm ELSE a[i]
  <2> DEFINE e == Erased(a, b)
  <2>1. e \in [1 .. ArenaLimit -> Values]
        /\ \A i \in 1 .. ArenaLimit : e[i] = IF i \in Cells(b) THEN Imm ELSE a[i]
    BY DEF Erased, Values
  <2>2. a2 = IF out[1] = "arena" THEN [e EXCEPT ![out[2]] = v] ELSE e
    BY DEF DeliverArena
  <2> HIDE DEF e, a2
  <2> QED
    BY <1>3, <2>1, <2>2
<1>6. out[1] = "arena" => /\ out[2] \in 1 .. us
                          /\ \A j \in Cells(b) : out[2] < j
                          /\ \A n \in 1 .. D :
                               ArgPhase(fr[n]) /\ out[2] \in Cells(fr[n].buffer) =>
                                 out[2] <= fr[n].buffer.base + fr[n].index
  BY <1>1, <1>2, OutInArena
<1>7. /\ u2 \in Nat /\ u2 <= us
      /\ b.count > 0 => u2 = b.base /\ b.base + 1 \in Cells(b)
      /\ ~(b.count > 0) => u2 = us /\ Cells(b) = {}
  <2>1. b.count > 0 => b.base + 1 \in Cells(b)
    BY <1>2 DEF Cells
  <2>2. ~(b.count > 0) => Cells(b) = {}
    BY <1>2 DEF Cells
  <2>3. \A i \in Cells(b) : i \in 1 .. us
    BY <1>2 DEF StackOK, Stacked
  <2> QED
    BY <1>1, <1>2, <2>1, <2>2, <2>3 DEF UsedBelow
<1> HIDE DEF g, a2, u2
<1>8. r2 = IF out[1] = "result" THEN v ELSE res
  BY DEF DeliverResult
<1> HIDE DEF r2
<1>9. \A m \in 1 .. D - 1 : ArgPhase(g[m]) = ArgPhase(fr[m]) /\ Passing(g[m]) = Passing(fr[m])
  BY <1>4 DEF SameShape, ArgPhase, Passing
<1>10. FramesOK(g)
  <2>1. D - 1 <= FrameCapacity
    BY <1>1, EvaluatorAssumption DEF StackOK, FramesOK
  <2>2. ASSUME NEW n \in 1 .. D - 1 PROVE FrameOK(g[n])
    <3>1. FrameOK(fr[n]) /\ g[n] \in Frames /\ SameShape(g[n], fr[n])
      BY <1>2, <1>4, <2>2, SMTT(40) DEF StackOK, FramesOK
    <3>2. fr[n].phase \in 0 .. 3
      BY <1>1, <1>2
    <3>3. ASSUME NEW k \in 1 .. 3, k > fr[n].phase PROVE g[n].values[k] = Imm
      <4>1. fr[n].values[k] = Imm
        BY <3>1, <3>3 DEF FrameOK
      <4>2. ~(out[1] = "scratch" /\ out[2] = n /\ out[3] = k)
        BY <1>3, <3>2, <3>3
      <4> QED
        BY <1>4, <4>1, <4>2
    <3>4. ASSUME fr[n].kind = "while", fr[n].phase = 2 PROVE g[n].values[1] = Imm
      <4>1. fr[n].values[1] = Imm
        BY <3>1, <3>4 DEF FrameOK
      <4>2. ~(out[1] = "scratch" /\ out[2] = n /\ out[3] = 1)
        BY <1>3, <3>4
      <4>3. 1 \in 1 .. 3
        OBVIOUS
      <4> QED
        BY <1>4, <4>1, <4>2, <4>3
    <3> QED
      BY <3>1, <3>3, <3>4 DEF FrameOK, SameShape
  <2> QED
    BY <1>4, <2>1, <2>2 DEF FramesOK
<1>11. \A n \in 0 .. D - 1 : Buf(g, rl, n) = Buf(fr, rl, n)
  <2>1. \A n \in 0 .. D - 1 : n # 0 => n \in 1 .. D - 1
    BY <1>1
  <2> QED
    BY <1>4, <2>1 DEF Buf, SameShape
<1>12. /\ \A m, n \in 0 .. D : m < n =>
            \A i \in Cells(Buf(fr, rl, m)), j \in Cells(Buf(fr, rl, n)) : i < j
       /\ \A n \in 0 .. D : \A i \in Cells(Buf(fr, rl, n)) : i \in 1 .. us
       /\ \A i \in 1 .. us : \E n \in 0 .. D : i \in Cells(Buf(fr, rl, n))
       /\ rl \in Buffers
  BY DEF StackOK, Stacked
<1>13. \A n \in 0 .. D - 1 : \A i \in Cells(Buf(fr, rl, n)) : i \in 1 .. u2
  <2> SUFFICES ASSUME NEW n \in 0 .. D - 1, NEW i \in Cells(Buf(fr, rl, n))
               PROVE  i \in 1 .. u2
    OBVIOUS
  <2>1. i \in 1 .. us /\ n < D /\ n \in 0 .. D
    BY <1>1, <1>2, <1>12
  <2>2. b.count > 0 => i < b.base + 1
    BY <1>2, <1>7, <1>12, <2>1
  <2> QED
    BY <1>1, <1>2, <1>7, <2>1, <2>2
<1>14. \A i \in 1 .. us : i > u2 => i \in Cells(b)
  <2> SUFFICES ASSUME NEW i \in 1 .. us, i > u2 PROVE i \in Cells(b)
    OBVIOUS
  <2>1. PICK n \in 0 .. D : i \in Cells(Buf(fr, rl, n))
    BY <1>12
  <2>2. n \notin 0 .. D - 1
    BY <1>1, <1>7, <1>13, <2>1
  <2>3. n = D
    BY <1>1, <2>2
  <2> QED
    BY <1>2, <2>1, <2>3
<1>15. Stacked(g, u2, rl)
  <2>1. u2 \in 0 .. ArenaLimit
    BY <1>1, <1>7
  <2>2. ASSUME NEW m \in 0 .. D - 1, NEW n \in 0 .. D - 1, m < n,
               NEW i \in Cells(Buf(g, rl, m)), NEW j \in Cells(Buf(g, rl, n))
        PROVE  i < j
    BY <1>2, <1>11, <1>12, <2>2
  <2>3. \A n \in 0 .. D - 1 : \A i \in Cells(Buf(g, rl, n)) : i \in 1 .. u2
    BY <1>11, <1>13
  <2>4. ASSUME NEW i \in 1 .. u2 PROVE \E n \in 0 .. D - 1 : i \in Cells(Buf(g, rl, n))
    <3>1. i \in 1 .. us
      BY <1>1, <1>7
    <3>2. PICK n \in 0 .. D : i \in Cells(Buf(fr, rl, n))
      BY <1>12, <3>1
    <3>3. n # D
      <4>1. ASSUME n = D PROVE FALSE
        <5>1. i \in Cells(b)
          BY <1>2, <3>2, <4>1
        <5> QED
          BY <1>2, <1>7, <3>1, <5>1, CellsAre
      <4> QED
        BY <4>1
    <3>4. n \in 0 .. D - 1
      BY <1>1, <3>3
    <3> QED
      BY <1>11, <3>2, <3>4
  <2> QED
    BY <1>4, <1>12, <2>1, <2>2, <2>3, <2>4 DEF Stacked
<1>16. \A i \in 1 .. ArenaLimit :
         i \notin Cells(fr[D].locals) => a[i] = ar[i]
  OBVIOUS
<1>17. /\ \A m \in 1 .. D : \A i \in Cells(fr[m].locals) :
            /\ i \in 1 .. us
            /\ \A n \in 1 .. D : m <= n => \A j \in Cells(fr[n].buffer) : i < j
            /\ \A n \in 1 .. D : ArgPhase(fr[n]) => i \notin Cells(fr[n].buffer)
  BY DEF StackOK, LocalsOK
<1>18. ArenaOK(g, a2, u2)
  <2>1. ASSUME NEW i \in 1 .. ArenaLimit, i > u2 PROVE a2[i] = Imm
    <3>1. ~(out[1] = "arena" /\ i = out[2])
      <4>1. ASSUME out[1] = "arena" PROVE out[2] <= u2
        <5>1. out[2] \in 1 .. us /\ \A j \in Cells(b) : out[2] < j
          BY <1>6, <4>1
        <5> QED
          BY <1>1, <1>2, <1>7, <5>1
      <4> QED
        BY <1>3, <1>7, <2>1, <4>1
    <3>2. CASE i \in Cells(b)
      BY <1>5, <3>1, <3>2
    <3>3. CASE i \notin Cells(b)
      <4>1. i > us
        BY <1>1, <1>14, <2>1, <3>3
      <4>2. ar[i] = Imm
        BY <4>1 DEF StackOK, ArenaOK
      <4>3. i \notin Cells(fr[D].locals)
        <5>1. i \in Cells(fr[D].locals) => i \in 1 .. us
          BY <1>2, <1>17
        <5> QED
          BY <1>1, <4>1, <5>1
      <4> QED
        BY <1>5, <1>16, <3>1, <3>3, <4>2, <4>3
    <3> QED
      BY <3>2, <3>3
  <2>2. ASSUME NEW n \in 1 .. D - 1, ArgPhase(g[n]), NEW i \in Cells(g[n].buffer),
               i > g[n].buffer.base + g[n].index
        PROVE  a2[i] = Imm
    <3>1. /\ n \in 1 .. D /\ ArgPhase(fr[n]) /\ i \in Cells(fr[n].buffer)
          /\ i > fr[n].buffer.base + fr[n].index
      BY <1>2, <1>4, <1>9, <2>2 DEF SameShape
    <3>2. ar[i] = Imm
      BY <3>1 DEF StackOK, ArenaOK
    <3>3. i \in 1 .. ArenaLimit
      <4>1. n \in 0 .. D /\ Buf(fr, rl, n) = fr[n].buffer
        BY <1>1, <3>1 DEF Buf
      <4>2. i \in 1 .. us
        BY <1>12, <3>1, <4>1
      <4> QED
        BY <1>1, <4>2
    <3>4. i \notin Cells(fr[D].locals)
      BY <1>2, <1>17, <3>1
    <3>5. ~(out[1] = "arena" /\ i = out[2])
      <4>1. ASSUME out[1] = "arena", i = out[2] PROVE FALSE
        <5>1. i <= fr[n].buffer.base + fr[n].index
          BY <1>6, <3>1, <4>1
        <5> QED
          BY <1>1, <3>1, <3>3, <5>1
      <4> QED
        BY <4>1
    <3> QED
      BY <1>5, <1>16, <3>2, <3>3, <3>4, <3>5
  <2> QED
    BY <1>4, <1>5, <2>1, <2>2 DEF ArenaOK
<1>19. OutsOK(g)
  <2> SUFFICES ASSUME NEW m \in 1 .. D - 1
               PROVE  /\ g[m].out[1] = "scratch" => /\ g[m].out[2] < m
                                                    /\ g[m].out[3] = g[g[m].out[2]].phase
                      /\ g[m].out[1] = "arena" =>
                           \E n \in 1 .. m - 1 : /\ ArgPhase(g[n])
                                                 /\ g[m].out[2] \in Cells(g[n].buffer)
                                                 /\ g[m].out[2] <= g[n].buffer.base + g[n].index
    BY <1>4 DEF OutsOK
  <2>1. m \in 1 .. D /\ g[m].out = fr[m].out /\ fr[m].out \in Outs
    BY <1>1, <1>2, <1>4 DEF SameShape
  <2>2. /\ fr[m].out[1] = "scratch" => /\ fr[m].out[2] < m
                                       /\ fr[m].out[3] = fr[fr[m].out[2]].phase
        /\ fr[m].out[1] = "arena" =>
             \E n \in 1 .. m - 1 : /\ ArgPhase(fr[n])
                                   /\ fr[m].out[2] \in Cells(fr[n].buffer)
                                   /\ fr[m].out[2] <= fr[n].buffer.base + fr[n].index
    BY <2>1 DEF StackOK, OutsOK
  <2>3. ASSUME fr[m].out[1] = "scratch"
        PROVE  fr[m].out[2] < m /\ fr[m].out[3] = g[fr[m].out[2]].phase
    <3>1. fr[m].out[2] \in 1 .. FrameCapacity
      BY <2>1, <2>3, OutFields
    <3>2. fr[m].out[2] \in 1 .. D - 1
      BY <1>1, <2>2, <2>3, <3>1, EvaluatorAssumption, SMTT(40)
    <3> QED
      BY <1>4, <2>2, <2>3, <3>2 DEF SameShape
  <2>4. ASSUME fr[m].out[1] = "arena"
        PROVE  \E n \in 1 .. m - 1 : /\ ArgPhase(g[n])
                                     /\ fr[m].out[2] \in Cells(g[n].buffer)
                                     /\ fr[m].out[2] <= g[n].buffer.base + g[n].index
    <3>1. PICK n \in 1 .. m - 1 : /\ ArgPhase(fr[n])
                                  /\ fr[m].out[2] \in Cells(fr[n].buffer)
                                  /\ fr[m].out[2] <= fr[n].buffer.base + fr[n].index
      BY <2>2, <2>4
    <3>2. n \in 1 .. D - 1
      BY <1>1
    <3>3. ArgPhase(g[n]) /\ g[n].buffer = fr[n].buffer /\ g[n].index = fr[n].index
      BY <1>4, <1>9, <3>1, <3>2 DEF SameShape
    <3> QED
      BY <3>1, <3>3
  <2> QED
    BY <2>1, <2>3, <2>4
<1>20. \A m \in 1 .. D - 1 : g[m].out = fr[m].out /\ g[m].locals = fr[m].locals
                             /\ g[m].buffer = fr[m].buffer
  BY <1>4 DEF SameShape
<1>21. /\ \A m, n \in 1 .. D : m < n /\ ~Passing(fr[m]) => fr[m].out # fr[n].out
       /\ \A n \in 2 .. D :
            fr[n].out[1] = "result" => Passing(fr[n - 1]) /\ fr[n - 1].out = fr[n].out
  BY DEF StackOK, Distinct
<1>22. Distinct(g)
  <2>1. \A n \in 2 .. D - 1 : n \in 2 .. D /\ n \in 1 .. D - 1 /\ n - 1 \in 1 .. D - 1
    BY <1>1
  <2>2. ASSUME NEW m \in 1 .. D - 1, NEW n \in 1 .. D - 1, m < n, ~Passing(g[m])
        PROVE  g[m].out # g[n].out
    BY <1>2, <1>9, <1>20, <1>21, <2>2
  <2>3. ASSUME NEW n \in 2 .. D - 1, g[n].out[1] = "result"
        PROVE  Passing(g[n - 1]) /\ g[n - 1].out = g[n].out
    BY <1>9, <1>20, <1>21, <2>1, <2>3
  <2> QED
    BY <1>4, <2>2, <2>3 DEF Distinct
<1>23. FreeOuts(g, a2, r2)
  <2>1. ASSUME NEW m \in 1 .. D - 1, ~Passing(g[m]) PROVE At(g, a2, r2, g[m].out) = Imm
    <3> DEFINE o == fr[m].out
    <3>1. /\ m \in 1 .. D /\ m < D /\ ~Passing(fr[m]) /\ g[m].out = o /\ o \in Outs
      BY <1>1, <1>2, <1>9, <1>20, <2>1
    <3>2. At(fr, ar, res, o) = Imm
      BY <3>1 DEF StackOK, FreeOuts
    <3>3. o # out
      BY <1>2, <1>21, <3>1
    <3>4. o[1] \in {"result", "arena", "scratch"}
      BY <3>1, OutFields
    <3>5. CASE o[1] = "result"
      <4>1. out[1] # "result"
        BY <1>3, <3>1, <3>3, <3>5, OutEqual
      <4> QED
        BY <1>8, <3>1, <3>2, <3>5, <4>1 DEF At
    <3>6. CASE o[1] = "arena"
      <4>1. o[2] \in 1 .. us /\ o[2] \notin Cells(fr[D].locals)
        BY <1>2, <3>1, <3>6, OutInArena
      <4>2. o[2] \in 1 .. ArenaLimit /\ ar[o[2]] = Imm
        BY <1>1, <3>2, <3>6, <4>1 DEF At
      <4>3. ~(out[1] = "arena" /\ o[2] = out[2])
        BY <1>3, <3>1, <3>3, <3>6, OutEqual
      <4>4. a2[o[2]] = Imm
        BY <1>5, <1>16, <4>1, <4>2, <4>3
      <4> QED
        BY <3>1, <3>6, <4>4 DEF At
    <3>7. CASE o[1] = "scratch"
      <4>1. o[2] \in 1 .. FrameCapacity /\ o[3] \in 1 .. 3
        BY <3>1, <3>7, OutFields
      <4>2. o[2] < m
        BY <3>1, <3>7 DEF StackOK, OutsOK
      <4>3. o[2] \in 1 .. D - 1
        BY <1>1, <4>1, <4>2, EvaluatorAssumption
      <4>4. fr[o[2]].values[o[3]] = Imm
        BY <3>2, <3>7 DEF At
      <4>5. ~(out[1] = "scratch" /\ out[2] = o[2] /\ out[3] = o[3])
        BY <1>3, <3>1, <3>3, <3>7, OutEqual
      <4>6. g[o[2]].values[o[3]] = Imm
        BY <1>4, <4>1, <4>3, <4>4, <4>5
      <4> QED
        BY <3>1, <3>7, <4>6 DEF At
    <3> QED
      BY <3>4, <3>5, <3>6, <3>7
  <2>2. ASSUME D - 1 > 0, r2 # Imm
        PROVE  Passing(g[D - 1]) /\ g[D - 1].out[1] = "result"
    <3>1. D - 1 \in 1 .. D - 1 /\ D \in 2 .. D
      BY <1>1, <2>2
    <3>2. out[1] = "result"
      <4>1. ASSUME out[1] # "result" PROVE FALSE
        <5>1. res # Imm
          BY <1>8, <2>2, <4>1
        <5> QED
          BY <4>1, <5>1 DEF StackOK, FreeOuts
      <4> QED
        BY <4>1
    <3>3. Passing(fr[D - 1]) /\ fr[D - 1].out = out
      BY <1>21, <3>1, <3>2
    <3> QED
      BY <1>9, <1>20, <3>1, <3>2, <3>3
  <2> QED
    BY <1>4, <2>1, <2>2 DEF FreeOuts
<1>24. LocalsOK(g, u2)
  <2> SUFFICES ASSUME NEW m \in 1 .. D - 1, NEW i \in Cells(g[m].locals)
               PROVE  /\ i \in 1 .. u2
                      /\ \A n \in 1 .. D - 1 :
                           m <= n => \A j \in Cells(g[n].buffer) : i < j
                      /\ \A n \in 1 .. D - 1 : ArgPhase(g[n]) => i \notin Cells(g[n].buffer)
    BY <1>4 DEF LocalsOK
  <2>1. m \in 1 .. D /\ m <= D /\ i \in Cells(fr[m].locals)
    BY <1>1, <1>2, <1>20
  <2>2. /\ i \in 1 .. us
        /\ \A n \in 1 .. D : m <= n => \A j \in Cells(fr[n].buffer) : i < j
        /\ \A n \in 1 .. D : ArgPhase(fr[n]) => i \notin Cells(fr[n].buffer)
    BY <1>17, <2>1
  <2>3. b.count > 0 => i < b.base + 1
    BY <1>2, <1>7, <2>1, <2>2
  <2>4. i \in 1 .. u2
    BY <1>1, <1>2, <1>7, <2>2, <2>3
  <2> QED
    BY <1>2, <1>9, <1>20, <2>2, <2>4
<1>25. r2 \in Values
  BY <1>8 DEF StackOK
<1> QED
  BY <1>10, <1>15, <1>18, <1>19, <1>22, <1>23, <1>24, <1>25 DEF StackOK, g, a2, u2, r2

(* The top frame becomes f, over an arena in use up to u2 and with locals, *)
(* places and buffer of before, or with a new buffer.                      *)
LEMMA TopStack ==
  ASSUME NEW fr, NEW ar, NEW us, NEW rl, NEW res, StackOK(fr, ar, us, rl, res),
         Len(fr) > 0, NEW f, FrameOK(f), NEW u2 \in 0 .. ArenaLimit,
         f.out = fr[Len(fr)].out, f.locals = fr[Len(fr)].locals,
         ~Passing(fr[Len(fr)]),
         \/ u2 = us /\ f.buffer = fr[Len(fr)].buffer
         \/ /\ fr[Len(fr)].buffer = NoBuffer
            /\ f.buffer.base = us /\ f.buffer.base + f.buffer.count = u2,
         ArgPhase(f) =>
           \A i \in Cells(f.buffer) : i > f.buffer.base + f.index => ar[i] = Imm
  PROVE  StackOK([fr EXCEPT ![Len(fr)] = f], ar, u2, rl, res)
<1> DEFINE D == Len(fr)
           g == [fr EXCEPT ![D] = f]
           b == fr[D].buffer
<1>1. /\ fr \in Seq(Frames) /\ D \in Nat
      /\ us \in Nat /\ ArenaLimit \in Nat /\ us <= ArenaLimit
      /\ \A n \in 1 .. Len(fr) :
              /\ fr[n] \in Frames
              /\ fr[n].phase \in 0 .. 3 /\ fr[n].index \in Nat /\ fr[n].out \in Outs
              /\ fr[n].values \in [1 .. 3 -> Values]
              /\ fr[n].buffer.base \in Nat /\ fr[n].buffer.count \in Nat
              /\ fr[n].locals.base \in Nat /\ fr[n].locals.count \in Nat
  BY StackTypes
<1>2. /\ f \in Frames /\ f.buffer.base \in Nat /\ f.buffer.count \in Nat /\ f.index \in Nat
  BY <1>1, FrameFields DEF FrameOK
<1>3. /\ g \in Seq(Frames) /\ Len(g) = D /\ g[D] = f
      /\ \A m \in 1 .. D : m # D => g[m] = fr[m]
  BY <1>1, <1>2
<1>4. D \in 1 .. D /\ D \in 0 .. D
  BY <1>1
<1> HIDE DEF g
<1>5. /\ \A m, n \in 0 .. D : m < n =>
            \A i \in Cells(Buf(fr, rl, m)), j \in Cells(Buf(fr, rl, n)) : i < j
      /\ \A n \in 0 .. D : \A i \in Cells(Buf(fr, rl, n)) : i \in 1 .. us
      /\ \A i \in 1 .. us : \E n \in 0 .. D : i \in Cells(Buf(fr, rl, n))
      /\ rl \in Buffers
  BY DEF StackOK, Stacked
<1>6. /\ \A n \in 0 .. D : n # D => Buf(g, rl, n) = Buf(fr, rl, n)
      /\ Buf(g, rl, D) = f.buffer /\ Buf(fr, rl, D) = b
  <2>1. \A n \in 0 .. D : n # 0 /\ n # D => n \in 1 .. D
    BY <1>1
  <2> QED
    BY <1>1, <1>3, <1>4, <2>1 DEF Buf
<1>7. us <= u2
  BY <1>1, <1>2
(* the cells of the new buffer are those of the old one or above us *)
<1>8. \/ u2 = us /\ f.buffer = b
      \/ /\ Cells(b) = {} /\ \A i \in Cells(f.buffer) : i \in us + 1 .. u2
         /\ \A i \in us + 1 .. u2 : i \in Cells(f.buffer)
  <2>1. CASE u2 = us /\ f.buffer = fr[D].buffer
    BY <2>1
  <2>2. CASE /\ fr[D].buffer = NoBuffer
             /\ f.buffer.base = us /\ f.buffer.base + f.buffer.count = u2
    <3>1. Cells(b) = {}
      BY <2>2 DEF Cells, NoBuffer
    <3> QED
      BY <1>1, <1>2, <2>2, <3>1 DEF Cells
  <2> QED
    BY <2>1, <2>2
<1>9. FramesOK(g)
  BY <1>3 DEF StackOK, FramesOK
<1>10. Stacked(g, u2, rl)
  <2>1. ASSUME NEW n \in 0 .. D, NEW i \in Cells(Buf(g, rl, n)) PROVE i \in 1 .. u2
    <3>1. CASE n # D
      BY <1>1, <1>5, <1>6, <1>7, <3>1
    <3>2. CASE n = D
      BY <1>1, <1>4, <1>5, <1>6, <1>7, <1>8, <3>2
    <3> QED
      BY <3>1, <3>2
  <2>2. ASSUME NEW m \in 0 .. D, NEW n \in 0 .. D, m < n,
               NEW i \in Cells(Buf(g, rl, m)), NEW j \in Cells(Buf(g, rl, n))
        PROVE  i < j
    <3>1. m # D /\ i \in Cells(Buf(fr, rl, m)) /\ i \in 1 .. us
      BY <1>1, <1>5, <1>6, <2>2
    <3>2. CASE n # D
      BY <1>5, <1>6, <2>2, <3>1, <3>2
    <3>3. CASE n = D
      <4>1. CASE f.buffer = b
        BY <1>4, <1>5, <1>6, <2>2, <3>1, <3>3, <4>1
      <4>2. CASE \A k \in Cells(f.buffer) : k \in us + 1 .. u2
        <5>1. j \in us + 1 .. u2
          BY <1>6, <2>2, <3>3, <4>2
        <5> QED
          BY <1>1, <3>1, <5>1
      <4> QED
        BY <1>8, <4>1, <4>2
    <3> QED
      BY <3>2, <3>3
  <2>3. ASSUME NEW i \in 1 .. u2 PROVE \E n \in 0 .. D : i \in Cells(Buf(g, rl, n))
    <3>1. CASE i \in 1 .. us
      <4>1. PICK n \in 0 .. D : i \in Cells(Buf(fr, rl, n))
        BY <1>5, <3>1
      <4>2. CASE n # D
        BY <1>6, <4>1, <4>2
      <4>3. CASE n = D
        <5>1. i \in Cells(b)
          BY <1>6, <4>1, <4>3
        <5>2. f.buffer = b
          BY <1>8, <5>1
        <5> QED
          BY <1>4, <1>6, <5>1, <5>2
      <4> QED
        BY <4>2, <4>3
    <3>2. CASE i \notin 1 .. us
      <4>1. i \in us + 1 .. u2
        BY <1>1, <3>2
      <4>2. i \in Cells(f.buffer)
        BY <1>1, <1>8, <4>1
      <4> QED
        BY <1>4, <1>6, <4>2
    <3> QED
      BY <3>1, <3>2
  <2> QED
    BY <1>3, <1>5, <2>1, <2>2, <2>3 DEF Stacked
<1>11. ArenaOK(g, ar, u2)
  <2>1. /\ ar \in [1 .. ArenaLimit -> Values]
        /\ \A i \in 1 .. ArenaLimit : i > us => ar[i] = Imm
        /\ \A n \in 1 .. D : ArgPhase(fr[n]) =>
             \A i \in Cells(fr[n].buffer) : i > fr[n].buffer.base + fr[n].index => ar[i] = Imm
    BY DEF StackOK, ArenaOK
  <2>2. \A i \in 1 .. ArenaLimit : i > u2 => ar[i] = Imm
    BY <1>1, <1>7, <2>1
  <2>3. ASSUME NEW n \in 1 .. D, ArgPhase(g[n]), NEW i \in Cells(g[n].buffer),
               i > g[n].buffer.base + g[n].index
        PROVE  ar[i] = Imm
    BY <1>3, <2>1, <2>3
  <2> QED
    BY <1>3, <2>1, <2>2, <2>3 DEF ArenaOK
<1>12. \A m \in 1 .. D : g[m].out = fr[m].out /\ g[m].locals = fr[m].locals
  BY <1>3
<1>13. OutsOK(g)
  <2> SUFFICES ASSUME NEW m \in 1 .. D
               PROVE  /\ g[m].out[1] = "scratch" => /\ g[m].out[2] < m
                                                    /\ g[m].out[3] = g[g[m].out[2]].phase
                      /\ g[m].out[1] = "arena" =>
                           \E n \in 1 .. m - 1 : /\ ArgPhase(g[n])
                                                 /\ g[m].out[2] \in Cells(g[n].buffer)
                                                 /\ g[m].out[2] <= g[n].buffer.base + g[n].index
    BY <1>3 DEF OutsOK
  <2>1. g[m].out = fr[m].out /\ fr[m].out \in Outs
    BY <1>1, <1>12
  <2>2. /\ fr[m].out[1] = "scratch" => /\ fr[m].out[2] < m
                                       /\ fr[m].out[3] = fr[fr[m].out[2]].phase
        /\ fr[m].out[1] = "arena" =>
             \E n \in 1 .. m - 1 : /\ ArgPhase(fr[n])
                                   /\ fr[m].out[2] \in Cells(fr[n].buffer)
                                   /\ fr[m].out[2] <= fr[n].buffer.base + fr[n].index
    BY DEF StackOK, OutsOK
  <2>3. ASSUME fr[m].out[1] = "scratch"
        PROVE  fr[m].out[2] < m /\ fr[m].out[3] = g[fr[m].out[2]].phase
    <3>1. fr[m].out[2] \in 1 .. FrameCapacity
      BY <2>1, <2>3, OutFields
    <3>2. fr[m].out[2] \in 1 .. D /\ fr[m].out[2] # D
      BY <1>1, <2>2, <2>3, <3>1, EvaluatorAssumption
    <3> QED
      BY <1>3, <2>2, <2>3, <3>2
  <2>4. ASSUME fr[m].out[1] = "arena"
        PROVE  \E n \in 1 .. m - 1 : /\ ArgPhase(g[n])
                                     /\ fr[m].out[2] \in Cells(g[n].buffer)
                                     /\ fr[m].out[2] <= g[n].buffer.base + g[n].index
    <3>1. PICK n \in 1 .. m - 1 : /\ ArgPhase(fr[n])
                                  /\ fr[m].out[2] \in Cells(fr[n].buffer)
                                  /\ fr[m].out[2] <= fr[n].buffer.base + fr[n].index
      BY <2>2, <2>4
    <3>2. n \in 1 .. D /\ n # D
      BY <1>1
    <3>3. g[n] = fr[n]
      BY <1>3, <3>2
    <3> QED
      BY <3>1, <3>3
  <2> QED
    BY <2>1, <2>3, <2>4
<1>14. \A m \in 1 .. D : m # D => Passing(g[m]) = Passing(fr[m])
  BY <1>3
<1>15. Distinct(g)
  <2>1. /\ \A m, n \in 1 .. D : m < n /\ ~Passing(fr[m]) => fr[m].out # fr[n].out
        /\ \A n \in 2 .. D :
             fr[n].out[1] = "result" => Passing(fr[n - 1]) /\ fr[n - 1].out = fr[n].out
    BY DEF StackOK, Distinct
  <2>2. ASSUME NEW m \in 1 .. D, NEW n \in 1 .. D, m < n, ~Passing(g[m])
        PROVE  g[m].out # g[n].out
    <3>1. m # D
      BY <1>1, <2>2
    <3> QED
      BY <1>12, <1>14, <2>1, <2>2, <3>1
  <2>3. ASSUME NEW n \in 2 .. D, g[n].out[1] = "result"
        PROVE  Passing(g[n - 1]) /\ g[n - 1].out = g[n].out
    <3>1. n \in 1 .. D /\ n - 1 \in 1 .. D /\ n - 1 # D
      BY <1>1
    <3> QED
      BY <1>12, <1>14, <2>1, <2>3, <3>1
  <2> QED
    BY <1>3, <2>2, <2>3 DEF Distinct
<1>16. res = Imm
  BY DEF StackOK, FreeOuts
<1>17. FreeOuts(g, ar, res)
  <2>1. ASSUME NEW m \in 1 .. D, ~Passing(g[m]) PROVE At(g, ar, res, g[m].out) = Imm
    <3>1. ~Passing(fr[m]) /\ fr[m].out \in Outs
      BY <1>1, <1>14, <2>1
    <3>2. At(fr, ar, res, fr[m].out) = Imm
      BY <3>1 DEF StackOK, FreeOuts
    <3>3. CASE fr[m].out[1] = "scratch"
      <4>1. fr[m].out[2] \in 1 .. FrameCapacity
        BY <3>1, <3>3, OutFields
      <4>2. fr[m].out[2] < m
        BY <3>3 DEF StackOK, OutsOK
      <4>3. fr[m].out[2] \in 1 .. D /\ fr[m].out[2] # D
        BY <1>1, <4>1, <4>2, EvaluatorAssumption
      <4>4. g[fr[m].out[2]] = fr[fr[m].out[2]]
        BY <1>3, <4>3
      <4> QED
        BY <1>12, <3>2, <3>3, <4>4 DEF At
    <3>4. CASE fr[m].out[1] # "scratch"
      BY <1>12, <3>1, <3>2, <3>4, OutFields DEF At
    <3> QED
      BY <3>3, <3>4
  <2> QED
    BY <1>3, <1>16, <2>1 DEF FreeOuts
<1>18. LocalsOK(g, u2)
  <2>0. \A m \in 1 .. D : \A i \in Cells(fr[m].locals) :
            /\ i \in 1 .. us
            /\ \A n \in 1 .. D : m <= n => \A j \in Cells(fr[n].buffer) : i < j
            /\ \A n \in 1 .. D : ArgPhase(fr[n]) => i \notin Cells(fr[n].buffer)
    BY DEF StackOK, LocalsOK
  <2> SUFFICES ASSUME NEW m \in 1 .. D, NEW i \in Cells(g[m].locals)
               PROVE  /\ i \in 1 .. u2
                      /\ \A n \in 1 .. D : m <= n => \A j \in Cells(g[n].buffer) : i < j
                      /\ \A n \in 1 .. D : ArgPhase(g[n]) => i \notin Cells(g[n].buffer)
    BY <1>3 DEF LocalsOK
  <2>1. i \in 1 .. us /\ i \in Cells(fr[m].locals)
    BY <1>12, <2>0
  <2>2. \A j \in Cells(f.buffer) : i < j
    <3>1. CASE f.buffer = b
      <4>1. m <= D
        BY <1>1
      <4> QED
        BY <1>4, <2>0, <2>1, <3>1, <4>1
    <3>2. CASE \A k \in Cells(f.buffer) : k \in us + 1 .. u2
      BY <1>1, <2>1, <3>2
    <3> QED
      BY <1>8, <3>1, <3>2
  <2>3. i \in 1 .. u2 /\ i \in Nat
    BY <1>1, <1>7, <2>1
  <2>4. i \notin Cells(f.buffer)
    <3>1. ~(i < i)
      BY <2>3
    <3> QED
      BY <2>2, <3>1
  <2> QED
    BY <1>3, <2>0, <2>1, <2>2, <2>3, <2>4
<1> QED
  BY <1>9, <1>10, <1>11, <1>13, <1>15, <1>17, <1>18 DEF StackOK, g

(* What a new frame is.                                                    *)
LEMMA NewFrameFields ==
  ASSUME NEW locals \in Buffers, NEW out \in Outs
  PROVE  LET c == NewFrame(locals, out)
         IN  /\ FrameOK(c) /\ ~Passing(c) /\ ~ArgPhase(c)
             /\ c.out = out /\ c.locals = locals /\ Cells(c.buffer) = {}
             /\ c.kind = "new" /\ \A k \in 1 .. 3 : c.values[k] = Imm
<1> DEFINE c == NewFrame(locals, out)
<1>1. /\ c.kind = "new" /\ c.phase = 0 /\ c.index = 0 /\ c.values = <<Imm, Imm, Imm>>
      /\ c.buffer = NoBuffer /\ c.locals = locals /\ c.out = out
  BY DEF NewFrame
<1>2. c \in Frames
  <2>1. <<Imm, Imm, Imm>> \in [1 .. 3 -> Values]
    BY DEF Values
  <2>2. NoBuffer \in Buffers /\ 0 \in 0 .. ArenaLimit
    BY EvaluatorAssumption DEF NoBuffer, Buffers
  <2> QED
    BY <2>1, <2>2 DEF Frames, NewFrame, FrameKinds
<1>3. Cells(NoBuffer) = {} /\ NoBuffer.count = 0
  BY DEF Cells, NoBuffer
<1> HIDE DEF c
<1>4. \A k \in 1 .. 3 : c.values[k] = Imm
  BY <1>1
<1>5. FrameOK(c)
  BY <1>1, <1>2, <1>3, <1>4 DEF FrameOK
<1>6. ~Passing(c) /\ ~ArgPhase(c)
  BY <1>1 DEF Passing, ArgPhase
<1> QED
  BY <1>1, <1>3, <1>4, <1>5, <1>6 DEF c

(* A child is pushed that delivers to a value of the top frame, to an      *)
(* argument of it, or to where the top frame, now passing, has to deliver; *)
(* its locals are those of the top frame or the arguments of a call.       *)
LEMMA PushStack ==
  ASSUME NEW fr, NEW ar, NEW us, NEW rl, NEW res, StackOK(fr, ar, us, rl, res),
         Len(fr) > 0, Len(fr) < FrameCapacity, res = Imm,
         NEW f, f = fr[Len(fr)], NEW locals, NEW out,
         \/ locals = f.locals
         \/ locals = f.buffer /\ ~ArgPhase(f),
         \/ /\ out = <<"scratch", Len(fr), f.phase>> /\ f.phase \in 1 .. 3
            /\ f.values[f.phase] = Imm
         \/ /\ out = <<"arena", f.buffer.base + f.index, 0>> /\ ArgPhase(f) /\ f.index > 0
            /\ ar[f.buffer.base + f.index] = Imm
         \/ out = f.out /\ Passing(f) /\ At(fr, ar, res, out) = Imm
  PROVE  StackOK(Append(fr, NewFrame(locals, out)), ar, us, rl, res)
<1> DEFINE D == Len(fr)
           c == NewFrame(locals, out)
           g == Append(fr, c)
           Own == out = <<"scratch", D, f.phase>> /\ f.phase \in 1 .. 3 /\ f.values[f.phase] = Imm
           Arg == /\ out = <<"arena", f.buffer.base + f.index, 0>> /\ ArgPhase(f) /\ f.index > 0
                  /\ ar[f.buffer.base + f.index] = Imm
           Pass == out = f.out /\ Passing(f) /\ At(fr, ar, res, out) = Imm
<1>1. /\ fr \in Seq(Frames) /\ D \in Nat
      /\ us \in Nat /\ ArenaLimit \in Nat /\ us <= ArenaLimit
      /\ \A n \in 1 .. Len(fr) :
              /\ fr[n] \in Frames
              /\ fr[n].phase \in 0 .. 3 /\ fr[n].index \in Nat /\ fr[n].out \in Outs
              /\ fr[n].values \in [1 .. 3 -> Values]
              /\ fr[n].buffer.base \in Nat /\ fr[n].buffer.count \in Nat
              /\ fr[n].locals.base \in Nat /\ fr[n].locals.count \in Nat
  BY StackTypes
<1>2. D \in 1 .. D /\ D + 1 \in 1 .. D + 1 /\ f \in Frames /\ f.index <= f.buffer.count
  BY <1>1 DEF StackOK, FramesOK, FrameOK
<1>3. Own \/ Arg \/ Pass
  OBVIOUS
<1>4. /\ \A m, n \in 0 .. D : m < n =>
            \A i \in Cells(Buf(fr, rl, m)), j \in Cells(Buf(fr, rl, n)) : i < j
      /\ \A n \in 0 .. D : \A i \in Cells(Buf(fr, rl, n)) : i \in 1 .. us
      /\ \A i \in 1 .. us : \E n \in 0 .. D : i \in Cells(Buf(fr, rl, n))
      /\ rl \in Buffers /\ us \in 0 .. ArenaLimit
  BY DEF StackOK, Stacked
<1>5. \A n \in 1 .. D : n \in 0 .. D /\ Buf(fr, rl, n) = fr[n].buffer
  BY <1>1 DEF Buf
<1>6. Arg => f.buffer.base + f.index \in Cells(f.buffer) /\ f.buffer.base + f.index \in 1 .. us
  <2>1. Arg => f.buffer.base + f.index \in Cells(f.buffer)
    BY <1>1, <1>2, SMTT(40) DEF Cells
  <2> QED
    BY <1>2, <1>4, <1>5, <2>1
<1>7. locals \in Buffers /\ out \in Outs
  <2>1. f.locals \in Buffers /\ f.buffer \in Buffers /\ f.out \in Outs
    BY <1>2, FrameFields
  <2>2. Own => out \in Outs
    BY <1>1, <1>2, EvaluatorAssumption DEF Outs
  <2>3. Arg => out \in Outs
    BY <1>1, <1>6 DEF Outs
  <2> QED
    BY <1>3, <2>1, <2>2, <2>3
<1>8. /\ FrameOK(c) /\ ~Passing(c) /\ ~ArgPhase(c)
      /\ c.out = out /\ c.locals = locals /\ Cells(c.buffer) = {}
  BY <1>7, NewFrameFields
<1> HIDE DEF c
<1>9. /\ g \in Seq(Frames) /\ Len(g) = D + 1 /\ g[D + 1] = c
      /\ \A m \in 1 .. D : g[m] = fr[m]
  BY <1>1, <1>8 DEF FrameOK
<1> HIDE DEF g
<1>10. /\ \A m \in 1 .. D + 1 : m = D + 1 \/ m \in 1 .. D
       /\ \A m \in 0 .. D + 1 : m = D + 1 \/ m \in 0 .. D
       /\ \A m \in 1 .. D : m < D + 1 /\ m # D + 1 /\ m <= D
  BY <1>1
<1>11. FramesOK(g)
  <2>1. D + 1 <= FrameCapacity
    BY <1>1, EvaluatorAssumption
  <2> QED
    BY <1>8, <1>9, <1>10, <2>1 DEF StackOK, FramesOK
<1>12. /\ \A n \in 0 .. D : Buf(g, rl, n) = Buf(fr, rl, n)
       /\ Buf(g, rl, D + 1) = c.buffer
  <2>1. \A n \in 0 .. D : n # 0 => n \in 1 .. D
    BY <1>1
  <2> QED
    BY <1>1, <1>9, <2>1 DEF Buf
<1>13. Stacked(g, us, rl)
  <2>1. ASSUME NEW m \in 0 .. D + 1, NEW n \in 0 .. D + 1, m < n,
               NEW i \in Cells(Buf(g, rl, m)), NEW j \in Cells(Buf(g, rl, n))
        PROVE  i < j
    <3>1. m \in 0 .. D /\ n \in 0 .. D
      BY <1>8, <1>10, <1>12, <2>1
    <3> QED
      BY <1>4, <1>12, <2>1, <3>1
  <2>2. \A n \in 0 .. D + 1 : \A i \in Cells(Buf(g, rl, n)) : i \in 1 .. us
    BY <1>4, <1>8, <1>10, <1>12
  <2>3. ASSUME NEW i \in 1 .. us PROVE \E n \in 0 .. D + 1 : i \in Cells(Buf(g, rl, n))
    <3>1. PICK n \in 0 .. D : i \in Cells(Buf(fr, rl, n))
      BY <1>4
    <3>2. n \in 0 .. D + 1
      BY <1>1
    <3> QED
      BY <1>12, <3>1, <3>2
  <2> QED
    BY <1>4, <1>9, <2>1, <2>2, <2>3 DEF Stacked
<1>14. ArenaOK(g, ar, us)
  <2>1. /\ ar \in [1 .. ArenaLimit -> Values]
        /\ \A i \in 1 .. ArenaLimit : i > us => ar[i] = Imm
        /\ \A n \in 1 .. D : ArgPhase(fr[n]) =>
             \A i \in Cells(fr[n].buffer) : i > fr[n].buffer.base + fr[n].index => ar[i] = Imm
    BY DEF StackOK, ArenaOK
  <2>2. ASSUME NEW n \in 1 .. D + 1, ArgPhase(g[n]), NEW i \in Cells(g[n].buffer),
               i > g[n].buffer.base + g[n].index
        PROVE  ar[i] = Imm
    <3>1. n \in 1 .. D
      BY <1>8, <1>9, <1>10, <2>2
    <3> QED
      BY <1>9, <2>1, <2>2, <3>1
  <2> QED
    BY <1>9, <2>1, <2>2 DEF ArenaOK
<1>15. \A m \in 1 .. D :
         /\ fr[m].out[1] = "scratch" => /\ fr[m].out[2] < m /\ fr[m].out[2] \in 1 .. D
                                        /\ fr[m].out[3] = fr[fr[m].out[2]].phase
         /\ fr[m].out[1] = "arena" =>
              \E n \in 1 .. m - 1 : /\ ArgPhase(fr[n])
                                    /\ fr[m].out[2] \in Cells(fr[n].buffer)
                                    /\ fr[m].out[2] <= fr[n].buffer.base + fr[n].index
  <2>1. \A m \in 1 .. D :
         /\ fr[m].out[1] = "scratch" => /\ fr[m].out[2] < m
                                        /\ fr[m].out[3] = fr[fr[m].out[2]].phase
         /\ fr[m].out[1] = "arena" =>
              \E n \in 1 .. m - 1 : /\ ArgPhase(fr[n])
                                    /\ fr[m].out[2] \in Cells(fr[n].buffer)
                                    /\ fr[m].out[2] <= fr[n].buffer.base + fr[n].index
    BY DEF StackOK, OutsOK
  <2>2. ASSUME NEW m \in 1 .. D, fr[m].out[1] = "scratch" PROVE fr[m].out[2] \in 1 .. D
    <3>1. fr[m].out[2] \in 1 .. FrameCapacity
      BY <1>1, <2>2, OutFields
    <3>2. fr[m].out[2] < m
      BY <2>1, <2>2
    <3> QED
      BY <1>1, <3>1, <3>2, EvaluatorAssumption
  <2> QED
    BY <2>1, <2>2
<1>16. ASSUME NEW m \in 1 .. D + 1, NEW o \in Outs, g[m].out = o, o[1] = "scratch"
       PROVE  o[2] < m /\ o[2] \in 1 .. D /\ o[3] = g[o[2]].phase
  <2>1. CASE m \in 1 .. D
    BY <1>9, <1>15, <1>16, <2>1
  <2>2. CASE m = D + 1 /\ Own
    BY <1>1, <1>2, <1>8, <1>9, <1>16, <2>2
  <2>3. CASE m = D + 1 /\ Arg
    BY <1>8, <1>9, <1>16, <2>3
  <2>4. CASE m = D + 1 /\ Pass
    <3>1. o = fr[D].out
      BY <1>8, <1>9, <1>16, <2>4
    <3>2. o[2] < D /\ o[2] \in 1 .. D /\ o[3] = fr[o[2]].phase
      BY <1>2, <1>15, <1>16, <3>1
    <3> QED
      BY <1>1, <1>9, <2>4, <3>2
  <2> QED
    BY <1>3, <1>10, <2>1, <2>2, <2>3, <2>4
<1>17. ASSUME NEW m \in 1 .. D + 1, NEW o \in Outs, g[m].out = o, o[1] = "arena"
       PROVE  \E n \in 1 .. m - 1 : /\ ArgPhase(g[n]) /\ o[2] \in Cells(g[n].buffer)
                                    /\ o[2] <= g[n].buffer.base + g[n].index
  <2>1. CASE m \in 1 .. D
    <3>1. PICK n \in 1 .. m - 1 : /\ ArgPhase(fr[n]) /\ o[2] \in Cells(fr[n].buffer)
                                  /\ o[2] <= fr[n].buffer.base + fr[n].index
      BY <1>9, <1>15, <1>17, <2>1
    <3>2. n \in 1 .. D
      BY <1>1, <2>1
    <3> QED
      BY <1>9, <3>1, <3>2
  <2>2. CASE m = D + 1 /\ Own
    BY <1>8, <1>9, <1>17, <2>2
  <2>3. CASE m = D + 1 /\ Arg
    <3>1. o = <<"arena", f.buffer.base + f.index, 0>>
      BY <1>8, <1>9, <1>17, <2>3
    <3>2. o[2] = f.buffer.base + f.index
      BY <3>1
    <3>3. D \in 1 .. m - 1 /\ g[D] = f
      BY <1>1, <1>2, <1>9, <2>3
    <3>4. f.buffer.base + f.index <= f.buffer.base + f.index
      BY <1>1, <1>2
    <3> QED
      BY <1>6, <2>3, <3>2, <3>3, <3>4
  <2>4. CASE m = D + 1 /\ Pass
    <3>1. o = fr[D].out
      BY <1>8, <1>9, <1>17, <2>4
    <3>2. PICK n \in 1 .. D - 1 : /\ ArgPhase(fr[n]) /\ o[2] \in Cells(fr[n].buffer)
                                  /\ o[2] <= fr[n].buffer.base + fr[n].index
      BY <1>2, <1>15, <1>17, <3>1
    <3>3. n \in 1 .. D /\ n \in 1 .. m - 1
      BY <1>1, <2>4
    <3> QED
      BY <1>9, <3>2, <3>3
  <2> QED
    BY <1>3, <1>10, <2>1, <2>2, <2>3, <2>4
<1>18. \A m \in 1 .. D + 1 : g[m].out \in Outs
  BY <1>1, <1>7, <1>8, <1>9, <1>10
<1>19. OutsOK(g)
  BY <1>9, <1>16, <1>17, <1>18 DEF OutsOK
<1>20. Distinct(g)
  <2>1. /\ \A m, n \in 1 .. D : m < n /\ ~Passing(fr[m]) => fr[m].out # fr[n].out
        /\ \A n \in 2 .. D :
             fr[n].out[1] = "result" => Passing(fr[n - 1]) /\ fr[n - 1].out = fr[n].out
    BY DEF StackOK, Distinct
  <2>2. ASSUME NEW m \in 1 .. D, ~Passing(fr[m]) PROVE fr[m].out # out
    <3>1. CASE Own
      <4>1. out[1] = "scratch" /\ out[2] = D
        BY <3>1
      <4>2. fr[m].out[1] = "scratch" => fr[m].out[2] < m /\ fr[m].out[2] \in 1 .. D
        BY <1>15
      <4>3. fr[m].out[1] = "scratch" => fr[m].out[2] # D
        BY <1>1, <4>2
      <4> QED
        BY <4>1, <4>3
    <3>2. CASE Arg
      <4>1. out[1] = "arena" /\ out[2] = f.buffer.base + f.index
        BY <3>2
      <4>2. fr[m].out[1] = "arena" =>
              \A n \in m .. D : \A j \in Cells(fr[n].buffer) : fr[m].out[2] < j
        BY OutInArena
      <4>3. D \in m .. D
        BY <1>1
      <4>4. fr[m].out[1] = "arena" => fr[m].out[2] < f.buffer.base + f.index
        BY <1>6, <3>2, <4>2, <4>3
      <4>5. fr[m].out[1] = "arena" => fr[m].out[2] # f.buffer.base + f.index
        BY <1>1, <1>2, <4>4
      <4> QED
        BY <4>1, <4>5
    <3>3. CASE Pass
      <4>1. m # D
        BY <2>2, <3>3
      <4>2. m < D
        BY <1>1, <4>1
      <4> QED
        BY <1>2, <2>1, <2>2, <3>3, <4>2
    <3> QED
      BY <1>3, <3>1, <3>2, <3>3
  <2>3. ASSUME NEW m \in 1 .. D + 1, NEW n \in 1 .. D + 1, m < n, ~Passing(g[m])
        PROVE  g[m].out # g[n].out
    <3>1. m \in 1 .. D
      BY <1>1, <1>10, <2>3
    <3>2. CASE n \in 1 .. D
      BY <1>9, <2>1, <2>3, <3>1, <3>2
    <3>3. CASE n = D + 1
      BY <1>8, <1>9, <2>2, <2>3, <3>1, <3>3
    <3> QED
      BY <1>10, <3>2, <3>3
  <2>4. ASSUME NEW n \in 2 .. D + 1, g[n].out[1] = "result"
        PROVE  Passing(g[n - 1]) /\ g[n - 1].out = g[n].out
    <3>1. CASE n = D + 1
      <4>1. n - 1 = D
        BY <1>1, <3>1
      <4>2. Pass
        BY <1>3, <1>8, <1>9, <2>4, <3>1
      <4> QED
        BY <1>2, <1>8, <1>9, <3>1, <4>1, <4>2
    <3>2. CASE n # D + 1
      <4>1. n \in 2 .. D /\ n \in 1 .. D /\ n - 1 \in 1 .. D
        BY <1>1, <3>2
      <4> QED
        BY <1>9, <2>1, <2>4, <4>1
    <3> QED
      BY <3>1, <3>2
  <2> QED
    BY <1>9, <2>3, <2>4 DEF Distinct
<1>21. ASSUME NEW m \in 1 .. D + 1, NEW o \in Outs, g[m].out = o
       PROVE  At(g, ar, res, o) = At(fr, ar, res, o)
  <2>1. CASE o[1] = "scratch"
    <3>1. o[2] \in 1 .. D
      BY <1>16, <1>21, <2>1
    <3>2. g[o[2]] = fr[o[2]]
      BY <1>9, <3>1
    <3> QED
      BY <2>1, <3>2 DEF At
  <2>2. CASE o[1] # "scratch"
    BY <2>2, OutFields DEF At
  <2> QED
    BY <2>1, <2>2
<1>22. FreeOuts(g, ar, res)
  <2>1. ASSUME NEW m \in 1 .. D + 1, ~Passing(g[m]) PROVE At(g, ar, res, g[m].out) = Imm
    <3>1. g[m].out \in Outs /\ At(g, ar, res, g[m].out) = At(fr, ar, res, g[m].out)
      BY <1>18, <1>21
    <3>2. CASE m \in 1 .. D
      BY <1>9, <2>1, <3>1, <3>2 DEF StackOK, FreeOuts
    <3>3. CASE m = D + 1
      <4>1. At(fr, ar, res, out) = Imm
        BY <1>3 DEF At
      <4> QED
        BY <1>8, <1>9, <3>1, <3>3, <4>1
    <3> QED
      BY <1>10, <3>2, <3>3
  <2> QED
    BY <1>9, <2>1 DEF FreeOuts
<1>23. LocalsOK(g, us)
  <2>0. \A m \in 1 .. D : \A i \in Cells(fr[m].locals) :
            /\ i \in 1 .. us
            /\ \A n \in 1 .. D : m <= n => \A j \in Cells(fr[n].buffer) : i < j
            /\ \A n \in 1 .. D : ArgPhase(fr[n]) => i \notin Cells(fr[n].buffer)
    BY DEF StackOK, LocalsOK
  <2>1. ASSUME NEW i \in Cells(locals)
        PROVE  /\ i \in 1 .. us
               /\ \A n \in 1 .. D : ArgPhase(fr[n]) => i \notin Cells(fr[n].buffer)
    <3>1. CASE locals = f.locals
      BY <1>2, <2>0, <2>1, <3>1
    <3>2. CASE locals = f.buffer /\ ~ArgPhase(f)
      <4>1. i \in Cells(fr[D].buffer) /\ i \in 1 .. us
        BY <1>2, <1>4, <1>5, <2>1, <3>2
      <4>2. ASSUME NEW n \in 1 .. D, ArgPhase(fr[n]), i \in Cells(fr[n].buffer) PROVE FALSE
        <5>1. n # D
          BY <3>2, <4>2
        <5>2. n < D
          BY <1>1, <5>1
        <5>3. i < i
          BY <1>2, <1>4, <1>5, <4>1, <4>2, <5>2, SMTT(40)
        <5> QED
          BY <4>1, <5>3
      <4> QED
        BY <4>1, <4>2
    <3> QED
      BY <3>1, <3>2
  <2> SUFFICES ASSUME NEW m \in 1 .. D + 1, NEW i \in Cells(g[m].locals)
               PROVE  /\ i \in 1 .. us
                      /\ \A n \in 1 .. D + 1 : m <= n => \A j \in Cells(g[n].buffer) : i < j
                      /\ \A n \in 1 .. D + 1 : ArgPhase(g[n]) => i \notin Cells(g[n].buffer)
    BY <1>9 DEF LocalsOK
  <2>2. CASE m \in 1 .. D
    BY <1>8, <1>9, <1>10, <2>0, <2>2
  <2>3. CASE m = D + 1
    <3>1. i \in Cells(locals)
      BY <1>8, <1>9, <2>3
    <3>2. \A n \in 1 .. D : ~(m <= n)
      BY <1>1, <2>3
    <3> QED
      BY <1>8, <1>9, <1>10, <2>1, <3>1, <3>2
  <2> QED
    BY <1>10, <2>2, <2>3
<1> QED
  BY <1>11, <1>13, <1>14, <1>19, <1>20, <1>22, <1>23 DEF StackOK, g, c

----------------------------------------------------------------------------
(* 5. The references from outside, when values move.                       *)

(* No object is Imm.                                                       *)
LEMMA IsNotImm ==
  ASSUME NEW o \in ObjectIds
  PROVE  Is(Imm, o) = 0 /\ o # Imm /\ Is(Unbound, o) = 0 /\ \A v : Is(v, o) \in Nat
<1>1. Imm # o
  BY EvaluatorAssumption DEF ObjectIds
<1>2. 0 # o
  BY EvaluatorAssumption DEF ObjectIds
<1> QED
  BY <1>1, <1>2 DEF Is, Unbound

(* There are finitely many places.                                         *)
LEMMA PlacesFinite ==
  ASSUME NEW n \in Nat
  PROVE  /\ IsFiniteSet((1 .. n) \X (1 .. 3)) /\ IsFiniteSet(1 .. 3)
         /\ IsFiniteSet(1 .. ArenaLimit) /\ IsFiniteSet(Slots)
<1>1. 1 \in Int /\ 3 \in Int /\ n \in Int /\ ArenaLimit \in Int
  BY EvaluatorAssumption
<1>2. IsFiniteSet(1 .. n) /\ IsFiniteSet(1 .. 3) /\ IsFiniteSet(1 .. ArenaLimit)
  BY <1>1, FS_Interval
<1>3. IsFiniteSet((1 .. n) \X (1 .. 3))
  BY <1>2, FS_Product
<1> QED
  BY <1>2, <1>3, EvaluatorAssumption

(* The values in the frames, by frame and number.                          *)
LEMMA ScratchFields ==
  ASSUME NEW fr \in Seq(Frames)
  PROVE  /\ Len(fr) \in Nat
         /\ DOMAIN ScratchOf(fr) = (1 .. Len(fr)) \X (1 .. 3)
         /\ IsFiniteSet(DOMAIN ScratchOf(fr))
         /\ \A m \in 1 .. Len(fr), k \in 1 .. 3 :
              /\ <<m, k>> \in DOMAIN ScratchOf(fr)
              /\ ScratchOf(fr)[<<m, k>>] = fr[m].values[k]
         /\ \A p \in DOMAIN ScratchOf(fr) :
              p = <<p[1], p[2]>> /\ p[1] \in 1 .. Len(fr) /\ p[2] \in 1 .. 3
<1>1. Len(fr) \in Nat
  OBVIOUS
<1>2. DOMAIN ScratchOf(fr) = (1 .. Len(fr)) \X (1 .. 3)
  BY DEF ScratchOf
<1>3. IsFiniteSet(DOMAIN ScratchOf(fr))
  BY <1>1, <1>2, PlacesFinite
<1> QED
  BY <1>1, <1>2, <1>3 DEF ScratchOf

(* A value of one frame changes.                                           *)
LEMMA ScratchPut ==
  ASSUME NEW fr \in Seq(Frames), NEW g \in Seq(Frames), Len(g) = Len(fr),
         NEW q \in 1 .. Len(fr), NEW k \in 1 .. 3, NEW o,
         \A m \in 1 .. Len(fr), j \in 1 .. 3 :
           m # q \/ j # k => g[m].values[j] = fr[m].values[j]
  PROVE  Occurrences(ScratchOf(g), o) + Is(fr[q].values[k], o)
           = Occurrences(ScratchOf(fr), o) + Is(g[q].values[k], o)
<1> DEFINE F == ScratchOf(fr)
           G == ScratchOf(g)
<1>1. /\ DOMAIN F = (1 .. Len(fr)) \X (1 .. 3) /\ IsFiniteSet(DOMAIN F)
      /\ \A m \in 1 .. Len(fr), j \in 1 .. 3 :
           <<m, j>> \in DOMAIN F /\ F[<<m, j>>] = fr[m].values[j]
      /\ \A p \in DOMAIN F : p = <<p[1], p[2]>> /\ p[1] \in 1 .. Len(fr) /\ p[2] \in 1 .. 3
  BY ScratchFields
<1>2. /\ DOMAIN G = (1 .. Len(fr)) \X (1 .. 3)
      /\ \A m \in 1 .. Len(fr), j \in 1 .. 3 : G[<<m, j>>] = g[m].values[j]
  <2>1. /\ DOMAIN G = (1 .. Len(g)) \X (1 .. 3)
        /\ \A m \in 1 .. Len(g), j \in 1 .. 3 : G[<<m, j>>] = g[m].values[j]
    BY ScratchFields
  <2> QED
    BY <2>1
<1> HIDE DEF F, G
<1>3. ASSUME NEW p \in DOMAIN F, p # <<q, k>> PROVE G[p] = F[p]
  <2>1. p[1] # q \/ p[2] # k
    BY <1>1, <1>3
  <2>2. g[p[1]].values[p[2]] = fr[p[1]].values[p[2]]
    BY <1>1, <2>1
  <2>3. G[<<p[1], p[2]>>] = g[p[1]].values[p[2]] /\ F[<<p[1], p[2]>>] = fr[p[1]].values[p[2]]
    BY <1>1, <1>2
  <2> QED
    BY <1>1, <2>2, <2>3
<1> DEFINE at == <<q, k>>
<1>5. at \in DOMAIN F /\ DOMAIN G = DOMAIN F /\ F[at] = fr[q].values[k] /\ G[at] = g[q].values[k]
  BY <1>1, <1>2
<1>6. \A p \in DOMAIN F : p # at => G[p] = F[p]
  BY <1>3
<1> HIDE DEF at
<1>7. Occurrences(G, o) + Is(F[at], o) = Occurrences(F, o) + Is(G[at], o)
  BY <1>1, <1>5, <1>6, OccUpdate
<1> QED
  BY <1>5, <1>7 DEF F, G

(* The values of the top frame, and those of the frames below.             *)
LEMMA ScratchPop ==
  ASSUME NEW fr \in Seq(Frames), Len(fr) > 0, NEW g \in Seq(Frames),
         Len(g) = Len(fr) - 1,
         \A m \in 1 .. Len(fr) - 1, k \in 1 .. 3 : g[m].values[k] = fr[m].values[k],
         NEW o \in ObjectIds
  PROVE  Occurrences(ScratchOf(fr), o)
           = Occurrences(ScratchOf(g), o) + Occurrences(fr[Len(fr)].values, o)
<1> DEFINE D == Len(fr)
           F == ScratchOf(fr)
           G == ScratchOf(g)
           p1 == <<D, 1>>
           p2 == <<D, 2>>
           p3 == <<D, 3>>
           s1 == [F EXCEPT ![p1] = Imm]
           s2 == [s1 EXCEPT ![p2] = Imm]
           s3 == [s2 EXCEPT ![p3] = Imm]
           w == fr[D].values
<1>0. D \in Nat /\ D \in 1 .. D
  OBVIOUS
<1>1. /\ IsFiniteSet(DOMAIN F)
      /\ \A m \in 1 .. D, k \in 1 .. 3 :
           <<m, k>> \in DOMAIN F /\ F[<<m, k>>] = fr[m].values[k]
      /\ \A p \in DOMAIN F : p = <<p[1], p[2]>> /\ p[1] \in 1 .. D /\ p[2] \in 1 .. 3
  BY ScratchFields
<1>2. /\ \A m \in 1 .. D - 1, k \in 1 .. 3 :
           <<m, k>> \in DOMAIN G /\ G[<<m, k>>] = g[m].values[k]
      /\ \A p \in DOMAIN G : p = <<p[1], p[2]>> /\ p[1] \in 1 .. D - 1 /\ p[2] \in 1 .. 3
  <2>1. /\ \A m \in 1 .. Len(g), k \in 1 .. 3 :
             <<m, k>> \in DOMAIN G /\ G[<<m, k>>] = g[m].values[k]
        /\ \A p \in DOMAIN G : p = <<p[1], p[2]>> /\ p[1] \in 1 .. Len(g) /\ p[2] \in 1 .. 3
    BY ScratchFields
  <2> QED
    BY <2>1
<1>3. DOMAIN w = 1 .. 3 /\ F[p1] = w[1] /\ F[p2] = w[2] /\ F[p3] = w[3]
  BY <1>0, <1>1, FrameFields
<1>4. p1 \in DOMAIN F /\ p2 \in DOMAIN F /\ p3 \in DOMAIN F
  BY <1>0, <1>1
<1>8. /\ p1 # p2 /\ p1 # p3 /\ p2 # p3
      /\ \A m \in 1 .. D - 1, k \in 1 .. 3 : <<m, k>> # p1 /\ <<m, k>> # p2 /\ <<m, k>> # p3
      /\ \A k \in 1 .. 3 : <<D, k>> = p1 \/ <<D, k>> = p2 \/ <<D, k>> = p3
  <2>1. \A m \in 1 .. D - 1 : m # D
    BY <1>0
  <2>2. \A k \in 1 .. 3 : k = 1 \/ k = 2 \/ k = 3
    OBVIOUS
  <2> QED
    BY <2>1, <2>2
<1> HIDE DEF F, G, p1, p2, p3
<1>5. DOMAIN s1 = DOMAIN F /\ DOMAIN s2 = DOMAIN F /\ DOMAIN s3 = DOMAIN F
  OBVIOUS
<1>6. /\ s1[p1] = Imm /\ \A p \in DOMAIN F : p # p1 => s1[p] = F[p]
      /\ s2[p2] = Imm /\ \A p \in DOMAIN F : p # p2 => s2[p] = s1[p]
      /\ s3[p3] = Imm /\ \A p \in DOMAIN F : p # p3 => s3[p] = s2[p]
  BY <1>4
<1> HIDE DEF s1, s2, s3
<1>7. /\ Occurrences(s1, o) + Is(F[p1], o) = Occurrences(F, o) + Is(s1[p1], o)
      /\ Occurrences(s2, o) + Is(s1[p2], o) = Occurrences(s1, o) + Is(s2[p2], o)
      /\ Occurrences(s3, o) + Is(s2[p3], o) = Occurrences(s2, o) + Is(s3[p3], o)
  <2>1. Occurrences(s1, o) + Is(F[p1], o) = Occurrences(F, o) + Is(s1[p1], o)
    BY <1>1, <1>4, <1>5, <1>6, OccUpdate
  <2>2. Occurrences(s2, o) + Is(s1[p2], o) = Occurrences(s1, o) + Is(s2[p2], o)
    <3>1. /\ IsFiniteSet(DOMAIN s1) /\ DOMAIN s2 = DOMAIN s1 /\ p2 \in DOMAIN s1
          /\ \A p \in DOMAIN s1 : p # p2 => s2[p] = s1[p]
      BY <1>1, <1>4, <1>5, <1>6
    <3> QED
      BY <3>1, OccUpdate
  <2>3. Occurrences(s3, o) + Is(s2[p3], o) = Occurrences(s2, o) + Is(s3[p3], o)
    <3>1. /\ IsFiniteSet(DOMAIN s2) /\ DOMAIN s3 = DOMAIN s2 /\ p3 \in DOMAIN s2
          /\ \A p \in DOMAIN s2 : p # p3 => s3[p] = s2[p]
      BY <1>1, <1>4, <1>5, <1>6
    <3> QED
      BY <3>1, OccUpdate
  <2> QED
    BY <2>1, <2>2, <2>3
<1>9. s1[p2] = w[2] /\ s2[p3] = w[3]
  <2>1. s1[p2] = w[2]
    BY <1>3, <1>4, <1>6, <1>8
  <2>2. s2[p3] = s1[p3] /\ s1[p3] = F[p3]
    BY <1>4, <1>6, <1>8
  <2> QED
    BY <1>3, <2>1, <2>2
<1>10. Occurrences(s3, o) = Occurrences(G, o)
  <2>1. o # Imm
    BY IsNotImm
  <2>2. s3[p1] = Imm /\ s3[p2] = Imm /\ s3[p3] = Imm
    BY <1>4, <1>6, <1>8
  <2>3. ASSUME NEW m \in 1 .. D - 1, NEW k \in 1 .. 3
        PROVE  <<m, k>> \in DOMAIN F /\ s3[<<m, k>>] = G[<<m, k>>]
    <3>1. m \in 1 .. D
      BY <1>0
    <3>2. <<m, k>> # p1 /\ <<m, k>> # p2 /\ <<m, k>> # p3
      BY <1>8
    <3>3. <<m, k>> \in DOMAIN F /\ F[<<m, k>>] = fr[m].values[k]
      BY <1>1, <3>1
    <3>4. s3[<<m, k>>] = F[<<m, k>>]
      BY <1>6, <3>2, <3>3
    <3>5. G[<<m, k>>] = g[m].values[k] /\ g[m].values[k] = fr[m].values[k]
      BY <1>2
    <3> QED
      BY <3>3, <3>4, <3>5
  <2>4. ASSUME NEW p, p \in DOMAIN s3, s3[p] = o PROVE p \in DOMAIN G /\ G[p] = o
    <3>1. p = <<p[1], p[2]>> /\ p[1] \in 1 .. D /\ p[2] \in 1 .. 3
      BY <1>1, <1>5, <2>4
    <3>2. p[1] # D
      BY <1>8, <2>1, <2>2, <2>4, <3>1
    <3>3. p[1] \in 1 .. D - 1
      BY <1>0, <3>1, <3>2
    <3>4. <<p[1], p[2]>> \in DOMAIN G /\ s3[<<p[1], p[2]>>] = G[<<p[1], p[2]>>]
      BY <1>2, <2>3, <3>1, <3>3
    <3> QED
      BY <2>4, <3>1, <3>4
  <2>5. ASSUME NEW p, p \in DOMAIN G, G[p] = o PROVE p \in DOMAIN s3 /\ s3[p] = o
    <3>1. p = <<p[1], p[2]>> /\ p[1] \in 1 .. D - 1 /\ p[2] \in 1 .. 3
      BY <1>2, <2>5
    <3>2. <<p[1], p[2]>> \in DOMAIN F /\ s3[<<p[1], p[2]>>] = G[<<p[1], p[2]>>]
      BY <2>3, <3>1
    <3> QED
      BY <1>5, <2>5, <3>1, <3>2
  <2> QED
    BY <2>4, <2>5, OccSame
<1>11. Occurrences(w, o) = Is(w[1], o) + Is(w[2], o) + Is(w[3], o)
  BY <1>3, OccThree
<1>12. /\ Occurrences(F, o) \in Nat /\ Occurrences(s1, o) \in Nat
       /\ Occurrences(s2, o) \in Nat /\ Occurrences(s3, o) \in Nat
  BY <1>1, <1>5, OccType
<1>13. /\ Is(Imm, o) = 0 /\ Is(w[1], o) \in Nat /\ Is(w[2], o) \in Nat /\ Is(w[3], o) \in Nat
  BY IsNotImm
<1>14. /\ Occurrences(s1, o) + Is(w[1], o) = Occurrences(F, o) + 0
       /\ Occurrences(s2, o) + Is(w[2], o) = Occurrences(s1, o) + 0
       /\ Occurrences(s3, o) + Is(w[3], o) = Occurrences(s2, o) + 0
  BY <1>3, <1>6, <1>7, <1>9, <1>13
<1> HIDE DEF w
<1>15. Occurrences(F, o) = Occurrences(s3, o) + (Is(w[1], o) + Is(w[2], o) + Is(w[3], o))
  BY <1>12, <1>13, <1>14, SMTT(40)
<1> QED
  BY <1>10, <1>11, <1>15 DEF F, G, w

(* What the arena a holds in the buffer b.                                 *)
RegionOf(a, b) == [i \in Cells(b) |-> a[i]]

Arenas == [1 .. ArenaLimit -> Values]
Tables == [Slots -> Values \cup {Unbound}]

(* The references from outside are numbers.                                *)
LEMMA ExternalFields ==
  ASSUME NEW sl \in Tables, NEW res, NEW fr \in Seq(Frames), NEW ar \in Arenas
  PROVE  /\ External(sl, res, fr, ar) \in Counts /\ ExternalStale(sl, res) \in Counts
         /\ \A o \in ObjectIds :
              /\ Occurrences(sl, o) \in Nat /\ Is(res, o) \in Nat
              /\ Occurrences(ScratchOf(fr), o) \in Nat /\ Occurrences(ar, o) \in Nat
              /\ External(sl, res, fr, ar)[o] = Occurrences(sl, o) + Is(res, o)
                   + Occurrences(ScratchOf(fr), o) + Occurrences(ar, o)
              /\ ExternalStale(sl, res)[o] = Occurrences(sl, o) + Is(res, o)
<1>1. IsFiniteSet(DOMAIN sl) /\ IsFiniteSet(DOMAIN ar) /\ IsFiniteSet(DOMAIN ScratchOf(fr))
  <2>1. 0 \in Nat /\ DOMAIN sl = Slots /\ DOMAIN ar = 1 .. ArenaLimit
    BY DEF Tables, Arenas
  <2> QED
    BY <2>1, PlacesFinite, ScratchFields
<1>2. \A o \in ObjectIds :
        /\ Occurrences(sl, o) \in Nat /\ Is(res, o) \in Nat
        /\ Occurrences(ScratchOf(fr), o) \in Nat /\ Occurrences(ar, o) \in Nat
  BY <1>1, OccType, IsNotImm
<1>3. \A o \in ObjectIds :
         /\ External(sl, res, fr, ar)[o] = Occurrences(sl, o) + Is(res, o)
                   + Occurrences(ScratchOf(fr), o) + Occurrences(ar, o)
         /\ ExternalStale(sl, res)[o] = Occurrences(sl, o) + Is(res, o)
  BY DEF External, ExternalStale
<1>4. \A o \in ObjectIds : Occurrences(sl, o) + Is(res, o)
                   + Occurrences(ScratchOf(fr), o) + Occurrences(ar, o) \in Nat
  BY <1>2
<1>5. \A o \in ObjectIds : Occurrences(sl, o) + Is(res, o) \in Nat
  BY <1>2
<1>6. External(sl, res, fr, ar) \in Counts
  BY <1>4 DEF External, Counts
<1>7. ExternalStale(sl, res) \in Counts
  BY <1>5 DEF ExternalStale, Counts
<1> QED
  BY <1>2, <1>3, <1>6, <1>7

(* The same for one object.                                                *)
LEMMA ExternalAt ==
  ASSUME NEW sl \in Tables, NEW res, NEW fr \in Seq(Frames), NEW ar \in Arenas,
         NEW o \in ObjectIds
  PROVE  /\ Occurrences(sl, o) \in Nat /\ Is(res, o) \in Nat
         /\ Occurrences(ScratchOf(fr), o) \in Nat /\ Occurrences(ar, o) \in Nat
         /\ External(sl, res, fr, ar)[o] = Occurrences(sl, o) + Is(res, o)
              + Occurrences(ScratchOf(fr), o) + Occurrences(ar, o)
BY ExternalFields

(* A buffer and the rest of the arena.                                     *)
LEMMA ArenaSplit ==
  ASSUME NEW a \in Arenas, NEW b, Cells(b) \subseteq 1 .. ArenaLimit
  PROVE  /\ Erased(a, b) \in Arenas /\ IsFiniteSet(DOMAIN RegionOf(a, b))
         /\ \A i \in 1 .. ArenaLimit : i \notin Cells(b) => Erased(a, b)[i] = a[i]
         /\ \A o \in ObjectIds :
              Occurrences(a, o) = Occurrences(RegionOf(a, b), o) + Occurrences(Erased(a, b), o)
<1> DEFINE r == Erased(a, b)
           g == RegionOf(a, b)
<1>1. DOMAIN a = 1 .. ArenaLimit /\ IsFiniteSet(DOMAIN a)
  <2>1. 0 \in Nat /\ DOMAIN a = 1 .. ArenaLimit
    BY DEF Arenas
  <2> QED
    BY <2>1, PlacesFinite
<1>2. r \in Arenas
  BY DEF Erased, Arenas, Values
<1>3. /\ DOMAIN r = DOMAIN a
      /\ \A i \in DOMAIN a : /\ i \in Cells(b) => r[i] = Imm
                             /\ i \notin Cells(b) => r[i] = a[i]
  BY DEF Erased
<1>4. DOMAIN g = Cells(b) /\ \A i \in Cells(b) : g[i] = a[i]
  BY DEF RegionOf
<1>5. IsFiniteSet(DOMAIN g)
  BY <1>1, <1>4, FS_Subset
<1> HIDE DEF r, g
<1>6. ASSUME NEW o \in ObjectIds PROVE Occurrences(a, o) = Occurrences(g, o) + Occurrences(r, o)
  <2>1. \A k \in DOMAIN g : r[k] # o
    BY <1>1, <1>3, <1>4, IsNotImm
  <2>2. DOMAIN g \subseteq DOMAIN a /\ \A k \in DOMAIN g : g[k] = a[k]
    BY <1>1, <1>4
  <2>3. \A k \in DOMAIN a : k \notin DOMAIN g => r[k] = a[k]
    BY <1>3, <1>4
  <2>4. IsFiniteSet(DOMAIN a) /\ DOMAIN r = DOMAIN a
    BY <1>1, <1>3
  <2> QED
    BY <2>1, <2>2, <2>3, <2>4, OccSplit
<1> QED
  BY <1>1, <1>2, <1>3, <1>5, <1>6 DEF r, g

(* A value of the arena changes.                                           *)
LEMMA ArenaPut ==
  ASSUME NEW a \in Arenas, NEW i \in 1 .. ArenaLimit, NEW v \in Values, NEW o
  PROVE  /\ [a EXCEPT ![i] = v] \in Arenas
         /\ Occurrences([a EXCEPT ![i] = v], o) + Is(a[i], o) = Occurrences(a, o) + Is(v, o)
<1> DEFINE g == [a EXCEPT ![i] = v]
<1>1. 0 \in Nat /\ DOMAIN a = 1 .. ArenaLimit /\ g \in Arenas
  BY DEF Arenas
<1>2. DOMAIN g = DOMAIN a /\ i \in DOMAIN a /\ g[i] = v /\ \A k \in DOMAIN a : k # i => g[k] = a[k]
  BY <1>1
<1>3. IsFiniteSet(DOMAIN a)
  BY <1>1, PlacesFinite
<1> HIDE DEF g
<1>4. Occurrences(g, o) + Is(a[i], o) = Occurrences(a, o) + Is(g[i], o)
  BY <1>2, <1>3, OccUpdate
<1> QED
  BY <1>1, <1>2, <1>4 DEF g

(* An arena of immediate values holds no object.                           *)
LEMMA ArenaNone ==
  ASSUME NEW o \in ObjectIds
  PROVE  EmptyArena \in Arenas /\ Occurrences(EmptyArena, o) = 0
<1>1. EmptyArena \in Arenas
  BY DEF EmptyArena, Arenas, Values
<1>2. 0 \in Nat /\ DOMAIN EmptyArena = 1 .. ArenaLimit /\ \A i \in DOMAIN EmptyArena : EmptyArena[i] = Imm
  BY DEF EmptyArena
<1>3. IsFiniteSet(DOMAIN EmptyArena)
  BY <1>2, PlacesFinite
<1>4. \A i \in DOMAIN EmptyArena : EmptyArena[i] # o
  BY <1>2, IsNotImm
<1> QED
  BY <1>1, <1>3, <1>4, OccZero

(* Neither does a stack without frames.                                    *)
LEMMA ScratchNone ==
  ASSUME NEW o
  PROVE  Occurrences(ScratchOf(<<>>), o) = 0 /\ <<>> \in Seq(Frames)
<1>1. <<>> \in Seq(Frames) /\ Len(<<>>) = 0
  OBVIOUS
<1> DEFINE e == <<>>
<1>2. e \in Seq(Frames) /\ Len(e) = 0
  BY <1>1
<1> HIDE DEF e
<1>3. IsFiniteSet(DOMAIN ScratchOf(e)) /\ \A p \in DOMAIN ScratchOf(e) : p[1] \in 1 .. Len(e)
  BY <1>2, ScratchFields
<1>4. \A p \in DOMAIN ScratchOf(e) : ScratchOf(e)[p] # o
  BY <1>2, <1>3
<1>5. Occurrences(ScratchOf(e), o) = 0
  BY <1>3, <1>4, OccZero
<1> QED
  BY <1>2, <1>5 DEF e

(* The frames below the top one.                                           *)
LEMMA FrontFields ==
  ASSUME NEW fr \in Seq(Frames), Len(fr) > 0
  PROVE  /\ Front(fr) \in Seq(Frames) /\ Len(Front(fr)) = Len(fr) - 1
         /\ \A m \in 1 .. Len(fr) - 1, k \in 1 .. 3 :
              Front(fr)[m].values[k] = fr[m].values[k]
         /\ \A o \in ObjectIds :
              Occurrences(ScratchOf(fr), o)
                = Occurrences(ScratchOf(Front(fr)), o) + Occurrences(fr[Len(fr)].values, o)
<1> DEFINE out == <<"result", 0, 0>>
           g == Deliver(fr, out, Imm)
<1>1. out \in Outs /\ out[1] # "scratch" /\ Imm \in Values
  BY DEF Outs, Values
<1>2. g = Front(fr)
  BY <1>1 DEF Deliver
<1> HIDE DEF out
<1>3. /\ g \in Seq(Frames) /\ Len(g) = Len(fr) - 1
      /\ \A m \in 1 .. Len(fr) - 1, k \in 1 .. 3 : g[m].values[k] = fr[m].values[k]
  BY <1>1, DeliverFrames
<1> HIDE DEF g
<1>4. \A o \in ObjectIds : Occurrences(ScratchOf(fr), o)
                = Occurrences(ScratchOf(g), o) + Occurrences(fr[Len(fr)].values, o)
  BY <1>3, ScratchPop
<1> QED
  BY <1>2, <1>3, <1>4

(* The top frame is popped and v replaces what is where it delivers: the   *)
(* buffer is no longer counted.                                            *)
LEMMA DeliverCounts ==
  ASSUME NEW fr \in Seq(Frames), Len(fr) > 0, NEW v \in Values, NEW out \in Outs,
         out[1] = "scratch" => out[2] \in 1 .. Len(fr) - 1,
         NEW a \in Arenas, NEW b, Cells(b) \subseteq 1 .. ArenaLimit,
         out[1] = "arena" => out[2] \notin Cells(b),
         NEW sl \in Tables, NEW res, NEW o \in ObjectIds
  PROVE  /\ Deliver(fr, out, v) \in Seq(Frames) /\ DeliverArena(a, b, out, v) \in Arenas
         /\ External(sl, DeliverResult(res, out, v), Deliver(fr, out, v),
                     DeliverArena(a, b, out, v))[o]
              + Occurrences(RegionOf(a, b), o) + Is(At(fr, a, res, out), o)
            = External(sl, res, Front(fr), a)[o] + Is(v, o)
<1> DEFINE p == Front(fr)
           e == Erased(a, b)
           g == Deliver(fr, out, v)
           a2 == DeliverArena(a, b, out, v)
           r2 == DeliverResult(res, out, v)
           old == At(fr, a, res, out)
           S == Occurrences(sl, o)
           R == Occurrences(RegionOf(a, b), o)
<1>1. /\ p \in Seq(Frames) /\ Len(p) = Len(fr) - 1
      /\ \A m \in 1 .. Len(fr) - 1, k \in 1 .. 3 : p[m].values[k] = fr[m].values[k]
  BY FrontFields
<1>2. /\ e \in Arenas /\ \A i \in 1 .. ArenaLimit : i \notin Cells(b) => e[i] = a[i]
      /\ Occurrences(a, o) = R + Occurrences(e, o) /\ R \in Nat
  BY ArenaSplit, OccType
<1>3. /\ g \in Seq(Frames) /\ Len(g) = Len(fr) - 1
      /\ \A m \in 1 .. Len(fr) - 1 : \A k \in 1 .. 3 :
           g[m].values[k] = IF out[1] = "scratch" /\ out[2] = m /\ out[3] = k
                              THEN v ELSE fr[m].values[k]
  BY DeliverFrames, SMTT(40)
<1>4. a2 = IF out[1] = "arena" THEN [e EXCEPT ![out[2]] = v] ELSE e
  BY DEF DeliverArena
<1>5. r2 = IF out[1] = "result" THEN v ELSE res
  BY DEF DeliverResult
<1>6. out[1] # "scratch" => g = p
  BY DEF Deliver
<1>7. /\ out[1] = "result" => old = res
      /\ out[1] = "arena" => old = a[out[2]]
      /\ out[1] = "scratch" => old = fr[out[2]].values[out[3]]
  BY DEF At
<1> HIDE DEF p, e, g, a2, r2, old
<1>8. a2 \in Arenas
  <2>1. out[1] = "arena" => [e EXCEPT ![out[2]] = v] \in Arenas
    BY <1>2, OutFields, ArenaPut
  <2> QED
    BY <1>2, <1>4, <2>1
<1>9. /\ S \in Nat /\ Is(res, o) \in Nat /\ Is(r2, o) \in Nat
      /\ Occurrences(ScratchOf(p), o) \in Nat /\ Occurrences(ScratchOf(g), o) \in Nat
      /\ Occurrences(a, o) \in Nat /\ Occurrences(a2, o) \in Nat /\ Occurrences(e, o) \in Nat
      /\ Is(v, o) \in Nat /\ Is(old, o) \in Nat
      /\ External(sl, res, p, a)[o]
           = S + Is(res, o) + Occurrences(ScratchOf(p), o) + Occurrences(a, o)
      /\ External(sl, r2, g, a2)[o]
           = S + Is(r2, o) + Occurrences(ScratchOf(g), o) + Occurrences(a2, o)
  <2>1. /\ S \in Nat /\ Is(res, o) \in Nat
        /\ Occurrences(ScratchOf(p), o) \in Nat /\ Occurrences(a, o) \in Nat
        /\ External(sl, res, p, a)[o]
             = S + Is(res, o) + Occurrences(ScratchOf(p), o) + Occurrences(a, o)
    <3>1. p \in Seq(Frames)
      BY <1>1
    <3> QED
      BY <3>1, ExternalAt
  <2>2. /\ Is(r2, o) \in Nat
        /\ Occurrences(ScratchOf(g), o) \in Nat /\ Occurrences(a2, o) \in Nat
        /\ External(sl, r2, g, a2)[o]
             = S + Is(r2, o) + Occurrences(ScratchOf(g), o) + Occurrences(a2, o)
    <3>1. g \in Seq(Frames)
      BY <1>3
    <3> QED
      BY <1>8, <3>1, ExternalAt
  <2>3. Occurrences(e, o) \in Nat
    BY <1>1, <1>2, ExternalFields
  <2> QED
    BY <2>1, <2>2, <2>3, IsNotImm
<1> DEFINE X1 == Occurrences(ScratchOf(p), o)
           X2 == Occurrences(ScratchOf(g), o)
           A1 == Occurrences(a, o)
           A2 == Occurrences(a2, o)
           E == Occurrences(e, o)
           V == Is(v, o)
           O == Is(old, o)
           R1 == Is(res, o)
           R2 == Is(r2, o)
<1>13. /\ S \in Nat /\ R \in Nat /\ X1 \in Nat /\ X2 \in Nat /\ A1 \in Nat /\ A2 \in Nat
       /\ E \in Nat /\ V \in Nat /\ O \in Nat /\ R1 \in Nat /\ R2 \in Nat /\ A1 = R + E
  BY <1>2, <1>9
<1> HIDE DEF S, R
<1> SUFFICES S + R2 + X2 + A2 + R + O = S + R1 + X1 + A1 + V
  BY <1>3, <1>8, <1>9 DEF p, g, a2, r2, old, R
<1>10. CASE out[1] = "result"
  <2>1. r2 = v /\ g = p /\ a2 = e /\ old = res
    BY <1>4, <1>5, <1>6, <1>7, <1>10
  <2>2. R2 = V /\ X2 = X1 /\ A2 = E /\ O = R1
    BY <2>1
  <2> HIDE DEF X1, X2, A1, A2, E, V, O, R1, R2
  <2> QED
    BY <1>13, <2>2
<1>11. CASE out[1] = "arena"
  <2>1. r2 = res /\ g = p /\ a2 = [e EXCEPT ![out[2]] = v] /\ old = a[out[2]]
    BY <1>4, <1>5, <1>6, <1>7, <1>11
  <2>2. out[2] \in 1 .. ArenaLimit
    BY <1>11, OutFields
  <2>3. old = e[out[2]]
    BY <1>2, <1>11, <2>1, <2>2
  <2> DEFINE i == out[2]
  <2>4. i \in 1 .. ArenaLimit /\ old = e[i] /\ a2 = [e EXCEPT ![i] = v] /\ e \in Arenas
    BY <1>2, <2>1, <2>2, <2>3
  <2> HIDE DEF i
  <2>5. Occurrences([e EXCEPT ![i] = v], o) + Is(e[i], o) = Occurrences(e, o) + Is(v, o)
    BY <2>4, ArenaPut, Zenon
  <2>6. A2 + O = E + V /\ R2 = R1 /\ X2 = X1
    BY <2>1, <2>4, <2>5
  <2> HIDE DEF X1, X2, A1, A2, E, V, O, R1, R2
  <2>7. A2 + R + O = A1 + V
    BY <1>13, <2>6, SMTT(40)
  <2>8. S + R2 + X2 = S + R1 + X1 /\ S + R1 + X1 \in Nat
    BY <1>13, <2>6
  <2> DEFINE K == S + R1 + X1
  <2>9. /\ K \in Nat /\ A2 \in Nat /\ R \in Nat /\ O \in Nat /\ A1 \in Nat /\ V \in Nat
        /\ S + R2 + X2 = K
    BY <1>13, <2>8
  <2> HIDE DEF K
  <2>10. K + A2 + R + O = K + A1 + V
    BY <2>7, <2>9
  <2> QED
    BY <2>9, <2>10 DEF K
<1>12. CASE out[1] = "scratch"
  <2>1. r2 = res /\ a2 = e /\ old = fr[out[2]].values[out[3]]
    BY <1>4, <1>5, <1>7, <1>12
  <2>2. out[2] \in 1 .. Len(fr) - 1 /\ out[3] \in 1 .. 3
    BY <1>12, OutFields
  <2> DEFINE q == out[2]
             k == out[3]
  <2>3. /\ q \in 1 .. Len(p) /\ k \in 1 .. 3 /\ Len(g) = Len(p)
        /\ g[q].values[k] = v /\ p[q].values[k] = old
        /\ \A m \in 1 .. Len(p), j \in 1 .. 3 :
             m # q \/ j # k => g[m].values[j] = p[m].values[j]
    BY <1>1, <1>3, <1>12, <2>1, <2>2, SMTT(40)
  <2>7. p \in Seq(Frames) /\ g \in Seq(Frames)
    BY <1>1, <1>3
  <2> HIDE DEF q, k
  <2>4. Occurrences(ScratchOf(g), o) + Is(p[q].values[k], o)
          = Occurrences(ScratchOf(p), o) + Is(g[q].values[k], o)
    BY <2>3, <2>7, ScratchPut, SMTT(40)
  <2>5. X2 + O = X1 + V /\ A2 = E /\ R2 = R1
    BY <2>1, <2>3, <2>4
  <2> HIDE DEF X1, X2, A1, A2, E, V, O, R1, R2
  <2>6. A2 + R = A1
    BY <1>13, <2>5
  <2> QED
    BY <1>13, <2>5, <2>6, SMTT(40)
<1> QED
  BY <1>10, <1>11, <1>12, OutFields

(* Counts that agree are the same to Exact, and what is kept twice is kept. *)
LEMMA ExactSame ==
  ASSUME NEW h, NEW X, NEW Y, Exact(h, X), \A o \in ObjectIds : Y[o] = X[o]
  PROVE  Exact(h, Y)
BY DEF Exact

(* Objects that two releases kept.                                         *)
LEMMA KeptTwice ==
  ASSUME NEW g, NEW e, NEW h, Kept(g, e), Kept(e, h)
  PROVE  Kept(g, h)
BY DEF Kept

(* Where the top frame delivers: not to itself, not into its buffer and    *)
(* not to its locals.                                                      *)
LEMMA TopOut ==
  ASSUME NEW fr, NEW ar, NEW us, NEW rl, NEW res, StackOK(fr, ar, us, rl, res),
         Len(fr) > 0, NEW out, out = fr[Len(fr)].out, NEW b, b = fr[Len(fr)].buffer
  PROVE  /\ fr \in Seq(Frames) /\ Len(fr) \in Nat /\ Len(fr) \in 1 .. Len(fr) /\ out \in Outs
         /\ ar \in Arenas
         /\ out[1] = "scratch" => /\ out[2] \in 1 .. Len(fr) - 1
                                  /\ out[3] = fr[out[2]].phase
         /\ Cells(b) \subseteq 1 .. us /\ 1 .. us \subseteq 1 .. ArenaLimit
         /\ out[1] = "arena" => /\ out[2] \in 1 .. us /\ out[2] \notin Cells(b)
                                /\ out[2] \notin Cells(fr[Len(fr)].locals)
         /\ \A i \in Cells(fr[Len(fr)].locals) : i \in 1 .. us /\ i \notin Cells(b)
<1> DEFINE D == Len(fr)
<1>1. /\ fr \in Seq(Frames) /\ D \in Nat
      /\ us \in Nat /\ ArenaLimit \in Nat /\ us <= ArenaLimit
      /\ \A n \in 1 .. Len(fr) : fr[n].out \in Outs
  BY StackTypes
<1>2. D \in 1 .. D /\ D \in 0 .. D /\ D # 0 /\ 1 .. us \subseteq 1 .. ArenaLimit /\ D \in D .. D
  BY <1>1
<1>3. ar \in Arenas
  BY DEF StackOK, ArenaOK, Arenas
<1>4. out \in Outs
  BY <1>1, <1>2
<1>5. out[1] = "scratch" => out[2] \in 1 .. D - 1 /\ out[3] = fr[out[2]].phase
  <2>1. out[1] = "scratch" => out[2] < D /\ out[3] = fr[out[2]].phase
    BY <1>2 DEF StackOK, OutsOK
  <2>2. out[1] = "scratch" => out[2] \in 1 .. FrameCapacity
    BY <1>4, OutFields
  <2> QED
    BY <1>1, <2>1, <2>2, EvaluatorAssumption
<1>6. Cells(b) \subseteq 1 .. us
  <2>1. Buf(fr, rl, D) = b
    BY <1>2 DEF Buf
  <2> QED
    BY <1>2, <2>1 DEF StackOK, Stacked
<1>7. \A i \in 1 .. us : ~(i < i)
  BY <1>1
<1>8. ASSUME out[1] = "arena"
      PROVE  /\ out[2] \in 1 .. us /\ out[2] \notin Cells(b)
             /\ out[2] \notin Cells(fr[Len(fr)].locals)
  <2>1. /\ out[2] \in 1 .. us
        /\ \A n \in 1 .. D : out[2] \notin Cells(fr[n].locals)
        /\ \A n \in D .. D : \A j \in Cells(fr[n].buffer) : out[2] < j
    BY <1>2, <1>8, OutInArena
  <2> QED
    BY <1>2, <1>7, <2>1
<1>9. \A i \in Cells(fr[D].locals) : i \in 1 .. us /\ i \notin Cells(b)
  <2>1. \A i \in Cells(fr[D].locals) :
          i \in 1 .. us /\ \A n \in 1 .. D : D <= n => \A j \in Cells(fr[n].buffer) : i < j
    BY <1>2 DEF StackOK, LocalsOK
  <2>2. D <= D
    BY <1>1
  <2> QED
    BY <1>2, <1>7, <2>1, <2>2
<1> QED
  BY <1>1, <1>2, <1>3, <1>4, <1>5, <1>6, <1>8, <1>9

(* frothy_eval_complete_value keeps the table exact, when it is exact for  *)
(* the frames below, the values w of the frame and the value v.            *)
LEMMA CompleteExact ==
  ASSUME NEW fr, NEW ar, NEW us, NEW rl, NEW res, StackOK(fr, ar, us, rl, res),
         Len(fr) > 0, NEW v \in Values, NEW a \in Arenas,
         \A i \in 1 .. ArenaLimit : a[i] # ar[i] => i \in Cells(fr[Len(fr)].locals),
         NEW out, out = fr[Len(fr)].out, NEW b, b = fr[Len(fr)].buffer,
         NEW w \in [1 .. 3 -> Values], NEW sl \in Tables,
         NEW h, HeapOK(h), NEW Y \in Counts, Exact(h, Y),
         \A o \in ObjectIds : Y[o] + Is(At(fr, ar, res, out), o)
           = External(sl, res, Front(fr), a)[o] + Occurrences(w, o) + Is(v, o)
  PROVE  LET g == Release(Release(h, w), RegionOf(ar, b))
         IN  /\ HeapOK(g) /\ Kept(g, h)
             /\ Exact(g, External(sl, DeliverResult(res, out, v), Deliver(fr, out, v),
                                  DeliverArena(a, b, out, v)))
<1> DEFINE r == RegionOf(ar, b)
           Z == External(sl, DeliverResult(res, out, v), Deliver(fr, out, v),
                         DeliverArena(a, b, out, v))
           W == External(sl, res, Front(fr), a)
           g == Release(h, w)
           q == Release(g, r)
           old == At(fr, ar, res, out)
<1>1. /\ fr \in Seq(Frames) /\ out \in Outs /\ ar \in Arenas
      /\ out[1] = "scratch" => out[2] \in 1 .. Len(fr) - 1
      /\ Cells(b) \subseteq 1 .. ArenaLimit
      /\ out[1] = "arena" => /\ out[2] \notin Cells(b) /\ out[2] \in 1 .. ArenaLimit
                             /\ out[2] \notin Cells(fr[Len(fr)].locals)
      /\ \A i \in Cells(fr[Len(fr)].locals) : i \notin Cells(b)
  <2>1. /\ fr \in Seq(Frames) /\ out \in Outs /\ ar \in Arenas
        /\ out[1] = "scratch" => out[2] \in 1 .. Len(fr) - 1
        /\ Cells(b) \subseteq 1 .. us /\ 1 .. us \subseteq 1 .. ArenaLimit
    BY TopOut, SMTT(40)
  <2>2. out[1] = "arena" => /\ out[2] \in 1 .. us /\ out[2] \notin Cells(b)
                            /\ out[2] \notin Cells(fr[Len(fr)].locals)
    BY TopOut, SMTT(40)
  <2>3. \A i \in Cells(fr[Len(fr)].locals) : i \notin Cells(b)
    BY TopOut, SMTT(40)
  <2> QED
    BY <2>1, <2>2, <2>3
<1>2. RegionOf(a, b) = r
  <2>1. \A i \in Cells(b) : a[i] = ar[i]
    BY <1>1
  <2> QED
    BY <2>1 DEF RegionOf
<1>3. At(fr, a, res, out) = old
  <2>1. out[1] = "arena" => a[out[2]] = ar[out[2]]
    BY <1>1
  <2> QED
    BY <2>1 DEF At
<1>4. ASSUME NEW o \in ObjectIds
      PROVE  Z[o] + Occurrences(r, o) + Is(old, o) = W[o] + Is(v, o)
  <2>1. External(sl, DeliverResult(res, out, v), Deliver(fr, out, v),
                     DeliverArena(a, b, out, v))[o]
              + Occurrences(RegionOf(a, b), o) + Is(At(fr, a, res, out), o)
            = External(sl, res, Front(fr), a)[o] + Is(v, o)
    BY <1>1, DeliverCounts
  <2> QED
    BY <1>2, <1>3, <2>1
<1>5. Z \in Counts
  <2>1. 1 \in ObjectIds
    BY EvaluatorAssumption DEF ObjectIds
  <2>2. Deliver(fr, out, v) \in Seq(Frames) /\ DeliverArena(a, b, out, v) \in Arenas
    BY <1>1, <2>1, DeliverCounts
  <2> QED
    BY <2>2, ExternalFields
<1>6. W \in Counts
  BY <1>1, FrontFields, ExternalFields
<1>7. IsFiniteSet(DOMAIN w) /\ IsFiniteSet(DOMAIN r)
  <2>1. 0 \in Nat /\ DOMAIN w = 1 .. 3
    OBVIOUS
  <2> QED
    BY <1>1, <2>1, PlacesFinite, ArenaSplit
<1>8. \A o \in ObjectIds : /\ Occurrences(w, o) \in Nat /\ Occurrences(r, o) \in Nat
                           /\ Is(old, o) \in Nat /\ Is(v, o) \in Nat
                           /\ Z[o] \in Nat /\ W[o] \in Nat /\ Y[o] \in Nat
  BY <1>5, <1>6, <1>7, OccType, IsNotImm DEF Counts
<1>9. \A o \in ObjectIds : Y[o] + Is(old, o) = W[o] + Occurrences(w, o) + Is(v, o)
  OBVIOUS
<1> HIDE DEF Z, W, r, old
<1>10. ASSUME NEW o \in ObjectIds PROVE Y[o] = Z[o] + Occurrences(r, o) + Occurrences(w, o)
  <2>1. Z[o] + Occurrences(r, o) + Is(old, o) = W[o] + Is(v, o)
    BY <1>4
  <2>2. Y[o] + Is(old, o) = W[o] + Occurrences(w, o) + Is(v, o)
    BY <1>9
  <2>3. /\ Occurrences(w, o) \in Nat /\ Occurrences(r, o) \in Nat
        /\ Is(old, o) \in Nat /\ Is(v, o) \in Nat
        /\ Z[o] \in Nat /\ W[o] \in Nat /\ Y[o] \in Nat
    BY <1>8
  <2> DEFINE z == Z[o]
             x == W[o]
             y == Y[o]
             c == Occurrences(w, o)
             d == Occurrences(r, o)
             e == Is(old, o)
             j == Is(v, o)
  <2>4. /\ z \in Nat /\ x \in Nat /\ y \in Nat /\ c \in Nat /\ d \in Nat /\ e \in Nat /\ j \in Nat
        /\ z + d + e = x + j /\ y + e = x + c + j
    BY <2>1, <2>2, <2>3
  <2> HIDE DEF z, x, y, c, d, e, j
  <2>5. y = z + d + c
    BY <2>4
  <2> QED
    BY <2>5 DEF z, y, c, d
<1>11. \A o \in ObjectIds : Occurrences(w, o) <= Y[o]
  BY <1>8, <1>10
<1>12. HeapOK(g) /\ Less(Y, w) \in Counts /\ Exact(g, Less(Y, w)) /\ Kept(g, h)
  BY <1>7, <1>11, ReleaseExact
<1> DEFINE Y2 == Less(Y, w)
<1>13. \A o \in ObjectIds : Y2[o] = Z[o] + Occurrences(r, o)
  <2>1. \A o \in ObjectIds : Y2[o] = Y[o] - Occurrences(w, o)
    BY DEF Less
  <2> QED
    BY <1>8, <1>10, <2>1
<1>14. \A o \in ObjectIds : Occurrences(r, o) <= Y2[o]
  BY <1>8, <1>13
<1>15. HeapOK(g) /\ Y2 \in Counts /\ Exact(g, Y2)
  BY <1>12
<1> HIDE DEF Y2, g
<1>16. HeapOK(q) /\ Exact(q, Less(Y2, r)) /\ Kept(q, g)
  BY <1>7, <1>14, <1>15, ReleaseExact
<1>17. \A o \in ObjectIds : Z[o] = Less(Y2, r)[o]
  <2>1. \A o \in ObjectIds : Less(Y2, r)[o] = Y2[o] - Occurrences(r, o)
    BY DEF Less
  <2> QED
    BY <1>8, <1>13, <2>1
<1> HIDE DEF q
<1>18. Exact(q, Z)
  BY <1>16, <1>17, ExactSame
<1>19. Kept(q, h)
  BY <1>12, <1>16, KeptTwice DEF g
<1> QED
  BY <1>16, <1>18, <1>19 DEF q, g, r, Z

----------------------------------------------------------------------------
(* 6. What the steps have in common.                                       *)

(* The state after a step, put together from its parts.                    *)
LEMMA InvNext ==
  ASSUME heap' \in [ObjectIds -> Objects], HeapOK(heap'), slots' \in Tables,
         StackOK(frames', arena', used', rootLocals', result'),
         CalleesOK(frames', heap'),
         Exact(heap', External(slots', result', frames', arena')),
         running' \in BOOLEAN, stale' = FALSE, interrupted' \in BOOLEAN,
         running' = FALSE => /\ frames' = <<>> /\ arena' = EmptyArena /\ used' = 0
                             /\ rootLocals' = NoBuffer
  PROVE  Inv'
<1>1. /\ frames' \in Seq(Frames) /\ Len(frames') <= FrameCapacity
      /\ arena' \in [1 .. ArenaLimit -> Values] /\ used' \in 0 .. ArenaLimit
      /\ rootLocals' \in Buffers /\ result' \in Values
  BY DEF StackOK, FramesOK, ArenaOK, Stacked
<1>2. TypeOK'
  BY <1>1 DEF TypeOK, Tables
<1> QED
  BY <1>2 DEF Inv

(* The invariant while a program runs.                                     *)
LEMMA InvRuns ==
  ASSUME Inv, ~stale
  PROVE  /\ HeapOK(heap) /\ heap \in [ObjectIds -> Objects] /\ slots \in Tables
         /\ frames \in Seq(Frames) /\ arena \in Arenas /\ result \in Values
         /\ StackOK(frames, arena, used, rootLocals, result)
         /\ CalleesOK(frames, heap)
         /\ Exact(heap, External(slots, result, frames, arena))
         /\ External(slots, result, frames, arena) \in Counts
         /\ running \in BOOLEAN /\ interrupted \in BOOLEAN
<1>1. TypeOK /\ HeapOK(heap)
  BY DEF Inv
<1>2. heap \in [ObjectIds -> Objects] /\ slots \in Tables /\ frames \in Seq(Frames)
      /\ arena \in Arenas /\ result \in Values /\ running \in BOOLEAN /\ interrupted \in BOOLEAN
  BY <1>1 DEF TypeOK, Tables, Arenas
<1>3. External(slots, result, frames, arena) \in Counts
  BY <1>2, ExternalFields
<1> QED
  BY <1>1, <1>2, <1>3 DEF Inv

(* The top frame and its locals.                                           *)
LEMMA TopRuns ==
  ASSUME Inv, ~stale, frames # <<>>
  PROVE  /\ Depth \in Nat /\ Depth > 0 /\ Depth \in 1 .. Depth /\ Depth <= FrameCapacity
         /\ FrameOK(Top) /\ Top \in Frames /\ Top.values \in [1 .. 3 -> Values]
         /\ Top.out \in Outs /\ Top.buffer \in Buffers /\ Top.locals \in Buffers
         /\ Top = frames[Len(frames)] /\ Depth = Len(frames) /\ Len(frames) > 0
         /\ Top.phase \in 0 .. 3 /\ Top.kind \in FrameKinds /\ Top.index \in Nat
         /\ Out(Top) = At(frames, arena, result, Top.out)
         /\ ~Passing(Top) => Out(Top) = Imm /\ result = Imm
<1>1. StackOK(frames, arena, used, rootLocals, result)
  BY InvRuns
<1>2. FramesOK(frames) /\ FreeOuts(frames, arena, result) /\ frames \in Seq(Frames)
  BY <1>1 DEF StackOK, FramesOK
<1>3. /\ Len(frames) \in Nat /\ Len(frames) > 0 /\ Len(frames) \in 1 .. Len(frames)
  BY <1>2
<1>4. Len(frames) <= FrameCapacity /\ FrameOK(Top)
  BY <1>2, <1>3 DEF FramesOK, Top, Depth
<1>5. Top \in Frames
  BY <1>4 DEF FrameOK
<1>6. /\ Top.kind \in FrameKinds /\ Top.phase \in 0 .. 3 /\ Top.index \in 0 .. ArenaLimit
      /\ Top.values \in [1 .. 3 -> Values] /\ Top.out \in Outs
      /\ Top.buffer \in Buffers /\ Top.locals \in Buffers
  BY <1>5, FrameFields
<1>7. Top.index \in Nat
  BY <1>6, EvaluatorAssumption
<1>8. Out(Top) = At(frames, arena, result, Top.out)
  BY DEF Out, At
<1>9. ~Passing(Top) => At(frames, arena, result, Top.out) = Imm /\ result = Imm
  BY <1>2, <1>3 DEF FreeOuts, Top, Depth
<1> QED
  BY <1>3, <1>4, <1>5, <1>6, <1>7, <1>8, <1>9 DEF Top, Depth

(* The objects of before that are left are what they were.                 *)
KindsKept(g, h) ==
  \A o \in Live(h) : o \in Live(g) => g[o].kind = h[o].kind /\ g[o].arity = h[o].arity

(* Callees stay: a frame that is still there holds its callee.             *)
LEMMA CalleesStay ==
  ASSUME NEW fr \in Seq(Frames), NEW h, CalleesOK(fr, h), NEW e, NEW X \in Counts, Exact(e, X),
         KindsKept(e, h), NEW g \in Seq(Frames), Len(g) <= Len(fr),
         \A o \in ObjectIds : Occurrences(ScratchOf(g), o) <= X[o],
         \A n \in 1 .. Len(g) :
           g[n].kind = "call" /\ g[n].phase >= 2 =>
             /\ fr[n].kind = "call" /\ fr[n].phase >= 2 /\ g[n].buffer = fr[n].buffer
             /\ g[n].values[1] = fr[n].values[1] /\ (g[n].phase = 3 => fr[n].phase = 3)
  PROVE  CalleesOK(g, e)
<1> SUFFICES ASSUME NEW n \in 1 .. Len(g), g[n].kind = "call", g[n].phase >= 2
             PROVE  /\ g[n].values[1] \in Live(e)
                    /\ e[g[n].values[1]].kind \in {"code", "native", "def"}
                    /\ e[g[n].values[1]].arity = g[n].buffer.count
                    /\ g[n].phase = 3 => e[g[n].values[1]].kind = "code"
  BY DEF CalleesOK
<1> DEFINE c == g[n].values[1]
<1>1. n \in 1 .. Len(fr) /\ Len(g) \in Nat
  OBVIOUS
<1>2. /\ fr[n].kind = "call" /\ fr[n].phase >= 2 /\ g[n].buffer = fr[n].buffer
      /\ c = fr[n].values[1] /\ (g[n].phase = 3 => fr[n].phase = 3)
  OBVIOUS
<1>3. /\ c \in Live(h) /\ h[c].kind \in {"code", "native", "def"}
      /\ h[c].arity = g[n].buffer.count /\ (g[n].phase = 3 => h[c].kind = "code")
  BY <1>1, <1>2 DEF CalleesOK
<1>4. c \in ObjectIds
  BY <1>3 DEF Live
<1>5. Occurrences(ScratchOf(g), c) > 0 /\ Occurrences(ScratchOf(g), c) \in Nat
  <2> DEFINE S == ScratchOf(g)
             p == <<n, 1>>
  <2>1. IsFiniteSet(DOMAIN S) /\ p \in DOMAIN S /\ S[p] = c
    <3>1. 1 \in 1 .. 3
      OBVIOUS
    <3>2. /\ IsFiniteSet(DOMAIN S)
          /\ \A m \in 1 .. Len(g), k \in 1 .. 3 :
               <<m, k>> \in DOMAIN S /\ S[<<m, k>>] = g[m].values[k]
      BY ScratchFields
    <3> HIDE DEF S
    <3> QED
      BY <3>1, <3>2
  <2> HIDE DEF S, p, c
  <2> QED
    BY <2>1, OccZero, OccType DEF S
<1>6. X[c] > 0
  <2>1. X[c] \in Nat /\ Occurrences(ScratchOf(g), c) <= X[c]
    BY <1>4 DEF Counts
  <2> QED
    BY <1>5, <2>1
<1> HIDE DEF c
<1>7. c \in Live(e)
  BY <1>4, <1>6, HeldLives
<1>8. e[c].kind = h[c].kind /\ e[c].arity = h[c].arity
  BY <1>3, <1>7 DEF KindsKept
<1> QED
  BY <1>3, <1>7, <1>8 DEF c

(* frothy_eval_complete_value keeps the invariant.                         *)
LEMMA CompleteInv ==
  ASSUME Inv, running, ~stale, frames # <<>>,
         NEW h, NEW a \in Arenas, NEW f, NEW v \in Values, Complete(h, a, f, v),
         slots' \in Tables, interrupted' \in BOOLEAN,
         f.out = Top.out, f.buffer = Top.buffer, f.values \in [1 .. 3 -> Values],
         \A i \in 1 .. ArenaLimit : a[i] # arena[i] => i \in Cells(Top.locals),
         HeapOK(h), KindsKept(h, heap), NEW Y \in Counts, Exact(h, Y),
         \A o \in ObjectIds : Y[o] + Is(Out(Top), o)
           = External(slots', result, Front(frames), a)[o] + Occurrences(f.values, o) + Is(v, o)
  PROVE  Inv'
<1> DEFINE out == Top.out
           b == Top.buffer
           w == f.values
<1>1. /\ StackOK(frames, arena, used, rootLocals, result) /\ CalleesOK(frames, heap)
      /\ frames \in Seq(Frames) /\ running \in BOOLEAN
  BY InvRuns
<1>2. /\ Len(frames) > 0 /\ out = frames[Len(frames)].out /\ b = frames[Len(frames)].buffer
      /\ Top = frames[Len(frames)] /\ Out(Top) = At(frames, arena, result, out)
  BY TopRuns
<1>3. /\ heap' = Release(Release(h, w), RegionOf(arena, b))
      /\ frames' = Deliver(frames, out, v)
      /\ arena' = DeliverArena(a, b, out, v)
      /\ used' = UsedBelow(b, used)
      /\ result' = DeliverResult(result, out, v)
      /\ rootLocals' = rootLocals /\ running' = running /\ stale' = stale
  BY DEF Complete, Cleanup, Region, RegionOf, Deliver, DeliverArena, UsedAfter, UsedBelow,
         DeliverResult
<1>4. \A i \in 1 .. ArenaLimit : a[i] # arena[i] => i \in Cells(frames[Len(frames)].locals)
  BY <1>2
<1>5. \A o \in ObjectIds : Y[o] + Is(At(frames, arena, result, out), o)
           = External(slots', result, Front(frames), a)[o] + Occurrences(w, o) + Is(v, o)
  BY <1>2
<1>6. w \in [1 .. 3 -> Values]
  OBVIOUS
<1>7. a \in [1 .. ArenaLimit -> Values]
  BY DEF Arenas
<1> HIDE DEF out, b, w
<1>8. StackOK(frames', arena', used', rootLocals', result')
  <2>1. StackOK(Deliver(frames, out, v), DeliverArena(a, b, out, v), UsedBelow(b, used),
                rootLocals, DeliverResult(result, out, v))
    BY <1>1, <1>2, <1>4, <1>7, PopStack
  <2> QED
    BY <1>3, <2>1
<1>9. /\ HeapOK(heap') /\ Kept(heap', h)
      /\ Exact(heap', External(slots', result', frames', arena'))
  <2> DEFINE sl == slots'
  <2>1. sl \in Tables /\ \A o \in ObjectIds : Y[o] + Is(At(frames, arena, result, out), o)
           = External(sl, result, Front(frames), a)[o] + Occurrences(w, o) + Is(v, o)
    BY <1>5
  <2> HIDE DEF sl
  <2>2. LET g == Release(Release(h, w), RegionOf(arena, b))
        IN  /\ HeapOK(g) /\ Kept(g, h)
            /\ Exact(g, External(sl, DeliverResult(result, out, v), Deliver(frames, out, v),
                                  DeliverArena(a, b, out, v)))
    BY <1>1, <1>2, <1>4, <1>6, <2>1, CompleteExact
  <2> QED
    BY <1>3, <2>2 DEF sl
<1>10. /\ frames' \in Seq(Frames) /\ arena' \in Arenas /\ result' \in Values
  BY <1>8, StackTypes DEF StackOK, ArenaOK, Arenas
<1>11. CalleesOK(frames', heap')
  <2>1. KindsKept(heap', heap)
    BY <1>9 DEF KindsKept, Kept
  <2>2. External(slots', result', frames', arena') \in Counts
    BY <1>10, ExternalFields
  <2>3. ASSUME NEW o \in ObjectIds
        PROVE  Occurrences(ScratchOf(frames'), o) <= External(slots', result', frames', arena')[o]
    <3>1. /\ Occurrences(slots', o) \in Nat /\ Is(result', o) \in Nat
          /\ Occurrences(ScratchOf(frames'), o) \in Nat /\ Occurrences(arena', o) \in Nat
          /\ External(slots', result', frames', arena')[o] = Occurrences(slots', o) + Is(result', o)
              + Occurrences(ScratchOf(frames'), o) + Occurrences(arena', o)
      BY <1>10, ExternalAt
    <3> QED
      BY <3>1
  <2>4. /\ out \in Outs
        /\ out[1] = "scratch" => out[2] \in 1 .. Len(frames) - 1 /\ out[3] = frames[out[2]].phase
    BY <1>1, <1>2, TopOut
  <2>5. /\ Len(frames') = Len(frames) - 1 /\ Len(frames) \in Nat
        /\ \A m \in 1 .. Len(frames) - 1 :
                  /\ SameShape(frames'[m], frames[m])
                  /\ \A k \in 1 .. 3 :
                       frames'[m].values[k] = IF out[1] = "scratch" /\ out[2] = m /\ out[3] = k
                                          THEN v ELSE frames[m].values[k]
    <3>1. LET g == Deliver(frames, out, v)
          IN  /\ Len(g) = Len(frames) - 1
              /\ \A m \in 1 .. Len(frames) - 1 :
                  /\ SameShape(g[m], frames[m])
                  /\ \A k \in 1 .. 3 :
                       g[m].values[k] = IF out[1] = "scratch" /\ out[2] = m /\ out[3] = k
                                          THEN v ELSE frames[m].values[k]
      BY <1>1, <1>2, <2>4, DeliverFrames
    <3> QED
      BY <1>1, <1>3, <3>1, SMTT(40)
  <2>6. ASSUME NEW n \in 1 .. Len(frames'), frames'[n].kind = "call", frames'[n].phase >= 2
        PROVE  /\ frames[n].kind = "call" /\ frames[n].phase >= 2
               /\ frames'[n].buffer = frames[n].buffer
               /\ frames'[n].values[1] = frames[n].values[1]
               /\ (frames'[n].phase = 3 => frames[n].phase = 3)
    <3>1. SameShape(frames'[n], frames[n]) /\ n \in 1 .. Len(frames) - 1
      BY <2>5, <2>6
    <3>2. /\ frames[n].kind = "call" /\ frames[n].phase >= 2
          /\ frames'[n].buffer = frames[n].buffer
          /\ (frames'[n].phase = 3 => frames[n].phase = 3)
      BY <2>6, <3>1 DEF SameShape
    <3>3. ~(out[1] = "scratch" /\ out[2] = n /\ out[3] = 1)
      BY <2>4, <3>2
    <3>4. 1 \in 1 .. 3
      OBVIOUS
    <3>5. frames'[n].values[1] = frames[n].values[1]
      BY <2>5, <3>1, <3>3, <3>4
    <3> QED
      BY <3>2, <3>5
  <2>7. Len(frames') <= Len(frames)
    BY <2>5
  <2> DEFINE e == heap'
             g == frames'
             X == External(slots', result', frames', arena')
  <2>8. /\ CalleesOK(frames, heap) /\ X \in Counts /\ Exact(e, X)
        /\ KindsKept(e, heap) /\ g \in Seq(Frames) /\ Len(g) <= Len(frames)
        /\ \A o \in ObjectIds : Occurrences(ScratchOf(g), o) <= X[o]
    BY <1>1, <1>9, <1>10, <2>1, <2>2, <2>3, <2>7
  <2>9. \A n \in 1 .. Len(g) :
           g[n].kind = "call" /\ g[n].phase >= 2 =>
             /\ frames[n].kind = "call" /\ frames[n].phase >= 2 /\ g[n].buffer = frames[n].buffer
             /\ g[n].values[1] = frames[n].values[1] /\ (g[n].phase = 3 => frames[n].phase = 3)
    BY <2>6
  <2> HIDE DEF e, g, X
  <2>10. CalleesOK(g, e)
    BY <1>1, <2>8, <2>9, CalleesStay
  <2> QED
    BY <2>10 DEF g, e
<1>12. heap' \in [ObjectIds -> Objects]
  BY <1>9 DEF HeapOK
<1>13. running' \in BOOLEAN /\ ~(running' = FALSE) /\ stale' = FALSE
  <2>1. stale \in BOOLEAN
    BY DEF Inv, TypeOK
  <2> QED
    BY <1>1, <1>3, <2>1
<1> QED
  BY <1>8, <1>9, <1>11, <1>12, <1>13, InvNext

(* Between programs there are no frames.                                   *)
LEMMA EmptyStack ==
  ASSUME NEW res \in Values, NEW h
  PROVE  StackOK(<<>>, EmptyArena, 0, NoBuffer, res) /\ CalleesOK(<<>>, h)
<1> DEFINE e == <<>>
<1>1. e \in Seq(Frames) /\ Len(e) = 0 /\ 1 .. Len(e) = {} /\ 2 .. Len(e) = {} /\ 0 .. Len(e) = {0}
  OBVIOUS
<1>2. NoBuffer \in Buffers /\ Cells(NoBuffer) = {} /\ 0 \in 0 .. ArenaLimit /\ ArenaLimit \in Nat
      /\ 1 .. 0 = {}
  BY EvaluatorAssumption DEF NoBuffer, Buffers, Cells
<1> HIDE DEF e
<1>3. FramesOK(e)
  BY <1>1, EvaluatorAssumption DEF FramesOK
<1>4. Buf(e, NoBuffer, 0) = NoBuffer
  BY DEF Buf
<1>5. Stacked(e, 0, NoBuffer)
  BY <1>1, <1>2, <1>4 DEF Stacked
<1>6. EmptyArena \in [1 .. ArenaLimit -> Values] /\ \A i \in 1 .. ArenaLimit : EmptyArena[i] = Imm
  BY DEF EmptyArena, Values
<1>7. ArenaOK(e, EmptyArena, 0)
  BY <1>1, <1>6 DEF ArenaOK
<1>8. OutsOK(e) /\ Distinct(e) /\ FreeOuts(e, EmptyArena, res) /\ LocalsOK(e, 0)
  BY <1>1 DEF OutsOK, Distinct, FreeOuts, LocalsOK
<1>9. CalleesOK(e, h)
  BY <1>1 DEF CalleesOK
<1> QED
  BY <1>3, <1>5, <1>7, <1>8, <1>9 DEF StackOK, e

(* Only the slots and the result are counted then.                         *)
LEMMA ExternalNone ==
  ASSUME NEW sl \in Tables, NEW res, NEW o \in ObjectIds
  PROVE  /\ External(sl, res, <<>>, EmptyArena)[o] = Occurrences(sl, o) + Is(res, o)
         /\ ExternalStale(sl, res)[o] = Occurrences(sl, o) + Is(res, o)
         /\ Occurrences(sl, o) \in Nat /\ Is(res, o) \in Nat
<1>1. Occurrences(EmptyArena, o) = 0 /\ EmptyArena \in Arenas
  BY ArenaNone
<1> DEFINE e == <<>>
<1>2. e \in Seq(Frames) /\ Occurrences(ScratchOf(e), o) = 0
  BY ScratchNone
<1> HIDE DEF e
<1>3. /\ Occurrences(sl, o) \in Nat /\ Is(res, o) \in Nat
      /\ External(sl, res, e, EmptyArena)[o] = Occurrences(sl, o) + Is(res, o)
              + Occurrences(ScratchOf(e), o) + Occurrences(EmptyArena, o)
  BY <1>1, <1>2, ExternalAt
<1>4. ExternalStale(sl, res)[o] = Occurrences(sl, o) + Is(res, o)
  BY DEF ExternalStale
<1>5. External(sl, res, e, EmptyArena)[o] = Occurrences(sl, o) + Is(res, o)
  BY <1>1, <1>2, <1>3
<1> QED
  BY <1>3, <1>4, <1>5 DEF e

(* What is owned is what the frames hold and what the arena does: outside  *)
(* of the buffers the arena is empty.                                      *)
LEMMA OwnedAll ==
  ASSUME Inv, ~stale, NEW o \in ObjectIds
  PROVE  /\ IsFiniteSet(DOMAIN Owned)
         /\ Occurrences(Owned, o) = Occurrences(ScratchOf(frames), o) + Occurrences(arena, o)
<1> DEFINE U == UNION {Cells(BufferOf(n)) : n \in 0 .. Depth}
           F == ScratchOf(frames)
           S == {p \in DOMAIN F : F[p] = o}
           A == {i \in DOMAIN arena : arena[i] = o}
<1>1. /\ StackOK(frames, arena, used, rootLocals, result)
      /\ frames \in Seq(Frames) /\ arena \in Arenas
  BY InvRuns
<1>2. \A n \in 0 .. Depth : BufferOf(n) = Buf(frames, rootLocals, n)
  BY DEF BufferOf, Buf
<1>3. /\ \A n \in 0 .. Depth : \A i \in Cells(Buf(frames, rootLocals, n)) : i \in 1 .. used
      /\ \A i \in 1 .. used : \E n \in 0 .. Depth : i \in Cells(Buf(frames, rootLocals, n))
  BY <1>1 DEF StackOK, Stacked, Depth
<1>4. U = 1 .. used
  <2>1. ASSUME NEW i \in U PROVE i \in 1 .. used
    BY <1>2, <1>3
  <2>2. ASSUME NEW i \in 1 .. used PROVE i \in U
    <3>1. PICK n \in 0 .. Depth : i \in Cells(Buf(frames, rootLocals, n))
      BY <1>3
    <3> QED
      BY <1>2, <3>1
  <2> HIDE DEF U
  <2> QED
    BY <2>1, <2>2
<1>5. /\ DOMAIN F = (1 .. Depth) \X (1 .. 3) /\ IsFiniteSet(DOMAIN F)
      /\ \A p \in DOMAIN F : F[p] = frames[p[1]].values[p[2]]
      /\ \A p \in DOMAIN F : p[1] # 0
  <2>1. DOMAIN F = (1 .. Depth) \X (1 .. 3) /\ IsFiniteSet(DOMAIN F)
    BY <1>1, ScratchFields DEF Depth
  <2>2. \A p \in (1 .. Depth) \X (1 .. 3) : F[p] = frames[p[1]].values[p[2]]
    BY DEF Depth, ScratchOf
  <2>3. Depth \in Nat
    BY <1>1 DEF Depth
  <2>4. \A p \in (1 .. Depth) \X (1 .. 3) : p[1] # 0
    BY <2>3
  <2> HIDE DEF F
  <2> QED
    BY <2>1, <2>2, <2>4
<1>6. /\ DOMAIN Owned = DOMAIN F \cup ({0} \X (1 .. used))
      /\ \A p \in DOMAIN Owned :
           Owned[p] = IF p[1] = 0 THEN arena[p[2]] ELSE frames[p[1]].values[p[2]]
  BY <1>4, <1>5 DEF Owned, ScratchPlaces, BufferPlaces
<1>7. /\ used \in Nat /\ used <= ArenaLimit /\ ArenaLimit \in Nat
  BY <1>1, StackTypes
<1>8. DOMAIN arena = 1 .. ArenaLimit /\ \A i \in 1 .. ArenaLimit : i > used => arena[i] = Imm
  BY <1>1 DEF StackOK, ArenaOK
<1>9. IsFiniteSet(1 .. used) /\ IsFiniteSet(DOMAIN arena) /\ IsFiniteSet({0})
      /\ Cardinality({0}) = 1
  <2>1. 1 \in Int /\ used \in Int /\ ArenaLimit \in Int
    BY <1>7
  <2>2. IsFiniteSet(1 .. used) /\ IsFiniteSet(1 .. ArenaLimit)
    BY <2>1, FS_Interval
  <2>3. IsFiniteSet({0}) /\ Cardinality({0}) = 1
    BY FS_Singleton
  <2> QED
    BY <1>8, <2>2, <2>3
<1>10. IsFiniteSet(DOMAIN Owned)
  <2>1. IsFiniteSet({0} \X (1 .. used))
    BY <1>9, FS_Product
  <2> HIDE DEF F
  <2>2. IsFiniteSet(DOMAIN F \cup ({0} \X (1 .. used)))
    BY <1>5, <2>1, FS_Union
  <2> QED
    BY <1>6, <2>2
<1>11. A \subseteq 1 .. used
  <2>1. o # Imm
    BY IsNotImm
  <2> QED
    BY <1>7, <1>8, <2>1
<1>12. {p \in DOMAIN Owned : Owned[p] = o} = S \cup ({0} \X A)
  <2> HIDE DEF F
  <2>1. ASSUME NEW p \in DOMAIN Owned, Owned[p] = o PROVE p \in S \cup ({0} \X A)
    <3>1. CASE p \in DOMAIN F
      BY <1>5, <1>6, <2>1, <3>1
    <3>2. CASE p \in {0} \X (1 .. used)
      <4>1. p[1] = 0 /\ p[2] \in 1 .. used /\ p = <<p[1], p[2]>> /\ arena[p[2]] = o
        BY <1>6, <2>1, <3>2
      <4>2. p[2] \in A
        BY <1>7, <1>8, <4>1
      <4> QED
        BY <4>1, <4>2
    <3> QED
      BY <1>6, <3>1, <3>2
  <2>2. ASSUME NEW p \in S PROVE p \in DOMAIN Owned /\ Owned[p] = o
    BY <1>5, <1>6
  <2>3. ASSUME NEW p \in {0} \X A PROVE p \in DOMAIN Owned /\ Owned[p] = o
    BY <1>6, <1>11
  <2> HIDE DEF S, A
  <2> QED
    BY <2>1, <2>2, <2>3
<1>13. IsFiniteSet(A) /\ Cardinality(A) \in Nat /\ IsFiniteSet(S)
  <2>1. IsFiniteSet(A) /\ IsFiniteSet(S)
    <3>1. A \in SUBSET DOMAIN arena /\ S \in SUBSET DOMAIN F
      OBVIOUS
    <3> HIDE DEF A, S, F
    <3> QED
      BY <1>5, <1>9, <3>1, FS_Subset
  <2> QED
    BY <2>1, FS_CardinalityType
<1>14. IsFiniteSet({0} \X A) /\ Cardinality({0} \X A) = Cardinality(A)
  <2> HIDE DEF A
  <2>1. IsFiniteSet({0} \X A) /\ Cardinality({0} \X A) = Cardinality({0}) * Cardinality(A)
    BY <1>9, <1>13, FS_Product
  <2> QED
    BY <1>9, <1>13, <2>1
<1>15. S \cap ({0} \X A) = {}
  BY <1>5
<1>16. Occurrences(Owned, o) = Cardinality(S) + Cardinality(A)
  <2> HIDE DEF S, A
  <2>1. Cardinality(S \cup ({0} \X A)) = Cardinality(S) + Cardinality({0} \X A)
    BY <1>13, <1>14, <1>15, DisjointSum
  <2> QED
    BY <1>12, <1>14, <2>1 DEF Occurrences
<1> QED
  BY <1>10, <1>16 DEF Occurrences

(* frothy_eval_exec_cleanup keeps the invariant, after a reset too.        *)
LEMMA FailInv ==
  ASSUME Inv, Fail(heap), slots' = slots, interrupted' \in BOOLEAN,
         ~stale => result = Imm
  PROVE  Inv'
<1>1. /\ frames' = <<>> /\ arena' = EmptyArena /\ used' = 0 /\ rootLocals' = NoBuffer
      /\ result' = Imm /\ running' = FALSE /\ stale' = FALSE
  BY DEF Fail
<1>2. StackOK(frames', arena', used', rootLocals', result') /\ CalleesOK(frames', heap')
  <2>1. Imm \in Values
    BY DEF Values
  <2> QED
    BY <1>1, <2>1, EmptyStack
<1>3. slots \in Tables /\ HeapOK(heap) /\ slots' \in Tables
  BY DEF Inv, TypeOK, Tables
<1> DEFINE Z == External(slots, Imm, <<>>, EmptyArena)
<1>4. \A o \in ObjectIds : Z[o] = Occurrences(slots, o) + Is(Imm, o)
                           /\ ExternalStale(slots, Imm)[o] = Z[o]
                           /\ Occurrences(slots, o) \in Nat /\ Is(Imm, o) \in Nat
  BY <1>3, ExternalNone
<1> HIDE DEF Z
<1>5. HeapOK(heap') /\ Exact(heap', Z)
  <2>1. CASE stale
    <3>1. heap' = heap /\ Exact(heap, ExternalStale(slots, Imm))
      BY <2>1 DEF Fail, Inv
    <3>2. Exact(heap, Z)
      BY <1>4, <3>1, ExactSame
    <3> QED
      BY <1>3, <3>1, <3>2
  <2>2. CASE ~stale
    <3> DEFINE W == Owned
               X == External(slots, result, frames, arena)
    <3>1. heap' = Release(heap, W)
      BY <2>2 DEF Fail
    <3>2. /\ HeapOK(heap) /\ X \in Counts /\ Exact(heap, X) /\ frames \in Seq(Frames)
          /\ arena \in Arenas
      BY <2>2, InvRuns
    <3>3. IsFiniteSet(DOMAIN W)
      <4>1. 1 \in ObjectIds
        BY EvaluatorAssumption DEF ObjectIds
      <4> QED
        BY <2>2, <4>1, OwnedAll
    <3>4. ASSUME NEW o \in ObjectIds
          PROVE  /\ Occurrences(W, o) \in Nat
                 /\ X[o] = Z[o] + Occurrences(W, o) /\ Z[o] \in Nat
      <4>1. Occurrences(W, o) = Occurrences(ScratchOf(frames), o) + Occurrences(arena, o)
        BY <2>2, OwnedAll
      <4>2. /\ Occurrences(slots, o) \in Nat /\ Is(result, o) \in Nat
            /\ Occurrences(ScratchOf(frames), o) \in Nat /\ Occurrences(arena, o) \in Nat
            /\ X[o] = Occurrences(slots, o) + Is(result, o)
              + Occurrences(ScratchOf(frames), o) + Occurrences(arena, o)
        BY <1>3, <3>2, ExternalAt
      <4>3. Z[o] = Occurrences(slots, o) + Is(result, o)
        BY <1>4, <2>2
      <4> HIDE DEF X, W
      <4> QED
        BY <4>1, <4>2, <4>3
    <3> HIDE DEF W, X
    <3>5. \A o \in ObjectIds : Occurrences(W, o) <= X[o]
      BY <3>4
    <3>6. HeapOK(Release(heap, W)) /\ Exact(Release(heap, W), Less(X, W))
      BY <3>2, <3>3, <3>5, ReleaseExact
    <3>7. \A o \in ObjectIds : Z[o] = Less(X, W)[o]
      <4>1. \A o \in ObjectIds : Less(X, W)[o] = X[o] - Occurrences(W, o)
        BY DEF Less
      <4> QED
        BY <3>4, <4>1
    <3> QED
      BY <3>1, <3>6, <3>7, ExactSame
  <2> QED
    BY <2>1, <2>2
<1>6. Exact(heap', External(slots', result', frames', arena'))
  BY <1>1, <1>5 DEF Z
<1>7. heap' \in [ObjectIds -> Objects]
  BY <1>5 DEF HeapOK
<1> QED
  BY <1>1, <1>2, <1>3, <1>5, <1>6, <1>7, InvNext

(* The callee of one frame.                                                *)
CalleeOK(f, h) ==
  f.kind = "call" /\ f.phase >= 2 =>
    /\ f.values[1] \in Live(h)
    /\ h[f.values[1]].kind \in {"code", "native", "def"}
    /\ h[f.values[1]].arity = f.buffer.count
    /\ f.phase = 3 => h[f.values[1]].kind = "code"

(* Another frame on top leaves the callees of the others alone.            *)
LEMMA TopCallee ==
  ASSUME NEW fr \in Seq(Frames), Len(fr) > 0, NEW f \in Frames, NEW h,
         CalleesOK(fr, h), CalleeOK(f, h)
  PROVE  /\ CalleesOK([fr EXCEPT ![Len(fr)] = f], h)
         /\ CalleeOK(fr[Len(fr)], h)
<1> DEFINE g == [fr EXCEPT ![Len(fr)] = f]
<1>1. Len(g) = Len(fr) /\ Len(fr) \in 1 .. Len(fr) /\ g[Len(fr)] = f
      /\ \A n \in 1 .. Len(fr) : n # Len(fr) => g[n] = fr[n]
  OBVIOUS
<1>2. \A n \in 1 .. Len(fr) : CalleeOK(fr[n], h)
  BY DEF CalleesOK, CalleeOK
<1> HIDE DEF g
<1>3. \A n \in 1 .. Len(g) : CalleeOK(g[n], h)
  BY <1>1, <1>2
<1>4. CalleesOK(g, h)
  BY <1>3 DEF CalleesOK, CalleeOK
<1> QED
  BY <1>1, <1>2, <1>4 DEF g

(* Pushing a child keeps the invariant.                                    *)
LEMMA PushInv ==
  ASSUME Inv, running, ~stale, frames # <<>>, slots' = slots, interrupted' \in BOOLEAN,
         ~Passing(Top), NEW f, FrameOK(f),
         f.values = Top.values, f.out = Top.out, f.locals = Top.locals, f.buffer = Top.buffer,
         ArgPhase(f) =>
           \A i \in Cells(f.buffer) : i > f.buffer.base + f.index => arena[i] = Imm,
         CalleeOK(f, heap),
         NEW locals, NEW out,
         \/ locals = f.locals
         \/ locals = f.buffer /\ ~ArgPhase(f),
         \/ /\ out = <<"scratch", Depth, f.phase>> /\ f.phase \in 1 .. 3
            /\ f.values[f.phase] = Imm
         \/ /\ out = <<"arena", f.buffer.base + f.index, 0>> /\ ArgPhase(f) /\ f.index > 0
            /\ arena[f.buffer.base + f.index] = Imm
         \/ out = f.out /\ Passing(f),
         PushChild(f, locals, out)
  PROVE  Inv'
<1>1. /\ StackOK(frames, arena, used, rootLocals, result) /\ CalleesOK(frames, heap)
      /\ frames \in Seq(Frames) /\ running \in BOOLEAN /\ HeapOK(heap) /\ slots \in Tables
      /\ heap \in [ObjectIds -> Objects] /\ arena \in Arenas
      /\ Exact(heap, External(slots, result, frames, arena))
  BY InvRuns
<1>2. /\ Depth \in 1 .. Depth /\ Depth = Len(frames) /\ Len(frames) > 0
      /\ Top = frames[Len(frames)] /\ result = Imm
      /\ At(frames, arena, result, Top.out) = Imm
      /\ Depth \in Nat
  BY TopRuns
<1>3. CASE Depth = FrameCapacity /\ Fail(heap)
  BY <1>2, <1>3, FailInv
<1>4. CASE /\ Depth < FrameCapacity
           /\ frames' = Append([frames EXCEPT ![Depth] = f], NewFrame(locals, out))
           /\ UNCHANGED <<heap, arena, used, rootLocals, result, running, stale>>
  <2> DEFINE g == [frames EXCEPT ![Len(frames)] = f]
             c == NewFrame(locals, out)
             q == Append(g, c)
  <2>1. frames' = q
    BY <1>2, <1>4
  <2>2. f \in Frames
    BY DEF FrameOK
  <2>3. /\ g \in Seq(Frames) /\ Len(g) = Len(frames) /\ g[Len(frames)] = f
        /\ \A m \in 1 .. Len(frames) : m # Len(frames) => g[m] = frames[m]
    BY <1>1, <1>2, <2>2
  <2>4. StackOK(g, arena, used, rootLocals, result)
    <3>1. used \in 0 .. ArenaLimit
      BY <1>1 DEF StackOK, Stacked
    <3> QED
      BY <1>1, <1>2, <3>1, TopStack
  <2>5. out = f.out => At(g, arena, result, out) = Imm
    <3>1. ASSUME out = f.out PROVE At(g, arena, result, out) = Imm
      <4>1. out[1] = "scratch" => out[2] \in 1 .. Len(frames) - 1
        BY <1>1, <1>2, <3>1, TopOut
      <4>2. out[1] = "scratch" => g[out[2]] = frames[out[2]]
        BY <1>2, <2>3, <4>1
      <4>3. At(g, arena, result, out) = At(frames, arena, result, out)
        <5>1. CASE out[1] = "scratch"
          BY <4>2, <5>1 DEF At
        <5>2. CASE out[1] # "scratch"
          <6>1. out \in Outs
            BY <2>2, <3>1, FrameFields
          <6>2. out[1] \in {"result", "arena", "scratch"}
            BY <6>1, OutFields
          <6> QED
            BY <5>2, <6>2 DEF At
        <5> QED
          BY <5>1, <5>2
      <4> QED
        BY <1>2, <3>1, <4>3
    <3> QED
      BY <3>1
  <2>6. CalleesOK(g, heap)
    BY <1>1, <1>2, <2>2, TopCallee
  <2>7. ScratchOf(g) = ScratchOf(frames)
    <3>1. \A m \in 1 .. Len(frames) : g[m].values = frames[m].values
      BY <1>2, <2>3
    <3>2. \A p \in (1 .. Len(frames)) \X (1 .. 3) :
            g[p[1]].values[p[2]] = frames[p[1]].values[p[2]]
      BY <3>1
    <3>3. Len(g) = Len(frames)
      BY <2>3
    <3> HIDE DEF g
    <3> QED
      BY <3>2, <3>3 DEF ScratchOf
  <2> HIDE DEF g
  <2>8. Len(g) < FrameCapacity /\ Len(g) > 0 /\ f = g[Len(g)] /\ Depth = Len(g)
    BY <1>2, <1>4, <2>3
  <2>9. StackOK(q, arena, used, rootLocals, result)
    <3>1. \/ /\ out = <<"scratch", Len(g), f.phase>> /\ f.phase \in 1 .. 3
             /\ f.values[f.phase] = Imm
          \/ /\ out = <<"arena", f.buffer.base + f.index, 0>> /\ ArgPhase(f) /\ f.index > 0
             /\ arena[f.buffer.base + f.index] = Imm
          \/ out = f.out /\ Passing(f) /\ At(g, arena, result, out) = Imm
      BY <2>5, <2>8
    <3> QED
      BY <1>2, <2>4, <2>8, <3>1, PushStack
  <2>10. q \in Seq(Frames)
    BY <2>9, StackTypes
  <2>11. /\ Len(q) = Len(g) + 1 /\ q[Len(g) + 1] = c /\ Len(g) \in Nat
         /\ \A m \in 1 .. Len(g) : q[m] = g[m]
    <3>1. c \in Frames
      <4>1. q[Len(g) + 1] = c /\ Len(g) + 1 \in 1 .. Len(q)
        BY <2>3
      <4> QED
        BY <2>10, <4>1
    <3> HIDE DEF c
    <3> QED
      BY <2>3, <3>1
  <2>12. c.kind = "new" /\ c.values = <<Imm, Imm, Imm>>
    BY DEF NewFrame
  <2> HIDE DEF c, q
  <2>13. CalleesOK(q, heap)
    <3>1. \A n \in 1 .. Len(g) + 1 : n = Len(g) + 1 \/ n \in 1 .. Len(g)
      BY <2>11
    <3> QED
      BY <2>6, <2>11, <2>12, <3>1 DEF CalleesOK
  <2>14. ASSUME NEW o \in ObjectIds
         PROVE  Occurrences(ScratchOf(q), o) = Occurrences(ScratchOf(frames), o)
    <3>1. /\ Len(q) > 0 /\ Len(g) = Len(q) - 1
          /\ \A m \in 1 .. Len(q) - 1, k \in 1 .. 3 : g[m].values[k] = q[m].values[k]
      BY <2>11
    <3>2. Occurrences(ScratchOf(q), o)
            = Occurrences(ScratchOf(g), o) + Occurrences(q[Len(q)].values, o)
      BY <2>3, <2>10, <3>1, ScratchPop
    <3>3. q[Len(q)].values = <<Imm, Imm, Imm>>
      BY <2>11, <2>12
    <3> DEFINE w == <<Imm, Imm, Imm>>
    <3>4. DOMAIN w = 1 .. 3 /\ w[1] = Imm /\ w[2] = Imm /\ w[3] = Imm
      OBVIOUS
    <3> HIDE DEF w
    <3>5. Occurrences(w, o) = Is(w[1], o) + Is(w[2], o) + Is(w[3], o)
      BY <3>4, OccThree
    <3>6. Is(w[1], o) = 0 /\ Is(w[2], o) = 0 /\ Is(w[3], o) = 0
      BY <3>4, IsNotImm
    <3>7. Occurrences(w, o) = 0
      BY <3>5, <3>6
    <3>8. Occurrences(ScratchOf(frames), o) \in Nat
      BY <1>1, ExternalAt
    <3> QED
      BY <2>7, <3>2, <3>3, <3>7, <3>8 DEF w
  <2>15. \A o \in ObjectIds : External(slots, result, q, arena)[o]
                              = External(slots, result, frames, arena)[o]
    BY <2>14 DEF External
  <2>16. Exact(heap, External(slots, result, q, arena))
    BY <1>1, <2>15, ExactSame
  <2>17. running' \in BOOLEAN /\ ~(running' = FALSE) /\ stale' = FALSE
    <3>1. stale \in BOOLEAN
      BY DEF Inv, TypeOK
    <3> QED
      BY <1>1, <1>4, <3>1
  <2>18. /\ StackOK(frames', arena', used', rootLocals', result')
         /\ CalleesOK(frames', heap')
         /\ Exact(heap', External(slots', result', frames', arena'))
         /\ heap' \in [ObjectIds -> Objects] /\ HeapOK(heap') /\ slots' \in Tables
    BY <1>1, <1>4, <2>1, <2>9, <2>13, <2>16
  <2> QED
    BY <2>17, <2>18, InvNext
<1> QED
  BY <1>3, <1>4 DEF PushChild

(* A step of the loop.                                                     *)
LEMMA EvalRuns ==
  ASSUME Inv, NEW kind, NEW phase, Eval(kind, phase)
  PROVE  /\ running /\ ~stale /\ frames # <<>> /\ Top.kind = kind /\ Top.phase = phase
         /\ interrupted' \in BOOLEAN /\ interrupted' = interrupted
BY DEF Eval, Inv, TypeOK

(* What the top frame holds counts.                                        *)
LEMMA TopExternal ==
  ASSUME NEW fr \in Seq(Frames), Len(fr) > 0, NEW sl \in Tables, NEW res,
         NEW ar \in Arenas, NEW o \in ObjectIds
  PROVE  /\ External(sl, res, fr, ar)[o]
              = External(sl, res, Front(fr), ar)[o] + Occurrences(fr[Len(fr)].values, o)
         /\ External(sl, res, Front(fr), ar)[o] \in Nat
         /\ Occurrences(fr[Len(fr)].values, o) \in Nat
         /\ External(sl, res, Front(fr), ar)[o]
              = Occurrences(sl, o) + Is(res, o) + Occurrences(ScratchOf(Front(fr)), o)
                + Occurrences(ar, o)
<1> DEFINE p == Front(fr)
           w == fr[Len(fr)].values
<1>1. /\ p \in Seq(Frames)
      /\ Occurrences(ScratchOf(fr), o) = Occurrences(ScratchOf(p), o) + Occurrences(w, o)
  BY FrontFields
<1> HIDE DEF p
<1>2. /\ Occurrences(sl, o) \in Nat /\ Is(res, o) \in Nat
      /\ Occurrences(ScratchOf(fr), o) \in Nat /\ Occurrences(ar, o) \in Nat
      /\ External(sl, res, fr, ar)[o] = Occurrences(sl, o) + Is(res, o)
              + Occurrences(ScratchOf(fr), o) + Occurrences(ar, o)
  BY ExternalAt
<1>3. /\ Occurrences(ScratchOf(p), o) \in Nat
      /\ External(sl, res, p, ar)[o] = Occurrences(sl, o) + Is(res, o)
              + Occurrences(ScratchOf(p), o) + Occurrences(ar, o)
  BY <1>1, ExternalAt
<1>4. Occurrences(w, o) \in Nat
  <2>1. Len(fr) \in 1 .. Len(fr)
    OBVIOUS
  <2>2. fr[Len(fr)] \in Frames
    BY <2>1
  <2>3. DOMAIN w = 1 .. 3 /\ 0 \in Nat
    BY <2>2, FrameFields
  <2>4. IsFiniteSet(DOMAIN w)
    BY <2>3, PlacesFinite
  <2> QED
    BY <2>4, OccType
<1> HIDE DEF w
<1>5. External(sl, res, fr, ar)[o] = External(sl, res, p, ar)[o] + Occurrences(w, o)
  BY <1>1, <1>2, <1>3, <1>4
<1>6. External(sl, res, p, ar)[o] \in Nat
  BY <1>2, <1>3
<1> QED
  BY <1>3, <1>4, <1>5, <1>6 DEF p, w

(* A node completes with a value that is counted once more.                *)
LEMMA CompleteTop ==
  ASSUME Inv, running, ~stale, frames # <<>>, ~Passing(Top), slots' = slots,
         interrupted' \in BOOLEAN, NEW h, NEW v \in Values, Complete(h, arena, Top, v),
         HeapOK(h), KindsKept(h, heap),
         Exact(h, More(External(slots, result, frames, arena), v))
  PROVE  Inv'
<1> DEFINE X == External(slots, result, frames, arena)
           Y == More(X, v)
<1>1. /\ frames \in Seq(Frames) /\ arena \in Arenas /\ slots \in Tables /\ X \in Counts
  BY InvRuns
<1>2. /\ Len(frames) > 0 /\ Top = frames[Len(frames)] /\ Out(Top) = Imm
      /\ Top.values \in [1 .. 3 -> Values]
  BY TopRuns
<1>3. Y \in Counts /\ \A o \in ObjectIds : Y[o] = X[o] + Is(v, o)
  BY <1>1, MoreType
<1>4. ASSUME NEW o \in ObjectIds
      PROVE  Y[o] + Is(Out(Top), o)
           = External(slots, result, Front(frames), arena)[o] + Occurrences(Top.values, o) + Is(v, o)
  <2>1. /\ X[o] = External(slots, result, Front(frames), arena)[o] + Occurrences(Top.values, o)
        /\ External(slots, result, Front(frames), arena)[o] \in Nat
        /\ Occurrences(Top.values, o) \in Nat
    BY <1>1, <1>2, TopExternal
  <2>2. Is(Out(Top), o) = 0 /\ Is(v, o) \in Nat
    BY <1>2, IsNotImm
  <2>3. Y[o] = X[o] + Is(v, o)
    BY <1>3
  <2> DEFINE x == X[o]
             y == Y[o]
             e == External(slots, result, Front(frames), arena)[o]
             w == Occurrences(Top.values, o)
             i == Is(v, o)
             j == Is(Out(Top), o)
  <2>4. x = e + w /\ e \in Nat /\ w \in Nat /\ j = 0 /\ i \in Nat /\ y = x + i
    BY <2>1, <2>2, <2>3
  <2> HIDE DEF x, y, e, w, i, j
  <2>5. y + j = e + w + i
    BY <2>4
  <2> QED
    BY <2>5 DEF y, e, w, i, j
<1>5. /\ slots' \in Tables /\ Exact(h, Y)
      /\ \A i \in 1 .. ArenaLimit : arena[i] # arena[i] => i \in Cells(Top.locals)
      /\ \A o \in ObjectIds : Y[o] + Is(Out(Top), o)
           = External(slots', result, Front(frames), arena)[o] + Occurrences(Top.values, o) + Is(v, o)
  BY <1>1, <1>4
<1> HIDE DEF Y, X
<1> QED
  BY <1>1, <1>2, <1>3, <1>5, CompleteInv

(* It completes with an immediate value, with one that is retained, or     *)
(* with a new object that holds no other.                                  *)
LEMMA CompleteImm ==
  ASSUME Inv, running, ~stale, frames # <<>>, ~Passing(Top), slots' = slots,
         interrupted' \in BOOLEAN, Complete(heap, arena, Top, Imm)
  PROVE  Inv'
<1> DEFINE X == External(slots, result, frames, arena)
<1>1. HeapOK(heap) /\ Exact(heap, X) /\ X \in Counts
  BY InvRuns
<1>2. KindsKept(heap, heap) /\ Imm \in Values
  BY DEF KindsKept, Values
<1>3. \A o \in ObjectIds : More(X, Imm)[o] = X[o]
  <2>1. \A o \in ObjectIds : More(X, Imm)[o] = X[o] + Is(Imm, o) /\ X[o] \in Nat
    BY <1>1, MoreType DEF Counts
  <2> QED
    BY <2>1, IsNotImm
<1>4. Exact(heap, More(X, Imm))
  BY <1>1, <1>3, ExactSame
<1> QED
  BY <1>1, <1>2, <1>4, CompleteTop

(* It completes with a value that stays where it is.                       *)
LEMMA CompleteRetained ==
  ASSUME Inv, running, ~stale, frames # <<>>, ~Passing(Top), slots' = slots,
         interrupted' \in BOOLEAN, NEW v \in Values, v \in ObjectIds => v \in Live(heap),
         Complete(Retain(heap, v), arena, Top, v)
  PROVE  Inv'
<1> DEFINE X == External(slots, result, frames, arena)
           h == Retain(heap, v)
<1>1. HeapOK(heap) /\ Exact(heap, X) /\ X \in Counts
  BY InvRuns
<1>2. HeapOK(h) /\ Exact(h, More(X, v)) /\ SameObjects(h, heap)
  BY <1>1, RetainExact
<1>3. KindsKept(h, heap)
  BY <1>2 DEF KindsKept, SameObjects, Live
<1>4. Complete(h, arena, Top, v)
  OBVIOUS
<1> HIDE DEF h
<1> QED
  BY <1>2, <1>3, <1>4, CompleteTop

(* It completes with a new object.                                         *)
LEMMA CompleteNew ==
  ASSUME Inv, running, ~stale, frames # <<>>, ~Passing(Top), slots' = slots,
         interrupted' \in BOOLEAN, CanAppend(heap),
         NEW kind \in ObjectKinds \ {"free"}, NEW arity \in 0 .. 1, kind = "def" => arity = 1,
         NEW kids \in Seq(Values), Len(kids) = KidsLen(kind),
         kids = <<>> \/ kids = <<Imm>>,
         Complete(Append1(heap, Object(kind, arity, kids)), arena, Top, Appended(heap))
  PROVE  Inv'
<1> DEFINE X == External(slots, result, frames, arena)
           h == Append1(heap, Object(kind, arity, kids))
           new == Appended(heap)
<1>1. HeapOK(heap) /\ Exact(heap, X) /\ X \in Counts
  BY InvRuns
<1>2. ASSUME NEW o \in ObjectIds
      PROVE  X[o] = X[o] + (IF Len(kids) = 0 THEN 0 ELSE Is(kids[1], o))
                       + (IF Len(kids) = 2 THEN Is(kids[2], o) ELSE 0)
  <2>1. X[o] \in Nat
    BY <1>1 DEF Counts
  <2>2. Is(Imm, o) = 0
    BY IsNotImm
  <2>3. Len(kids) = 0 \/ (Len(kids) = 1 /\ kids[1] = Imm)
    OBVIOUS
  <2>4. CASE Len(kids) = 0
    BY <2>1, <2>4
  <2>5. CASE Len(kids) = 1 /\ kids[1] = Imm
    BY <2>1, <2>2, <2>5
  <2> QED
    BY <2>3, <2>4, <2>5
<1>6. Moved(X, X, kids)
  BY <1>2 DEF Moved
<1> HIDE DEF X
<1>3. /\ HeapOK(h) /\ Exact(h, More(X, new)) /\ new \in ObjectIds /\ new \notin Live(heap)
      /\ \A o \in ObjectIds : o # new => h[o] = heap[o]
  BY <1>1, <1>6, AppendExact
<1>4. KindsKept(h, heap) /\ new \in Values
  BY <1>3 DEF KindsKept, Live, Values
<1>5. Complete(h, arena, Top, new)
  OBVIOUS
<1> HIDE DEF h, new
<1> QED
  BY <1>3, <1>4, <1>5, CompleteTop DEF X

----------------------------------------------------------------------------
(* 7. The steps.                                                           *)

(* What a place of the runtime holds is alive.                             *)
LEMMA Held ==
  ASSUME Inv, ~stale, NEW v \in ObjectIds,
         \/ \E s \in Slots : slots[s] = v
         \/ \E i \in 1 .. ArenaLimit : arena[i] = v
         \/ \E n \in 1 .. Depth : \E k \in 1 .. 3 : frames[n].values[k] = v
         \/ result = v
  PROVE  v \in Live(heap) /\ External(slots, result, frames, arena)[v] > 0
<1> DEFINE X == External(slots, result, frames, arena)
           S == ScratchOf(frames)
<1>1. /\ HeapOK(heap) /\ Exact(heap, X) /\ X \in Counts
      /\ frames \in Seq(Frames) /\ arena \in Arenas /\ slots \in Tables
  BY InvRuns
<1>2. /\ Occurrences(slots, v) \in Nat /\ Is(result, v) \in Nat
      /\ Occurrences(S, v) \in Nat /\ Occurrences(arena, v) \in Nat
      /\ X[v] = Occurrences(slots, v) + Is(result, v) + Occurrences(S, v) + Occurrences(arena, v)
  BY <1>1, ExternalAt
<1>3. 0 \in Nat /\ DOMAIN slots = Slots /\ DOMAIN arena = 1 .. ArenaLimit
  BY <1>1 DEF Tables, Arenas
<1>4. IsFiniteSet(DOMAIN slots) /\ IsFiniteSet(DOMAIN arena)
  BY <1>3, PlacesFinite
<1>5. /\ IsFiniteSet(DOMAIN S)
      /\ \A m \in 1 .. Depth, k \in 1 .. 3 : <<m, k>> \in DOMAIN S /\ S[<<m, k>>] = frames[m].values[k]
  BY <1>1, ScratchFields DEF Depth
<1> HIDE DEF X, S
<1>6. \/ Occurrences(slots, v) > 0 \/ Occurrences(arena, v) > 0 \/ Occurrences(S, v) > 0
      \/ Is(result, v) > 0
  <2>1. CASE \E s \in Slots : slots[s] = v
    BY <1>3, <1>4, <2>1, OccZero
  <2>2. CASE \E i \in 1 .. ArenaLimit : arena[i] = v
    BY <1>3, <1>4, <2>2, OccZero
  <2>3. CASE \E n \in 1 .. Depth : \E k \in 1 .. 3 : frames[n].values[k] = v
    <3>1. PICK n \in 1 .. Depth, k \in 1 .. 3 : frames[n].values[k] = v
      BY <2>3
    <3>2. <<n, k>> \in DOMAIN S /\ S[<<n, k>>] = v
      BY <1>5, <3>1
    <3> DEFINE p == <<n, k>>
    <3>3. p \in DOMAIN S /\ S[p] = v
      BY <3>2
    <3> HIDE DEF p
    <3> QED
      BY <1>5, <3>3, OccZero
  <2>4. CASE result = v
    BY <2>4 DEF Is
  <2> QED
    BY <2>1, <2>2, <2>3, <2>4
<1>7. X[v] > 0
  BY <1>2, <1>6
<1> QED
  BY <1>1, <1>7, HeldLives DEF X

(* A literal, a function or a record definition.                           *)
LEMMA MakeInv ==
  ASSUME Inv, Make
  PROVE  Inv'
<1>1. Eval("new", 0) /\ slots' = slots
  BY DEF Make
<1>2. /\ running /\ ~stale /\ frames # <<>> /\ Top.kind = "new" /\ interrupted' \in BOOLEAN
  BY <1>1, EvalRuns
<1>3. ~Passing(Top)
  BY <1>2 DEF Passing
<1>4. result = Imm
  BY <1>2, <1>3, TopRuns
<1>5. CASE Complete(heap, arena, Top, Imm)
  BY <1>1, <1>2, <1>3, <1>5, CompleteImm
<1>6. CASE /\ CanAppend(heap)
           /\ \E object \in {Object("text", 0, <<>>), Object("def", 1, <<>>),
                             Object("code", 1, <<>>)} :
                Complete(Append1(heap, object), arena, Top, Appended(heap))
  <2>1. PICK kind \in {"text", "def", "code"}, arity \in 0 .. 1 :
          (kind = "def" => arity = 1) /\ Complete(Append1(heap, Object(kind, arity, <<>>)), arena, Top, Appended(heap))
    BY <1>6
  <2> DEFINE kids == <<>>
  <2>2. kids \in Seq(Values) /\ kids = <<>> /\ Len(kids) = 0
    OBVIOUS
  <2>3. KidsLen(kind) = 0 /\ kind \in ObjectKinds \ {"free"}
    BY DEF KidsLen, ObjectKinds
  <2>4. Complete(Append1(heap, Object(kind, arity, kids)), arena, Top, Appended(heap))
    BY <2>1
  <2> HIDE DEF kids
  <2> QED
    BY <1>1, <1>2, <1>3, <1>6, <2>1, <2>2, <2>3, <2>4, CompleteNew
<1>7. CASE Fail(heap)
  BY <1>1, <1>2, <1>4, <1>7, FailInv
<1> QED
  BY <1>5, <1>6, <1>7 DEF Make

(* A local: its place in the arena is below used.                          *)
LEMMA ReadLocalInv ==
  ASSUME Inv, ReadLocal
  PROVE  Inv'
<1>1. Eval("new", 0) /\ slots' = slots
  BY DEF ReadLocal
<1>2. /\ running /\ ~stale /\ frames # <<>> /\ Top.kind = "new" /\ interrupted' \in BOOLEAN
  BY <1>1, EvalRuns
<1>3. ~Passing(Top)
  BY <1>2 DEF Passing
<1>4. PICK i \in 1 .. Top.locals.count :
        Complete(Retain(heap, arena[Top.locals.base + i]), arena, Top, arena[Top.locals.base + i])
  BY DEF ReadLocal
<1> DEFINE at == Top.locals.base + i
           v == arena[at]
<1>5. at \in 1 .. ArenaLimit
  <2>1. Top.locals \in Buffers /\ StackOK(frames, arena, used, rootLocals, result)
        /\ Len(frames) > 0 /\ Top = frames[Len(frames)]
    BY <1>2, TopRuns, InvRuns
  <2>2. Top.locals.base \in Nat /\ Top.locals.count \in Nat
    BY <2>1, EvaluatorAssumption DEF Buffers
  <2>3. at \in Cells(Top.locals)
    BY <2>2 DEF Cells
  <2>4. \A j \in Cells(Top.locals) : j \in 1 .. used
    BY <2>1, TopOut
  <2>5. 1 .. used \subseteq 1 .. ArenaLimit
    BY <2>1, TopOut
  <2> QED
    BY <2>3, <2>4, <2>5
<1>6. v \in Values
  BY <1>2, <1>5, InvRuns DEF Arenas
<1>7. v \in ObjectIds => v \in Live(heap)
  BY <1>2, <1>5, Held
<1>8. Complete(Retain(heap, v), arena, Top, v)
  BY <1>4
<1> HIDE DEF v, at
<1> QED
  BY <1>1, <1>2, <1>3, <1>6, <1>7, <1>8, CompleteRetained

(* A slot.                                                                 *)
LEMMA ReadSlotInv ==
  ASSUME Inv, ReadSlot
  PROVE  Inv'
<1>1. Eval("new", 0) /\ slots' = slots
  BY DEF ReadSlot
<1>2. /\ running /\ ~stale /\ frames # <<>> /\ Top.kind = "new" /\ interrupted' \in BOOLEAN
  BY <1>1, EvalRuns
<1>3. ~Passing(Top)
  BY <1>2 DEF Passing
<1>4. PICK s \in Slots :
        slots[s] # Unbound /\ Complete(Retain(heap, slots[s]), arena, Top, slots[s])
  BY DEF ReadSlot
<1> DEFINE v == slots[s]
<1>5. v \in Values
  BY <1>2, <1>4, InvRuns DEF Tables
<1>6. v \in ObjectIds => v \in Live(heap)
  BY <1>2, Held
<1>7. Complete(Retain(heap, v), arena, Top, v)
  BY <1>4
<1> HIDE DEF v
<1> QED
  BY <1>1, <1>2, <1>3, <1>5, <1>6, <1>7, CompleteRetained

(* A frame of another kind or in another phase.                            *)
LEMMA WithPhase ==
  ASSUME NEW f \in Frames, NEW phase \in 0 .. 3
  PROVE  LET g == [f EXCEPT !.phase = phase]
         IN  /\ g \in Frames /\ g.kind = f.kind /\ g.phase = phase /\ g.index = f.index
             /\ g.values = f.values /\ g.buffer = f.buffer /\ g.locals = f.locals /\ g.out = f.out
BY DEF Frames

(* Only the kind changes.                                                  *)
LEMMA WithKind ==
  ASSUME NEW f \in Frames, NEW kind \in FrameKinds
  PROVE  LET g == [f EXCEPT !.kind = kind]
         IN  /\ g \in Frames /\ g.kind = kind /\ g.phase = f.phase /\ g.index = f.index
             /\ g.values = f.values /\ g.buffer = f.buffer /\ g.locals = f.locals /\ g.out = f.out
BY DEF Frames

(* frothy_eval_push_scratch_child: the child delivers to the value of the  *)
(* phase the node enters.                                                  *)
LEMMA ScratchChildInv ==
  ASSUME Inv, running, ~stale, frames # <<>>, slots' = slots, interrupted' \in BOOLEAN,
         ~Passing(Top), Top.kind \notin {"call", "builtin"} \/ Top.phase < 2,
         NEW f \in Frames, Top.phase < f.phase, f.kind # "builtin", f.kind = "call" => f.phase = 1,
         f.kind = "while" /\ f.phase = 2 => f.values[1] = Imm,
         f.index = Top.index, f.values = Top.values, f.buffer = Top.buffer,
         f.locals = Top.locals, f.out = Top.out,
         PushChild(f, Top.locals, <<"scratch", Depth, f.phase>>)
  PROVE  Inv'
<1>1. FrameOK(Top) /\ Top.phase \in 0 .. 3 /\ f.phase \in 0 .. 3
  BY TopRuns, FrameFields
<1>2. f.phase \in 1 .. 3
  BY <1>1
<1>3. Top.index = 0 /\ Top.buffer = NoBuffer
  BY <1>1 DEF FrameOK
<1>4. \A k \in 1 .. 3 : k > Top.phase => Top.values[k] = Imm
  BY <1>1 DEF FrameOK
<1>5. \A k \in 1 .. 3 : k > f.phase => f.values[k] = Imm
  BY <1>1, <1>4
<1>6. f.index <= f.buffer.count
  BY <1>3 DEF NoBuffer
<1>7. FrameOK(f)
  BY <1>3, <1>5, <1>6 DEF FrameOK
<1>8. ~ArgPhase(f) /\ CalleeOK(f, heap)
  BY DEF ArgPhase, CalleeOK
<1>9. f.values[f.phase] = Imm
  BY <1>1, <1>2, <1>4
<1> DEFINE locals == Top.locals
           out == <<"scratch", Depth, f.phase>>
<1>10. /\ locals = f.locals
       /\ out = <<"scratch", Depth, f.phase>> /\ f.phase \in 1 .. 3 /\ f.values[f.phase] = Imm
       /\ PushChild(f, locals, out)
  BY <1>2, <1>9
<1> HIDE DEF locals, out
<1> QED
  BY <1>7, <1>8, <1>10, PushInv

(* The first child of a node delivers to the first scratch value.          *)
LEMMA StartInv ==
  ASSUME Inv, NEW kind \in FrameKinds \ {"new", "builtin"}, Start(kind)
  PROVE  Inv'
<1>1. Eval("new", 0) /\ slots' = slots /\ PushScratch([Top EXCEPT !.kind = kind], 1, 1)
  BY DEF Start
<1>2. /\ running /\ ~stale /\ frames # <<>> /\ Top.kind = "new" /\ Top.phase = 0
      /\ interrupted' \in BOOLEAN
  BY <1>1, EvalRuns
<1>3. ~Passing(Top) /\ Top \in Frames
  BY <1>2, TopRuns DEF Passing
<1> DEFINE e == [Top EXCEPT !.kind = kind]
           f == [e EXCEPT !.phase = 1]
<1>4. /\ e \in Frames /\ e.kind = kind /\ e.phase = 0 /\ e.index = Top.index
      /\ e.values = Top.values /\ e.buffer = Top.buffer /\ e.locals = Top.locals /\ e.out = Top.out
  BY <1>2, <1>3, WithKind
<1>5. PushChild(f, e.locals, <<"scratch", Depth, 1>>)
  BY <1>1 DEF PushScratch
<1>6. 1 \in 0 .. 3 /\ 0 < 1
  OBVIOUS
<1> HIDE DEF e
<1>7. /\ f \in Frames /\ f.kind = e.kind /\ f.phase = 1 /\ f.index = e.index
      /\ f.values = e.values /\ f.buffer = e.buffer /\ f.locals = e.locals /\ f.out = e.out
  BY <1>4, <1>6, WithPhase
<1> HIDE DEF f
<1>8. /\ Top.phase < f.phase /\ f.kind # "builtin" /\ (f.kind = "call" => f.phase = 1)
      /\ ~(f.kind = "while" /\ f.phase = 2)
      /\ PushChild(f, Top.locals, <<"scratch", Depth, f.phase>>)
  BY <1>2, <1>4, <1>5, <1>6, <1>7
<1>9. /\ f.index = Top.index /\ f.values = Top.values /\ f.buffer = Top.buffer
      /\ f.locals = Top.locals /\ f.out = Top.out
  BY <1>4, <1>7
<1> QED
  BY <1>1, <1>2, <1>3, <1>7, <1>8, <1>9, ScratchChildInv

(* The next phase of the same node.                                        *)
LEMMA NextPhaseInv ==
  ASSUME Inv, running, ~stale, frames # <<>>, slots' = slots, interrupted' \in BOOLEAN,
         ~Passing(Top), Top.kind \notin {"call", "builtin"},
         NEW phase \in 1 .. 3, Top.phase < phase,
         Top.kind = "while" /\ phase = 2 => Top.values[1] = Imm,
         PushScratch(Top, phase, phase)
  PROVE  Inv'
<1>1. Top \in Frames
  BY TopRuns
<1>2. phase \in 0 .. 3
  OBVIOUS
<1> DEFINE f == [Top EXCEPT !.phase = phase]
<1>3. /\ f \in Frames /\ f.kind = Top.kind /\ f.phase = phase /\ f.index = Top.index
      /\ f.values = Top.values /\ f.buffer = Top.buffer /\ f.locals = Top.locals /\ f.out = Top.out
  BY <1>1, <1>2, WithPhase
<1>4. PushChild(f, Top.locals, <<"scratch", Depth, phase>>)
  BY DEF PushScratch
<1> HIDE DEF f
<1>5. /\ PushChild(f, Top.locals, <<"scratch", Depth, f.phase>>) /\ Top.phase < f.phase
      /\ f.kind # "builtin" /\ f.kind # "call" /\ (f.kind = "while" /\ f.phase = 2 => f.values[1] = Imm)
  BY <1>3, <1>4
<1> QED
  BY <1>3, <1>5, ScratchChildInv

(* The next child delivers to the next one.                                *)
LEMMA NextChildInv ==
  ASSUME Inv, NEW kind \in {"readIndex", "writeIndex", "writeField"}, NEW phase \in 1 .. 2,
         NextChild(kind, phase)
  PROVE  Inv'
<1>1. Eval(kind, phase) /\ slots' = slots /\ PushScratch(Top, phase + 1, phase + 1)
  BY DEF NextChild
<1>2. /\ running /\ ~stale /\ frames # <<>> /\ Top.kind = kind /\ Top.phase = phase
      /\ interrupted' \in BOOLEAN
  BY <1>1, EvalRuns
<1>3. ~Passing(Top) /\ Top.kind \notin {"call", "builtin"} /\ Top.kind # "while"
  BY <1>2 DEF Passing
<1> DEFINE next == phase + 1
<1>4. next \in 1 .. 3 /\ Top.phase < next /\ PushScratch(Top, next, next)
  BY <1>1, <1>2
<1> HIDE DEF next
<1> QED
  BY <1>1, <1>2, <1>3, <1>4, NextPhaseInv

(* The condition of a loop, again in every iteration.                      *)
LEMMA WhileConditionInv ==
  ASSUME Inv, WhileCondition
  PROVE  Inv'
<1>1. Eval("while", 0) /\ slots' = slots /\ PushScratch(Top, 1, 1)
  BY DEF WhileCondition
<1>2. /\ running /\ ~stale /\ frames # <<>> /\ Top.kind = "while" /\ Top.phase = 0
      /\ interrupted' \in BOOLEAN
  BY <1>1, EvalRuns
<1>3. ~Passing(Top) /\ Top.kind \notin {"call", "builtin"}
  BY <1>2 DEF Passing
<1>4. 1 \in 1 .. 3 /\ Top.phase < 1 /\ 1 # 2
  BY <1>2
<1> QED
  BY <1>1, <1>2, <1>3, <1>4, NextPhaseInv

(* An item of a block whose value nobody wants.                            *)
LEMMA SeqItemInv ==
  ASSUME Inv, SeqItem
  PROVE  Inv'
<1>1. Eval("seq", 0) /\ slots' = slots /\ PushScratch(Top, 1, 1)
  BY DEF SeqItem
<1>2. /\ running /\ ~stale /\ frames # <<>> /\ Top.kind = "seq" /\ Top.phase = 0
      /\ interrupted' \in BOOLEAN
  BY <1>1, EvalRuns
<1>3. ~Passing(Top) /\ Top.kind \notin {"call", "builtin"}
  BY <1>2 DEF Passing
<1>4. 1 \in 1 .. 3 /\ Top.phase < 1 /\ 1 # 2
  BY <1>2
<1> QED
  BY <1>1, <1>2, <1>3, <1>4, NextPhaseInv

(* The last child of a node delivers where the node has to.                *)
LEMMA BranchChildInv ==
  ASSUME Inv, running, ~stale, frames # <<>>, slots' = slots, interrupted' \in BOOLEAN,
         Top.kind \in {"new", "if", "seq"}, Top.phase < 2,
         NEW kind \in {"if", "seq"}, NEW e \in Frames, e.kind = kind, e.index = Top.index,
         e.values = Top.values, e.buffer = Top.buffer, e.locals = Top.locals, e.out = Top.out,
         PushBranch(e)
  PROVE  Inv'
<1>1. FrameOK(Top) /\ Top.phase \in 0 .. 3
  BY TopRuns
<1>2. ~Passing(Top)
  BY <1>1 DEF Passing
<1> DEFINE f == [e EXCEPT !.phase = 2]
<1>3. 2 \in 0 .. 3
  OBVIOUS
<1>4. /\ f \in Frames /\ f.kind = e.kind /\ f.phase = 2 /\ f.index = e.index
      /\ f.values = e.values /\ f.buffer = e.buffer /\ f.locals = e.locals /\ f.out = e.out
  BY <1>3, WithPhase
<1>5. PushChild(f, e.locals, e.out)
  BY DEF PushBranch
<1> HIDE DEF f
<1>6. Top.index = 0 /\ Top.buffer = NoBuffer
  BY <1>1 DEF FrameOK
<1>7. \A k \in 1 .. 3 : k > f.phase => f.values[k] = Imm
  <2>1. \A k \in 1 .. 3 : k > Top.phase => Top.values[k] = Imm
    BY <1>1 DEF FrameOK
  <2>2. \A k \in 1 .. 3 : k > 2 => k > Top.phase
    BY <1>1
  <2> QED
    BY <1>4, <2>1, <2>2
<1>8. f.index <= f.buffer.count
  BY <1>4, <1>6 DEF NoBuffer
<1>9. FrameOK(f)
  BY <1>4, <1>6, <1>7, <1>8 DEF FrameOK
<1>10. ~ArgPhase(f) /\ CalleeOK(f, heap) /\ Passing(f)
  BY <1>4 DEF ArgPhase, CalleeOK, Passing
<1>11. PushChild(f, f.locals, f.out)
  BY <1>4, <1>5
<1> DEFINE locals == f.locals
           out == f.out
<1>12. locals = f.locals /\ out = f.out /\ PushChild(f, locals, out)
  BY <1>11
<1>13. /\ f.values = Top.values /\ f.buffer = Top.buffer /\ f.locals = Top.locals /\ f.out = Top.out
  BY <1>4
<1> HIDE DEF locals, out
<1> QED
  BY <1>2, <1>9, <1>10, <1>12, <1>13, PushInv

(* The branch of an if delivers where the if has to.                       *)
LEMMA BranchInv ==
  ASSUME Inv, Branch
  PROVE  Inv'
<1>1. Eval("if", 1) /\ slots' = slots
  BY DEF Branch
<1>2. /\ running /\ ~stale /\ frames # <<>> /\ Top.kind = "if" /\ Top.phase = 1
      /\ interrupted' \in BOOLEAN
  BY <1>1, EvalRuns
<1>3. ~Passing(Top) /\ Top \in Frames
  BY <1>2, TopRuns DEF Passing
<1>4. result = Imm
  BY <1>2, <1>3, TopRuns
<1>5. CASE Fail(heap)
  BY <1>1, <1>2, <1>4, <1>5, FailInv
<1>6. CASE Complete(heap, arena, Top, Imm)
  BY <1>1, <1>2, <1>3, <1>6, CompleteImm
<1>7. CASE PushBranch(Top)
  <2>1. Top.phase < 2
    BY <1>2
  <2> DEFINE kind == "if"
  <2>2. kind \in {"if", "seq"} /\ Top.kind = kind /\ Top.kind \in {"new", "if", "seq"}
    BY <1>2
  <2> HIDE DEF kind
  <2> QED
    BY <1>1, <1>2, <1>3, <1>7, <2>1, <2>2, BranchChildInv
<1> QED
  BY <1>5, <1>6, <1>7 DEF Branch

(* So does the last item of a block.                                       *)
LEMMA SeqLastInv ==
  ASSUME Inv, SeqLast
  PROVE  Inv'
<1>1. /\ Eval("seq", 0) \/ Eval("new", 0)
      /\ slots' = slots /\ PushBranch([Top EXCEPT !.kind = "seq"])
  BY DEF SeqLast
<1>2. /\ running /\ ~stale /\ frames # <<>> /\ Top.kind \in {"new", "if", "seq"} /\ Top.phase = 0
      /\ interrupted' \in BOOLEAN
  BY <1>1, EvalRuns
<1>3. Top \in Frames
  BY <1>2, TopRuns
<1> DEFINE kind == "seq"
           e == [Top EXCEPT !.kind = kind]
<1>4. kind \in {"if", "seq"} /\ kind \in FrameKinds /\ PushBranch(e)
  BY <1>1 DEF FrameKinds
<1> HIDE DEF kind
<1>5. /\ e \in Frames /\ e.kind = kind /\ e.index = Top.index
      /\ e.values = Top.values /\ e.buffer = Top.buffer /\ e.locals = Top.locals /\ e.out = Top.out
  BY <1>3, <1>4, WithKind
<1>6. Top.phase < 2
  BY <1>2
<1> HIDE DEF e
<1> QED
  BY <1>1, <1>2, <1>4, <1>5, <1>6, BranchChildInv

(* The body of a loop delivers to the second scratch value.                *)
LEMMA WhileBodyInv ==
  ASSUME Inv, WhileBody
  PROVE  Inv'
<1>1. Eval("while", 1) /\ slots' = slots
  BY DEF WhileBody
<1>2. /\ running /\ ~stale /\ frames # <<>> /\ Top.kind = "while" /\ Top.phase = 1
      /\ interrupted' \in BOOLEAN
  BY <1>1, EvalRuns
<1>3. ~Passing(Top)
  BY <1>2 DEF Passing
<1>4. result = Imm
  BY <1>2, <1>3, TopRuns
<1>5. CASE Fail(heap)
  BY <1>1, <1>2, <1>4, <1>5, FailInv
<1>6. CASE Complete(heap, arena, Top, Imm)
  BY <1>1, <1>2, <1>3, <1>6, CompleteImm
<1>7. CASE Top.values[1] = Imm /\ PushScratch(Top, 2, 2)
  <2>1. 2 \in 1 .. 3 /\ Top.phase < 2 /\ Top.kind \notin {"call", "builtin"}
    BY <1>2
  <2> QED
    BY <1>1, <1>2, <1>3, <1>7, <2>1, NextPhaseInv
<1> QED
  BY <1>5, <1>6, <1>7 DEF WhileBody

(* The value is already where it is wanted.                                *)
LEMMA PassedInv ==
  ASSUME Inv, NEW kind, NEW phase, Passed(kind, phase)
  PROVE  Inv'
<1>1. Eval(kind, phase) /\ slots' = slots /\ Complete(heap, arena, Top, Out(Top))
  BY DEF Passed
<1>2. running /\ ~stale /\ frames # <<>> /\ interrupted' \in BOOLEAN
  BY <1>1, EvalRuns
<1> DEFINE v == Out(Top)
           X == External(slots, result, frames, arena)
<1>3. /\ frames \in Seq(Frames) /\ arena \in Arenas /\ slots \in Tables /\ X \in Counts
      /\ HeapOK(heap) /\ Exact(heap, X) /\ result \in Values
      /\ StackOK(frames, arena, used, rootLocals, result)
  BY <1>2, InvRuns
<1>4. /\ Len(frames) > 0 /\ Top = frames[Len(frames)] /\ Top.values \in [1 .. 3 -> Values]
      /\ Top.out \in Outs
  BY <1>2, TopRuns
<1>5. v \in Values
  <2>1. CASE Top.out[1] = "result"
    BY <1>3, <2>1 DEF Out
  <2>2. CASE Top.out[1] = "arena"
    <3>1. Top.out[2] \in 1 .. ArenaLimit
      BY <1>4, <2>2, OutFields
    <3> QED
      BY <1>3, <2>2, <3>1 DEF Out, Arenas
  <2>3. CASE Top.out[1] = "scratch"
    <3>1. Top.out[3] \in 1 .. 3
      BY <1>4, <2>3, OutFields
    <3>2. Top.out[2] \in 1 .. Len(frames) - 1
      BY <1>3, <1>4, <2>3, TopOut
    <3>3. Top.out[2] \in 1 .. Len(frames) /\ Len(frames) \in Nat
      BY <1>3, <3>2
    <3>4. frames[Top.out[2]].values \in [1 .. 3 -> Values]
      BY <1>3, <3>3, StackTypes
    <3> QED
      BY <2>3, <3>1, <3>4 DEF Out
  <2> QED
    BY <1>4, <2>1, <2>2, <2>3, OutFields
<1>6. KindsKept(heap, heap)
  BY DEF KindsKept
<1>7. ASSUME NEW o \in ObjectIds
      PROVE  X[o] + Is(v, o)
           = External(slots, result, Front(frames), arena)[o] + Occurrences(Top.values, o) + Is(v, o)
  <2>1. /\ X[o] = External(slots, result, Front(frames), arena)[o] + Occurrences(Top.values, o)
    BY <1>3, <1>4, TopExternal
  <2> QED
    BY <2>1
<1>8. /\ slots' \in Tables /\ Complete(heap, arena, Top, v)
      /\ \A i \in 1 .. ArenaLimit : arena[i] # arena[i] => i \in Cells(Top.locals)
      /\ \A o \in ObjectIds : X[o] + Is(Out(Top), o)
           = External(slots', result, Front(frames), arena)[o] + Occurrences(Top.values, o) + Is(v, o)
  BY <1>1, <1>3, <1>7
<1> HIDE DEF v, X
<1> QED
  BY <1>2, <1>3, <1>4, <1>5, <1>6, <1>8, CompleteInv

(* One reference less.                                                     *)
LEMMA LessOne ==
  ASSUME NEW X \in Counts, NEW v, v \in ObjectIds => X[v] > 0
  PROVE  /\ Less(X, <<v>>) \in Counts /\ IsFiniteSet(DOMAIN <<v>>)
         /\ \A o \in ObjectIds : /\ Occurrences(<<v>>, o) <= X[o]
                                 /\ Less(X, <<v>>)[o] + Is(v, o) = X[o]
<1>1. DOMAIN <<v>> = 1 .. 1 /\ 1 \in Int
  OBVIOUS
<1>2. IsFiniteSet(DOMAIN <<v>>)
  BY <1>1, FS_Interval
<1> DEFINE Y == Less(X, <<v>>)
<1>3. \A o \in ObjectIds : Y[o] = X[o] - Is(v, o)
  BY OccOne DEF Less
<1>4. ASSUME NEW o \in ObjectIds PROVE Is(v, o) <= X[o] /\ Is(v, o) \in Nat /\ X[o] \in Nat
  BY DEF Is, Counts
<1>5. \A o \in ObjectIds : Y[o] \in Nat /\ Y[o] + Is(v, o) = X[o]
  <2> HIDE DEF Y
  <2> QED
    BY <1>3, <1>4
<1>6. Y \in Counts
  <2>1. Y = [o \in ObjectIds |-> Y[o]]
    BY DEF Less
  <2> HIDE DEF Y
  <2> QED
    BY <1>5, <2>1 DEF Counts
<1> QED
  BY <1>2, <1>4, <1>5, <1>6, OccOne

(* A value leaves the frame.                                               *)
LEMMA WithoutFields ==
  ASSUME NEW f \in Frames, NEW s \in 1 .. 3
  PROVE  LET g == Without(f, {s})
         IN  /\ g \in Frames /\ SameShape(g, f) /\ g.values \in [1 .. 3 -> Values]
             /\ g.values[s] = Imm
             /\ \A k \in 1 .. 3 : k # s => g.values[k] = f.values[k]
             /\ \A o \in ObjectIds :
                  /\ Occurrences(g.values, o) + Is(f.values[s], o) = Occurrences(f.values, o)
                  /\ Occurrences(g.values, o) \in Nat
<1> DEFINE w == f.values
           u == [k \in 1 .. 3 |-> IF k \in {s} THEN Imm ELSE w[k]]
           g == [f EXCEPT !.values = u]
<1>1. Without(f, {s}) = g
  BY DEF Without, Frames
<1>2. w \in [1 .. 3 -> Values]
  BY FrameFields
<1>3. u \in [1 .. 3 -> Values] /\ u[s] = Imm /\ \A k \in 1 .. 3 : k # s => u[k] = w[k]
  BY <1>2 DEF Values
<1> HIDE DEF u
<1>4. g \in Frames /\ SameShape(g, f) /\ g.values = u
  BY <1>3 DEF Frames, SameShape
<1>5. ASSUME NEW o \in ObjectIds
      PROVE  Occurrences(u, o) + Is(w[s], o) = Occurrences(w, o) /\ Occurrences(u, o) \in Nat
  <2>1. DOMAIN w = 1 .. 3 /\ DOMAIN u = 1 .. 3 /\ 0 \in Nat
    BY <1>2, <1>3
  <2>2. IsFiniteSet(DOMAIN w) /\ IsFiniteSet(DOMAIN u)
    BY <2>1, PlacesFinite
  <2>3. DOMAIN u = DOMAIN w /\ s \in DOMAIN w /\ \A k \in DOMAIN w : k # s => u[k] = w[k]
    BY <1>3, <2>1
  <2> HIDE DEF w
  <2>4. Occurrences(u, o) + Is(w[s], o) = Occurrences(w, o) + Is(u[s], o)
    BY <2>2, <2>3, OccUpdate
  <2>5. Is(u[s], o) = 0 /\ Occurrences(w, o) \in Nat /\ Occurrences(u, o) \in Nat
    BY <1>3, <2>2, IsNotImm, OccType
  <2> QED
    BY <2>4, <2>5
<1> HIDE DEF g
<1> QED
  BY <1>1, <1>3, <1>4, <1>5

(* A node completes with nothing, after one of its values moved or went:   *)
(* the table is exact without that value and, for the slots sl and the     *)
(* arena a, with what replaced it.                                         *)
LEMMA CompleteWithout ==
  ASSUME Inv, running, ~stale, frames # <<>>, ~Passing(Top), interrupted' \in BOOLEAN,
         slots' \in Tables, NEW s \in 1 .. 3, NEW a \in Arenas,
         \A i \in 1 .. ArenaLimit : a[i] # arena[i] => i \in Cells(Top.locals),
         NEW h, HeapOK(h), KindsKept(h, heap), NEW Y \in Counts, Exact(h, Y),
         \A o \in ObjectIds :
           Y[o] + Is(Top.values[s], o) + Occurrences(slots, o) + Occurrences(arena, o)
             = External(slots, result, frames, arena)[o] + Occurrences(slots', o) + Occurrences(a, o),
         Complete(h, a, Without(Top, {s}), Imm)
  PROVE  Inv'
<1> DEFINE f == Without(Top, {s})
           sl == slots'
           X == External(slots, result, frames, arena)
           p == Front(frames)
<1>1. /\ frames \in Seq(Frames) /\ arena \in Arenas /\ slots \in Tables /\ X \in Counts
  BY InvRuns
<1>2. /\ Len(frames) > 0 /\ Top = frames[Len(frames)] /\ Out(Top) = Imm /\ Top \in Frames
  BY TopRuns
<1>3. /\ f \in Frames /\ SameShape(f, Top) /\ f.values \in [1 .. 3 -> Values]
      /\ \A o \in ObjectIds :
           /\ Occurrences(f.values, o) + Is(Top.values[s], o) = Occurrences(Top.values, o)
           /\ Occurrences(f.values, o) \in Nat
  BY <1>2, WithoutFields
<1>4. sl \in Tables
  OBVIOUS
<1>5. \A o \in ObjectIds :
           Y[o] + Is(Top.values[s], o) + Occurrences(slots, o) + Occurrences(arena, o)
             = X[o] + Occurrences(sl, o) + Occurrences(a, o)
  OBVIOUS
<1> HIDE DEF f, sl
<1>6. ASSUME NEW o \in ObjectIds
      PROVE  Y[o] + Is(Out(Top), o)
               = External(sl, result, p, a)[o] + Occurrences(f.values, o) + Is(Imm, o)
  <2>1. /\ X[o] = External(slots, result, p, arena)[o] + Occurrences(Top.values, o)
        /\ External(slots, result, p, arena)[o]
              = Occurrences(slots, o) + Is(result, o) + Occurrences(ScratchOf(p), o)
                + Occurrences(arena, o)
    BY <1>1, <1>2, TopExternal
  <2>2. p \in Seq(Frames)
    BY <1>1, <1>2, FrontFields
  <2>3. /\ Occurrences(slots, o) \in Nat /\ Is(result, o) \in Nat
        /\ Occurrences(ScratchOf(p), o) \in Nat /\ Occurrences(arena, o) \in Nat
    BY <1>1, <2>2, ExternalAt
  <2>4. /\ Occurrences(sl, o) \in Nat /\ Occurrences(a, o) \in Nat
        /\ External(sl, result, p, a)[o]
              = Occurrences(sl, o) + Is(result, o) + Occurrences(ScratchOf(p), o)
                + Occurrences(a, o)
    BY <1>4, <2>2, ExternalAt
  <2>5. Is(Out(Top), o) = 0 /\ Is(Imm, o) = 0 /\ Is(Top.values[s], o) \in Nat
    BY <1>2, IsNotImm
  <2>6. Y[o] \in Nat
    BY DEF Counts
  <2>7. /\ Occurrences(f.values, o) + Is(Top.values[s], o) = Occurrences(Top.values, o)
        /\ Occurrences(f.values, o) \in Nat
    BY <1>3
  <2>8. Y[o] + Is(Top.values[s], o) + Occurrences(slots, o) + Occurrences(arena, o)
             = X[o] + Occurrences(sl, o) + Occurrences(a, o)
    BY <1>5
  <2> DEFINE y == Y[o]
             i == Is(Top.values[s], o)
             c1 == Occurrences(slots, o)
             c2 == Occurrences(sl, o)
             d1 == Occurrences(arena, o)
             d2 == Occurrences(a, o)
             r == Is(result, o)
             q == Occurrences(ScratchOf(p), o)
             w == Occurrences(f.values, o)
  <2>9. /\ y \in Nat /\ i \in Nat /\ c1 \in Nat /\ c2 \in Nat /\ d1 \in Nat /\ d2 \in Nat
        /\ r \in Nat /\ q \in Nat /\ w \in Nat
        /\ y + i + c1 + d1 = ((c1 + r + q + d1) + (w + i)) + c2 + d2
    BY <2>1, <2>3, <2>4, <2>5, <2>6, <2>7, <2>8
  <2> HIDE DEF y, i, c1, c2, d1, d2, r, q, w
  <2>10. y + 0 = (c2 + r + q + d2) + w + 0
    BY <2>9
  <2> QED
    BY <2>4, <2>5, <2>10 DEF y, c2, d2, r, q, w
<1>7. /\ f.out = Top.out /\ f.buffer = Top.buffer
  BY <1>3 DEF SameShape
<1>8. /\ Complete(h, a, f, Imm) /\ Imm \in Values
      /\ \A o \in ObjectIds : Y[o] + Is(Out(Top), o)
           = External(slots', result, Front(frames), a)[o] + Occurrences(f.values, o) + Is(Imm, o)
  BY <1>6 DEF f, sl, Values
<1> HIDE DEF X, p
<1> QED
  BY <1>3, <1>7, <1>8, CompleteInv

(* A value of the runtime is released.                                     *)
LEMMA ReleaseHeld ==
  ASSUME Inv, ~stale, NEW v, v \in ObjectIds => External(slots, result, frames, arena)[v] > 0
  PROVE  LET X == External(slots, result, frames, arena)
             h == Release(heap, <<v>>)
         IN  /\ HeapOK(h) /\ Less(X, <<v>>) \in Counts /\ Exact(h, Less(X, <<v>>))
             /\ KindsKept(h, heap) /\ Kept(h, heap)
             /\ \A o \in ObjectIds : Less(X, <<v>>)[o] + Is(v, o) = X[o]
<1> DEFINE X == External(slots, result, frames, arena)
           t == <<v>>
<1>1. HeapOK(heap) /\ X \in Counts /\ Exact(heap, X)
  BY InvRuns
<1>2. v \in ObjectIds => X[v] > 0
  OBVIOUS
<1> HIDE DEF X
<1>3. /\ Less(X, t) \in Counts /\ IsFiniteSet(DOMAIN t)
      /\ \A o \in ObjectIds : Occurrences(t, o) <= X[o] /\ Less(X, t)[o] + Is(v, o) = X[o]
  BY <1>1, <1>2, LessOne
<1> HIDE DEF t
<1>4. /\ HeapOK(Release(heap, t)) /\ Exact(Release(heap, t), Less(X, t)) /\ Kept(Release(heap, t), heap)
  BY <1>1, <1>3, ReleaseExact
<1>5. KindsKept(Release(heap, t), heap)
  BY <1>4 DEF KindsKept, Kept
<1> QED
  BY <1>3, <1>4, <1>5 DEF X, t

(* The old value of a local is released, the new one moves in.             *)
LEMMA WriteLocalInv ==
  ASSUME Inv, WriteLocal
  PROVE  Inv'
<1>1. Eval("writeLocal", 1) /\ slots' = slots
  BY DEF WriteLocal
<1>2. /\ running /\ ~stale /\ frames # <<>> /\ Top.kind = "writeLocal" /\ interrupted' \in BOOLEAN
  BY <1>1, EvalRuns
<1>3. ~Passing(Top)
  BY <1>2 DEF Passing
<1>4. PICK i \in 1 .. Top.locals.count :
        Complete(Release(heap, <<arena[Top.locals.base + i]>>),
                 [arena EXCEPT ![Top.locals.base + i] = Top.values[1]], Without(Top, {1}), Imm)
  BY DEF WriteLocal
<1> DEFINE at == Top.locals.base + i
           old == arena[at]
           w == Top.values[1]
           a == [arena EXCEPT ![at] = w]
           X == External(slots, result, frames, arena)
           h == Release(heap, <<old>>)
           Y == Less(X, <<old>>)
<1>5. /\ frames \in Seq(Frames) /\ arena \in Arenas /\ slots \in Tables /\ X \in Counts
      /\ StackOK(frames, arena, used, rootLocals, result)
  BY <1>2, InvRuns
<1>6. /\ Len(frames) > 0 /\ Top = frames[Len(frames)] /\ Top.locals \in Buffers
      /\ Top.values \in [1 .. 3 -> Values]
  BY <1>2, TopRuns
<1>7. at \in Cells(Top.locals) /\ at \in 1 .. ArenaLimit
  <2>2. Top.locals.base \in Nat /\ Top.locals.count \in Nat
    BY <1>6, EvaluatorAssumption DEF Buffers
  <2>3. at \in Cells(Top.locals)
    BY <2>2 DEF Cells
  <2>4. \A j \in Cells(Top.locals) : j \in 1 .. used
    BY <1>5, <1>6, TopOut
  <2>5. 1 .. used \subseteq 1 .. ArenaLimit
    BY <1>5, <1>6, TopOut
  <2> QED
    BY <2>3, <2>4, <2>5
<1>8. w \in Values
  BY <1>6
<1>9. old \in ObjectIds => X[old] > 0
  BY <1>2, <1>7, Held
<1>10. /\ HeapOK(h) /\ Y \in Counts /\ Exact(h, Y) /\ KindsKept(h, heap)
       /\ \A o \in ObjectIds : Y[o] + Is(old, o) = X[o]
  <2> HIDE DEF old
  <2> QED
    BY <1>2, <1>9, ReleaseHeld
<1>11. Complete(h, a, Without(Top, {1}), Imm)
  BY <1>4
<1> HIDE DEF at
<1>12. \A j \in 1 .. ArenaLimit : a[j] # arena[j] => j \in Cells(Top.locals)
  <2>1. \A j \in 1 .. ArenaLimit : j # at => a[j] = arena[j]
    BY <1>5 DEF Arenas
  <2> QED
    BY <1>7, <2>1
<1> HIDE DEF w, h, Y, X
<1>13. /\ a \in Arenas
       /\ \A o \in ObjectIds : Occurrences(a, o) + Is(old, o) = Occurrences(arena, o) + Is(w, o)
  BY <1>5, <1>7, <1>8, ArenaPut
<1> HIDE DEF a, old
<1>14. ASSUME NEW o \in ObjectIds
       PROVE  Y[o] + Is(w, o) + Occurrences(slots, o) + Occurrences(arena, o)
                = X[o] + Occurrences(slots', o) + Occurrences(a, o)
  <2>1. /\ Occurrences(slots, o) \in Nat /\ Occurrences(arena, o) \in Nat
    BY <1>5, ExternalAt
  <2>2. Occurrences(a, o) \in Nat
    BY <1>5, <1>13, ExternalAt
  <2>3. Is(w, o) \in Nat /\ Is(old, o) \in Nat /\ X[o] \in Nat /\ Y[o] \in Nat
    BY <1>5, <1>10, IsNotImm DEF Counts
  <2>4. Y[o] + Is(old, o) = X[o] /\ Occurrences(a, o) + Is(old, o) = Occurrences(arena, o) + Is(w, o)
    BY <1>10, <1>13
  <2>5. Y[o] + Is(w, o) + Occurrences(slots, o) + Occurrences(arena, o)
          = X[o] + Occurrences(slots, o) + Occurrences(a, o)
    BY <2>1, <2>2, <2>3, <2>4
  <2> QED
    BY <1>1, <2>5
<1>15. 1 \in 1 .. 3 /\ slots' \in Tables
  BY <1>1, <1>5
<1> QED
  BY <1>2, <1>3, <1>10, <1>11, <1>12, <1>13, <1>14, <1>15, CompleteWithout DEF w, X

(* The old value of a slot is released, the new one moves in.              *)
LEMMA WriteSlotInv ==
  ASSUME Inv, WriteSlot
  PROVE  Inv'
<1>1. Eval("writeSlot", 1)
  BY DEF WriteSlot
<1>2. /\ running /\ ~stale /\ frames # <<>> /\ Top.kind = "writeSlot" /\ interrupted' \in BOOLEAN
  BY <1>1, EvalRuns
<1>3. ~Passing(Top)
  BY <1>2 DEF Passing
<1>4. CASE Fail(heap) /\ slots' = slots
  <2>1. result = Imm
    BY <1>2, <1>3, TopRuns
  <2> QED
    BY <1>2, <1>4, <2>1, FailInv
<1>5. ASSUME NEW s \in Slots, slots' = [slots EXCEPT ![s] = Top.values[1]],
             Complete(Release(heap, IF slots[s] = Unbound THEN <<>> ELSE <<slots[s]>>), arena,
                      Without(Top, {1}), Imm)
      PROVE  Inv'
  <2> DEFINE old == slots[s]
             w == Top.values[1]
             X == External(slots, result, frames, arena)
             t == IF old = Unbound THEN <<>> ELSE <<old>>
             h == Release(heap, t)
  <2>1. /\ frames \in Seq(Frames) /\ arena \in Arenas /\ slots \in Tables /\ X \in Counts
        /\ HeapOK(heap) /\ Exact(heap, X)
    BY <1>2, InvRuns
  <2>2. w \in Values
    BY <1>2, TopRuns
  <2>3. old \in ObjectIds => X[old] > 0
    BY <1>2, Held
  <2>4. \E Y \in Counts : /\ HeapOK(h) /\ Exact(h, Y) /\ KindsKept(h, heap)
                          /\ \A o \in ObjectIds : Y[o] + Is(old, o) = X[o]
    <3>1. CASE old = Unbound
      <4>1. h = heap
        <5>1. Range(<<>>) \subseteq {Imm}
          BY DEF Range
        <5> QED
          BY <3>1, <5>1 DEF Release
      <4>2. KindsKept(heap, heap)
        BY DEF KindsKept
      <4>3. \A o \in ObjectIds : X[o] + Is(old, o) = X[o]
        <5>1. \A o \in ObjectIds : Is(old, o) = 0 /\ X[o] \in Nat
          BY <2>1, <3>1, IsNotImm DEF Counts
        <5> HIDE DEF X, old
        <5> QED
          BY <5>1
      <4> QED
        BY <2>1, <4>1, <4>2, <4>3
    <3>2. CASE old # Unbound
      <4>1. h = Release(heap, <<old>>)
        BY <3>2
      <4> HIDE DEF old, h
      <4>2. /\ HeapOK(Release(heap, <<old>>)) /\ Less(X, <<old>>) \in Counts
            /\ Exact(Release(heap, <<old>>), Less(X, <<old>>)) /\ KindsKept(Release(heap, <<old>>), heap)
            /\ \A o \in ObjectIds : Less(X, <<old>>)[o] + Is(old, o) = X[o]
        BY <1>2, <2>3, ReleaseHeld
      <4> QED
        BY <4>1, <4>2
    <3> QED
      BY <3>1, <3>2
  <2>5. PICK Y \in Counts : /\ HeapOK(h) /\ Exact(h, Y) /\ KindsKept(h, heap)
                            /\ \A o \in ObjectIds : Y[o] + Is(old, o) = X[o]
    BY <2>4
  <2>6. Complete(h, arena, Without(Top, {1}), Imm)
    BY <1>5
  <2> DEFINE sl == slots'
  <2>7. sl \in Tables /\ sl = [slots EXCEPT ![s] = w]
    BY <1>5, <2>1, <2>2 DEF Tables
  <2>8. /\ DOMAIN slots = Slots /\ DOMAIN sl = DOMAIN slots /\ sl[s] = w /\ 0 \in Nat
        /\ s \in DOMAIN slots /\ \A k \in DOMAIN slots : k # s => sl[k] = slots[k]
    BY <2>1, <2>7 DEF Tables
  <2>9. IsFiniteSet(DOMAIN slots)
    BY <2>8, PlacesFinite
  <2> HIDE DEF sl, w, X, h
  <2>10. \A o \in ObjectIds :
           Occurrences(sl, o) + Is(slots[s], o) = Occurrences(slots, o) + Is(sl[s], o)
    BY <2>8, <2>9, OccUpdate
  <2> HIDE DEF old
  <2>11. ASSUME NEW o \in ObjectIds
         PROVE  Y[o] + Is(w, o) + Occurrences(slots, o) + Occurrences(arena, o)
                  = X[o] + Occurrences(sl, o) + Occurrences(arena, o)
    <3>1. /\ Occurrences(slots, o) \in Nat /\ Occurrences(arena, o) \in Nat
      BY <2>1, ExternalAt
    <3>2. Occurrences(sl, o) \in Nat
      BY <2>1, <2>7, ExternalAt
    <3>3. Is(w, o) \in Nat /\ Is(old, o) \in Nat /\ X[o] \in Nat /\ Y[o] \in Nat
      BY <2>1, IsNotImm DEF Counts
    <3>4. Y[o] + Is(old, o) = X[o] /\ Occurrences(sl, o) + Is(old, o) = Occurrences(slots, o) + Is(w, o)
      BY <2>5, <2>8, <2>10 DEF old
    <3> QED
      BY <3>1, <3>2, <3>3, <3>4
  <2>12. /\ 1 \in 1 .. 3 /\ slots' \in Tables
         /\ \A i \in 1 .. ArenaLimit : arena[i] # arena[i] => i \in Cells(Top.locals)
    BY <2>7 DEF sl
  <2> QED
    BY <1>2, <1>3, <2>1, <2>5, <2>6, <2>11, <2>12, CompleteWithout DEF w, X, sl
<1> QED
  BY <1>4, <1>5 DEF WriteSlot

(* The container of an element is alive and has one.                       *)
LEMMA Container ==
  ASSUME Inv, ~stale, frames # <<>>, KindOf(Top.values[1]) \in {"cells", "record"}
  PROVE  LET c == Top.values[1]
         IN  /\ c \in ObjectIds /\ c \in Live(heap) /\ 1 \in DOMAIN heap[c].kids
             /\ External(slots, result, frames, arena)[c] > 0
<1> DEFINE c == Top.values[1]
<1>1. c \in Values /\ Depth \in 1 .. Depth /\ Top = frames[Depth]
  BY TopRuns DEF Top
<1>2. c # Imm
  BY DEF KindOf
<1>3. c \in ObjectIds /\ heap[c].kind \in {"cells", "record"}
  BY <1>1, <1>2 DEF Values, KindOf
<1>4. 1 \in 1 .. 3 /\ frames[Depth].values[1] = c
  BY <1>1
<1>5. c \in Live(heap) /\ External(slots, result, frames, arena)[c] > 0
  <2> HIDE DEF c
  <2> QED
    BY <1>1, <1>3, <1>4, Held
<1>6. 1 \in DOMAIN heap[c].kids
  <2>1. HeapOK(heap)
    BY InvRuns
  <2>2. heap[c].kids \in Seq(Values) /\ Len(heap[c].kids) = KidsLen(heap[c].kind)
    BY <1>3, <2>1 DEF HeapOK, Objects
  <2>3. KidsLen(heap[c].kind) \in {1, 2}
    BY <1>3 DEF KidsLen
  <2> QED
    BY <2>2, <2>3
<1> QED
  BY <1>3, <1>5, <1>6

(* An element or a field is retained before its container goes.            *)
LEMMA ReadElementInv ==
  ASSUME Inv, NEW kind \in {"readIndex", "readField"}, NEW phase,
         NEW container \in {"cells", "record"}, ReadElement(kind, phase, container)
  PROVE  Inv'
<1>1. Eval(kind, phase) /\ slots' = slots
  BY DEF ReadElement
<1>2. /\ running /\ ~stale /\ frames # <<>> /\ Top.kind = kind /\ interrupted' \in BOOLEAN
  BY <1>1, EvalRuns
<1>3. ~Passing(Top)
  BY <1>2 DEF Passing
<1>4. CASE Fail(heap)
  <2>1. result = Imm
    BY <1>2, <1>3, TopRuns
  <2> QED
    BY <1>1, <1>2, <1>4, <2>1, FailInv
<1>5. CASE /\ KindOf(Top.values[1]) = container
           /\ Complete(Retain(heap, heap[Top.values[1]].kids[1]), arena, Top,
                       heap[Top.values[1]].kids[1])
  <2> DEFINE c == Top.values[1]
             v == heap[c].kids[1]
  <2>1. c \in Live(heap) /\ 1 \in DOMAIN heap[c].kids
    BY <1>2, <1>5, Container
  <2>2. 1 \in Elements
    BY DEF Elements
  <2>3. v \in Values /\ (v \in ObjectIds => v \in Live(heap))
    <3> HIDE DEF c
    <3> QED
      BY <1>2, <2>1, <2>2, InvRuns, KidLives
  <2>4. Complete(Retain(heap, v), arena, Top, v)
    BY <1>5
  <2> HIDE DEF v
  <2> QED
    BY <1>1, <1>2, <1>3, <2>3, <2>4, CompleteRetained
<1> QED
  BY <1>4, <1>5 DEF ReadElement

(* The old element is released, the new one moves in.                      *)
LEMMA WriteElementInv ==
  ASSUME Inv, NEW kind \in {"writeIndex", "writeField"}, NEW phase \in 1 .. 3,
         NEW container \in {"cells", "record"}, WriteElement(kind, phase, container)
  PROVE  Inv'
<1>1. Eval(kind, phase) /\ slots' = slots
  BY DEF WriteElement
<1>2. /\ running /\ ~stale /\ frames # <<>> /\ Top.kind = kind /\ interrupted' \in BOOLEAN
  BY <1>1, EvalRuns
<1>3. ~Passing(Top)
  BY <1>2 DEF Passing
<1>4. CASE Fail(heap)
  <2>1. result = Imm
    BY <1>2, <1>3, TopRuns
  <2> QED
    BY <1>1, <1>2, <1>4, <2>1, FailInv
<1>5. CASE /\ KindOf(Top.values[1]) = container
           /\ Complete(WithKid(Release(heap, <<heap[Top.values[1]].kids[1]>>), Top.values[1],
                               Top.values[phase]),
                       arena, Without(Top, {phase}), Imm)
  <2> DEFINE c == Top.values[1]
             w == Top.values[phase]
             X == External(slots, result, frames, arena)
             Y == Less(X, <<w>>)
             h == WithKid(Release(heap, <<heap[c].kids[1]>>), c, w)
  <2>1. c \in ObjectIds /\ c \in Live(heap) /\ 1 \in DOMAIN heap[c].kids /\ X[c] > 0
    BY <1>2, <1>5, Container
  <2>2. /\ frames \in Seq(Frames) /\ arena \in Arenas /\ slots \in Tables /\ X \in Counts
        /\ HeapOK(heap) /\ Exact(heap, X)
    BY <1>2, InvRuns
  <2>3. w \in Values /\ Depth \in 1 .. Depth /\ Top = frames[Depth]
    BY <1>2, TopRuns DEF Top
  <2>4. w \in ObjectIds => X[w] > 0
    <3>1. frames[Depth].values[phase] = w
      BY <2>3
    <3> HIDE DEF w
    <3> QED
      BY <1>2, <2>3, <3>1, Held
  <2>5. Complete(h, arena, Without(Top, {phase}), Imm)
    BY <1>5
  <2> HIDE DEF w, c, X
  <2>6. Y \in Counts /\ \A o \in ObjectIds : Y[o] + Is(w, o) = X[o]
    BY <2>2, <2>4, LessOne
  <2> HIDE DEF Y
  <2>7. /\ HeapOK(h) /\ Exact(h, Y)
        /\ \A o \in Live(h) : /\ o \in Live(heap) /\ h[o].kind = heap[o].kind
                              /\ h[o].arity = heap[o].arity
    BY <2>1, <2>2, <2>3, <2>6, WriteKidExact
  <2>8. KindsKept(h, heap)
    BY <2>7 DEF KindsKept
  <2> HIDE DEF h
  <2>9. ASSUME NEW o \in ObjectIds
        PROVE  Y[o] + Is(w, o) + Occurrences(slots, o) + Occurrences(arena, o)
                  = X[o] + Occurrences(slots', o) + Occurrences(arena, o)
    BY <1>1, <2>6
  <2>10. /\ slots' \in Tables
         /\ \A i \in 1 .. ArenaLimit : arena[i] # arena[i] => i \in Cells(Top.locals)
    BY <1>1, <2>2
  <2> QED
    BY <1>2, <1>3, <2>2, <2>5, <2>6, <2>7, <2>8, <2>9, <2>10, CompleteWithout DEF w, X
<1> QED
  BY <1>4, <1>5 DEF WriteElement

(* The top frame becomes f: the references from outside are those of       *)
(* before, but for the values of that frame.                               *)
LEMMA TopReplaced ==
  ASSUME NEW fr \in Seq(Frames), Len(fr) > 0, NEW f \in Frames, NEW sl \in Tables, NEW res,
         NEW ar \in Arenas, NEW o \in ObjectIds
  PROVE  LET g == [fr EXCEPT ![Len(fr)] = f]
         IN  /\ g \in Seq(Frames) /\ Len(g) = Len(fr) /\ g[Len(fr)] = f
             /\ \A m \in 1 .. Len(fr) : m # Len(fr) => g[m] = fr[m]
             /\ External(sl, res, g, ar)[o] + Occurrences(fr[Len(fr)].values, o)
                  = External(sl, res, fr, ar)[o] + Occurrences(f.values, o)
             /\ External(sl, res, g, ar)[o] \in Nat
<1> DEFINE g == [fr EXCEPT ![Len(fr)] = f]
           p == Front(fr)
           w == fr[Len(fr)].values
<1>1. /\ Len(fr) \in Nat /\ Len(fr) \in 1 .. Len(fr)
      /\ g \in Seq(Frames) /\ Len(g) = Len(fr) /\ g[Len(fr)] = f
      /\ \A m \in 1 .. Len(fr) : m # Len(fr) => g[m] = fr[m]
  OBVIOUS
<1> HIDE DEF g
<1>2. /\ p \in Seq(Frames) /\ Len(p) = Len(fr) - 1
      /\ \A m \in 1 .. Len(fr) - 1, k \in 1 .. 3 : p[m].values[k] = fr[m].values[k]
      /\ Occurrences(ScratchOf(fr), o) = Occurrences(ScratchOf(p), o) + Occurrences(w, o)
  BY FrontFields
<1> HIDE DEF p
<1>3. Occurrences(ScratchOf(g), o) = Occurrences(ScratchOf(p), o) + Occurrences(g[Len(g)].values, o)
  <2>1. \A m \in 1 .. Len(g) - 1 : m \in 1 .. Len(fr) - 1 /\ m \in 1 .. Len(fr) /\ m # Len(fr)
    BY <1>1
  <2>2. \A m \in 1 .. Len(g) - 1, k \in 1 .. 3 : p[m].values[k] = g[m].values[k]
    BY <1>1, <1>2, <2>1
  <2>3. Len(p) = Len(g) - 1 /\ Len(g) > 0
    BY <1>1, <1>2
  <2> QED
    BY <1>1, <1>2, <2>2, <2>3, ScratchPop
<1>4. /\ Occurrences(sl, o) \in Nat /\ Is(res, o) \in Nat
      /\ Occurrences(ScratchOf(fr), o) \in Nat /\ Occurrences(ar, o) \in Nat
      /\ External(sl, res, fr, ar)[o] = Occurrences(sl, o) + Is(res, o)
              + Occurrences(ScratchOf(fr), o) + Occurrences(ar, o)
  BY ExternalAt
<1>5. /\ Occurrences(ScratchOf(g), o) \in Nat
      /\ External(sl, res, g, ar)[o] = Occurrences(sl, o) + Is(res, o)
              + Occurrences(ScratchOf(g), o) + Occurrences(ar, o)
  BY <1>1, ExternalAt
<1>6. /\ Occurrences(ScratchOf(p), o) \in Nat
  BY <1>2, ExternalAt
<1>7. Occurrences(w, o) \in Nat /\ Occurrences(f.values, o) \in Nat
  <2>1. DOMAIN w = 1 .. 3 /\ DOMAIN f.values = 1 .. 3 /\ 0 \in Nat
    <3>1. fr[Len(fr)] \in Frames
      BY <1>1
    <3> QED
      BY <3>1, FrameFields
  <2>2. IsFiniteSet(DOMAIN w) /\ IsFiniteSet(DOMAIN f.values)
    BY <2>1, PlacesFinite
  <2> QED
    BY <2>2, OccType
<1> HIDE DEF w
<1>8. g[Len(g)].values = f.values
  BY <1>1
<1> DEFINE v == f.values
<1>9. /\ Occurrences(ScratchOf(g), o) = Occurrences(ScratchOf(p), o) + Occurrences(v, o)
      /\ Occurrences(v, o) \in Nat
  BY <1>3, <1>7, <1>8
<1> HIDE DEF v
<1>10. External(sl, res, g, ar)[o] + Occurrences(w, o)
         = External(sl, res, fr, ar)[o] + Occurrences(v, o)
  BY <1>2, <1>4, <1>5, <1>6, <1>7, <1>9, SMTT(40)
<1>11. External(sl, res, g, ar)[o] \in Nat
  BY <1>4, <1>5
<1> QED
  BY <1>1, <1>10, <1>11 DEF g, w, v

(* frothy_eval_release_slot, and the node starts again.                    *)
LEMMA DiscardInv ==
  ASSUME Inv, NEW kind, NEW phase, NEW slot \in 1 .. 3, Discard(kind, phase, slot),
         (kind = "while" /\ phase = 2 /\ slot = 2) \/ (kind = "seq" /\ phase = 1 /\ slot = 1)
  PROVE  Inv'
<1>1. /\ Eval(kind, phase) /\ slots' = slots
      /\ heap' = Release(heap, <<Top.values[slot]>>)
      /\ frames' = [frames EXCEPT ![Depth] = [Without(@, {slot}) EXCEPT !.phase = 0]]
      /\ arena' = arena /\ used' = used /\ rootLocals' = rootLocals /\ result' = result
      /\ running' = running /\ stale' = stale
  BY DEF Discard
<1>2. /\ running /\ ~stale /\ frames # <<>> /\ Top.kind = kind /\ Top.phase = phase
      /\ interrupted' \in BOOLEAN
  BY <1>1, EvalRuns
<1>3. ~Passing(Top)
  BY <1>2 DEF Passing
<1> DEFINE e == Without(Top, {slot})
           f == [e EXCEPT !.phase = 0]
           g == [frames EXCEPT ![Len(frames)] = f]
           w == Top.values[slot]
           X == External(slots, result, frames, arena)
           Z == External(slots, result, g, arena)
<1>4. /\ frames \in Seq(Frames) /\ arena \in Arenas /\ slots \in Tables /\ X \in Counts
      /\ StackOK(frames, arena, used, rootLocals, result) /\ CalleesOK(frames, heap)
      /\ running \in BOOLEAN
  BY <1>2, InvRuns
<1>5. /\ Len(frames) > 0 /\ Top = frames[Len(frames)] /\ Top \in Frames /\ FrameOK(Top)
      /\ Depth = Len(frames) /\ Depth \in 1 .. Depth
  BY <1>2, TopRuns
<1>6. frames' = g
  BY <1>1, <1>4, <1>5
<1>7. /\ e \in Frames /\ SameShape(e, Top) /\ e.values[slot] = Imm
      /\ \A k \in 1 .. 3 : k # slot => e.values[k] = Top.values[k]
      /\ \A o \in ObjectIds :
           /\ Occurrences(e.values, o) + Is(w, o) = Occurrences(Top.values, o)
           /\ Occurrences(e.values, o) \in Nat
  BY <1>5, WithoutFields
<1> HIDE DEF e
<1>8. /\ f \in Frames /\ f.kind = e.kind /\ f.phase = 0 /\ f.index = e.index
      /\ f.values = e.values /\ f.buffer = e.buffer /\ f.locals = e.locals /\ f.out = e.out
  <2>1. 0 \in 0 .. 3
    OBVIOUS
  <2> QED
    BY <1>7, <2>1, WithPhase
<1> HIDE DEF f
<1>9. /\ f.kind = kind /\ f.index = Top.index /\ f.buffer = Top.buffer
      /\ f.locals = Top.locals /\ f.out = Top.out
  BY <1>2, <1>7, <1>8 DEF SameShape
<1>10. Top.index = 0 /\ Top.buffer = NoBuffer
  BY <1>2, <1>5 DEF FrameOK
<1>11. \A k \in 1 .. 3 : f.values[k] = Imm
  <2>1. \A k \in 1 .. 3 : k > Top.phase => Top.values[k] = Imm
    BY <1>5 DEF FrameOK
  <2>2. kind = "while" => Top.values[1] = Imm
    BY <1>2, <1>5 DEF FrameOK
  <2>3. CASE kind = "while" /\ phase = 2 /\ slot = 2
    <3>1. \A k \in 1 .. 3 : k = 1 \/ k = 2 \/ k > 2
      OBVIOUS
    <3> QED
      BY <1>2, <1>7, <1>8, <2>1, <2>2, <2>3, <3>1
  <2>4. CASE kind = "seq" /\ phase = 1 /\ slot = 1
    <3>1. \A k \in 1 .. 3 : k = 1 \/ k > 1
      OBVIOUS
    <3> QED
      BY <1>2, <1>7, <1>8, <2>1, <2>4, <3>1
  <2> QED
    BY <2>3, <2>4
<1>12. FrameOK(f)
  <2>1. f.index <= f.buffer.count
    BY <1>9, <1>10 DEF NoBuffer
  <2> QED
    BY <1>8, <1>9, <1>10, <1>11, <2>1 DEF FrameOK
<1>13. ~ArgPhase(f) /\ CalleeOK(f, heap) /\ f.kind # "call"
  BY <1>9 DEF ArgPhase, CalleeOK
<1>14. StackOK(g, arena, used, rootLocals, result)
  <2>1. used \in 0 .. ArenaLimit
    BY <1>4 DEF StackOK, Stacked
  <2> QED
    BY <1>3, <1>4, <1>5, <1>9, <1>12, <1>13, <2>1, TopStack
<1>15. w \in ObjectIds => X[w] > 0
  <2>1. frames[Depth].values[slot] = w
    BY <1>5
  <2> HIDE DEF w
  <2> QED
    BY <1>2, <1>5, <2>1, Held
<1> HIDE DEF w
<1>16. /\ HeapOK(heap') /\ Exact(heap', Less(X, <<w>>)) /\ KindsKept(heap', heap)
       /\ \A o \in ObjectIds : Less(X, <<w>>)[o] + Is(w, o) = X[o] /\ Less(X, <<w>>) \in Counts
  <2>1. heap' = Release(heap, <<w>>)
    BY <1>1 DEF w
  <2> QED
    BY <1>2, <1>15, <2>1, ReleaseHeld
<1>17. g \in Seq(Frames) /\ Z \in Counts
  <2>1. g \in Seq(Frames)
    BY <1>14, StackTypes
  <2> QED
    BY <1>4, <2>1, ExternalFields
<1> HIDE DEF Z, X
<1>18. \A o \in ObjectIds : Z[o] = Less(X, <<w>>)[o]
  <2> SUFFICES ASSUME NEW o \in ObjectIds PROVE Z[o] = Less(X, <<w>>)[o]
    OBVIOUS
  <2>1. Z[o] + Occurrences(Top.values, o) = X[o] + Occurrences(f.values, o)
    <3>1. /\ frames \in Seq(Frames) /\ Len(frames) > 0 /\ f \in Frames /\ slots \in Tables
          /\ arena \in Arenas
      BY <1>4, <1>5, <1>8
    <3>2. External(slots, result, g, arena)[o] + Occurrences(frames[Len(frames)].values, o)
            = External(slots, result, frames, arena)[o] + Occurrences(f.values, o)
      BY <3>1, TopReplaced
    <3> QED
      BY <1>5, <3>2 DEF Z, X
  <2>2. /\ Occurrences(f.values, o) + Is(w, o) = Occurrences(Top.values, o)
        /\ Occurrences(f.values, o) \in Nat
    BY <1>7, <1>8 DEF w
  <2>3. Z[o] \in Nat /\ X[o] \in Nat /\ Is(w, o) \in Nat /\ Less(X, <<w>>)[o] \in Nat
        /\ Less(X, <<w>>)[o] + Is(w, o) = X[o]
    BY <1>4, <1>16, <1>17, IsNotImm DEF Counts
  <2> DEFINE y == Less(X, <<w>>)[o]
  <2>4. y \in Nat /\ y + Is(w, o) = X[o]
    BY <2>3
  <2> HIDE DEF y
  <2>5. Z[o] = y
    BY <2>1, <2>2, <2>3, <2>4
  <2> QED
    BY <2>5 DEF y
<1>19. Exact(heap', Z)
  BY <1>16, <1>18, ExactSame
<1>20. CalleesOK(g, heap')
  <2>1. ASSUME NEW o \in ObjectIds PROVE Occurrences(ScratchOf(g), o) <= Z[o]
    <3>1. /\ Occurrences(slots, o) \in Nat /\ Is(result, o) \in Nat
          /\ Occurrences(ScratchOf(g), o) \in Nat /\ Occurrences(arena, o) \in Nat
          /\ Z[o] = Occurrences(slots, o) + Is(result, o)
              + Occurrences(ScratchOf(g), o) + Occurrences(arena, o)
      BY <1>4, <1>17, ExternalAt DEF Z
    <3> QED
      BY <3>1
  <2>2. /\ Len(g) = Len(frames) /\ g[Len(frames)] = f /\ Len(frames) \in Nat
        /\ \A m \in 1 .. Len(frames) : m # Len(frames) => g[m] = frames[m]
    BY <1>4, <1>5, <1>8
  <2>3. Len(g) <= Len(frames)
    <3> HIDE DEF g
    <3> QED
      BY <2>2
  <2>4. \A n \in 1 .. Len(g) :
           g[n].kind = "call" /\ g[n].phase >= 2 =>
             /\ frames[n].kind = "call" /\ frames[n].phase >= 2 /\ g[n].buffer = frames[n].buffer
             /\ g[n].values[1] = frames[n].values[1] /\ (g[n].phase = 3 => frames[n].phase = 3)
    BY <1>13, <2>2
  <2> DEFINE h == heap'
  <2>5. Exact(h, Z) /\ KindsKept(h, heap)
    BY <1>16, <1>19
  <2> HIDE DEF h, g
  <2>6. CalleesOK(g, h)
    BY <1>4, <1>17, <2>1, <2>3, <2>4, <2>5, CalleesStay
  <2> QED
    BY <2>6 DEF h
<1>21. /\ running' \in BOOLEAN /\ ~(running' = FALSE) /\ stale' = FALSE
       /\ heap' \in [ObjectIds -> Objects] /\ slots' \in Tables
  <2>1. stale \in BOOLEAN
    BY DEF Inv, TypeOK
  <2> QED
    BY <1>1, <1>2, <1>4, <1>16, <2>1 DEF HeapOK
<1>22. /\ StackOK(frames', arena', used', rootLocals', result') /\ CalleesOK(frames', heap')
       /\ Exact(heap', External(slots', result', frames', arena'))
  BY <1>1, <1>6, <1>14, <1>19, <1>20 DEF Z
<1> QED
  BY <1>2, <1>16, <1>21, <1>22, InvNext


(* A frame with a buffer for its arguments.                                *)
LEMMA WithBuffer ==
  ASSUME NEW f \in Frames, NEW b \in Buffers
  PROVE  LET g == [f EXCEPT !.phase = 2, !.buffer = b]
         IN  /\ g \in Frames /\ g.kind = f.kind /\ g.phase = 2 /\ g.index = f.index
             /\ g.values = f.values /\ g.buffer = b /\ g.locals = f.locals /\ g.out = f.out
<1>1. 2 \in 0 .. 3
  OBVIOUS
<1> QED
  BY <1>1 DEF Frames

(* frothy_eval_buffer_init: the buffer of the top frame comes after all    *)
(* others, and nothing is in it yet.                                       *)
LEMMA ToArgumentsInv ==
  ASSUME Inv, running, ~stale, frames # <<>>, slots' = slots, interrupted' \in BOOLEAN,
         Top.kind \in {"new", "call"}, Top.phase < 2,
         NEW e \in Frames, e.kind \in {"call", "builtin"}, e.index = Top.index,
         e.values = Top.values, e.locals = Top.locals, e.out = Top.out,
         NEW count \in Nat,
         e.kind = "call" => /\ e.values[1] \in Live(heap)
                            /\ heap[e.values[1]].kind \in {"code", "native", "def"}
                            /\ heap[e.values[1]].arity = count,
         ToArguments(e, count)
  PROVE  Inv'
<1>1. /\ StackOK(frames, arena, used, rootLocals, result) /\ CalleesOK(frames, heap)
      /\ frames \in Seq(Frames) /\ running \in BOOLEAN /\ HeapOK(heap) /\ slots \in Tables
      /\ heap \in [ObjectIds -> Objects] /\ arena \in Arenas
      /\ Exact(heap, External(slots, result, frames, arena))
  BY InvRuns
<1>2. /\ Depth = Len(frames) /\ Len(frames) > 0 /\ Top = frames[Len(frames)]
      /\ FrameOK(Top) /\ Top.phase \in 0 .. 3 /\ Len(frames) \in 1 .. Len(frames)
  BY TopRuns
<1>3. ~Passing(Top) /\ Top.index = 0 /\ Top.buffer = NoBuffer
  BY <1>2 DEF Passing, FrameOK
<1>4. result = Imm
  BY <1>3, TopRuns
<1>5. CASE used + count > ArenaLimit /\ Fail(heap)
  BY <1>4, <1>5, FailInv
<1>6. CASE /\ used + count <= ArenaLimit
           /\ frames' = [frames EXCEPT ![Depth] =
                     [e EXCEPT !.phase = 2, !.buffer = [base |-> used, count |-> count]]]
           /\ used' = used + count
           /\ UNCHANGED <<heap, arena, rootLocals, result, running, stale>>
  <2> DEFINE b == [base |-> used, count |-> count]
             f == [e EXCEPT !.phase = 2, !.buffer = b]
             g == [frames EXCEPT ![Len(frames)] = f]
             u2 == used + count
  <2>1. used \in Nat /\ used <= ArenaLimit /\ ArenaLimit \in Nat
    BY <1>1, StackTypes
  <2>2. u2 \in 0 .. ArenaLimit /\ b \in Buffers /\ b.base = used /\ b.count = count
    BY <1>6, <2>1 DEF Buffers
  <2>3. frames' = g
    BY <1>2, <1>6
  <2> HIDE DEF b
  <2>4. /\ f \in Frames /\ f.kind = e.kind /\ f.phase = 2 /\ f.index = e.index
        /\ f.values = e.values /\ f.buffer = b /\ f.locals = e.locals /\ f.out = e.out
    BY <2>2, WithBuffer
  <2> HIDE DEF f
  <2>5. FrameOK(f)
    <3>1. \A k \in 1 .. 3 : k > 2 => k > Top.phase
      BY <1>2
    <3>2. \A k \in 1 .. 3 : k > 2 => f.values[k] = Imm
      BY <1>2, <2>4, <3>1 DEF FrameOK
    <3>3. f.index <= f.buffer.count
      BY <1>3, <2>2, <2>4
    <3> QED
      BY <2>4, <3>2, <3>3 DEF FrameOK
  <2>6. \A i \in Cells(f.buffer) : i > f.buffer.base + f.index => arena[i] = Imm
    <3>1. ASSUME NEW i \in Cells(b) PROVE i \in 1 .. ArenaLimit /\ i > used
      BY <1>6, <2>1, <2>2, CellsAre
    <3>2. \A i \in 1 .. ArenaLimit : i > used => arena[i] = Imm
      BY <1>1 DEF StackOK, ArenaOK
    <3> QED
      BY <2>4, <3>1, <3>2
  <2>7. StackOK(g, arena, u2, rootLocals, result)
    <3>1. /\ f.buffer.base = used /\ f.buffer.base + f.buffer.count = u2
          /\ f.out = frames[Len(frames)].out /\ f.locals = frames[Len(frames)].locals
          /\ frames[Len(frames)].buffer = NoBuffer /\ ~Passing(frames[Len(frames)])
      BY <1>2, <1>3, <2>2, <2>4
    <3> HIDE DEF u2, g
    <3> QED
      BY <1>1, <1>2, <2>2, <2>5, <2>6, <3>1, TopStack DEF g
  <2>8. CalleesOK(g, heap)
    <3>1. CalleeOK(f, heap)
      BY <2>2, <2>4 DEF CalleeOK
    <3> QED
      BY <1>1, <1>2, <2>4, <3>1, TopCallee
  <2>9. ASSUME NEW o \in ObjectIds
        PROVE  External(slots, result, g, arena)[o] = External(slots, result, frames, arena)[o]
    <3>1. /\ External(slots, result, g, arena)[o] + Occurrences(frames[Len(frames)].values, o)
               = External(slots, result, frames, arena)[o] + Occurrences(f.values, o)
          /\ External(slots, result, g, arena)[o] \in Nat
      <4>1. /\ frames \in Seq(Frames) /\ Len(frames) > 0 /\ f \in Frames /\ slots \in Tables
            /\ arena \in Arenas
        BY <1>1, <1>2, <2>4
      <4> QED
        BY <4>1, TopReplaced
    <3>2. External(slots, result, frames, arena)[o] \in Nat
      <4>1. External(slots, result, frames, arena) \in Counts
        BY InvRuns
      <4> QED
        BY <4>1 DEF Counts
    <3>3. Occurrences(f.values, o) \in Nat
      <4>1. Occurrences(frames[Len(frames)].values, o) \in Nat
        BY <1>1, <1>2, TopExternal
      <4> QED
        BY <1>2, <2>4, <4>1
    <3>4. frames[Len(frames)].values = f.values
      BY <1>2, <2>4
    <3> DEFINE x == External(slots, result, g, arena)[o]
               y == External(slots, result, frames, arena)[o]
               w == Occurrences(f.values, o)
    <3>5. x + w = y + w /\ x \in Nat /\ y \in Nat /\ w \in Nat
      BY <3>1, <3>2, <3>3, <3>4
    <3> HIDE DEF x, y, w
    <3>6. x = y
      BY <3>5
    <3> QED
      BY <3>6 DEF x, y
  <2>10. Exact(heap, External(slots, result, g, arena))
    <3> DEFINE X == External(slots, result, frames, arena)
               Z == External(slots, result, g, arena)
    <3>1. Exact(heap, X) /\ \A o \in ObjectIds : Z[o] = X[o]
      BY <1>1, <2>9
    <3> HIDE DEF X, Z
    <3>2. Exact(heap, Z)
      BY <3>1, ExactSame
    <3> QED
      BY <3>2 DEF Z
  <2>11. running' \in BOOLEAN /\ ~(running' = FALSE) /\ stale' = FALSE
    <3>1. stale \in BOOLEAN
      BY DEF Inv, TypeOK
    <3> QED
      BY <1>1, <1>6, <3>1
  <2>12. /\ StackOK(frames', arena', used', rootLocals', result')
         /\ CalleesOK(frames', heap')
         /\ Exact(heap', External(slots', result', frames', arena'))
         /\ heap' \in [ObjectIds -> Objects] /\ HeapOK(heap') /\ slots' \in Tables
    BY <1>1, <1>6, <2>3, <2>7, <2>8, <2>10
  <2> QED
    BY <2>11, <2>12, InvNext
<1> QED
  BY <1>5, <1>6 DEF ToArguments

(* The arguments of a builtin.                                             *)
LEMMA BuiltinInv ==
  ASSUME Inv, Builtin
  PROVE  Inv'
<1>1. Eval("new", 0) /\ slots' = slots
  BY DEF Builtin
<1>2. /\ running /\ ~stale /\ frames # <<>> /\ Top.kind = "new" /\ Top.phase = 0
      /\ interrupted' \in BOOLEAN
  BY <1>1, EvalRuns
<1>3. Top \in Frames
  BY <1>2, TopRuns
<1>4. PICK count \in 1 .. 2 : ToArguments([Top EXCEPT !.kind = "builtin"], count)
  BY DEF Builtin
<1> DEFINE kind == "builtin"
           e == [Top EXCEPT !.kind = kind]
<1>5. kind \in FrameKinds /\ kind \in {"call", "builtin"} /\ kind # "call"
  BY DEF FrameKinds
<1>6. ToArguments(e, count)
  BY <1>4
<1> HIDE DEF kind
<1>7. /\ e \in Frames /\ e.kind = kind /\ e.phase = Top.phase /\ e.index = Top.index
      /\ e.values = Top.values /\ e.buffer = Top.buffer /\ e.locals = Top.locals /\ e.out = Top.out
  BY <1>3, <1>5, WithKind
<1> HIDE DEF e
<1>8. Top.kind \in {"new", "call"} /\ Top.phase < 2 /\ count \in Nat
  BY <1>2
<1>9. e.kind \in {"call", "builtin"} /\ e.kind # "call"
  BY <1>5, <1>7
<1> QED
  BY <1>1, <1>2, <1>6, <1>7, <1>8, <1>9, ToArgumentsInv

(* The arguments of a call: the callee stays in its scratch value.         *)
LEMMA CalleeInv ==
  ASSUME Inv, Callee
  PROVE  Inv'
<1>1. Eval("call", 1) /\ slots' = slots
  BY DEF Callee
<1>2. /\ running /\ ~stale /\ frames # <<>> /\ Top.kind = "call" /\ Top.phase = 1
      /\ interrupted' \in BOOLEAN
  BY <1>1, EvalRuns
<1>3. ~Passing(Top) /\ Top \in Frames /\ Top.values \in [1 .. 3 -> Values]
      /\ Depth \in 1 .. Depth /\ Top = frames[Depth]
  BY <1>2, TopRuns DEF Passing, Top
<1>4. CASE Fail(heap)
  <2>1. result = Imm
    BY <1>2, <1>3, TopRuns
  <2> QED
    BY <1>1, <1>2, <1>4, <2>1, FailInv
<1>5. CASE /\ KindOf(Top.values[1]) \in {"code", "native", "def"}
           /\ ToArguments(Top, heap[Top.values[1]].arity)
  <2> DEFINE c == Top.values[1]
             count == heap[c].arity
  <2>1. c # Imm
    BY <1>5 DEF KindOf
  <2>2. 1 \in 1 .. 3
    OBVIOUS
  <2>3. c \in ObjectIds /\ heap[c].kind \in {"code", "native", "def"}
    BY <1>3, <1>5, <2>1, <2>2 DEF Values, KindOf
  <2>4. frames[Depth].values[1] = c
    BY <1>3
  <2>5. ToArguments(Top, count)
    BY <1>5
  <2> HIDE DEF c
  <2>6. c \in Live(heap)
    BY <1>2, <1>3, <2>2, <2>3, <2>4, Held
  <2>7. count \in Nat
    <3>1. heap \in [ObjectIds -> Objects]
      BY <1>2, InvRuns
    <3>2. heap[c] \in Objects
      BY <2>3, <3>1
    <3> QED
      BY <3>2 DEF Objects
  <2>8. count = heap[c].arity
    OBVIOUS
  <2> HIDE DEF count
  <2>9. /\ Top.kind \in {"new", "call"} /\ Top.kind \in {"call", "builtin"} /\ Top.phase < 2
        /\ Top.values[1] \in Live(heap)
        /\ heap[Top.values[1]].kind \in {"code", "native", "def"}
        /\ heap[Top.values[1]].arity = count
    BY <1>2, <2>3, <2>6, <2>8 DEF c
  <2> QED
    BY <1>1, <1>2, <1>3, <2>5, <2>7, <2>9, ToArgumentsInv
<1> QED
  BY <1>4, <1>5 DEF Callee

(* What the callee of the top frame is.                                    *)
LEMMA TopIsCallee ==
  ASSUME Inv, ~stale, frames # <<>>
  PROVE  CalleeOK(Top, heap)
<1>1. CalleesOK(frames, heap) /\ Len(frames) \in 1 .. Len(frames) /\ Top = frames[Len(frames)]
  BY InvRuns, TopRuns
<1> QED
  BY <1>1 DEF CalleesOK, CalleeOK

(* As many arguments are evaluated as the buffer has room for.             *)
LEMMA ArgCountIs ==
  ASSUME Inv, ~stale, frames # <<>>, Top.kind \in {"call", "builtin"}, Top.phase = 2
  PROVE  /\ ArgCount(Top) = Top.buffer.count /\ ArgPhase(Top) /\ ~Passing(Top)
         /\ Top.buffer.count \in Nat /\ Top.buffer.base \in Nat
         /\ Top.index \in Nat /\ Top.buffer.count <= ArenaLimit /\ ArenaLimit \in Nat
         /\ \A i \in Cells(Top.buffer) :
              /\ i \in 1 .. ArenaLimit
              /\ i > Top.buffer.base + Top.index => arena[i] = Imm
<1>1. CalleeOK(Top, heap) /\ Top \in Frames /\ Top.index \in Nat
  BY TopIsCallee, TopRuns
<1>2. 2 >= 2
  OBVIOUS
<1>3. ArgCount(Top) = Top.buffer.count
  BY <1>1, <1>2 DEF CalleeOK, ArgCount
<1>4. ArgPhase(Top) /\ ~Passing(Top)
  BY DEF ArgPhase, Passing
<1>5. /\ StackOK(frames, arena, used, rootLocals, result)
      /\ Len(frames) > 0 /\ Top = frames[Len(frames)] /\ Len(frames) \in 1 .. Len(frames)
  BY InvRuns, TopRuns
<1>6. \A i \in Cells(Top.buffer) : i > Top.buffer.base + Top.index => arena[i] = Imm
  BY <1>4, <1>5 DEF StackOK, ArenaOK
<1>7. Cells(Top.buffer) \subseteq 1 .. used /\ 1 .. used \subseteq 1 .. ArenaLimit
  BY <1>5, TopOut
<1>8. /\ Top.buffer.count \in 0 .. ArenaLimit /\ Top.buffer.base \in Nat
      /\ Top.buffer.count \in Nat /\ ArenaLimit \in Nat
  BY <1>1, FrameFields, EvaluatorAssumption
<1>9. Top.buffer.count <= ArenaLimit
  BY <1>8
<1> QED
  BY <1>1, <1>3, <1>4, <1>6, <1>7, <1>8, <1>9

(* Only the index changes.                                                 *)
LEMMA WithIndex ==
  ASSUME NEW f \in Frames, NEW index \in 0 .. ArenaLimit
  PROVE  LET g == [f EXCEPT !.index = index]
         IN  /\ g \in Frames /\ g.kind = f.kind /\ g.phase = f.phase /\ g.index = index
             /\ g.values = f.values /\ g.buffer = f.buffer /\ g.locals = f.locals /\ g.out = f.out
BY DEF Frames

(* The next argument: its place in the buffer is empty.                    *)
LEMMA ArgumentInv ==
  ASSUME Inv, NEW kind \in {"call", "builtin"}, Argument(kind)
  PROVE  Inv'
<1>1. /\ Eval(kind, 2) /\ slots' = slots /\ Top.index < ArgCount(Top)
      /\ PushChild([Top EXCEPT !.index = Top.index + 1], Top.locals,
                   <<"arena", Top.buffer.base + Top.index + 1, 0>>)
  BY DEF Argument
<1>2. /\ running /\ ~stale /\ frames # <<>> /\ Top.kind = kind /\ Top.phase = 2
      /\ interrupted' \in BOOLEAN
  BY <1>1, EvalRuns
<1>3. Top.kind \in {"call", "builtin"}
  BY <1>2
<1>4. /\ ArgCount(Top) = Top.buffer.count /\ ArgPhase(Top) /\ ~Passing(Top)
      /\ Top.buffer.count \in Nat /\ Top.buffer.base \in Nat
      /\ Top.index \in Nat /\ Top.buffer.count <= ArenaLimit /\ ArenaLimit \in Nat
      /\ \A i \in Cells(Top.buffer) :
           /\ i \in 1 .. ArenaLimit
           /\ i > Top.buffer.base + Top.index => arena[i] = Imm
  BY <1>2, <1>3, ArgCountIs
<1>5. Top \in Frames /\ FrameOK(Top) /\ CalleeOK(Top, heap)
  BY <1>2, TopRuns, TopIsCallee
<1> DEFINE index == Top.index + 1
           f == [Top EXCEPT !.index = index]
           at == Top.buffer.base + Top.index + 1
           locals == Top.locals
           out == <<"arena", at, 0>>
<1>6. /\ index \in 0 .. ArenaLimit /\ index <= Top.buffer.count /\ index > 0
      /\ at = Top.buffer.base + index
  BY <1>1, <1>4
<1>7. at \in Cells(Top.buffer) /\ at > Top.buffer.base + Top.index
  BY <1>4, <1>6, CellsAre
<1>8. arena[at] = Imm
  BY <1>4, <1>7
<1>9. \A i \in Cells(Top.buffer) : i > Top.buffer.base + index => arena[i] = Imm
  <2>1. ASSUME NEW i \in Cells(Top.buffer), i > Top.buffer.base + index
        PROVE  i > Top.buffer.base + Top.index
    <3>1. i \in Nat
      BY <1>4, CellsAre
    <3> QED
      BY <1>4, <2>1, <3>1
  <2> QED
    BY <1>4, <2>1
<1>10. PushChild(f, locals, out)
  BY <1>1
<1> HIDE DEF index, at
<1>11. /\ f \in Frames /\ f.kind = Top.kind /\ f.phase = Top.phase /\ f.index = index
       /\ f.values = Top.values /\ f.buffer = Top.buffer /\ f.locals = Top.locals
       /\ f.out = Top.out
  BY <1>5, <1>6, WithIndex
<1> HIDE DEF f
<1>12. FrameOK(f)
  <2>1. \A k \in 1 .. 3 : k > f.phase => f.values[k] = Imm
    BY <1>5, <1>11 DEF FrameOK
  <2> QED
    BY <1>2, <1>3, <1>6, <1>11, <2>1 DEF FrameOK
<1>13. ArgPhase(f) /\ CalleeOK(f, heap)
  <2>1. f.phase # 3
    BY <1>2, <1>11
  <2> QED
    BY <1>4, <1>5, <1>11, <2>1 DEF ArgPhase, CalleeOK
<1>14. /\ \A i \in Cells(f.buffer) : i > f.buffer.base + f.index => arena[i] = Imm
       /\ out = <<"arena", f.buffer.base + f.index, 0>> /\ f.index > 0
       /\ arena[f.buffer.base + f.index] = Imm
       /\ locals = f.locals
  BY <1>6, <1>8, <1>9, <1>11
<1> HIDE DEF locals, out
<1> QED
  BY <1>1, <1>2, <1>4, <1>10, <1>11, <1>12, <1>13, <1>14, PushInv

(* The body of a function: the arguments are its locals.                   *)
LEMMA CallCodeInv ==
  ASSUME Inv, CallCode
  PROVE  Inv'
<1>1. /\ Eval("call", 2) /\ slots' = slots /\ KindOf(Top.values[1]) = "code"
      /\ PushChild([Top EXCEPT !.phase = 3], Top.buffer, Top.out)
  BY DEF CallCode, Ready
<1>2. /\ running /\ ~stale /\ frames # <<>> /\ Top.kind = "call" /\ Top.phase = 2
      /\ interrupted' \in BOOLEAN
  BY <1>1, EvalRuns
<1>3. ~Passing(Top) /\ Top \in Frames /\ FrameOK(Top) /\ CalleeOK(Top, heap)
  BY <1>2, TopRuns, TopIsCallee DEF Passing
<1> DEFINE f == [Top EXCEPT !.phase = 3]
<1>4. 3 \in 0 .. 3 /\ 2 >= 2
  OBVIOUS
<1>5. /\ f \in Frames /\ f.kind = Top.kind /\ f.phase = 3 /\ f.index = Top.index
      /\ f.values = Top.values /\ f.buffer = Top.buffer /\ f.locals = Top.locals /\ f.out = Top.out
  BY <1>3, <1>4, WithPhase
<1>6. PushChild(f, Top.buffer, Top.out)
  BY <1>1
<1> HIDE DEF f
<1>7. FrameOK(f)
  <2>1. \A k \in 1 .. 3 : ~(k > f.phase)
    BY <1>5
  <2>2. f.index <= f.buffer.count
    BY <1>3, <1>5 DEF FrameOK
  <2> QED
    BY <1>2, <1>5, <2>1, <2>2 DEF FrameOK
<1>8. ~ArgPhase(f) /\ Passing(f)
  BY <1>2, <1>5 DEF ArgPhase, Passing
<1>9. CalleeOK(f, heap)
  <2>1. Top.values[1] # Imm => heap[Top.values[1]].kind = "code"
    BY <1>1 DEF KindOf
  <2>2. Top.values[1] # Imm
    BY <1>1 DEF KindOf
  <2> QED
    BY <1>2, <1>3, <1>4, <1>5, <2>1, <2>2 DEF CalleeOK
<1> DEFINE locals == Top.buffer
           out == Top.out
<1>10. locals = f.buffer /\ out = f.out /\ PushChild(f, locals, out)
  BY <1>5, <1>6
<1> HIDE DEF locals, out
<1> QED
  BY <1>1, <1>2, <1>3, <1>5, <1>7, <1>8, <1>9, <1>10, PushInv

(* A builtin and a native: an immediate value, a new object, or an error.  *)
LEMMA CallBuiltinInv ==
  ASSUME Inv, CallBuiltin
  PROVE  Inv'
<1>1. Eval("builtin", 2) /\ slots' = slots
  BY DEF CallBuiltin, Ready
<1>2. /\ running /\ ~stale /\ frames # <<>> /\ Top.kind = "builtin" /\ Top.phase = 2
      /\ interrupted' \in BOOLEAN
  BY <1>1, EvalRuns
<1>3. ~Passing(Top)
  BY <1>2 DEF Passing
<1>4. result = Imm
  BY <1>2, <1>3, TopRuns
<1>5. CASE Complete(heap, arena, Top, Imm)
  BY <1>1, <1>2, <1>3, <1>5, CompleteImm
<1>6. CASE /\ CanAppend(heap)
           /\ Complete(Append1(heap, Object("cells", 0, <<Imm>>)), arena, Top, Appended(heap))
  <2> DEFINE kids == <<Imm>>
             kind == "cells"
             arity == 0
  <2>1. kids \in Seq(Values) /\ kids = <<Imm>> /\ Len(kids) = 1
    BY DEF Values
  <2>2. KidsLen(kind) = 1 /\ kind \in ObjectKinds \ {"free"} /\ kind # "def"
        /\ arity \in 0 .. 1
    BY DEF KidsLen, ObjectKinds
  <2>3. Complete(Append1(heap, Object(kind, arity, kids)), arena, Top, Appended(heap))
    BY <1>6
  <2> HIDE DEF kids, kind, arity
  <2> QED
    BY <1>1, <1>2, <1>3, <1>6, <2>1, <2>2, <2>3, CompleteNew
<1>7. CASE Fail(heap)
  BY <1>1, <1>2, <1>4, <1>7, FailInv
<1> QED
  BY <1>5, <1>6, <1>7 DEF CallBuiltin

(* A native borrows its arguments; the buffer releases them.               *)
LEMMA CallNativeInv ==
  ASSUME Inv, CallNative
  PROVE  Inv'
<1>1. Eval("call", 2) /\ slots' = slots
  BY DEF CallNative, Ready
<1>2. /\ running /\ ~stale /\ frames # <<>> /\ Top.kind = "call" /\ Top.phase = 2
      /\ interrupted' \in BOOLEAN
  BY <1>1, EvalRuns
<1>3. ~Passing(Top)
  BY <1>2 DEF Passing
<1>4. result = Imm
  BY <1>2, <1>3, TopRuns
<1>5. CASE Complete(heap, arena, Top, Imm)
  BY <1>1, <1>2, <1>3, <1>5, CompleteImm
<1>6. CASE /\ CanAppend(heap)
           /\ Complete(Append1(heap, Object("text", 0, <<>>)), arena, Top, Appended(heap))
  <2> DEFINE kids == <<>>
             kind == "text"
             arity == 0
  <2>1. kids \in Seq(Values) /\ kids = <<>> /\ Len(kids) = 0
    OBVIOUS
  <2>2. KidsLen(kind) = 0 /\ kind \in ObjectKinds \ {"free"} /\ kind # "def"
        /\ arity \in 0 .. 1
    BY DEF KidsLen, ObjectKinds
  <2>3. Complete(Append1(heap, Object(kind, arity, kids)), arena, Top, Appended(heap))
    BY <1>6
  <2> HIDE DEF kids, kind, arity
  <2> QED
    BY <1>1, <1>2, <1>3, <1>6, <2>1, <2>2, <2>3, CompleteNew
<1>7. CASE Fail(heap)
  BY <1>1, <1>2, <1>4, <1>7, FailInv
<1> QED
  BY <1>5, <1>6, <1>7 DEF CallNative

(* frothy_runtime_alloc_record: the counts of the definition and the field *)
(* become those of the record, whose own count is that of the value.       *)
LEMMA CallDefInv ==
  ASSUME Inv, CallDef
  PROVE  Inv'
<1>1. Eval("call", 2) /\ slots' = slots /\ KindOf(Top.values[1]) = "def" /\ Top.index = ArgCount(Top)
  BY DEF CallDef, Ready
<1>2. /\ running /\ ~stale /\ frames # <<>> /\ Top.kind = "call" /\ Top.phase = 2
      /\ interrupted' \in BOOLEAN
  BY <1>1, EvalRuns
<1>3. ~Passing(Top) /\ CalleeOK(Top, heap) /\ Top.kind \in {"call", "builtin"}
  BY <1>2, TopIsCallee DEF Passing
<1>4. CASE Fail(heap)
  <2>1. result = Imm
    BY <1>2, <1>3, TopRuns
  <2> QED
    BY <1>1, <1>2, <1>4, <2>1, FailInv
<1> DEFINE def == Top.values[1]
           at == Top.buffer.base + 1
           field == arena[at]
<1>5. CASE /\ CanAppend(heap)
           /\ Complete(Append1(Retain(Retain(heap, def), field),
                               Object("record", 0, <<field, def>>)),
                       arena, Top, Appended(heap))
  <2> DEFINE X == External(slots, result, frames, arena)
             g == Retain(heap, def)
             e == Retain(g, field)
             kids == <<field, def>>
             kind == "record"
             arity == 0
             h == Append1(e, Object(kind, arity, kids))
             new == Appended(heap)
  <2>1. def # Imm /\ heap[def].kind = "def"
    BY <1>1 DEF KindOf
  <2>2. def \in Live(heap) /\ heap[def].arity = Top.buffer.count
    BY <1>2, <1>3 DEF CalleeOK
  <2>3. def \in ObjectIds
    BY <2>2 DEF Live
  <2>4. /\ HeapOK(heap) /\ Exact(heap, X) /\ X \in Counts
        /\ arena \in Arenas
    BY <1>2, InvRuns
  <2>5. Top.buffer.count = 1
    BY <2>1, <2>2, <2>3, <2>4 DEF HeapOK
  <2>6. at \in 1 .. ArenaLimit
    <3>1. Top.buffer.base \in Nat /\ Top.buffer.count \in Nat
          /\ \A i \in Cells(Top.buffer) : i \in 1 .. ArenaLimit
      BY <1>2, <1>3, ArgCountIs
    <3>2. at \in Cells(Top.buffer)
      BY <2>5, <3>1 DEF Cells
    <3> QED
      BY <3>1, <3>2
  <2> HIDE DEF at
  <2>7. field \in Values
    BY <2>4, <2>6 DEF Arenas
  <2>8. field \in ObjectIds => field \in Live(heap)
    BY <1>2, <2>6, Held
  <2>9. Complete(h, arena, Top, new)
    BY <1>5
  <2>10. def \in Values
    BY <2>3 DEF Values
  <2> HIDE DEF def, field, X
  <2>11. kids \in Seq(Values) /\ Len(kids) = 2 /\ kids[1] = field /\ kids[2] = def
    BY <2>7, <2>10
  <2>12. KidsLen(kind) = 2 /\ kind \in ObjectKinds \ {"free"} /\ kind # "def"
         /\ arity \in 0 .. 1
    BY DEF KidsLen, ObjectKinds
  <2>13. /\ HeapOK(g) /\ Exact(g, More(X, def)) /\ SameObjects(g, heap) /\ Live(g) = Live(heap)
    BY <2>2, <2>4, <2>10, RetainExact
  <2> HIDE DEF g
  <2> DEFINE Y == More(X, def)
             Z == More(Y, field)
  <2>14. Y \in Counts /\ \A o \in ObjectIds : Y[o] = X[o] + Is(def, o)
    BY <2>4, MoreType
  <2>15. Exact(g, Y)
    BY <2>13
  <2> HIDE DEF Y
  <2>16. /\ HeapOK(e) /\ Exact(e, Z) /\ SameObjects(e, g) /\ Live(e) = Live(g)
    BY <2>7, <2>8, <2>13, <2>14, <2>15, RetainExact
  <2>17. Z \in Counts /\ \A o \in ObjectIds : Z[o] = Y[o] + Is(field, o)
    BY <2>14, MoreType
  <2> HIDE DEF e, Z, kind, arity, kids
  <2>18. \A o \in ObjectIds :
           Z[o] = X[o] + (IF Len(kids) = 0 THEN 0 ELSE Is(kids[1], o))
                       + (IF Len(kids) = 2 THEN Is(kids[2], o) ELSE 0)
    <3> SUFFICES ASSUME NEW o \in ObjectIds
                 PROVE  Z[o] = X[o] + Is(field, o) + Is(def, o)
      BY <2>11
    <3>1. Z[o] = Y[o] + Is(field, o) /\ Y[o] = X[o] + Is(def, o) /\ X[o] \in Nat
      BY <2>4, <2>14, <2>17 DEF Counts
    <3>2. Is(field, o) \in Nat /\ Is(def, o) \in Nat
      BY DEF Is
    <3> QED
      BY <3>1, <3>2
  <2>19. CanAppend(e) /\ new = Appended(e)
    BY <1>5, <2>13, <2>16 DEF CanAppend, Appended
  <2> DEFINE n2 == Appended(e)
  <2>20. /\ HeapOK(h) /\ Exact(h, More(X, n2))
         /\ n2 \in ObjectIds /\ n2 \notin Live(e)
         /\ \A o \in ObjectIds : o # n2 => h[o] = e[o]
    <3>1. /\ CanAppend(e) /\ HeapOK(e) /\ Exact(e, Z) /\ X \in Counts /\ Z \in Counts
          /\ kind \in ObjectKinds \ {"free"} /\ arity \in 0 .. 1
          /\ kids \in Seq(Values) /\ Len(kids) = KidsLen(kind)
      BY <2>4, <2>11, <2>12, <2>16, <2>17, <2>19
    <3>2. kind = "def" => arity = 1
      BY <2>12
    <3>3. Moved(Z, X, kids)
      BY <2>18 DEF Moved
    <3> HIDE DEF new
    <3> QED
      BY <3>1, <3>2, <3>3, AppendExact
  <2>21. /\ HeapOK(h) /\ Exact(h, More(X, new)) /\ new \in ObjectIds /\ new \notin Live(heap)
         /\ \A o \in ObjectIds : o # new => h[o] = e[o]
    BY <2>13, <2>16, <2>19, <2>20
  <2> HIDE DEF h, new
  <2>22. KindsKept(h, heap) /\ new \in Values
    BY <2>13, <2>16, <2>21 DEF KindsKept, SameObjects, Live, Values
  <2> QED
    BY <1>1, <1>2, <1>3, <2>9, <2>21, <2>22, CompleteTop DEF X
<1> QED
  BY <1>4, <1>5 DEF CallDef

(* The frame of a program that starts.                                     *)
LEMMA FreshStack ==
  ASSUME NEW rl \in Buffers, rl.base = 0, NEW h
  PROVE  LET fr == <<NewFrame(rl, <<"result", 0, 0>>)>>
         IN  /\ StackOK(fr, EmptyArena, rl.count, rl, Imm) /\ CalleesOK(fr, h)
             /\ fr \in Seq(Frames)
             /\ \A o \in ObjectIds : Occurrences(ScratchOf(fr), o) = 0
<1> DEFINE out == <<"result", 0, 0>>
           c == NewFrame(rl, out)
           fr == <<c>>
           us == rl.count
<1>1. out \in Outs /\ out[1] = "result"
  BY DEF Outs
<1> HIDE DEF out
<1>2. /\ FrameOK(c) /\ ~Passing(c) /\ ~ArgPhase(c)
      /\ c.out = out /\ c.locals = rl /\ Cells(c.buffer) = {}
      /\ c.kind = "new" /\ \A k \in 1 .. 3 : c.values[k] = Imm
  BY <1>1, NewFrameFields
<1> HIDE DEF c
<1>3. c \in Frames
  BY <1>2 DEF FrameOK
<1>4. fr \in Seq(Frames) /\ Len(fr) = 1 /\ fr[1] = c
  BY <1>3
<1> HIDE DEF fr
<1>5. us \in Nat /\ us \in 0 .. ArenaLimit /\ ArenaLimit \in Nat /\ rl.base \in Nat
  BY EvaluatorAssumption DEF Buffers
<1>6. \A i : i \in Cells(rl) <=> i \in 1 .. us
  BY <1>5 DEF Cells
<1>7. Buf(fr, rl, 0) = rl /\ Buf(fr, rl, 1) = c.buffer
  BY <1>4 DEF Buf
<1>8. 0 .. 1 = {0, 1} /\ 1 .. 1 = {1} /\ 2 .. 1 = {}
  OBVIOUS
<1>9. FramesOK(fr)
  BY <1>2, <1>4, <1>8, EvaluatorAssumption DEF FramesOK
<1>10. Stacked(fr, us, rl)
  <2>1. ASSUME NEW m \in 0 .. 1, NEW n \in 0 .. 1, m < n,
               NEW i \in Cells(Buf(fr, rl, m)), NEW j \in Cells(Buf(fr, rl, n))
        PROVE  i < j
    <3>1. n = 1
      BY <2>1
    <3> QED
      BY <1>2, <1>7, <3>1
  <2>2. \A n \in 0 .. 1 : \A i \in Cells(Buf(fr, rl, n)) : i \in 1 .. us
    BY <1>2, <1>6, <1>7, <1>8
  <2>3. \A i \in 1 .. us : \E n \in 0 .. 1 : i \in Cells(Buf(fr, rl, n))
    BY <1>6, <1>7, <1>8
  <2> QED
    BY <1>4, <1>5, <2>1, <2>2, <2>3 DEF Stacked
<1>11. EmptyArena \in [1 .. ArenaLimit -> Values] /\ \A i \in 1 .. ArenaLimit : EmptyArena[i] = Imm
  BY DEF EmptyArena, Values
<1>12. ArenaOK(fr, EmptyArena, us)
  BY <1>2, <1>4, <1>8, <1>11 DEF ArenaOK
<1>13. OutsOK(fr)
  BY <1>1, <1>2, <1>4, <1>8 DEF OutsOK
<1>14. Distinct(fr)
  <2>1. \A m, n \in 1 .. 1 : ~(m < n)
    OBVIOUS
  <2> QED
    BY <1>4, <1>8, <2>1 DEF Distinct
<1>15. FreeOuts(fr, EmptyArena, Imm)
  BY <1>1, <1>2, <1>4, <1>8 DEF FreeOuts, At
<1>16. LocalsOK(fr, us)
  BY <1>2, <1>4, <1>6, <1>8 DEF LocalsOK
<1>17. StackOK(fr, EmptyArena, us, rl, Imm)
  BY <1>9, <1>10, <1>12, <1>13, <1>14, <1>15, <1>16 DEF StackOK, Values
<1>18. CalleesOK(fr, h)
  BY <1>2, <1>4, <1>8 DEF CalleesOK
<1>19. ASSUME NEW o \in ObjectIds PROVE Occurrences(ScratchOf(fr), o) = 0
  <2> DEFINE S == ScratchOf(fr)
  <2>1. ASSUME NEW p \in DOMAIN S PROVE S[p] = Imm
    BY <1>2, <1>4, <1>8 DEF ScratchOf
  <2>2. IsFiniteSet(DOMAIN S)
    BY <1>4, ScratchFields
  <2> HIDE DEF S
  <2>3. \A p \in DOMAIN S : S[p] # o
    BY <2>1, IsNotImm
  <2> QED
    BY <2>2, <2>3, OccZero DEF S
<1> QED
  BY <1>4, <1>17, <1>18, <1>19 DEF fr, c, out

(* A program starts with locals that are empty.                            *)
LEMMA EvalProgramInv ==
  ASSUME Inv, EvalProgram
  PROVE  Inv'
<1>1. /\ ~running /\ result = Imm /\ running' = TRUE
      /\ heap' = heap /\ slots' = slots /\ arena' = arena /\ result' = result
      /\ stale' = stale /\ interrupted' = interrupted
  BY DEF EvalProgram
<1>2. ~stale /\ frames = <<>> /\ arena = EmptyArena
  BY <1>1 DEF Inv
<1>3. /\ HeapOK(heap) /\ heap \in [ObjectIds -> Objects] /\ slots \in Tables
      /\ interrupted \in BOOLEAN
      /\ Exact(heap, External(slots, Imm, <<>>, EmptyArena))
  BY <1>1, <1>2, InvRuns
<1>4. PICK count \in {0, 1} :
        /\ count <= ArenaLimit /\ rootLocals' = [base |-> 0, count |-> count] /\ used' = count
        /\ frames' = <<NewFrame(rootLocals', <<"result", 0, 0>>)>>
  BY DEF EvalProgram
<1> DEFINE rl == [base |-> 0, count |-> count]
           fr == <<NewFrame(rl, <<"result", 0, 0>>)>>
<1>5. rl \in Buffers /\ rl.base = 0 /\ rl.count = count
  BY <1>4, EvaluatorAssumption DEF Buffers
<1>6. frames' = fr /\ rootLocals' = rl
  BY <1>4
<1> HIDE DEF rl
<1>7. /\ StackOK(fr, EmptyArena, rl.count, rl, Imm) /\ CalleesOK(fr, heap)
      /\ fr \in Seq(Frames)
      /\ \A o \in ObjectIds : Occurrences(ScratchOf(fr), o) = 0
  BY <1>5, FreshStack
<1> HIDE DEF fr
<1> DEFINE X == External(slots, Imm, <<>>, EmptyArena)
           Z == External(slots, Imm, fr, EmptyArena)
<1>8. ASSUME NEW o \in ObjectIds PROVE Z[o] = X[o]
  <2>1. X[o] = Occurrences(slots, o) + Is(Imm, o)
        /\ Occurrences(slots, o) \in Nat /\ Is(Imm, o) \in Nat
    BY <1>3, ExternalNone
  <2>2. Occurrences(EmptyArena, o) = 0 /\ EmptyArena \in Arenas
    BY ArenaNone
  <2>3. Z[o] = Occurrences(slots, o) + Is(Imm, o) + Occurrences(ScratchOf(fr), o)
                 + Occurrences(EmptyArena, o)
    BY <1>3, <1>7, <2>2, ExternalAt
  <2>4. Occurrences(ScratchOf(fr), o) = 0
    BY <1>7
  <2> HIDE DEF X, Z
  <2> QED
    BY <2>1, <2>2, <2>3, <2>4
<1>9. Exact(heap, X)
  BY <1>3
<1> HIDE DEF X, Z
<1>10. Exact(heap, Z)
  BY <1>8, <1>9, ExactSame
<1>11. /\ StackOK(frames', arena', used', rootLocals', result')
       /\ CalleesOK(frames', heap')
       /\ Exact(heap', External(slots', result', frames', arena'))
       /\ heap' \in [ObjectIds -> Objects] /\ HeapOK(heap') /\ slots' \in Tables
       /\ running' \in BOOLEAN /\ ~(running' = FALSE) /\ interrupted' \in BOOLEAN
  BY <1>1, <1>2, <1>3, <1>4, <1>5, <1>6, <1>7, <1>10 DEF Z
<1>12. stale' = FALSE
  <2>1. stale \in BOOLEAN
    BY DEF Inv, TypeOK
  <2> QED
    BY <1>1, <1>2, <2>1
<1> QED
  BY <1>11, <1>12, InvNext

(* The locals of the program are what is left in the arena.                *)
LEMMA ProgramEndsInv ==
  ASSUME Inv, ProgramEnds
  PROVE  Inv'
<1>1. /\ running /\ ~stale /\ frames = <<>>
      /\ heap' = Release(heap, Region(rootLocals))
      /\ rootLocals' = NoBuffer /\ arena' = EmptyArena /\ used' = 0 /\ running' = FALSE
      /\ slots' = slots /\ frames' = frames /\ result' = result /\ stale' = stale
      /\ interrupted' = interrupted
  BY DEF ProgramEnds
<1> DEFINE X == External(slots, result, frames, arena)
           Z == External(slots, result, <<>>, EmptyArena)
           R == RegionOf(arena, rootLocals)
<1>2. /\ HeapOK(heap) /\ slots \in Tables /\ interrupted \in BOOLEAN
      /\ Exact(heap, X) /\ X \in Counts /\ result \in Values /\ arena \in Arenas
      /\ frames \in Seq(Frames)
      /\ StackOK(frames, arena, used, rootLocals, result)
  BY <1>1, InvRuns
<1>3. heap' = Release(heap, R)
  BY <1>1 DEF Region, RegionOf
<1>4. \A i : i \in Cells(rootLocals) <=> i \in 1 .. used
  <2>1. Len(frames) = 0 /\ 0 .. 0 = {0} /\ Buf(frames, rootLocals, 0) = rootLocals
    BY <1>1 DEF Buf
  <2>2. Stacked(frames, used, rootLocals)
    BY <1>2 DEF StackOK
  <2>3. /\ \A n \in 0 .. 0 : \A i \in Cells(Buf(frames, rootLocals, n)) : i \in 1 .. used
        /\ \A i \in 1 .. used : \E n \in 0 .. 0 : i \in Cells(Buf(frames, rootLocals, n))
    BY <2>1, <2>2 DEF Stacked
  <2> QED
    BY <2>1, <2>3
<1>5. /\ used \in Nat /\ used <= ArenaLimit /\ ArenaLimit \in Nat
      /\ DOMAIN arena = 1 .. ArenaLimit
      /\ \A i \in 1 .. ArenaLimit : i > used => arena[i] = Imm
  BY <1>2, StackTypes DEF StackOK, ArenaOK
<1>6. Cells(rootLocals) \subseteq 1 .. ArenaLimit
  BY <1>4, <1>5
<1>7. IsFiniteSet(DOMAIN R)
  BY <1>2, <1>6, ArenaSplit
<1>8. ASSUME NEW o \in ObjectIds
      PROVE  /\ X[o] = Z[o] + Occurrences(R, o)
             /\ Z[o] \in Nat /\ Occurrences(R, o) \in Nat
  <2>1. DOMAIN R = Cells(rootLocals) /\ \A i \in Cells(rootLocals) : R[i] = arena[i]
    BY DEF RegionOf
  <2> HIDE DEF R
  <2>2. ASSUME NEW k PROVE (k \in DOMAIN R /\ R[k] = o) <=> (k \in DOMAIN arena /\ arena[k] = o)
    <3>1. o # Imm
      BY IsNotImm
    <3>2. k \in 1 .. ArenaLimit /\ arena[k] # Imm => k \in 1 .. used
      BY <1>5
    <3> QED
      BY <1>4, <1>5, <1>6, <2>1, <3>1, <3>2
  <2>3. Occurrences(R, o) = Occurrences(arena, o)
    BY <2>2, OccSame
  <2>4. /\ Occurrences(slots, o) \in Nat /\ Is(result, o) \in Nat
        /\ Occurrences(ScratchOf(frames), o) \in Nat /\ Occurrences(arena, o) \in Nat
        /\ X[o] = Occurrences(slots, o) + Is(result, o)
              + Occurrences(ScratchOf(frames), o) + Occurrences(arena, o)
    BY <1>2, ExternalAt
  <2>5. Occurrences(ScratchOf(frames), o) = 0
    BY <1>1, ScratchNone
  <2>6. Z[o] = Occurrences(slots, o) + Is(result, o)
    BY <1>2, ExternalNone
  <2> HIDE DEF X, Z
  <2> QED
    BY <2>3, <2>4, <2>5, <2>6
<1> HIDE DEF X, Z, R
<1>9. \A o \in ObjectIds : Occurrences(R, o) <= X[o]
  BY <1>8
<1>10. HeapOK(heap') /\ Exact(heap', Less(X, R))
  BY <1>2, <1>3, <1>7, <1>9, ReleaseExact
<1>11. \A o \in ObjectIds : Z[o] = Less(X, R)[o]
  <2>1. \A o \in ObjectIds : Less(X, R)[o] = X[o] - Occurrences(R, o)
    BY DEF Less
  <2> QED
    BY <1>8, <2>1
<1>12. Exact(heap', Z)
  BY <1>10, <1>11, ExactSame
<1>13. /\ StackOK(frames', arena', used', rootLocals', result')
       /\ CalleesOK(frames', heap')
  BY <1>1, <1>2, EmptyStack
<1>14. /\ Exact(heap', External(slots', result', frames', arena'))
       /\ heap' \in [ObjectIds -> Objects] /\ HeapOK(heap') /\ slots' \in Tables
       /\ running' \in BOOLEAN /\ interrupted' \in BOOLEAN
       /\ frames' = <<>> /\ arena' = EmptyArena /\ used' = 0 /\ rootLocals' = NoBuffer
  BY <1>1, <1>2, <1>10, <1>12 DEF Z, HeapOK
<1>15. stale' = FALSE
  <2>1. stale \in BOOLEAN
    BY DEF Inv, TypeOK
  <2> QED
    BY <1>1, <2>1
<1> QED
  BY <1>13, <1>14, <1>15, InvNext

(* The shell gives up the result after it was shown.                       *)
LEMMA FreeResultInv ==
  ASSUME Inv, FreeResult
  PROVE  Inv'
<1>1. /\ ~running /\ result # Imm /\ heap' = Release(heap, <<result>>) /\ result' = Imm
      /\ slots' = slots /\ frames' = frames /\ arena' = arena /\ used' = used
      /\ rootLocals' = rootLocals /\ running' = running /\ stale' = stale
      /\ interrupted' = interrupted
  BY DEF FreeResult
<1>2. ~stale /\ frames = <<>> /\ arena = EmptyArena /\ used = 0 /\ rootLocals = NoBuffer
  BY <1>1 DEF Inv
<1> DEFINE X == External(slots, result, frames, arena)
           Z == External(slots, Imm, <<>>, EmptyArena)
           Y == Less(X, <<result>>)
<1>3. slots \in Tables /\ interrupted \in BOOLEAN /\ running \in BOOLEAN /\ result \in Values
  BY <1>2, InvRuns
<1>4. result \in ObjectIds => X[result] > 0
  BY <1>2, Held
<1>5. /\ HeapOK(heap') /\ Exact(heap', Y) /\ Y \in Counts
      /\ \A o \in ObjectIds : Y[o] + Is(result, o) = X[o]
  BY <1>1, <1>2, <1>4, ReleaseHeld
<1>6. ASSUME NEW o \in ObjectIds PROVE Z[o] = Y[o]
  <2>1. X[o] = Occurrences(slots, o) + Is(result, o)
    BY <1>2, <1>3, ExternalNone
  <2>2. Z[o] = Occurrences(slots, o) + Is(Imm, o)
        /\ Occurrences(slots, o) \in Nat
    BY <1>3, ExternalNone
  <2>3. Is(Imm, o) = 0 /\ Is(result, o) \in Nat
    BY IsNotImm DEF Is
  <2>4. Y[o] + Is(result, o) = X[o] /\ Y[o] \in Nat
    BY <1>5 DEF Counts
  <2> HIDE DEF X, Y, Z
  <2> QED
    BY <2>1, <2>2, <2>3, <2>4
<1> HIDE DEF X, Y, Z
<1>7. Exact(heap', Z)
  BY <1>5, <1>6, ExactSame
<1>8. StackOK(frames', arena', used', rootLocals', result') /\ CalleesOK(frames', heap')
  <2>1. Imm \in Values
    BY DEF Values
  <2> QED
    BY <1>1, <1>2, <2>1, EmptyStack
<1>9. /\ Exact(heap', External(slots', result', frames', arena'))
      /\ heap' \in [ObjectIds -> Objects] /\ HeapOK(heap') /\ slots' \in Tables
      /\ running' \in BOOLEAN /\ interrupted' \in BOOLEAN
      /\ frames' = <<>> /\ arena' = EmptyArena /\ used' = 0 /\ rootLocals' = NoBuffer
  BY <1>1, <1>2, <1>3, <1>5, <1>7 DEF Z, HeapOK
<1>10. stale' = FALSE
  <2>1. stale \in BOOLEAN
    BY DEF Inv, TypeOK
  <2> QED
    BY <1>1, <1>2, <2>1
<1> QED
  BY <1>8, <1>9, <1>10, InvNext

(* The base image: one native, which one slot holds.                       *)
LEMMA BaseExact ==
  /\ HeapOK(BaseHeap) /\ BaseSlots \in Tables
  /\ Exact(BaseHeap, ExternalStale(BaseSlots, Imm))
<1>1. 1 \in ObjectIds
  BY EvaluatorAssumption DEF ObjectIds
<1> DEFINE native == [NoObject EXCEPT !.kind = "native", !.refs = 1]
           h == BaseHeap
<1>2. /\ native.kind = "native" /\ native.refs = 1 /\ native.arity = 0 /\ native.kids = <<>>
      /\ NoObject.kind = "free" /\ NoObject.kids = <<>> /\ NoObject.refs = 0
  BY DEF NoObject
<1>3. native \in Objects /\ NoObject \in Objects
  <2> DEFINE none == <<>>
  <2>1. none \in Seq(Values)
    OBVIOUS
  <2>2. NoObject = [kind |-> "free", refs |-> 0, arity |-> 0, kids |-> none]
    BY DEF NoObject
  <2> HIDE DEF none
  <2>3. NoObject \in Objects
    BY <2>1, <2>2 DEF Objects, ObjectKinds
  <2> QED
    BY <2>3 DEF Objects, ObjectKinds
<1>4. /\ h \in [ObjectIds -> Objects] /\ h[1] = native
      /\ \A o \in ObjectIds : o # 1 => h[o] = NoObject
  <2> HIDE DEF native
  <2>1. h = [o \in ObjectIds |-> IF o = 1 THEN native ELSE NoObject]
    BY DEF BaseHeap, native
  <2> HIDE DEF h
  <2> QED
    BY <1>1, <1>3, <2>1
<1> HIDE DEF native, h
<1>5. HeapOK(h)
  <2>1. \A o \in ObjectIds : h[o] = native \/ h[o] = NoObject
    BY <1>4
  <2>2. KidsLen("native") = 0 /\ KidsLen("free") = 0 /\ Len(<<>>) = 0
    BY DEF KidsLen
  <2> QED
    BY <1>2, <1>4, <2>1, <2>2 DEF HeapOK
<1>6. Live(h) = {1}
  BY <1>1, <1>2, <1>4 DEF Live
<1>7. \A o \in ObjectIds : KidCount(h, Live(h), o) = 0
  <2>1. Len(h[1].kids) = 0
    BY <1>2, <1>4
  <2> QED
    BY <1>1, <1>5, <1>6, <2>1, KidsOfOne
<1> DEFINE t == BaseSlots
<1>8. t \in Tables /\ DOMAIN t = Slots /\ t[ResetSlot] = 1 /\ ResetSlot \in Slots
      /\ \A s \in Slots : s # ResetSlot => t[s] = 0
  BY <1>1, EvaluatorAssumption DEF BaseSlots, Tables, Unbound, Values
<1>9. IsFiniteSet(DOMAIN t)
  BY <1>8, EvaluatorAssumption
<1>10. \A o \in ObjectIds : o # 0
  BY EvaluatorAssumption DEF ObjectIds
<1> HIDE DEF t
<1>11. ASSUME NEW o \in ObjectIds PROVE Occurrences(t, o) = Is(1, o)
  <2>1. CASE o = 1
    <3> DEFINE P == {s \in DOMAIN t : t[s] = o}
    <3>1. P = {ResetSlot}
      BY <1>8, <2>1
    <3> HIDE DEF P
    <3>2. Cardinality(P) = 1
      BY <3>1, FS_Singleton
    <3> QED
      BY <2>1, <3>2 DEF P, Occurrences, Is
  <2>2. CASE o # 1
    <3>1. \A s \in DOMAIN t : t[s] # o
      BY <1>8, <1>10, <2>2
    <3>2. Occurrences(t, o) = 0
      BY <1>9, <3>1, OccZero
    <3> QED
      BY <2>2, <3>2 DEF Is
  <2> QED
    BY <2>1, <2>2
<1> DEFINE X == ExternalStale(t, Imm)
<1>12. ASSUME NEW o \in ObjectIds PROVE X[o] = Is(1, o)
  <2>1. X[o] = Occurrences(t, o) + Is(Imm, o) /\ Is(Imm, o) = 0
    BY IsNotImm DEF ExternalStale
  <2>2. Is(1, o) \in Nat
    BY DEF Is
  <2> HIDE DEF X
  <2> QED
    BY <1>11, <2>1, <2>2
<1> HIDE DEF X
<1>13. Exact(h, X)
  <2> SUFFICES ASSUME NEW o \in ObjectIds
               PROVE  IF o \in Live(h)
                        THEN h[o].refs = X[o] + KidCount(h, Live(h), o) /\ h[o].refs > 0
                        ELSE X[o] + KidCount(h, Live(h), o) = 0
    BY DEF Exact
  <2>1. X[o] = Is(1, o) /\ KidCount(h, Live(h), o) = 0
    BY <1>7, <1>12
  <2> QED
    BY <1>2, <1>4, <1>6, <2>1 DEF Is
<1> QED
  BY <1>5, <1>8, <1>13 DEF h, t, X

(* Only the base image is counted after a reset, and there is no result.   *)
LEMMA NativeResetsInv ==
  ASSUME Inv, NativeResets
  PROVE  Inv'
<1>1. /\ Eval("call", 2) /\ heap' = BaseHeap /\ slots' = BaseSlots /\ used' = 0 /\ stale' = TRUE
      /\ frames' = frames /\ arena' = arena /\ rootLocals' = rootLocals /\ result' = result
      /\ running' = running
  BY DEF NativeResets, Ready
<1>2. /\ running /\ ~stale /\ frames # <<>> /\ Top.kind = "call" /\ Top.phase = 2
      /\ interrupted' \in BOOLEAN
  BY <1>1, EvalRuns
<1>3. result = Imm
  <2>1. ~Passing(Top)
    BY <1>2 DEF Passing
  <2> QED
    BY <1>2, <2>1, TopRuns
<1>4. HeapOK(heap') /\ slots' \in Tables /\ Exact(heap', ExternalStale(slots', result'))
  BY <1>1, <1>3, BaseExact
<1>5. TypeOK'
  <2>1. 0 \in 0 .. ArenaLimit
    BY EvaluatorAssumption
  <2> QED
    BY <1>1, <1>2, <1>4, <2>1 DEF Inv, TypeOK, HeapOK, Tables
<1> QED
  BY <1>1, <1>2, <1>3, <1>4, <1>5 DEF Inv

(* The loop notices a reset and drops all frames without a release.        *)
LEMMA ResetEndsInv ==
  ASSUME Inv, ResetEnds
  PROVE  Inv'
<1>1. stale /\ Fail(heap) /\ slots' = slots /\ interrupted' \in BOOLEAN
  BY DEF ResetEnds, Inv, TypeOK
<1> QED
  BY <1>1, FailInv

(* An interrupt ends the program before a node starts.                     *)
LEMMA PollInterruptInv ==
  ASSUME Inv, PollInterrupt
  PROVE  Inv'
<1>1. /\ running /\ ~stale /\ frames # <<>> /\ Top.phase = 0
      /\ Fail(heap) /\ slots' = slots /\ interrupted' \in BOOLEAN
  BY DEF PollInterrupt, Polls
<1>2. ~Passing(Top)
  BY <1>1 DEF Passing
<1>3. result = Imm
  BY <1>1, <1>2, TopRuns
<1> QED
  BY <1>1, <1>3, FailInv

(* A signal changes nothing else.                                          *)
LEMMA SignalInv ==
  ASSUME Inv, interrupted' \in BOOLEAN,
         UNCHANGED <<heap, slots, frames, arena, used, rootLocals, result, running, stale>>
  PROVE  Inv'
<1>1. TypeOK'
  BY DEF Inv, TypeOK
<1> QED
  BY <1>1 DEF Inv

(* The initial state.                                                      *)
LEMMA InitInv ==
  ASSUME Init
  PROVE  Inv
<1>1. /\ heap = BaseHeap /\ slots = BaseSlots /\ frames = <<>> /\ arena = EmptyArena /\ used = 0
      /\ rootLocals = NoBuffer /\ result = Imm /\ ~running /\ ~stale
  BY DEF Init
<1>2. Imm \in Values
  BY DEF Values
<1>3. StackOK(frames, arena, used, rootLocals, result) /\ CalleesOK(frames, heap)
  BY <1>1, <1>2, EmptyStack
<1>4. HeapOK(heap) /\ slots \in Tables /\ Exact(heap, ExternalStale(slots, result))
  BY <1>1, BaseExact
<1> DEFINE X == ExternalStale(slots, result)
           Z == External(slots, result, frames, arena)
<1>5. \A o \in ObjectIds : Z[o] = X[o]
  BY <1>1, <1>4, ExternalNone
<1>6. Exact(heap, X)
  BY <1>4
<1> HIDE DEF X, Z
<1>7. Exact(heap, Z)
  BY <1>5, <1>6, ExactSame
<1>8. TypeOK
  <2>1. /\ frames \in Seq(Frames) /\ Len(frames) <= FrameCapacity
        /\ arena \in [1 .. ArenaLimit -> Values] /\ used \in 0 .. ArenaLimit
        /\ rootLocals \in Buffers /\ result \in Values
    BY <1>3 DEF StackOK, FramesOK, ArenaOK, Stacked
  <2> QED
    BY <1>4, <2>1 DEF Init, TypeOK, HeapOK, Tables
<1> QED
  BY <1>1, <1>3, <1>4, <1>7, <1>8 DEF Inv, Z

(* Every step keeps the invariant.                                         *)
LEMMA LeafInv ==
  ASSUME Inv, Leaf
  PROVE  Inv'
BY MakeInv, ReadLocalInv, ReadSlotInv DEF Leaf

(* The nodes that start.                                                   *)
LEMMA BeginInv ==
  ASSUME Inv, Begin
  PROVE  Inv'
<1>1. ASSUME NEW kind \in {"writeLocal", "writeSlot", "readIndex", "writeIndex", "readField",
                           "writeField", "call", "if", "while", "seq"},
             Start(kind)
      PROVE  Inv'
  <2>1. kind \in FrameKinds \ {"new", "builtin"}
    BY DEF FrameKinds
  <2> QED
    BY <1>1, <2>1, StartInv
<1>2. CASE Builtin
  BY <1>2, BuiltinInv
<1>3. CASE SeqLast
  BY <1>3, SeqLastInv
<1> QED
  BY <1>1, <1>2, <1>3 DEF Begin

(* The nodes that go on.                                                   *)
LEMMA ContinueInv ==
  ASSUME Inv, Continue
  PROVE  Inv'
<1>1. CASE WriteLocal \/ WriteSlot
  BY <1>1, WriteLocalInv, WriteSlotInv
<1>2. ASSUME NEW kind \in {"readIndex", "writeIndex", "writeField"}, NEW phase \in 1 .. 2,
             NextChild(kind, phase)
      PROVE  Inv'
  BY <1>2, NextChildInv
<1>3. CASE ReadIndex \/ ReadField
  <2>1. ASSUME NEW kind \in {"readIndex", "readField"}, NEW phase,
               NEW container \in {"cells", "record"}, ReadElement(kind, phase, container)
        PROVE  Inv'
    BY <2>1, ReadElementInv
  <2> QED
    BY <1>3, <2>1 DEF ReadIndex, ReadField
<1>4. CASE WriteIndex \/ WriteField
  <2>1. ASSUME NEW kind \in {"writeIndex", "writeField"}, NEW phase \in 1 .. 3,
               NEW container \in {"cells", "record"}, WriteElement(kind, phase, container)
        PROVE  Inv'
    BY <2>1, WriteElementInv
  <2>2. 2 \in 1 .. 3 /\ 3 \in 1 .. 3
    OBVIOUS
  <2> QED
    BY <1>4, <2>1, <2>2 DEF WriteIndex, WriteField
<1>5. CASE Callee
  BY <1>5, CalleeInv
<1>6. CASE Argument("call") \/ Argument("builtin")
  BY <1>6, ArgumentInv
<1>7. CASE CallBuiltin \/ CallNative
  BY <1>7, CallBuiltinInv, CallNativeInv
<1>8. CASE CallDef \/ CallCode
  BY <1>8, CallDefInv, CallCodeInv
<1>9. CASE Passed("call", 3) \/ Passed("if", 2) \/ Passed("seq", 2)
  BY <1>9, PassedInv
<1>10. CASE Branch
  BY <1>10, BranchInv
<1>11. CASE WhileCondition \/ WhileBody
  BY <1>11, WhileConditionInv, WhileBodyInv
<1>12. CASE Discard("while", 2, 2)
  <2>1. 2 \in 1 .. 3
    OBVIOUS
  <2> QED
    BY <1>12, <2>1, DiscardInv
<1>13. CASE Discard("seq", 1, 1)
  <2>1. 1 \in 1 .. 3
    OBVIOUS
  <2> QED
    BY <1>13, <2>1, DiscardInv
<1>14. CASE SeqItem
  BY <1>14, SeqItemInv
<1>15. 1 \in 1 .. 2 /\ 2 \in 1 .. 2
  OBVIOUS
<1> QED
  BY <1>1, <1>2, <1>3, <1>4, <1>5, <1>6, <1>7, <1>8, <1>9, <1>10, <1>11, <1>12, <1>13, <1>14,
     <1>15
  DEF Continue

(* All steps.                                                              *)
LEMMA NextInv ==
  ASSUME Inv, [Next]_vars
  PROVE  Inv'
<1>1. CASE Leaf \/ Begin \/ Continue
  BY <1>1, LeafInv, BeginInv, ContinueInv
<1>2. CASE NativeResets
  BY <1>2, NativeResetsInv
<1>3. CASE ResetEnds
  BY <1>3, ResetEndsInv
<1>4. CASE PollInterrupt
  BY <1>4, PollInterruptInv
<1>5. CASE EvalProgram \/ ProgramEnds \/ FreeResult
  BY <1>5, EvalProgramInv, ProgramEndsInv, FreeResultInv
<1>6. CASE PromptInterrupted
  <2>1. /\ interrupted' \in BOOLEAN
        /\ UNCHANGED <<heap, slots, frames, arena, used, rootLocals, result, running, stale>>
    BY <1>6 DEF PromptInterrupted
  <2> QED
    BY <2>1, SignalInv
<1>7. CASE Signal
  <2>1. /\ interrupted' \in BOOLEAN
        /\ UNCHANGED <<heap, slots, frames, arena, used, rootLocals, result, running, stale>>
    BY <1>7 DEF Signal
  <2> QED
    BY <2>1, SignalInv
<1>8. CASE UNCHANGED vars
  <2>1. /\ interrupted' \in BOOLEAN
        /\ UNCHANGED <<heap, slots, frames, arena, used, rootLocals, result, running, stale>>
    BY <1>8 DEF vars, Inv, TypeOK
  <2> QED
    BY <2>1, SignalInv
<1> QED
  BY <1>1, <1>2, <1>3, <1>4, <1>5, <1>6, <1>7, <1>8 DEF Next, Step

----------------------------------------------------------------------------
(* 8. The theorems.                                                        *)

(* In every state of the evaluator the counts of all objects are exact,    *)
(* the frames hold nothing they have not evaluated, and no two of them     *)
(* deliver to one place but through a node that passes its last child's    *)
(* value on.                                                               *)
THEOREM InvAlways == Spec => []Inv
<1>1. Init => Inv
  BY InitInv
<1>2. Inv /\ [Next]_vars => Inv'
  BY NextInv
<1> QED
  BY <1>1, <1>2, PTL DEF Spec

(* The holders of an object: references from outside, and elements.        *)
LEMMA InvRefs ==
  ASSUME Inv
  PROVE  RefsExact
<1>1. HeapOK(heap) /\ slots \in Tables
  BY DEF Inv, TypeOK, Tables
<1>2. SUFFICES ASSUME NEW o \in ObjectIds
               PROVE  IF o \in Live(heap) THEN heap[o].refs = Holders(o) /\ heap[o].refs > 0
                      ELSE Holders(o) = 0
  BY DEF RefsExact
<1> DEFINE k == KidCount(heap, Live(heap), o)
<1>3. k \in Nat
  BY KidCountType DEF Live
<1>4. /\ Occurrences(Kids(heap, Live(heap)), o) = k
      /\ Occurrences(<<result>>, o) = Is(result, o)
  BY KidsOcc, OccOne
<1>5. CASE stale
  <2> DEFINE X == ExternalStale(slots, result)
  <2>1. Exact(heap, X)
    BY <1>5 DEF Inv
  <2>2. X[o] = Occurrences(slots, o) + Is(result, o)
        /\ Occurrences(slots, o) \in Nat /\ Is(result, o) \in Nat
    BY <1>1, ExternalNone
  <2>3. Holders(o) = Occurrences(slots, o) + Is(result, o) + k + 0
    BY <1>4, <1>5 DEF Holders
  <2> HIDE DEF X
  <2>4. IF o \in Live(heap) THEN heap[o].refs = X[o] + k /\ heap[o].refs > 0 ELSE X[o] + k = 0
    BY <2>1 DEF Exact
  <2> HIDE DEF k
  <2>5. Holders(o) = X[o] + k
    BY <1>3, <2>2, <2>3
  <2> QED
    BY <2>4, <2>5
<1>6. CASE ~stale
  <2> DEFINE X == External(slots, result, frames, arena)
             s == Occurrences(ScratchOf(frames), o)
             a == Occurrences(arena, o)
             t == Occurrences(slots, o)
             i == Is(result, o)
  <2>1. Exact(heap, X) /\ frames \in Seq(Frames) /\ arena \in Arenas
    BY <1>6, InvRuns
  <2>2. X[o] = t + i + s + a /\ t \in Nat /\ i \in Nat /\ s \in Nat /\ a \in Nat
    BY <1>1, <2>1, ExternalAt
  <2>3. Scratch = ScratchOf(frames)
    BY DEF Scratch, ScratchPlaces, ScratchOf, Depth
  <2>4. Holders(o) = t + i + k + (s + a)
    BY <1>4, <1>6, <2>3 DEF Holders
  <2> HIDE DEF X, s, a, t, i
  <2>5. IF o \in Live(heap) THEN heap[o].refs = X[o] + k /\ heap[o].refs > 0 ELSE X[o] + k = 0
    BY <2>1 DEF Exact
  <2> HIDE DEF k
  <2>6. Holders(o) = X[o] + k
    BY <1>3, <2>2, <2>4
  <2> QED
    BY <2>5, <2>6
<1> QED
  BY <1>5, <1>6

(* The count of an object is the number of slots, elements, scratch        *)
(* values, arguments, locals and results that hold it, and an entry of the *)
(* table is free exactly when nothing does: after every step of every      *)
(* program, on every error path of frothy_eval.c, after an interrupt and a *)
(* reset from within a program.                                            *)
THEOREM CountsAreExact == Spec => []RefsExact
<1>1. Inv => RefsExact
  BY InvRefs
<1> QED
  BY <1>1, InvAlways, PTL

(* The callee of a call whose body runs holds its program, although the    *)
(* body may rebind or reset the slot through which it was called.          *)
THEOREM RunningCodeStays == Spec => []RunningCodeLives
<1>1. Inv => RunningCodeLives
  <2> SUFFICES ASSUME Inv, ~stale, NEW f \in Range(frames), f.kind = "call", f.phase = 3
               PROVE  KindOf(f.values[1]) = "code"
    BY DEF RunningCodeLives
  <2>1. CalleesOK(frames, heap) /\ frames \in Seq(Frames)
    BY InvRuns
  <2>2. PICK n \in DOMAIN frames : f = frames[n]
    BY DEF Range
  <2>3. n \in 1 .. Len(frames) /\ f.phase >= 2
    BY <2>1, <2>2
  <2>4. f.values[1] \in Live(heap) /\ heap[f.values[1]].kind = "code"
    BY <2>1, <2>2, <2>3 DEF CalleesOK
  <2>5. f.values[1] # Imm
    BY <2>4, EvaluatorAssumption DEF Live, ObjectIds
  <2> QED
    BY <2>4, <2>5 DEF KindOf
<1> QED
  BY <1>1, InvAlways, PTL

(* Buffers lie in the arena in the order of their frames without a gap, so *)
(* frothy_eval_buffer_free gives back just what the frame on top has; no   *)
(* value of the arena is in use between programs.                          *)
THEOREM ArenaIsStacked == Spec => []ArenaStacked
<1>1. Inv => ArenaStacked
  <2> SUFFICES ASSUME Inv PROVE ArenaStacked
    OBVIOUS
  <2>1. TypeOK /\ (~running => used = 0)
    BY DEF Inv
  <2>2. ASSUME ~stale
        PROVE  /\ \A m, n \in 0 .. Depth :
                    m < n => \A i \in Cells(BufferOf(m)), j \in Cells(BufferOf(n)) : i < j
               /\ UNION {Cells(BufferOf(n)) : n \in 0 .. Depth} = 1 .. used
    <3>1. Stacked(frames, used, rootLocals)
      BY <2>2, InvRuns DEF StackOK
    <3>2. \A n \in 0 .. Depth : BufferOf(n) = Buf(frames, rootLocals, n)
      BY DEF BufferOf, Buf
    <3>3. /\ \A m, n \in 0 .. Depth : m < n =>
               \A i \in Cells(Buf(frames, rootLocals, m)), j \in Cells(Buf(frames, rootLocals, n)) :
                 i < j
          /\ \A n \in 0 .. Depth : \A i \in Cells(Buf(frames, rootLocals, n)) : i \in 1 .. used
          /\ \A i \in 1 .. used : \E n \in 0 .. Depth : i \in Cells(Buf(frames, rootLocals, n))
      BY <3>1 DEF Stacked, Depth
    <3>4. \A m, n \in 0 .. Depth :
            m < n => \A i \in Cells(BufferOf(m)), j \in Cells(BufferOf(n)) : i < j
      BY <3>2, <3>3
    <3> DEFINE U == UNION {Cells(BufferOf(n)) : n \in 0 .. Depth}
    <3>5. ASSUME NEW i \in U PROVE i \in 1 .. used
      BY <3>2, <3>3
    <3>6. ASSUME NEW i \in 1 .. used PROVE i \in U
      <4>1. PICK n \in 0 .. Depth : i \in Cells(Buf(frames, rootLocals, n))
        BY <3>3
      <4> QED
        BY <3>2, <4>1
    <3> HIDE DEF U
    <3>7. U = 1 .. used
      BY <3>5, <3>6
    <3> QED
      BY <3>4, <3>7 DEF U
  <2> QED
    BY <2>1, <2>2 DEF ArenaStacked
<1> QED
  BY <1>1, InvAlways, PTL
=============================================================================
