------------------------- MODULE SnapshotStoreProofs -------------------------
(***************************************************************************)
(* Proofs about SnapshotStore for every set of images and every even       *)
(* generation modulus.                                                     *)
(*                                                                         *)
(* The inductive invariant rests on the parity of the slots: slot 0 only   *)
(* ever holds odd generations and slot 1 even ones, because the first save *)
(* is generation 1 in slot 0, every save counts on from the other slot and *)
(* the modulus is even.  Hence the generations never tie.                  *)
(***************************************************************************)
EXTENDS SnapshotStore, TLAPS

USE DEF Slots

----------------------------------------------------------------------------
(* The inductive invariant.                                                *)

Parity ==
  \A s \in Slots : header[s] # Torn => header[s].generation % 2 = 1 - s

Writing == pc \in {"writePayload", "writeHeader"}

(* A save under way still aims at the slot pick_inactive chose.            *)
Target ==
  Writing =>
    /\ generation % 2 = 1 - slot
    /\ clean => /\ slot = PickInactive(Valid)
                /\ generation = NextGeneration(Valid)
    /\ ~clean => acked = None

Written == pc = "writeHeader" => payload[slot] = image

NothingAcked == pc \in {"eraseA", "eraseB"} => acked = None

IInv ==
  /\ TypeOK
  /\ Parity
  /\ Target
  /\ Written
  /\ NothingAcked
  /\ AckedSaveSurvives

----------------------------------------------------------------------------
(* Counting on from an odd generation gives an even one and vice versa.    *)
LEMMA IncrementParity ==
  ASSUME NEW g \in 0 .. GenModulus - 1
  PROVE  /\ Increment(g) \in 0 .. GenModulus - 1
         /\ g % 2 = 0 => Increment(g) % 2 = 1
         /\ g % 2 = 1 => Increment(g) % 2 = 0
BY StoreAssumption DEF Increment

(* What the headers say, slot by slot.                                     *)
LEMMA ValidFacts ==
  /\ (0 \in Valid) <=> header[0] # Torn
  /\ (1 \in Valid) <=> header[1] # Torn
  /\ (Valid = {}) <=> (header[0] = Torn /\ header[1] = Torn)
  /\ Valid \subseteq Slots
BY DEF Valid

LEMMA HeaderFacts ==
  ASSUME TypeOK, NEW s \in Slots, header[s] # Torn
  PROVE  /\ header[s].generation \in 0 .. GenModulus - 1
         /\ header[s].crc \in Images
         /\ header[s] \in Headers
BY DEF TypeOK, Headers

(* The slot and generation a save chooses, whatever it saw of the headers. *)
LEMMA ChoiceParity ==
  ASSUME TypeOK, Parity, NEW seen \in SUBSET Valid
  PROVE  /\ PickInactive(seen) \in Slots
         /\ NextGeneration(seen) \in 0 .. GenModulus - 1
         /\ NextGeneration(seen) % 2 = 1 - PickInactive(seen)
<1>1. 0 \in seen => header[0] # Torn
  BY ValidFacts
<1>2. 1 \in seen => header[1] # Torn
  BY ValidFacts
<1>3. 0 \in seen => /\ header[0].generation \in 0 .. GenModulus - 1
                    /\ Increment(header[0].generation) \in 0 .. GenModulus - 1
                    /\ Increment(header[0].generation) % 2 = 0
  BY <1>1, HeaderFacts, IncrementParity DEF Parity
<1>4. 1 \in seen => /\ header[1].generation \in 0 .. GenModulus - 1
                    /\ Increment(header[1].generation) \in 0 .. GenModulus - 1
                    /\ Increment(header[1].generation) % 2 = 1
  BY <1>2, HeaderFacts, IncrementParity DEF Parity
<1>5. PickInactive(seen) \in Slots
  BY DEF PickInactive
<1>6. CASE 0 \notin seen /\ 1 \notin seen
  BY <1>6, StoreAssumption DEF PickInactive, NextGeneration
<1>7. CASE 0 \in seen \/ 1 \in seen
  BY <1>3, <1>4, <1>7 DEF PickInactive, NextGeneration
<1> QED
  BY <1>5, <1>6, <1>7

----------------------------------------------------------------------------
(* pick_active and pick_inactive answer different slots.                   *)
LEMMA InactiveIsNotActive ==
  ASSUME TypeOK, Parity, Valid # {}
  PROVE  /\ Active \in Slots
         /\ header[Active] # Torn
         /\ PickInactive(Valid) = 1 - Active
<1>1. header[0] # Torn \/ header[1] # Torn
  BY ValidFacts
<1>2. header[0] # Torn => /\ header[0].generation \in 0 .. GenModulus - 1
                          /\ header[0].generation % 2 = 1
  BY HeaderFacts DEF Parity
<1>3. header[1] # Torn => /\ header[1].generation \in 0 .. GenModulus - 1
                          /\ header[1].generation % 2 = 0
  BY HeaderFacts DEF Parity
<1>4. 0 \in Valid /\ 1 \in Valid
        => /\ header[0].generation # header[1].generation
           /\ header[0].generation \in Nat
           /\ header[1].generation \in Nat
  BY <1>2, <1>3, ValidFacts, StoreAssumption
<1> QED
  BY <1>1, <1>4, ValidFacts DEF Active, PickActive, PickInactive

(* Writing the payload of the inactive slot, or tearing its header, leaves *)
(* what a restore loads.                                                   *)
LEMMA InactiveWrite ==
  ASSUME TypeOK, Parity, NEW s \in Slots, s = PickInactive(Valid),
         NEW h \in {header[s], Torn}, NEW p \in Images \cup {Torn},
         header' = [header EXCEPT ![s] = h],
         payload' = [payload EXCEPT ![s] = p]
  PROVE  /\ Last' = Last
         /\ Age' = Age
         /\ Prev' \in {None, p}
         /\ h = Torn \/ p = Torn => Prev' = None
<1>0. /\ header'[s] = h
      /\ payload'[s] = p
      /\ 1 - s \in Slots
      /\ header'[1 - s] = header[1 - s]
      /\ payload'[1 - s] = payload[1 - s]
  BY DEF TypeOK
<1>1. CASE Valid = {}
  <2>1. header[0] = Torn /\ header[1] = Torn
    BY <1>1, ValidFacts
  <2>2. header'[0] = Torn /\ header'[1] = Torn
    BY <2>1, <1>0
  <2>3. Valid' = {}
    BY <2>2 DEF Valid
  <2> QED
    BY <1>1, <2>3 DEF Last, Age, Prev
<1>2. CASE Valid # {}
  <2>1. Active = 1 - s /\ header[1 - s] # Torn
    BY <1>2, InactiveIsNotActive
  <2>2. header'[1 - s] # Torn
    BY <2>1, <1>0
  <2>3. Valid' # {}
    BY <2>2, <1>0 DEF Valid
  <2>4. Active' = 1 - s
    <3>1. CASE h = Torn
      <4>1. s \notin Valid' /\ 1 - s \in Valid'
        BY <3>1, <1>0, <2>2 DEF Valid
      <4> QED
        BY <4>1 DEF Active, PickActive
    <3>2. CASE h # Torn
      <4>1. header' = header
        BY <3>2 DEF TypeOK
      <4> QED
        BY <4>1, <2>1 DEF Active, PickActive, Valid
    <3> QED
      BY <3>1, <3>2
  <2>5. Load(1 - s)' = Load(1 - s)
    BY <1>0 DEF Load
  <2>6. /\ Load(s)' \in {None, p}
        /\ h = Torn => Load(s)' = None
    BY <1>0 DEF Load
  <2>8. p = Torn => Load(s)' = None
    <3> SUFFICES ASSUME p = Torn, header'[s] # Torn PROVE header'[s].crc # Torn
      BY <1>0 DEF Load
    <3>1. header'[s] = header[s] /\ header[s] # Torn
      BY <1>0
    <3> QED
      BY <3>1, HeaderFacts, StoreAssumption
  <2>7. 1 - Active' = s
    BY <2>4
  <2> QED
    BY <1>0, <1>2, <2>1, <2>3, <2>4, <2>5, <2>6, <2>7, <2>8 DEF Last, Age, Prev
<1> QED
  BY <1>1, <1>2

(* Writing the header of a save that read both headers.                    *)
LEMMA CommitWrite ==
  ASSUME TypeOK, Parity, NEW s \in Slots, s = PickInactive(Valid),
         generation = NextGeneration(Valid), payload[s] = image,
         header' = [header EXCEPT ![s] = NewHeader], payload' = payload
  PROVE  \/ /\ Age < GenModulus - 1
            /\ Age' = Age + 1
            /\ Last' = image
            /\ Prev' = Last
         \/ /\ Age = GenModulus - 1
            /\ Age' = Age
            /\ Last' = Last
            /\ Prev' = image
<1>0. /\ s \in Slots
      /\ 1 - s \in Slots
      /\ header'[s] = NewHeader
      /\ header'[1 - s] = header[1 - s]
      /\ NewHeader \in Headers
      /\ NewHeader.generation = generation
      /\ NewHeader.crc = image
  BY DEF TypeOK, NewHeader, Headers
<1>1. NewHeader # Torn
  BY <1>0, StoreAssumption DEF Headers
<1>2. /\ Load(s)' = image
      /\ Load(1 - s)' = Load(1 - s)
  BY <1>0, <1>1 DEF Load
<1>3. /\ s \in Valid'
      /\ Valid' # {}
      /\ 1 - s \in Valid' <=> header[1 - s] # Torn
  BY <1>0, <1>1 DEF Valid
<1>4. CASE Valid = {}
  <2>1. s = 0 /\ generation = 1 /\ Age = 0 /\ Last = None
    BY <1>4 DEF PickInactive, NextGeneration, Age, Last
  <2>2. 1 \notin Valid' /\ 0 \in Valid'
    BY <1>3, <1>4, <2>1, ValidFacts
  <2>3. Active' = s /\ 1 - Active' = 1 - s
    BY <2>1, <2>2 DEF Active, PickActive
  <2>4. Load(1 - s) = None
    BY <1>4, <2>1, ValidFacts DEF Load
  <2>5. Last' = image /\ Prev' = Last
    BY <1>2, <1>3, <2>1, <2>3, <2>4 DEF Last, Prev
  <2>6. Age' = 1
    BY <1>0, <1>3, <2>1, <2>3 DEF Age
  <2> QED
    BY <2>1, <2>5, <2>6, StoreAssumption
<1>5. CASE Valid # {}
  <2>1. /\ Active = 1 - s
        /\ header[1 - s] # Torn
    BY <1>0, <1>5, InactiveIsNotActive
  <2>2. header[1 - s].generation \in 0 .. GenModulus - 1
    BY <1>0, <2>1, HeaderFacts
  <2>3. /\ Age = header[1 - s].generation
        /\ Last = Load(1 - s)
    BY <1>5, <2>1 DEF Age, Last
  <2>4. generation = Increment(header[1 - s].generation)
    BY <1>0, <1>5, <2>1, ValidFacts DEF NextGeneration, PickInactive
  <2>5. 1 - s \in Valid' /\ s \in Valid'
    BY <1>3, <2>1
  <2>6. CASE header[1 - s].generation = GenModulus - 1
    <3>1. generation = 0
      BY <2>4, <2>6 DEF Increment
    <3>2. Active' = 1 - s
      BY <1>0, <2>2, <2>5, <2>6, <3>1, StoreAssumption DEF Active, PickActive
    <3>3. 1 - Active' = s
      BY <1>0, <3>2
    <3> QED
      BY <1>0, <1>2, <1>3, <2>3, <2>6, <3>2, <3>3 DEF Age, Last, Prev
  <2>7. CASE header[1 - s].generation # GenModulus - 1
    <3>1. generation = header[1 - s].generation + 1
      BY <2>4, <2>7 DEF Increment
    <3>2. Active' = s
      BY <1>0, <2>2, <2>5, <3>1, StoreAssumption DEF Active, PickActive
    <3>3. 1 - Active' = 1 - s
      BY <3>2
    <3>4. Age < GenModulus - 1
      BY <2>2, <2>3, <2>7, StoreAssumption
    <3> QED
      BY <1>0, <1>2, <1>3, <2>3, <3>1, <3>2, <3>3, <3>4 DEF Age, Last, Prev
  <2> QED
    BY <2>6, <2>7
<1> QED
  BY <1>4, <1>5

(* A step that leaves the storage leaves what it would restore.            *)
LEMMA StoreUntouched ==
  ASSUME header' = header, payload' = payload
  PROVE  /\ Valid' = Valid
         /\ Last' = Last
         /\ Prev' = Prev
         /\ Age' = Age
         /\ PickInactive(Valid)' = PickInactive(Valid)
         /\ NextGeneration(Valid)' = NextGeneration(Valid)
BY DEF Valid, Last, Prev, Age, Active, Load, PickActive, PickInactive,
       NextGeneration

(* A step that leaves the headers leaves the choice of the slot.           *)
LEMMA HeadersUntouched ==
  ASSUME header' = header
  PROVE  /\ PickInactive(Valid)' = PickInactive(Valid)
         /\ NextGeneration(Valid)' = NextGeneration(Valid)
         /\ Parity <=> Parity'
BY DEF Valid, PickInactive, NextGeneration, Parity

----------------------------------------------------------------------------
(* The initial state.                                                      *)
LEMMA InitIInv == Init => IInv
<1> SUFFICES ASSUME Init PROVE IInv
  OBVIOUS
<1>1. TypeOK
  BY StoreAssumption DEF Init, TypeOK
<1>2. Parity
  BY DEF Init, Parity
<1>3. Target /\ Written /\ NothingAcked
  BY DEF Init, Target, Writing, Written, NothingAcked
<1>4. AckedSaveSurvives
  BY DEF Init, AckedSaveSurvives
<1> QED
  BY <1>1, <1>2, <1>3, <1>4 DEF IInv

(* Steps that leave the storage, start no write and acknowledge nothing.   *)
LEMMA QuietStep ==
  ASSUME IInv, TypeOK', header' = header, payload' = payload,
         pc' \in {"idle", "boot", "reset"}, acked' = acked
  PROVE  IInv'
<1>1. Parity' /\ Last' = Last /\ Age' = Age
  BY StoreUntouched, HeadersUntouched DEF IInv
<1>2. Target' /\ Written' /\ NothingAcked'
  BY DEF Target, Writing, Written, NothingAcked
<1>3. AckedSaveSurvives'
  BY <1>1 DEF IInv, AckedSaveSurvives
<1> QED
  BY <1>1, <1>2, <1>3 DEF IInv

(* The slot of a save under way receives payload p and header h, neither   *)
(* of them the save's own header: what is acknowledged stays.              *)
LEMMA SpillStep ==
  ASSUME IInv, TypeOK', Writing,
         NEW h \in {header[slot], Torn}, NEW p \in Images \cup {Torn},
         header' = [header EXCEPT ![slot] = h],
         payload' = [payload EXCEPT ![slot] = p],
         acked' = acked
  PROVE  Parity' /\ AckedSaveSurvives'
<1>0. TypeOK /\ Parity /\ slot \in Slots
  BY DEF IInv, TypeOK
<1>1. Parity'
  BY <1>0 DEF Parity, TypeOK
<1>2. CASE clean
  <2>1. slot = PickInactive(Valid)
    BY <1>2 DEF IInv, Target
  <2>2. Last' = Last /\ Age' = Age
    <3> DEFINE s == slot
    <3>1. s \in Slots /\ s = PickInactive(Valid) /\ h \in {header[s], Torn}
      BY <1>0, <2>1
    <3>2. /\ header' = [header EXCEPT ![s] = h]
          /\ payload' = [payload EXCEPT ![s] = p]
      OBVIOUS
    <3> HIDE DEF s
    <3> QED
      BY <1>0, <3>1, <3>2, InactiveWrite
  <2> QED
    BY <1>1, <2>2 DEF IInv, AckedSaveSurvives
<1>3. CASE ~clean
  <2>1. acked' = None
    BY <1>3 DEF IInv, Target
  <2> QED
    BY <1>1, <2>1 DEF AckedSaveSurvives
<1> QED
  BY <1>2, <1>3 DEF IInv, TypeOK

(* The slot of a save under way receives the save's header.                *)
LEMMA CommitStep ==
  ASSUME IInv, TypeOK', pc = "writeHeader",
         header' = [header EXCEPT ![slot] = NewHeader], payload' = payload,
         acked' \in {None, image}, acked' = image => clean
  PROVE  Parity' /\ AckedSaveSurvives'
<1>0. TypeOK /\ Parity /\ slot \in Slots
  BY DEF IInv, TypeOK
<1>1. Parity'
  <2>1. generation % 2 = 1 - slot
    BY DEF IInv, Target, Writing
  <2> QED
    BY <1>0, <2>1 DEF Parity, TypeOK, NewHeader
<1>2. CASE acked' = None
  BY <1>1, <1>2 DEF AckedSaveSurvives
<1>3. CASE acked' = image /\ clean
  <2> DEFINE s == slot
  <2>1. /\ s \in Slots
        /\ s = PickInactive(Valid)
        /\ generation = NextGeneration(Valid)
        /\ payload[s] = image
    BY <1>0, <1>3 DEF IInv, Target, Writing, Written
  <2>2. header' = [header EXCEPT ![s] = NewHeader]
    OBVIOUS
  <2> HIDE DEF s
  <2>3. \/ Last' = image
        \/ Age = GenModulus - 1 /\ Age' = Age
    BY <1>0, <2>1, <2>2, CommitWrite
  <2>4. ~(GenModulus - 1 < GenModulus - 1)
    BY StoreAssumption
  <2> QED
    BY <1>1, <1>3, <2>3, <2>4 DEF AckedSaveSurvives
<1> QED
  BY <1>2, <1>3

----------------------------------------------------------------------------
(* Types.                                                                  *)

LEMMA LoadType ==
  ASSUME TypeOK, NEW s \in Slots
  PROVE  Load(s) \in Images \cup {None}
BY DEF TypeOK, Load, Headers

LEMMA RestoreType ==
  ASSUME TypeOK, RestoreImage
  PROVE  image' \in Images /\ clean' \in BOOLEAN
<1>1. \A seen : PickActive(seen) \in Slots
  BY DEF PickActive
<1> QED
  BY <1>1, LoadType, StoreAssumption DEF RestoreImage

LEMMA SeenFacts ==
  ASSUME NEW seen \in SeenHeaders
  PROVE  seen \in SUBSET Valid
BY DEF SeenHeaders

LEMMA CutWriteType ==
  ASSUME TypeOK, CutWrite
  PROVE  /\ header' \in [Slots -> Headers \cup {Torn}]
         /\ payload' \in [Slots -> Images \cup {Torn}]
         /\ acked' \in Images \cup {None}
<1>1. CASE pc = "writePayload"
  BY <1>1 DEF CutWrite, TypeOK
<1>2. CASE pc = "writeHeader"
  <2>1. NewHeader \in Headers
    BY DEF TypeOK, NewHeader, Headers
  <2> QED
    BY <1>2, <2>1 DEF CutWrite, TypeOK
<1>3. CASE pc \notin {"writePayload", "writeHeader"}
  BY <1>3 DEF CutWrite, TypeOK
<1> QED
  BY <1>1, <1>2, <1>3

LEMMA TypeStep ==
  ASSUME TypeOK, Parity, [Next]_vars
  PROVE  TypeOK'
<1>0. NewHeader \in Headers
  BY DEF TypeOK, NewHeader, Headers
<1>1. CASE Edit
  BY <1>1 DEF Edit, TypeOK
<1>2. CASE SaveBegin
  <2>1. PICK seen \in SeenHeaders :
          /\ slot' = PickInactive(seen)
          /\ generation' = NextGeneration(seen)
          /\ clean' = (seen = Valid)
          /\ acked' = IF seen = Valid THEN acked ELSE None
    BY <1>2 DEF SaveBegin
  <2>2. slot' \in Slots /\ generation' \in 0 .. GenModulus - 1
    BY <2>1, SeenFacts, ChoiceParity
  <2>3. clean' \in BOOLEAN /\ acked' \in Images \cup {None}
    BY <2>1 DEF TypeOK
  <2> QED
    BY <1>2, <2>2, <2>3 DEF SaveBegin, TypeOK
<1>3. CASE WritePayload
  BY <1>3 DEF WritePayload, TypeOK
<1>4. CASE WritePayloadFails
  BY <1>4 DEF WritePayloadFails, TypeOK
<1>5. CASE WriteHeader
  BY <1>0, <1>5 DEF WriteHeader, TypeOK
<1>6. CASE WriteHeaderFails
  BY <1>0, <1>6 DEF WriteHeaderFails, TypeOK
<1>7. CASE Restore
  BY <1>7, RestoreType DEF Restore, TypeOK
<1>8. CASE WipeBegin
  BY <1>8 DEF WipeBegin, TypeOK
<1>9. CASE EraseA
  BY <1>9 DEF EraseA, Erase, TypeOK
<1>10. CASE EraseB
  BY <1>10 DEF EraseB, Erase, TypeOK
<1>11. CASE EraseFails
  BY <1>11 DEF EraseFails, TypeOK
<1>12. CASE WipeReset
  BY <1>12, StoreAssumption DEF WipeReset, TypeOK
<1>13. CASE PowerLoss
  BY <1>13, CutWriteType DEF PowerLoss, TypeOK
<1>14. CASE Startup
  BY <1>14, RestoreType DEF Startup, TypeOK
<1>15. CASE SafeBoot
  BY <1>15, StoreAssumption DEF SafeBoot, TypeOK
<1>16. CASE UNCHANGED vars
  BY <1>16 DEF vars, TypeOK
<1> QED
  BY <1>1, <1>2, <1>3, <1>4, <1>5, <1>6, <1>7, <1>8, <1>9, <1>10, <1>11,
     <1>12, <1>13, <1>14, <1>15, <1>16 DEF Next

----------------------------------------------------------------------------
(* The invariant is inductive.                                             *)

(* An erasure happens while nothing is acknowledged.                       *)
LEMMA EraseStep ==
  ASSUME IInv, TypeOK', NEW s \in Slots, NEW n \in {"eraseB", "reset"},
         pc \in {"eraseA", "eraseB"}, Erase(s, n)
  PROVE  IInv'
<1>1. acked = None /\ acked' = None /\ clean' = clean
  BY DEF IInv, NothingAcked, Erase
<1>2. Parity'
  BY DEF IInv, Parity, Erase, TypeOK
<1>3. Target' /\ Written' /\ NothingAcked'
  BY <1>1 DEF Target, Writing, Written, NothingAcked, Erase
<1>4. AckedSaveSurvives'
  BY <1>1 DEF AckedSaveSurvives
<1> QED
  BY <1>2, <1>3, <1>4 DEF IInv

LEMMA SaveBeginStep ==
  ASSUME IInv, TypeOK', SaveBegin
  PROVE  IInv'
<1>0. TypeOK /\ Parity
  BY DEF IInv
<1>1. PICK seen \in SeenHeaders :
        /\ slot' = PickInactive(seen)
        /\ generation' = NextGeneration(seen)
        /\ clean' = (seen = Valid)
        /\ acked' = IF seen = Valid THEN acked ELSE None
  BY DEF SaveBegin
<1>2. /\ header' = header
      /\ payload' = payload
      /\ pc' = "writePayload"
  BY DEF SaveBegin
<1>3. /\ Parity'
      /\ Last' = Last
      /\ Age' = Age
      /\ PickInactive(Valid)' = PickInactive(Valid)
      /\ NextGeneration(Valid)' = NextGeneration(Valid)
  BY <1>0, <1>2, StoreUntouched, HeadersUntouched
<1>4. generation' % 2 = 1 - slot'
  BY <1>0, <1>1, SeenFacts, ChoiceParity
<1>5. Target'
  BY <1>1, <1>3, <1>4 DEF Target
<1>6. Written' /\ NothingAcked'
  BY <1>2 DEF Written, NothingAcked
<1>7. AckedSaveSurvives'
  BY <1>1, <1>3 DEF IInv, AckedSaveSurvives
<1> QED
  BY <1>3, <1>5, <1>6, <1>7 DEF IInv

LEMMA WritePayloadStep ==
  ASSUME IInv, TypeOK', WritePayload
  PROVE  IInv'
<1>1. TypeOK /\ Writing /\ slot \in Slots
  BY DEF IInv, WritePayload, Writing, TypeOK
<1>2. /\ header' = [header EXCEPT ![slot] = header[slot]]
      /\ header' = header
      /\ payload' = [payload EXCEPT ![slot] = image]
      /\ image \in Images \cup {Torn}
  BY <1>1 DEF WritePayload, TypeOK
<1>3. Parity' /\ AckedSaveSurvives'
  BY <1>1, <1>2, SpillStep DEF WritePayload
<1>4. Target'
  BY <1>1, <1>2, HeadersUntouched DEF IInv, Target, WritePayload
<1>5. Written'
  BY <1>1 DEF Written, WritePayload, TypeOK
<1>6. NothingAcked'
  BY DEF NothingAcked, WritePayload
<1> QED
  BY <1>3, <1>4, <1>5, <1>6 DEF IInv

(* A write that fails or is cut short, and a header write that succeeds,   *)
(* end the save.                                                           *)
LEMMA SaveEnds ==
  ASSUME IInv, TypeOK', Parity', AckedSaveSurvives',
         pc' \in {"idle", "boot"}
  PROVE  IInv'
<1>1. Target' /\ Written' /\ NothingAcked'
  BY DEF Target, Writing, Written, NothingAcked
<1> QED
  BY <1>1 DEF IInv

LEMMA CutPayload ==
  ASSUME IInv, TypeOK', pc = "writePayload",
         NEW p \in {payload[slot], Torn, image},
         payload' = [payload EXCEPT ![slot] = p],
         header' = header, acked' = acked
  PROVE  Parity' /\ AckedSaveSurvives'
<1>1. /\ Writing
      /\ header' = [header EXCEPT ![slot] = header[slot]]
      /\ p \in Images \cup {Torn}
  BY DEF IInv, TypeOK, Writing
<1> QED
  BY <1>1, SpillStep

LEMMA CutHeader ==
  ASSUME IInv, TypeOK', pc = "writeHeader",
         NEW h \in {header[slot], Torn, NewHeader},
         header' = [header EXCEPT ![slot] = h],
         acked' = IF h = NewHeader THEN None ELSE acked,
         payload' = payload
  PROVE  Parity' /\ AckedSaveSurvives'
<1>1. CASE h = NewHeader
  <2>1. acked' = None /\ None # image
    BY <1>1, StoreAssumption DEF IInv, TypeOK
  <2> QED
    BY <1>1, <2>1, CommitStep
<1>2. CASE h # NewHeader
  <2>1. /\ Writing
        /\ payload' = [payload EXCEPT ![slot] = payload[slot]]
        /\ payload[slot] \in Images \cup {Torn}
        /\ h \in {header[slot], Torn}
    BY <1>2 DEF IInv, TypeOK, Writing
  <2> QED
    BY <1>2, <2>1, SpillStep
<1> QED
  BY <1>1, <1>2

LEMMA PowerLossStep ==
  ASSUME IInv, TypeOK', PowerLoss
  PROVE  IInv'
<1>1. CASE pc = "writePayload"
  BY <1>1, CutPayload, SaveEnds DEF PowerLoss, CutWrite
<1>2. CASE pc = "writeHeader"
  BY <1>2, CutHeader, SaveEnds DEF PowerLoss, CutWrite
<1>3. CASE pc \notin {"writePayload", "writeHeader"}
  BY <1>3, QuietStep DEF PowerLoss, CutWrite
<1> QED
  BY <1>1, <1>2, <1>3

LEMMA NextIInv == IInv /\ [Next]_vars => IInv'
<1> SUFFICES ASSUME IInv, [Next]_vars
             PROVE  IInv'
  OBVIOUS
<1>0. TypeOK'
  BY TypeStep DEF IInv
<1>1. CASE Edit
  BY <1>0, <1>1, QuietStep DEF Edit
<1>2. CASE SaveBegin
  BY <1>0, <1>2, SaveBeginStep
<1>3. CASE WritePayload
  BY <1>0, <1>3, WritePayloadStep
<1>4. CASE WritePayloadFails
  BY <1>0, <1>4, CutPayload, SaveEnds DEF WritePayloadFails
<1>5. CASE WriteHeader
  <2>1. image # None
    BY StoreAssumption DEF IInv, TypeOK
  <2>2. acked' \in {None, image} /\ (acked' = image => clean)
    BY <1>5, <2>1 DEF WriteHeader
  <2> QED
    BY <1>0, <1>5, <2>2, CommitStep, SaveEnds DEF WriteHeader
<1>6. CASE WriteHeaderFails
  BY <1>0, <1>6, CutHeader, SaveEnds DEF WriteHeaderFails
<1>7. CASE Restore
  BY <1>0, <1>7, QuietStep DEF Restore
<1>8. CASE WipeBegin
  <2>1. /\ header' = header
        /\ pc' = "eraseA"
        /\ acked' = None
    BY <1>8 DEF WipeBegin
  <2>2. Parity'
    BY <2>1, HeadersUntouched DEF IInv
  <2>3. Target' /\ Written' /\ NothingAcked' /\ AckedSaveSurvives'
    BY <2>1 DEF Target, Writing, Written, NothingAcked, AckedSaveSurvives
  <2> QED
    BY <1>0, <2>2, <2>3 DEF IInv
<1>9. CASE EraseA
  BY <1>0, <1>9, EraseStep DEF EraseA
<1>10. CASE EraseB
  BY <1>0, <1>10, EraseStep DEF EraseB
<1>11. CASE EraseFails
  BY <1>0, <1>11, QuietStep DEF EraseFails
<1>12. CASE WipeReset
  BY <1>0, <1>12, QuietStep DEF WipeReset
<1>13. CASE PowerLoss
  BY <1>0, <1>13, PowerLossStep
<1>14. CASE Startup
  BY <1>0, <1>14, QuietStep DEF Startup
<1>15. CASE SafeBoot
  BY <1>0, <1>15, QuietStep DEF SafeBoot
<1>16. CASE UNCHANGED vars
  <2>1. Parity' /\ Last' = Last /\ Age' = Age
    BY <1>16, StoreUntouched, HeadersUntouched DEF IInv, vars
  <2>2. Target'
    BY <1>16, StoreUntouched DEF IInv, Target, Writing, vars
  <2>3. Written' /\ NothingAcked'
    BY <1>16 DEF IInv, Written, NothingAcked, vars
  <2>4. AckedSaveSurvives'
    BY <1>16, <2>1 DEF IInv, AckedSaveSurvives, vars
  <2> QED
    BY <1>0, <2>1, <2>2, <2>3, <2>4 DEF IInv
<1> QED
  BY <1>1, <1>2, <1>3, <1>4, <1>5, <1>6, <1>7, <1>8, <1>9, <1>10, <1>11,
     <1>12, <1>13, <1>14, <1>15, <1>16 DEF Next

(* The inductive invariant holds in every state of the store.              *)
THEOREM SnapshotStoreIInv == Spec => []IInv
BY InitIInv, NextIInv, PTL DEF Spec

----------------------------------------------------------------------------
(* The store's variables keep their types; a generation stays a uint32_t.  *)
THEOREM SnapshotStoreTypeOK == Spec => []TypeOK
<1>1. IInv => TypeOK
  BY DEF IInv
<1> QED
  BY <1>1, SnapshotStoreIInv, PTL

(* An acknowledged save is what the next restore loads, for every number   *)
(* of failed or cut saves after it, and with header reads that may fail.   *)
THEOREM SnapshotStoreAckedSaveSurvives == Spec => []AckedSaveSurvives
<1>1. IInv => AckedSaveSurvives
  BY DEF IInv
<1> QED
  BY <1>1, SnapshotStoreIInv, PTL

(* The headers never tie, because the slots keep opposite parities.        *)
THEOREM SnapshotStoreNoGenerationTie == Spec => []NoGenerationTie
<1>1. IInv => NoGenerationTie
  <2> SUFFICES ASSUME IInv, 0 \in Valid, 1 \in Valid
               PROVE  header[0].generation # header[1].generation
    BY DEF NoGenerationTie
  <2>1. header[0] # Torn /\ header[1] # Torn
    BY ValidFacts
  <2> QED
    BY <2>1 DEF IInv, Parity
<1> QED
  BY <1>1, SnapshotStoreIInv, PTL

(* A save that read both headers never writes the slot in use.             *)
THEOREM SnapshotStoreSaveAvoidsActive == Spec => []SaveAvoidsActive
<1>1. IInv => SaveAvoidsActive
  <2> SUFFICES ASSUME IInv, Writing, clean, Valid # {}
               PROVE  slot # Active
    BY DEF SaveAvoidsActive, Writing
  <2>1. slot = PickInactive(Valid)
    BY DEF IInv, Target
  <2>2. PickInactive(Valid) = 1 - Active /\ Active \in Slots
    BY InactiveIsNotActive DEF IInv
  <2> QED
    BY <2>1, <2>2
<1> QED
  BY <1>1, SnapshotStoreIInv, PTL

----------------------------------------------------------------------------
(* Refinement, by the operations that read every header there is.          *)

(* A write to the inactive slot that commits nothing: the specification    *)
(* spills into prev or stutters.                                           *)
LEMMA SpillRefines ==
  ASSUME IInv, clean, Writing, image' = image,
         NEW h \in {header[slot], Torn},
         NEW p \in {payload[slot], Torn, image},
         h = header[slot] \/ p = payload[slot],
         header' = [header EXCEPT ![slot] = h],
         payload' = [payload EXCEPT ![slot] = p]
  PROVE  [Durable!Next]_(Durable!vars)
<1>0. /\ TypeOK
      /\ Parity
      /\ slot \in Slots
      /\ slot = PickInactive(Valid)
      /\ p \in Images \cup {Torn}
  BY DEF IInv, TypeOK, Target
<1>1. CASE h = header[slot] /\ p = payload[slot]
  <2>1. header' = header /\ payload' = payload
    BY <1>0, <1>1 DEF TypeOK
  <2> QED
    BY <2>1, StoreUntouched DEF Durable!vars
<1>2. CASE h = Torn \/ p = Torn \/ p = image
  <2>1. /\ Last' = Last
        /\ Age' = Age
        /\ Prev' \in {None, p}
        /\ h = Torn \/ p = Torn => Prev' = None
    <3> DEFINE s == slot
    <3>1. s \in Slots /\ s = PickInactive(Valid) /\ h \in {header[s], Torn}
      BY <1>0
    <3>2. /\ header' = [header EXCEPT ![s] = h]
          /\ payload' = [payload EXCEPT ![s] = p]
      OBVIOUS
    <3> HIDE DEF s
    <3> QED
      BY <1>0, <3>1, <3>2, InactiveWrite
  <2>2. Durable!Spill
    BY <1>2, <2>1 DEF Durable!Spill
  <2> QED
    BY <2>2 DEF Durable!Next
<1> QED
  BY <1>1, <1>2

(* The header write of a save is the step in which it takes effect.        *)
LEMMA CommitRefines ==
  ASSUME IInv, clean, pc = "writeHeader", image' = image,
         header' = [header EXCEPT ![slot] = NewHeader], payload' = payload
  PROVE  [Durable!Next]_(Durable!vars)
<1>0. TypeOK /\ Parity
  BY DEF IInv
<1> DEFINE s == slot
<1>1. /\ s \in Slots
      /\ s = PickInactive(Valid)
      /\ generation = NextGeneration(Valid)
      /\ payload[s] = image
  BY DEF IInv, TypeOK, Target, Writing, Written
<1>2. header' = [header EXCEPT ![s] = NewHeader]
  OBVIOUS
<1> HIDE DEF s
<1>3. \/ /\ Age < GenModulus - 1
         /\ Age' = Age + 1
         /\ Last' = image
         /\ Prev' = Last
      \/ /\ Age = GenModulus - 1
         /\ Age' = Age
         /\ Last' = Last
         /\ Prev' = image
  BY <1>0, <1>1, <1>2, CommitWrite
<1>4. Durable!Commit \/ Durable!CommitExhausted
  BY <1>3 DEF Durable!Commit, Durable!CommitExhausted
<1> QED
  BY <1>4 DEF Durable!Next

(* Reading a snapshot back.                                                *)
LEMMA RestoreRefines ==
  ASSUME RestoreImage, clean', header' = header, payload' = payload
  PROVE  [Durable!Next]_(Durable!vars)
<1>1. \/ image' = Base
      \/ /\ Valid # {}
         /\ Load(Active) # None
         /\ image' = Load(Active)
  BY DEF RestoreImage, Active
<1>2. image' \in {Last, Base} \ {None}
  BY <1>1, StoreAssumption DEF Last
<1>3. Durable!Restore
  BY <1>2, StoreUntouched DEF Durable!Restore
<1> QED
  BY <1>3 DEF Durable!Next

(* Erasing one slot.                                                       *)
LEMMA EraseRefines ==
  ASSUME IInv, NEW s \in Slots, image' = image,
         header' = [header EXCEPT ![s] = Torn],
         payload' = [payload EXCEPT ![s] = Torn]
  PROVE  [Durable!Next]_(Durable!vars)
<1>0. /\ TypeOK
      /\ Parity
      /\ 1 - s \in Slots
      /\ header'[s] = Torn
      /\ header'[1 - s] = header[1 - s]
      /\ payload'[1 - s] = payload[1 - s]
  BY DEF IInv, TypeOK
<1>1. /\ Load(s)' = None
      /\ Load(1 - s)' = Load(1 - s)
      /\ 1 - s \in Valid' <=> 1 - s \in Valid
      /\ s \notin Valid'
  BY <1>0 DEF Load, Valid
<1>2. CASE 1 - s \in Valid
  <2>1. Valid' # {} /\ Valid # {} /\ Active' = 1 - s
    BY <1>1, <1>2 DEF Active, PickActive
  <2>2. Last' = Load(1 - s) /\ 1 - Active' = s
    BY <1>1, <2>1 DEF Last
  <2>3. Prev' = None
    BY <1>1, <2>1, <2>2 DEF Prev
  <2>4. Age' = header[1 - s].generation
    BY <1>0, <2>1 DEF Age
  <2>5. Active \in Slots
    BY <2>1, <1>0, InactiveIsNotActive
  <2>6. CASE Active = 1 - s
    <3>1. Last = Load(1 - s) /\ Age = header[1 - s].generation
      BY <2>1, <2>6 DEF Last, Age
    <3>2. Durable!ErasePrev
      BY <2>2, <2>3, <2>4, <3>1 DEF Durable!ErasePrev
    <3> QED
      BY <3>2 DEF Durable!Next
  <2>7. CASE Active = s
    <3>1. Prev = Load(1 - s)
      BY <2>1, <2>7 DEF Prev
    <3>2. Age' \in 0 .. GenModulus - 1
      BY <1>0, <1>2, <2>4, HeaderFacts DEF Valid
    <3>3. Durable!EraseLast
      BY <2>2, <2>3, <3>1, <3>2 DEF Durable!EraseLast
    <3> QED
      BY <3>3 DEF Durable!Next
  <2> QED
    BY <2>5, <2>6, <2>7
<1>3. CASE 1 - s \notin Valid
  <2>1. Valid' = {}
    BY <1>1, <1>3 DEF Valid
  <2>2. Last' = None /\ Prev' = None /\ Age' = 0
    BY <2>1 DEF Last, Prev, Age
  <2>3. Prev = None
    <3>1. CASE Valid = {}
      BY <3>1 DEF Prev
    <3>2. CASE Valid # {}
      <4>1. Active = s
        BY <1>0, <1>3, <3>2, InactiveIsNotActive DEF Valid
      <4>2. Load(1 - s) = None
        BY <1>0, <1>3 DEF Load, Valid
      <4> QED
        BY <3>2, <4>1, <4>2 DEF Prev
    <3> QED
      BY <3>1, <3>2
  <2>4. Durable!EraseLast
    BY <2>2, <2>3, StoreAssumption DEF Durable!EraseLast
  <2> QED
    BY <2>4 DEF Durable!Next
<1> QED
  BY <1>2, <1>3

LEMMA InitRefines == Init => Durable!Init
<1> SUFFICES ASSUME Init PROVE Durable!Init
  OBVIOUS
<1>1. Valid = {}
  BY DEF Init, Valid
<1> QED
  BY <1>1 DEF Init, Durable!Init, Last, Prev, Age

LEMMA NextRefines ==
  ASSUME IInv, clean', [Next]_vars
  PROVE  [Durable!Next]_(Durable!vars)
<1>0. TypeOK /\ slot \in Slots
  BY DEF IInv, TypeOK
<1>1. CASE Edit
  <2>1. Durable!Edit
    BY <1>1, StoreUntouched DEF Edit, Durable!Edit
  <2> QED
    BY <2>1 DEF Durable!Next
<1>2. CASE SaveBegin \/ WipeBegin \/ EraseFails \/ UNCHANGED vars
  <2>1. header' = header /\ payload' = payload /\ image' = image
    BY <1>2 DEF SaveBegin, WipeBegin, EraseFails, vars
  <2> QED
    BY <2>1, StoreUntouched DEF Durable!vars
<1>3. CASE WritePayload \/ WritePayloadFails
  <2>1. PICK p \in {payload[slot], Torn, image} :
          payload' = [payload EXCEPT ![slot] = p]
    BY <1>3 DEF WritePayload, WritePayloadFails
  <2>2. /\ Writing
        /\ clean
        /\ image' = image
        /\ header' = [header EXCEPT ![slot] = header[slot]]
    BY <1>0, <1>3 DEF WritePayload, WritePayloadFails, Writing, TypeOK
  <2> QED
    BY <2>1, <2>2, SpillRefines
<1>4. CASE WriteHeader
  BY <1>4, CommitRefines DEF WriteHeader
<1>5. CASE WriteHeaderFails
  <2>1. PICK h \in {header[slot], Torn, NewHeader} :
          header' = [header EXCEPT ![slot] = h]
    BY <1>5 DEF WriteHeaderFails
  <2>2. /\ pc = "writeHeader"
        /\ clean
        /\ image' = image
        /\ payload' = payload
        /\ payload' = [payload EXCEPT ![slot] = payload[slot]]
    BY <1>0, <1>5 DEF WriteHeaderFails, TypeOK
  <2> QED
    BY <2>1, <2>2, CommitRefines, SpillRefines DEF Writing
<1>6. CASE Restore \/ Startup
  BY <1>6, RestoreRefines DEF Restore, Startup
<1>7. CASE EraseA \/ EraseB
  BY <1>7, EraseRefines DEF EraseA, EraseB, Erase
<1>8. CASE WipeReset \/ SafeBoot
  <2>1. image' = Base /\ header' = header /\ payload' = payload
    BY <1>8 DEF WipeReset, SafeBoot
  <2>2. Durable!Restore
    BY <2>1, StoreUntouched, StoreAssumption DEF Durable!Restore
  <2> QED
    BY <2>2 DEF Durable!Next
<1>9. CASE PowerLoss
  <2>0. image' = image /\ clean
    BY <1>9 DEF PowerLoss
  <2>1. CASE pc = "writePayload"
    <3>1. PICK p \in {payload[slot], Torn, image} :
            payload' = [payload EXCEPT ![slot] = p]
      BY <1>9, <2>1 DEF PowerLoss, CutWrite
    <3>2. header' = header
      BY <1>9, <2>1 DEF PowerLoss, CutWrite
    <3>3. header' = [header EXCEPT ![slot] = header[slot]]
      BY <1>0, <3>2 DEF TypeOK
    <3> QED
      BY <2>0, <2>1, <3>1, <3>3, SpillRefines DEF Writing
  <2>2. CASE pc = "writeHeader"
    <3>1. PICK h \in {header[slot], Torn, NewHeader} :
            header' = [header EXCEPT ![slot] = h]
      BY <1>9, <2>2 DEF PowerLoss, CutWrite
    <3>2. payload' = payload
      BY <1>9, <2>2 DEF PowerLoss, CutWrite
    <3>3. payload' = [payload EXCEPT ![slot] = payload[slot]]
      BY <1>0, <3>2 DEF TypeOK
    <3> QED
      BY <2>0, <2>2, <3>1, <3>2, <3>3, CommitRefines, SpillRefines
      DEF Writing
  <2>3. CASE pc \notin {"writePayload", "writeHeader"}
    <3>1. header' = header /\ payload' = payload
      BY <1>9, <2>3 DEF PowerLoss, CutWrite
    <3> QED
      BY <2>0, <3>1, StoreUntouched DEF Durable!vars
  <2> QED
    BY <2>1, <2>2, <2>3
<1> QED
  BY <1>1, <1>2, <1>3, <1>4, <1>5, <1>6, <1>7, <1>8, <1>9 DEF Next

(* The two-slot store implements the one-step image store, but for the     *)
(* operations that misread a header: a save takes effect exactly at its    *)
(* header write, for every set of images and every generation modulus.     *)
THEOREM SnapshotStoreRefinesDurableImage == Spec => ImplementsDurableImage
<1>1. Init => Durable!Init
  BY InitRefines
<1>2. IInv /\ [Next]_vars => [clean' => Durable!Next]_(Durable!vars)
  BY NextRefines
<1> QED
  BY <1>1, <1>2, SnapshotStoreIInv, PTL DEF Spec, ImplementsDurableImage
=============================================================================
