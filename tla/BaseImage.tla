------------------------------ MODULE BaseImage ------------------------------
(***************************************************************************)
(* The base image and the overlay over it: the slot table                  *)
(* (froth_slot_table.c), installing and resetting the base image           *)
(* (frothy_base_image.c), slot assignment by the evaluator                 *)
(* (frothy_eval.c) and the reference counts of the bound objects           *)
(* (frothy_value.c).                                                       *)
(*                                                                         *)
(* A definition is an object that remembers only what it defines.  Values  *)
(* are objects; immediate values (integers, booleans) own nothing and are  *)
(* left out.  Names are stored in the heap: those created before           *)
(* boot_complete below the watermark (at = 0), later ones above it, where  *)
(* a reset reclaims them; one more name takes one more place.              *)
(*                                                                         *)
(* A base-library form is evaluated by the interpreter, which polls for    *)
(* CTRL-C, so installing the base image can be cut short between forms.    *)
(***************************************************************************)
EXTENDS Naturals, Sequences, FiniteSets

CONSTANTS
  Natives,      \* names of frothy_base_slots[], in order
  Boot,         \* the one among them that is left unbound
  Ffi,          \* names of the board's binding table, in order
  Lib,          \* names the board's base library defines, in order
  UserNames,    \* names the program assigns
  NoName,       \* a slot whose name is NULL
  User,         \* what an object defined by the program defines
  Unbound,      \* a slot without binding
  SlotCapacity,   \* FROTH_SLOT_TABLE_SIZE
  ObjectCapacity  \* FROTHY_OBJECT_CAPACITY

BaseSeq == Natives \o Ffi \o Lib

BaseNames == {BaseSeq[i] : i \in DOMAIN BaseSeq}

ASSUME BaseImageAssumption ==
  /\ Natives \in Seq(BaseNames) /\ Ffi \in Seq(BaseNames) /\ Lib \in Seq(BaseNames)
  /\ \A i, j \in DOMAIN BaseSeq : BaseSeq[i] = BaseSeq[j] => i = j
  /\ \E i \in DOMAIN Natives : Natives[i] = Boot
  /\ SlotCapacity \in Nat /\ Len(BaseSeq) <= SlotCapacity
  /\ ObjectCapacity \in Nat /\ Len(BaseSeq) <= ObjectCapacity
  /\ NoName \notin BaseNames \cup UserNames
  /\ User \notin BaseNames
  /\ Unbound \notin 0 .. ObjectCapacity - 1

VARIABLES
  slots,      \* slot_table[0 .. slot_pointer - 1]
  registry,   \* frothy_base_slot_count
  objects,    \* per object id: what it defines and its reference count
  heap,       \* names stored above the watermark
  phase,      \* "install" while frothy_base_image_install runs
  pos,        \* how much of BaseSeq it has installed
  booted,     \* boot_complete, as the program sees it
  status,     \* result of the last install or reset
  cut         \* history: a reset since power-on ended before its install did

vars == <<slots, registry, objects, heap, phase, pos, booted, status, cut>>

Ids == 0 .. ObjectCapacity - 1

Slot == [name : BaseNames \cup UserNames \cup {NoName},
         impl : Ids \cup {Unbound}, overlay : BOOLEAN, at : Nat]

(* Every variable has the type of its C counterpart; slot_pointer never    *)
(* passes the end of slot_table.                                           *)
TypeOK ==
  /\ slots \in Seq(Slot)
  /\ Len(slots) <= SlotCapacity
  /\ registry \in 0 .. SlotCapacity
  /\ objects \in [Ids -> [of : BaseNames \cup {User}, refs : Nat]]
  /\ heap \in Nat
  /\ phase \in {"idle", "install", "off"}
  /\ pos \in 0 .. Len(BaseSeq)
  /\ booted \in BOOLEAN
  /\ status \in {"ok", "error"}
  /\ cut \in BOOLEAN

(* froth_vm_reset, before frothy_boot installs the base image.             *)
Init ==
  /\ slots = <<>>
  /\ registry = 0
  /\ objects = [id \in Ids |-> [of |-> User, refs |-> 0]]
  /\ heap = 0
  /\ phase = "install"
  /\ pos = 0
  /\ booted = FALSE
  /\ status = "ok"
  /\ cut = FALSE

----------------------------------------------------------------------------
(* Objects.  An object is live while its count is positive.                *)

Live(objs, id) == objs[id].refs > 0

(* frothy_runtime_append_object takes the first free entry.                *)
HasRoom(objs) == \E id \in Ids : ~Live(objs, id)

Fresh(objs) ==
  CHOOSE id \in Ids : ~Live(objs, id) /\ \A k \in Ids : k < id => Live(objs, k)

NewObject(objs, def) ==
  [objs EXCEPT ![Fresh(objs)] = [of |-> def, refs |-> 1]]

Retain(objs, id) == [objs EXCEPT ![id].refs = @ + 1]

(* frothy_value_release, for a live object.                                *)
Release(objs, id) == [objs EXCEPT ![id].refs = @ - 1]

----------------------------------------------------------------------------
(* Slots.                                                                  *)

Named(tab, n) == {k \in DOMAIN tab : tab[k].name = n}

(* froth_slot_find_name: the first slot of that name.                      *)
Find(tab, n) == CHOOSE k \in Named(tab, n) : \A j \in Named(tab, n) : k <= j

(* froth_slot_create: the name goes to the next place of the heap, over    *)
(* whatever name a reset has left there.                                   *)
Create(tab, n) ==
  Append([k \in DOMAIN tab |->
            IF booted /\ tab[k].at = heap + 1 THEN [tab[k] EXCEPT !.name = n]
            ELSE tab[k]],
         [name |-> n, impl |-> Unbound, overlay |-> FALSE,
          at |-> IF booted THEN heap + 1 ELSE 0])

FindOrCreate(n) == IF Named(slots, n) = {} THEN Create(slots, n) ELSE slots

(* The slot FindOrCreate answers.                                          *)
IndexOf(n) == IF Named(slots, n) = {} THEN Len(slots) + 1 ELSE Find(slots, n)

CanFindOrCreate(n) == Named(slots, n) # {} \/ Len(slots) < SlotCapacity

HeapAfter(n) == IF booted /\ Named(slots, n) = {} THEN heap + 1 ELSE heap

OldImpl(n) == IF Named(slots, n) = {} THEN Unbound ELSE slots[Find(slots, n)].impl

Bind(n, id, overlay) ==
  [FindOrCreate(n) EXCEPT ![IndexOf(n)].impl = id,
                          ![IndexOf(n)].overlay = overlay]

(* frothy_slot_write_owned: the old binding of n is released before the    *)
(* new one is stored; if it is not a live object the write fails.          *)
WriteFails(objs, n) == OldImpl(n) # Unbound /\ ~Live(objs, OldImpl(n))

(* Faulty variant: the old binding is not released.                        *)
WriteObjectsUnreleased(objs, n) == objs

WriteObjects(objs, n) ==
  IF OldImpl(n) = Unbound THEN objs ELSE Release(objs, OldImpl(n))

----------------------------------------------------------------------------
(* The program, between resets.                                            *)

(* "n is ...": the value, object id counted in objs, becomes n's binding.  *)
Assign(n, id, objs) ==
  /\ phase = "idle"
  /\ CanFindOrCreate(n)
  /\ ~WriteFails(objs, n)
  /\ objects' = WriteObjects(objs, n)
  /\ slots' = Bind(n, id, TRUE)
  /\ heap' = HeapAfter(n)
  /\ UNCHANGED <<registry, phase, pos, booted, status, cut>>

(* A fresh definition.                                                     *)
Define(n) ==
  /\ HasRoom(objects)
  /\ Assign(n, Fresh(objects), NewObject(objects, User))

(* The value of slot m, retained when it is read.                          *)
Alias(n, m) ==
  /\ OldImpl(m) # Unbound
  /\ Live(objects, OldImpl(m))
  /\ Assign(n, OldImpl(m), Retain(objects, OldImpl(m)))

----------------------------------------------------------------------------
(* frothy_base_image_reset.                                                *)

OverlaySlots == {k \in DOMAIN slots : slots[k].overlay /\ slots[k].impl # Unbound}

(* How often the overlay slots up to k refer to the object of slot k.      *)
OverlayRefs(k) ==
  Cardinality({j \in OverlaySlots : j <= k /\ slots[j].impl = slots[k].impl})

(* frothy_runtime_clear_overlay_state stops at the first overlay slot      *)
(* whose object is no longer live when its turn comes.                     *)
DanglingOverlay ==
  {k \in OverlaySlots : objects[slots[k].impl].refs < OverlayRefs(k)}

ResetFailsOnRelease ==
  /\ phase = "idle"
  /\ \E d \in DanglingOverlay :
       /\ \A k \in DanglingOverlay : d <= k
       /\ objects' = [id \in Ids |->
            [objects[id] EXCEPT !.refs =
               @ - Cardinality({k \in OverlaySlots :
                                  k < d /\ slots[k].impl = id})]]
  /\ status' = "error"
  /\ UNCHANGED <<slots, registry, heap, phase, pos, booted, cut>>

Dead(objs) == [id \in Ids |-> [objs[id] EXCEPT !.refs = 0]]

(* Faulty variant: the last slot of the registry is left out.              *)
ClearBaseSlotsShort(tab, upto) ==
  [k \in DOMAIN tab |->
     IF k < upto THEN [tab[k] EXCEPT !.overlay = FALSE, !.impl = Unbound]
     ELSE tab[k]]

(* The loop over the first frothy_base_slot_count slots.                   *)
ClearBaseSlots(tab, upto) ==
  [k \in DOMAIN tab |->
     IF k <= upto THEN [tab[k] EXCEPT !.overlay = FALSE, !.impl = Unbound]
     ELSE tab[k]]

(* The loop stops with an error at a slot without a name.                  *)
RegistryHoles == {k \in 1 .. registry : slots[k].name = NoName}

ResetFailsOnHole ==
  /\ phase = "idle"
  /\ DanglingOverlay = {}
  /\ \E h \in RegistryHoles :
       /\ \A k \in RegistryHoles : h <= k
       /\ slots' = ClearBaseSlots(slots, h - 1)
  /\ objects' = Dead(objects)
  /\ status' = "error"
  /\ UNCHANGED <<registry, heap, phase, pos, booted, cut>>

(* Faulty variant: slot_pointer stays where it was.                        *)
ResetOverlayNoShrink(tab) ==
  [k \in DOMAIN tab |->
     IF tab[k].overlay
       THEN [name |-> NoName, impl |-> Unbound, overlay |-> FALSE, at |-> 0]
       ELSE tab[k]]

(* froth_slot_reset_overlay: overlay slots lose their name, slot_pointer   *)
(* shrinks to the last slot that keeps one.                                *)
ResetOverlay(tab) ==
  LET kept == {k \in DOMAIN tab : ~tab[k].overlay /\ tab[k].name # NoName}
      end == CHOOSE m \in 0 .. Len(tab) :
               (m = 0 \/ m \in kept) /\ \A k \in kept : k <= m
  IN  [k \in 1 .. end |->
         IF tab[k].overlay
           THEN [name |-> NoName, impl |-> Unbound, overlay |-> FALSE,
                 at |-> 0]
           ELSE tab[k]]

ResetBegin ==
  /\ phase = "idle"
  /\ DanglingOverlay = {}
  /\ RegistryHoles = {}
  /\ objects' = Dead(objects)
  /\ slots' = ResetOverlay(ClearBaseSlots(slots, registry))
  /\ heap' = 0
  /\ registry' = 0
  /\ phase' = "install"
  /\ pos' = 0
  /\ UNCHANGED <<booted, status, cut>>

----------------------------------------------------------------------------
(* frothy_base_image_install, one name per step.  (Nothing runs between    *)
(* the entries of a binding table; its staging and rollback are left out.) *)

Current == BaseSeq[pos + 1]

Installing(part) ==
  /\ phase = "install"
  /\ pos < Len(BaseSeq)
  /\ part = IF pos < Len(Natives) THEN "native"
            ELSE IF pos < Len(Natives \o Ffi) THEN "ffi" ELSE "lib"

Installed(id) ==
  /\ CanFindOrCreate(Current)
  /\ slots' = Bind(Current, id, FALSE)
  /\ heap' = HeapAfter(Current)
  /\ pos' = pos + 1
  /\ UNCHANGED <<registry, phase, booted, status, cut>>

InstallNative ==
  /\ Installing("native")
  /\ IF Current = Boot
       THEN Installed(Unbound) /\ UNCHANGED objects
       ELSE Installed(Fresh(objects)) /\ objects' = NewObject(objects, Current)

(* frothy_ffi_install_table_for_source: an old binding is released unless  *)
(* it is the new object.                                                   *)
InstallFfi ==
  LET objs == NewObject(objects, Current)
      old == OldImpl(Current)
  IN  /\ Installing("ffi")
      /\ Installed(Fresh(objects))
      /\ objects' = IF old \in {Unbound, Fresh(objects)} \/ ~Live(objs, old)
                      THEN objs ELSE Release(objs, old)

(* One form of the base library, evaluated with boot_complete = 0.         *)
EvalLibForm ==
  LET objs == NewObject(objects, Current)
  IN  /\ Installing("lib")
      /\ ~WriteFails(objs, Current)
      /\ Installed(Fresh(objects))
      /\ objects' = WriteObjects(objs, Current)

(* The install returns an error where it stands: the slot table is full,   *)
(* or a form of the library fails, because CTRL-C was seen by              *)
(* frothy_poll_interrupt before it was evaluated or because it finds a     *)
(* stale binding (its value is released).                                  *)
InstallFails ==
  /\ \/ phase = "install" /\ pos < Len(BaseSeq) /\ ~CanFindOrCreate(Current)
     \/ Installing("lib")
  /\ phase' = IF booted THEN "idle" ELSE "off"
  /\ status' = "error"
  /\ cut' = TRUE
  /\ UNCHANGED <<slots, registry, objects, heap, pos, booted>>

InstallDone ==
  /\ phase = "install"
  /\ pos = Len(BaseSeq)
  /\ registry' = Len(slots)
  /\ phase' = "idle"
  /\ status' = "ok"
  /\ booted' = TRUE
  /\ UNCHANGED <<slots, objects, heap, pos, cut>>

(* The device is started again; frothy_boot needs it when its install      *)
(* fails.                                                                  *)
PowerOn ==
  /\ phase \in {"off", "idle"}
  /\ slots' = <<>>
  /\ registry' = 0
  /\ objects' = Dead(objects)
  /\ heap' = 0
  /\ phase' = "install"
  /\ pos' = 0
  /\ booted' = FALSE
  /\ status' = "ok"
  /\ cut' = FALSE

Next ==
  \/ \E n \in UserNames : Define(n)
  \/ \E n \in UserNames, m \in BaseNames \cup UserNames : Alias(n, m)
  \/ ResetFailsOnRelease
  \/ ResetFailsOnHole
  \/ ResetBegin
  \/ InstallNative
  \/ InstallFfi
  \/ EvalLibForm
  \/ InstallFails
  \/ InstallDone
  \/ PowerOn

Spec == Init /\ [][Next]_vars

----------------------------------------------------------------------------
(* A slot of the base image that the program has not assigned is bound to  *)
(* the definition the base image gives it.                                 *)
Intact(n) ==
  \E k \in Named(slots, n) :
    /\ Named(slots, n) = {k}
    /\ \/ slots[k].overlay
       \/ n = Boot /\ slots[k].impl = Unbound
       \/ /\ n # Boot
          /\ slots[k].impl # Unbound
          /\ objects[slots[k].impl].of = n
          /\ Live(objects, slots[k].impl)

Settled == phase = "idle" /\ status = "ok"

(* Once a reset or the boot has reported success, every base definition is *)
(* there, under its one slot, until the program assigns that name: base    *)
(* definitions survive wipe and reset.                                     *)
BaseSurvives == Settled => \A n \in BaseNames : Intact(n)

(* So they do, unless an earlier reset was cut short.                      *)
BaseSurvivesUncut == cut \/ BaseSurvives

(* Unless a reset was cut short, the count of every object is the number   *)
(* of slots bound to it, so nothing a slot needs is freed and nothing else *)
(* is kept.                                                                *)
RefsExact ==
  /\ TypeOK
  /\ Settled /\ ~cut => \A id \in Ids :
       objects[id].refs = Cardinality({k \in DOMAIN slots : slots[k].impl = id})

(* A reset that reports success, none before having been cut short, leaves *)
(* no trace of the overlay: the slot table is the one the first boot left, *)
(* in the same order.                                                      *)
Pristine ==
  /\ Len(slots) = Len(BaseSeq)
  /\ registry = Len(BaseSeq)
  /\ heap = 0
  /\ \A i \in DOMAIN slots : slots[i].name = BaseSeq[i] /\ ~slots[i].overlay

ResetIsPristine ==
  [][~cut /\ phase = "install" /\ phase' = "idle" /\ status' = "ok" => Pristine']_vars
=============================================================================
