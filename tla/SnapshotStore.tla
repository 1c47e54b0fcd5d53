---------------------------- MODULE SnapshotStore ----------------------------
(***************************************************************************)
(* frothy_snapshot.c over the two storage slots of the platform.           *)
(*                                                                         *)
(* A save writes the payload into the slot that is not active and then its *)
(* header; the header's generation decides which slot is active.  Each     *)
(* platform write or erase is one step, may fail with or without having    *)
(* changed the slot, and power may be lost during it.                      *)
(*                                                                         *)
(* A payload is named by the overlay image it encodes; the payload CRC in  *)
(* a header is therefore the image's name, and a payload that is absent or *)
(* half written (Torn) has a CRC no header holds.  Images are what the     *)
(* codec writes: the overlay bindings, Base when there are none.           *)
(***************************************************************************)
EXTENDS Naturals

CONSTANTS
  Images,       \* overlay images the program can be in
  Base,         \* the image without overlay bindings
  None,         \* no image
  Torn,         \* contents no CRC matches: absent, half written, erased
  GenModulus    \* 2^32: generations are uint32_t

ASSUME StoreAssumption ==
  /\ Base \in Images
  /\ None \notin Images
  /\ Torn \notin Images
  /\ Torn # None
  /\ Torn \notin [generation : 0 .. GenModulus - 1, crc : Images]
  /\ GenModulus \in Nat
  /\ GenModulus > 2
  /\ GenModulus % 2 = 0

VARIABLES
  header,       \* per slot: a header record, or Torn
  payload,      \* per slot: an image, or Torn
  image,        \* overlay image of the running program
  pc,           \* the platform call the current operation is about to make
  slot,         \* frothy_snapshot_save: slot being written
  generation,   \* frothy_snapshot_save: generation of the new header
  clean,        \* history: the current operation read every valid header
  acked         \* history: image of the last acknowledged save, None when a
                \* later wipe or a save that misread a header may replace it

vars == <<header, payload, image, pc, slot, generation, clean, acked>>

Slots == {0, 1}

Headers == [generation : 0 .. GenModulus - 1, crc : Images]

(* Every variable has the type of its C counterpart; a generation fits     *)
(* into its header field.                                                  *)
TypeOK ==
  /\ header \in [Slots -> Headers \cup {Torn}]
  /\ payload \in [Slots -> Images \cup {Torn}]
  /\ image \in Images
  /\ pc \in {"idle", "writePayload", "writeHeader", "eraseA", "eraseB",
             "reset", "boot"}
  /\ slot \in Slots
  /\ generation \in 0 .. GenModulus - 1
  /\ clean \in BOOLEAN
  /\ acked \in Images \cup {None}

Init ==
  /\ header = [s \in Slots |-> Torn]
  /\ payload = [s \in Slots |-> Torn]
  /\ image = Base
  /\ pc = "idle"
  /\ slot = 0
  /\ generation = 0
  /\ clean = TRUE
  /\ acked = None

----------------------------------------------------------------------------
(* frothy_snapshot_read_slot_header on both slots: the slots whose header  *)
(* parses.  A read error counts as an invalid header, so an operation sees *)
(* any part of them.                                                       *)
Valid == {s \in Slots : header[s] # Torn}

SeenHeaders == SUBSET Valid

(* frothy_snapshot_pick_active, for the slots seen as valid.               *)
PickActive(seen) ==
  IF 0 \in seen /\ (1 \notin seen
                      \/ header[0].generation >= header[1].generation)
    THEN 0 ELSE 1

(* Faulty variant: "both valid" resolves to the younger slot.              *)
PickInactiveYounger(seen) ==
  IF \/ 0 \notin seen
     \/ 1 \in seen /\ header[0].generation >= header[1].generation
    THEN 0 ELSE 1

(* frothy_snapshot_pick_inactive, for the slots seen as valid: the slot to *)
(* write and the generation to give it.                                    *)
PickInactive(seen) ==
  IF \/ 0 \notin seen
     \/ 1 \in seen /\ header[0].generation <= header[1].generation
    THEN 0 ELSE 1

(* Faulty variant: the generation outgrows its header field.               *)
IncrementUnbounded(g) == g + 1

(* uint32_t addition of 1.                                                 *)
Increment(g) == IF g = GenModulus - 1 THEN 0 ELSE g + 1

(* Faulty variant: the new header counts on from the slot it replaces.     *)
NextGenerationOfTarget(seen) ==
  LET s == PickInactive(seen)
  IN  IF s \in seen THEN Increment(header[s].generation) ELSE 1

NextGeneration(seen) ==
  IF 0 \notin seen /\ 1 \notin seen THEN 1
  ELSE IF PickInactive(seen) = 0
    THEN Increment(header[1].generation)
    ELSE Increment(header[0].generation)

NewHeader == [generation |-> generation, crc |-> image]

(* What frothy_snapshot_restore loads from slot s, once the header and the *)
(* payload CRC have been checked.                                          *)
Load(s) ==
  IF header[s] # Torn /\ header[s].crc = payload[s] THEN payload[s] ELSE None

----------------------------------------------------------------------------
(* The program changes its overlay.                                        *)
Edit ==
  /\ pc = "idle"
  /\ image' \in Images
  /\ clean' = TRUE
  /\ UNCHANGED <<header, payload, pc, slot, generation, acked>>

(* frothy_snapshot_save up to the choice of the slot.  (The codec refusing *)
(* the overlay returns before anything is read and changes nothing.)       *)
SaveBegin ==
  /\ pc = "idle"
  /\ \E seen \in SeenHeaders :
       /\ slot' = PickInactive(seen)
       /\ generation' = NextGeneration(seen)
       /\ clean' = (seen = Valid)
       /\ acked' = IF seen = Valid THEN acked ELSE None
  /\ pc' = "writePayload"
  /\ UNCHANGED <<header, payload, image>>

WritePayload ==
  /\ pc = "writePayload"
  /\ payload' = [payload EXCEPT ![slot] = image]
  /\ pc' = "writeHeader"
  /\ UNCHANGED <<header, image, slot, generation, clean, acked>>

(* platform_snapshot_write reports an error, before, within or after the   *)
(* write: the save returns it.                                             *)
WritePayloadFails ==
  /\ pc = "writePayload"
  /\ \E p \in {payload[slot], Torn, image} :
       payload' = [payload EXCEPT ![slot] = p]
  /\ pc' = "idle"
  /\ UNCHANGED <<header, image, slot, generation, clean, acked>>

WriteHeader ==
  /\ pc = "writeHeader"
  /\ header' = [header EXCEPT ![slot] = NewHeader]
  /\ acked' = IF clean THEN image ELSE None
  /\ pc' = "idle"
  /\ UNCHANGED <<payload, image, slot, generation, clean>>

(* An error reported by a header write that went through leaves the image  *)
(* saved although the save failed; nothing is acknowledged any more.       *)
WriteHeaderFails ==
  /\ pc = "writeHeader"
  /\ \E h \in {header[slot], Torn, NewHeader} :
       /\ header' = [header EXCEPT ![slot] = h]
       /\ acked' = IF h = NewHeader THEN None ELSE acked
  /\ pc' = "idle"
  /\ UNCHANGED <<payload, image, slot, generation, clean>>

----------------------------------------------------------------------------
(* frothy_snapshot_restore: storage is only read.  Any failure after the   *)
(* choice of the slot (payload read, payload CRC, validation, decoding)    *)
(* resets to base; the other slot is not tried.                            *)
RestoreImage ==
  \E seen \in SeenHeaders :
    /\ clean' = (seen = Valid)
    /\ \/ image' = Base
       \/ /\ seen # {}
          /\ Load(PickActive(seen)) # None
          /\ image' = Load(PickActive(seen))

Restore ==
  /\ pc = "idle"
  /\ RestoreImage
  /\ UNCHANGED <<header, payload, pc, slot, generation, acked>>

(* frothy_snapshot_wipe: the two erasures, then the reset to base.         *)
WipeBegin ==
  /\ pc = "idle"
  /\ pc' = "eraseA"
  /\ acked' = None
  /\ clean' = TRUE
  /\ UNCHANGED <<header, payload, image, slot, generation>>

Erase(s, next) ==
  /\ header' = [header EXCEPT ![s] = Torn]
  /\ payload' = [payload EXCEPT ![s] = Torn]
  /\ pc' \in {next, "idle"}
  /\ UNCHANGED <<image, slot, generation, clean, acked>>

EraseA == pc = "eraseA" /\ Erase(0, "eraseB")

EraseB == pc = "eraseB" /\ Erase(1, "reset")

(* The erasure reports an error and has not changed the slot: FROTH_TRY    *)
(* returns it before the other slot is erased.                             *)
EraseFails ==
  /\ pc \in {"eraseA", "eraseB"}
  /\ pc' = "idle"
  /\ UNCHANGED <<header, payload, image, slot, generation, clean, acked>>

WipeReset ==
  /\ pc = "reset"
  /\ image' = Base
  /\ pc' = "idle"
  /\ UNCHANGED <<header, payload, slot, generation, clean, acked>>

----------------------------------------------------------------------------
(* Power is lost, the device starts again with the base image.  A write    *)
(* under way is cut short.                                                 *)
CutWrite ==
  CASE pc = "writePayload" ->
         /\ \E p \in {payload[slot], Torn, image} :
              payload' = [payload EXCEPT ![slot] = p]
         /\ UNCHANGED <<header, acked>>
    [] pc = "writeHeader" ->
         /\ \E h \in {header[slot], Torn, NewHeader} :
              /\ header' = [header EXCEPT ![slot] = h]
              /\ acked' = IF h = NewHeader THEN None ELSE acked
         /\ UNCHANGED payload
    [] OTHER -> UNCHANGED <<header, payload, acked>>

PowerLoss ==
  /\ pc # "boot"
  /\ CutWrite
  /\ pc' = "boot"
  /\ UNCHANGED <<image, slot, generation, clean>>

(* frothy_boot: the base image is installed; with a snapshot and without a *)
(* CTRL-C in the safe-boot window the startup restores it.                 *)
Startup ==
  /\ pc = "boot"
  /\ RestoreImage
  /\ pc' = "idle"
  /\ UNCHANGED <<header, payload, slot, generation, acked>>

SafeBoot ==
  /\ pc = "boot"
  /\ image' = Base
  /\ clean' = TRUE
  /\ pc' = "idle"
  /\ UNCHANGED <<header, payload, slot, generation, acked>>

Next ==
  \/ Edit
  \/ SaveBegin
  \/ WritePayload
  \/ WritePayloadFails
  \/ WriteHeader
  \/ WriteHeaderFails
  \/ Restore
  \/ WipeBegin
  \/ EraseA
  \/ EraseB
  \/ EraseFails
  \/ WipeReset
  \/ PowerLoss
  \/ Startup
  \/ SafeBoot

Spec == Init /\ [][Next]_vars

----------------------------------------------------------------------------
(* Refinement mapping: what the two slots would restore, and in which      *)
(* order of age.                                                           *)
Active == PickActive(Valid)

Last == IF Valid = {} THEN None ELSE Load(Active)

Prev == IF Valid = {} THEN None ELSE Load(1 - Active)

Age == IF Valid = {} THEN 0 ELSE header[Active].generation

Durable == INSTANCE DurableImage WITH last <- Last, prev <- Prev, age <- Age

(* A save takes effect in one step however its two writes are cut short,   *)
(* fail or are retried, no other save or power loss changes what a restore *)
(* brings back, and a wipe cut short exposes at most the snapshot before   *)
(* the last one.  Every operation that reads the headers there are keeps   *)
(* to this, whatever operations before it have misread.                    *)
ImplementsDurableImage ==
  Durable!Init /\ [][clean' => Durable!Next]_(Durable!vars)

(* The image of the last acknowledged save is the one the next restore     *)
(* loads, after any number of failed, cut or interrupted saves, for as     *)
(* long as generations last; also when earlier saves misread a header.     *)
AckedSaveSurvives ==
  acked # None /\ Age < GenModulus - 1 => Last = acked

(* The two headers never carry the same generation, not even after saves   *)
(* that misread a header or after the generations have wrapped: on a tie   *)
(* pick_active and pick_inactive both answer slot 0.                       *)
NoGenerationTie ==
  0 \in Valid /\ 1 \in Valid
    => header[0].generation # header[1].generation

(* While a save that read both headers is under way, the slot it writes is *)
(* never the slot a restore would load.                                    *)
SaveAvoidsActive ==
  pc \in {"writePayload", "writeHeader"} /\ clean /\ Valid # {}
    => slot # Active
=============================================================================
