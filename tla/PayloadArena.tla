---------------------------- MODULE PayloadArena ----------------------------
(***************************************************************************)
(* The payload arena of the Frothy runtime (src/src/frothy_value.c): text, *)
(* code, record definitions and records keep their bytes in one fixed      *)
(* buffer.  Storage is handed out first-fit from a free list of spans, or  *)
(* from the end of the used part (payload_extent), and comes back to the   *)
(* free list, which is a fixed array of FROTHY_OBJECT_CAPACITY spans that  *)
(* is written before anything checks its length.  The list of cell spans   *)
(* (frothy_runtime_add_free_span, frothy_runtime_take_free_span) is the    *)
(* same code over cellspace->used.                                         *)
(*                                                                         *)
(* Lengths are counted in alignment units, the granularity                 *)
(* frothy_payload_align_up rounds every request to.  The loops of          *)
(* frothy_runtime_add_payload_free_span are one step per iteration, so the *)
(* loop invariants are invariants of the specification.                    *)
(***************************************************************************)
EXTENDS Integers, Sequences, FiniteSets, SequencesExt

CONSTANTS
  ObjectCapacity,   \* FROTHY_OBJECT_CAPACITY: objects, and entries of the free list
  PayloadCapacity,  \* FROTHY_PAYLOAD_CAPACITY, in alignment units
  Requests          \* the reserved lengths the callers ask for; 0 is an object without payload

ASSUME ObjectCapacityAssumption == ObjectCapacity \in Nat \ {0}
ASSUME PayloadCapacityAssumption == PayloadCapacity \in Nat
ASSUME RequestsAssumption == Requests \subseteq Nat

VARIABLES
  spans,        \* payload_free_spans[0 .. payload_free_span_count-1]
  extent,       \* payload_extent
  used,         \* payload_bytes_used
  payload,      \* the payload span each object owns
  live,         \* the object ids whose `live` flag is set
  objectCount,  \* object_count
  held,         \* the span a caller holds between allocation, append and release
  i,            \* the index of the coalescing loop
  pc            \* where the running operation is

vars == <<spans, extent, used, payload, live, objectCount, held, i, pc>>

ObjectIds == 0 .. ObjectCapacity - 1
Span == [offset : Nat, length : Nat]
NoSpan == [offset |-> 0, length |-> 0]
End(s) == s.offset + s.length

Init ==
  /\ spans = <<>>
  /\ extent = 0
  /\ used = 0
  /\ payload = [o \in ObjectIds |-> NoSpan]
  /\ live = {}
  /\ objectCount = 0
  /\ held = NoSpan
  /\ i = 1
  /\ pc = "idle"

-----------------------------------------------------------------------------
(* Allocation. *)

\* The first free span that is long enough (first fit), by position.
FirstFit(reserved, k) ==
  /\ k \in 1 .. Len(spans)
  /\ spans[k].length >= reserved
  /\ \A m \in 1 .. k - 1 : spans[m].length < reserved

\* The remainder of the span is forgotten.
TakeFreeSpanDropRemainder(reserved) ==
  \E k \in 1 .. Len(spans) :
    /\ FirstFit(reserved, k)
    /\ held' = [offset |-> spans[k].offset, length |-> reserved]
    /\ spans' = RemoveAt(spans, k)

\* frothy_runtime_take_payload_free_span: the front of the first span that
\* fits; a span used up is removed from the array.
TakeFreeSpan(reserved) ==
  \E k \in 1 .. Len(spans) :
    /\ FirstFit(reserved, k)
    /\ held' = [offset |-> spans[k].offset, length |-> reserved]
    /\ spans' = IF spans[k].length = reserved
                THEN RemoveAt(spans, k)
                ELSE [spans EXCEPT ![k] = [offset |-> spans[k].offset + reserved,
                                           length |-> spans[k].length - reserved]]

\* No free span fits: extend the used part of the buffer, when it has room.
ExtendArena(reserved) ==
  /\ \A k \in 1 .. Len(spans) : spans[k].length < reserved
  /\ extent + reserved <= PayloadCapacity
  /\ held' = [offset |-> extent, length |-> reserved]
  /\ extent' = extent + reserved
  /\ UNCHANGED spans

\* frothy_runtime_alloc_payload, as its callers use it: the span is held by
\* the caller until an object owns it.  Out of memory changes nothing.
AllocPayload(reserved) ==
  /\ pc = "idle"
  /\ \/ reserved = 0 /\ held' = NoSpan /\ UNCHANGED <<spans, extent>>
     \/ reserved > 0 /\ TakeFreeSpan(reserved) /\ UNCHANGED extent
     \/ reserved > 0 /\ ExtendArena(reserved)
  /\ used' = used + reserved
  /\ pc' = "append"
  /\ UNCHANGED <<payload, live, objectCount, i>>

\* A fresh id is used but object_count is not advanced.
AppendObjectKeepCount ==
  /\ pc = "append"
  /\ \E o \in ObjectIds \ live :
       /\ \A m \in 0 .. o - 1 : m \in live
       /\ payload' = [payload EXCEPT ![o] = held]
       /\ live' = live \union {o}
  /\ held' = NoSpan
  /\ pc' = "idle"
  /\ UNCHANGED <<spans, extent, used, objectCount, i>>

\* frothy_runtime_append_object and frothy_runtime_install_object: the first
\* id that is not live, below object_count or, failing that, object_count.
AppendObject ==
  /\ pc = "append"
  /\ \E o \in ObjectIds \ live :
       /\ \A m \in 0 .. o - 1 : m \in live
       /\ payload' = [payload EXCEPT ![o] = held]
       /\ live' = live \union {o}
       /\ objectCount' = IF o < objectCount THEN objectCount ELSE o + 1
  /\ held' = NoSpan
  /\ pc' = "idle"
  /\ UNCHANGED <<spans, extent, used, i>>

-----------------------------------------------------------------------------
(* Release. *)

\* The release that leaves payload_bytes_used alone.
ReleasePayloadUncounted(s) ==
  /\ used' = used
  /\ IF s.length = 0
     THEN held' = NoSpan /\ pc' = "idle"
     ELSE held' = s /\ pc' = "insert"

\* frothy_runtime_release_payload for the span in `s`: nothing at length 0,
\* otherwise account for it and start the insertion into the free list.
ReleasePayload(s) ==
  /\ used' = used - s.length
  /\ IF s.length = 0
     THEN held' = NoSpan /\ pc' = "idle"
     ELSE held' = s /\ pc' = "insert"

\* The caller gives the payload up: every object is live, or copying or
\* decoding the contents failed, or the test hook failed the append.
AbandonPayload ==
  /\ pc = "append"
  /\ ReleasePayload(held)
  /\ UNCHANGED <<spans, extent, payload, live, objectCount, i>>

\* A text, code, record definition or record object loses its last reference
\* (frothy_runtime_clear_live_object) or is discarded by a reset
\* (frothy_runtime_discard_object).  The children a record releases first are
\* ReleaseObject steps of their own.  The fields frothy_object_reset clears
\* after the payload is back are read by nobody in between.
ReleaseObject(o) ==
  /\ pc = "idle"
  /\ o \in live
  /\ ReleasePayload(payload[o])
  /\ payload' = [payload EXCEPT ![o] = NoSpan]
  /\ live' = live \ {o}
  /\ UNCHANGED <<spans, extent, objectCount, i>>

\* The memmove and the write of the new entry, at the first position whose
\* offset is not smaller.
InsertSpan ==
  /\ pc = "insert"
  /\ \E k \in 1 .. Len(spans) + 1 :
       /\ \A m \in 1 .. k - 1 : spans[m].offset < held.offset
       /\ k <= Len(spans) => spans[k].offset >= held.offset
       /\ spans' = InsertAt(spans, k, held)
  /\ held' = NoSpan
  /\ i' = 2
  /\ pc' = "coalesce"
  /\ UNCHANGED <<extent, used, payload, live, objectCount>>

\* The coalescing test with < replaced by <=: touching spans stay apart.
ApartOrTouching(k) == End(spans[k - 1]) <= spans[k].offset

\* prev_end < current->offset: the two entries stay apart.
Apart(k) == End(spans[k - 1]) < spans[k].offset

\* One iteration of the coalescing loop that changes nothing.
CoalesceSkip ==
  /\ pc = "coalesce"
  /\ i <= Len(spans)
  /\ Apart(i)
  /\ i' = i + 1
  /\ UNCHANGED <<spans, extent, used, payload, live, objectCount, held, pc>>

\* The merged entry is not taken out of the array.
CoalesceMergeWithoutRemoval ==
  /\ pc = "coalesce"
  /\ i <= Len(spans)
  /\ ~Apart(i)
  /\ LET prev == spans[i - 1]
         current == spans[i]
     IN  spans' = [spans EXCEPT ![i - 1] =
                     [offset |-> prev.offset, length |-> End(current) - prev.offset]]
  /\ UNCHANGED <<extent, used, payload, live, objectCount, held, i, pc>>

\* One iteration that folds entry i into entry i-1; the loop looks at the
\* same index again (i-- before i++).
CoalesceMerge ==
  /\ pc = "coalesce"
  /\ i <= Len(spans)
  /\ ~Apart(i)
  /\ LET prev == spans[i - 1]
         current == spans[i]
         merged == IF End(current) > End(prev)
                   THEN [offset |-> prev.offset, length |-> End(current) - prev.offset]
                   ELSE prev
     IN  spans' = RemoveAt([spans EXCEPT ![i - 1] = merged], i)
  /\ UNCHANGED <<extent, used, payload, live, objectCount, held, i, pc>>

CoalesceDone ==
  /\ pc = "coalesce"
  /\ i > Len(spans)
  /\ pc' = "trim"
  /\ UNCHANGED <<spans, extent, used, payload, live, objectCount, held, i>>

\* The extent never shrinks.
TailNeverFree == FALSE

\* The last entry reaches the extent: shrink the extent instead of keeping it.
TailIsFree == spans # <<>> /\ End(spans[Len(spans)]) = extent

TrimTail ==
  /\ pc = "trim"
  /\ TailIsFree
  /\ extent' = spans[Len(spans)].offset
  /\ spans' = RemoveAt(spans, Len(spans))
  /\ UNCHANGED <<used, payload, live, objectCount, held, i, pc>>

TrimDone ==
  /\ pc = "trim"
  /\ ~TailIsFree
  /\ pc' = "idle"
  /\ i' = 1
  /\ UNCHANGED <<spans, extent, used, payload, live, objectCount, held>>

\* frothy_runtime_clear_overlay_state, once its loop has discarded every
\* object: the arena's counters are zeroed.
ClearOverlayState ==
  /\ pc = "idle"
  /\ live = {}
  /\ objectCount > 0
  /\ objectCount' = 0
  /\ spans' = <<>>
  /\ extent' = 0
  /\ used' = 0
  /\ UNCHANGED <<payload, live, held, i, pc>>

ReturnSpan ==
  \/ InsertSpan
  \/ CoalesceSkip
  \/ CoalesceMerge
  \/ CoalesceDone
  \/ TrimTail
  \/ TrimDone

Next ==
  \/ \E reserved \in Requests : AllocPayload(reserved)
  \/ AppendObject
  \/ AbandonPayload
  \/ \E o \in ObjectIds : ReleaseObject(o)
  \/ ReturnSpan
  \/ ClearOverlayState

Spec == Init /\ [][Next]_vars

\* The loops run to completion: nothing else executes while a span is being
\* returned.
FairSpec == Spec /\ WF_vars(ReturnSpan)

-----------------------------------------------------------------------------
(* Properties. *)

\* The objects that own payload storage.
Owners == {o \in ObjectIds : payload[o].length > 0}

\* Every variable has the shape of its C counterpart: the extent stays within
\* the buffer and no object at or above object_count is live.
TypeOK ==
  /\ spans \in Seq(Span)
  /\ extent \in 0 .. PayloadCapacity
  /\ used \in Int
  /\ payload \in [ObjectIds -> Span]
  /\ live \in SUBSET ObjectIds
  /\ objectCount \in 0 .. ObjectCapacity
  /\ live \subseteq 0 .. objectCount - 1
  /\ held \in Span
  /\ i \in Nat
  /\ pc \in {"idle", "append", "insert", "coalesce", "trim"}

\* The free list is an array of FROTHY_OBJECT_CAPACITY entries and
\* frothy_runtime_add_payload_free_span writes the new entry before it merges
\* anything, without a check: the array never needs one more entry than it
\* has, not even between the insertion and the merge, nor when the table is
\* full and the span of a failed append goes back.
FreeListFits == Len(spans) <= ObjectCapacity

\* Two spans share no unit.
Disjoint(s, t) == End(s) <= t.offset \/ End(t) <= s.offset

\* No unit of the arena has two owners: no object's bytes overlap another
\* object's, a span in a caller's hands or a free span, and the free list is
\* in address order.
NoOverlap ==
  /\ \A j, k \in 1 .. Len(spans) : j < k => End(spans[j]) <= spans[k].offset
  /\ \A o, q \in Owners : o # q => Disjoint(payload[o], payload[q])
  /\ \A o \in Owners, k \in 1 .. Len(spans) : Disjoint(payload[o], spans[k])
  /\ held.length > 0 =>
       /\ \A o \in Owners : Disjoint(held, payload[o])
       /\ \A k \in 1 .. Len(spans) : Disjoint(held, spans[k])

Within(u, s) == s.offset <= u /\ u < End(s)

\* No unit below the extent is lost: each belongs to an object, to the span in
\* a caller's hands or to the free list.
NoLeak ==
  \A u \in 0 .. extent - 1 :
    \/ \E k \in 1 .. Len(spans) : Within(u, spans[k])
    \/ \E o \in Owners : Within(u, payload[o])
    \/ Within(u, held)

\* Whatever was allocated and released, in whatever order, a unit below the
\* extent has exactly one owner.
OneOwner == NoOverlap /\ NoLeak

\* Between operations the list is canonical: neighbours do not touch and the
\* last span does not reach the extent, so a request is refused only when no
\* contiguous room of that size exists.
Canonical ==
  pc = "idle" =>
    /\ \A k \in 2 .. Len(spans) : End(spans[k - 1]) < spans[k].offset
    /\ spans # <<>> => End(spans[Len(spans)]) < extent

\* The units that objects, and the caller of a running allocation, hold.
OwnedUnits ==
  {u \in 0 .. PayloadCapacity - 1 :
     \/ \E o \in Owners : Within(u, payload[o])
     \/ pc = "append" /\ Within(u, held)}

\* payload_bytes_used, an unsigned counter that is decremented without a check,
\* is the number of units that are held, on the error paths of every allocator
\* too: it never wraps, and nothing is counted twice.
Accounting == used = Cardinality(OwnedUnits)

\* When the last owner is gone the whole arena is free again, in whatever order
\* the spans came back.
ReclaimedWhenEmpty == pc = "idle" /\ Owners = {} => extent = 0 /\ spans = <<>>

\* The loops of frothy_runtime_add_payload_free_span terminate: the coalescing
\* loop steps its index back after each merge.
ReturnCompletes == pc = "insert" ~> pc = "idle"
=============================================================================
