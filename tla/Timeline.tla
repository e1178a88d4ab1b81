------------------------------ MODULE Timeline ------------------------------
(***************************************************************************)
(* The timeline of an archive page (timeline.py and _archive_timeline_     *)
(* items): one item per segment, key sentence, exception and export.  The  *)
(* texts of the items are left out.  An id stands for the random uuid in   *)
(* the code's: between items of one type and time it decides their order.  *)
(***************************************************************************)
EXTENDS Integers, Sequences, FiniteSets

TypeOrder == [segment_final |-> 0, key_sentence |-> 1, exception |-> 2, export_created |-> 3]

Item(type, id, at) == [type |-> type, id |-> id, at |-> at]

SegmentItems(segments) ==
    {Item("segment_final", s.id, s.end) : s \in segments}
        \cup {Item("key_sentence", s.id, s.end) : s \in {t \in segments : t.key}}

\* What relative_timestamp_ms makes of a meeting without audio is its duration, 0.
SinceStart(at, started) ==
    IF at \in Nat /\ started \in Nat /\ at > started THEN at - started ELSE 0

StampedItems(type, records, started) ==
    {Item(type, r.by, SinceStart(r.at, started)) : r \in records}

Precedes(a, b) ==
    \/ a.at < b.at
    \/ a.at = b.at /\ TypeOrder[a.type] < TypeOrder[b.type]
    \/ a.at = b.at /\ a.type = b.type /\ a.id < b.id

\* Where an item goes, of which no two are equal.
Place(x, items) == Cardinality({y \in items : Precedes(y, x)}) + 1

\* sort_timeline_items.
SortTimelineItems(items) ==
    [i \in 1..Cardinality(items) |-> CHOOSE x \in items : Place(x, items) = i]

TimelineItems(segments, exceptions, exports, started) ==
    SortTimelineItems(SegmentItems(segments)
                          \cup StampedItems("exception", exceptions, started)
                          \cup StampedItems("export_created", exports, started))
=============================================================================
