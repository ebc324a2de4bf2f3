------------------------------ MODULE GptTable ------------------------------
(***************************************************************************)
(* The entries of a GPT and the search for free space, libfdisk/src/gpt.c.   *)
(* An entry is a range of sectors; entries that are not in use are zeros.    *)
(* Alignment is to one sector.                                              *)
(***************************************************************************)
EXTENDS Integers, Sequences, FiniteSetsExt, Functions

\* What a loop over a sequence makes of the value that it starts with.
Loop(step(_, _), first, seq) ==
    LET after[i \in 0..Len(seq)] == IF i = 0 THEN first ELSE step(after[i - 1], seq[i])
    IN  after[Len(seq)]

Unused == [start |-> 0, end |-> 0]

gpt_entry_is_used(e) == e # Unused

UsedIn(ents) == {i \in DOMAIN ents : gpt_entry_is_used(ents[i])}

partition_overlap(e1, e2) ==
    e1.start # 0 /\ e2.start # 0 /\ (e1.start <= e2.end) # (e1.end < e2.start)

check_overlap_partitions(ents) ==
    \E i, j \in UsedIn(ents) : j < i /\ partition_overlap(ents[i], ents[j])

\* Mutant: one walk over the entries, which need not be in the order of the sectors.
find_first_availableOnce(ents, fu, lu, start) ==
    LET move(f, e) == IF gpt_entry_is_used(e) /\ e.start <= f /\ f <= e.end THEN e.end + 1 ELSE f
        first == Loop(move, Max({start, fu}), ents)
    IN  IF first > lu THEN 0 ELSE first

\* The entries are walked until a walk moves nothing.
find_first_available(ents, fu, lu, start) ==
    LET move(f, e) == IF gpt_entry_is_used(e) /\ e.start <= f /\ f <= e.end THEN e.end + 1 ELSE f
        walk(f) == Loop(move, f, ents)
        repeat[f \in Nat] == IF walk(f) = f THEN f ELSE repeat[walk(f)]
        first == repeat[Max({start, fu})]
    IN  IF first > lu THEN 0 ELSE first

find_last_free(ents, lu, start) ==
    LET nearer(n, e) == IF n > e.start /\ e.start > start THEN e.start - 1 ELSE n
    IN  Loop(nearer, lu, ents)

\* The free segments in the order of the search; segments are cut by find_last_free().
Segments(ents, fu, lu) ==
    LET from[start \in Nat] ==
            LET first == find_first_available(ents, fu, lu, start)
                last == find_last_free(ents, lu, first)
            IN  IF first = 0 THEN <<>> ELSE <<[start |-> first, end |-> last]>> \o from[last + 1]
    IN  from[0]

SegmentSize(s) == s.end - s.start + 1

get_free_sectors(ents, fu, lu) ==
    Loop(LAMBDA n, s : n + SegmentSize(s), 0, Segments(ents, fu, lu))

\* The first of the largest segments, 0 if there is none.
find_first_in_largest(ents, fu, lu) ==
    LET larger(s, t) == IF SegmentSize(t) > SegmentSize(s) THEN t ELSE s
    IN  Loop(larger, [start |-> 0, end |-> -1], Segments(ents, fu, lu)).start

\* recount_resize(): a partition may be moved and resized within its own sectors and the
\* free space around them.  (Free space of a single sector, which the code may pass
\* over, counts here.)
recount_resize(ents, fu, lu, slot, start, size) ==
    \A s \in start..(start + size - 1) :
        \/ s \in ents[slot].start..ents[slot].end
        \/ s \in fu..lu /\ \A i \in UsedIn(ents) : s \notin ents[i].start..ents[i].end

\* The first of two entries belongs behind the second: entries are sorted by their
\* start, those that are not in use last.
gpt_entry_cmp_start(a, b) ==
    gpt_entry_is_used(b) /\ (~gpt_entry_is_used(a) \/ a.start > b.start)

Mess(ents) == \E i \in 1..(Len(ents) - 1) : gpt_entry_cmp_start(ents[i], ents[i + 1])

\* What qsort() may make of the entries, which leaves the order of equal ones open.
gpt_reorder(ents) ==
    {s \in {[i \in DOMAIN ents |-> ents[f[i]]] : f \in Bijection(DOMAIN ents, DOMAIN ents)} : ~Mess(s)}

-----------------------------------------------------------------------------
(* What the searches are for *)

Free(ents, s) == \A i \in UsedIn(ents) : s < ents[i].start \/ ents[i].end < s

\* The least free sector from "start" on, 0 if there is none.
FirstFree(ents, fu, lu, start) ==
    LET free == {s \in Max({start, fu})..lu : Free(ents, s)}
    IN  IF free = {} THEN 0 ELSE Min(free)
=============================================================================
