-------------------------------- MODULE Gpt --------------------------------
(***************************************************************************)
(* The GPT label of libfdisk/src/gpt.c on a device: programs open the device,  *)
(* edit the label in memory and write it, in five writes; the machine may      *)
(* stop between and within the writes, and the device may change its size.   *)
(* A sector holds one entry of the table, so a table of n entries takes n      *)
(* sectors; a checksum is what it was computed from.                         *)
(***************************************************************************)
EXTENDS GptTable, FiniteSets

CONSTANTS
    Sizes,        \* of the device, in sectors
    GPT_NPARTITIONS, \* entries of a new table, if they fit
    NoLabel,      \* no label in memory, no table on the device, no valid header
    MaxEdits, MaxCrashes, MaxResizes     \* bounds

ASSUME GptAssumption ==
    /\ GPT_NPARTITIONS \in Nat \ {0}
    /\ Sizes \subseteq {s \in Nat : s >= 2 * GPT_NPARTITIONS + 4} /\ Sizes # {}
    /\ MaxEdits \in Nat /\ MaxCrashes \in Nat /\ MaxResizes \in Nat

Entries == [start : Nat, end : Nat]

EntrySectors == [kind : {"entry"}, e : Entries]

Headers == [my : Nat, alt : Nat, ents : Nat, n : Nat, fu : Nat, lu : Nat,
            crc : Seq(EntrySectors)]

Labels == [p : Headers, b : Headers, ents : Seq(Entries), minimize : BOOLEAN]

ASSUME NoLabelAssumption ==
    NoLabel \notin Seq(Entries) /\ NoLabel \notin Headers /\ NoLabel \notin Labels

VARIABLES
    pc,           \* the program: "closed", "edit", or the write that comes next
    total,        \* size of the device, cxt->total_sectors
    disk,         \* the sectors
    label,        \* in memory: headers p and b, entries; minimize
    committed,    \* ghost: the table of the last complete write, or found at the last open
    pending,      \* ghost: the table whose write was begun since
    risk,         \* ghost: what an interruption may cost, see Risk
    edits, crashes, resizes

ghostVars == <<committed, pending, risk>>
boundVars == <<edits, crashes, resizes>>
vars == <<pc, total, disk, label, ghostVars, boundVars>>

Sectors == UNION {0..(size - 1) : size \in Sizes}

Entry(e) == [kind |-> "entry", e |-> e]
Header(h) == [kind |-> "header", h |-> h]
Pmbr == [kind |-> "pmbr"]
\* Zeros, which are also an entry that is not in use.
Blank == Entry(Unused)

-----------------------------------------------------------------------------
(* Headers *)

\* gpt_calculate_first_lba(), _last_lba(), _alternative_entries_lba()
first_lba(n) == n + 2
last_lba(n, sectors) == sectors - 2 - n
alternative_entries_lba(n, sectors) == sectors - 1 - n

\* The sectors of the entries array that a header points to.
EntriesOf(h, dev) == [i \in 1..h.n |-> dev[h.ents + i - 1]]

\* gpt_check_lba_sanity()
LbaSane(h, sectors) ==
    /\ h.fu <= h.lu /\ h.fu < sectors /\ h.lu < sectors
    /\ ~(h.fu < 1 /\ 1 < h.lu)

\* Mutant: the checksum of the entries is not compared.
gpt_read_headerTrusting(lba, dev, sectors) ==
    IF /\ lba < sectors /\ dev[lba].kind = "header"
       /\ dev[lba].h.ents + dev[lba].h.n <= sectors
       /\ LbaSane(dev[lba].h, sectors)
       /\ dev[lba].h.my = lba
    THEN dev[lba].h
    ELSE NoLabel

\* gpt_read_header(): the header at an LBA, if all the tests pass.
gpt_read_header(lba, dev, sectors) ==
    IF /\ lba < sectors /\ dev[lba].kind = "header"
       /\ dev[lba].h.ents + dev[lba].h.n <= sectors
       /\ EntriesOf(dev[lba].h, dev) = dev[lba].h.crc
       /\ LbaSane(dev[lba].h, sectors)
       /\ dev[lba].h.my = lba
    THEN dev[lba].h
    ELSE NoLabel

\* gpt_copy_header(): a header at the other end, for the same table.
gpt_copy_header(h, sectors) ==
    [h EXCEPT !.my = h.alt, !.alt = h.my,
              !.ents = IF h.alt = 1 THEN 2 ELSE alternative_entries_lba(h.n, sectors)]

\* Mutant: the backup header does not learn where it is.
gpt_fix_alternative_lbaStays(lb, sectors) ==
    LET n == lb.p.n
    IN  [lb EXCEPT !.p = [@ EXCEPT !.alt = sectors - 1, !.lu = last_lba(n, sectors)],
                   !.b = [@ EXCEPT !.lu = last_lba(n, sectors),
                                   !.ents = alternative_entries_lba(n, sectors)]]

\* gpt_fix_alternative_lba(): the backup goes to the end of a device of that size.
gpt_fix_alternative_lba(lb, sectors) ==
    LET n == lb.p.n
    IN  [lb EXCEPT !.p = [@ EXCEPT !.alt = sectors - 1, !.lu = last_lba(n, sectors)],
                   !.b = [@ EXCEPT !.my = sectors - 1, !.alt = lb.p.my,
                                   !.lu = last_lba(n, sectors),
                                   !.ents = alternative_entries_lba(n, sectors)]]

\* gpt_probe_label(): the primary and the backup it points to; the backup at the end
\* of the device if the primary is not valid; one made from the other if need be; and
\* the backup moved to the end of the device.
gpt_probe_label(dev, sectors, minimize) ==
    LET p == gpt_read_header(1, dev, sectors)
        b == gpt_read_header(IF p # NoLabel THEN p.alt ELSE sectors - 1, dev, sectors)
        good == IF p # NoLabel THEN p ELSE b
        lb == [p |-> IF p # NoLabel THEN p ELSE gpt_copy_header(b, sectors),
               b |-> IF b # NoLabel THEN b ELSE gpt_copy_header(p, sectors),
               ents |-> [i \in 1..good.n |-> EntriesOf(good, dev)[i].e],
               minimize |-> minimize]
    IN  IF dev[0] # Pmbr \/ (p = NoLabel /\ b = NoLabel) THEN NoLabel
        ELSE IF ~minimize /\ (lb.p.alt > sectors \/ lb.p.alt < sectors - 1)
        THEN gpt_fix_alternative_lba(lb, sectors)
        ELSE lb

\* The table that the next program finds.
Found(dev, sectors) ==
    LET lb == gpt_probe_label(dev, sectors, FALSE) IN IF lb = NoLabel THEN NoLabel ELSE lb.ents

\* The size of a device that ends with the backup behind the last partition.
gpt_calculate_minimal_size(ents, n) == Max({ents[i].end : i \in DOMAIN ents} \union {0}) + n + 3

gpt_minimize_alternative_lba(lb) ==
    gpt_fix_alternative_lba(lb, gpt_calculate_minimal_size(lb.ents, lb.p.n))

\* count_first_last_lba(): the lengths of a table, up to the one asked for, for which
\* the device has usable sectors.
Lengths(length, sectors) == {n \in 1..length : first_lba(n) <= last_lba(n, sectors)}

gpt_mknew_header(n, sectors) ==
    [my |-> 1, alt |-> sectors - 1, ents |-> 2, n |-> n, fu |-> first_lba(n),
     lu |-> last_lba(n, sectors), crc |-> <<>>]

\* gpt_recompute_crc() of both headers.  A header with more entries than there are in
\* memory is computed from whatever follows them.
Beyond == {Unused, [start |-> 1, end |-> 0]}

Crc(h, ents, junk) ==
    [h EXCEPT !.crc = [i \in 1..h.n |-> Entry(IF i <= Len(ents) THEN ents[i] ELSE junk)]]

\* Headers in memory are not compared by their checksums, which every write renews.
Forget(lb) == [lb EXCEPT !.p = [@ EXCEPT !.crc = <<>>], !.b = [@ EXCEPT !.crc = <<>>]]

-----------------------------------------------------------------------------
(* Programs *)

\* fdisk_assign_device() of a device with a GPT.
Open ==
    /\ pc = "closed"
    /\ \E minimize \in BOOLEAN :
          /\ gpt_probe_label(disk, total, minimize) # NoLabel
          /\ label' = Forget(gpt_probe_label(disk, total, minimize))
    /\ pc' = "edit"
    /\ committed' = label'.ents
    /\ pending' = NoLabel
    /\ risk' = IF risk = "label" THEN "label" ELSE "none"
    /\ UNCHANGED <<total, disk, boundVars>>

\* An edit by the user; "sfdisk --relocate gpt-bak-mini" writes what it has found.
Edit(lb) ==
    /\ pc = "edit" /\ edits < MaxEdits /\ ~label.minimize
    /\ edits' = edits + 1
    /\ label' = lb
    /\ UNCHANGED <<pc, total, disk, ghostVars, crashes, resizes>>

\* The label that gpt_create_disklabel() makes, with as many entries as fit.
NewLabel(length) ==
    LET n == Max(Lengths(length, total))
        h == gpt_mknew_header(n, total)
    IN  [p |-> h, b |-> gpt_copy_header(h, total), ents |-> [i \in 1..n |-> Unused], minimize |-> FALSE]

\* gpt_create_disklabel(), on a device without a GPT or in the place of the label that is
\* edited, with the length of the table from the script or GPT_NPARTITIONS.
gpt_create_disklabel(length) ==
    /\ Lengths(length, total) # {}
    /\ \/ /\ pc = "closed" /\ Found(disk, total) = NoLabel
          /\ label' = NewLabel(length)
          /\ pc' = "edit"
          /\ committed' = NoLabel /\ pending' = NoLabel
          /\ risk' = IF risk = "label" THEN "label" ELSE "none"
          /\ UNCHANGED <<total, disk, boundVars>>
       \/ Edit(NewLabel(length))

\* gpt_add_partition(), by a script: the sectors are given, or they follow the default,
\* which is the largest free segment, without its last sector at the end of the device.
gpt_add_partition(slot, start, size) ==
    LET fu == label.p.fu
        lu == label.p.lu
        ents == label.ents
        user_f == IF start = 0 THEN find_first_in_largest(ents, fu, lu) ELSE start
        max_l == find_last_free(ents, lu, user_f)
        dflt_l == IF max_l = lu THEN max_l - 1 ELSE max_l
        user_l == IF size = 0 THEN dflt_l ELSE user_f + size - 1
    IN  /\ slot \in DOMAIN ents /\ ~gpt_entry_is_used(ents[slot])
        /\ get_free_sectors(ents, fu, lu) # 0
        /\ user_f = find_first_available(ents, fu, lu, user_f)
        /\ user_f \in fu..lu /\ user_l \in user_f..lu
        /\ Edit([label EXCEPT !.ents[slot] = [start |-> user_f, end |-> user_l]])

gpt_delete_partition(slot) ==
    /\ slot \in UsedIn(label.ents)
    /\ Edit([label EXCEPT !.ents[slot] = Unused])

\* fdisk_set_partition(), which tests the place first, and gpt_set_partition(): a new
\* start, a new size or both, each kept if it is 0.  The start is stored before the end
\* is tested.
gpt_set_partition(slot, start, size) ==
    LET old == label.ents[slot]
        xstart == IF start = 0 THEN old.start ELSE start
        xsize == IF size = 0 THEN SegmentSize(old) ELSE size
        end == xstart + xsize - 1
    IN  /\ slot \in UsedIn(label.ents)
        /\ recount_resize(label.ents, label.p.fu, label.p.lu, slot, xstart, xsize)
        /\ xstart >= label.p.fu
        /\ Edit([label EXCEPT !.ents[slot] =
                    [start |-> xstart, end |-> IF end <= label.p.lu THEN end ELSE old.end]])

Reorder ==
    /\ Mess(label.ents)
    /\ \E sorted \in gpt_reorder(label.ents) : Edit([label EXCEPT !.ents = sorted])

\* Mutant: a longer table is not checked against the partitions.
fdisk_gpt_set_npartitionsBlind(n) ==
    LET fu == first_lba(n)
        lu == last_lba(n, total)
        resized(h) == [h EXCEPT !.n = n, !.fu = fu, !.lu = lu]
    IN  /\ label.p.n # n
        /\ Edit([label EXCEPT !.p = resized(label.p),
                              !.b = [resized(label.b) EXCEPT !.my = label.p.alt, !.alt = 1,
                                        !.ents = alternative_entries_lba(n, total)],
                              !.ents = [i \in 1..n |-> IF i <= Len(@) THEN @[i] ELSE Unused]])

\* fdisk_gpt_set_npartitions(): a longer table must leave the partitions alone, a
\* shorter one forgets those that no longer fit into it.
fdisk_gpt_set_npartitions(n) ==
    LET fu == first_lba(n)
        lu == last_lba(n, total)
        resized(h) == [h EXCEPT !.n = n, !.fu = fu, !.lu = lu]
    IN  /\ label.p.n # n
        /\ n > label.p.n =>
              /\ fu <= lu
              /\ \A i \in UsedIn(label.ents) : label.ents[i].start >= fu /\ label.ents[i].end <= lu
        /\ Edit([label EXCEPT !.p = resized(label.p),
                              !.b = [resized(label.b) EXCEPT !.my = label.p.alt, !.alt = 1,
                                        !.ents = alternative_entries_lba(n, total)],
                              !.ents = [i \in 1..n |-> IF i <= Len(@) THEN @[i] ELSE Unused]])

\* A program that leaves without writing.
Quit ==
    /\ pc = "edit"
    /\ pc' = "closed" /\ label' = NoLabel
    /\ UNCHANGED <<total, disk, ghostVars, boundVars>>

-----------------------------------------------------------------------------
(* gpt_write_disklabel() *)

\* Not every write can be interrupted safely.
\* "label": for good, because the headers in memory have different lengths, or because
\* the device of an empty table was minimized, and what such a write leaves behind may
\* be found at any time later; or because the device has lost more than the sector of
\* the backup header, and with it sectors of the partitions;
\* "write": until it is complete, because the backup is not written to the end of the
\* device, or because another table replaces the backup while the primary is not valid;
\* "stale": until it is complete, because the array written next to a primary header
\* that is not valid may be, in part, the one that this header was made for.
Risk(lb) ==
    LET repairs == disk[0] = Pmbr /\ gpt_read_header(1, disk, total) = NoLabel
    IN  IF risk = "label" \/ lb.p.n # lb.b.n \/ (lb.minimize /\ UsedIn(lb.ents) = {}) THEN "label"
        ELSE IF lb.minimize \/ (repairs /\ lb.ents # committed) THEN "write"
        ELSE IF repairs THEN "stale"
        ELSE "none"

\* Mutant: overlapping partitions are not refused.
WriteAllowedOverlap == label.p.alt <= total /\ label.p.alt >= total - 1

\* The tests of gpt_write_disklabel().
WriteAllowed ==
    /\ label.p.alt <= total /\ label.p.alt >= total - 1
    /\ ~check_overlap_partitions(label.ents)

WriteRefused ==
    /\ pc = "edit" /\ ~WriteAllowed
    /\ pc' = "closed" /\ label' = NoLabel
    /\ UNCHANGED <<total, disk, ghostVars, boundVars>>

WriteBegins ==
    /\ pc = "edit" /\ WriteAllowed
    /\ \E junk \in Beyond :
          LET lb == IF label.minimize THEN gpt_minimize_alternative_lba(label) ELSE label
          IN  label' = [lb EXCEPT !.p = Crc(lb.p, lb.ents, junk), !.b = Crc(lb.b, lb.ents, junk)]
    /\ pc' = "backup_entries"
    /\ pending' = label.ents
    /\ risk' = Risk(label)
    /\ UNCHANGED <<total, disk, committed, boundVars>>

\* gpt_write_partitions() of the array of one header, or of those of its sectors that
\* got written.
WriteEntries(h, which) ==
    [s \in Sectors |-> IF s - h.ents + 1 \in which THEN h.crc[s - h.ents + 1] ELSE disk[s]]

OnDevice(h) == {i \in 1..h.n : h.ents + i - 1 < total}

Step(from, to, dev) ==
    /\ pc = from
    /\ disk' = dev
    /\ pc' = to
    /\ UNCHANGED <<total, label, ghostVars, boundVars>>

BackupEntries ==
    /\ pc = "backup_entries" /\ label.b.ents + label.b.n <= total
    /\ Step("backup_entries", "backup_header", WriteEntries(label.b, 1..label.b.n))

BackupHeader ==
    /\ pc = "backup_header" /\ label.p.alt < total
    /\ Step("backup_header", "primary_entries", [disk EXCEPT ![label.p.alt] = Header(label.b)])

\* A write behind the end of the device fails, after what is in front of the end.
WriteFails ==
    /\ \/ /\ pc = "backup_entries" /\ label.b.ents + label.b.n > total
          /\ disk' = WriteEntries(label.b, OnDevice(label.b))
       \/ /\ pc = "backup_header" /\ label.p.alt >= total
          /\ UNCHANGED disk
    /\ pc' = "closed" /\ label' = NoLabel
    /\ UNCHANGED <<total, ghostVars, boundVars>>

PrimaryEntries ==
    /\ pc = "primary_entries"
    /\ Step("primary_entries", "primary_header", WriteEntries(label.p, 1..label.p.n))

PrimaryHeader ==
    /\ pc = "primary_header"
    /\ Step("primary_header", "pmbr", [disk EXCEPT ![1] = Header(label.p)])

\* gpt_write_pmbr(), and the program ends.
WritePmbr ==
    /\ pc = "pmbr"
    /\ disk' = [disk EXCEPT ![0] = Pmbr]
    /\ pc' = "closed" /\ label' = NoLabel
    /\ committed' = label.ents
    /\ pending' = NoLabel
    /\ risk' = IF risk = "label" THEN "label" ELSE "none"
    /\ UNCHANGED <<total, boundVars>>

\* A write fails, or the machine stops: any part of an array may have been written.
Stopped(dev) ==
    /\ disk' = dev
    /\ pc' = "closed" /\ label' = NoLabel
    /\ crashes' = crashes + 1
    /\ UNCHANGED <<total, ghostVars, edits, resizes>>

Crash ==
    /\ crashes < MaxCrashes
    /\ \/ /\ pc = "backup_entries"
          /\ \E which \in SUBSET OnDevice(label.b) : Stopped(WriteEntries(label.b, which))
       \/ /\ pc = "primary_entries"
          /\ \E which \in SUBSET (1..label.p.n) : Stopped(WriteEntries(label.p, which))
       \/ /\ pc \in {"backup_header", "primary_header", "pmbr"}
          /\ Stopped(disk)

\* The device grows or shrinks, between two programs, while its primary is valid.  It
\* may lose the sector of the backup header, or what is behind it.
Resize(size) ==
    /\ pc = "closed" /\ gpt_read_header(1, disk, total) # NoLabel /\ resizes < MaxResizes /\ size # total
    /\ resizes' = resizes + 1
    /\ total' = size
    /\ disk' = [s \in Sectors |-> IF s < size THEN disk[s] ELSE Blank]
    /\ risk' = IF gpt_read_header(1, disk, total).alt > size THEN "label" ELSE risk
    /\ UNCHANGED <<pc, label, committed, pending, edits, crashes>>

-----------------------------------------------------------------------------
Init ==
    /\ pc = "closed"
    /\ total \in Sizes
    /\ disk = [s \in Sectors |-> Blank]
    /\ label = NoLabel
    /\ committed = NoLabel /\ pending = NoLabel /\ risk = "none"
    /\ edits = 0 /\ crashes = 0 /\ resizes = 0

Slots == 1..GPT_NPARTITIONS

EditLabel ==
    \/ \E length \in Slots : gpt_create_disklabel(length)
    \/ /\ pc = "edit"
       /\ \/ \E slot \in Slots, start \in {0} \union (label.p.fu..label.p.lu), size \in 0..2 :
                gpt_add_partition(slot, start, size)
          \/ \E slot \in Slots : gpt_delete_partition(slot)
          \/ \E slot \in Slots, start \in {0} \union (label.p.fu..label.p.lu), size \in 0..2 :
                gpt_set_partition(slot, start, size)
          \/ Reorder
          \/ \E n \in Slots : fdisk_gpt_set_npartitions(n)

gpt_write_disklabel ==
    \/ WriteRefused \/ WriteBegins
    \/ BackupEntries \/ BackupHeader \/ WriteFails
    \/ PrimaryEntries \/ PrimaryHeader \/ WritePmbr

Next ==
    \/ Open \/ EditLabel \/ Quit \/ gpt_write_disklabel
    \/ Crash \/ \E size \in Sizes : Resize(size)

Spec == Init /\ [][Next]_vars

-----------------------------------------------------------------------------
(* Properties *)

\* Whenever the machine stops, the next program finds the table of the last complete
\* write or the one that was being written, and nothing else: not a mixture, and not
\* no table.  The order of the five writes, the checksums and the recovery of
\* gpt_probe_label() make it so, for a write without a risk.  A write that repairs the
\* primary may also bring back the table of the header that is there, but it does not
\* lose the label.
CrashAtomic ==
    /\ risk = "none" => \/ Found(disk, total) = committed
                        \/ pending # NoLabel /\ Found(disk, total) = pending
    /\ risk = "stale" => Found(disk, total) # NoLabel

\* Once gpt_write_disklabel() has written both headers, each copy is valid by itself,
\* they hold the same table, and the backup is at the end of the device unless it was
\* to be minimized: whatever was lost before has been repaired.
BothCopies ==
    pc = "pmbr" /\ risk # "label" =>
        LET p == gpt_read_header(1, disk, total)
            b == gpt_read_header(label.p.alt, disk, total)
        IN  /\ p # NoLabel /\ b # NoLabel
            /\ p.crc = b.crc /\ p.alt = b.my /\ b.alt = 1
            /\ label.minimize \/ b.my = total - 1

\* No table that a program finds on the device has two partitions with a sector in
\* common or a partition outside the usable sectors, although gpt_add_partition()
\* does not compare a size that it is given and find_last_free() may miss a partition.
TableDisjoint ==
    LET lb == gpt_probe_label(disk, total, FALSE)
        sectors(i) == lb.ents[i].start..lb.ents[i].end
    IN  lb # NoLabel /\ risk = "none" =>
            /\ \A i, j \in UsedIn(lb.ents) : i # j => sectors(i) \intersect sectors(j) = {}
            /\ \A i \in UsedIn(lb.ents) :
                  sectors(i) # {} /\ sectors(i) \subseteq lb.p.fu..lb.p.lu

\* The sectors that gpt_write_disklabel() writes.
LabelArea ==
    {0, 1, label.p.alt} \union (label.p.ents..(label.p.ents + label.p.n - 1))
                        \union (label.b.ents..(label.b.ents + label.b.n - 1))

\* Whatever was done to the length of the table and to the size of the device, the two
\* headers and arrays are written to sectors that no partition has.  The one exception
\* is a device that has lost one sector, and the sector that it costs is the last
\* usable one of the header that the probe did not update.
LabelSparesPartitions ==
    pc = "backup_entries" /\ risk # "label" =>
        \A s \in LabelArea : Free(label.ents, s) \/ (label.p.alt = total /\ s = label.p.lu)

\* find_first_available() is the first free sector from "start" on, in every table that
\* a program may have in memory, entries out of order and overlapping ones included.
FirstFreeFound ==
    pc = "edit" =>
        \A start \in 0..total :
            find_first_available(label.ents, label.p.fu, label.p.lu, start)
                = FirstFree(label.ents, label.p.fu, label.p.lu, start)

\* "Backup do not have to be on the end of the device (due to device resize, etc.).
\* Let's fix this issue", the comment in gpt_probe_label(): after a probe the backup
\* is at the end of the device.
BackupAtEnd ==
    pc = "edit" /\ ~label.minimize => label.p.alt = total - 1
=============================================================================
