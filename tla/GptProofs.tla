----------------------------- MODULE GptProofs -----------------------------
(***************************************************************************)
(* Proofs about Gpt, the first part: the inductive invariant, what a probe    *)
(* finds, the edits of a label, and where its arrays and headers are.        *)
(***************************************************************************)
EXTENDS Gpt, TLAPS

-----------------------------------------------------------------------------
(* The inductive invariant.  Nothing is claimed of a label that is at risk for   *)
(* good.                                                                    *)

Writing == {"backup_entries", "backup_header", "primary_entries", "primary_header", "pmbr"}

\* Partitions are in the usable sectors and have at least one.
InRange(ents, fu, lu) ==
    \A i \in DOMAIN ents :
        ents[i] # Unused => fu <= ents[i].start /\ ents[i].start <= ents[i].end /\ ents[i].end <= lu

\* Partitions have no sector in common.
Apart(ents) ==
    \A i, j \in DOMAIN ents :
        i # j /\ ents[i] # Unused /\ ents[j] # Unused
            => ents[i].end < ents[j].start \/ ents[j].end < ents[i].start

\* The table that a checksum was computed from.
TableOf(crc) == [i \in DOMAIN crc |-> crc[i].e]

\* A header, for a table that could be written, whose backup is in sector z.
HeaderOk(h, z) ==
    /\ h \in Headers /\ z \in Nat
    /\ h.n \in Slots /\ h.fu = h.n + 2 /\ h.lu = z - 1 - h.n /\ h.fu <= h.lu
    /\ Len(h.crc) = h.n
    /\ InRange(TableOf(h.crc), h.fu, h.lu) /\ Apart(TableOf(h.crc))

PrimaryOk(h) == HeaderOk(h, h.alt) /\ h.my = 1 /\ h.ents = 2

BackupOk(h, s) == HeaderOk(h, s) /\ h.my = s /\ h.alt = 1 /\ h.ents = s - h.n

\* Every header that was ever left on the device is one of these.
SectorOk(dev, size, s) ==
    \/ dev[s] = Pmbr
    \/ dev[s] \in EntrySectors
    \/ /\ dev[s] \in [kind : {"header"}, h : Headers]
       /\ s = 1 => PrimaryOk(dev[s].h) /\ dev[s].h.alt <= size
       /\ s # 1 => BackupOk(dev[s].h, s)

DevOk(dev, size) ==
    /\ size \in Sizes
    /\ dev = [s \in Sectors |-> dev[s]]
    /\ \A s \in Sectors : SectorOk(dev, size, s)

LabelOk(lb) ==
    /\ lb \in Labels
    /\ lb.p.my = 1 /\ lb.p.ents = 2
    /\ lb.p.n \in Slots /\ lb.p.fu = lb.p.n + 2 /\ lb.p.fu <= lb.p.lu
    /\ lb.b.n \in Slots /\ lb.b.fu = lb.b.n + 2
    /\ Len(lb.ents) = lb.p.n /\ InRange(lb.ents, lb.p.fu, lb.p.lu)

\* The headers while the label is edited.  The backup header may have been left just
\* behind the end of a device that lost a sector.
EditOk(lb, size) ==
    /\ ~lb.minimize =>
          /\ lb.p.alt \in {size - 1, size}
          /\ lb.p.lu = size - 2 - lb.p.n \/ lb.p.lu = lb.p.alt - 1 - lb.p.n
          /\ lb.b.my = lb.p.alt /\ lb.b.alt = 1
          /\ lb.b.n = lb.p.n =>
                lb.b.ents = size - 1 - lb.p.n /\ lb.b.lu = lb.p.lu

\* The headers while they are written.
WriteOk(lb, size) ==
    /\ lb.b.n = lb.p.n /\ lb.b.my = lb.p.alt /\ lb.b.alt = 1
    /\ lb.b.lu = lb.p.lu /\ lb.b.ents > lb.p.fu /\ lb.p.lu < lb.p.alt
    /\ lb.p.lu < lb.b.ents \/ (lb.p.alt = size /\ lb.p.lu = lb.b.ents)
    /\ lb.p.crc = [i \in 1..lb.p.n |-> Entry(lb.ents[i])]
    /\ lb.b.crc = lb.p.crc
    /\ Apart(lb.ents)
    /\ lb.p.alt < size =>
          lb.p.lu = lb.p.alt - 1 - lb.p.n /\ lb.b.ents = lb.p.alt - lb.p.n
    /\ ~lb.minimize =>
          lb.p.alt \in {size - 1, size} /\ lb.b.ents = size - 1 - lb.p.n

\* What has been written so far.
ProgressOk ==
    /\ pc \in {"primary_entries", "primary_header", "pmbr"} =>
          label.p.alt < total /\ disk[label.p.alt] = Header(label.b)
    /\ pc \in Writing \ {"backup_entries"} /\ label.p.alt < total =>
          EntriesOf(label.b, disk) = label.b.crc
    /\ pc \in {"primary_header", "pmbr"} => EntriesOf(label.p, disk) = label.p.crc
    /\ pc = "pmbr" => disk[1] = Header(label.p)

\* A header whose checksum is that of its array.
Matches(dev, s) == dev[s].kind = "header" /\ EntriesOf(dev[s].h, dev) = dev[s].h.crc

\* What the next program finds, between and within the writes.
GhostOk ==
    /\ disk[0] # Pmbr => committed = NoLabel /\ risk # "stale"
    /\ pc = "closed" /\ risk = "none" =>
          /\ Found(disk, total) \in {committed, pending}
          /\ pending = NoLabel => Found(disk, total) = committed
    /\ pc = "edit" =>
          /\ risk = "none" /\ Found(disk, total) = committed
          /\ Matches(disk, 1) \/ label.p.alt = total - 1
    /\ pc \in Writing => pending = label.ents
    /\ pc \in Writing /\ risk # "write" => ~label.minimize
    /\ pc \in Writing /\ risk = "none" /\ disk[0] = Pmbr =>
          /\ pc \in {"backup_entries", "backup_header", "primary_entries"} => Matches(disk, 1)
          /\ pc # "pmbr" => disk[1].kind = "header" /\ TableOf(disk[1].h.crc) = committed
    /\ risk = "stale" =>
          /\ pc = "closed" => Matches(disk, 1) \/ Matches(disk, total - 1)
          /\ pc \in {"backup_entries", "backup_header"} =>
                /\ Matches(disk, total - 1)
                /\ disk[total - 1].h.n = label.b.n /\ disk[total - 1].h.crc = label.b.crc
          /\ pc \in Writing => label.p.alt = total - 1

Sound ==
    /\ pc \in {"closed", "edit"} \union Writing
    /\ risk \in {"none", "write", "stale"}
    /\ DevOk(disk, total) /\ GhostOk
    /\ pc # "closed" => LabelOk(label)
    /\ pc = "edit" => EditOk(label, total)
    /\ pc \in Writing => WriteOk(label, total) /\ ProgressOk

IInv == risk # "label" => Sound

-----------------------------------------------------------------------------
(* Numbers and sectors *)

\* A device has room for the two copies of the longest table, and its sectors exist.
LEMMA Room ==
  ASSUME NEW size \in Sizes
  PROVE  /\ size \in Nat /\ GPT_NPARTITIONS \in Nat \ {0} /\ size >= 2 * GPT_NPARTITIONS + 4
         /\ 0..(size - 1) \subseteq Sectors /\ Sectors \subseteq Nat
BY GptAssumption DEF Sectors

\* The fields of a header.
LEMMA HeaderFields ==
  ASSUME NEW h \in Headers
  PROVE  /\ h.my \in Nat /\ h.alt \in Nat /\ h.ents \in Nat /\ h.n \in Nat /\ h.fu \in Nat
         /\ h.lu \in Nat /\ h.crc \in Seq(EntrySectors)
         /\ h # NoLabel
BY NoLabelAssumption, Zenon DEF Headers

\* What is left of the tests of gpt_read_header() for a header that was written there.
LEMMA ReadHeader ==
  ASSUME NEW dev, NEW size, DevOk(dev, size), NEW s \in 0..(size - 1)
  PROVE  /\ gpt_read_header(s, dev, size) = IF Matches(dev, s) THEN dev[s].h ELSE NoLabel
         /\ dev[s].kind = "header" => /\ dev[s].h \in Headers /\ dev[s].h # NoLabel
                                      /\ s = 1 => PrimaryOk(dev[s].h) /\ dev[s].h.alt <= size
                                      /\ s # 1 => BackupOk(dev[s].h, s)
<1>1. size \in Nat /\ GPT_NPARTITIONS \in Nat \ {0} /\ size >= 2 * GPT_NPARTITIONS + 4 /\ s \in Sectors
  BY Room, Zenon DEF DevOk
<1>2. SectorOk(dev, size, s)
  BY <1>1, Zenon DEF DevOk
<1>3. CASE dev[s].kind # "header"
  BY <1>3, Zenon DEF gpt_read_header, Matches
<1>4. CASE dev[s].kind = "header"
  <2>1. /\ dev[s].h \in Headers
        /\ s = 1 => PrimaryOk(dev[s].h) /\ dev[s].h.alt <= size
        /\ s # 1 => BackupOk(dev[s].h, s)
    BY <1>2, <1>4 DEF SectorOk, Pmbr, EntrySectors
  <2>2. PICK h \in Headers : h = dev[s].h
    BY <2>1, Zenon
  <2>3. /\ h.my \in Nat /\ h.alt \in Nat /\ h.ents \in Nat /\ h.n \in Nat /\ h.fu \in Nat
        /\ h.lu \in Nat /\ h # NoLabel
    BY HeaderFields, Zenon
  <2>4. h.my = s /\ h.ents + h.n <= size /\ LbaSane(h, size)
    <3>1. CASE s = 1
      <4>1. PrimaryOk(h) /\ h.alt <= size
        BY <2>1, <2>2, <3>1, Zenon
      <4>2. /\ h.my = 1 /\ h.ents = 2 /\ h.n \in 1..GPT_NPARTITIONS
            /\ h.fu = h.n + 2 /\ h.lu = h.alt - 1 - h.n /\ h.fu <= h.lu
        BY <4>1, Zenon DEF PrimaryOk, HeaderOk, Slots
      <4> QED
        BY <1>1, <2>3, <3>1, <4>1, <4>2 DEF LbaSane
    <3>2. CASE s # 1
      <4>1. BackupOk(h, s)
        BY <2>1, <2>2, <3>2, Zenon
      <4>2. /\ h.my = s /\ h.ents = s - h.n /\ h.n \in 1..GPT_NPARTITIONS
            /\ h.fu = h.n + 2 /\ h.lu = s - 1 - h.n /\ h.fu <= h.lu
        BY <4>1, Zenon DEF BackupOk, HeaderOk, Slots
      <4> QED
        BY <1>1, <2>3, <4>2 DEF LbaSane
    <3> QED
      BY <3>1, <3>2, Zenon
  <2>5. s < size
    BY <1>1
  <2>6. gpt_read_header(s, dev, size) = IF Matches(dev, s) THEN dev[s].h ELSE NoLabel
    BY <1>4, <2>2, <2>4, <2>5, Zenon DEF gpt_read_header, Matches
  <2> QED
    BY <2>1, <2>2, <2>3, <2>6, Zenon
<1> QED
  BY <1>3, <1>4, Zenon

\* The numbers of a header that was written, and the table it was written for.
LEMMA HeaderNumbers ==
  ASSUME NEW h, NEW z, HeaderOk(h, z)
  PROVE  /\ h \in Headers /\ z \in Nat /\ h.n \in Nat /\ h.n \in 1..GPT_NPARTITIONS
         /\ h.fu = h.n + 2 /\ h.lu = z - 1 - h.n /\ h.fu <= h.lu /\ z >= 2 * h.n + 3
         /\ DOMAIN h.crc = 1..h.n
         /\ TableOf(h.crc) \in Seq(Entries) /\ Len(TableOf(h.crc)) = h.n
<1>1. /\ h \in Headers /\ z \in Nat /\ h.n \in 1..GPT_NPARTITIONS /\ Len(h.crc) = h.n
      /\ h.fu = h.n + 2 /\ h.lu = z - 1 - h.n /\ h.fu <= h.lu
  BY Zenon DEF HeaderOk, Slots
<1>2. h.crc \in Seq(EntrySectors) /\ h.n \in Nat
  BY <1>1, HeaderFields, Zenon
<1>3. DOMAIN h.crc = 1..h.n /\ \A i \in 1..h.n : h.crc[i].e \in Entries
  <2>1. DOMAIN h.crc = 1..h.n /\ \A i \in 1..h.n : h.crc[i] \in EntrySectors
    BY <1>1, <1>2
  <2> QED
    BY <2>1, Zenon DEF EntrySectors
<1>4. TableOf(h.crc) = [i \in 1..h.n |-> h.crc[i].e]
  BY <1>3, Zenon DEF TableOf
<1>5. TableOf(h.crc) \in Seq(Entries) /\ Len(TableOf(h.crc)) = h.n
  BY <1>2, <1>3, <1>4
<1>6. z >= 2 * h.n + 3
  BY <1>1, <1>2
<1> QED
  BY <1>1, <1>2, <1>3, <1>5, <1>6, Zenon

\* gpt_copy_header() makes a header.
LEMMA CopyFields ==
  ASSUME NEW h \in Headers, NEW size \in Nat, size - 1 - h.n \in Nat
  PROVE  LET c == gpt_copy_header(h, size)
         IN  /\ c \in Headers /\ c.my = h.alt /\ c.alt = h.my /\ c.n = h.n /\ c.fu = h.fu
             /\ c.lu = h.lu /\ c.ents = IF h.alt = 1 THEN 2 ELSE size - 1 - h.n
BY Zenon DEF gpt_copy_header, alternative_entries_lba, Headers

\* Two headers and a table that gpt_probe_label() has before it looks for the end of the
\* device.
PairOk(p, b, t, size) ==
    /\ p.my = 1 /\ p.ents = 2 /\ p.n \in Slots /\ p.fu = p.n + 2 /\ p.lu = p.alt - 1 - p.n
    /\ p.fu <= p.lu /\ p.alt <= size
    /\ b.n \in Slots /\ b.fu = b.n + 2 /\ b.my = p.alt /\ b.alt = 1
    /\ b.n = p.n => b.lu = p.lu /\ (p.alt \in {size - 1, size} => b.ents = size - 1 - p.n)
    /\ Len(t) = p.n /\ InRange(t, p.fu, p.lu) /\ Apart(t)

AsLabel(p, b, t, minimize) == [p |-> p, b |-> b, ents |-> t, minimize |-> minimize]

\* The table that is read with a header.
LEMMA TableRead ==
  ASSUME NEW dev, NEW h, NEW z, HeaderOk(h, z), EntriesOf(h, dev) = h.crc
  PROVE  [i \in 1..h.n |-> EntriesOf(h, dev)[i].e] = TableOf(h.crc)
<1>1. DOMAIN h.crc = 1..h.n
  BY HeaderNumbers, Zenon
<1> QED
  BY <1>1, Zenon DEF TableOf

\* The primary is valid.
LEMMA PairOfPrimary ==
  ASSUME NEW dev, NEW size, DevOk(dev, size), Matches(dev, 1)
  PROVE  LET p == dev[1].h
             r == gpt_read_header(p.alt, dev, size)
             b == IF r # NoLabel THEN r ELSE gpt_copy_header(p, size)
         IN  p \in Headers /\ b \in Headers /\ PairOk(p, b, TableOf(p.crc), size)
<1> DEFINE p == dev[1].h
           r == gpt_read_header(p.alt, dev, size)
           b == IF r # NoLabel THEN r ELSE gpt_copy_header(p, size)
<1>1. size \in Nat /\ GPT_NPARTITIONS \in Nat \ {0} /\ size >= 2 * GPT_NPARTITIONS + 4
  BY Room, Zenon DEF DevOk
<1>2. p \in Headers /\ PrimaryOk(p) /\ p.alt <= size
  <2>1. 1 \in 0..(size - 1)
    BY <1>1
  <2> QED
    BY <2>1, ReadHeader, Zenon DEF Matches
<1>3. /\ p.n \in 1..GPT_NPARTITIONS /\ p.n \in Nat /\ p.fu = p.n + 2 /\ p.lu = p.alt - 1 - p.n
      /\ p.fu <= p.lu /\ p.alt \in Nat /\ p.alt >= 2 * p.n + 3 /\ p.my = 1 /\ p.ents = 2
      /\ Len(TableOf(p.crc)) = p.n
  BY <1>2, HeaderNumbers, ZenonT(30) DEF PrimaryOk
<1>4. InRange(TableOf(p.crc), p.fu, p.lu) /\ Apart(TableOf(p.crc))
  BY <1>2, Zenon DEF PrimaryOk, HeaderOk
<1> HIDE DEF p
<1>5. CASE r # NoLabel
  <2>1. p.alt \in 0..(size - 1)
    <3>1. p.alt < size
      BY <1>5, Zenon DEF gpt_read_header
    <3> QED
      BY <1>1, <1>3, <3>1
  <2>2. r = dev[p.alt].h /\ r \in Headers /\ BackupOk(r, p.alt)
    BY <1>3, <1>5, <2>1, ReadHeader DEF Matches
  <2>3. /\ r.n \in 1..GPT_NPARTITIONS /\ r.n \in Nat /\ r.fu = r.n + 2 /\ r.lu = p.alt - 1 - r.n
        /\ r.my = p.alt /\ r.alt = 1 /\ r.ents = p.alt - r.n
    BY <2>2, HeaderNumbers, ZenonT(30) DEF BackupOk
  <2>4. r.n = p.n => r.lu = p.lu /\ (p.alt \in {size - 1, size} => r.ents = size - 1 - p.n)
    BY <1>1, <1>3, <2>1, <2>3, SMTT(30)
  <2>5. b = r
    BY <1>5, Zenon
  <2> QED
    BY <1>2, <1>3, <1>4, <2>2, <2>3, <2>4, <2>5, Zenon DEF PairOk, Slots, p
<1>6. CASE r = NoLabel
  <2>1. size - 1 - p.n \in Nat
    BY <1>1, <1>3
  <2>2. b = gpt_copy_header(p, size)
    BY <1>6, Zenon
  <2> HIDE DEF b
  <2>3. /\ b \in Headers /\ b.my = p.alt /\ b.alt = 1 /\ b.n = p.n /\ b.fu = p.fu /\ b.lu = p.lu
        /\ b.ents = size - 1 - p.n
    BY <1>1, <1>2, <1>3, <2>1, <2>2, CopyFields, SMTT(30)
  <2> QED
    BY <1>2, <1>3, <1>4, <2>3, Zenon DEF PairOk, Slots, p, b
<1> QED
  BY <1>5, <1>6, Zenon

\* The primary is not valid, and the backup is at the end of the device.
LEMMA PairOfBackup ==
  ASSUME NEW dev, NEW size, DevOk(dev, size), Matches(dev, size - 1)
  PROVE  LET b == dev[size - 1].h
             p == gpt_copy_header(b, size)
         IN  p \in Headers /\ b \in Headers /\ PairOk(p, b, TableOf(b.crc), size) /\ p.n = b.n
             /\ p.alt = size - 1
<1> DEFINE b == dev[size - 1].h
           p == gpt_copy_header(b, size)
<1>1. size \in Nat /\ GPT_NPARTITIONS \in Nat \ {0} /\ size >= 2 * GPT_NPARTITIONS + 4
  BY Room, Zenon DEF DevOk
<1>2. b \in Headers /\ BackupOk(b, size - 1)
  <2>1. size - 1 \in 0..(size - 1) /\ size - 1 # 1
    BY <1>1
  <2> QED
    BY <2>1, ReadHeader, ZenonT(30) DEF Matches
<1>3. /\ b.n \in 1..GPT_NPARTITIONS /\ b.n \in Nat /\ b.fu = b.n + 2 /\ b.lu = size - 1 - 1 - b.n
      /\ b.fu <= b.lu /\ b.my = size - 1 /\ b.alt = 1 /\ b.ents = size - 1 - b.n
      /\ Len(TableOf(b.crc)) = b.n
  BY <1>2, HeaderNumbers, ZenonT(30) DEF BackupOk
<1>4. InRange(TableOf(b.crc), b.fu, b.lu) /\ Apart(TableOf(b.crc))
  BY <1>2, Zenon DEF BackupOk, HeaderOk
<1>5. size - 1 - b.n \in Nat
  BY <1>1, <1>3
<1> HIDE DEF b
<1>6. /\ p \in Headers /\ p.my = 1 /\ p.alt = size - 1 /\ p.n = b.n /\ p.fu = b.fu /\ p.lu = b.lu
      /\ p.ents = 2
  BY <1>1, <1>2, <1>3, <1>5, CopyFields, Zenon
<1> HIDE DEF p
<1>7. PairOk(p, b, TableOf(b.crc), size)
  BY <1>1, <1>3, <1>4, <1>6 DEF PairOk, Slots
<1> QED
  BY <1>2, <1>6, <1>7, Zenon DEF p, b

\* What gpt_probe_label() does when both copies are lost.
LEMMA ProbeNothing ==
  ASSUME NEW dev, NEW size, DevOk(dev, size), NEW minimize \in BOOLEAN,
         dev[0] # Pmbr \/ (~ Matches(dev, 1) /\ ~ Matches(dev, size - 1))
  PROVE  gpt_probe_label(dev, size, minimize) = NoLabel
<1>1. 1 \in 0..(size - 1) /\ size - 1 \in 0..(size - 1)
  BY Room DEF DevOk
<1>2. CASE dev[0] # Pmbr
  BY <1>2, Zenon DEF gpt_probe_label
<1>3. CASE ~ Matches(dev, 1) /\ ~ Matches(dev, size - 1)
  <2>1. gpt_read_header(1, dev, size) = NoLabel /\ gpt_read_header(size - 1, dev, size) = NoLabel
    BY <1>1, <1>3, ReadHeader, Zenon
  <2> QED
    BY <2>1, Zenon DEF gpt_probe_label
<1> QED
  BY <1>2, <1>3, Zenon

\* What it does otherwise.
LEMMA ProbeSomething ==
  ASSUME NEW dev, NEW size, DevOk(dev, size), NEW minimize \in BOOLEAN,
         dev[0] = Pmbr, Matches(dev, 1) \/ Matches(dev, size - 1)
  PROVE  \E p, b \in Headers, t \in Seq(Entries) :
            /\ PairOk(p, b, t, size)
            /\ Matches(dev, 1) => t = TableOf(dev[1].h.crc)
            /\ ~ Matches(dev, 1) => t = TableOf(dev[size - 1].h.crc) /\ p.n = b.n /\ p.alt = size - 1
            /\ gpt_probe_label(dev, size, minimize)
                  = IF ~minimize /\ (p.alt > size \/ p.alt < size - 1)
                    THEN gpt_fix_alternative_lba(AsLabel(p, b, t, minimize), size)
                    ELSE AsLabel(p, b, t, minimize)
<1>1. 1 \in 0..(size - 1) /\ size - 1 \in 0..(size - 1) /\ size - 1 # 1
  BY Room DEF DevOk
<1>2. CASE Matches(dev, 1)
  <2> DEFINE p == dev[1].h
             r == gpt_read_header(p.alt, dev, size)
             b == IF r # NoLabel THEN r ELSE gpt_copy_header(p, size)
  <2>1. p \in Headers /\ b \in Headers /\ PairOk(p, b, TableOf(p.crc), size)
    BY <1>2, PairOfPrimary, Zenon
  <2>2. gpt_read_header(1, dev, size) = p /\ p # NoLabel /\ PrimaryOk(p)
    BY <1>1, <1>2, ReadHeader, Zenon DEF Matches
  <2>3. TableOf(p.crc) \in Seq(Entries)
    BY <2>2, HeaderNumbers, Zenon DEF PrimaryOk
  <2>4. [i \in 1..p.n |-> EntriesOf(p, dev)[i].e] = TableOf(p.crc)
    BY <1>2, <2>2, TableRead, ZenonT(30) DEF Matches, PrimaryOk
  <2>5. gpt_probe_label(dev, size, minimize)
            = IF ~minimize /\ (p.alt > size \/ p.alt < size - 1)
              THEN gpt_fix_alternative_lba(AsLabel(p, b, TableOf(p.crc), minimize), size)
              ELSE AsLabel(p, b, TableOf(p.crc), minimize)
    <3> HIDE DEF p
    <3> QED
      BY <2>2, <2>4, Zenon DEF gpt_probe_label, AsLabel
  <2> QED
    BY <1>2, <2>1, <2>3, <2>5, Zenon
<1>3. CASE ~ Matches(dev, 1)
  <2> DEFINE b == dev[size - 1].h
             p == gpt_copy_header(b, size)
  <2>1. /\ p \in Headers /\ b \in Headers /\ PairOk(p, b, TableOf(b.crc), size)
        /\ p.n = b.n /\ p.alt = size - 1
    BY <1>3, PairOfBackup, Zenon
  <2>2. /\ gpt_read_header(1, dev, size) = NoLabel
        /\ gpt_read_header(size - 1, dev, size) = b /\ b # NoLabel /\ BackupOk(b, size - 1)
    BY <1>1, <1>3, ReadHeader, ZenonT(30) DEF Matches
  <2>3. TableOf(b.crc) \in Seq(Entries)
    BY <2>2, HeaderNumbers, Zenon DEF BackupOk
  <2>4. [i \in 1..b.n |-> EntriesOf(b, dev)[i].e] = TableOf(b.crc)
    BY <1>3, <2>2, TableRead DEF Matches, BackupOk
  <2>5. gpt_probe_label(dev, size, minimize)
            = IF ~minimize /\ (p.alt > size \/ p.alt < size - 1)
              THEN gpt_fix_alternative_lba(AsLabel(p, b, TableOf(b.crc), minimize), size)
              ELSE AsLabel(p, b, TableOf(b.crc), minimize)
    <3> HIDE DEF b
    <3> QED
      BY <2>2, <2>4, Zenon DEF gpt_probe_label, AsLabel
  <2> QED
    BY <1>3, <2>1, <2>3, <2>5, Zenon
<1> QED
  BY <1>2, <1>3, Zenon

\* A label is made of its fields.
LEMMA LabelParts ==
  ASSUME NEW lb \in Labels
  PROVE  /\ lb = AsLabel(lb.p, lb.b, lb.ents, lb.minimize) /\ lb # NoLabel
         /\ lb.p \in Headers /\ lb.b \in Headers /\ lb.ents \in Seq(Entries) /\ lb.minimize \in BOOLEAN
BY NoLabelAssumption, Zenon DEF AsLabel, Labels

\* Both headers of a label are replaced.
LEMMA LabelExcept ==
  ASSUME NEW lb \in Labels, NEW q \in Headers, NEW c \in Headers
  PROVE  [lb EXCEPT !.p = q, !.b = c] = AsLabel(q, c, lb.ents, lb.minimize)
<1> DEFINE x == [lb EXCEPT !.p = q, !.b = c]
<1>1. x \in Labels /\ x.p = q /\ x.b = c /\ x.ents = lb.ents /\ x.minimize = lb.minimize
  BY ZenonT(30) DEF Labels
<1> HIDE DEF x
<1>2. x = AsLabel(x.p, x.b, x.ents, x.minimize)
  BY <1>1, LabelParts, Zenon
<1>3. x = AsLabel(q, c, lb.ents, lb.minimize)
  BY <1>1, <1>2, Zenon
<1> QED
  BY <1>3, Zenon DEF x

\* The fields of a label.
LEMMA LabelFields ==
  ASSUME NEW p \in Headers, NEW b \in Headers, NEW t \in Seq(Entries), NEW minimize \in BOOLEAN
  PROVE  LET lb == AsLabel(p, b, t, minimize)
         IN  /\ lb \in Labels /\ lb # NoLabel
             /\ lb.p = p /\ lb.b = b /\ lb.ents = t /\ lb.minimize = minimize
BY NoLabelAssumption DEF AsLabel, Labels

\* gpt_fix_alternative_lba() moves the backup to the end.
LEMMA FixFields ==
  ASSUME NEW p \in Headers, NEW b \in Headers, NEW t \in Seq(Entries), NEW minimize \in BOOLEAN,
         NEW size \in Nat, size - 2 - p.n \in Nat, size - 1 - p.n \in Nat, size - 1 \in Nat
  PROVE  \E q, c \in Headers :
            /\ gpt_fix_alternative_lba(AsLabel(p, b, t, minimize), size) = AsLabel(q, c, t, minimize)
            /\ q.my = p.my /\ q.alt = size - 1 /\ q.ents = p.ents /\ q.n = p.n /\ q.fu = p.fu
            /\ q.lu = size - 2 - p.n
            /\ c.my = size - 1 /\ c.alt = p.my /\ c.ents = size - 1 - p.n /\ c.n = b.n
            /\ c.fu = b.fu /\ c.lu = size - 2 - p.n
<1> DEFINE q == [p EXCEPT !.alt = size - 1, !.lu = size - 2 - p.n]
           c == [b EXCEPT !.my = size - 1, !.alt = p.my, !.lu = size - 2 - p.n,
                          !.ents = size - 1 - p.n]
<1>1. /\ q \in Headers /\ q.my = p.my /\ q.alt = size - 1 /\ q.ents = p.ents /\ q.n = p.n
      /\ q.fu = p.fu /\ q.lu = size - 2 - p.n
  BY ZenonT(30) DEF Headers
<1>2. /\ c \in Headers /\ c.my = size - 1 /\ c.alt = p.my /\ c.ents = size - 1 - p.n /\ c.n = b.n
      /\ c.fu = b.fu /\ c.lu = size - 2 - p.n
  <2>1. p.my \in Nat
    BY HeaderFields, Zenon
  <2> QED
    BY <2>1, ZenonT(30) DEF Headers
<1>3. gpt_fix_alternative_lba(AsLabel(p, b, t, minimize), size)
        = [AsLabel(p, b, t, minimize) EXCEPT !.p = q, !.b = c]
  BY Zenon DEF gpt_fix_alternative_lba, AsLabel, last_lba, alternative_entries_lba
<1> HIDE DEF q, c
<1>4. [AsLabel(p, b, t, minimize) EXCEPT !.p = q, !.b = c] = AsLabel(q, c, t, minimize)
  <2>1. /\ AsLabel(p, b, t, minimize) \in Labels
        /\ AsLabel(p, b, t, minimize).ents = t /\ AsLabel(p, b, t, minimize).minimize = minimize
    BY LabelFields
  <2>2. PICK lb : lb = AsLabel(p, b, t, minimize)
    BY Zenon
  <2>3. [lb EXCEPT !.p = q, !.b = c] = AsLabel(q, c, lb.ents, lb.minimize)
    BY <1>1, <1>2, <2>1, <2>2, LabelExcept, Zenon
  <2>4. lb.ents = t /\ lb.minimize = minimize
    BY <2>1, <2>2, Zenon
  <2> QED
    BY <2>2, <2>3, <2>4, Zenon
<1> QED
  BY <1>1, <1>2, <1>3, <1>4

\* The label that a program finds: headers p and b, and the table t.
ProbedAs(dev, size, minimize, p, b, t) ==
    /\ gpt_probe_label(dev, size, minimize) = AsLabel(p, b, t, minimize)
    /\ p.my = 1 /\ p.ents = 2 /\ p.n \in Slots /\ p.fu = p.n + 2 /\ p.fu <= p.lu
    /\ b.n \in Slots /\ b.fu = b.n + 2
    /\ Len(t) = p.n /\ InRange(t, p.fu, p.lu) /\ Apart(t)
    /\ ~minimize =>
          /\ p.alt \in {size - 1, size}
          /\ p.lu = size - 2 - p.n \/ p.lu = p.alt - 1 - p.n
          /\ b.my = p.alt /\ b.alt = 1
          /\ b.n = p.n => b.ents = size - 1 - p.n /\ b.lu = p.lu
    /\ Matches(dev, 1) => t = TableOf(dev[1].h.crc)
    /\ ~ Matches(dev, 1) => t = TableOf(dev[size - 1].h.crc) /\ p.n = b.n /\ p.alt = size - 1

\* The label that a program has in memory after it opened the device.
LEMMA ProbedLabel ==
  ASSUME NEW dev, NEW size, DevOk(dev, size), NEW minimize \in BOOLEAN,
         dev[0] = Pmbr, Matches(dev, 1) \/ Matches(dev, size - 1)
  PROVE  \E p, b \in Headers, t \in Seq(Entries) : ProbedAs(dev, size, minimize, p, b, t)
<1>1. size \in Nat /\ GPT_NPARTITIONS \in Nat \ {0} /\ size >= 2 * GPT_NPARTITIONS + 4
  BY Room, Zenon DEF DevOk
<1>2. PICK p \in Headers, b \in Headers, t \in Seq(Entries) :
            /\ PairOk(p, b, t, size)
            /\ Matches(dev, 1) => t = TableOf(dev[1].h.crc)
            /\ ~ Matches(dev, 1) => t = TableOf(dev[size - 1].h.crc) /\ p.n = b.n /\ p.alt = size - 1
            /\ gpt_probe_label(dev, size, minimize)
                  = IF ~minimize /\ (p.alt > size \/ p.alt < size - 1)
                    THEN gpt_fix_alternative_lba(AsLabel(p, b, t, minimize), size)
                    ELSE AsLabel(p, b, t, minimize)
  BY ProbeSomething
<1>3. /\ p.n \in Nat /\ p.n \in 1..GPT_NPARTITIONS /\ p.alt \in Nat /\ b.n \in Nat
      /\ p.my = 1 /\ p.ents = 2 /\ p.fu = p.n + 2 /\ p.lu = p.alt - 1 - p.n
      /\ p.fu <= p.lu /\ p.alt <= size /\ b.n \in Slots /\ b.fu = b.n + 2 /\ b.my = p.alt /\ b.alt = 1
      /\ b.n = p.n => b.lu = p.lu /\ (p.alt \in {size - 1, size} => b.ents = size - 1 - p.n)
      /\ Len(t) = p.n /\ InRange(t, p.fu, p.lu) /\ Apart(t)
  BY <1>2, HeaderFields, Zenon DEF PairOk, Slots
<1>4. CASE ~minimize /\ (p.alt > size \/ p.alt < size - 1)
  <2>1. size - 2 - p.n \in Nat /\ size - 1 - p.n \in Nat /\ size - 1 \in Nat
    BY <1>1, <1>3, SMTT(30)
  <2>2. PICK q \in Headers, c \in Headers :
            /\ gpt_fix_alternative_lba(AsLabel(p, b, t, minimize), size) = AsLabel(q, c, t, minimize)
            /\ q.my = p.my /\ q.alt = size - 1 /\ q.ents = p.ents /\ q.n = p.n /\ q.fu = p.fu
            /\ q.lu = size - 2 - p.n
            /\ c.my = size - 1 /\ c.alt = p.my /\ c.ents = size - 1 - p.n /\ c.n = b.n
            /\ c.fu = b.fu /\ c.lu = size - 2 - p.n
    BY <1>1, <2>1, FixFields
  <2>3. gpt_probe_label(dev, size, minimize) = AsLabel(q, c, t, minimize)
    BY <1>2, <1>4, <2>2, Zenon
  <2>4. p.lu <= q.lu /\ q.fu <= q.lu /\ p.lu \in Nat /\ q.lu \in Nat
    <3>1. p.lu \in Nat /\ q.lu \in Nat /\ q.fu \in Nat
      BY HeaderFields, Zenon
    <3>2. p.alt < size - 1
      BY <1>1, <1>3, <1>4
    <3> QED
      BY <1>1, <1>3, <2>2, <3>1, <3>2, SMTT(30)
  <2>5. InRange(t, q.fu, q.lu)
    <3>1. \A i \in DOMAIN t : t[i].end \in Nat
      <4>1. \A i \in DOMAIN t : t[i] \in Entries
        OBVIOUS
      <4> QED
        BY <4>1, Zenon DEF Entries
    <3> QED
      BY <1>3, <2>2, <2>4, <3>1, SMTT(30) DEF InRange
  <2>6. ~ Matches(dev, 1) => q.alt = size - 1 /\ q.n = c.n /\ t = TableOf(dev[size - 1].h.crc)
    BY <1>2, <2>2, Zenon
  <2>7. q.lu = size - 2 - q.n /\ q.n \in Slots
    BY <1>3, <2>2, Zenon DEF Slots
  <2> QED
    BY <1>2, <1>3, <2>2, <2>3, <2>4, <2>5, <2>6, <2>7, ZenonT(30) DEF ProbedAs
<1>5. CASE ~ (~minimize /\ (p.alt > size \/ p.alt < size - 1))
  <2>1. gpt_probe_label(dev, size, minimize) = AsLabel(p, b, t, minimize)
    BY <1>2, <1>5, Zenon
  <2>2. ~minimize => p.alt \in {size - 1, size}
    BY <1>1, <1>3, <1>5, SMTT(30)
  <2>3. p.n \in Slots
    BY <1>3, Zenon DEF Slots
  <2> QED
    BY <1>2, <1>3, <2>1, <2>2, <2>3, Zenon DEF ProbedAs
<1> QED
  BY <1>4, <1>5, Zenon

\* The table that the next program finds.
LEMMA FoundIs ==
  ASSUME NEW dev, NEW size, DevOk(dev, size)
  PROVE  /\ dev[0] # Pmbr \/ (~ Matches(dev, 1) /\ ~ Matches(dev, size - 1))
               => Found(dev, size) = NoLabel
         /\ dev[0] = Pmbr /\ Matches(dev, 1)
               => Found(dev, size) = TableOf(dev[1].h.crc) /\ Found(dev, size) # NoLabel
         /\ dev[0] = Pmbr /\ ~ Matches(dev, 1) /\ Matches(dev, size - 1)
               => Found(dev, size) = TableOf(dev[size - 1].h.crc) /\ Found(dev, size) # NoLabel
<1>1. CASE dev[0] # Pmbr \/ (~ Matches(dev, 1) /\ ~ Matches(dev, size - 1))
  <2>1. gpt_probe_label(dev, size, FALSE) = NoLabel
    BY <1>1, ProbeNothing, Zenon
  <2> QED
    BY <1>1, <2>1, Zenon DEF Found
<1>2. CASE dev[0] = Pmbr /\ (Matches(dev, 1) \/ Matches(dev, size - 1))
  <2>0. PICK p \in Headers, b \in Headers, t \in Seq(Entries) : ProbedAs(dev, size, FALSE, p, b, t)
    BY <1>2, ProbedLabel, Zenon
  <2>1. /\ gpt_probe_label(dev, size, FALSE) = AsLabel(p, b, t, FALSE)
        /\ Matches(dev, 1) => t = TableOf(dev[1].h.crc)
        /\ ~ Matches(dev, 1) => t = TableOf(dev[size - 1].h.crc)
    BY <2>0, Zenon DEF ProbedAs
  <2>2. AsLabel(p, b, t, FALSE) # NoLabel /\ AsLabel(p, b, t, FALSE).ents = t
    BY LabelFields, ZenonT(30)
  <2>3. Found(dev, size) = t
    BY <2>1, <2>2, Zenon DEF Found
  <2>4. t # NoLabel
    BY NoLabelAssumption, Zenon
  <2> QED
    BY <1>2, <2>1, <2>3, <2>4, Zenon
<1> QED
  BY <1>1, <1>2, Zenon

\* Every table that can be found is one that could be written.
LEMMA DisjointHere ==
  ASSUME DevOk(disk, total)
  PROVE  TableDisjoint
<1>1. CASE gpt_probe_label(disk, total, FALSE) = NoLabel
  BY <1>1, Zenon DEF TableDisjoint
<1>2. CASE gpt_probe_label(disk, total, FALSE) # NoLabel
  <2>1. disk[0] = Pmbr /\ (Matches(disk, 1) \/ Matches(disk, total - 1))
    BY <1>2, ProbeNothing, Zenon
  <2>0. PICK p \in Headers, b \in Headers, t \in Seq(Entries) : ProbedAs(disk, total, FALSE, p, b, t)
    BY <2>1, ProbedLabel, Zenon
  <2>2. /\ gpt_probe_label(disk, total, FALSE) = AsLabel(p, b, t, FALSE)
        /\ InRange(t, p.fu, p.lu) /\ Apart(t)
    BY <2>0, Zenon DEF ProbedAs
  <2>3. AsLabel(p, b, t, FALSE).p = p /\ AsLabel(p, b, t, FALSE).ents = t
    BY LabelFields, ZenonT(30)
  <2>4. p.fu \in Nat /\ p.lu \in Nat
    BY HeaderFields, Zenon
  <2>5. \A i \in DOMAIN t : t[i].start \in Nat /\ t[i].end \in Nat
    <3>1. \A i \in DOMAIN t : t[i] \in Entries
      OBVIOUS
    <3> QED
      BY <3>1, Zenon DEF Entries
  <2>6. ASSUME NEW i \in UsedIn(t), NEW j \in UsedIn(t), i # j
        PROVE  (t[i].start..t[i].end) \intersect (t[j].start..t[j].end) = {}
    <3>1. i \in DOMAIN t /\ j \in DOMAIN t /\ t[i] # Unused /\ t[j] # Unused
      BY Zenon DEF UsedIn, gpt_entry_is_used
    <3>2. t[i].end < t[j].start \/ t[j].end < t[i].start
      BY <2>2, <2>6, <3>1, Zenon DEF Apart
    <3> QED
      BY <2>5, <3>1, <3>2
  <2>7. ASSUME NEW i \in UsedIn(t)
        PROVE  t[i].start..t[i].end # {} /\ t[i].start..t[i].end \subseteq p.fu..p.lu
    <3>1. i \in DOMAIN t /\ t[i] # Unused
      BY Zenon DEF UsedIn, gpt_entry_is_used
    <3>2. p.fu <= t[i].start /\ t[i].start <= t[i].end /\ t[i].end <= p.lu
      BY <2>2, <3>1, Zenon DEF InRange
    <3> QED
      BY <2>4, <2>5, <3>1, <3>2
  <2> QED
    BY <2>2, <2>3, <2>6, <2>7, ZenonT(30) DEF TableDisjoint
<1> QED
  BY <1>1, <1>2, Zenon

\* Headers in memory without their checksums.
LEMMA ForgetFields ==
  ASSUME NEW p \in Headers, NEW b \in Headers, NEW t \in Seq(Entries), NEW minimize \in BOOLEAN
  PROVE  \E q, c \in Headers :
            /\ Forget(AsLabel(p, b, t, minimize)) = AsLabel(q, c, t, minimize)
            /\ q.my = p.my /\ q.alt = p.alt /\ q.ents = p.ents /\ q.n = p.n /\ q.fu = p.fu /\ q.lu = p.lu
            /\ c.my = b.my /\ c.alt = b.alt /\ c.ents = b.ents /\ c.n = b.n /\ c.fu = b.fu /\ c.lu = b.lu
<1> DEFINE q == [p EXCEPT !.crc = <<>>]
           c == [b EXCEPT !.crc = <<>>]
<1>0. <<>> \in Seq(EntrySectors)
  OBVIOUS
<1>1. /\ q \in Headers
      /\ q.my = p.my /\ q.alt = p.alt /\ q.ents = p.ents /\ q.n = p.n /\ q.fu = p.fu /\ q.lu = p.lu
  BY <1>0, Zenon DEF Headers
<1>2. /\ c \in Headers
      /\ c.my = b.my /\ c.alt = b.alt /\ c.ents = b.ents /\ c.n = b.n /\ c.fu = b.fu /\ c.lu = b.lu
  BY <1>0, ZenonT(30) DEF Headers
<1>3. PICK lb : lb = AsLabel(p, b, t, minimize)
  BY Zenon
<1>4. lb \in Labels /\ lb.p = p /\ lb.b = b /\ lb.ents = t /\ lb.minimize = minimize
  BY <1>3, LabelFields
<1>5. Forget(lb) = [lb EXCEPT !.p = q, !.b = c]
  BY <1>4, Zenon DEF Forget
<1> HIDE DEF q, c
<1>6. [lb EXCEPT !.p = q, !.b = c] = AsLabel(q, c, lb.ents, lb.minimize)
  BY <1>1, <1>2, <1>4, LabelExcept, ZenonT(30)
<1>7. Forget(AsLabel(p, b, t, minimize)) = AsLabel(q, c, t, minimize)
  BY <1>3, <1>4, <1>5, <1>6, Zenon
<1> QED
  BY <1>1, <1>2, <1>7, Zenon

-----------------------------------------------------------------------------
(* Programs open the device and edit the label *)

\* A label in memory with its headers and table as they are after a probe.
LEMMA ProbedOk ==
  ASSUME NEW dev, NEW size, NEW minimize \in BOOLEAN, NEW p \in Headers, NEW b \in Headers,
         NEW t \in Seq(Entries), ProbedAs(dev, size, minimize, p, b, t)
  PROVE  LET lb == Forget(gpt_probe_label(dev, size, minimize))
         IN  LabelOk(lb) /\ EditOk(lb, size) /\ lb.ents = t /\ lb.p.alt = p.alt
<1>1. PICK q \in Headers, c \in Headers :
            /\ Forget(AsLabel(p, b, t, minimize)) = AsLabel(q, c, t, minimize)
            /\ q.my = p.my /\ q.alt = p.alt /\ q.ents = p.ents /\ q.n = p.n /\ q.fu = p.fu /\ q.lu = p.lu
            /\ c.my = b.my /\ c.alt = b.alt /\ c.ents = b.ents /\ c.n = b.n /\ c.fu = b.fu /\ c.lu = b.lu
  BY ForgetFields
<1>2. PICK lb : lb = AsLabel(q, c, t, minimize)
  BY Zenon
<1>3. lb \in Labels /\ lb.p = q /\ lb.b = c /\ lb.ents = t /\ lb.minimize = minimize
  BY <1>2, LabelFields
<1>4. lb = Forget(gpt_probe_label(dev, size, minimize))
  BY <1>1, <1>2, Zenon DEF ProbedAs
<1>5. LabelOk(lb)
  BY <1>1, <1>3, Zenon DEF ProbedAs, LabelOk
<1>6. EditOk(lb, size)
  BY <1>1, <1>3, Zenon DEF ProbedAs, EditOk
<1> QED
  BY <1>1, <1>3, <1>4, <1>5, <1>6, Zenon

\* fdisk_assign_device() finds the table that Found says.
LEMMA OpenKeeps ==
  ASSUME Sound, Open
  PROVE  Sound'
<1>1. PICK minimize \in BOOLEAN : /\ gpt_probe_label(disk, total, minimize) # NoLabel
                                  /\ label' = Forget(gpt_probe_label(disk, total, minimize))
  BY Zenon DEF Open
<1>2. /\ pc' = "edit" /\ total' = total /\ disk' = disk /\ committed' = label'.ents
      /\ risk' = "none" /\ pending' = NoLabel
  BY Zenon DEF Open, Sound
<1>3. DevOk(disk, total)
  BY Zenon DEF Sound
<1>4. disk[0] = Pmbr /\ (Matches(disk, 1) \/ Matches(disk, total - 1))
  BY <1>1, <1>3, ProbeNothing, Zenon
<1>5. PICK p \in Headers, b \in Headers, t \in Seq(Entries) : ProbedAs(disk, total, minimize, p, b, t)
  BY <1>3, <1>4, ProbedLabel, Zenon
<1>6. LabelOk(label') /\ EditOk(label', total) /\ label'.ents = t /\ label'.p.alt = p.alt
  BY <1>1, <1>5, ProbedOk
<1>7. /\ Matches(disk, 1) => t = TableOf(disk[1].h.crc)
      /\ ~ Matches(disk, 1) => t = TableOf(disk[total - 1].h.crc) /\ p.alt = total - 1
  BY <1>5, Zenon DEF ProbedAs
<1>8. Found(disk, total) = t
  BY <1>3, <1>4, <1>7, FoundIs
<1>9. GhostOk'
  BY <1>2, <1>4, <1>6, <1>7, <1>8, Zenon DEF GhostOk, Writing, Matches
<1> QED
  BY <1>2, <1>3, <1>6, <1>9, Zenon DEF Sound, Writing

\* gpt_create_disklabel() lays out a new label.
LEMMA NewLabelOk ==
  ASSUME Sound, NEW length \in Slots
  PROVE  LET lb == NewLabel(length)
         IN  LabelOk(lb) /\ EditOk(lb, total) /\ lb.p.alt = total - 1
<1> DEFINE n == Max(Lengths(length, total))
           h == gpt_mknew_header(n, total)
           b == gpt_copy_header(h, total)
           t == [i \in 1..n |-> Unused]
<1>1. DevOk(disk, total)
  BY Zenon DEF Sound
<1>2. total \in Nat /\ GPT_NPARTITIONS \in Nat \ {0} /\ total >= 2 * GPT_NPARTITIONS + 4
  BY <1>1, Room, Zenon DEF DevOk
<1>3. PICK lb : lb = NewLabel(length) /\ lb = AsLabel(h, b, t, FALSE)
  BY Zenon DEF NewLabel, AsLabel
<1>4. n \in 1..GPT_NPARTITIONS /\ n \in Nat /\ n + 2 <= total - 2 - n
  <2>1. length \in Nat /\ length <= GPT_NPARTITIONS /\ Lengths(length, total) \subseteq 0..length
    BY <1>2 DEF Slots, Lengths
  <2>2. length \in Lengths(length, total) /\ \A i \in Lengths(length, total) : i <= length
    BY <1>2, <2>1 DEF Slots, Lengths, first_lba, last_lba
  <2>3. n \in Lengths(length, total)
    BY <2>2, Zenon DEF Max
  <2> QED
    BY <1>2, <2>1, <2>3 DEF Lengths, first_lba, last_lba
<1> HIDE DEF n
<1>5. /\ h \in Headers /\ h.my = 1 /\ h.alt = total - 1 /\ h.ents = 2 /\ h.n = n /\ h.fu = n + 2
      /\ h.lu = total - 2 - n
  <2>1. <<>> \in Seq(EntrySectors) /\ total - 1 \in Nat /\ total - 2 - n \in Nat /\ n + 2 \in Nat
    BY <1>2, <1>4
  <2> QED
    BY <1>4, <2>1, Zenon DEF gpt_mknew_header, first_lba, last_lba, Headers
<1> HIDE DEF h
<1>6. /\ b \in Headers /\ b.my = total - 1 /\ b.alt = 1 /\ b.ents = total - 1 - n /\ b.n = n
      /\ b.fu = n + 2 /\ b.lu = total - 2 - n
  <2>1. total - 1 - h.n \in Nat /\ h.alt # 1
    BY <1>2, <1>4, <1>5
  <2> QED
    BY <1>2, <1>5, <2>1, CopyFields, Zenon
<1> HIDE DEF b
<1>7. t \in Seq(Entries) /\ Len(t) = n /\ DOMAIN t = 1..n /\ \A i \in 1..n : t[i] = Unused
  <2>1. Unused \in Entries
    BY Zenon DEF Unused, Entries
  <2> QED
    BY <1>4, <2>1
<1> HIDE DEF t
<1>8. lb \in Labels /\ lb.p = h /\ lb.b = b /\ lb.ents = t /\ lb.minimize = FALSE
  <2>1. PICK no \in BOOLEAN : no = FALSE
    BY ZenonT(30)
  <2>2. lb = AsLabel(h, b, t, no)
    BY <1>3, <2>1, ZenonT(30)
  <2>3. lb \in Labels /\ lb.p = h /\ lb.b = b /\ lb.ents = t /\ lb.minimize = no
    BY <1>5, <1>6, <1>7, <2>2, LabelFields
  <2> QED
    BY <2>1, <2>3, Zenon
<1>9. InRange(t, h.fu, h.lu)
  BY <1>7, Zenon DEF InRange
<1>10. LabelOk(lb)
  BY <1>4, <1>5, <1>6, <1>7, <1>8, <1>9, Zenon DEF LabelOk, Slots
<1>11. EditOk(lb, total)
  BY <1>4, <1>5, <1>6, <1>8, Zenon DEF EditOk
<1> QED
  BY <1>3, <1>5, <1>8, <1>10, <1>11, Zenon

\* An edit that leaves the label well-formed.
LEMMA EditKeeps ==
  ASSUME Sound, NEW lb, Edit(lb), LabelOk(lb), EditOk(lb, total), lb.p.alt \in {label.p.alt, total - 1}
  PROVE  Sound'
<1>1. /\ pc = "edit" /\ pc' = pc /\ label' = lb /\ total' = total /\ disk' = disk
      /\ committed' = committed /\ pending' = pending /\ risk' = risk
  BY Zenon DEF Edit, ghostVars
<1>2. GhostOk'
  BY <1>1, Zenon DEF GhostOk, Sound, Writing, Matches
<1> QED
  BY <1>1, <1>2, Zenon DEF Sound, Writing

\* gpt_create_disklabel(), on an empty device or over the label that is edited.
LEMMA CreateKeeps ==
  ASSUME Sound, NEW length \in Slots, gpt_create_disklabel(length)
  PROVE  Sound'
<1>1. PICK lb : lb = NewLabel(length)
  BY Zenon
<1>2. LabelOk(lb) /\ EditOk(lb, total) /\ lb.p.alt = total - 1
  BY <1>1, NewLabelOk, Zenon
<1>3. CASE Edit(lb)
  BY <1>2, <1>3, EditKeeps, Zenon
<1>4. CASE ~Edit(lb)
  <2>1. /\ Found(disk, total) = NoLabel /\ label' = lb /\ pc' = "edit" /\ committed' = NoLabel
        /\ risk' = "none" /\ total' = total /\ disk' = disk
    BY <1>1, <1>4, Zenon DEF gpt_create_disklabel, Sound
  <2>2. GhostOk'
    BY <1>2, <2>1, Zenon DEF GhostOk, Writing, Matches
  <2>3. DevOk(disk, total)
    BY Zenon DEF Sound
  <2> QED
    BY <1>2, <2>1, <2>2, <2>3, ZenonT(30) DEF Sound, Writing
<1> QED
  BY <1>3, <1>4, Zenon

\* Another table of the same length, with its partitions in the usable sectors.
LEMMA TableChange ==
  ASSUME NEW lb, NEW size, LabelOk(lb), EditOk(lb, size), NEW t \in Seq(Entries), Len(t) = lb.p.n,
         InRange(t, lb.p.fu, lb.p.lu)
  PROVE  /\ LabelOk([lb EXCEPT !.ents = t]) /\ EditOk([lb EXCEPT !.ents = t], size)
         /\ [lb EXCEPT !.ents = t].p.alt = lb.p.alt
<1> DEFINE x == [lb EXCEPT !.ents = t]
<1>1. x \in Labels /\ x.p = lb.p /\ x.b = lb.b /\ x.ents = t /\ x.minimize = lb.minimize
  BY Zenon DEF LabelOk, Labels
<1> HIDE DEF x
<1>2. LabelOk(x)
  BY <1>1, Zenon DEF LabelOk
<1>3. EditOk(x, size)
  BY <1>1, Zenon DEF EditOk
<1> QED
  BY <1>1, <1>2, <1>3, Zenon DEF x

\* One entry is changed.
LEMMA SlotChange ==
  ASSUME Sound, pc = "edit", NEW slot \in DOMAIN label.ents, NEW e \in Entries,
         e # Unused => label.p.fu <= e.start /\ e.start <= e.end /\ e.end <= label.p.lu,
         Edit([label EXCEPT !.ents[slot] = e])
  PROVE  Sound'
<1>1. LabelOk(label) /\ EditOk(label, total)
  BY Zenon DEF Sound
<1> DEFINE t == [label.ents EXCEPT ![slot] = e]
<1>2. label.ents \in Seq(Entries) /\ Len(label.ents) = label.p.n
  BY <1>1, LabelParts, Zenon DEF LabelOk
<1>3. t \in Seq(Entries) /\ Len(t) = label.p.n /\ DOMAIN t = DOMAIN label.ents
  BY <1>2
<1>4. InRange(t, label.p.fu, label.p.lu)
  <2>1. \A i \in DOMAIN t : t[i] = IF i = slot THEN e ELSE label.ents[i]
    BY <1>3, Zenon
  <2>2. InRange(label.ents, label.p.fu, label.p.lu)
    BY <1>1, Zenon DEF LabelOk
  <2> HIDE DEF t
  <2> QED
    BY <1>3, <2>1, <2>2, Zenon DEF InRange
<1>5. [label EXCEPT !.ents[slot] = e] = [label EXCEPT !.ents = t]
  BY Zenon
<1> HIDE DEF t
<1>6. /\ LabelOk([label EXCEPT !.ents = t]) /\ EditOk([label EXCEPT !.ents = t], total)
      /\ [label EXCEPT !.ents = t].p.alt = label.p.alt
  BY <1>1, <1>3, <1>4, TableChange, Zenon
<1> QED
  BY <1>5, <1>6, EditKeeps, ZenonT(30)

\* The fields of an entry.
LEMMA EntryFields ==
  ASSUME NEW e \in Entries
  PROVE  e.start \in Nat /\ e.end \in Nat
BY Zenon DEF Entries

\* The fields of a new entry.
LEMMA PartitionFields ==
  ASSUME NEW i \in Nat, NEW j \in Nat
  PROVE  LET e == [start |-> i, end |-> j] IN e \in Entries /\ e.start = i /\ e.end = j
BY Zenon DEF Entries

\* The label that is being edited.
LEMMA Edited ==
  ASSUME Sound, pc = "edit"
  PROVE  /\ LabelOk(label) /\ EditOk(label, total) /\ label \in Labels
         /\ label.p \in Headers /\ label.b \in Headers /\ label.ents \in Seq(Entries)
         /\ label.p.n \in Nat /\ label.p.fu \in Nat /\ label.p.lu \in Nat /\ label.p.fu >= 3
         /\ label.p.alt \in Nat
         /\ Len(label.ents) = label.p.n /\ DOMAIN label.ents = 1..label.p.n
         /\ \A i \in DOMAIN label.ents :
               /\ label.ents[i] \in Entries
               /\ label.ents[i] # Unused =>
                     /\ label.p.fu <= label.ents[i].start /\ label.ents[i].start <= label.ents[i].end
                     /\ label.ents[i].end <= label.p.lu
<1>1. LabelOk(label) /\ EditOk(label, total)
  BY Zenon DEF Sound
<1>2. /\ label \in Labels /\ Len(label.ents) = label.p.n /\ InRange(label.ents, label.p.fu, label.p.lu)
      /\ label.p.n \in 1..GPT_NPARTITIONS /\ label.p.fu = label.p.n + 2
  BY <1>1, Zenon DEF LabelOk, Slots
<1>3. label.p \in Headers /\ label.b \in Headers /\ label.ents \in Seq(Entries)
  BY <1>2, LabelParts, Zenon
<1>4. label.p.n \in Nat /\ label.p.fu \in Nat /\ label.p.lu \in Nat /\ label.p.alt \in Nat
  BY <1>3, HeaderFields, Zenon
<1>5. \A i \in DOMAIN label.ents : label.ents[i] \in Entries
  BY <1>3
<1> QED
  BY <1>1, <1>2, <1>3, <1>4, <1>5 DEF InRange

\* gpt_add_partition() fills a slot with a range of usable sectors.
LEMMA AddKeeps ==
  ASSUME Sound, pc = "edit", NEW slot, NEW start, NEW size, gpt_add_partition(slot, start, size)
  PROVE  Sound'
<1>1. PICK i, j : /\ i \in label.p.fu..label.p.lu /\ j \in i..label.p.lu /\ slot \in DOMAIN label.ents
                  /\ Edit([label EXCEPT !.ents[slot] = [start |-> i, end |-> j]])
  BY Zenon DEF gpt_add_partition
<1>2. i \in Nat /\ j \in Nat /\ label.p.fu <= i /\ i <= j /\ j <= label.p.lu
  BY <1>1, Edited
<1>3. PICK e \in Entries : e = [start |-> i, end |-> j] /\ e.start = i /\ e.end = j
  BY <1>2, PartitionFields, ZenonT(30)
<1> QED
  BY <1>1, <1>2, <1>3, SlotChange, Zenon

\* gpt_delete_partition() zeroes a slot.
LEMMA DeleteKeeps ==
  ASSUME Sound, pc = "edit", NEW slot, gpt_delete_partition(slot)
  PROVE  Sound'
<1>1. slot \in DOMAIN label.ents /\ Edit([label EXCEPT !.ents[slot] = Unused])
  BY Zenon DEF gpt_delete_partition, UsedIn
<1>2. Unused \in Entries
  BY Zenon DEF Unused, Entries
<1> QED
  BY <1>1, <1>2, SlotChange, Zenon

\* gpt_set_partition() stays inside the usable sectors: the last sector passed
\* recount_resize(), so that the test of the end does not fail.
LEMMA SetKeeps ==
  ASSUME Sound, pc = "edit", NEW slot, NEW start \in {0} \union (label.p.fu..label.p.lu),
         NEW size \in 0..2, gpt_set_partition(slot, start, size)
  PROVE  Sound'
<1> DEFINE old == label.ents[slot]
           i == IF start = 0 THEN old.start ELSE start
           xsize == IF size = 0 THEN SegmentSize(old) ELSE size
           j == i + xsize - 1
           end == IF j <= label.p.lu THEN j ELSE old.end
<1>1. /\ slot \in DOMAIN label.ents /\ old # Unused
      /\ recount_resize(label.ents, label.p.fu, label.p.lu, slot, i, xsize)
      /\ Edit([label EXCEPT !.ents[slot] = [start |-> i, end |-> end]])
  BY Zenon DEF gpt_set_partition, UsedIn, gpt_entry_is_used
<1>2. /\ old.start \in Nat /\ old.end \in Nat /\ label.p.fu <= old.start /\ old.start <= old.end
      /\ old.end <= label.p.lu /\ label.p.fu \in Nat /\ label.p.lu \in Nat
  BY <1>1, Edited, EntryFields, Zenon
<1>3. i \in Nat /\ i >= label.p.fu
  BY <1>2
<1>4. xsize \in Nat \ {0}
  BY <1>2 DEF SegmentSize
<1>5. j \in Nat /\ i <= j /\ j \in i..j
  BY <1>3, <1>4
<1>6. j \in old.start..old.end \/ j \in label.p.fu..label.p.lu
  BY <1>1, <1>5, Zenon DEF recount_resize
<1>7. j <= label.p.lu
  BY <1>2, <1>6
<1> HIDE DEF i, j
<1>8. PICK e \in Entries : e = [start |-> i, end |-> j] /\ e.start = i /\ e.end = j
  BY <1>3, <1>5, PartitionFields, ZenonT(30)
<1> QED
  BY <1>1, <1>3, <1>5, <1>7, <1>8, SlotChange, Zenon

\* gpt_reorder() only permutes the entries.
LEMMA ReorderKeeps ==
  ASSUME Sound, pc = "edit", Reorder
  PROVE  Sound'
<1>1. PICK f \in Bijection(DOMAIN label.ents, DOMAIN label.ents) :
         Edit([label EXCEPT !.ents = [i \in DOMAIN label.ents |-> label.ents[f[i]]]])
  BY ZenonT(30) DEF Reorder, gpt_reorder
<1> DEFINE t == [i \in DOMAIN label.ents |-> label.ents[f[i]]]
<1>2. \A i \in DOMAIN label.ents : f[i] \in DOMAIN label.ents
  BY Zenon DEF Bijection, Injection
<1>3. t \in Seq(Entries) /\ Len(t) = label.p.n
  <2>1. \A i \in DOMAIN label.ents : label.ents[f[i]] \in Entries
    BY <1>2, Edited, Zenon
  <2>2. DOMAIN label.ents = 1..label.p.n /\ label.p.n \in Nat
    BY Edited, Zenon
  <2> QED
    BY <2>1, <2>2
<1>4. InRange(t, label.p.fu, label.p.lu)
  BY <1>2, Edited, Zenon DEF InRange
<1> HIDE DEF t
<1>5. /\ LabelOk([label EXCEPT !.ents = t]) /\ EditOk([label EXCEPT !.ents = t], total)
      /\ [label EXCEPT !.ents = t].p.alt = label.p.alt
  BY <1>3, <1>4, Edited, TableChange, Zenon
<1> QED
  BY <1>1, <1>5, EditKeeps, Zenon DEF t

\* fdisk_gpt_set_npartitions() leaves the partitions outside both arrays.
LEMMA LengthKeeps ==
  ASSUME Sound, pc = "edit", NEW n \in Slots, fdisk_gpt_set_npartitions(n)
  PROVE  Sound'
<1> DEFINE fu == first_lba(n)
           lu == last_lba(n, total)
           q == [label.p EXCEPT !.n = n, !.fu = fu, !.lu = lu]
           c == [[label.b EXCEPT !.n = n, !.fu = fu, !.lu = lu]
                    EXCEPT !.my = label.p.alt, !.alt = 1, !.ents = alternative_entries_lba(n, total)]
           t == [i \in 1..n |-> IF i <= Len(label.ents) THEN label.ents[i] ELSE Unused]
           lb == [label EXCEPT !.p = q, !.b = c, !.ents = t]
<1>1. /\ label.p.n # n /\ ~label.minimize /\ Edit(lb)
      /\ n > label.p.n =>
            \A i \in UsedIn(label.ents) : label.ents[i].start >= fu /\ label.ents[i].end <= lu
  BY Zenon DEF fdisk_gpt_set_npartitions, Edit
<1>2. total \in Nat /\ total >= 2 * GPT_NPARTITIONS + 4 /\ GPT_NPARTITIONS \in Nat
  BY Room, Zenon DEF Sound, DevOk
<1>3. /\ n \in Nat /\ n >= 1 /\ n <= GPT_NPARTITIONS /\ fu = n + 2 /\ lu = total - 2 - n
      /\ fu \in Nat /\ lu \in Nat /\ fu <= lu
      /\ alternative_entries_lba(n, total) = total - 1 - n /\ total - 1 - n \in Nat
  BY <1>2 DEF Slots, first_lba, last_lba, alternative_entries_lba
<1> HIDE DEF fu, lu
<1>4. /\ q \in Headers /\ q.my = label.p.my /\ q.alt = label.p.alt /\ q.ents = label.p.ents /\ q.n = n
      /\ q.fu = fu /\ q.lu = lu
  <2>1. label.p \in Headers
    BY Edited, Zenon
  <2> QED
    BY <1>3, <2>1, ZenonT(30) DEF Headers
<1>5. /\ c \in Headers /\ c.my = label.p.alt /\ c.alt = 1 /\ c.ents = total - 1 - n /\ c.n = n
      /\ c.fu = fu /\ c.lu = lu
  <2>1. label.b \in Headers /\ label.p.alt \in Nat
    BY Edited, Zenon
  <2>2. PICK h : h = [label.b EXCEPT !.n = n, !.fu = fu, !.lu = lu]
    BY Zenon
  <2>3. h \in Headers /\ h.n = n /\ h.fu = fu /\ h.lu = lu
    BY <1>3, <2>1, <2>2, ZenonT(30) DEF Headers
  <2>4. PICK e \in Nat : e = alternative_entries_lba(n, total) /\ e = total - 1 - n
    BY <1>3, Zenon
  <2>5. c = [h EXCEPT !.my = label.p.alt, !.alt = 1, !.ents = e]
    BY <2>2, <2>4, Zenon
  <2> HIDE DEF c
  <2> QED
    BY <2>1, <2>3, <2>4, <2>5, ZenonT(30) DEF Headers
<1>6. /\ t \in Seq(Entries) /\ Len(t) = n /\ DOMAIN t = 1..n
      /\ \A i \in 1..n : t[i] # Unused =>
            i \in DOMAIN label.ents /\ t[i] = label.ents[i] /\ i \in UsedIn(label.ents)
  <2>1. Unused \in Entries
    BY Zenon DEF Unused, Entries
  <2>2. /\ Len(label.ents) = label.p.n /\ label.p.n \in Nat /\ DOMAIN label.ents = 1..label.p.n
        /\ \A i \in DOMAIN label.ents : label.ents[i] \in Entries
    BY Edited, Zenon
  <2>3. \A i \in 1..n : t[i] = IF i <= label.p.n THEN label.ents[i] ELSE Unused
    BY <2>2, Zenon
  <2>4. t \in Seq(Entries) /\ Len(t) = n /\ DOMAIN t = 1..n
    BY <1>3, <2>1, <2>2
  <2> HIDE DEF t
  <2> QED
    BY <1>3, <2>2, <2>3, <2>4 DEF UsedIn, gpt_entry_is_used
<1> HIDE DEF q, c, t
<1>7. lb \in Labels /\ lb.p = q /\ lb.b = c /\ lb.ents = t /\ lb.minimize = label.minimize
  BY <1>4, <1>5, <1>6, Edited, ZenonT(30) DEF Labels
<1> HIDE DEF lb
<1>8. /\ label.p.alt \in {total - 1, total}
      /\ label.p.lu = total - 2 - label.p.n \/ label.p.lu = label.p.alt - 1 - label.p.n
      /\ label.p.my = 1 /\ label.p.ents = 2 /\ label.p.fu = label.p.n + 2
  BY <1>1, Edited, Zenon DEF EditOk, LabelOk
<1>9. InRange(t, fu, lu)
  <2>1. SUFFICES ASSUME NEW i \in 1..n, t[i] # Unused
                 PROVE  fu <= t[i].start /\ t[i].start <= t[i].end /\ t[i].end <= lu
    BY <1>6, Zenon DEF InRange
  <2>2. /\ i \in DOMAIN label.ents /\ t[i] = label.ents[i] /\ i \in UsedIn(label.ents)
        /\ t[i] \in Entries
    BY <1>6, <2>1, Edited, Zenon
  <2>3. /\ t[i].start \in Nat /\ t[i].end \in Nat /\ label.p.fu <= t[i].start
        /\ t[i].start <= t[i].end /\ t[i].end <= label.p.lu
        /\ label.p.n \in Nat /\ label.p.lu \in Nat /\ label.p.alt \in Nat
    BY <2>1, <2>2, Edited, EntryFields, Zenon
  <2>4. CASE n > label.p.n
    BY <1>1, <2>2, <2>3, <2>4, Zenon
  <2>5. CASE n < label.p.n
    BY <1>2, <1>3, <1>8, <2>3, <2>5
  <2> QED
    BY <1>1, <1>3, <2>3, <2>4, <2>5, SMTT(30)
<1>10. LabelOk(lb)
  BY <1>3, <1>4, <1>5, <1>6, <1>7, <1>8, <1>9, Zenon DEF LabelOk
<1>11. EditOk(lb, total)
  BY <1>3, <1>4, <1>5, <1>7, <1>8, Zenon DEF EditOk
<1> QED
  BY <1>1, <1>4, <1>7, <1>10, <1>11, EditKeeps, Zenon

\* A program that leaves, or is not allowed to write, has changed nothing.
LEMMA LeaveKeeps ==
  ASSUME Sound, Quit \/ WriteRefused
  PROVE  Sound'
<1>1. /\ pc = "edit" /\ pc' = "closed" /\ label' = NoLabel /\ total' = total /\ disk' = disk
      /\ committed' = committed /\ pending' = pending /\ risk' = risk
  BY Zenon DEF Quit, WriteRefused, ghostVars
<1>2. GhostOk'
  BY <1>1, Zenon DEF GhostOk, Sound, Writing
<1> QED
  BY <1>1, <1>2, Zenon DEF Sound, Writing

-----------------------------------------------------------------------------
(* The write begins *)

\* gpt_recompute_crc() of a header whose table is in memory.
LEMMA CrcFields ==
  ASSUME NEW h \in Headers, NEW t \in Seq(Entries), Len(t) = h.n, NEW junk
  PROVE  LET c == Crc(h, t, junk)
         IN  /\ c \in Headers /\ c.crc = [i \in 1..h.n |-> Entry(t[i])]
             /\ c.my = h.my /\ c.alt = h.alt /\ c.ents = h.ents /\ c.n = h.n /\ c.fu = h.fu /\ c.lu = h.lu
<1> DEFINE s == [i \in 1..h.n |-> Entry(t[i])]
<1>1. h.n \in Nat
  BY HeaderFields, Zenon
<1>2. [i \in 1..h.n |-> Entry(IF i <= Len(t) THEN t[i] ELSE junk)] = s
  BY <1>1
<1>3. s \in Seq(EntrySectors)
  <2>1. \A i \in 1..h.n : t[i] \in Entries
    BY <1>1
  <2>2. \A i \in 1..h.n : Entry(t[i]) \in EntrySectors
    BY <2>1, Zenon DEF Entry, EntrySectors
  <2> QED
    BY <1>1, <2>2
<1>4. Crc(h, t, junk) = [h EXCEPT !.crc = s]
  BY <1>2, Zenon DEF Crc
<1> HIDE DEF s
<1>5. LET c == [h EXCEPT !.crc = s]
      IN  /\ c \in Headers /\ c.crc = s
          /\ c.my = h.my /\ c.alt = h.alt /\ c.ents = h.ents /\ c.n = h.n /\ c.fu = h.fu /\ c.lu = h.lu
  BY <1>3, ZenonT(30) DEF Headers
<1> QED
  BY <1>4, <1>5, Zenon DEF s

\* The table that a header is written for.
LEMMA TableOfCrc ==
  ASSUME NEW t \in Seq(Entries), NEW n \in Nat, Len(t) = n
  PROVE  /\ TableOf([i \in 1..n |-> Entry(t[i])]) = t
         /\ Len([i \in 1..n |-> Entry(t[i])]) = n
BY DEF TableOf, Entry

\* Both headers get their checksums.
Stamp(lb, junk) ==
    [lb EXCEPT !.p = Crc(lb.p, lb.ents, junk), !.b = Crc(lb.b, lb.ents, junk)]

\* The label with its new checksums.
LEMMA Stamped ==
  ASSUME NEW lb \in Labels, Len(lb.ents) = lb.p.n, lb.b.n = lb.p.n, NEW junk, NEW x,
         x = Stamp(lb, junk)
  PROVE  /\ x \in Labels /\ x.ents = lb.ents /\ x.minimize = lb.minimize
         /\ x.p.crc = [i \in 1..x.p.n |-> Entry(x.ents[i])] /\ x.b.crc = x.p.crc
         /\ x.p.my = lb.p.my /\ x.p.alt = lb.p.alt /\ x.p.ents = lb.p.ents /\ x.p.n = lb.p.n
         /\ x.p.fu = lb.p.fu /\ x.p.lu = lb.p.lu
         /\ x.b.my = lb.b.my /\ x.b.alt = lb.b.alt /\ x.b.ents = lb.b.ents /\ x.b.n = lb.b.n
         /\ x.b.fu = lb.b.fu /\ x.b.lu = lb.b.lu
<1>1. PICK q : q = Crc(lb.p, lb.ents, junk)
  BY Zenon
<1>2. PICK c : c = Crc(lb.b, lb.ents, junk)
  BY Zenon
<1>3. /\ lb.p \in Headers /\ lb.b \in Headers /\ lb.ents \in Seq(Entries)
      /\ lb.minimize \in BOOLEAN
  BY LabelParts, Zenon
<1>4. /\ q \in Headers /\ q.crc = [i \in 1..lb.p.n |-> Entry(lb.ents[i])]
      /\ q.my = lb.p.my /\ q.alt = lb.p.alt /\ q.ents = lb.p.ents /\ q.n = lb.p.n
      /\ q.fu = lb.p.fu /\ q.lu = lb.p.lu
  BY <1>1, <1>3, CrcFields, SMTT(30)
<1>5. /\ c \in Headers /\ c.crc = [i \in 1..lb.b.n |-> Entry(lb.ents[i])]
      /\ c.my = lb.b.my /\ c.alt = lb.b.alt /\ c.ents = lb.b.ents /\ c.n = lb.b.n
      /\ c.fu = lb.b.fu /\ c.lu = lb.b.lu
  BY <1>2, <1>3, CrcFields
<1>6. x = [lb EXCEPT !.p = q, !.b = c]
  BY <1>1, <1>2, Zenon DEF Stamp
<1>7. x \in Labels /\ x.p = q /\ x.b = c /\ x.ents = lb.ents /\ x.minimize = lb.minimize
  BY <1>3, <1>4, <1>5, <1>6, ZenonT(30) DEF Labels
<1> QED
  BY <1>4, <1>5, <1>7, Zenon

\* gpt_write_disklabel() refuses partitions that overlap.
LEMMA Checked ==
  ASSUME NEW t \in Seq(Entries), NEW fu \in Nat, NEW lu \in Nat, fu > 0, InRange(t, fu, lu),
         ~ check_overlap_partitions(t)
  PROVE  Apart(t)
<1>1. SUFFICES ASSUME NEW i \in DOMAIN t, NEW j \in DOMAIN t, i # j, t[i] # Unused, t[j] # Unused
               PROVE  t[i].end < t[j].start \/ t[j].end < t[i].start
  BY Zenon DEF Apart
<1>2. /\ t[i].start \in Nat /\ t[i].end \in Nat /\ t[j].start \in Nat /\ t[j].end \in Nat
  BY EntryFields
<1>3. /\ fu <= t[i].start /\ t[i].start <= t[i].end /\ fu <= t[j].start /\ t[j].start <= t[j].end
  BY <1>1, Zenon DEF InRange
<1>4. i \in UsedIn(t) /\ j \in UsedIn(t) /\ i \in Nat /\ j \in Nat
  BY <1>1 DEF UsedIn, gpt_entry_is_used
<1>5. (j < i => ~ partition_overlap(t[i], t[j])) /\ (i < j => ~ partition_overlap(t[j], t[i]))
  BY <1>4, Zenon DEF check_overlap_partitions
<1>6. CASE j < i
  BY <1>2, <1>3, <1>5, <1>6 DEF partition_overlap
<1>7. CASE i < j
  BY <1>2, <1>3, <1>5, <1>7 DEF partition_overlap
<1> QED
  BY <1>1, <1>4, <1>6, <1>7

\* A label whose headers belong together, for a device of any size.
TogetherOk(lb) ==
    /\ LabelOk(lb)
    /\ lb.b.n = lb.p.n /\ lb.b.my = lb.p.alt /\ lb.b.alt = 1 /\ lb.b.lu = lb.p.lu

\* A sector of a table, and the table.
LEMMA CrcOfTable ==
  ASSUME NEW h, NEW z, HeaderOk(h, z)
  PROVE  h.crc = [i \in 1..h.n |-> Entry(TableOf(h.crc)[i])]
<1>1. h.crc \in Seq(EntrySectors) /\ DOMAIN h.crc = 1..h.n /\ h.n \in Nat
  BY HeaderNumbers, HeaderFields, Zenon
<1>2. \A i \in 1..h.n : h.crc[i] \in EntrySectors
  BY <1>1
<1>3. \A i \in 1..h.n : h.crc[i] = Entry(h.crc[i].e)
  BY <1>2, Zenon DEF EntrySectors, Entry
<1>4. \A i \in 1..h.n : TableOf(h.crc)[i] = h.crc[i].e
  BY <1>1, Zenon DEF TableOf
<1>5. h.crc = [i \in 1..h.n |-> h.crc[i]]
  BY <1>1
<1> QED
  BY <1>3, <1>4, <1>5, Zenon

-----------------------------------------------------------------------------
(* Arrays and headers on the device *)

\* An entries array, or a part of it, is written.
LEMMA ArrayWritten ==
  ASSUME DevOk(disk, total), NEW h \in Headers, Len(h.crc) = h.n, NEW which \in SUBSET (1..h.n), NEW d,
         d = WriteEntries(h, which)
  PROVE  /\ DevOk(d, total)
         /\ \A s \in Sectors : s < h.ents \/ h.ents + h.n <= s => d[s] = disk[s]
         /\ \A s \in Sectors : s - h.ents + 1 \in which => d[s] = h.crc[s - h.ents + 1]
         /\ \A s \in Sectors : ~ (s - h.ents + 1 \in which) => d[s] = disk[s]
<1>1. h.ents \in Nat /\ h.n \in Nat /\ h.crc \in Seq(EntrySectors) /\ Sectors \subseteq Nat
  BY HeaderFields, Room, Zenon DEF DevOk
<1>2. d = [s \in Sectors |-> IF s - h.ents + 1 \in which THEN h.crc[s - h.ents + 1] ELSE disk[s]]
  BY Zenon DEF WriteEntries
<1>3. /\ \A s \in Sectors : s - h.ents + 1 \in which => d[s] = h.crc[s - h.ents + 1]
      /\ \A s \in Sectors : ~ (s - h.ents + 1 \in which) => d[s] = disk[s]
  BY <1>2, Zenon
<1>4. d = [s \in Sectors |-> d[s]]
  BY <1>2, Zenon
<1>5. \A i \in which : h.crc[i] \in EntrySectors
  BY <1>1
<1>6. ASSUME NEW s \in Sectors
      PROVE  SectorOk(d, total, s)
  <2>1. SectorOk(disk, total, s)
    BY Zenon DEF DevOk
  <2>2. CASE s - h.ents + 1 \in which
    <3>1. d[s] \in EntrySectors
      BY <1>3, <1>5, <2>2, Zenon
    <3> QED
      BY <3>1, Zenon DEF SectorOk
  <2>3. CASE ~ (s - h.ents + 1 \in which)
    <3>1. d[s] = disk[s]
      BY <1>3, <2>3, Zenon
    <3> QED
      BY <2>1, <3>1, Zenon DEF SectorOk
  <2> QED
    BY <2>2, <2>3, Zenon
<1>7. ASSUME NEW s \in Sectors, s < h.ents \/ h.ents + h.n <= s
      PROVE  d[s] = disk[s]
  <2>1. ~ (s - h.ents + 1 \in which)
    BY <1>1, <1>7
  <2> QED
    BY <1>3, <2>1, Zenon
<1>8. DevOk(d, total)
  BY <1>4, <1>6, Zenon DEF DevOk
<1> QED
  BY <1>3, <1>7, <1>8, Zenon

\* The array of a header, when its sectors are the same.
LEMMA SameArray ==
  ASSUME NEW h \in Headers, NEW dev, NEW d,
         \A s \in h.ents..(h.ents + h.n - 1) : d[s] = dev[s]
  PROVE  EntriesOf(h, d) = EntriesOf(h, dev)
<1>1. h.ents \in Nat /\ h.n \in Nat
  BY HeaderFields, Zenon
<1>2. \A i \in 1..h.n : h.ents + i - 1 \in h.ents..(h.ents + h.n - 1)
  BY <1>1
<1>3. \A i \in 1..h.n : d[h.ents + i - 1] = dev[h.ents + i - 1]
  BY <1>2, Zenon
<1> QED
  BY <1>3, Zenon DEF EntriesOf

\* The array of a header, when its sectors hold what the checksum was computed from.
LEMMA WholeArray ==
  ASSUME NEW h \in Headers, NEW d, Len(h.crc) = h.n,
         \A s \in h.ents..(h.ents + h.n - 1) : d[s] = h.crc[s - h.ents + 1]
  PROVE  EntriesOf(h, d) = h.crc
<1>1. h.ents \in Nat /\ h.n \in Nat /\ h.crc \in Seq(EntrySectors)
  BY HeaderFields, Zenon
<1>2. \A i \in 1..h.n : h.ents + i - 1 \in h.ents..(h.ents + h.n - 1) /\ (h.ents + i - 1) - h.ents + 1 = i
  BY <1>1
<1>3. \A i \in 1..h.n : d[h.ents + i - 1] = h.crc[i]
  BY <1>2, Zenon
<1>4. h.crc = [i \in 1..h.n |-> h.crc[i]]
  BY <1>1
<1> QED
  BY <1>3, <1>4, ZenonT(30) DEF EntriesOf

\* The headers that are written, and the sectors they are for.
LEMMA Layout ==
  ASSUME Sound, pc \in Writing
  PROVE  /\ label.p \in Headers /\ label.b \in Headers /\ label.ents \in Seq(Entries)
         /\ label.p.n \in Nat /\ label.p.n >= 1 /\ label.p.n <= GPT_NPARTITIONS /\ label.b.n = label.p.n
         /\ label.p.my = 1 /\ label.p.ents = 2 /\ label.p.alt \in Nat
         /\ label.b.my = label.p.alt /\ label.b.alt = 1 /\ label.b.ents \in Nat
         /\ label.b.ents > label.p.n + 2
         /\ Len(label.p.crc) = label.p.n /\ label.b.crc = label.p.crc
         /\ TableOf(label.p.crc) = label.ents
         /\ label.p.alt < total =>
               /\ label.p.alt >= 2 * label.p.n + 3 /\ label.b.ents = label.p.alt - label.p.n
               /\ label.p.ents + label.p.n <= label.b.ents
               /\ label.b.ents + label.b.n = label.p.alt
               /\ HeaderOk(label.p, label.p.alt) /\ HeaderOk(label.b, label.p.alt)
         /\ ~label.minimize =>
               label.p.alt \in {total - 1, total} /\ label.b.ents = total - 1 - label.p.n
<1>1. LabelOk(label) /\ WriteOk(label, total)
  BY Zenon DEF Sound, Writing
<1>2. /\ label \in Labels /\ label.p.my = 1 /\ label.p.ents = 2 /\ label.p.n \in Slots
      /\ label.p.fu = label.p.n + 2 /\ label.p.fu <= label.p.lu /\ label.b.fu = label.b.n + 2
      /\ Len(label.ents) = label.p.n /\ InRange(label.ents, label.p.fu, label.p.lu)
  BY <1>1, Zenon DEF LabelOk
<1>3. /\ label.b.n = label.p.n /\ label.b.my = label.p.alt /\ label.b.alt = 1
      /\ label.b.lu = label.p.lu /\ label.b.ents > label.p.fu
      /\ label.p.crc = [i \in 1..label.p.n |-> Entry(label.ents[i])]
      /\ label.b.crc = label.p.crc /\ Apart(label.ents)
      /\ label.p.alt < total =>
            label.p.lu = label.p.alt - 1 - label.p.n /\ label.b.ents = label.p.alt - label.p.n
      /\ ~label.minimize => label.p.alt \in {total - 1, total} /\ label.b.ents = total - 1 - label.p.n
  BY <1>1, Zenon DEF WriteOk
<1>4. label.p \in Headers /\ label.b \in Headers /\ label.ents \in Seq(Entries)
  BY <1>2, LabelParts, Zenon
<1>5. /\ label.p.n \in Nat /\ label.p.alt \in Nat /\ label.b.ents \in Nat /\ label.p.lu \in Nat
      /\ label.p.n >= 1 /\ label.p.n <= GPT_NPARTITIONS
  BY <1>2, <1>4, HeaderFields DEF Slots
<1>6. TableOf(label.p.crc) = label.ents /\ Len(label.p.crc) = label.p.n
  <2>1. PICK t \in Seq(Entries), n \in Nat : t = label.ents /\ n = label.p.n
    BY <1>4, <1>5, Zenon
  <2>2. /\ TableOf([i \in 1..n |-> Entry(t[i])]) = t /\ Len([i \in 1..n |-> Entry(t[i])]) = n
    BY <1>2, <2>1, TableOfCrc, Zenon
  <2> QED
    BY <1>3, <2>1, <2>2, Zenon
<1>7. label.p.alt < total =>
         HeaderOk(label.p, label.p.alt) /\ HeaderOk(label.b, label.p.alt)
  <2>1. label.p.alt < total => HeaderOk(label.p, label.p.alt)
    BY <1>2, <1>3, <1>4, <1>5, <1>6, Zenon DEF HeaderOk
  <2>2. label.p.alt < total => HeaderOk(label.b, label.p.alt)
    BY <1>2, <1>3, <1>4, <1>5, <1>6, Zenon DEF HeaderOk
  <2> QED
    BY <2>1, <2>2, Zenon
<1>8. label.p.alt < total =>
         /\ label.p.alt >= 2 * label.p.n + 3 /\ label.b.ents = label.p.alt - label.p.n
         /\ label.p.ents + label.p.n <= label.b.ents /\ label.b.ents + label.b.n = label.p.alt
  <2>1. /\ label.p.fu = label.p.n + 2 /\ label.p.fu <= label.p.lu /\ label.p.ents = 2
        /\ label.b.n = label.p.n
    BY <1>2, <1>3, Zenon
  <2>2. label.p.alt < total =>
           label.p.lu = label.p.alt - 1 - label.p.n /\ label.b.ents = label.p.alt - label.p.n
    BY <1>3, Zenon
  <2> QED
    BY <1>5, <2>1, <2>2
<1>9. label.b.ents > label.p.n + 2
  BY <1>2, <1>3, Zenon
<1> QED
  BY <1>2, <1>3, <1>4, <1>5, <1>6, <1>7, <1>8, <1>9, Zenon

\* The primary header of the device that is being written.
LEMMA OldPrimary ==
  ASSUME DevOk(disk, total), disk[1].kind = "header"
  PROVE  /\ disk[1].h \in Headers /\ disk[1].h.ents = 2 /\ disk[1].h.n \in Nat
         /\ disk[1].h.n <= GPT_NPARTITIONS
<1>1. 1 \in 0..(total - 1)
  BY Room DEF DevOk
<1>2. PrimaryOk(disk[1].h)
  BY <1>1, ReadHeader, Zenon
<1> QED
  BY <1>2, HeaderNumbers DEF PrimaryOk

\* The header at the end of it.
LEMMA OldBackup ==
  ASSUME DevOk(disk, total), disk[total - 1].kind = "header"
  PROVE  /\ disk[total - 1].h \in Headers /\ disk[total - 1].h.n \in Nat
         /\ disk[total - 1].h.ents = total - 1 - disk[total - 1].h.n
         /\ Len(disk[total - 1].h.crc) = disk[total - 1].h.n
<1>1. (total - 1) \in 0..(total - 1) /\ total - 1 # 1
  BY Room DEF DevOk
<1>2. BackupOk(disk[total - 1].h, total - 1)
  BY <1>1, ReadHeader, ZenonT(30)
<1> QED
  BY <1>2, HeaderNumbers, ZenonT(30) DEF BackupOk, HeaderOk

\* What an interruption may not lose, on a device with the sectors d.
Survives(d) ==
    /\ risk = "none" => Found(d, total) \in {committed, pending}
    /\ risk = "stale" => Matches(d, 1) \/ Matches(d, total - 1)

\* Nothing can be lost while the entries of the backup are written.
LEMMA BackupArray ==
  ASSUME Sound, pc = "backup_entries", NEW which \in SUBSET (1..label.b.n), NEW d,
         d = WriteEntries(label.b, which)
  PROVE  /\ DevOk(d, total) /\ (d[0] = Pmbr <=> disk[0] = Pmbr)
         /\ risk = "none" /\ disk[0] = Pmbr => Matches(d, 1) /\ d[1] = disk[1]
         /\ risk = "stale" => Matches(d, total - 1) /\ d[total - 1] = disk[total - 1]
         /\ Survives(d)
<1>1. DevOk(disk, total) /\ pc \in Writing
  BY Zenon DEF Sound, Writing
<1>2. /\ total \in Nat /\ GPT_NPARTITIONS \in Nat /\ total >= 2 * GPT_NPARTITIONS + 4
      /\ \A s \in Nat : s < total => s \in Sectors
  BY <1>1, Room DEF DevOk
<1>3. /\ label.b \in Headers /\ label.p.n \in Nat /\ label.b.n = label.p.n /\ label.b.ents \in Nat
      /\ label.b.ents > label.p.n + 2 /\ Len(label.b.crc) = label.b.n
      /\ label.p.n <= GPT_NPARTITIONS
      /\ ~label.minimize => label.b.ents = total - 1 - label.p.n
  BY <1>1, Layout, Zenon
<1>4. /\ DevOk(d, total)
      /\ \A s \in Sectors : s < label.b.ents \/ label.b.ents + label.b.n <= s => d[s] = disk[s]
      /\ \A s \in Sectors : s - label.b.ents + 1 \in which => d[s] = label.b.crc[s - label.b.ents + 1]
      /\ \A s \in Sectors : ~ (s - label.b.ents + 1 \in which) => d[s] = disk[s]
  BY <1>1, <1>3, ArrayWritten, SMTT(30)
<1>5. d[0] = disk[0] /\ d[1] = disk[1]
  <2>1. 0 \in Sectors /\ 1 \in Sectors /\ 0 < label.b.ents /\ 1 < label.b.ents
    BY <1>2, <1>3, SMTT(30)
  <2> QED
    BY <1>4, <2>1, Zenon
<1>6. ASSUME risk = "none", disk[0] = Pmbr
      PROVE  Matches(d, 1) /\ TableOf(d[1].h.crc) = committed
  <2>1. ~label.minimize /\ Matches(disk, 1) /\ TableOf(disk[1].h.crc) = committed
    BY <1>6, Zenon DEF Sound, GhostOk, Writing
  <2>2. PICK g \in Headers : g = disk[1].h /\ g.ents = 2 /\ g.n \in Nat /\ g.n <= GPT_NPARTITIONS
    BY <1>1, <2>1, OldPrimary, Zenon DEF Matches
  <2>3. \A s \in 2..(2 + g.n - 1) : s \in Sectors /\ s < label.b.ents
    <3>1. 2 + g.n - 1 < label.b.ents /\ 2 + g.n - 1 < total
      <4>1. label.b.ents = total - 1 - label.p.n
        BY <1>3, <2>1, Zenon
      <4>2. g.n \in Nat /\ g.n <= GPT_NPARTITIONS
        BY <2>2, Zenon
      <4> QED
        BY <1>2, <1>3, <4>1, <4>2, SMTT(30)
    <3>2. \A s \in 2..(2 + g.n - 1) : s \in Nat /\ s < total /\ s < label.b.ents
      BY <1>2, <1>3, <2>2, <3>1, SMTT(30)
    <3> QED
      BY <1>2, <3>2, Zenon
  <2>4. EntriesOf(g, d) = EntriesOf(g, disk)
    BY <1>4, <2>2, <2>3, SameArray
  <2> QED
    BY <1>5, <2>1, <2>2, <2>4, Zenon DEF Matches
<1>7. ASSUME risk = "stale"
      PROVE  Matches(d, total - 1) /\ d[total - 1] = disk[total - 1]
  <2>1. /\ ~label.minimize /\ Matches(disk, total - 1)
        /\ disk[total - 1].h.n = label.b.n /\ disk[total - 1].h.crc = label.b.crc
    BY <1>7, Zenon DEF Sound, GhostOk, Writing
  <2>2. PICK g \in Headers : /\ g = disk[total - 1].h /\ g.n \in Nat /\ g.ents = total - 1 - g.n
                             /\ Len(g.crc) = g.n
    BY <1>1, <2>1, OldBackup, Zenon DEF Matches
  <2>3. g.ents = label.b.ents /\ g.n = label.b.n /\ g.crc = label.b.crc
    BY <1>3, <2>1, <2>2, Zenon
  <2>4. total - 1 \in Sectors /\ label.b.ents + label.b.n <= total - 1
    <3>1. label.b.ents = total - 1 - label.p.n /\ label.b.n = label.p.n /\ label.p.n \in Nat
      BY <1>3, <2>1, Zenon
    <3>2. total \in Nat /\ total > 0
      BY <1>2
    <3>3. total - 1 \in Nat /\ total - 1 < total
      BY <3>2
    <3>4. total - 1 - label.p.n + label.p.n <= total - 1
      BY <3>1, <3>2
    <3> QED
      BY <1>2, <3>1, <3>3, <3>4, Zenon
  <2>5. d[total - 1] = disk[total - 1]
    BY <1>4, <2>4, Zenon
  <2>6. ASSUME NEW s \in g.ents..(g.ents + g.n - 1)
        PROVE  d[s] = g.crc[s - g.ents + 1]
    <3>1. s \in Nat /\ s < total /\ s - g.ents + 1 \in 1..g.n /\ g.ents + (s - g.ents + 1) - 1 = s
      <4>1. g.ents \in Nat /\ g.ents + g.n = total - 1
        BY <1>2, <2>2, HeaderFields, SMTT(30)
      <4>2. s \in Int /\ g.ents <= s /\ s <= g.ents + g.n - 1 /\ g.n \in Nat
        BY <2>2, <4>1
      <4> QED
        BY <1>2, <4>1, <4>2
    <3>2. disk[s] = g.crc[s - g.ents + 1]
      <4>1. EntriesOf(g, disk) = g.crc
        BY <2>1, <2>2, Zenon DEF Matches
      <4>2. EntriesOf(g, disk)[s - g.ents + 1] = disk[g.ents + (s - g.ents + 1) - 1]
        BY <3>1, Zenon DEF EntriesOf
      <4> QED
        BY <3>1, <4>1, <4>2, Zenon
    <3> QED
      BY <1>2, <1>4, <2>3, <3>1, <3>2, Zenon
  <2>7. EntriesOf(g, d) = g.crc
    BY <2>2, <2>6, WholeArray, Zenon
  <2> QED
    BY <2>1, <2>2, <2>5, <2>7, Zenon DEF Matches
<1>8. Survives(d)
  <2>1. ASSUME risk = "none"
        PROVE  Found(d, total) \in {committed, pending}
    <3>1. CASE disk[0] = Pmbr
      BY <1>4, <1>5, <1>6, <2>1, <3>1, FoundIs, ZenonT(30)
    <3>2. CASE disk[0] # Pmbr
      <4>1. committed = NoLabel
        BY <3>2, Zenon DEF Sound, GhostOk
      <4> QED
        BY <1>4, <1>5, <3>2, <4>1, FoundIs, Zenon
    <3> QED
      BY <3>1, <3>2, Zenon
  <2> QED
    BY <1>7, <2>1, Zenon DEF Survives
<1> QED
  BY <1>4, <1>5, <1>6, <1>7, <1>8, Zenon

\* A sector is written.
Put(dev, s, x) == [dev EXCEPT ![s] = x]

\* A header is written.
LEMMA HeaderWritten ==
  ASSUME DevOk(disk, total), NEW s0 \in Sectors, NEW h \in Headers,
         s0 = 1 => PrimaryOk(h) /\ h.alt <= total, s0 # 1 => BackupOk(h, s0), NEW d,
         d = Put(disk, s0, Header(h))
  PROVE  /\ DevOk(d, total) /\ d[s0] = Header(h)
         /\ \A s \in Sectors : s # s0 => d[s] = disk[s]
<1>1. disk = [s \in Sectors |-> disk[s]]
  BY Zenon DEF DevOk
<1>2. /\ d = [s \in Sectors |-> d[s]] /\ d[s0] = Header(h)
      /\ \A s \in Sectors : s # s0 => d[s] = disk[s]
  BY <1>1, Zenon DEF Put
<1>3. ASSUME NEW s \in Sectors
      PROVE  SectorOk(d, total, s)
  <2>1. CASE s = s0
    <3>1. Header(h) \in [kind : {"header"}, h : Headers] /\ Header(h).h = h
      BY Zenon DEF Header
    <3> QED
      BY <1>2, <2>1, <3>1, Zenon DEF SectorOk
  <2>2. CASE s # s0
    <3>1. SectorOk(disk, total, s) /\ d[s] = disk[s]
      BY <1>2, <2>2, Zenon DEF DevOk
    <3> QED
      BY <3>1, Zenon DEF SectorOk
  <2> QED
    BY <2>1, <2>2, Zenon
<1> QED
  BY <1>2, <1>3, Zenon DEF DevOk

\* The numbers of the sectors.
LEMMA SectorNumbers ==
  ASSUME DevOk(disk, total)
  PROVE  /\ total \in Nat /\ GPT_NPARTITIONS \in Nat /\ total >= 2 * GPT_NPARTITIONS + 4
         /\ \A s \in Nat : s < total => s \in Sectors
         /\ 0 \in Sectors /\ 1 \in Sectors /\ total - 1 \in Sectors /\ total - 1 # 1 /\ total - 1 # 0
<1>1. /\ total \in Nat /\ GPT_NPARTITIONS \in Nat \ {0} /\ total >= 2 * GPT_NPARTITIONS + 4
      /\ 0..(total - 1) \subseteq Sectors
  BY Room, Zenon DEF DevOk
<1>2. \A s \in Nat : s < total => s \in Sectors
  BY <1>1
<1>3. total - 1 \in Nat /\ total - 1 < total /\ total - 1 # 1 /\ total - 1 # 0 /\ 0 < total /\ 1 < total
  BY <1>1
<1> QED
  BY <1>1, <1>2, <1>3, Zenon

\* A sector of an array.
LEMMA InArray ==
  ASSUME NEW e \in Nat, NEW n \in Nat, NEW z \in Nat, e + n <= z, NEW s \in e..(e + n - 1)
  PROVE  s \in Nat /\ s < z /\ s - e + 1 \in 1..n
<1>1. s \in Int /\ e <= s /\ s <= e + n - 1
  OBVIOUS
<1> QED
  BY <1>1
=============================================================================
