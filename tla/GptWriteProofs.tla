--------------------------- MODULE GptWriteProofs ---------------------------
(***************************************************************************)
(* Proofs about Gpt, the second part: the label survives an interruption of   *)
(* each of the five writes, and it is never written over a partition.        *)
(***************************************************************************)
EXTENDS GptProofs

-----------------------------------------------------------------------------
(* The five writes *)

\* The first write: the array of the backup.
LEMMA BackupEntriesKeeps ==
  ASSUME Sound, BackupEntries
  PROVE  Sound'
<1>1. /\ pc = "backup_entries" /\ label.b.ents + label.b.n <= total
      /\ pc' = "backup_header" /\ disk' = WriteEntries(label.b, 1..label.b.n) /\ total' = total
      /\ label' = label /\ committed' = committed /\ pending' = pending /\ risk' = risk
  BY Zenon DEF BackupEntries, Step, ghostVars
<1>2. DevOk(disk, total) /\ pc \in Writing /\ LabelOk(label) /\ WriteOk(label, total) /\ GhostOk
  BY <1>1, Zenon DEF Sound, Writing
<1>3. PICK d : d = disk'
  BY Zenon
<1>4. PICK which : which = 1..label.b.n
  BY Zenon
<1>5. which \in SUBSET (1..label.b.n) /\ d = WriteEntries(label.b, which)
  BY <1>1, <1>3, <1>4, Zenon
<1>6. /\ DevOk(d, total) /\ (d[0] = Pmbr <=> disk[0] = Pmbr)
      /\ risk = "none" /\ disk[0] = Pmbr => Matches(d, 1) /\ d[1] = disk[1]
      /\ risk = "stale" => Matches(d, total - 1) /\ d[total - 1] = disk[total - 1]
  BY <1>1, <1>5, BackupArray, Zenon
<1>7. EntriesOf(label.b, d) = label.b.crc
  <2>1. label.b \in Headers /\ Len(label.b.crc) = label.b.n /\ label.b.ents \in Nat /\ label.b.n \in Nat
    BY <1>2, Layout, Zenon
  <2>2. \A s \in Sectors : s - label.b.ents + 1 \in which => d[s] = label.b.crc[s - label.b.ents + 1]
    BY <1>2, <1>5, <2>1, ArrayWritten
  <2>3. ASSUME NEW s \in label.b.ents..(label.b.ents + label.b.n - 1)
        PROVE  s \in Sectors /\ s - label.b.ents + 1 \in which
    <3>1. s \in Nat /\ s < total /\ s - label.b.ents + 1 \in 1..label.b.n
      <4>1. total \in Nat
        BY <1>2, SectorNumbers, Zenon
      <4> QED
        BY <1>1, <2>1, <4>1, InArray, Zenon
    <3> QED
      BY <1>2, <1>4, <3>1, SectorNumbers, Zenon
  <2> QED
    BY <2>1, <2>2, <2>3, WholeArray, Zenon
<1>8. ProgressOk'
  BY <1>1, <1>3, <1>7, Zenon DEF ProgressOk, Writing
<1>9. GhostOk'
  BY <1>1, <1>2, <1>3, <1>6, Zenon DEF GhostOk, Writing, Matches
<1> QED
  BY <1>1, <1>2, <1>3, <1>6, <1>8, <1>9, ZenonT(30) DEF Sound, Writing

\* The old primary, or the copy that has just been written, survives.
LEMMA BackupThere ==
  ASSUME Sound, pc \in {"primary_entries", "primary_header"}, NEW d, DevOk(d, total), d[0] = disk[0],
         d[1] = disk[1], d[label.p.alt] = Header(label.b), EntriesOf(label.b, d) = label.b.crc
  PROVE  Survives(d)
<1>1. pc \in Writing /\ label.p.alt < total /\ pending = label.ents
  BY Zenon DEF Sound, Writing, ProgressOk, GhostOk
<1>2. /\ TableOf(label.b.crc) = label.ents /\ label.p.alt \in Nat
      /\ ~label.minimize => label.p.alt \in {total - 1, total}
  BY <1>1, Layout, Zenon
<1>3. risk # "write" => label.p.alt = total - 1
  <2>1. risk # "write" => ~label.minimize
    BY <1>1, Zenon DEF Sound, GhostOk
  <2>2. total \in Nat
    BY SectorNumbers, Zenon DEF Sound
  <2> QED
    BY <1>1, <1>2, <2>1, <2>2
<1>4. risk # "write" => Matches(d, total - 1) /\ TableOf(d[total - 1].h.crc) = pending
  BY <1>1, <1>2, <1>3 DEF Matches, Header
<1>5. ASSUME risk = "none"
      PROVE  Found(d, total) \in {committed, pending}
  <2>1. CASE disk[0] = Pmbr
    <3>1. TableOf(disk[1].h.crc) = committed
      BY <1>1, <1>5, <2>1, Zenon DEF Sound, GhostOk, Writing
    <3> QED
      BY <1>4, <1>5, <2>1, <3>1, FoundIs, Zenon
  <2>2. CASE disk[0] # Pmbr
    <3>1. committed = NoLabel
      BY <2>2, Zenon DEF Sound, GhostOk
    <3> QED
      BY <2>2, <3>1, FoundIs, Zenon
  <2> QED
    BY <2>1, <2>2, Zenon
<1> QED
  BY <1>4, <1>5, Zenon DEF Survives

\* The second write: the header of the backup, which may be behind the end of the device.
LEMMA BackupHeaderKeeps ==
  ASSUME Sound, BackupHeader
  PROVE  Sound'
<1>1. /\ pc = "backup_header" /\ label.p.alt < total
      /\ pc' = "primary_entries" /\ disk' = [disk EXCEPT ![label.p.alt] = Header(label.b)]
      /\ total' = total /\ label' = label /\ committed' = committed /\ pending' = pending
      /\ risk' = risk
  BY Zenon DEF BackupHeader, Step, ghostVars
<1>2. DevOk(disk, total) /\ pc \in Writing /\ LabelOk(label) /\ WriteOk(label, total) /\ GhostOk
  BY <1>1, Zenon DEF Sound, Writing
<1>3. PICK d : d = disk'
  BY Zenon
<1>4. /\ label.b \in Headers /\ label.p.n \in Nat /\ label.b.n = label.p.n /\ label.p.alt \in Nat
      /\ label.b.my = label.p.alt /\ label.b.alt = 1
      /\ label.p.alt >= 2 * label.p.n + 3 /\ label.b.ents = label.p.alt - label.p.n
      /\ label.p.n >= 1 /\ HeaderOk(label.b, label.p.alt)
      /\ ~label.minimize => label.p.alt \in {total - 1, total}
  BY <1>1, <1>2, Layout, Zenon
<1>5. /\ total \in Nat /\ GPT_NPARTITIONS \in Nat /\ total >= 2 * GPT_NPARTITIONS + 4
      /\ 0 \in Sectors /\ 1 \in Sectors
      /\ \A s \in Nat : s < total => s \in Sectors
  BY <1>2, SectorNumbers, Zenon
<1>6. label.p.alt \in Sectors /\ label.p.alt # 1 /\ label.p.alt # 0
  BY <1>1, <1>4, <1>5
<1>7. BackupOk(label.b, label.p.alt)
  BY <1>4, Zenon DEF BackupOk
<1>8. /\ DevOk(d, total) /\ d[label.p.alt] = Header(label.b)
      /\ \A s \in Sectors : s # label.p.alt => d[s] = disk[s]
  <2>1. d = Put(disk, label.p.alt, Header(label.b))
    BY <1>1, <1>3, Zenon DEF Put
  <2> QED
    BY <1>2, <1>4, <1>6, <1>7, <2>1, HeaderWritten, ZenonT(30)
<1>9. d[0] = disk[0] /\ d[1] = disk[1]
  BY <1>5, <1>6, <1>8, Zenon
<1>10. EntriesOf(label.b, d) = label.b.crc
  <2>1. EntriesOf(label.b, disk) = label.b.crc
    BY <1>1, Zenon DEF Sound, ProgressOk, Writing
  <2>2. label.b.ents \in Nat /\ label.b.n \in Nat /\ label.b.ents + label.b.n <= label.p.alt
    BY <1>4
  <2>3. ASSUME NEW s \in label.b.ents..(label.b.ents + label.b.n - 1)
        PROVE  d[s] = disk[s]
    <3>1. s \in Nat /\ s < label.p.alt
      BY <1>4, <2>2, InArray, Zenon
    <3>2. s \in Sectors /\ s # label.p.alt
      BY <1>1, <1>4, <1>5, <3>1
    <3> QED
      BY <1>8, <3>2, Zenon
  <2> QED
    BY <1>4, <2>1, <2>3, SameArray, Zenon
<1>11. ASSUME risk = "none", disk[0] = Pmbr
       PROVE  Matches(d, 1)
  <2>1. ~label.minimize /\ Matches(disk, 1)
    BY <1>1, <1>2, <1>11, Zenon DEF GhostOk, Writing
  <2>2. PICK g \in Headers : g = disk[1].h /\ g.ents = 2 /\ g.n \in Nat /\ g.n <= GPT_NPARTITIONS
    BY <1>2, <2>1, OldPrimary, Zenon DEF Matches
  <2>3. label.p.alt \in {total - 1, total}
    BY <1>4, <2>1, Zenon
  <2>4. label.p.alt = total - 1
    BY <1>1, <1>4, <1>5, <2>3
  <2>5. 2 + g.n <= label.p.alt
    BY <1>5, <2>2, <2>4
  <2>6. ASSUME NEW s \in g.ents..(g.ents + g.n - 1)
        PROVE  d[s] = disk[s]
    <3>1. s \in Nat /\ s < label.p.alt
      BY <1>4, <2>2, <2>5, InArray, Zenon
    <3>2. s \in Sectors /\ s # label.p.alt
      BY <1>1, <1>4, <1>5, <3>1
    <3> QED
      BY <1>8, <3>2, Zenon
  <2>7. EntriesOf(g, d) = EntriesOf(g, disk)
    BY <2>6, SameArray, Zenon
  <2> QED
    BY <1>9, <2>1, <2>2, <2>7, Zenon DEF Matches
<1>12. ProgressOk'
  BY <1>1, <1>3, <1>8, <1>10, Zenon DEF ProgressOk, Writing
<1>13. GhostOk'
  BY <1>1, <1>2, <1>3, <1>9, <1>11, Zenon DEF GhostOk, Writing, Matches
<1> QED
  BY <1>1, <1>2, <1>3, <1>8, <1>12, <1>13, Zenon DEF Sound, Writing

\* The backup holds the table while the entries of the primary are written.
LEMMA PrimaryArray ==
  ASSUME Sound, pc = "primary_entries", NEW which \in SUBSET (1..label.p.n), NEW d,
         d = WriteEntries(label.p, which)
  PROVE  /\ DevOk(d, total) /\ d[0] = disk[0] /\ d[1] = disk[1]
         /\ d[label.p.alt] = Header(label.b) /\ EntriesOf(label.b, d) = label.b.crc
         /\ which = 1..label.p.n => EntriesOf(label.p, d) = label.p.crc
         /\ Survives(d)
<1>0. DevOk(disk, total) /\ pc \in Writing
  BY Zenon DEF Sound, Writing
<1>1. label.p.alt < total
  BY Zenon DEF Sound, Writing, ProgressOk
<1>10. disk[label.p.alt] = Header(label.b) /\ EntriesOf(label.b, disk) = label.b.crc
  BY <1>1, Zenon DEF Sound, Writing, ProgressOk
<1>2. label.p \in Headers /\ label.b \in Headers /\ Len(label.p.crc) = label.p.n
  BY <1>0, Layout, Zenon
<1>11. /\ label.p.n \in Nat /\ label.p.alt \in Nat /\ label.p.ents = 2 /\ label.b.ents \in Nat
       /\ label.b.n \in Nat
       /\ label.p.ents + label.p.n <= label.b.ents /\ label.b.ents + label.b.n = label.p.alt
  BY <1>0, <1>1, Layout, Zenon
<1>3. total \in Nat /\ 0 \in Sectors /\ 1 \in Sectors /\ \A s \in Nat : s < total => s \in Sectors
  BY <1>0, SectorNumbers, Zenon
<1>4. /\ DevOk(d, total)
      /\ \A s \in Sectors : s < label.p.ents \/ label.p.ents + label.p.n <= s => d[s] = disk[s]
      /\ \A s \in Sectors : s - label.p.ents + 1 \in which => d[s] = label.p.crc[s - label.p.ents + 1]
  BY <1>0, <1>2, ArrayWritten
<1>5. d[0] = disk[0] /\ d[1] = disk[1]
  BY <1>3, <1>4, <1>11
<1>6. d[label.p.alt] = Header(label.b)
  <2>1. label.p.alt \in Sectors /\ label.p.ents + label.p.n <= label.p.alt
    BY <1>1, <1>3, <1>11
  <2> QED
    BY <1>10, <1>4, <2>1, Zenon
<1>7. EntriesOf(label.b, d) = label.b.crc
  <2>1. ASSUME NEW s \in label.b.ents..(label.b.ents + label.b.n - 1)
        PROVE  d[s] = disk[s]
    <3>1. label.b.ents + label.b.n <= total /\ label.p.ents + label.p.n <= label.b.ents
      BY <1>1, <1>3, <1>11
    <3>2. s \in Nat /\ s < total
      BY <1>3, <1>11, <3>1, InArray, Zenon
    <3>3. label.b.ents <= s
      BY <1>11
    <3>4. s \in Sectors /\ label.p.ents + label.p.n <= s
      BY <1>3, <1>11, <3>1, <3>2, <3>3
    <3> QED
      BY <1>4, <3>4, Zenon
  <2> QED
    BY <1>10, <1>2, <2>1, SameArray, Zenon
<1>8. ASSUME which = 1..label.p.n
      PROVE  EntriesOf(label.p, d) = label.p.crc
  <2>1. ASSUME NEW s \in label.p.ents..(label.p.ents + label.p.n - 1)
        PROVE  d[s] = label.p.crc[s - label.p.ents + 1]
    <3>1. label.p.ents \in Nat /\ label.p.ents + label.p.n <= total
      BY <1>1, <1>3, <1>11
    <3>2. s \in Nat /\ s < total /\ s - label.p.ents + 1 \in 1..label.p.n
      BY <1>3, <1>11, <3>1, InArray, Zenon
    <3> QED
      BY <1>3, <1>4, <1>8, <3>2, Zenon
  <2> QED
    BY <1>2, <2>1, WholeArray, Zenon
<1>9. Survives(d)
  BY <1>4, <1>5, <1>6, <1>7, BackupThere, Zenon
<1> QED
  BY <1>4, <1>5, <1>6, <1>7, <1>8, <1>9, Zenon

\* The third write: the array of the primary.
LEMMA PrimaryEntriesKeeps ==
  ASSUME Sound, PrimaryEntries
  PROVE  Sound'
<1>1. /\ pc = "primary_entries" /\ pc' = "primary_header"
      /\ disk' = WriteEntries(label.p, 1..label.p.n) /\ total' = total
      /\ label' = label /\ committed' = committed /\ pending' = pending /\ risk' = risk
  BY Zenon DEF PrimaryEntries, Step, ghostVars
<1>2. /\ pc \in Writing /\ LabelOk(label) /\ WriteOk(label, total) /\ GhostOk
      /\ label.p.alt < total
  BY <1>1, Zenon DEF Sound, Writing, ProgressOk
<1>3. PICK d : d = disk'
  BY Zenon
<1>4. PICK which : which = 1..label.p.n
  BY Zenon
<1>5. which \in SUBSET (1..label.p.n) /\ d = WriteEntries(label.p, which)
  BY <1>1, <1>3, <1>4, Zenon
<1>6. /\ DevOk(d, total) /\ d[0] = disk[0] /\ d[1] = disk[1]
      /\ d[label.p.alt] = Header(label.b) /\ EntriesOf(label.b, d) = label.b.crc
      /\ EntriesOf(label.p, d) = label.p.crc
  BY <1>1, <1>4, <1>5, PrimaryArray, Zenon
<1>7. ProgressOk'
  BY <1>1, <1>2, <1>3, <1>6, Zenon DEF ProgressOk, Writing
<1>8. GhostOk'
  BY <1>1, <1>2, <1>3, <1>6, Zenon DEF GhostOk, Writing, Matches
<1> QED
  BY <1>1, <1>2, <1>3, <1>6, <1>7, <1>8, ZenonT(30) DEF Sound, Writing

\* The fourth write: the header of the primary.
LEMMA PrimaryHeaderKeeps ==
  ASSUME Sound, PrimaryHeader
  PROVE  Sound'
<1>1. /\ pc = "primary_header" /\ pc' = "pmbr" /\ disk' = [disk EXCEPT ![1] = Header(label.p)]
      /\ total' = total /\ label' = label /\ committed' = committed /\ pending' = pending
      /\ risk' = risk
  BY Zenon DEF PrimaryHeader, Step, ghostVars
<1>2. DevOk(disk, total) /\ pc \in Writing /\ LabelOk(label) /\ WriteOk(label, total) /\ GhostOk
  BY <1>1, Zenon DEF Sound, Writing
<1>3. /\ label.p.alt < total /\ disk[label.p.alt] = Header(label.b)
      /\ EntriesOf(label.b, disk) = label.b.crc /\ EntriesOf(label.p, disk) = label.p.crc
  BY <1>1, Zenon DEF Sound, Writing, ProgressOk
<1>4. PICK d : d = disk'
  BY Zenon
<1>5. /\ label.p \in Headers /\ label.b \in Headers /\ label.p.my = 1
      /\ HeaderOk(label.p, label.p.alt)
  BY <1>2, <1>3, Layout, Zenon
<1>6. /\ label.p.n \in Nat /\ label.p.alt \in Nat /\ label.p.ents = 2 /\ label.b.ents \in Nat
      /\ label.b.n \in Nat
      /\ label.p.ents + label.p.n <= label.b.ents /\ label.b.ents + label.b.n = label.p.alt
  BY <1>2, <1>3, Layout, Zenon
<1>7. total \in Nat /\ 0 \in Sectors /\ 1 \in Sectors /\ \A s \in Nat : s < total => s \in Sectors
  BY <1>2, SectorNumbers, Zenon
<1>8. PrimaryOk(label.p) /\ label.p.alt <= total
  <2>1. label.p.alt <= total
    BY <1>3, <1>6, <1>7
  <2> QED
    BY <1>5, <1>6, <2>1, Zenon DEF PrimaryOk
<1>9. /\ DevOk(d, total) /\ d[1] = Header(label.p)
      /\ \A s \in Sectors : s # 1 => d[s] = disk[s]
  <2>1. d = Put(disk, 1, Header(label.p))
    BY <1>1, <1>4, Zenon DEF Put
  <2> QED
    BY <1>2, <1>5, <1>7, <1>8, <2>1, HeaderWritten
<1>10. d[0] = disk[0] /\ d[label.p.alt] = Header(label.b)
  <2>1. label.p.alt \in Sectors /\ label.p.alt # 1
    BY <1>3, <1>6, <1>7
  <2> QED
    BY <1>3, <1>7, <1>9, <2>1
<1>11. EntriesOf(label.p, d) = label.p.crc
  <2>1. ASSUME NEW s \in label.p.ents..(label.p.ents + label.p.n - 1)
        PROVE  d[s] = disk[s]
    <3>1. label.p.ents \in Nat /\ label.p.ents + label.p.n <= total
      BY <1>3, <1>6, <1>7
    <3>2. s \in Nat /\ s < total
      BY <1>6, <1>7, <3>1, InArray, Zenon
    <3>3. s \in Sectors /\ s # 1
      BY <1>6, <1>7, <3>2
    <3> QED
      BY <1>9, <3>3, Zenon
  <2> QED
    BY <1>3, <1>5, <2>1, SameArray, Zenon
<1>12. EntriesOf(label.b, d) = label.b.crc
  <2>1. ASSUME NEW s \in label.b.ents..(label.b.ents + label.b.n - 1)
        PROVE  d[s] = disk[s]
    <3>1. label.b.ents + label.b.n <= total /\ label.b.ents > 1
      BY <1>3, <1>6, <1>7
    <3>2. s \in Nat /\ s < total
      BY <1>6, <1>7, <3>1, InArray, Zenon
    <3>3. s \in Sectors /\ s # 1
      BY <1>6, <1>7, <3>1, <3>2
    <3> QED
      BY <1>9, <3>3, Zenon
  <2> QED
    BY <1>3, <1>5, <2>1, SameArray, Zenon
<1>13. ProgressOk'
  BY <1>1, <1>3, <1>4, <1>9, <1>10, <1>11, <1>12, ZenonT(30) DEF ProgressOk, Writing
<1>14. GhostOk'
  BY <1>1, <1>2, <1>4, <1>10, Zenon DEF GhostOk, Writing
<1> QED
  BY <1>1, <1>2, <1>4, <1>9, <1>13, <1>14, Zenon DEF Sound, Writing

\* gpt_write_pmbr() completes the write.
LEMMA PmbrKeeps ==
  ASSUME Sound, WritePmbr
  PROVE  Sound'
<1>1. /\ pc = "pmbr" /\ pc' = "closed" /\ disk' = [disk EXCEPT ![0] = Pmbr] /\ total' = total
      /\ committed' = label.ents /\ pending' = NoLabel /\ risk' = "none"
  BY Zenon DEF WritePmbr, Sound
<1>2. DevOk(disk, total) /\ pc \in Writing
  BY <1>1, Zenon DEF Sound, Writing
<1>3. disk[1] = Header(label.p) /\ EntriesOf(label.p, disk) = label.p.crc /\ label.p.alt < total
  BY <1>1, Zenon DEF Sound, Writing, ProgressOk
<1>4. PICK d : d = disk'
  BY Zenon
<1>5. /\ total \in Nat /\ 0 \in Sectors /\ 1 \in Sectors /\ \A s \in Nat : s < total => s \in Sectors
  BY <1>2, SectorNumbers, Zenon
<1>6. /\ d = [s \in Sectors |-> d[s]] /\ d[0] = Pmbr
      /\ \A s \in Sectors : s # 0 => d[s] = disk[s]
  <2>1. disk = [s \in Sectors |-> disk[s]]
    BY <1>2, Zenon DEF DevOk
  <2> QED
    BY <1>1, <1>4, <1>5, <2>1, Zenon
<1>7. DevOk(d, total)
  <2>1. ASSUME NEW s \in Sectors
        PROVE  SectorOk(d, total, s)
    <3>1. SectorOk(disk, total, s)
      BY <1>2, Zenon DEF DevOk
    <3> QED
      BY <1>6, <3>1, Zenon DEF SectorOk
  <2> QED
    BY <1>2, <1>6, <2>1, Zenon DEF DevOk
<1>8. /\ label.p \in Headers /\ label.p.n \in Nat /\ label.p.ents = 2
      /\ label.p.alt \in Nat /\ label.b.n \in Nat /\ label.b.ents \in Nat
      /\ label.p.ents + label.p.n <= label.b.ents /\ label.b.ents + label.b.n = label.p.alt
  BY <1>2, <1>3, Layout, Zenon
<1>13. TableOf(label.p.crc) = label.ents
  BY <1>2, Layout, Zenon
<1>9. EntriesOf(label.p, d) = label.p.crc
  <2>1. ASSUME NEW s \in label.p.ents..(label.p.ents + label.p.n - 1)
        PROVE  d[s] = disk[s]
    <3>1. label.p.ents \in Nat /\ label.p.ents + label.p.n <= total
      BY <1>3, <1>5, <1>8
    <3>2. s \in Nat /\ s < total
      BY <1>5, <1>8, <3>1, InArray, Zenon
    <3>3. s \in Sectors /\ s # 0
      BY <1>5, <1>8, <3>2
    <3> QED
      BY <1>6, <3>3, Zenon
  <2> QED
    BY <1>3, <1>8, <2>1, SameArray, Zenon
<1>10. Matches(d, 1) /\ d[1].h = label.p
  <2>1. d[1] = Header(label.p)
    BY <1>3, <1>5, <1>6
  <2> QED
    BY <1>9, <2>1 DEF Matches, Header
<1>11. Found(d, total) = label.ents
  BY <1>6, <1>7, <1>10, <1>13, FoundIs, Zenon
<1>12. GhostOk'
  BY <1>1, <1>4, <1>6, <1>11, Zenon DEF GhostOk, Writing
<1> QED
  BY <1>1, <1>4, <1>7, <1>12, Zenon DEF Sound, Writing

-----------------------------------------------------------------------------
(* Interruptions, and devices that change their size *)

\* Between two writes, either copy is left.
LEMMA SurvivesNow ==
  ASSUME Sound, pc \in Writing
  PROVE  Survives(disk)
<1>1. DevOk(disk, total)
  BY Zenon DEF Sound
<1>2. CASE pc \in {"backup_entries", "backup_header"}
  <2>1. ASSUME risk = "none"
        PROVE  Found(disk, total) \in {committed, pending}
    <3>1. CASE disk[0] = Pmbr
      <4>1. Matches(disk, 1) /\ TableOf(disk[1].h.crc) = committed
        BY <1>2, <2>1, <3>1, Zenon DEF Sound, GhostOk, Writing
      <4> QED
        BY <1>1, <3>1, <4>1, FoundIs, Zenon
    <3>2. CASE disk[0] # Pmbr
      <4>1. committed = NoLabel
        BY <3>2, Zenon DEF Sound, GhostOk
      <4> QED
        BY <1>1, <3>2, <4>1, FoundIs, Zenon
    <3> QED
      BY <3>1, <3>2, Zenon
  <2>2. risk = "stale" => Matches(disk, total - 1)
    BY <1>2, Zenon DEF Sound, GhostOk
  <2> QED
    BY <2>1, <2>2, Zenon DEF Survives
<1>3. CASE pc \in {"primary_entries", "primary_header"}
  <2>1. label.p.alt < total /\ disk[label.p.alt] = Header(label.b)
    BY <1>3, Zenon DEF Sound, Writing, ProgressOk
  <2>2. EntriesOf(label.b, disk) = label.b.crc
    BY <1>3, <2>1, Zenon DEF Sound, Writing, ProgressOk
  <2> QED
    BY <1>1, <1>3, <2>1, <2>2, BackupThere, Zenon
<1>4. CASE pc = "pmbr"
  <2>1. disk[1] = Header(label.p) /\ EntriesOf(label.p, disk) = label.p.crc
    BY <1>4, Zenon DEF Sound, Writing, ProgressOk
  <2>2. TableOf(label.p.crc) = label.ents
    BY Layout, Zenon
  <2>3. pending = label.ents
    BY Zenon DEF Sound, GhostOk
  <2>4. Matches(disk, 1) /\ TableOf(disk[1].h.crc) = pending
    BY <2>1, <2>2, <2>3 DEF Matches, Header
  <2>5. disk[0] # Pmbr => committed = NoLabel
    BY Zenon DEF Sound, GhostOk
  <2> QED
    BY <1>1, <2>4, <2>5, FoundIs, Zenon DEF Survives
<1> QED
  BY <1>2, <1>3, <1>4, Zenon DEF Writing

\* The table that is being written is one.
LEMMA WasBegun ==
  ASSUME Sound, pc \in Writing
  PROVE  pending # NoLabel
<1>1. pending = label.ents
  BY Zenon DEF Sound, GhostOk
<1>2. label.ents \in Seq(Entries)
  BY Layout, Zenon
<1> QED
  BY <1>1, <1>2, NoLabelAssumption, Zenon

\* A write that ends early, with a device on which either copy is left.
Ends(d) == disk' = d /\ pc' = "closed" /\ UNCHANGED <<total, ghostVars>>

\* The next program finds what the interruption left.
LEMMA StopKeeps ==
  ASSUME Sound, pc \in Writing, NEW d, DevOk(d, total), Survives(d), d[0] = Pmbr <=> disk[0] = Pmbr,
         Ends(d)
  PROVE  Sound'
<1>1. /\ disk' = d /\ pc' = "closed" /\ total' = total
      /\ committed' = committed /\ pending' = pending /\ risk' = risk
  BY Zenon DEF Ends, ghostVars
<1>2. disk'[0] # Pmbr => committed' = NoLabel /\ risk' # "stale"
  BY <1>1, Zenon DEF Sound, GhostOk
<1>3. /\ risk' = "none" => Found(disk', total') \in {committed', pending'}
      /\ risk' = "stale" => Matches(disk', 1) \/ Matches(disk', total' - 1)
  BY <1>1, Zenon DEF Survives
<1>5. pending' # NoLabel
  BY <1>1, WasBegun, Zenon
<1>4. GhostOk'
  BY <1>1, <1>2, <1>3, <1>5, Zenon DEF GhostOk, Writing, Matches
<1> QED
  BY <1>1, <1>4, Zenon DEF Sound, Writing

\* An interruption, also within the write of an array.
LEMMA CrashKeeps ==
  ASSUME Sound, Crash
  PROVE  Sound'
<1>1. CASE pc = "backup_entries" /\ \E which \in SUBSET OnDevice(label.b) : Stopped(WriteEntries(label.b, which))
  <2>1. PICK which \in SUBSET OnDevice(label.b) : Stopped(WriteEntries(label.b, which))
    BY <1>1, Zenon
  <2>2. PICK d : d = WriteEntries(label.b, which)
    BY Zenon
  <2>5. which \in SUBSET (1..label.b.n)
    BY <2>1, Zenon DEF OnDevice
  <2>3. DevOk(d, total) /\ Survives(d) /\ (d[0] = Pmbr <=> disk[0] = Pmbr)
    BY <1>1, <2>2, <2>5, BackupArray, Zenon
  <2>4. pc \in Writing /\ Ends(d)
    BY <1>1, <2>1, <2>2, Zenon DEF Writing, Stopped, Ends
  <2> QED
    BY <2>3, <2>4, StopKeeps, Zenon
<1>2. CASE pc = "primary_entries" /\ \E which \in SUBSET (1..label.p.n) : Stopped(WriteEntries(label.p, which))
  <2>1. PICK which \in SUBSET (1..label.p.n) : Stopped(WriteEntries(label.p, which))
    BY <1>2, Zenon
  <2>2. PICK d : d = WriteEntries(label.p, which)
    BY Zenon
  <2>3. DevOk(d, total) /\ Survives(d) /\ d[0] = disk[0]
    BY <1>2, <2>2, PrimaryArray, Zenon
  <2>4. pc \in Writing /\ Ends(d)
    BY <1>2, <2>1, <2>2, Zenon DEF Writing, Stopped, Ends
  <2> QED
    BY <2>3, <2>4, StopKeeps, Zenon
<1>3. CASE pc \in {"backup_header", "primary_header", "pmbr"} /\ Stopped(disk)
  <2>1. pc \in Writing /\ DevOk(disk, total) /\ Ends(disk)
    BY <1>3, Zenon DEF Writing, Sound, Stopped, Ends
  <2> QED
    BY <1>3, <2>1, SurvivesNow, StopKeeps, Zenon
<1> QED
  BY <1>1, <1>2, <1>3, Zenon DEF Crash

\* A write behind the end of the device.
LEMMA FailKeeps ==
  ASSUME Sound, WriteFails
  PROVE  Sound'
<1>1. CASE pc = "backup_entries" /\ disk' = WriteEntries(label.b, OnDevice(label.b))
  <2>1. PICK which \in SUBSET (1..label.b.n) : which = OnDevice(label.b)
    BY Zenon DEF OnDevice
  <2>2. PICK d : d = WriteEntries(label.b, which)
    BY Zenon
  <2>3. DevOk(d, total) /\ Survives(d) /\ (d[0] = Pmbr <=> disk[0] = Pmbr)
    BY <1>1, <2>2, BackupArray, Zenon
  <2>4. pc \in Writing /\ Ends(d)
    BY <1>1, <2>1, <2>2, Zenon DEF Writing, WriteFails, Ends
  <2> QED
    BY <2>3, <2>4, StopKeeps, Zenon
<1>2. CASE pc = "backup_header" /\ disk' = disk
  <2>1. pc \in Writing /\ DevOk(disk, total) /\ Ends(disk)
    BY <1>2, Zenon DEF Writing, Sound, WriteFails, Ends
  <2> QED
    BY <2>1, SurvivesNow, StopKeeps, Zenon
<1> QED
  BY <1>1, <1>2, Zenon DEF WriteFails

\* A device that keeps the sectors of the partitions keeps the table.
LEMMA ResizeKeeps ==
  ASSUME Sound, NEW size \in Sizes, Resize(size), risk' # "label"
  PROVE  Sound'
<1>1. /\ pc = "closed" /\ pc' = pc /\ total' = size
      /\ gpt_read_header(1, disk, total) # NoLabel
      /\ disk' = [s \in Sectors |-> IF s < size THEN disk[s] ELSE Blank]
      /\ committed' = committed /\ pending' = pending
  BY Zenon DEF Resize
<1>2. risk' = risk /\ ~ (gpt_read_header(1, disk, total).alt > size)
  BY Zenon DEF Resize
<1>3. DevOk(disk, total)
  BY Zenon DEF Sound
<1>4. 1 \in 0..(total - 1)
  BY <1>3, Room DEF DevOk
<1>5. Matches(disk, 1) /\ gpt_read_header(1, disk, total) = disk[1].h
  BY <1>1, <1>3, <1>4, ReadHeader, Zenon
<1>6. PICK h : h = disk[1].h
  BY Zenon
<1>7. h \in Headers /\ PrimaryOk(h) /\ disk[1].kind = "header"
  BY <1>3, <1>4, <1>5, <1>6, ReadHeader, Zenon DEF Matches
<1>8. h.alt \in Nat /\ h.n \in Nat /\ h.ents = 2 /\ h.alt >= 2 * h.n + 3
  BY <1>7, HeaderNumbers, Zenon DEF PrimaryOk
<1>9. size \in Nat /\ 0 \in Sectors /\ 1 \in Sectors /\ size > 1 /\ \A s \in Nat : s < size => s \in Sectors
  <2>1. size \in Nat /\ size >= 4 /\ 0..(size - 1) \subseteq Sectors
    BY Room
  <2>2. \A s \in Nat : s < size => s \in Sectors
    BY <2>1
  <2> QED
    BY <2>1, <2>2
<1>10. h.alt <= size
  BY <1>2, <1>5, <1>6, <1>8, <1>9
<1>11. PICK d : d = disk'
  BY Zenon
<1>12. /\ d = [s \in Sectors |-> d[s]]
       /\ \A s \in Sectors : d[s] = IF s < size THEN disk[s] ELSE Blank
  BY <1>1, <1>11, Zenon
<1>13. DevOk(d, size)
  <2>1. ASSUME NEW s \in Sectors
        PROVE  SectorOk(d, size, s)
    <3>1. SectorOk(disk, total, s)
      BY <1>3, Zenon DEF DevOk
    <3>2. CASE d[s] = Blank
      <4>1. Blank \in EntrySectors
        BY Zenon DEF Blank, Entry, EntrySectors, Unused, Entries
      <4> QED
        BY <3>2, <4>1, Zenon DEF SectorOk
    <3>3. CASE d[s] = disk[s]
      BY <1>6, <1>10, <3>1, <3>3, Zenon DEF SectorOk
    <3> QED
      BY <1>12, <3>2, <3>3, Zenon
  <2> QED
    BY <1>12, <2>1, Zenon DEF DevOk
<1>14. d[0] = disk[0] /\ d[1] = disk[1]
  BY <1>9, <1>12
<1>15. EntriesOf(h, d) = EntriesOf(h, disk)
  <2>1. ASSUME NEW s \in h.ents..(h.ents + h.n - 1)
        PROVE  d[s] = disk[s]
    <3>1. h.ents \in Nat /\ h.ents + h.n <= size
      BY <1>8, <1>9, <1>10
    <3>2. s \in Nat /\ s < size
      BY <1>8, <1>9, <3>1, InArray, Zenon
    <3> QED
      BY <1>9, <1>12, <3>2, Zenon
  <2> QED
    BY <1>7, <2>1, SameArray, Zenon
<1>16. Matches(d, 1)
  BY <1>5, <1>6, <1>14, <1>15, Zenon DEF Matches
<1>17. Found(d, size) = Found(disk, total)
  <2>1. CASE disk[0] = Pmbr
    BY <1>3, <1>5, <1>13, <1>14, <1>16, <2>1, FoundIs, Zenon
  <2>2. CASE disk[0] # Pmbr
    BY <1>3, <1>13, <1>14, <2>2, FoundIs, Zenon
  <2> QED
    BY <2>1, <2>2, Zenon
<1>18. GhostOk'
  <2>1. GhostOk
    BY Zenon DEF Sound
  <2> QED
    BY <1>1, <1>2, <1>11, <1>14, <1>16, <1>17, <2>1, Zenon DEF GhostOk, Writing, Matches
<1>19. risk \in {"none", "write", "stale"}
  BY Zenon DEF Sound
<1> QED
  BY <1>1, <1>2, <1>11, <1>13, <1>18, <1>19, ZenonT(30) DEF Sound, Writing

-----------------------------------------------------------------------------
(* The theorems *)

\* A label at risk for good stays at risk.
LEMMA RiskStays ==
  ASSUME risk = "label", [Next]_vars
  PROVE  risk' = "label"
<1>1. CASE UNCHANGED vars
  BY <1>1, Zenon DEF vars, ghostVars
<1>2. CASE Open
  BY <1>2, Zenon DEF Open
<1>3. CASE EditLabel
  <2>1. ASSUME NEW lb, Edit(lb)
        PROVE  risk' = "label"
    BY <2>1, Zenon DEF Edit, ghostVars
  <2>2. ASSUME NEW length, gpt_create_disklabel(length)
        PROVE  risk' = "label"
    BY <2>1, <2>2, Zenon DEF gpt_create_disklabel
  <2>3. ASSUME NEW slot, NEW start, NEW size, gpt_add_partition(slot, start, size)
        PROVE  risk' = "label"
    BY <2>1, <2>3, Zenon DEF gpt_add_partition
  <2>4. ASSUME NEW slot, gpt_delete_partition(slot)
        PROVE  risk' = "label"
    BY <2>1, <2>4, Zenon DEF gpt_delete_partition
  <2>5. ASSUME NEW slot, NEW start, NEW size, gpt_set_partition(slot, start, size)
        PROVE  risk' = "label"
    BY <2>1, <2>5, Zenon DEF gpt_set_partition
  <2>6. ASSUME Reorder
        PROVE  risk' = "label"
    BY <2>1, <2>6, Zenon DEF Reorder
  <2>7. ASSUME NEW n, fdisk_gpt_set_npartitions(n)
        PROVE  risk' = "label"
    BY <2>1, <2>7, Zenon DEF fdisk_gpt_set_npartitions
  <2> QED
    BY <1>3, <2>2, <2>3, <2>4, <2>5, <2>6, <2>7, Zenon DEF EditLabel
<1>4. CASE Quit \/ WriteRefused
  BY <1>4, Zenon DEF Quit, WriteRefused, ghostVars
<1>5. CASE WriteBegins
  BY <1>5, Zenon DEF WriteBegins, Risk
<1>6. CASE BackupEntries \/ BackupHeader \/ PrimaryEntries \/ PrimaryHeader
  BY <1>6, Zenon DEF BackupEntries, BackupHeader, PrimaryEntries, PrimaryHeader, Step, ghostVars
<1>7. CASE WritePmbr
  BY <1>7, Zenon DEF WritePmbr
<1>8. CASE Crash
  BY <1>8, Zenon DEF Crash, Stopped, ghostVars
<1>9. CASE \E size \in Sizes : Resize(size)
  BY <1>9, Zenon DEF Resize
<1>10. CASE WriteFails
  BY <1>10, Zenon DEF WriteFails, ghostVars
<1> QED
  BY <1>1, <1>2, <1>3, <1>4, <1>5, <1>6, <1>7, <1>8, <1>9, <1>10, ZenonT(30) DEF Next, gpt_write_disklabel

\* A blank device.
LEMMA SoundStart ==
  ASSUME Init
  PROVE  Sound
<1>1. DevOk(disk, total)
  <2>1. Blank \in EntrySectors
    BY Zenon DEF Blank, Entry, EntrySectors, Unused, Entries
  <2>2. ASSUME NEW s \in Sectors
        PROVE  SectorOk(disk, total, s)
    <3>1. disk[s] = Blank
      BY Zenon DEF Init
    <3> QED
      BY <2>1, <3>1, Zenon DEF SectorOk
  <2> QED
    BY <2>2, Zenon DEF Init, DevOk
<1>2. disk[0] = Blank
  BY <1>1, SectorNumbers, Zenon DEF Init
<1>3. disk[0] # Pmbr
  BY <1>2 DEF Blank, Entry, Pmbr
<1>4. Found(disk, total) = NoLabel
  BY <1>1, <1>3, FoundIs, Zenon
<1> QED
  BY <1>1, <1>3, <1>4, Zenon DEF Init, Sound, GhostOk, Writing

-----------------------------------------------------------------------------
(* The begin of a write.  A minimized label ends behind the last partition.  That there   *)
(* is a last one is an induction, and so the module about it comes in here.            *)

W == INSTANCE WellFoundedInduction

\* A set of numbers with a bound has a greatest member.
LEMMA GreatestMember ==
  ASSUME NEW m \in Nat, NEW S, S \subseteq 0..m, S # {}
  PROVE  Max(S) \in S /\ \A y \in S : y <= Max(S)
<1> DEFINE R == W!OpToRel(<, Nat)
           T == {m - i : i \in S}
<1>1. W!IsWellFoundedOn(R, Nat)
  BY W!NatLessThanWellFounded, Zenon
<1>2. T \subseteq Nat /\ T # {}
  <2>1. PICK i \in S : TRUE
    BY Zenon
  <2>2. m - i \in T
    BY <2>1, Zenon
  <2>3. \A j \in S : m - j \in Nat
    OBVIOUS
  <2> QED
    BY <2>2, <2>3, Zenon
<1> HIDE DEF R, T
<1>3. PICK t \in T : \A y \in T : ~(<<y, t>> \in R)
  BY <1>1, <1>2, W!WFMin, ZenonT(30)
<1>4. \A y \in T : ~(y < t)
  BY <1>2, <1>3, Zenon DEF R, W!OpToRel
<1>5. PICK x \in S : t = m - x
  BY Zenon DEF T
<1>6. \A y \in S : m - y \in T
  BY Zenon DEF T
<1>7. \A y \in S : x >= y
  BY <1>4, <1>5, <1>6
<1>8. Max(S) \in S /\ \A y \in S : Max(S) >= y
  BY <1>5, <1>7, ZenonT(30) DEF Max
<1> QED
  BY <1>8, Zenon

\* gpt_minimize_alternative_lba() puts the backup behind the last partition.
LEMMA Minimized ==
  ASSUME NEW lb, LabelOk(lb), lb.b.n = lb.p.n, UsedIn(lb.ents) # {}
  PROVE  \E x : /\ x = gpt_minimize_alternative_lba(lb)
                /\ TogetherOk(x) /\ x.ents = lb.ents /\ x.minimize = lb.minimize
                /\ x.p.lu = x.p.alt - 1 - x.p.n /\ x.b.ents = x.p.alt - x.p.n /\ x.b.ents > x.p.fu
                /\ x.p.lu < x.p.alt /\ x.p.lu < x.b.ents
<1> DEFINE S == {lb.ents[i].end : i \in DOMAIN lb.ents} \union {0}
           m == Max(S)
           n == lb.p.n
           ms == gpt_calculate_minimal_size(lb.ents, n)
<1>1. /\ lb \in Labels /\ lb.p.my = 1 /\ lb.p.ents = 2 /\ n \in Slots /\ lb.p.fu = n + 2
      /\ lb.b.fu = lb.b.n + 2 /\ Len(lb.ents) = n /\ InRange(lb.ents, lb.p.fu, lb.p.lu)
  BY Zenon DEF LabelOk
<1>2. /\ lb.p \in Headers /\ lb.b \in Headers /\ lb.ents \in Seq(Entries) /\ lb.minimize \in BOOLEAN
      /\ lb = AsLabel(lb.p, lb.b, lb.ents, lb.minimize)
  BY <1>1, LabelParts, Zenon
<1>3. n \in Nat /\ lb.p.fu \in Nat /\ lb.p.lu \in Nat
  BY <1>2, HeaderFields, Zenon
<1>4. \A i \in DOMAIN lb.ents : lb.ents[i] \in Entries
  BY <1>2
<1>5. \A i \in DOMAIN lb.ents : lb.ents[i].end \in Nat /\ lb.ents[i].end <= lb.p.lu
  <2>1. Unused.end = 0
    BY Zenon DEF Unused
  <2> QED
    BY <1>1, <1>3, <1>4, <2>1, EntryFields, SMTT(30) DEF InRange
<1>6. m \in S /\ \A y \in S : y <= m
  <2>1. S \subseteq 0..lb.p.lu /\ S # {}
    BY <1>3, <1>5
  <2> HIDE DEF S
  <2> QED
    BY <1>3, <2>1, GreatestMember, ZenonT(30)
<1>7. m \in Nat /\ \A i \in DOMAIN lb.ents : lb.ents[i].end <= m
  BY <1>5, <1>6
<1>8. ms = m + n + 3
  BY Zenon DEF gpt_calculate_minimal_size
<1> HIDE DEF m, ms, S
<1>9. ms \in Nat /\ ms - 2 - n = m + 1 /\ ms - 2 - n \in Nat /\ ms - 1 - n \in Nat /\ ms - 1 \in Nat
  BY <1>3, <1>7, <1>8
<1>10. lb.p.fu <= m + 1
  <2>1. PICK i \in DOMAIN lb.ents : lb.ents[i] # Unused
    BY Zenon DEF UsedIn, gpt_entry_is_used
  <2>2. lb.p.fu <= lb.ents[i].start /\ lb.ents[i].start <= lb.ents[i].end
    BY <1>1, <2>1, Zenon DEF InRange
  <2>3. lb.ents[i].start \in Nat /\ lb.ents[i].end \in Nat
    BY <1>4, EntryFields, Zenon
  <2> QED
    BY <1>3, <1>7, <2>2, <2>3
<1>11. PICK p \in Headers, b \in Headers, t \in Seq(Entries), min \in BOOLEAN :
          p = lb.p /\ b = lb.b /\ t = lb.ents /\ min = lb.minimize
  BY <1>2, Zenon
<1>12. PICK q \in Headers, c \in Headers :
            /\ gpt_fix_alternative_lba(AsLabel(p, b, t, min), ms) = AsLabel(q, c, t, min)
            /\ q.my = p.my /\ q.alt = ms - 1 /\ q.ents = p.ents /\ q.n = p.n /\ q.fu = p.fu
            /\ q.lu = ms - 2 - p.n
            /\ c.my = ms - 1 /\ c.alt = p.my /\ c.ents = ms - 1 - p.n /\ c.n = b.n
            /\ c.fu = b.fu /\ c.lu = ms - 2 - p.n
  <2>1. ms - 2 - p.n \in Nat /\ ms - 1 - p.n \in Nat
    BY <1>9, <1>11, Zenon
  <2> QED
    BY <1>9, <2>1, FixFields, SMTT(30)
<1>13. PICK x : x = AsLabel(q, c, t, min)
  BY Zenon
<1>14. x \in Labels /\ x.p = q /\ x.b = c /\ x.ents = t /\ x.minimize = min
  BY <1>13, LabelFields
<1>15. x = gpt_minimize_alternative_lba(lb)
  BY <1>2, <1>11, <1>12, <1>13, Zenon DEF gpt_minimize_alternative_lba, ms
<1>16. InRange(x.ents, x.p.fu, x.p.lu)
  <2>1. x.p.fu = lb.p.fu /\ x.p.lu = m + 1 /\ x.ents = lb.ents
    BY <1>9, <1>11, <1>12, <1>14, ZenonT(30)
  <2> QED
    BY <1>1, <1>5, <1>7, <2>1 DEF InRange
<1>17. /\ x.p.fu <= x.p.lu /\ x.p.lu = x.p.alt - 1 - x.p.n /\ x.b.ents = x.p.alt - x.p.n
       /\ x.b.ents > x.p.fu /\ x.p.lu < x.p.alt /\ x.p.lu < x.b.ents
  BY <1>3, <1>9, <1>10, <1>11, <1>12, <1>14, SMTT(30)
<1>18. TogetherOk(x)
  BY <1>1, <1>11, <1>12, <1>14, <1>16, <1>17, ZenonT(30) DEF TogetherOk, LabelOk
<1> QED
  BY <1>11, <1>14, <1>15, <1>17, <1>18, ZenonT(30)

\* What gpt_write_disklabel() is about to write.
LEMMA Begun ==
  ASSUME Sound, WriteBegins, risk' # "label"
  PROVE  /\ LabelOk(label') /\ WriteOk(label', total)
         /\ label'.ents = label.ents /\ label'.minimize = label.minimize
         /\ ~label.minimize => label'.p.alt = label.p.alt
<1>1. pc = "edit" /\ WriteAllowed /\ risk' = Risk(label)
  BY Zenon DEF WriteBegins
<1>2. PICK junk : LET lb == IF label.minimize THEN gpt_minimize_alternative_lba(label) ELSE label
                  IN  label' = [lb EXCEPT !.p = Crc(lb.p, lb.ents, junk), !.b = Crc(lb.b, lb.ents, junk)]
  BY Zenon DEF WriteBegins
<1>3. label.p.n = label.b.n /\ (label.minimize => UsedIn(label.ents) # {})
  BY <1>1, Zenon DEF Risk
<1>4. total \in Nat
  BY Room, Zenon DEF Sound, DevOk
<1>5. PICK lb : /\ lb = IF label.minimize THEN gpt_minimize_alternative_lba(label) ELSE label
                /\ TogetherOk(lb) /\ lb.ents = label.ents /\ lb.minimize = label.minimize
                /\ lb.p.alt < total => lb.p.lu = lb.p.alt - 1 - lb.p.n /\ lb.b.ents = lb.p.alt - lb.p.n
                /\ lb.b.ents > lb.p.fu /\ lb.p.lu < lb.p.alt
                /\ lb.p.lu < lb.b.ents \/ (lb.p.alt = total /\ lb.p.lu = lb.b.ents)
                /\ ~lb.minimize => /\ lb.p.alt \in {total - 1, total}
                                   /\ lb.b.ents = total - 1 - lb.p.n
                                   /\ lb.p.alt = label.p.alt
  <2>1. CASE label.minimize
    BY <1>1, <1>3, <2>1, Edited, Minimized, ZenonT(60)
  <2>2. CASE ~label.minimize
    <3>1. /\ label.p.alt \in {total - 1, total}
          /\ label.p.lu = total - 2 - label.p.n \/ label.p.lu = label.p.alt - 1 - label.p.n
          /\ label.b.my = label.p.alt /\ label.b.alt = 1
          /\ label.b.ents = total - 1 - label.p.n /\ label.b.lu = label.p.lu
      BY <1>1, <1>3, <2>2, Edited, ZenonT(30) DEF EditOk
    <3>2. TogetherOk(label)
      BY <1>1, <1>3, <3>1, Edited, ZenonT(30) DEF TogetherOk
    <3>3. label.p.alt < total =>
             label.p.lu = label.p.alt - 1 - label.p.n /\ label.b.ents = label.p.alt - label.p.n
      BY <1>1, <1>4, <3>1, Edited, SMTT(30)
    <3>4. label.b.ents > label.p.fu
      <4>1. total >= 2 * GPT_NPARTITIONS + 4 /\ GPT_NPARTITIONS \in Nat
        BY Room, Zenon DEF Sound, DevOk
      <4>2. label.p.n \in 1..GPT_NPARTITIONS /\ label.p.fu = label.p.n + 2
        BY <1>1, Edited, ZenonT(30) DEF LabelOk, Slots
      <4> QED
        BY <1>4, <3>1, <4>1, <4>2
    <3>5. /\ label.p.lu < label.p.alt
          /\ label.p.lu < label.b.ents \/ (label.p.alt = total /\ label.p.lu = label.b.ents)
      <4>1. label.p.n \in Nat /\ label.p.lu \in Nat
        BY <1>1, Edited, ZenonT(30)
      <4> QED
        BY <1>4, <3>1, <4>1
    <3> QED
      BY <2>2, <3>1, <3>2, <3>3, <3>4, <3>5, ZenonT(30)
  <2> QED
    BY <2>1, <2>2, Zenon
<1>6. label' = Stamp(lb, junk)
  BY <1>2, <1>5, Zenon DEF Stamp
<1>7. /\ lb \in Labels /\ Len(lb.ents) = lb.p.n /\ lb.b.n = lb.p.n
      /\ lb.p.my = 1 /\ lb.p.ents = 2 /\ lb.p.n \in Slots /\ lb.p.fu = lb.p.n + 2 /\ lb.p.fu <= lb.p.lu
      /\ lb.b.fu = lb.b.n + 2 /\ lb.b.my = lb.p.alt /\ lb.b.alt = 1 /\ lb.b.lu = lb.p.lu
      /\ InRange(lb.ents, lb.p.fu, lb.p.lu)
  BY <1>5, Zenon DEF TogetherOk, LabelOk
<1>8. PICK x : x = label'
  BY Zenon
<1>9. /\ x \in Labels /\ x.ents = lb.ents /\ x.minimize = lb.minimize
      /\ x.p.crc = [i \in 1..x.p.n |-> Entry(x.ents[i])] /\ x.b.crc = x.p.crc
      /\ x.p.my = lb.p.my /\ x.p.alt = lb.p.alt /\ x.p.ents = lb.p.ents /\ x.p.n = lb.p.n
      /\ x.p.fu = lb.p.fu /\ x.p.lu = lb.p.lu
      /\ x.b.my = lb.b.my /\ x.b.alt = lb.b.alt /\ x.b.ents = lb.b.ents /\ x.b.n = lb.b.n
      /\ x.b.fu = lb.b.fu /\ x.b.lu = lb.b.lu
  BY <1>6, <1>7, <1>8, Stamped
<1>10. Apart(lb.ents)
  <2>1. ~ check_overlap_partitions(lb.ents)
    BY <1>1, <1>5, Zenon DEF WriteAllowed
  <2>2. lb.ents \in Seq(Entries) /\ lb.p \in Headers
    BY <1>7, LabelParts, Zenon
  <2>3. lb.p.fu \in Nat /\ lb.p.lu \in Nat /\ lb.p.n \in Nat
    BY <2>2, HeaderFields, Zenon
  <2>4. lb.p.fu > 0
    BY <1>7, <2>3
  <2> QED
    BY <1>7, <2>1, <2>2, <2>3, <2>4, Checked, Zenon
<1>11. LabelOk(x)
  BY <1>7, <1>9, Zenon DEF LabelOk
<1>12. WriteOk(x, total)
  BY <1>5, <1>7, <1>9, <1>10, ZenonT(30) DEF WriteOk
<1>13. /\ x.ents = label.ents /\ x.minimize = label.minimize
       /\ ~label.minimize => x.p.alt = label.p.alt
  BY <1>5, <1>9, Zenon
<1> QED
  BY <1>8, <1>11, <1>12, <1>13, ZenonT(30)

\* gpt_write_disklabel() passes its tests and computes the checksums.
LEMMA BeginKeeps ==
  ASSUME Sound, WriteBegins, risk' # "label"
  PROVE  Sound'
<1>1. /\ pc = "edit" /\ pc' = "backup_entries" /\ pending' = label.ents /\ risk' = Risk(label)
      /\ total' = total /\ disk' = disk /\ committed' = committed
  BY Zenon DEF WriteBegins
<1>2. /\ LabelOk(label') /\ WriteOk(label', total)
      /\ label'.ents = label.ents /\ label'.minimize = label.minimize
      /\ ~label.minimize => label'.p.alt = label.p.alt
  BY Begun, Zenon
<1>3. DevOk(disk, total)
  BY Zenon DEF Sound
<1>4. total \in Nat /\ 1 \in 0..(total - 1) /\ (total - 1) \in 0..(total - 1) /\ total - 1 # 1
  BY <1>3, Room DEF DevOk
<1>5. /\ risk = "none" /\ Found(disk, total) = committed
      /\ Matches(disk, 1) \/ label.p.alt = total - 1
      /\ disk[0] # Pmbr => committed = NoLabel
  BY <1>1, Zenon DEF Sound, GhostOk
<1>6. Matches(disk, 1) <=> gpt_read_header(1, disk, total) # NoLabel
  BY <1>3, <1>4, ReadHeader DEF Matches
<1>7. /\ risk' \in {"none", "write", "stale"}
      /\ risk' # "write" => ~label.minimize
      /\ risk' = "none" /\ disk[0] = Pmbr => Matches(disk, 1)
      /\ risk' = "stale" => disk[0] = Pmbr /\ ~ Matches(disk, 1) /\ label.ents = committed
  BY <1>1, <1>5, <1>6, Zenon DEF Risk
<1>8. risk' = "none" /\ disk[0] = Pmbr =>
         Matches(disk, 1) /\ disk[1].kind = "header" /\ TableOf(disk[1].h.crc) = committed
  BY <1>3, <1>5, <1>7, FoundIs, Zenon DEF Matches
<1>9. ASSUME risk' = "stale"
      PROVE  /\ Matches(disk, total - 1) /\ label'.p.alt = total - 1
             /\ disk[total - 1].h.n = label'.b.n /\ disk[total - 1].h.crc = label'.b.crc
  <2>1. label.ents \in Seq(Entries) /\ label.ents # NoLabel
    BY <1>1, Edited, NoLabelAssumption, ZenonT(30)
  <2>2. Matches(disk, total - 1) /\ committed = TableOf(disk[total - 1].h.crc)
    BY <1>3, <1>5, <1>7, <1>9, <2>1, FoundIs, ZenonT(30)
  <2>3. PICK h : h = disk[total - 1].h
    BY Zenon
  <2>4. BackupOk(h, total - 1)
    BY <1>3, <1>4, <2>2, <2>3, ReadHeader, ZenonT(30) DEF Matches
  <2>5. HeaderOk(h, total - 1)
    BY <2>4, Zenon DEF BackupOk
  <2>6. h.crc = [i \in 1..h.n |-> Entry(label.ents[i])] /\ Len(label.ents) = h.n
    <3>1. label.ents = TableOf(h.crc)
      BY <1>7, <1>9, <2>2, <2>3, ZenonT(30)
    <3>2. h.crc = [i \in 1..h.n |-> Entry(TableOf(h.crc)[i])] /\ Len(TableOf(h.crc)) = h.n
      BY <2>5, CrcOfTable, HeaderNumbers, ZenonT(30)
    <3> QED
      BY <3>1, <3>2, ZenonT(30)
  <2>7. /\ label'.p.crc = [i \in 1..label'.p.n |-> Entry(label'.ents[i])]
        /\ label'.b.crc = label'.p.crc /\ label'.b.n = label'.p.n
        /\ Len(label'.ents) = label'.p.n
    BY <1>2, Zenon DEF WriteOk, LabelOk
  <2>8. label'.b.n = h.n /\ label'.b.crc = h.crc
    BY <1>2, <2>6, <2>7
  <2> QED
    BY <1>2, <1>5, <1>7, <1>9, <2>2, <2>3, <2>8, Zenon
<1>10. GhostOk'
  BY <1>1, <1>2, <1>5, <1>7, <1>8, <1>9, Zenon DEF GhostOk, Writing, Matches
<1>11. ProgressOk'
  BY <1>1, Zenon DEF ProgressOk
<1> QED
  BY <1>1, <1>2, <1>3, <1>7, <1>10, <1>11, ZenonT(30) DEF Sound, Writing

\* All edits.
LEMMA EditLabelKeeps ==
  ASSUME Sound, EditLabel
  PROVE  Sound'
<1>1. CASE \E length \in Slots : gpt_create_disklabel(length)
  BY <1>1, CreateKeeps, Zenon
<1>2. CASE pc = "edit" /\ \E slot \in Slots, start \in {0} \union (label.p.fu..label.p.lu), size \in 0..2 :
                             gpt_add_partition(slot, start, size)
  BY <1>2, AddKeeps, Zenon
<1>3. CASE pc = "edit" /\ \E slot \in Slots : gpt_delete_partition(slot)
  BY <1>3, DeleteKeeps, Zenon
<1>4. CASE pc = "edit" /\ \E slot \in Slots, start \in {0} \union (label.p.fu..label.p.lu), size \in 0..2 :
                             gpt_set_partition(slot, start, size)
  BY <1>4, SetKeeps, Zenon
<1>5. CASE pc = "edit" /\ Reorder
  BY <1>5, ReorderKeeps, Zenon
<1>6. CASE pc = "edit" /\ \E n \in Slots : fdisk_gpt_set_npartitions(n)
  BY <1>6, LengthKeeps, Zenon
<1> QED
  BY <1>1, <1>2, <1>3, <1>4, <1>5, <1>6, Zenon DEF EditLabel

\* All steps that do not put the label at risk for good.
LEMMA SoundStep ==
  ASSUME Sound, [Next]_vars, risk' # "label"
  PROVE  Sound'
<1>1. CASE UNCHANGED vars
  <2>1. /\ pc' = pc /\ total' = total /\ disk' = disk /\ label' = label
        /\ committed' = committed /\ pending' = pending /\ risk' = risk
    BY <1>1, ZenonT(30) DEF vars, ghostVars
  <2>2. GhostOk'
    BY <2>1, ZenonT(30) DEF Sound, GhostOk, Matches
  <2>3. pc \in Writing => ProgressOk'
    BY <2>1, ZenonT(30) DEF Sound, ProgressOk
  <2> QED
    BY <2>1, <2>2, <2>3, ZenonT(30) DEF Sound
<1>2. CASE Open
  BY <1>2, OpenKeeps, Zenon
<1>3. CASE EditLabel
  BY <1>3, EditLabelKeeps, ZenonT(30)
<1>4. CASE Quit \/ WriteRefused
  BY <1>4, LeaveKeeps, Zenon
<1>5. CASE WriteBegins
  BY <1>5, BeginKeeps, ZenonT(30)
<1>6. CASE BackupEntries
  BY <1>6, BackupEntriesKeeps, Zenon
<1>7. CASE BackupHeader
  BY <1>7, BackupHeaderKeeps, Zenon
<1>8. CASE PrimaryEntries
  BY <1>8, PrimaryEntriesKeeps, Zenon
<1>9. CASE PrimaryHeader
  BY <1>9, PrimaryHeaderKeeps, Zenon
<1>10. CASE WritePmbr
  BY <1>10, PmbrKeeps, Zenon
<1>11. CASE Crash
  BY <1>11, CrashKeeps, Zenon
<1>12. CASE \E size \in Sizes : Resize(size)
  BY <1>12, ResizeKeeps, ZenonT(30)
<1>13. CASE WriteFails
  BY <1>13, FailKeeps, ZenonT(30)
<1> QED
  BY <1>1, <1>2, <1>3, <1>4, <1>5, <1>6, <1>7, <1>8, <1>9, <1>10, <1>11, <1>12, <1>13, ZenonT(30)
     DEF Next, gpt_write_disklabel

\* For devices of any sizes that have room for two copies of the longest table, whatever programs do, whenever
\* they are interrupted and however the device changes, its sectors, the label in memory
\* and the progress of gpt_write_disklabel() fit together, unless the label is at risk
\* for good.
THEOREM LabelSound == Spec => []IInv
<1>1. Init => IInv
  BY SoundStart, Zenon DEF IInv
<1>2. IInv /\ [Next]_vars => IInv'
  BY RiskStays, SoundStep, Zenon DEF IInv
<1> QED
  BY <1>1, <1>2, PTL DEF Spec

\* A program that starts after an interruption at any point of gpt_write_disklabel()
\* finds the table of the last complete write or the one that was being written.
THEOREM CrashAtomicAlways == Spec => []CrashAtomic
<1>1. IInv => CrashAtomic
  <2>1. SUFFICES ASSUME IInv PROVE CrashAtomic
    BY Zenon
  <2>2. CASE risk = "label"
    BY <2>2, Zenon DEF CrashAtomic
  <2>3. CASE risk # "label"
    <3>1. Sound
      BY <2>1, <2>3, Zenon DEF IInv
    <3>2. Survives(disk)
      <4>1. CASE pc \in Writing
        BY <3>1, <4>1, SurvivesNow, ZenonT(30)
      <4>2. CASE pc \in {"closed", "edit"}
        BY <3>1, <4>2, ZenonT(30) DEF Sound, GhostOk, Survives
      <4> QED
        BY <3>1, <4>1, <4>2, ZenonT(30) DEF Sound
    <3>3. risk = "stale" => disk[0] = Pmbr
      BY <3>1, Zenon DEF Sound, GhostOk
    <3>4. DevOk(disk, total)
      BY <3>1, ZenonT(30) DEF Sound
    <3>5. risk = "none" /\ pending = NoLabel => Found(disk, total) = committed
      <4>1. CASE pc \in Writing
        BY <3>1, <4>1, WasBegun, Zenon
      <4>2. CASE pc \in {"closed", "edit"}
        BY <3>1, <4>2, ZenonT(30) DEF Sound, GhostOk
      <4> QED
        BY <3>1, <4>1, <4>2, ZenonT(30) DEF Sound
    <3> QED
      BY <3>2, <3>3, <3>4, <3>5, FoundIs, ZenonT(30) DEF Survives, CrashAtomic
  <2> QED
    BY <2>2, <2>3, Zenon
<1> QED
  BY <1>1, LabelSound, PTL

\* When gpt_write_disklabel() has written both headers, gpt_read_header() accepts both,
\* they are for the same table, and the backup is where it should be.
THEOREM BothCopiesAlways == Spec => []BothCopies
<1>1. IInv => BothCopies
  <2>1. SUFFICES ASSUME IInv, pc = "pmbr", risk # "label" PROVE BothCopies
    BY Zenon DEF BothCopies
  <2>2. Sound /\ pc \in Writing /\ DevOk(disk, total)
    BY <2>1, Zenon DEF IInv, Writing, Sound
  <2>3. /\ disk[1] = Header(label.p) /\ EntriesOf(label.p, disk) = label.p.crc
        /\ label.p.alt < total /\ disk[label.p.alt] = Header(label.b)
    BY <2>1, <2>2, ZenonT(30) DEF Sound, ProgressOk
  <2>4. EntriesOf(label.b, disk) = label.b.crc
    BY <2>1, <2>2, <2>3, ZenonT(30) DEF Sound, ProgressOk
  <2>5. /\ label.p \in Headers /\ label.b \in Headers /\ label.p.alt \in Nat
        /\ label.b.my = label.p.alt /\ label.b.alt = 1 /\ label.b.crc = label.p.crc
        /\ ~label.minimize => label.p.alt \in {total - 1, total}
    BY <2>2, Layout, Zenon
  <2>6. total \in Nat /\ 1 \in 0..(total - 1) /\ label.p.alt \in 0..(total - 1)
    <3>1. total \in Nat /\ total >= 4
      BY <2>2, Room DEF DevOk
    <3> QED
      BY <2>3, <2>5, <3>1
  <2>7. Matches(disk, 1) /\ disk[1].h = label.p
    BY <2>3 DEF Matches, Header
  <2>8. Matches(disk, label.p.alt) /\ disk[label.p.alt].h = label.b
    BY <2>3, <2>4 DEF Matches, Header
  <2>9. /\ gpt_read_header(1, disk, total) = label.p
        /\ gpt_read_header(label.p.alt, disk, total) = label.b
    BY <2>2, <2>6, <2>7, <2>8, ReadHeader, ZenonT(30)
  <2>10. label.p # NoLabel /\ label.b # NoLabel
    BY <2>5, HeaderFields, ZenonT(30)
  <2>11. label.minimize \/ label.b.my = total - 1
    BY <2>3, <2>5, <2>6
  <2> QED
    BY <2>5, <2>9, <2>10, <2>11, ZenonT(30) DEF BothCopies
<1> QED
  BY <1>1, LabelSound, PTL

\* Every table that gpt_probe_label() accepts has partitions with no sector in common
\* and within the usable sectors.
THEOREM TableDisjointAlways == Spec => []TableDisjoint
<1>1. IInv => TableDisjoint
  <2>1. SUFFICES ASSUME IInv, risk # "label" PROVE TableDisjoint
    BY ZenonT(30) DEF TableDisjoint
  <2> QED
    BY <2>1, DisjointHere, ZenonT(30) DEF IInv, Sound
<1> QED
  BY <1>1, LabelSound, PTL

\* gpt_write_disklabel() writes the label to sectors that no partition has, but for the
\* last usable sector of a device that has lost one sector.
THEOREM LabelSparesPartitionsAlways == Spec => []LabelSparesPartitions
<1>1. IInv => LabelSparesPartitions
  <2>1. SUFFICES ASSUME IInv, pc = "backup_entries", risk # "label",
                        NEW s \in LabelArea, ~(label.p.alt = total /\ s = label.p.lu),
                        NEW i \in UsedIn(label.ents)
                 PROVE  s < label.ents[i].start \/ label.ents[i].end < s
    BY Zenon DEF LabelSparesPartitions, Free
  <2>2. Sound /\ pc \in Writing
    BY <2>1, Zenon DEF IInv, Writing
  <2>3. /\ label.p.n \in Nat /\ label.p.ents = 2 /\ label.p.alt \in Nat /\ label.b.n = label.p.n
        /\ label.b.ents \in Nat /\ label.ents \in Seq(Entries) /\ label.p \in Headers
    BY <2>1, <2>2, Layout, ZenonT(30)
  <2>4. label.p.fu = label.p.n + 2 /\ InRange(label.ents, label.p.fu, label.p.lu)
    BY <2>2, ZenonT(30) DEF Sound, LabelOk, Writing
  <2>5. /\ label.p.lu < label.p.alt
        /\ label.p.lu < label.b.ents \/ (label.p.alt = total /\ label.p.lu = label.b.ents)
    BY <2>1, <2>2, ZenonT(30) DEF Sound, WriteOk
  <2>6. i \in DOMAIN label.ents /\ label.ents[i] # Unused /\ label.ents[i] \in Entries
    BY <2>3 DEF UsedIn, gpt_entry_is_used
  <2>7. label.p.fu <= label.ents[i].start /\ label.ents[i].end <= label.p.lu
    BY <2>4, <2>6, Zenon DEF InRange
  <2>8. label.ents[i].start \in Nat /\ label.ents[i].end \in Nat /\ label.p.lu \in Nat
    BY <2>3, <2>6, EntryFields, HeaderFields, Zenon
  <2>9. \/ s \in {0, 1} \/ s = label.p.alt
        \/ s \in 2..(2 + label.p.n - 1)
        \/ s \in label.b.ents..(label.b.ents + label.p.n - 1)
    BY <2>3, Zenon DEF LabelArea
  <2>10. CASE s \in {0, 1}
    BY <2>3, <2>4, <2>7, <2>8, <2>10, SMTT(30)
  <2>11. CASE s = label.p.alt
    BY <2>3, <2>5, <2>7, <2>8, <2>11, SMTT(30)
  <2>12. CASE s \in 2..(2 + label.p.n - 1)
    BY <2>3, <2>4, <2>7, <2>8, <2>12, SMTT(30)
  <2>13. CASE s \in label.b.ents..(label.b.ents + label.p.n - 1)
    <3>1. s \in Int /\ label.b.ents <= s
      BY <2>3, <2>13
    <3>2. label.p.lu < s
      <4>1. CASE label.p.lu < label.b.ents
        BY <2>3, <2>8, <3>1, <4>1
      <4>2. CASE label.p.alt = total /\ label.p.lu = label.b.ents
        <5>1. s # label.p.lu
          BY <2>1, <4>2, Zenon
        <5> QED
          BY <2>3, <2>8, <3>1, <4>2, <5>1
      <4> QED
        BY <2>5, <4>1, <4>2, Zenon
    <3> QED
      BY <2>7, <2>8, <3>1, <3>2
  <2> QED
    BY <2>9, <2>10, <2>11, <2>12, <2>13, ZenonT(30)
<1> QED
  BY <1>1, LabelSound, PTL
=============================================================================
