----------------------------- MODULE MCFsckLock -----------------------------
(***************************************************************************)
(* Four fsck -l processes: three on one rotational disk, of which one cannot *)
(* make its lock file and one is verbose, and one on a disk that does not    *)
(* rotate.                                                                  *)
(***************************************************************************)
EXTENDS FsckLock

CONSTANTS p1, p2, p3, p4, hdd, ssd

MCDiskOf == [p \in {p1, p2, p3, p4} |-> IF p = p4 THEN ssd ELSE hdd]
=============================================================================
