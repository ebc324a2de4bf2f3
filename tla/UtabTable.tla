----------------------------- MODULE UtabTable -----------------------------
(***************************************************************************)
(* What libmount promises of /run/mount/utab: the file is a list of entries  *)
(* and every mount, remount, move and umount applies its own change to the   *)
(* present list, at once and at most once.  The changes are those of         *)
(* libmount/src/tab_update.c.                                                *)
(*                                                                         *)
(* A path is the sequence of its components, an entry's options are a set.   *)
(***************************************************************************)
EXTENDS Naturals, Sequences

CONSTANTS
    Proc,       \* the processes that call mnt_context_mount() or _umount()
    Jobs,       \* the assignments of an operation to every process
    Tables      \* the contents of utab before the first of them starts

VARIABLES
    op,         \* the operation of each process: [kind, src, tgt, opts]
    table,      \* the entries of utab: [src, tgt, opts]
    written     \* the processes whose change has been written

LastOf(I) == IF I = {} THEN 0 ELSE CHOOSE i \in I : \A j \in I : j <= i

\* mnt_table_find_target() from the end: the index of the last entry, or 0.
find_target(tb, path) == LastOf({i \in 1..Len(tb) : tb[i].tgt = path})

find_pair(tb, src, path) ==
    LastOf({i \in 1..Len(tb) : tb[i].src = src /\ tb[i].tgt = path})

NewEntry(o) == [src |-> o.src, tgt |-> o.tgt, opts |-> o.opts]

update_add_entry(o, tb) == Append(tb, NewEntry(o))

RemoveEntry(tb, i) == SubSeq(tb, 1, i - 1) \o SubSeq(tb, i + 1, Len(tb))

update_remove_entry(o, tb) ==
    IF find_target(tb, o.tgt) = 0 THEN tb ELSE RemoveEntry(tb, find_target(tb, o.tgt))

\* The path is the directory or lies in it.
Below(path, dir) == Len(dir) <= Len(path) /\ SubSeq(path, 1, Len(dir)) = dir

\* A move renames the mount point and all paths below it.
update_modify_target(o, tb) ==
    [i \in DOMAIN tb |->
        IF Below(tb[i].tgt, o.src)
        THEN [tb[i] EXCEPT !.tgt = o.tgt \o SubSeq(@, Len(o.src) + 1, Len(@))]
        ELSE tb[i]]

update_modify_options(o, tb) ==
    IF find_target(tb, o.tgt) = 0
    THEN update_add_entry(o, tb)
    ELSE [tb EXCEPT ![find_target(tb, o.tgt)].opts = o.opts]

update_add_options(o, tb) ==
    IF find_target(tb, o.tgt) = 0
    THEN update_add_entry(o, tb)
    ELSE [tb EXCEPT ![find_target(tb, o.tgt)].opts = @ \cup o.opts]

\* mnt_update_table() calls update_table() except when there is no entry to
\* remove or no option to add.
Writes(o, missing, tb) ==
    CASE o.kind = "umount" -> find_target(tb, o.tgt) # 0
      [] o.kind = "mount" /\ missing ->
            find_target(tb, o.tgt) # 0 => ~ (o.opts \subseteq tb[find_target(tb, o.tgt)].opts)
      [] OTHER -> TRUE

mnt_update_table(o, missing, tb) ==
    CASE o.kind = "umount" -> update_remove_entry(o, tb)
      [] o.kind = "move" -> update_modify_target(o, tb)
      [] o.kind = "remount" -> update_modify_options(o, tb)
      [] o.kind = "mount" /\ missing -> update_add_options(o, tb)
      [] o.kind = "mount" /\ ~ missing -> update_add_entry(o, tb)

-----------------------------------------------------------------------------

Init ==
    /\ op \in Jobs
    /\ table \in Tables
    /\ written = {}

Update(p) ==
    /\ p \notin written /\ op[p].kind # "kmount"
    /\ \E missing \in BOOLEAN : table' = mnt_update_table(op[p], missing, table)
    /\ written' = written \cup {p}
    /\ UNCHANGED op

Next == \E p \in Proc : Update(p)

vars == <<op, table, written>>

Spec == Init /\ [][Next]_vars
=============================================================================
