# TLA+ models of util-linux

util-linux is some two hundred programs over seven libraries. Most of them run
once, read something and print it. This development is about the parts where
several processes meet: on a disk, on a state file in `/run` or `/var/lib`, on a
socket, or as parent and child; and about one on-disk structure, the GPT, that
must survive an interrupted write. It consists of specifications translated from the C code,
TLC models that check them on small instances, and TLAPS proofs of all the
safety properties but one for every value of the constants.

## 1. The parts of the system

| part | state | operations | what is hard |
|---|---|---|---|
| `disk-utils/fsck.c`, scheduler | `instance_list`, `num_running`, done flags, pass number, `cancel_requested`, `kill_sent` | walk over fstab, start, wait, hand over the progress bar, cancel | checkers exit at any time, a signal at any time, a failing fork, disks shared or unknown |
| `disk-utils/fsck.c`, `-l` | lock files in `/run/fsck`, `inst->lock` | `lock_disk()`, `unlock_disk()` | several front ends, a signal during `flock()` |
| `libuuid`, `get_clock()` | `clock.txt`, per-thread `last`, `adjustment`, `clock_seq` | draw one or many time stamps | concurrent processes, a clock set back, death in the critical section, the limits of `adjustment` |
| `libuuid` front end, `uuidd` | caches of ranges, socket, pid file, `clock-cont.txt` | generate, ask the daemon, start it | daemons that race for pid file and socket, restart of the daemon, a clock file without a lock, forks of a cache |
| `libmount`, `tab_update.c`, `lock.c` | `utab`, `utab.lock`, `utab.act`, `utab.event` | start, update, event, end | read-modify-rename by many processes, parent and helper update the same entry, death and failure between any two steps |
| `libmount`, contexts | `struct libmnt_context`, `libmnt_update` | mount, umount, remount, move | early returns and retries that skip a closing step |
| `libmount`, monitor | epoll, inotify and mountinfo descriptors | enable, `get_fd()`, wait, next change | files that do not exist yet, veiled events, edge- and level-triggered descriptors |
| `libmount`, tables, options, hooks | in memory | parse, look up, merge, hooks of the stages | the undoing of hooks after a failure |
| `lib/loopdev.c`, `losetup` | kernel's loop devices | find free, set up, retry | two processes choose the same device |
| `lib/pty-session.c`, `script` | descriptors and a child | proxy loop | end of input, signals and the child's exit in any order |
| `libfdisk/src/gpt.c` | the label in memory; two headers and two arrays on the device | probe, create, edit, minimize, five writes | an interruption between or within the writes, a device that changes its size |
| `libblkid`, the rest of `libfdisk`, `libsmartcols` | caches, partition tables, output tables | probe, edit, print | large sequential algorithms |
| login, system, text, scheduling and listing tools | mostly none | one system call or one pass over the input | `flock`, `unshare`, `setpwnam` have processes or lock files |

`PROJECT.json` lists them with their files, and the hazards of the modelled
ones with their lines.

The parts meet as follows. `mount` and `umount` are front ends of libmount's
contexts; a context runs `/sbin/mount.<type>`, which may use libmount in turn;
both update utab; desktop programs and systemd watch through the monitor. `fsck`
reads fstab with libmount and finds whole disks with libblkid. `uuidgen`, the
`mkfs` programs and libfdisk draw UUIDs from libuuid, which shares `clock.txt`
with every other process and with `uuidd`.

## 2. Modules

| module | models |
|---|---|
| `Fsck` | one fsck process with its checkers |
| `FsckLock` | several `fsck -l` processes on shared disks |
| `UuidClock` | threads and processes in `get_clock()` |
| `UuidCont` | `get_clock_cont()`, for daemons that live one after the other |
| `UuidClients` | threads with caches in `uuid_generate_time_generic()`, above `UuidCont` |
| `Uuidd` | uuidd processes with pid file and socket, above `UuidCont` |
| `UtabTable` | what libmount promises of utab: each operation changes the present table at once |
| `Utab` | processes that mount and umount, with their helpers and the four files |
| `UtabMonitor` | `Utab` together with a program that watches through a monitor |
| `PtySession` | script's proxy loop, its child and its user |
| `GptTable` | the entries of a GPT and the search for free space, as operators |
| `Gpt` | programs that edit and write a GPT on a device |
| `MC...` | constants for TLC |
| `FsckProofs`, `UuidClientsProofs`, `UuiddProofs`, `UtabProofs`, `PtySessionProofs` | theorems about the module of the same name; those about `UuidCont` are in `UuiddProofs` |
| `FlockProofs` | theorems about the two users of `flock()`, `FsckLock` and `UuidClock` |
| `GptProofs`, `GptWriteProofs` | lemmas about the probe and the edits of `Gpt`; its writes and the theorems |

Definitions have the names of the C functions and variables where there is one;
the "map" in `PROJECT.json` gives the lines.  A control point (`pc`, `stage` in `FsckLock`) stands for a
place between two system calls at which another process can interfere: what
one process computes between two such places is one step.  Definitions marked
"Mutant" in a comment are faulty variants of the definition that follows.  They
occur in no specification and serve to show that a property notices the fault.

### Fsck

An fstab entry is a record of what the scheduler tests: pass number, root or
not, type and what a probe says, options, whether the device exists, its whole
disk (0 if unknown), stacked, mounted. A command line is a record of options.
`ignore()` with its helpers, `compile_fs_type()` and `fs_match()` are operators;
exit statuses are sets of bits.  `wait_one()` and `wait_many()` are modelled as
the loop they are, with the `wait4()` call a point of its own, because a signal
before it is noticed only when it returns.  A dead checker is a zombie until
collected; the SIGUSR1 helpers of the progress bar are children too, which
`wait4()` collects and ignores.

### FsckLock

One process checks one disk.  `lock_disk()` skips disks that do not rotate, opens
the lock file, with `-V` tries first and then blocks in `flock()`.  A signal makes
the blocking call return `EINTR`: the handler is installed without `SA_RESTART`.  That
happens only to a process that waits, which is one that found the lock taken.

### UuidClock

Time is a number of microseconds, a time stamp a number of ticks of 100 ns.
`clock.txt` is the record of clock sequence, time and adjustment.  `log`, a
history variable, has the ranges that were returned.  The modulus of the clock
sequence is a constant (2^14 in the code), the reserved sequence is left out of
the cycle as in the code.

### UuidCont, UuidClients, Uuidd

`UuidCont` is `get_clock_cont()`: each daemon has the static variables, the file is
a number, and `issued`, a history variable, has the ranges handed out.  A daemon
that cannot open, read or write the file is done with it; a failed write may or
may not have reached it.  The module assumes that no two daemons have the file open
(`Alone`), since the code does not lock it.

`Uuidd` is what has to make that true.  A daemon opens the pid file, locks the
inode it got, asks at the socket whether somebody answers, unlinks and binds the
socket, listens, forks, writes its pid and serves.  The file at the path and the
inode that is locked are different things, because a daemon that leaves unlinks
the path.  `ContClock` says that the daemons' use of the clock implements
`UuidCont`, until a daemon that leaves unlinks the pid file which another one has
open to start with (`orphaned`).  `orphaned` records that one call and not what
comes of it: that daemons exclude each other otherwise is what is checked and proved.
What may come of it is in section 3.

`UuidClients` is the other side: a thread asks for as many UUIDs as its cache is to
hold, the daemon draws them (`GenerateTime`), writes the answer (`WriteAnswer`) and may
die before, between and after the two, the thread falls back to the local clock or serves itself from the cache, and may fork.  A
range of the local clock has a clock sequence of its own here; which ranges
`get_clock()` returns is the subject of `UuidClock`.

### PtySession

One iteration of the loop is `poll()`, which fixes `revents`, and then the signal
descriptor, the master and stdin in this order; child, user and signals act in
between.  Bytes are numbered, so that order and loss are visible.  A standard signal
that is pending is not queued again.  `rc` of the flush replaces that of the
data, as in the code.  The limit on the output is tested when output is read and when
input is, since one callback serves both.  After the loop come the two kills, the restored
signal mask and what `main()` of script does.

### GptTable, Gpt

A sector holds one entry, so that a table of n entries takes n sectors, and alignment is
to one sector.  A checksum is what it was computed from.  Memory has at most one
label, as one program edits at a time.  The write is five steps; a crash in a step that
writes an array leaves any subset of its sectors.  `committed` and `pending`
are the tables that a crash may leave.  A write behind the end of the device fails, after
what is in front of the end (`WriteFails`).  A new label may replace the one that is
edited.  The place of a partition that is changed is tested by `recount_resize()`, before
the label's own code; in front of that, the test of the end in `gpt_set_partition()`, which comes
after the start was stored, never fails (`SetKeeps` in `GptProofs`).  `risk` names the writes for
which the order of the five writes cannot help; section 3 has the details.  `qsort()`
leaves the order of equal entries open, and so `gpt_reorder` is the set of the
sorted permutations.  The size of the device changes between two programs, while its primary
label is valid (`Resize`).  A reading program that leaves the backup where it is (`no_relocate`, read-only)
writes nothing and is not modelled.  The usable sectors of a new label are all that the table
leaves: a first or last LBA from a script, and the first one that the topology
suggests, are not modelled.

### UtabTable, Utab, UtabMonitor

A path is a sequence of components, options are a set, an entry is a record.
`Utab` has one process per operation; a helper is a process that starts when its
parent executes it. `utab.act` is represented by its inode, since what
matters is whether the name and the locked file are the same.  The lock is the
process that has it.  Every call may fail (`MayFail`, `MaxFaults`), and
every process may be killed at any point (`Crash`).  `JobsAssumption` says what a helper
is: a process of one parent, for the same source and mount point and the same operation, or a
mount without user options, which has nothing to write.

The monitor watches mountinfo and utab, veiled.  The kernel's event is an edge:
it is pending while the mount table has changes the monitor has not fetched.  The
inotify descriptor is level-triggered.  When utab.event does not exist the
directory is watched, and the file from its creation on.

## 3. Runs

| run | outcome | shows |
|---|---|---|
| `fsck_all` | holds | no two checkers on one disk unless `FSCK_FORCE_ALL_PARALLEL` is set, stacked and unknown disks alone, passes in order, the root first and its errors stop the walk, the count of running checkers, the progress bar, the signal forwarded to all that run, the exit status, every file system checked, termination |
| `fsck_lock` | holds | the lock is held from before the fork to after the wait; no two locked checkers on a disk; all processes end |
| `fsck_lock_cancel` | violated | a signal in `flock()` starts the checker without the lock |
| `uuid_clock` | holds | mutual exclusion, the file accounts for all that was issued, ascending ranges, duplicates only at the carry |
| `uuid_clients` | holds | no tick of the continuous clock is handed out twice, the file is ahead of it, no UUID is returned twice, and the rest of a range belongs to one thread |
| `uuidd` | holds | the socket's path leads to the daemon that is up, the clock is used by one daemon at a time, every start and every connection comes to an end |
| `utab` | holds | `Utab` implements `UtabTable`; utab.act is the file its users have locked and is removed by the last one; one entry per mount with a helper; all processes end |
| `utab_monitor` | holds | every rewriting of utab, and every kernel change that was announced, reaches the program |
| `utab_drain` | violated | `mnt_monitor_get_fd()` may not return |
| `pty` | holds | input in order and complete, all output of a child that is gone, no child left behind, no signal to a reaped pid; once the user types no more, the session ends after the exit of the child was announced |
| `gpt` | holds | an interrupted write leaves the old or the new table, a complete one two valid copies; no table with an overlap reaches the device; headers and arrays are written outside the partitions, except for one sector of a device that lost one; the search for a free sector is right |
| `gpt_shrink` | violated | a backup one sector behind the end of a shrunk device is not moved |

Each violated property is a sentence of a manual page, a comment or a usage text;
"findings" in `PROJECT.json` quotes it.

### What the properties leave out

These behaviours follow from the code.  Where the condition of a property names one, the
property holds in all other cases and says nothing about that one; where no property is
named, none covers it.

* A cancelled `fsck -A` exits with the OR of the collected statuses, possibly 0;
  fsck(8) lists 32 for a cancellation.  `ExitStatusIsOr` is about runs that were not canceled.
* A single UUID may have adjustment 10, the first tick of the next microsecond,
  where it is issued again (`SharedOnlyAtCarry`).  A clock sequence comes back after all
  the others, and with it the stamps it was used for.  The sequence changes when the clock is
  set back, and also when a bulk request has moved the last time ahead of the clock, which
  needs no fault of the clock at all; the property counts the changes, whatever their cause.
* A child that inherits the descriptor of `clock.txt` over a fork gets the
  `flock()` together with its parent.  `UuidClock` is about processes that opened the
  file themselves.
* A failed mount or umount leaves utab.act behind, which veils kernel events from
  then on, and so does the second attempt of a mount as read-only, which loses the descriptor
  of the first; `ActRemoved` exempts these.  A kernel-only mount between the event of another
  operation and the removal of its utab.act is not reported
  (`AnnouncedChangeSeen` is about announced operations, and exempts the case that utab.event was
  created just before its directory was watched; `UtabChangeSeen` does not).
* A uuidd that leaves unlinks the pid file by its path.  One that has opened the file before
  then locks an inode without a name, while a third creates and locks a new file: both
  find nobody at the socket, and the second to bind takes the path from the first.  `SocketKept` and
  `ContClock` hold until that `unlink()` (`orphaned`).
* A stop and the exit of script's child before the first SIGCHLD is read merge
  into the stop: script is not told of the exit and waits on (`SessionEnds`
  begins with the announcement of the exit).  After the exit the loop ends by a timeout of
  `poll()`, which input that never ends keeps from happening (`TypingEnds` in `SessionEnds`).  A
  second SIGTERM after the signal mask is restored ends script before it kills the
  child (`NoOrphan` is about ends that script controls).  The flush of queued input
  hides the `rc` with which the output limit ends the session.
* `find_last_free()` overlooks a partition that begins at the last usable sector, so
  that the default partition may overlap it.  No property says what that search returns;
  `TableDisjoint` shows that the write is refused.
* On a device that lost exactly the sector of the backup header, neither the probe nor the
  write notices.  The backup array of n sectors goes to `total_sectors - 1 - n`, the last usable LBA of
  the headers that were not updated, and then the write of the backup header fails.
  `LabelSparesPartitions` says that this sector is the only one of a partition that a label is
  written over.
* GPT writes that an interruption may spoil, the values of `risk`.  "label": the
  length of the table is changed by a write that is interrupted between the headers, so that
  the next probe pairs headers of two lengths; or an empty table is minimized, whose
  last usable sector is then below the first, which no probe accepts; or the device has lost
  more than the sector of the backup header, and so sectors of the partitions.  "write": the
  backup is moved away from the end of the device, or an edited table replaces
  the backup while the primary is not valid.  "stale": an unchanged
  table is repaired; the array written next to the bad header may be the one that
  header was made for, and an older table is found.

### Bounds

* `fsck_all`: 31 pairs of fstab and command line, up to eight entries; chosen
  so that every reason for skipping, deferring and stopping occurs.  Three entries
  on two or three disks suffice for any conflict between two checkers while a
  third is deferred.  One signal: a second one changes nothing, since
  `cancel_requested` stays set.
* `fsck_lock`: three processes on a disk (holder, waiter and one that cannot make
  its lock file) and one on a disk that does not rotate; a signal for each.
* `uuid_clock`: two threads, three calls of 1 or 10 time stamps, three
  microseconds, the clock set back once, one death, three clock sequences besides the
  reserved one.  Ten stamps fill a microsecond, and so the adjustment reaches its limit.
  Three calls change the sequence at most twice, so that the condition of
  `SharedOnlyAtCarry` always holds here.
* `uuid_clients`: two daemons, one restart, two threads, three requests with caches of 2
  and 4, three ticks, the clock set back once.  A fork, a lost answer, a refilled and
  an expired cache all occur.
* `uuidd`: two daemons, three starts, one crash, two requests: a daemon that leaves,
  one that waits for its pid file and the restart of the first.  The clock is not
  set back here; `uuid_clients` and the proof have that.
* `pty`: three bytes of output and two of input, reads of two bytes, room for one
  byte of input and three of output, one stop, two SIGTERMs, with and without output limit: every
  buffer fills, every write is cut.
* `gpt`: 9 and 10 sectors, a table of up to two entries, two edits, two
  interruptions, one change of size.  Two entries suffice for overlap, order and
  a longer table; two interruptions for one that hits the repair of the other.  States
  after a write with the risk "label" are not explored further (`Explored`),
  as the properties say nothing about them.
* `utab`: three processes in three sets of operations: a mount by a helper beside
  an umount; an umount by a helper beside a kernel-only mount; a move, a remount
  and a mount in one tree.  One failure or death anywhere.
* `utab_monitor`: two processes, a helper and its parent or two independent ones;
  one failure of the announcement or of the system call.  Other failures only stop
  the emitter, which the properties exclude.

The runs of `UuidClock`, `Utab`, `UuidClients`, `Uuidd`, `PtySession` and `Gpt` do not
check for deadlock: the operations come to an end, or reach a bound, and nothing
follows.  `AllFinish`, `AllSettle` and `SessionEnds` say what does end.

### Fairness

Weak fairness of each process's own steps says that the kernel schedules it and
that a lock that is free is granted to somebody.  `fsck_all` and `fsck_lock` also
assume that a checker exits in the end.  No failure, signal or death is fair.
`AllFinish` of `Utab` needs no strong fairness although several processes
compete for utab.lock: there are finitely many of them and each takes it at most
three times for each attempt.  `Uuidd` assumes only that a daemon that can take a
step takes one; time-outs, signals and requests need not happen, and so
`AllSettle` does not rest on the 30 seconds of the start.  `PtySession` assumes that
script is scheduled, and continued by whoever stopped it; nothing of child and
user.  The monitor's steps are weakly fair: the
program calls it again as long as its descriptor is readable.

## 4. Proofs

All theorems hold for any set of processes, any tables, inputs and requests, and any bounds.

* `FsckProofs`: the eight safety properties of `Fsck`, in layers, because each needs the
  ones before it.  `Point` is the place of `check_all()` or `main()`, also while it waits:
  the caller that `wait_many()` returns to.
  `Core` is the types, `Callers` (who may wait, and with which flags),
  `StartedBehind` (what was started is done or behind the walk, so that nothing is started
  twice) and `InstancesTracked`; the lemma `Kinds` sorts the steps into those that start a
  checker, see one exit, collect one, and leave the list alone, which keeps the other proofs short.
  `DiskExclusive` is inductive on `Core`.  `BarOwned` and `Cancels` add to `ProgressBar` and
  `CancelReachesAll` where nobody owns the bar and where nothing was sent.
  `Settled` says at which points the list is empty, or the run was canceled.  `Walked` says where the walk
  stands: which lines are done before it begins, that the passes below `passno` are
  done, and what is known of the lines behind the iterator; `PassOrder` follows.
  `StatusSoFar`: the bits collected so far, with those that `wait_many()` has in hand, are
  those of the reaped checkers; with `Settled` this is `ExitStatusIsOr`.
  `RootBefore` and `DoneChecked` lead to `RootGate` and `AllChecked`.
* `FlockProofs`, of `FsckLock`: `LockHeldInvariant` and `LockedExclusion`.  `LockHeld` is
  inductive together with `LockTypeOK`; two checkers that both run under the lock of
  one disk would both be its holder.
* `FlockProofs`, of `UuidClock`: `Exclusion` from `LockInv` (whoever is between `flock()` and the
  rewriting has the lock).  `ClockInvariant`, from which `FileAccountsAlways` and
  `AscendingAlways` follow, needs `FileInv` (the file is empty until the first
  range), `HolderInv` (the thread in the critical section works on what the file
  holds, and what it will write may follow it) and `TimeInv` (no time is 0).
  `StoredFact` is the arithmetic of bulk requests.  `SharedOnlyAtCarryAlways` adds
  `SeqStep` (a range has the sequence of the one before or the next) and
  `SeqTurns`: the sequence of a range is that of the first, moved on by
  the number of changes.  Less changes than there are sequences lead to different ones
  (`TurnInjective`), so that two ranges with one sequence have no change
  between them, and `Ascending` orders them.
* `UuiddProofs`, of the clock: `ContUniqueAlways` and `FileAheadAlways`.  `FileAhead` is the
  strengthening: a daemon starts from the file, and the file is written before
  a tick beyond it is handed out, so that every new range begins at or after the end of all earlier
  ones, wherever the system's clock stands.  It is inductive with the types.
* `UuiddProofs`, of the daemons: `SocketKeptAlways`, `ContClockAlways`, `UniqueUnlessOrphaned`, from `PidInv` and `UInv`.
  `PidInv`: a daemon that starts has the lock of the file it opened (`LockHeld`), and that file is the one at
  the path as long as none was unlinked under a starting daemon (`PidCurrent`).  Two that start would then have the lock
  of one file.  So one daemon at most is between its lock and `listen()` (`PidfileExclusive`), the path leads to
  the daemon that listens (`PathLeads`), and whoever goes on to unlink the path has asked and
  found nobody (`TakesFreePath`); the last needs that only a
  daemon that is asking is owed an answer (`OnlyAsked`).  Then a daemon that uses the clock is alone with it, each
  of its steps is one of `UuidCont`, and `UuidCont`'s theorem applies.
* `UuidClientsProofs`: `GivenOnceAlways`, `CachedIssuedAlways`, `ClientsClock`, from `CInv`.  A
  thread holds the stamps of its cache and of an answer under way.  What is
  held was drawn (`HeldDrawn`), was not returned (`HeldFresh`) and is held by one
  thread (`HeldApart`); what was returned was drawn (`GivenDrawn`).  The invariant of
  `UuidCont` makes a new range fresh.
* `UtabProofs`: `Refinement`, that `Utab` implements `UtabTable`.  The invariant
  `UpdateInv` says that a process at a point where it needs the lock has it, that
  the table it has read is still utab when it writes, that it has not
  written before, and that it has an operation to write.  Then renaming the new
  file is a step of the abstract specification and every other step a stutter.
  `ActWhileUsedAlways` and `ActRemovedAlways` rest on `ActInv`: where a process may
  have utab.act open, and which failure must have come before it loses the
  descriptor or ends with it.  `OneEntryAlways` rests on `HelperControl`, how far mount and
  helper are and which of them has written, and `HelperTable`, which says that
  the mount point has no entry until one of them writes and one from then on, with the
  options of those that wrote.  Its lemmas say what each operator of `UtabTable` does to the
  entries of one path (`FindTarget`, `RemoveKeeps`, `MoveKeeps`, `OptionsKeep`, `UpdateKeeps`).
  It supposes that utab has no entry for the mount point before (`FreshMounts`, which
  the constants of the run satisfy): mounts may be stacked, and then there is an entry for each.
* `PtySessionProofs`: `NoStaleKillAlways` and `NoOrphanAlways` from `ChildInv` (the two copies of the pid
  are one and are reset when the child is reaped); `OutputCompleteAlways` from `OutInv` (what the child
  wrote is on the terminal or in the pty); `InputInOrderAlways` from `InInv` (what was
  read from stdin is, in order, with the child, in the pty or in the buffers, and what is not
  read continues it), also when the output limit ends the session while the user types.  The queue of buffers is compared by its concatenation:
  `FlattenHead` and its neighbours say how `FlattenSeq` behaves when a
  buffer is added, shortened or removed.
* `GptProofs` and `GptWriteProofs`: `LabelSound`, and from it `CrashAtomicAlways`, `BothCopiesAlways`,
  `TableDisjointAlways` and `LabelSparesPartitionsAlways`.  The inductive invariant `IInv` is
  `Sound`, claimed while `risk` is not "label".  None of the four properties is
  inductive, because they speak of what a probe finds and a probe believes what it reads.
  `DevOk` says of every header that is or was left on the device, in whatever sector, that the
  array of its checksum is one that may be written: inside the usable sectors and
  without an overlap; so an old header that comes back to life is harmless.
  `LabelOk`, `EditOk` and `WriteOk` relate the two headers in memory to each other, to the entries and
  to the size of the device, which may have changed since the label was written.  `WriteOk` has the
  backup array behind the last usable sector, or beginning with it on a device that lost one sector.
  `ProgressOk` is what each of the five writes has achieved.  `GhostOk` is the argument for
  an interruption: until the backup is complete the primary is valid with the old table
  (`Matches`), from then on the backup is valid with the new one, and the array of the primary
  touches neither.  For a repair, the backup at the end of the device is rewritten
  with what it holds (`SameArray`).  There is one lemma for each action.  `Layout` and `InArray` have the
  arithmetic: the sectors of headers, arrays and partitions are apart for every length
  of the table and every device with room for the longest one twice; `BackupArray`, `PrimaryArray` and `SurvivesNow` say
  what a probe finds when some of the sectors of an array were written.

Three arguments need induction over data: that the concatenation of any number of buffers is what it
should be, that a search from the end of a table finds the last entry, and that the
longest table that fits and the end of the last partition exist.  They are
made from the least or greatest element of a set of numbers (`Least` and `Induct` in `PtySessionProofs`,
`Greatest` in `UtabProofs`, `GreatestMember` in `GptWriteProofs`).

The assumptions are those of the modules: the constants have their types, "nobody" is
not a process (`UtabAssumption`, `DiskAssumption`) nor a reply (`UuiddAssumption`), "no label"
is none (`NoLabelAssumption`), every device has room for the longest table twice and for a usable
sector (`GptAssumption`), and helpers are as described above
(`JobsAssumption` of `Utab`).  TLC evaluates them in the runs.

Only model-checked: all liveness (`Terminates`, `AllFinish`, `AllSettle`, `SessionEnds`,
`UtabChangeSeen`, `AnnouncedChangeSeen`), which is beyond the prover, and `FirstFreeFound`.  What
`find_first_available()` returns is the end of walks over all entries, repeated until
nothing moves: a recursion over data, for which the prover has no induction.  The
theorems about `Gpt` do not need it, since the write refuses what the search may get wrong.

## 5. Not modelled

* Of `fsck`: output, statistics, the construction of the checker's command line and
  the reuse of process identifiers.
* Of `get_clock()`: failing writes of `clock.txt` and the format of its line.
* Of libuuid and uuidd: random, name-based and version 6 and 7 UUIDs, which have no
  shared state; socket activation and the client side of the uuidd command.
* Of pty sessions: `scriptlive` and `su --pty`, which use the same loop with other
  callbacks; the format of the logs, SIGWINCH, SIGUSR1, the main-loop callback.
* Of the GPT: names, GUIDs and attributes, the hybrid MBR, alignment, wiping,
  `gpt_verify_disklabel()` (it only reports) and the dialogues; other labels.
* Of libmount: the format of utab, options and permissions, namespaces, the
  fanotify monitor, a `/run/mount` that is created or removed while a monitor
  watches, disabling of monitor types.
* Everything listed as `not_modelled` in `PROJECT.json`, with the reason there: parsers
  and conversions of one value, output, sequential programs over one image,
  and front ends of one system call.
