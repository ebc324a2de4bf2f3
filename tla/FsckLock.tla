------------------------------ MODULE FsckLock ------------------------------
(***************************************************************************)
(* fsck -l, disk-utils/fsck.c: several fsck processes, each for one device,  *)
(* that serialise on an exclusive flock(2) of /run/fsck/<disk>.lock before   *)
(* they fork their checker, and release it when the checker is collected.    *)
(* The lock is best effort: execute() starts the checker whatever           *)
(* lock_disk() came to.                                                     *)
(***************************************************************************)
EXTENDS Integers

CONSTANTS
    FsckProc,      \* the fsck processes
    Disk,          \* the whole disks
    NoDisk,        \* fs_get_disk() found none
    DiskOf,        \* the disk of each process's device
    Rotational,    \* the disks that are not irrotational
    CanOpen,       \* the processes that can make their lock file
    Verbose,       \* the processes with -V: they try the lock first
    NoProc,        \* nobody
    MaxSignals     \* bound on the signals sent to each process

ASSUME DiskAssumption ==
    /\ NoDisk \notin Disk /\ NoProc \notin FsckProc
    /\ DiskOf \in [FsckProc -> Disk \cup {NoDisk}]
    /\ Rotational \subseteq Disk /\ Verbose \subseteq FsckProc /\ CanOpen \subseteq FsckProc
ASSUME MaxSignalsAssumption == MaxSignals \in Nat

VARIABLES
    stage,         \* control point of each process
    lock,          \* inst->lock >= 0, the lock file is open
    holder,        \* of each disk's lock file: the process whose flock it has
    checker,       \* the forked checker of each process
    cancel_requested, kill_sent, eintr, nsig

sigVars == <<cancel_requested, kill_sent, nsig>>
lockVars == <<stage, lock, holder, checker, sigVars, eintr>>

MoveTo(p, there) == stage' = [stage EXCEPT ![p] = there]

-----------------------------------------------------------------------------
(* lock_disk() *)

Lockable(p) == DiskOf[p] \in Rotational

\* No disk, or one that does not rotate: no lock file is made.
SkipLock(p) ==
    /\ stage[p] = "lock_disk" /\ ~Lockable(p)
    /\ MoveTo(p, "fork")
    /\ UNCHANGED <<lock, holder, checker, sigVars, eintr>>

\* The directory or the lock file cannot be made: go on without a lock.
OpenFails(p) ==
    /\ stage[p] = "lock_disk" /\ Lockable(p) /\ p \notin CanOpen
    /\ MoveTo(p, "fork")
    /\ UNCHANGED <<lock, holder, checker, sigVars, eintr>>

OpenLock(p) ==
    /\ stage[p] = "lock_disk" /\ Lockable(p) /\ p \in CanOpen
    /\ lock' = [lock EXCEPT ![p] = TRUE]
    /\ MoveTo(p, IF p \in Verbose THEN "trylock" ELSE "flock")
    /\ eintr' = [eintr EXCEPT ![p] = FALSE]
    /\ UNCHANGED <<holder, checker, sigVars>>

\* Mutant: the lock is shared (LOCK_SH).
GrantLockShared(p) ==
    /\ holder' = [holder EXCEPT ![DiskOf[p]] = p]
    /\ MoveTo(p, "fork")
    /\ UNCHANGED <<lock, checker, sigVars, eintr>>

GrantLock(p) ==
    /\ holder[DiskOf[p]] = NoProc
    /\ holder' = [holder EXCEPT ![DiskOf[p]] = p]
    /\ MoveTo(p, "fork")
    /\ UNCHANGED <<lock, checker, sigVars, eintr>>

\* Mutant: the blocking call follows whatever the first one came to, on a file that
\* is opened again, and waits for the process's own lock.
TryLockTwice(p) ==
    /\ stage[p] = "trylock" /\ holder[DiskOf[p]] = NoProc
    /\ holder' = [holder EXCEPT ![DiskOf[p]] = p]
    /\ MoveTo(p, "flock")
    /\ UNCHANGED <<lock, checker, sigVars, eintr>>

\* -V: flock(LOCK_EX | LOCK_NB), then the blocking call.
TryLock(p) == stage[p] = "trylock" /\ GrantLock(p)

TryLockFails(p) ==
    /\ stage[p] = "trylock" /\ holder[DiskOf[p]] # NoProc
    /\ MoveTo(p, "flock")
    /\ eintr' = [eintr EXCEPT ![p] = FALSE]
    /\ UNCHANGED <<lock, holder, checker, sigVars>>

FlockDisk(p) == stage[p] = "flock" /\ GrantLock(p)

\* Mutant: the interrupted process keeps the lock file open.
FlockInterruptedKeepsOpen(p) ==
    /\ stage[p] = "flock" /\ eintr[p] /\ holder[DiskOf[p]] # NoProc
    /\ MoveTo(p, "fork")
    /\ UNCHANGED <<lock, holder, checker, sigVars, eintr>>

\* flock(LOCK_EX), waiting for another process, returns EINTR: the lock file is closed
\* and the check goes on.
FlockInterrupted(p) ==
    /\ stage[p] = "flock" /\ eintr[p] /\ holder[DiskOf[p]] # NoProc
    /\ lock' = [lock EXCEPT ![p] = FALSE]
    /\ MoveTo(p, "fork")
    /\ UNCHANGED <<holder, checker, sigVars, eintr>>

-----------------------------------------------------------------------------
(* execute(), wait_one(), free_instance() *)

\* unlock_disk(): closing the lock file drops the flock, as the exit that follows
\* would.
unlock_disk(p) ==
    /\ lock' = [lock EXCEPT ![p] = FALSE]
    /\ holder' = [d \in Disk |-> IF lock[p] /\ holder[d] = p THEN NoProc ELSE holder[d]]

ForkChecker(p) ==
    /\ stage[p] = "fork"
    /\ checker' = [checker EXCEPT ![p] = "run"]
    /\ MoveTo(p, "wait")
    /\ UNCHANGED <<lock, holder, sigVars, eintr>>

ForkFails(p) ==
    /\ stage[p] = "fork"
    /\ unlock_disk(p)
    /\ MoveTo(p, "exit")
    /\ UNCHANGED <<checker, sigVars, eintr>>

EnterWait4(p) ==
    /\ stage[p] = "wait"
    /\ MoveTo(p, "wait4")
    /\ eintr' = [eintr EXCEPT ![p] = FALSE]
    /\ UNCHANGED <<lock, holder, checker, sigVars>>

ForwardCancel(p) == kill_sent' = [kill_sent EXCEPT ![p] = @ \/ cancel_requested[p]]

Interrupted(p) ==
    /\ stage[p] = "wait4" /\ eintr[p]
    /\ ForwardCancel(p)
    /\ eintr' = [eintr EXCEPT ![p] = FALSE]
    /\ UNCHANGED <<stage, lock, holder, checker, cancel_requested, nsig>>

Reap(p) ==
    /\ stage[p] = "wait4" /\ checker[p] = "zombie"
    /\ ForwardCancel(p)
    /\ checker' = [checker EXCEPT ![p] = "reaped"]
    /\ unlock_disk(p)
    /\ MoveTo(p, "exit")
    /\ UNCHANGED <<cancel_requested, nsig, eintr>>

-----------------------------------------------------------------------------
(* The environment *)

\* A signal interrupts wait4(), and flock() if it waits.
Signal(p) ==
    /\ stage[p] # "exit" /\ nsig[p] < MaxSignals
    /\ cancel_requested' = [cancel_requested EXCEPT ![p] = TRUE]
    /\ nsig' = [nsig EXCEPT ![p] = @ + 1]
    /\ eintr' = [eintr EXCEPT ![p] = \/ stage[p] = "wait4"
                                     \/ stage[p] = "flock" /\ holder[DiskOf[p]] # NoProc]
    /\ UNCHANGED <<stage, lock, holder, checker, kill_sent>>

CheckerExits(p) ==
    /\ checker[p] = "run"
    /\ checker' = [checker EXCEPT ![p] = "zombie"]
    /\ UNCHANGED <<stage, lock, holder, sigVars, eintr>>

Exited == (\A p \in FsckProc : stage[p] = "exit") /\ UNCHANGED lockVars

-----------------------------------------------------------------------------
LockInit ==
    /\ stage = [p \in FsckProc |-> "lock_disk"]
    /\ lock = [p \in FsckProc |-> FALSE]
    /\ holder = [d \in Disk |-> NoProc]
    /\ checker = [p \in FsckProc |-> "none"]
    /\ cancel_requested = [p \in FsckProc |-> FALSE]
    /\ kill_sent = [p \in FsckProc |-> FALSE]
    /\ eintr = [p \in FsckProc |-> FALSE]
    /\ nsig = [p \in FsckProc |-> 0]

Step(p) ==
    \/ SkipLock(p) \/ OpenFails(p) \/ OpenLock(p)
    \/ TryLock(p) \/ TryLockFails(p) \/ FlockDisk(p) \/ FlockInterrupted(p)
    \/ ForkChecker(p) \/ ForkFails(p) \/ EnterWait4(p) \/ Interrupted(p) \/ Reap(p)

LockNext ==
    \/ \E p \in FsckProc : Step(p) \/ Signal(p) \/ CheckerExits(p)
    \/ Exited

\* Each process runs, and each checker exits; nothing is assumed of the order in
\* which flock(2) serves its waiters.
Fairness == \A p \in FsckProc : WF_lockVars(Step(p)) /\ WF_lockVars(CheckerExits(p))

LockSpec == LockInit /\ [][LockNext]_lockVars /\ Fairness

-----------------------------------------------------------------------------
(* Properties *)

\* Every variable has its type; the holder of a lock file is a process (fsck.c:390).
LockTypeOK ==
    /\ stage \in [FsckProc -> {"lock_disk", "trylock", "flock", "fork", "wait", "wait4", "exit"}]
    /\ lock \in [FsckProc -> BOOLEAN]
    /\ holder \in [Disk -> FsckProc \cup {NoProc}]
    /\ checker \in [FsckProc -> {"none", "run", "zombie", "reaped"}]
    /\ cancel_requested \in [FsckProc -> BOOLEAN] /\ kill_sent \in [FsckProc -> BOOLEAN]
    /\ eintr \in [FsckProc -> BOOLEAN] /\ nsig \in [FsckProc -> 0..MaxSignals]

\* A process keeps what lock_disk() left: from there to the end an open lock file
\* is a flock of its own, and only then does its checker run.
LockHeld ==
    \A p \in FsckProc :
        /\ lock[p] => Lockable(p) /\ stage[p] # "lock_disk"
        /\ lock[p] /\ stage[p] \in {"fork", "wait", "wait4"} => holder[DiskOf[p]] = p
        /\ checker[p] = "run" => stage[p] \in {"wait", "wait4"}

\* Two checkers whose fsck processes hold the lock file open never run on one
\* disk at a time: the lock is kept from before the fork until after the exit
\* of the checker was collected.
LockedExclusive ==
    \A p, q \in FsckProc :
        /\ p # q /\ DiskOf[p] = DiskOf[q]
        /\ checker[p] = "run" /\ checker[q] = "run"
        => ~(lock[p] /\ lock[q])

\* "-l lock the device to guarantee exclusive access" (usage() in fsck.c): no two
\* checkers run at a time on one rotational disk when the lock file can be made.
ExclusiveAccess ==
    \A p, q \in CanOpen :
        p # q /\ DiskOf[p] = DiskOf[q] /\ Lockable(p)
            => ~(checker[p] = "run" /\ checker[q] = "run")

\* Every fsck -l comes to its end: a waiter is served when the holder's checker
\* has exited, and no interrupted or failed start keeps the lock.
AllFinish == <>(\A p \in FsckProc : stage[p] = "exit")
=============================================================================
