-------------------------------- MODULE Utab --------------------------------
(***************************************************************************)
(* The life of a mount or an umount in libmount as far as /run/mount/utab is *)
(* concerned: libmount/src/context.c, context_mount.c, context_umount.c,     *)
(* tab_update.c and lock.c.                                                  *)
(*                                                                         *)
(* Each process does one operation.  It announces itself with the file       *)
(* utab.act, calls the kernel or runs a /sbin/mount.<type> helper, rewrites  *)
(* utab by rename(2), touches utab.event and removes utab.act when nobody    *)
(* else uses it.  The file utab.lock is locked by flock(2) for each of       *)
(* these steps, never across them.                                           *)
(***************************************************************************)
EXTENDS Naturals, Sequences, FiniteSets

CONSTANTS
    Proc,       \* the processes, helpers among them
    NoProc,     \* no process
    Jobs,       \* the assignments of an operation to every process
    Tables,     \* the contents of utab before the first of them starts
    MayFail,    \* the kinds of failures the environment has
    MaxFaults   \* bound on their number

ASSUME UtabAssumption ==
    /\ NoProc \notin Proc /\ MaxFaults \in Nat
    /\ \A job \in Jobs, p \in Proc : job[p].helper \in Proc \cup {NoProc}

\* The components of a path.
Path == Seq(STRING)

\* An entry of utab.
TabEntry == [src : STRING, tgt : Path, opts : SUBSET STRING]

ASSUME TablesAssumption == Tables \subseteq Seq(TabEntry)

\* A /sbin/mount.<type> helper works for one process, on the same source and mount
\* point, and executes no other helper.  "kmount" is a mount without user options.
ASSUME JobsAssumption ==
    \A job \in Jobs, p \in Proc :
        LET o == job[p]
            h == o.helper
        IN  /\ o.tgt \in Path /\ o.opts \subseteq STRING
            /\ IF o.kind = "move" THEN o.src \in Path ELSE o.src \in STRING
            /\ o.kind \in {"mount", "kmount", "remount", "move", "umount"}
            /\ o.kind = "kmount" => o.opts = {}
            /\ h # NoProc =>
                  /\ job[h].kind = o.kind \/ (o.kind = "mount" /\ job[h].kind = "kmount")
                  /\ job[h].src = o.src /\ job[h].tgt = o.tgt /\ job[h].helper = NoProc
                  /\ \A q \in Proc : job[q].helper = h => q = p

\* No table has an entry yet of a mount point that a helper is going to mount.
FreshMounts ==
    \A job \in Jobs, tb \in Tables, p \in Proc :
        job[p].kind = "mount" /\ job[p].helper # NoProc =>
            \A i \in 1..Len(tb) : tb[i].tgt # job[p].tgt

VARIABLES
    op,         \* of each process: [kind, src, tgt, opts, helper]
    pc,         \* of each process: control point
    ready,      \* upd->ready
    missing,    \* upd->missing_options
    tab,        \* the table a process has read, while it has the lock
    lock,       \* the process that has the flock on utab.lock, or NoProc
    utab,       \* the entries of /run/mount/utab
    written,    \* the processes that have rewritten it
    act,        \* the inode of utab.act, 0 when there is no such file
    inodes,     \* the number of inodes utab.act has had
    act_fd,     \* upd->act_fd: the inode it is open on, 0 for -1
    leaked,     \* the inodes of lost descriptors, still open and locked
    event,      \* does utab.event exist?
    emitted,    \* the processes that have closed utab.event after writing
    mounted,    \* the processes whose system call changed the mount table
    faults      \* the failures so far: <<process, what failed>>

Table == INSTANCE UtabTable WITH table <- utab

updVars == <<ready, missing, tab>>
tableVars == <<utab, written>>
actVars == <<act, inodes, act_fd, leaked>>
eventVars == <<event, emitted>>
vars == <<op, pc, updVars, lock, tableVars, actVars, eventVars, mounted, faults>>

FaultKinds == {"start", "act", "syscall", "rdonly", "loop", "post", "read", "update",
               "emit", "end", "crash"}
Final == {"done", "dead"}
Locked == {"act", "read", "write", "unlink"}
Points == {"idle", "start", "act", "actfail", "syscall", "helper", "tabs", "lock", "read",
           "write", "emit", "close", "end", "unlink", "exit"} \cup Final

HasFault(p, kinds) == \E k \in kinds : <<p, k>> \in faults
Retried(p) == HasFault(p, {"rdonly", "loop"})
AnyFault(kinds) == \E p \in Proc : HasFault(p, kinds)

\* The environment fails a call of p in one of its bounded number of ways.
Fault(p, kind) ==
    /\ kind \in MayFail /\ Cardinality(faults) < MaxFaults
    /\ faults' = faults \cup {<<p, kind>>}

Goto(p, there) == pc' = [pc EXCEPT ![p] = there]

IsHelperOf(h, p) == op[p].helper = h
WithinHelper(p) == \E q \in Proc : IsHelperOf(p, q)

-----------------------------------------------------------------------------
(* mnt_lock_file() and mnt_unlock_file(): signals are blocked and the flock  *)
(* is tried until it succeeds; closing the file unlocks it.                  *)

\* Mutant: the lock is taken from whoever has it.
mnt_lock_file_NoWait(p) == lock' = p

mnt_lock_file(p) == lock = NoProc /\ lock' = p

mnt_unlock_file(p) == lock' = NoProc

\* utab.lock cannot be opened or locked.
mnt_lock_file_fails(p, kind) == Fault(p, kind) /\ UNCHANGED lock

-----------------------------------------------------------------------------
(* mnt_context_prepare_update() and mnt_update_start()                       *)

\* A helper starts when its parent executes it.
Started(p) == \A q \in Proc : IsHelperOf(p, q) => pc[q] = "helper"

\* utab is left alone by a mount without user options, and by an umount or a
\* move as long as it is empty.
UpdateNeeded(p) ==
    /\ op[p].kind # "kmount"
    /\ op[p].kind \in {"umount", "move"} => utab # <<>>

PrepareUpdate(p) ==
    /\ pc[p] = "idle" /\ Started(p)
    /\ ready' = [ready EXCEPT ![p] = UpdateNeeded(p)]
    /\ Goto(p, IF UpdateNeeded(p) THEN "start" ELSE "syscall")
    /\ UNCHANGED <<op, missing, tab, lock, tableVars, actVars, eventVars, mounted, faults>>

StartLock(p) ==
    /\ pc[p] = "start"
    /\ mnt_lock_file(p)
    /\ Goto(p, "act")
    /\ UNCHANGED <<op, updVars, tableVars, actVars, eventVars, mounted, faults>>

\* The result of mnt_update_start() is ignored.
StartLockFails(p) ==
    /\ pc[p] = "start"
    /\ mnt_lock_file_fails(p, "start")
    /\ Goto(p, "syscall")
    /\ UNCHANGED <<op, updVars, tableVars, actVars, eventVars, mounted>>

OpenAct ==
    IF act = 0 THEN /\ act' = inodes + 1
                    /\ inodes' = inodes + 1
               ELSE UNCHANGED <<act, inodes>>

\* A second mnt_update_start() forgets the descriptor of the first.
ForgetActFd(p) ==
    leaked' = [leaked EXCEPT ![p] = IF act_fd[p] = 0 THEN @ ELSE @ \cup {act_fd[p]}]

StartAct(p) ==
    /\ pc[p] = "act"
    /\ OpenAct
    /\ ForgetActFd(p)
    /\ act_fd' = [act_fd EXCEPT ![p] = act']
    /\ mnt_unlock_file(p)
    /\ Goto(p, "syscall")
    /\ UNCHANGED <<op, updVars, tableVars, eventVars, mounted, faults>>

\* The file cannot be opened, or is opened and cannot be locked.
StartActFails(p) ==
    /\ pc[p] = "act"
    /\ Fault(p, "act")
    /\ OpenAct \/ UNCHANGED <<act, inodes>>
    /\ ForgetActFd(p)
    /\ act_fd' = [act_fd EXCEPT ![p] = 0]
    /\ mnt_unlock_file(p)
    /\ Goto(p, "actfail")
    /\ UNCHANGED <<op, updVars, tableVars, eventVars, mounted>>

\* The unlink() of the error path, without the lock and whoever uses the file.
StartUnlinks(p) ==
    /\ pc[p] = "actfail"
    /\ act' = 0
    /\ Goto(p, "syscall")
    /\ UNCHANGED <<op, updVars, lock, tableVars, inodes, act_fd, leaked, eventVars,
                   mounted, faults>>

-----------------------------------------------------------------------------
(* mnt_context_do_mount(), mnt_context_do_umount()                           *)

Syscall(p) ==
    /\ pc[p] = "syscall" /\ op[p].helper = NoProc
    /\ mounted' = mounted \cup {p}
    /\ Goto(p, "tabs")
    /\ UNCHANGED <<op, updVars, lock, tableVars, actVars, eventVars, faults>>

\* The result is not zero and mnt_context_update_tabs() is not called: the
\* system call failed, or the helper could not be executed.
SyscallFails(p) ==
    /\ pc[p] = "syscall"
    /\ Fault(p, "syscall")
    /\ Goto(p, "exit")
    /\ UNCHANGED <<op, updVars, lock, tableVars, actVars, eventVars, mounted>>

\* The mount(2) succeeded and a hook after it failed.
PostFails(p) ==
    /\ pc[p] = "syscall" /\ op[p].helper = NoProc
    /\ Fault(p, "post")
    /\ mounted' = mounted \cup {p}
    /\ Goto(p, "exit")
    /\ UNCHANGED <<op, updVars, lock, tableVars, actVars, eventVars>>

\* mnt_context_mount() goes to "again": read-only for a write-protected source,
\* and with a loop device for an EROFS image.
TryAgain(p) ==
    /\ pc[p] = "syscall" /\ op[p].helper = NoProc
    /\ op[p].kind \in {"mount", "kmount"}
    /\ \E why \in {"rdonly", "loop"} : <<p, why>> \notin faults /\ Fault(p, why)
    /\ Goto(p, "idle")
    /\ UNCHANGED <<op, updVars, lock, tableVars, actVars, eventVars, mounted>>

ExecHelper(p) ==
    /\ pc[p] = "syscall" /\ op[p].helper # NoProc
    /\ Goto(p, "helper")
    /\ UNCHANGED <<op, updVars, lock, tableVars, actVars, eventVars, mounted, faults>>

HelperExits(p) ==
    /\ pc[p] = "helper" /\ pc[op[p].helper] \in Final
    /\ Goto(p, "tabs")
    /\ UNCHANGED <<op, updVars, lock, tableVars, actVars, eventVars, mounted, faults>>

\* The helper exits with 0 when its system call and its update succeeded.
HelperOk(p) ==
    /\ pc[op[p].helper] = "done"
    /\ ~ HasFault(op[p].helper, {"syscall", "post", "update"})

-----------------------------------------------------------------------------
(* mnt_context_update_tabs() up to mnt_update_table()                        *)

\* Mutant: an operation with a helper leaves the event to the helper.
ToEmitNoHelpers(p) ==
    IF WithinHelper(p) \/ op[p].helper # NoProc THEN "end" ELSE "emit"

\* Only the outermost libmount emits the event.
ToEmit(p) == IF WithinHelper(p) THEN "end" ELSE "emit"

\* Mutant: mnt_update_end() is skipped when the helper failed.
UpdateTabsNoEnd(p) ==
    /\ pc[p] = "tabs"
    /\ ~ (ready[p] /\ op[p].helper # NoProc /\ HelperOk(p))
    /\ Goto(p, IF ready[p] /\ op[p].helper = NoProc THEN "lock" ELSE "exit")
    /\ UNCHANGED <<op, updVars, lock, tableVars, actVars, eventVars, mounted, faults>>

UpdateTabs(p) ==
    /\ pc[p] = "tabs"
    /\ ~ (ready[p] /\ op[p].helper # NoProc /\ HelperOk(p))
    /\ Goto(p, IF ~ ready[p] THEN "exit" ELSE IF op[p].helper = NoProc THEN "lock" ELSE "end")
    /\ UNCHANGED <<op, updVars, lock, tableVars, actVars, eventVars, mounted, faults>>

\* Has the helper done the update?  utab is read without the lock.
AlreadyDone(p) ==
    IF op[p].kind = "umount"
    THEN Table!find_target(utab, op[p].tgt) = 0
    ELSE LET i == Table!find_pair(utab, op[p].src, op[p].tgt)
         IN  i # 0 /\ op[p].opts \subseteq utab[i].opts

\* Mutant: an entry of the helper without our options is not noticed.
MissingOptionsIgnored(p) == FALSE

\* The helper's entry is there and lacks options of ours.
MissingOptions(p) ==
    /\ op[p].kind # "umount"
    /\ LET i == Table!find_pair(utab, op[p].src, op[p].tgt)
       IN  i # 0 /\ ~ (op[p].opts \subseteq utab[i].opts)

mnt_update_already_done(p) ==
    /\ pc[p] = "tabs" /\ ready[p] /\ op[p].helper # NoProc /\ HelperOk(p)
    /\ missing' = [missing EXCEPT ![p] = @ \/ MissingOptions(p)]
    /\ Goto(p, IF AlreadyDone(p) THEN ToEmit(p) ELSE "lock")
    /\ UNCHANGED <<op, ready, tab, lock, tableVars, actVars, eventVars, mounted, faults>>

-----------------------------------------------------------------------------
(* mnt_update_table()                                                        *)

UpdateLock(p) ==
    /\ pc[p] = "lock"
    /\ mnt_lock_file(p)
    /\ Goto(p, "read")
    /\ UNCHANGED <<op, updVars, tableVars, actVars, eventVars, mounted, faults>>

UpdateLockFails(p) ==
    /\ pc[p] = "lock"
    /\ mnt_lock_file_fails(p, "update")
    /\ Goto(p, "end")
    /\ UNCHANGED <<op, updVars, tableVars, actVars, eventVars, mounted>>

ReadTable(p) ==
    /\ pc[p] = "read"
    /\ tab' = [tab EXCEPT ![p] = utab]
    /\ Goto(p, "write")
    /\ UNCHANGED <<op, ready, missing, lock, tableVars, actVars, eventVars, mounted, faults>>

\* Mutant: the lock is kept when the table cannot be read.
ReadFailsLocked(p) ==
    /\ pc[p] = "read"
    /\ Fault(p, "read")
    /\ Goto(p, ToEmit(p))
    /\ UNCHANGED <<op, updVars, lock, tableVars, actVars, eventVars, mounted>>

\* Without a table nothing is written, and the result is still 0.
ReadFails(p) ==
    /\ pc[p] = "read"
    /\ Fault(p, "read")
    /\ mnt_unlock_file(p)
    /\ Goto(p, ToEmit(p))
    /\ UNCHANGED <<op, updVars, tableVars, actVars, eventVars, mounted>>

\* A temporary file is written and renamed to utab.
WriteTable(p) ==
    /\ pc[p] = "write"
    /\ IF Table!Writes(op[p], missing[p], tab[p])
       THEN /\ utab' = Table!mnt_update_table(op[p], missing[p], tab[p])
            /\ written' = written \cup {p}
       ELSE UNCHANGED tableVars
    /\ tab' = [tab EXCEPT ![p] = <<>>]
    /\ mnt_unlock_file(p)
    /\ Goto(p, ToEmit(p))
    /\ UNCHANGED <<op, ready, missing, actVars, eventVars, mounted, faults>>

WriteFails(p) ==
    /\ pc[p] = "write"
    /\ Fault(p, "update")
    /\ tab' = [tab EXCEPT ![p] = <<>>]
    /\ mnt_unlock_file(p)
    /\ Goto(p, "end")
    /\ UNCHANGED <<op, ready, missing, tableVars, actVars, eventVars, mounted>>

-----------------------------------------------------------------------------
(* mnt_update_emit_event() and mnt_update_end()                              *)

EmitOpen(p) ==
    /\ pc[p] = "emit"
    /\ event' = TRUE
    /\ Goto(p, "close")
    /\ UNCHANGED <<op, updVars, lock, tableVars, actVars, emitted, mounted, faults>>

EmitFails(p) ==
    /\ pc[p] = "emit"
    /\ Fault(p, "emit")
    /\ Goto(p, "end")
    /\ UNCHANGED <<op, updVars, lock, tableVars, actVars, eventVars, mounted>>

EmitClose(p) ==
    /\ pc[p] = "close"
    /\ emitted' = emitted \cup {p}
    /\ Goto(p, "end")
    /\ UNCHANGED <<op, updVars, lock, tableVars, actVars, event, mounted, faults>>

EndNothing(p) ==
    /\ pc[p] = "end" /\ act_fd[p] = 0
    /\ Goto(p, "exit")
    /\ UNCHANGED <<op, updVars, lock, tableVars, actVars, eventVars, mounted, faults>>

EndLock(p) ==
    /\ pc[p] = "end" /\ act_fd[p] # 0
    /\ mnt_lock_file(p)
    /\ Goto(p, "unlink")
    /\ UNCHANGED <<op, updVars, tableVars, actVars, eventVars, mounted, faults>>

EndLockFails(p) ==
    /\ pc[p] = "end" /\ act_fd[p] # 0
    /\ mnt_lock_file_fails(p, "end")
    /\ Goto(p, "exit")
    /\ UNCHANGED <<op, updVars, tableVars, actVars, eventVars, mounted>>

\* Mutant: utab.act is removed whoever uses it.
NobodyElseUnchecked(p) == TRUE

\* flock(act_fd, LOCK_EX | LOCK_NB) after LOCK_UN: no other descriptor has a
\* LOCK_SH on the inode.
NobodyElse(p) ==
    /\ \A q \in Proc \ {p} : act_fd[q] # act_fd[p]
    /\ \A q \in Proc : act_fd[p] \notin leaked[q]

EndUnlink(p) ==
    /\ pc[p] = "unlink"
    /\ act' = IF NobodyElse(p) THEN 0 ELSE act
    /\ act_fd' = [act_fd EXCEPT ![p] = 0]
    /\ mnt_unlock_file(p)
    /\ Goto(p, "exit")
    /\ UNCHANGED <<op, updVars, tableVars, inodes, leaked, eventVars, mounted, faults>>

\* mnt_free_update() and the end of the process close what is still open.
Exit(p) ==
    /\ pc[p] = "exit"
    /\ act_fd' = [act_fd EXCEPT ![p] = 0]
    /\ leaked' = [leaked EXCEPT ![p] = {}]
    /\ Goto(p, "done")
    /\ UNCHANGED <<op, updVars, lock, tableVars, act, inodes, eventVars, mounted, faults>>

\* The process is killed: its descriptors are closed, utab.event with them.
Crash(p) ==
    /\ pc[p] \notin Final
    /\ pc[p] = "idle" => Retried(p)
    /\ Fault(p, "crash")
    /\ lock' = IF lock = p THEN NoProc ELSE lock
    /\ tab' = [tab EXCEPT ![p] = <<>>]
    /\ act_fd' = [act_fd EXCEPT ![p] = 0]
    /\ leaked' = [leaked EXCEPT ![p] = {}]
    /\ emitted' = IF pc[p] = "close" THEN emitted \cup {p} ELSE emitted
    /\ Goto(p, "dead")
    /\ UNCHANGED <<op, ready, missing, tableVars, act, inodes, event, mounted>>

-----------------------------------------------------------------------------

Init ==
    /\ op \in Jobs
    /\ pc = [p \in Proc |-> "idle"]
    /\ ready = [p \in Proc |-> FALSE]
    /\ missing = [p \in Proc |-> FALSE]
    /\ tab = [p \in Proc |-> <<>>]
    /\ lock = NoProc
    /\ utab \in Tables
    /\ written = {}
    /\ act = 0 /\ inodes = 0
    /\ act_fd = [p \in Proc |-> 0]
    /\ leaked = [p \in Proc |-> {}]
    /\ event = FALSE
    /\ emitted = {}
    /\ mounted = {}
    /\ faults = {}

\* What the process does when no call fails.
Progress(p) ==
    \/ PrepareUpdate(p) \/ StartLock(p) \/ StartAct(p) \/ StartUnlinks(p)
    \/ Syscall(p) \/ ExecHelper(p) \/ HelperExits(p)
    \/ UpdateTabs(p) \/ mnt_update_already_done(p)
    \/ UpdateLock(p) \/ ReadTable(p) \/ WriteTable(p)
    \/ EmitOpen(p) \/ EmitClose(p)
    \/ EndNothing(p) \/ EndLock(p) \/ EndUnlink(p) \/ Exit(p)

Failure(p) ==
    \/ StartLockFails(p) \/ StartActFails(p) \/ SyscallFails(p) \/ PostFails(p)
    \/ TryAgain(p) \/ UpdateLockFails(p) \/ ReadFails(p) \/ WriteFails(p)
    \/ EmitFails(p) \/ EndLockFails(p) \/ Crash(p)

Next == \E p \in Proc : Progress(p) \/ Failure(p)

Spec == Init /\ [][Next]_vars

\* Every process runs until it blocks; failures just happen.
FairSpec == Spec /\ \A p \in Proc : WF_vars(Progress(p))

-----------------------------------------------------------------------------
(* Properties                                                                *)

\* The types of the variables; in particular descriptors are open on inodes
\* utab.act has had, and only real ones are leaked by mnt_update_start().
TypeOK ==
    /\ op \in Jobs
    /\ pc \in [Proc -> Points]
    /\ ready \in [Proc -> BOOLEAN] /\ missing \in [Proc -> BOOLEAN]
    /\ lock \in Proc \cup {NoProc}
    /\ written \subseteq Proc /\ emitted \subseteq Proc /\ mounted \subseteq Proc
    /\ inodes \in Nat /\ act \in 0 .. inodes
    /\ act_fd \in [Proc -> 0 .. inodes]
    /\ leaked \in [Proc -> SUBSET (1 .. inodes)]
    /\ event \in BOOLEAN
    /\ faults \subseteq Proc \X FaultKinds

\* No update is lost and none is applied to an old copy: whatever is read,
\* modified and renamed by tab_update.c amounts to changing the present table,
\* once per process, also when processes die in between.
NoLostUpdate == Table!Spec

\* utab.act names the very file that each process between mnt_update_start()
\* and mnt_update_end() has marked as used, so that the monitor sees it and a
\* newcomer shares it.  Only the error path of mnt_update_start() breaks this.
ActWhileUsed ==
    AnyFault({"act"}) \/ \A p \in Proc : act_fd[p] # 0 => act = act_fd[p]

\* The last user removes utab.act: mnt_update_end() leaves the file only to
\* others that still use it.  The file survives its users only when one of
\* them was killed, did not get to mnt_update_end() or could not lock.
ActRemoved ==
    \/ act = 0
    \/ AnyFault({"crash", "syscall", "post", "rdonly", "loop", "end"})
    \/ \E p \in Proc : act_fd[p] = act \/ pc[p] = "actfail"

\* Does the operation of q change entries of the mount point path?
Concerns(q, path) ==
    \/ op[q].tgt = path
    \/ op[q].kind = "move" /\ (Table!Below(path, op[q].src) \/ Table!Below(path, op[q].tgt))

\* A mount by a helper that updates utab on its own ends with one entry, which
\* has the options of both, although mnt_update_already_done() looks at utab
\* without the lock and other processes rewrite the file meanwhile.
OneEntryPerMount ==
    \A p \in Proc :
        LET h == op[p].helper
            mine == {i \in DOMAIN utab : utab[i].tgt = op[p].tgt}
        IN  /\ pc[p] = "done" /\ h # NoProc /\ op[p].kind = "mount"
            /\ ~ HasFault(p, FaultKinds) /\ ~ HasFault(h, FaultKinds)
            /\ \A q \in Proc \ {p, h} : ~ Concerns(q, op[p].tgt)
            => \E i \in DOMAIN utab :
                  mine = {i} /\ op[p].opts \cup op[h].opts \subseteq utab[i].opts

\* Every operation that has started comes to its end: nobody waits for ever for
\* utab.lock, for the shared lock of utab.act or for a helper, also when the
\* process that has the lock is killed.
AllFinish == \A p \in Proc : (pc[p] # "idle") ~> (pc[p] \in Final)
=============================================================================
