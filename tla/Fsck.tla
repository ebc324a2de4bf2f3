-------------------------------- MODULE Fsck --------------------------------
(***************************************************************************)
(* The scheduler of fsck(8), disk-utils/fsck.c: one fsck process that walks *)
(* fstab (check_all) or the devices of its command line (main), forks one   *)
(* checker per filesystem, keeps the running ones in instance_list and      *)
(* collects them in wait_one/wait_many, while checkers exit on their own    *)
(* and SIGINT/SIGTERM may arrive at any moment.                             *)
(*                                                                         *)
(* An exit status is the SET of its bits, so the bitwise OR is \cup and     *)
(* FSCK_EX_OK is {}.  A filesystem is its index in the table being walked.  *)
(***************************************************************************)
EXTENDS Integers, Sequences

CONSTANTS
    Jobs,         \* the invocations: records [opt, tab], see Opt and Entry
    WaitStatuses, \* the ways a checker may end, see WaitStatus
    MaxSignals    \* bound on the SIGINT/SIGTERM deliveries of a behaviour

FSCK_EX_NONDESTRUCT == 1
FSCK_EX_UNCORRECTED == 4
FSCK_EX_ERROR == 8
FSCK_EX_USAGE == 16

StatusBits == {1, 2, 4, 8, 16, 32, 128}

\* What wait4() reports: an exit status, death by SIGINT, or by another signal.
WaitStatus == [kind : {"exit", "sigint", "signal"}, bits : SUBSET StatusBits]

\* A line of fstab, or a device argument with what lookup() found for it.
Entry == [ pass    : Nat,        \* fs_passno
           root    : BOOLEAN,    \* the mount point is "/"
           type    : STRING,     \* the type field, "auto", or "none"
           probe   : STRING,     \* what mnt_get_fstype() sees, or "none"
           opts    : SUBSET STRING,
           exists  : BOOLEAN,    \* device_exists()
           disk    : Nat,        \* whole-disk devno, 0 when unknown
           stacked : BOOLEAN,    \* the whole disk has slaves (RAID, dm)
           mounted : BOOLEAN,
           dummy   : BOOLEAN ]   \* made by add_dummy_fs()

\* One item of the -t list; kind "opt" is "opts=..." and the "loop" shorthand.
TypeItem == [neg : {"", "no", "!"}, kind : {"type", "opt"}, val : STRING]

Opt == [ mode               : {"all", "nothing", "devices"},
         serialize          : BOOLEAN,
         skip_root          : BOOLEAN,
         parallel_root      : BOOLEAN,
         ignore_mounted     : BOOLEAN,
         noexecute          : BOOLEAN,
         progress           : BOOLEAN,
         force_all_parallel : BOOLEAN,
         max_running        : Int,
         tlist              : Seq(TypeItem),
         progs              : SUBSET STRING ]  \* types with a fsck.<type> in PATH

ASSUME JobsAssumption == Jobs \subseteq [opt : Opt, tab : Seq(Entry)]
ASSUME WaitStatusesAssumption == WaitStatuses \subseteq WaitStatus
ASSUME MaxSignalsAssumption == MaxSignals \in Nat

VARIABLES
    opt, tab,                          \* this invocation, never assigned again
    pc,                                \* where the process is
    passno, not_done_yet, pass_done, itr, status,     \* check_all / main
    done, evald,                       \* fsck_fs_data: done, disk looked up
    instance_list, num_running, progress,   \* progress: owners of FLAG_PROGRESS
    wflags, nohang, gstatus, ret,      \* wait_many: flags, WNOHANG, result, caller
    child, wstat,                      \* the checkers and their wait statuses
    helper,                            \* forked helpers that deliver SIGUSR1
    cancel_requested, kill_sent, termed, \* termed: checkers sent SIGTERM
    eintr, nsig                        \* wait4 was interrupted; signals so far

jobVars == <<opt, tab>>
walkVars == <<passno, not_done_yet, pass_done, itr>>
dataVars == <<done, evald>>
instVars == <<instance_list, num_running, progress>>
waitVars == <<wflags, nohang, gstatus, ret>>
procVars == <<child, wstat, helper>>
sigVars == <<cancel_requested, kill_sent, termed, eintr, nsig>>
vars == <<jobVars, pc, walkVars, status, dataVars, instVars, waitVars, procVars, sigVars>>

Idx == 1..Len(tab)
Listed == {instance_list[k] : k \in DOMAIN instance_list}

-----------------------------------------------------------------------------
(* Which filesystems are checked, and by which program. *)

ExtTypes == {"ext2", "ext3", "ext4", "ext4dev"}
ReallyWanted == {"minix", "jfs", "reiserfs"} \cup ExtTypes
IgnoredTypes == {"ignore", "iso9660", "sw"}
IrregularTypes == {"swap", "nfs", "proc"}   \* external: !mnt_fs_is_regularfs()

fs_check_required(t) == t \in ReallyWanted
find_fsck(t) == t \in opt.progs

\* The type of a line, probed when it is "auto" or missing ("none": not found).
fs_interpret_type(e) == IF e.type \in {"auto", "none"} THEN e.probe ELSE e.type

fs_ignored_type(t) == t \in IrregularTypes \/ t \in IgnoredTypes

TypeItems(tl) == {k \in DOMAIN tl : tl[k].kind = "type"}

\* compile_fs_type() exits with a usage error when negated and plain types mix.
MixedNegation(tl) ==
    \E j, k \in TypeItems(tl) : (tl[j].neg = "") # (tl[k].neg = "")

fs_match(e, tl) ==
    /\ \A k \in DOMAIN tl \ TypeItems(tl) : (tl[k].neg = "") <=> (tl[k].val \in e.opts)
    /\ \/ TypeItems(tl) = {}
       \/ LET hit == \E k \in TypeItems(tl) : tl[k].val = fs_interpret_type(e)
          IN hit <=> (\A k \in TypeItems(tl) : tl[k].neg = "")

ignore(e) ==
    \/ e.pass = 0
    \/ "bind" \in e.opts
    \/ ~e.exists /\ "nofail" \in e.opts
    \/ ~fs_match(e, opt.tlist)
    \/ fs_interpret_type(e) = "none"
    \/ fs_ignored_type(fs_interpret_type(e))
    \/ ~find_fsck(fs_interpret_type(e))

\* The type whose checker fsck_device() runs: the line's own, else a single -t
\* type, else DEFAULT_FSTYPE.  A single "!type" is taken verbatim: no program.
checker_type(e) ==
    LET t == fs_interpret_type(e)
    IN IF t # "none" THEN t
       ELSE IF Len(opt.tlist) = 1 /\ opt.tlist[1].neg = "!" THEN "unknown"
       ELSE IF Len(opt.tlist) = 1 /\ opt.tlist[1].neg = "" /\ opt.tlist[1].kind = "type"
            THEN opt.tlist[1].val
       ELSE "ext2"

ShowsProgress(i) == checker_type(tab[i]) \in ExtTypes

Serialize == opt.serialize \/ opt.mode = "nothing"

AtLimit(n) == opt.max_running # 0 /\ n >= opt.max_running

is_skipped_mounted(i) == opt.ignore_mounted /\ tab[i].mounted

-----------------------------------------------------------------------------
(* Disks. fs_get_disk(fs, 0) only knows a disk that was looked up before. *)

known_disk(i) == IF i \in evald THEN tab[i].disk ELSE 0

known_stacked(i) == i \in evald /\ tab[i].disk # 0 /\ tab[i].stacked

\* A stacked device is running (it is alone, so it heads the list).
stacked_active ==
    instance_list # << >> /\ known_stacked(Head(instance_list))

\* Mutant: a running checker of an unknown disk does not keep others waiting.
disk_already_active_KnownOnly(i) ==
    /\ ~opt.force_all_parallel
    /\ \/ stacked_active
       \/ IF tab[i].disk = 0 \/ tab[i].stacked
          THEN instance_list # << >>
          ELSE \E j \in Listed : known_disk(j) = tab[i].disk

disk_already_active(i) ==
    /\ ~opt.force_all_parallel
    /\ \/ stacked_active
       \/ IF tab[i].disk = 0 \/ tab[i].stacked
          THEN instance_list # << >>
          ELSE \E j \in Listed : known_disk(j) \in {0, tab[i].disk}

\* The lookup disk_already_active() leaves in the fsck_fs_data.
evald_after(i) ==
    IF opt.force_all_parallel \/ stacked_active THEN evald ELSE evald \cup {i}

-----------------------------------------------------------------------------
(* Starting checkers, signalling them, and calling wait_many. *)

NoWaitStatus == [kind |-> "none", bits |-> {}]

\* execute(): fork a checker for i and put it at the end of the list.  The first
\* ext* checker takes the progress bar.
execute(i) ==
    /\ instance_list' = Append(instance_list, i)
    /\ num_running' = num_running + 1
    /\ progress' = IF opt.progress /\ ShowsProgress(i) /\ progress = {}
                   THEN progress \cup {i} ELSE progress
    /\ child' = [child EXCEPT ![i] = IF opt.noexecute THEN "fake" ELSE "run"]
    /\ UNCHANGED <<status, wstat, helper>>

\* Mutant: a failed fork is counted as a running instance.
fsck_device_CountsFailed(i) ==
    /\ find_fsck(checker_type(tab[i]))
    /\ \/ execute(i)
       \/ /\ ~opt.noexecute
          /\ status' = status \cup {FSCK_EX_ERROR}
          /\ num_running' = num_running + 1
          /\ UNCHANGED <<instance_list, progress, procVars>>

\* fsck_device(): no program (an error only if one is really wanted), a failed
\* fork, or a checker that runs.
fsck_device(i) ==
    LET t == checker_type(tab[i])
    IN \/ /\ ~find_fsck(t)
          /\ status' = IF fs_check_required(t) THEN status \cup {FSCK_EX_ERROR} ELSE status
          /\ UNCHANGED <<instVars, procVars>>
       \/ /\ find_fsck(t) /\ ~opt.noexecute      \* fork() fails
          /\ status' = status \cup {FSCK_EX_ERROR}
          /\ UNCHANGED <<instVars, procVars>>
       \/ find_fsck(t) /\ execute(i)

kill_all == termed' = termed \cup {i \in Listed : child[i] # "fake"}

\* The two places that forward the cancellation to the checkers, once.
KillIfCanceled ==
    IF cancel_requested /\ ~kill_sent
    THEN kill_all /\ kill_sent' = TRUE
    ELSE UNCHANGED <<termed, kill_sent>>

\* Call wait_many(flags), or wait_one(0) for "single", and go on at r.
CallWait(flags, r) ==
    /\ wflags' = flags /\ nohang' = FALSE /\ gstatus' = {} /\ ret' = r
    /\ pc' = "wait"

\* wait_many() is back in its caller.
ReturnFromWait ==
    /\ status' = status \cup gstatus
    /\ pc' = ret

-----------------------------------------------------------------------------
(* check_all() *)

\* main(): parse_argv(), which ends fsck if compile_fs_type() rejects the list of -t, and
\* the dispatch.
ParseArgv ==
    /\ pc = "start"
    /\ IF MixedNegation(opt.tlist)
       THEN pc' = "exit" /\ status' = {FSCK_EX_USAGE}
       ELSE pc' = (IF opt.mode = "devices" THEN "dev" ELSE "scan") /\ UNCHANGED status
    /\ UNCHANGED <<jobVars, walkVars, dataVars, instVars, waitVars, procVars, sigVars>>

\* The initial scan: ignored filesystems are done before anything starts.
InitialScan ==
    /\ pc = "scan"
    /\ done' = {i \in Idx : ignore(tab[i])}
    /\ pc' = "root"
    /\ UNCHANGED <<jobVars, walkVars, status, evald, instVars, waitVars, procVars, sigVars>>

Roots == {i \in Idx : tab[i].root}
IsFirstRoot(r) == r \in Roots /\ \A i \in Roots : r <= i

\* The entries that the root phase marks done besides the first root.
AfterRoot(d) == IF opt.skip_root THEN d \cup Roots ELSE d

CheckRoot ==
    /\ pc = "root"
    /\ \E r \in Idx :
         /\ ~opt.parallel_root /\ IsFirstRoot(r)
         /\ ~opt.skip_root /\ r \notin done /\ ~is_skipped_mounted(r)
         /\ fsck_device(r)
    /\ CallWait("all", "rootend")
    /\ UNCHANGED <<jobVars, walkVars, dataVars, sigVars>>

\* Mutant: a root with errors left uncorrected does not stop the walk.
RootEndLenient ==
    /\ pc = "rootend"
    /\ IF status \subseteq {FSCK_EX_NONDESTRUCT, FSCK_EX_UNCORRECTED}
       THEN /\ done' = AfterRoot(done \cup {r \in Idx : IsFirstRoot(r)})
            /\ pc' = "pass"
       ELSE pc' = "exit" /\ UNCHANGED done
    /\ UNCHANGED <<jobVars, walkVars, status, evald, instVars, waitVars, procVars, sigVars>>

RootEnd ==
    /\ pc = "rootend"
    /\ IF status \subseteq {FSCK_EX_NONDESTRUCT}
       THEN /\ done' = AfterRoot(done \cup {r \in Idx : IsFirstRoot(r)})
            /\ pc' = "pass"
       ELSE pc' = "exit" /\ UNCHANGED done
    /\ UNCHANGED <<jobVars, walkVars, status, evald, instVars, waitVars, procVars, sigVars>>

SkipRootCheck ==
    /\ pc = "root"
    /\ LET first == {r \in Idx : ~opt.parallel_root /\ IsFirstRoot(r)}
       IN /\ \A r \in first : opt.skip_root \/ r \in done \/ is_skipped_mounted(r)
          /\ done' = AfterRoot(done \cup first)
    /\ pc' = "pass"
    /\ UNCHANGED <<jobVars, walkVars, status, evald, instVars, waitVars, procVars, sigVars>>

PassBegin ==
    /\ pc = "pass" /\ not_done_yet
    /\ not_done_yet' = FALSE /\ pass_done' = TRUE /\ itr' = 1
    /\ pc' = "fs"
    /\ UNCHANGED <<jobVars, passno, status, dataVars, instVars, waitVars, procVars, sigVars>>

\* The walk ends: all lines seen, or the cancellation seen at the loop's head.
WalkEnd ==
    /\ pc = "fs"
    /\ itr > Len(tab) \/ cancel_requested
    /\ pc' = "walked"
    /\ UNCHANGED <<jobVars, walkVars, status, dataVars, instVars, waitVars, procVars, sigVars>>

\* Mutant: the walk does not look at cancel_requested.
AtFsUncanceled == pc = "fs" /\ itr <= Len(tab)

AtFs == pc = "fs" /\ itr <= Len(tab) /\ ~cancel_requested

SkipDone ==
    /\ AtFs /\ itr \in done
    /\ itr' = itr + 1
    /\ UNCHANGED <<jobVars, pc, passno, not_done_yet, pass_done, status, dataVars, instVars,
                   waitVars, procVars, sigVars>>

DeferPass ==
    /\ AtFs /\ itr \notin done /\ tab[itr].pass > passno
    /\ not_done_yet' = TRUE /\ itr' = itr + 1
    /\ UNCHANGED <<jobVars, pc, passno, pass_done, status, dataVars, instVars,
                   waitVars, procVars, sigVars>>

IsDue == AtFs /\ itr \notin done /\ tab[itr].pass <= passno

SkipMounted ==
    /\ IsDue /\ is_skipped_mounted(itr)
    /\ done' = done \cup {itr} /\ itr' = itr + 1
    /\ UNCHANGED <<jobVars, pc, passno, not_done_yet, pass_done, status, evald, instVars,
                   waitVars, procVars, sigVars>>

\* Mutant: a filesystem that waits for its disk does not keep the pass open.
DeferDiskForgets ==
    /\ IsDue /\ ~is_skipped_mounted(itr)
    /\ disk_already_active(itr)
    /\ evald' = evald_after(itr)
    /\ itr' = itr + 1
    /\ UNCHANGED <<jobVars, pc, passno, not_done_yet, pass_done, status, done, instVars,
                   waitVars, procVars, sigVars>>

DeferDisk ==
    /\ IsDue /\ ~is_skipped_mounted(itr)
    /\ disk_already_active(itr)
    /\ evald' = evald_after(itr)
    /\ pass_done' = FALSE /\ itr' = itr + 1
    /\ UNCHANGED <<jobVars, pc, passno, not_done_yet, status, done, instVars,
                   waitVars, procVars, sigVars>>

\* Mutant: a filesystem whose checker could not be started is tried again.
SpawnRetries ==
    /\ IsDue /\ ~is_skipped_mounted(itr)
    /\ ~disk_already_active(itr)
    /\ evald' = evald_after(itr)
    /\ fsck_device(itr)
    /\ done' = IF num_running' > num_running THEN done \cup {itr} ELSE done
    /\ IF Serialize \/ AtLimit(num_running')
       THEN pass_done' = FALSE /\ pc' = "walked" /\ UNCHANGED itr
       ELSE itr' = itr + 1 /\ UNCHANGED <<pass_done, pc>>
    /\ UNCHANGED <<jobVars, passno, not_done_yet, waitVars, sigVars>>

\* Spawn a checker; with -s or at FSCK_MAX_INST the walk stops there.
Spawn ==
    /\ IsDue /\ ~is_skipped_mounted(itr)
    /\ ~disk_already_active(itr)
    /\ evald' = evald_after(itr)
    /\ fsck_device(itr)
    /\ done' = done \cup {itr}
    /\ IF Serialize \/ AtLimit(num_running')
       THEN pass_done' = FALSE /\ pc' = "walked" /\ UNCHANGED itr
       ELSE itr' = itr + 1 /\ UNCHANGED <<pass_done, pc>>
    /\ UNCHANGED <<jobVars, passno, not_done_yet, waitVars, sigVars>>

\* After a walk: leave on cancellation, else wait for the whole pass when
\* nothing was deferred by a disk or a limit, for one checker otherwise.
WaitAfterWalk ==
    /\ pc = "walked"
    /\ IF cancel_requested
       THEN pc' = "final" /\ UNCHANGED waitVars
       ELSE CallWait(IF pass_done THEN "all" ELSE "one", "passend")
    /\ UNCHANGED <<jobVars, walkVars, status, dataVars, instVars, procVars, sigVars>>

\* Mutant: the pass number moves on after every walk.
PassEndAlwaysNext ==
    /\ pc = "passend"
    /\ passno' = passno + 1
    /\ not_done_yet' = (not_done_yet \/ ~pass_done)
    /\ pc' = "pass"
    /\ UNCHANGED <<jobVars, pass_done, itr, status, dataVars, instVars, waitVars, procVars, sigVars>>

PassEnd ==
    /\ pc = "passend"
    /\ IF pass_done
       THEN passno' = passno + 1 /\ UNCHANGED not_done_yet
       ELSE not_done_yet' = TRUE /\ UNCHANGED passno
    /\ pc' = "pass"
    /\ UNCHANGED <<jobVars, pass_done, itr, status, dataVars, instVars, waitVars, procVars, sigVars>>

AllPassesDone ==
    /\ pc = "pass" /\ ~not_done_yet
    /\ pc' = "final"
    /\ UNCHANGED <<jobVars, walkVars, status, dataVars, instVars, waitVars, procVars, sigVars>>

\* The end of check_all(): it waits for one checker and for those that have
\* already exited, not for all.
FinalWait ==
    /\ pc = "final"
    /\ KillIfCanceled
    /\ CallWait("one", "exit")
    /\ UNCHANGED <<jobVars, walkVars, status, dataVars, instVars, procVars,
                   cancel_requested, eintr, nsig>>

-----------------------------------------------------------------------------
(* The device loop of main() *)

AtDev == pc = "dev" /\ itr <= Len(tab) /\ ~cancel_requested

is_skipped_device(i) ==
    \/ ~tab[i].dummy /\ fs_ignored_type(tab[i].type)
    \/ is_skipped_mounted(i)

SkipDevice ==
    /\ AtDev /\ is_skipped_device(itr)
    /\ itr' = itr + 1
    /\ UNCHANGED <<jobVars, pc, passno, not_done_yet, pass_done, status, dataVars, instVars,
                   waitVars, procVars, sigVars>>

SpawnDevice ==
    /\ AtDev /\ ~is_skipped_device(itr)
    /\ fsck_device(itr)
    /\ itr' = itr + 1
    /\ IF Serialize \/ AtLimit(num_running')
       THEN CallWait("single", "dev")
       ELSE UNCHANGED <<pc, waitVars>>
    /\ UNCHANGED <<jobVars, passno, not_done_yet, pass_done, dataVars, sigVars>>

DevicesEnd ==
    /\ pc = "dev"
    /\ cancel_requested \/ itr > Len(tab)
    /\ IF itr <= Len(tab) THEN KillIfCanceled ELSE UNCHANGED <<termed, kill_sent>>
    /\ CallWait("all", "exit")
    /\ UNCHANGED <<jobVars, walkVars, status, dataVars, instVars, procVars,
                   cancel_requested, eintr, nsig>>

-----------------------------------------------------------------------------
(* wait_one() and wait_many() *)

\* Mutant: wait_many() returns the status of the last instance only.
CollectedLastOnly(bits) ==
    /\ num_running' = num_running - 1
    /\ IF wflags = "single"
       THEN status' = status \cup bits /\ pc' = ret /\ UNCHANGED <<gstatus, nohang>>
       ELSE /\ gstatus' = bits
            /\ nohang' = (nohang \/ wflags = "one")
            /\ pc' = "wait"
            /\ UNCHANGED status
    /\ UNCHANGED <<wflags, ret>>

\* One instance was collected: wait_many() goes round, with WNOHANG from now on
\* if one was enough; the device loop's wait_one() returns.
Collected(bits) ==
    /\ num_running' = num_running - 1
    /\ IF wflags = "single"
       THEN /\ status' = status \cup bits
            /\ pc' = ret
            /\ UNCHANGED <<gstatus, nohang>>
       ELSE /\ gstatus' = gstatus \cup bits
            /\ nohang' = (nohang \/ wflags = "one")
            /\ pc' = "wait"
            /\ UNCHANGED status
    /\ UNCHANGED <<wflags, ret>>

WaitNothing ==
    /\ pc = "wait" /\ instance_list = << >>
    /\ ReturnFromWait
    /\ UNCHANGED <<jobVars, walkVars, dataVars, instVars, waitVars, procVars, sigVars>>

\* -N: nothing was forked, the head of the list is "finished".
WaitFake ==
    /\ pc = "wait" /\ instance_list # << >> /\ opt.noexecute
    /\ LET i == Head(instance_list)
       IN /\ instance_list' = Tail(instance_list)
          /\ child' = [child EXCEPT ![i] = "reaped"]
          /\ progress' = progress \ {i}
    /\ Collected({})
    /\ UNCHANGED <<jobVars, walkVars, dataVars, wstat, helper, sigVars>>

\* Enter wait4().  A signal from here on interrupts it; an earlier one does not.
EnterWait4 ==
    /\ pc = "wait" /\ instance_list # << >> /\ ~opt.noexecute
    /\ pc' = "wait4" /\ eintr' = FALSE
    /\ UNCHANGED <<jobVars, walkVars, status, dataVars, instVars, waitVars, procVars,
                   cancel_requested, kill_sent, termed, nsig>>

\* The status that wait_one() makes of a wait status.
exit_status(w) ==
    CASE w.kind = "exit" -> w.bits
      [] w.kind = "sigint" -> {FSCK_EX_UNCORRECTED}
      [] OTHER -> {FSCK_EX_ERROR}

\* Mutant: the bar is dropped with its owner.
HandOverNobody(i, rest) == progress' = progress \ {i} /\ UNCHANGED helper

\* The finished owner of the progress bar passes it to the first other ext*
\* checker of the list, through a helper process or (one second later) directly.
HandOver(i, rest) ==
    LET heirs == {k \in DOMAIN rest : ShowsProgress(rest[k])}
    IN IF progress = {i} /\ heirs # {}
       THEN \E k \in heirs :
              /\ \A m \in heirs : k <= m
              /\ progress' = {rest[k]}
              /\ helper' \in {helper, [helper EXCEPT ![rest[k]] = "run"]}
       ELSE progress' = progress \ {i} /\ UNCHANGED helper

\* The list without its k-th instance.
unlinked(s, k) == SubSeq(s, 1, k - 1) \o SubSeq(s, k + 1, Len(s))

\* wait4() returned the pid of the k-th instance.
Reap(k) ==
    /\ pc = "wait4"
    /\ LET i == instance_list[k]
       IN /\ child[i] = "zombie"
          /\ child' = [child EXCEPT ![i] = "reaped"]
          /\ instance_list' = unlinked(instance_list, k)
          /\ HandOver(i, instance_list')
          /\ Collected(exit_status(wstat[i]))
    /\ KillIfCanceled
    /\ UNCHANGED <<jobVars, walkVars, dataVars, wstat, cancel_requested, eintr, nsig>>

\* wait4() collected a child that is no instance: wait again.
ReapHelper(i) ==
    /\ pc = "wait4" /\ helper[i] = "zombie"
    /\ KillIfCanceled
    /\ helper' = [helper EXCEPT ![i] = "reaped"]
    /\ eintr' = FALSE
    /\ UNCHANGED <<jobVars, pc, walkVars, status, dataVars, instVars, waitVars, child, wstat,
                   cancel_requested, nsig>>

\* EINTR: forward the cancellation and call wait4() again.
Interrupted ==
    /\ pc = "wait4" /\ eintr /\ ~nohang
    /\ KillIfCanceled
    /\ eintr' = FALSE
    /\ UNCHANGED <<jobVars, pc, walkVars, status, dataVars, instVars, waitVars, procVars,
                   cancel_requested, nsig>>

\* With WNOHANG and no exited child, wait_one() returns NULL.
NothingExited ==
    /\ pc = "wait4" /\ nohang
    /\ \A i \in Idx : child[i] # "zombie" /\ helper[i] # "zombie"
    /\ KillIfCanceled
    /\ ReturnFromWait
    /\ UNCHANGED <<jobVars, walkVars, dataVars, instVars, waitVars, procVars,
                   cancel_requested, eintr, nsig>>

-----------------------------------------------------------------------------
(* The environment: signals, checkers and helpers. *)

\* signal_cancel()
Signal ==
    /\ pc # "exit" /\ nsig < MaxSignals
    /\ cancel_requested' = TRUE /\ nsig' = nsig + 1
    /\ eintr' = (pc = "wait4")
    /\ UNCHANGED <<jobVars, pc, walkVars, status, dataVars, instVars, waitVars, procVars,
                   kill_sent, termed>>

\* A checker exits, or dies of SIGINT or of another signal.
CheckerExits(i) ==
    /\ i \in Idx /\ child[i] = "run"
    /\ \E w \in WaitStatuses : wstat' = [wstat EXCEPT ![i] = w]
    /\ child' = [child EXCEPT ![i] = "zombie"]
    /\ UNCHANGED <<jobVars, pc, walkVars, status, dataVars, instVars, waitVars, helper, sigVars>>

HelperExits(i) ==
    /\ i \in Idx /\ helper[i] = "run"
    /\ helper' = [helper EXCEPT ![i] = "zombie"]
    /\ UNCHANGED <<jobVars, pc, walkVars, status, dataVars, instVars, waitVars, child, wstat, sigVars>>

Exited == pc = "exit" /\ UNCHANGED vars

-----------------------------------------------------------------------------
Init ==
    /\ \E j \in Jobs : opt = j.opt /\ tab = j.tab
    /\ pc = "start"
    /\ passno = 1 /\ not_done_yet = TRUE /\ pass_done = FALSE /\ itr = 1
    /\ status = {}
    /\ done = {} /\ evald = {}
    /\ instance_list = << >> /\ num_running = 0 /\ progress = {}
    /\ wflags = "all" /\ nohang = FALSE /\ gstatus = {} /\ ret = "exit"
    /\ child = [i \in Idx |-> "none"]
    /\ wstat = [i \in Idx |-> NoWaitStatus]
    /\ helper = [i \in Idx |-> "none"]
    /\ cancel_requested = FALSE /\ kill_sent = FALSE /\ termed = {}
    /\ eintr = FALSE /\ nsig = 0

CheckAllStep ==
    \/ InitialScan \/ CheckRoot \/ RootEnd \/ SkipRootCheck
    \/ PassBegin \/ WalkEnd \/ SkipDone \/ DeferPass \/ SkipMounted \/ DeferDisk \/ Spawn
    \/ WaitAfterWalk \/ PassEnd \/ AllPassesDone \/ FinalWait

DeviceStep == SkipDevice \/ SpawnDevice \/ DevicesEnd

WaitStep ==
    \/ WaitNothing \/ WaitFake \/ EnterWait4 \/ Interrupted \/ NothingExited
    \/ \E k \in DOMAIN instance_list : Reap(k)
    \/ \E i \in Idx : ReapHelper(i)

FsckStep == ParseArgv \/ CheckAllStep \/ DeviceStep \/ WaitStep

Next ==
    \/ FsckStep
    \/ Signal
    \/ \E i \in Idx : CheckerExits(i) \/ HelperExits(i)
    \/ Exited

\* The process keeps running, and every checker and helper exits in the end.
Fairness ==
    /\ WF_vars(FsckStep)
    /\ WF_vars(\E i \in Idx : CheckerExits(i))
    /\ WF_vars(\E i \in Idx : HelperExits(i))

Spec == Init /\ [][Next]_vars /\ Fairness

-----------------------------------------------------------------------------
(* Properties *)

CheckingAll == opt.mode # "devices"

\* instance_list holds exactly the checkers that were started and not collected,
\* each once, and num_running counts them; so wait4(-1) always has a child to
\* wait for ("wait: no more child process?!?" is unreachable).
InstancesTracked ==
    /\ Listed = {i \in Idx : child[i] \in {"run", "zombie", "fake"}}
    /\ \A j, k \in DOMAIN instance_list : instance_list[j] = instance_list[k] => j = k
    /\ num_running = Len(instance_list)

\* fsck -A never runs two checkers on one disk, and runs a checker of a stacked
\* device, or of a device whose disk is unknown, alone (disk_already_active).
DiskExclusive ==
    CheckingAll /\ ~opt.force_all_parallel =>
        \A i, j \in Listed : i # j =>
            /\ tab[i].disk # tab[j].disk
            /\ tab[i].disk # 0 /\ ~tab[i].stacked

\* While a filesystem is checked, every filesystem of a lower fs_passno is
\* finished or skipped (the root, checked first, is exempt).
PassOrder ==
    CheckingAll =>
        \A i \in Listed, j \in Idx :
            tab[j].pass < tab[i].pass /\ ~(IsFirstRoot(i) /\ ~opt.parallel_root)
                => j \in done /\ j \notin Listed

\* Without -P, a root filesystem whose check left more than corrected errors
\* stops fsck -A before any other check starts.
RootGate ==
    \A r \in Idx :
        /\ CheckingAll /\ ~opt.parallel_root /\ IsFirstRoot(r)
        /\ child[r] = "reaped" /\ ~opt.noexecute
        /\ ~(exit_status(wstat[r]) \subseteq {FSCK_EX_NONDESTRUCT})
        => \A i \in Idx \ {r} : child[i] = "none"

\* With -C exactly one of the running ext* checkers owns the progress bar.
ProgressBar ==
    LET ext == {i \in Listed : ShowsProgress(i)}
    IN ~opt.noexecute =>
        /\ progress \subseteq ext
        /\ opt.progress /\ ext # {} => \E i \in ext : progress = {i}

\* Once the cancellation was forwarded, no checker still in the list missed it:
\* nothing is started between kill_all() and the exit.
CancelReachesAll == kill_sent /\ ~opt.noexecute => Listed \subseteq termed

StartedStatus(i) == IF child[i] = "none" THEN {} ELSE exit_status(wstat[i])

\* If it was not canceled, fsck exits with no checker left behind, and with the
\* bitwise OR of their exit statuses (plus an error for each that did not start).
ExitStatusIsOr ==
    pc = "exit" /\ ~cancel_requested /\ ~opt.noexecute =>
        LET all == UNION {StartedStatus(i) : i \in Idx}
        IN /\ \A i \in Idx : child[i] \in {"none", "reaped"}
           /\ all \subseteq status
           /\ status \subseteq all \cup {FSCK_EX_ERROR, FSCK_EX_USAGE}

MustCheck(i) ==
    /\ ~ignore(tab[i]) /\ ~is_skipped_mounted(i)
    /\ ~(opt.skip_root /\ tab[i].root)

\* A fsck -A that was not canceled and did not stop at the root has checked every
\* selected filesystem of every pass, or reports an error.
AllChecked ==
    pc = "exit" /\ ~cancel_requested /\ CheckingAll /\ status \subseteq {FSCK_EX_NONDESTRUCT} =>
        \A i \in Idx : MustCheck(i) => child[i] = "reaped"

\* fsck always comes to its end, canceled or not, if the checkers do.
Terminates == <>(pc = "exit")
=============================================================================
