---------------------------- MODULE UtabMonitor ----------------------------
(***************************************************************************)
(* A program that watches the mount table with the monitor of libmount       *)
(* (libmount/src/monitor.c, monitor_mountinfo.c, monitor_utab.c), while the  *)
(* processes of Utab mount and umount.  Kernel events are veiled, as by      *)
(* mnt_monitor_veil_kernel(): one that is read while utab.act exists is      *)
(* dropped, in the hope of an event of utab later.                           *)
(*                                                                         *)
(* The program creates the monitor, reads the tables, and reads them again   *)
(* after each change that mnt_monitor_next_change() reports.                 *)
(***************************************************************************)
EXTENDS Utab

VARIABLES
    mpc,        \* control point of the program
    watch,      \* what inotify watches: "none", "dir" or "file" (utab.event)
    kread,      \* the kernel changes whose edges have been taken from epoll
    cread,      \* the writes of utab.event before the last read or add_watch
    dread,      \* the size of /run/mount's history at that moment
    seen        \* the changes the program knows: [kernel, utab]

monitorVars == <<mpc, watch, kread, cread, dread, seen>>
allVars == <<vars, monitorVars>>

\* The number of files created in /run/mount: utab.act, the temporary files of
\* utab, utab.event.
Creations == inodes + Cardinality(written) + (IF event THEN 1 ELSE 0)

\* epoll reports mountinfo (EPOLLET) once per change, and inotify (level
\* triggered) as long as it has something to read.
KernelReady == kread # mounted
UtabReady ==
    \/ watch = "file" /\ cread # emitted
    \/ watch = "dir" /\ dread # Creations

-----------------------------------------------------------------------------
(* mnt_monitor_get_fd(): monitor_modify_epoll() for mountinfo and for utab   *)

AddMountinfo ==
    /\ mpc = "mountinfo"
    /\ kread' = mounted
    /\ mpc' = "watch"
    /\ UNCHANGED <<vars, watch, cread, dread, seen>>

\* userspace_add_watch() tries utab.event ...
WatchFile ==
    /\ mpc = "watch"
    /\ IF event THEN watch' = "file" /\ cread' = emitted /\ mpc' = "drain"
                ELSE mpc' = "watchdir" /\ UNCHANGED <<watch, cread>>
    /\ UNCHANGED <<vars, kread, dread, seen>>

\* ... and then its directory.
WatchDir ==
    /\ mpc = "watchdir"
    /\ watch' = "dir" /\ dread' = Creations
    /\ mpc' = "drain"
    /\ UNCHANGED <<vars, kread, cread, seen>>

\* "while (epoll_wait(mn->fd, events, 1, 0) > 0);" takes the edge of mountinfo,
\* but never reads from inotify.
Drain ==
    /\ mpc = "drain"
    /\ kread' = mounted
    /\ mpc' = IF UtabReady THEN "drain" ELSE "read"
    /\ UNCHANGED <<vars, watch, cread, dread, seen>>

-----------------------------------------------------------------------------
(* mnt_monitor_wait(), mnt_monitor_next_change(): read_epoll_events()        *)

veiled == act # 0

mountinfo_process_event ==
    /\ mpc = "wait" /\ KernelReady
    /\ kread' = mounted
    /\ mpc' = IF veiled THEN "wait" ELSE "read"
    /\ UNCHANGED <<vars, watch, cread, dread, seen>>

\* Mutant: the creation of utab.event is consumed and the caller is not told.
userspace_process_event_Quiet ==
    /\ mpc = "wait" /\ UtabReady
    /\ watch' = IF event THEN "file" ELSE "dir"
    /\ cread' = emitted
    /\ dread' = Creations
    /\ mpc' = IF watch = "file" THEN "read" ELSE "wait"
    /\ UNCHANGED <<vars, kread, seen>>

\* In the directory only utab.event counts, which is watched from now on.
userspace_process_event ==
    /\ mpc = "wait" /\ UtabReady
    /\ watch' = IF event THEN "file" ELSE "dir"
    /\ cread' = emitted
    /\ dread' = Creations
    /\ mpc' = IF event THEN "read" ELSE "wait"
    /\ UNCHANGED <<vars, kread, seen>>

\* The program reads mountinfo and utab.
ReadTables ==
    /\ mpc = "read"
    /\ seen' = [kernel |-> mounted, utab |-> written]
    /\ mpc' = "wait"
    /\ UNCHANGED <<vars, watch, kread, cread, dread>>

-----------------------------------------------------------------------------

MonitorInit ==
    /\ Init
    /\ mpc = "mountinfo" /\ watch = "none"
    /\ kread = {} /\ cread = {} /\ dread = 0
    /\ seen = [kernel |-> {}, utab |-> {}]

Monitor ==
    \/ AddMountinfo \/ WatchFile \/ WatchDir \/ Drain
    \/ mountinfo_process_event \/ userspace_process_event \/ ReadTables

MonitorNext ==
    \/ \E p \in Proc : (Progress(p) \/ Failure(p)) /\ UNCHANGED monitorVars
    \/ Monitor

MonitorSpec ==
    /\ MonitorInit /\ [][MonitorNext]_allVars
    /\ \A p \in Proc : WF_allVars(Progress(p) /\ UNCHANGED monitorVars)
    /\ WF_allVars(Monitor)

-----------------------------------------------------------------------------
(* Properties                                                                *)

Watching == mpc \in {"read", "wait"}

\* Every rewriting of utab reaches a program that watches, also when it comes
\* while utab.event does not exist yet or is only being watched: unless the
\* process that is to emit the event is killed, cannot open utab.event or fails
\* to add its options to what its helper wrote.
UtabChangeSeen ==
    (Watching /\ written # seen.utab)
        ~> (written = seen.utab \/ AnyFault({"crash", "emit", "update"}))

\* The changes of announced operations the program missed so far.
Unseen == {p \in mounted \ seen.kernel : ready[p]}

\* utab.event was created after userspace_add_watch() had not found it and before
\* it watched the directory, and nothing was created there since.
MissedCreation == watch = "dir" /\ event /\ dread = Creations

\* "Force monitor to ignore kernel events if the same mount/umount operation
\* will generate an userspace event later" (monitor_mountinfo.c): the kernel
\* change of an operation announced by utab.act reaches the program, veiled or
\* not, unless an operation breaks off on its way to utab.event or the creation
\* of that file was missed.
AnnouncedChangeSeen ==
    (Watching /\ Unseen # {})
        ~> \/ Unseen = {}
           \/ AnyFault({"crash", "emit", "post", "update"})
           \/ MissedCreation

\* mnt_monitor_get_fd() "Returns: >=0 (fd) on success, <0 on error" (monitor.c):
\* it does return, whatever happens in /run/mount meanwhile.
GetFdReturns == <> Watching
=============================================================================
