------------------------------- MODULE MCFsck -------------------------------
(***************************************************************************)
(* Instances of Fsck: a few fstab tables and command lines that between     *)
(* them meet every case of the scheduler.                                   *)
(***************************************************************************)
EXTENDS Fsck

Fs(pass, type, disk) ==
    [ pass |-> pass, root |-> FALSE, type |-> type, probe |-> "none", opts |-> {},
      exists |-> TRUE, disk |-> disk, stacked |-> FALSE, mounted |-> FALSE, dummy |-> FALSE ]

Root(pass, type, disk) == [Fs(pass, type, disk) EXCEPT !.root = TRUE]
Raid(pass, type, disk) == [Fs(pass, type, disk) EXCEPT !.stacked = TRUE]
Dummy(probe, disk) ==
    [Fs(0, "none", disk) EXCEPT !.probe = probe, !.dummy = TRUE]

\* A root, two partitions and a RAID; the RAID comes after and before them.
TabDisks == << Root(1, "ext4", 1), Fs(2, "ext4", 1), Fs(2, "xfs", 2), Raid(2, "ext4", 3) >>
TabRaidFirst == << Raid(1, "ext4", 3), Fs(1, "ext4", 1), Fs(2, "ext4", 2) >>
\* Passes out of order, a disk that is unknown, and the root in pass 2.
TabPasses == << Fs(3, "ext4", 2), Fs(1, "xfs", 0), Root(2, "ext4", 1) >>
TabUnknown ==
    << Fs(1, "xfs", 1), [Fs(1, "auto", 0) EXCEPT !.probe = "ext4"], Fs(1, "ext4", 2) >>
\* Everything that is skipped.
TabSkips ==
    << Root(1, "ext4", 1), Root(1, "ext4", 1), Fs(0, "ext4", 2),
       [Fs(1, "ext4", 0) EXCEPT !.exists = FALSE, !.opts = {"nofail"}],
       [Fs(1, "ext4", 2) EXCEPT !.opts = {"bind"}], Fs(1, "swap", 2), Fs(1, "zfs", 3),
       [Fs(1, "xfs", 2) EXCEPT !.mounted = TRUE, !.opts = {"ro"}] >>
\* Devices on the command line, two on one disk.
TabDevices ==
    << Fs(0, "ext4", 1), Fs(0, "swap", 2), Dummy("none", 1),
       [Dummy("xfs", 3) EXCEPT !.mounted = TRUE] >>

Default ==
    [ mode |-> "all", serialize |-> FALSE, skip_root |-> FALSE, parallel_root |-> FALSE,
      ignore_mounted |-> FALSE, noexecute |-> FALSE, progress |-> TRUE,
      force_all_parallel |-> FALSE, max_running |-> 0, tlist |-> << >>,
      progs |-> {"ext2", "ext4", "xfs"} ]

OnlyType(neg, t) == << [neg |-> neg, kind |-> "type", val |-> t] >>

Parallel == [Default EXCEPT !.parallel_root = TRUE]

DisksJobs ==
    [opt : {Default, [Parallel EXCEPT !.max_running = 2],
            [Default EXCEPT !.serialize = TRUE],
            [Default EXCEPT !.max_running = -1, !.skip_root = TRUE]},
     tab : {TabDisks}]

OrderJobs ==
    [opt : {Default, Parallel, [Default EXCEPT !.mode = "nothing"],
            [Default EXCEPT !.force_all_parallel = TRUE, !.max_running = 2],
            [Default EXCEPT !.noexecute = TRUE]},
     tab : {TabRaidFirst, TabPasses, TabUnknown}]

SkipJobs ==
    [opt : {Default, [Default EXCEPT !.ignore_mounted = TRUE],
            [Default EXCEPT !.skip_root = TRUE],
            [Default EXCEPT !.tlist = OnlyType("no", "ext4")],
            [Default EXCEPT !.tlist = << [neg |-> "", kind |-> "opt", val |-> "ro"] >>],
            [Default EXCEPT !.tlist = OnlyType("no", "ext4") \o OnlyType("", "xfs")]},
     tab : {TabSkips}]

DeviceJobs ==
    LET dev == [Default EXCEPT !.mode = "devices"]
    IN [opt : {dev, [dev EXCEPT !.serialize = TRUE], [dev EXCEPT !.max_running = 2],
               [dev EXCEPT !.ignore_mounted = TRUE, !.tlist = OnlyType("", "xfs")],
               [dev EXCEPT !.tlist = OnlyType("!", "xfs")],
               [dev EXCEPT !.progs = {"xfs"}]},
        tab : {TabDevices}]

MCJobs == DisksJobs \cup OrderJobs \cup SkipJobs \cup DeviceJobs

MCWaitStatuses ==
    { [kind |-> "exit", bits |-> {1}], [kind |-> "sigint", bits |-> {}],
      [kind |-> "signal", bits |-> {}] }
=============================================================================
