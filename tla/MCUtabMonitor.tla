--------------------------- MODULE MCUtabMonitor ---------------------------
(* Constants of UtabMonitor for TLC.                                         *)
EXTENDS UtabMonitor, TLC

CONSTANTS p1, p2

MCProc == {p1, p2}

srv == <<"srv">>
home == <<"home">>

Job(kind, src, tgt, opts, helper) ==
    [kind |-> kind, src |-> src, tgt |-> tgt, opts |-> opts, helper |-> helper]

\* A mount by a helper; an umount and a mount with user options.
MCJobs ==
    { (p1 :> Job("mount", "nfs", srv, {"x-a", "user"}, p2)
       @@ p2 :> Job("mount", "nfs", srv, {"user"}, NoProc)),
      (p1 :> Job("umount", "none", home, {}, NoProc)
       @@ p2 :> Job("mount", "sdb", srv, {"x-c"}, NoProc)) }

\* An umount and a mount without user options.
MCVeilJobs ==
    { (p1 :> Job("umount", "none", home, {}, NoProc)
       @@ p2 :> Job("kmount", "dev", srv, {}, NoProc)) }

MCTables == { <<[src |-> "sda", tgt |-> home, opts |-> {"x-a"}]>> }
=============================================================================
