------------------------------- MODULE MCUtab -------------------------------
(* Constants of Utab for TLC.                                                *)
EXTENDS Utab, TLC

CONSTANTS p1, p2, p3

MCProc == {p1, p2, p3}

srv == <<"srv">>
home == <<"home">>
homeSub == <<"home", "sub">>

Job(kind, src, tgt, opts, helper) ==
    [kind |-> kind, src |-> src, tgt |-> tgt, opts |-> opts, helper |-> helper]

Mount(src, tgt, opts) == Job("mount", src, tgt, opts, NoProc)
KernelMount(tgt) == Job("kmount", "dev", tgt, {}, NoProc)
Umount(tgt) == Job("umount", "none", tgt, {}, NoProc)

\* A mount by a helper and an umount; a helper's umount and a mount; mounts, a
\* remount and a move of one tree.
MCJobs ==
    { (p1 :> Job("mount", "nfs", srv, {"x-a", "user"}, p2)
       @@ p2 :> Mount("nfs", srv, {"user"}) @@ p3 :> Umount(home)),
      (p1 :> Job("umount", "none", home, {}, p2)
       @@ p2 :> Umount(home) @@ p3 :> KernelMount(srv)),
      (p1 :> Job("move", home, srv, {}, NoProc)
       @@ p2 :> Job("remount", "sda", homeSub, {"x-b"}, NoProc)
       @@ p3 :> Mount("sdb", home, {"x-c"})) }

MCTables == { <<[src |-> "sda", tgt |-> home, opts |-> {"x-a"}],
                [src |-> "sda", tgt |-> homeSub, opts |-> {"user"}]>> }

\* Helpers mount where utab has no entry.
ASSUME MCFreshMounts == FreshMounts
=============================================================================
