------------------------------- MODULE Uuidd -------------------------------
(***************************************************************************)
(* uuidd, misc-utils/uuidd.c.  A daemon that starts takes a lock on the pid   *)
(* file, asks whether a daemon answers on the socket, and if none does        *)
(* replaces the socket by its own.  It serves one connection at a time and   *)
(* removes pid file and socket when it ends.                                *)
(***************************************************************************)
EXTENDS UuidCont, FiniteSets

CONSTANTS
    None, Stale,  \* nobody; the socket of a dead daemon
    MaxStarts, MaxCrashes, MaxRequests      \* bounds

ASSUME UuiddAssumption ==
    /\ None \notin Daemon /\ Stale \notin Daemon /\ None # Stale /\ None # "eof"
    /\ MaxStarts \in Nat /\ MaxCrashes \in Nat /\ MaxRequests \in Nat

VARIABLES
    dpc,          \* of each daemon: control point
    inode,        \* the pid file it opened, numbered in order of creation
    parent,       \* whether the process that daemonised is still there
    backlog,      \* its connections, oldest first; the first is the one served
    reply,        \* what it drew for that connection
    pidfile,      \* the inode at the path of the pid file, 0 if there is none
    pidlock,      \* who has the fcntl() lock of each inode
    socket,       \* whose socket is bound to the path
    heard,        \* of a daemon that asks another: what came back
    orphaned,     \* ghost: the pid file was unlinked under a daemon that starts
    starts, crashes, requests

daemonVars == <<dpc, inode, parent>>
connVars == <<backlog, reply, heard>>
pathVars == <<pidfile, pidlock, socket>>
boundVars == <<starts, crashes, requests>>
vars == <<contVars, daemonVars, connVars, pathVars, orphaned, boundVars>>

Inodes == 1..MaxStarts

\* Between the lock of the pid file and listen().
Starting == {"hello", "asked", "unlink", "bind", "listen"}
\* The socket accepts connections, and the daemon has not begun to leave.
Up == {"fork", "pid", "serve", "reply"}
Listening == Up \union {"unlink_pid", "unlink_socket"}

\* It counts on the lock of the pid file at the path.
OpenedPidfile(d) == dpc[d] \in {"lock"} \union Starting /\ inode[d] = pidfile

Goto(d, there) == dpc' = [dpc EXCEPT ![d] = there]

\* The daemon that a connect() to the path reaches.
Reachable(d) == socket = d /\ dpc[d] \in Listening

Unreachable == \A d \in Daemon : ~Reachable(d)

\* connect() and write(): the request is in the backlog of the daemon.  A request
\* for 0 UUIDs is UUIDD_OP_GETPID.
Connect(d, who, num) ==
    /\ Reachable(d)
    /\ backlog' = [backlog EXCEPT ![d] = Append(@, [who |-> who, num |-> num])]

\* What a connection brings back: the end, the pid, or a range of ticks of the
\* continuous or of the local clock.
Eof == "eof"
Pid == "pid"
Cont == "cont"
Fallback == "local"

Peers(d) == {backlog[d][i].who : i \in 1..Len(backlog[d])}

\* The process of daemon d is gone: the kernel drops its lock (its parent's stays
\* with the parent) and every connection to it ends.  "path" is what it leaves at the
\* socket's path.
Gone(d, path) ==
    /\ Goto(d, "off")
    /\ inode' = [inode EXCEPT ![d] = IF parent[d] THEN @ ELSE 0]
    /\ pidlock' = [i \in Inodes |-> IF pidlock[i] = d /\ ~parent[d] THEN None ELSE pidlock[i]]
    /\ socket' = path
    /\ heard' = [w \in Daemon |->
                      IF w = d THEN None ELSE IF w \in Peers(d) THEN Eof ELSE heard[w]]
    /\ backlog' = [e \in Daemon |->
                      IF e = d THEN <<>>
                      ELSE [i \in 1..Len(backlog[e]) |->
                                IF backlog[e][i].who = d THEN [backlog[e][i] EXCEPT !.who = None]
                                ELSE backlog[e][i]]]
    /\ reply' = [reply EXCEPT ![d] = None]
    /\ ContExit(d)
    /\ UNCHANGED parent

\* A socket that nobody unlinks stays at the path, dead.
LeftSocket(d) == IF socket = d THEN Stale ELSE socket

-----------------------------------------------------------------------------
(* server_loop(): a daemon starts *)

\* create_pidfile(): open(O_CREAT).
OpenPidfile(d) ==
    /\ dpc[d] = "off" /\ ~parent[d] /\ starts < MaxStarts
    /\ starts' = starts + 1
    /\ pidfile' = IF pidfile = 0 THEN starts' ELSE pidfile
    /\ inode' = [inode EXCEPT ![d] = pidfile']
    /\ Goto(d, "lock")
    /\ UNCHANGED <<contVars, parent, connVars, pidlock, socket, orphaned, crashes, requests>>

\* Mutant: the pid file is not locked.
LockPidfileNot(d) ==
    /\ dpc[d] = "lock"
    /\ Goto(d, "hello")
    /\ UNCHANGED <<contVars, inode, parent, connVars, pathVars, orphaned, boundVars>>

\* create_pidfile(): fcntl(F_SETLKW), on the file that was opened, which need no
\* longer be the one at the path.
LockPidfile(d) ==
    /\ dpc[d] = "lock" /\ pidlock[inode[d]] = None
    /\ pidlock' = [pidlock EXCEPT ![inode[d]] = d]
    /\ Goto(d, "hello")
    /\ UNCHANGED <<contVars, inode, parent, connVars, pidfile, socket, orphaned, boundVars>>

\* call_daemon(UUIDD_OP_GETPID): connect() and write, or nobody is there.
Hello(d) ==
    /\ dpc[d] = "hello"
    /\ \/ \E e \in Daemon : Connect(e, d, 0) /\ Goto(d, "asked")
       \/ Unreachable /\ Goto(d, "unlink") /\ UNCHANGED backlog
    /\ UNCHANGED <<contVars, inode, parent, reply, heard, pathVars, orphaned, boundVars>>

\* The daemon died before it answered: as if there was none.
HelloEof(d) ==
    /\ dpc[d] = "asked" /\ heard[d] = Eof
    /\ heard' = [heard EXCEPT ![d] = None]
    /\ Goto(d, "unlink")
    /\ UNCHANGED <<contVars, inode, parent, backlog, reply, pathVars, orphaned, boundVars>>

\* "uuidd daemon is already running"
AlreadyRunning(d) ==
    /\ dpc[d] = "asked" /\ heard[d] = Pid
    /\ Gone(d, LeftSocket(d))
    /\ UNCHANGED <<pidfile, orphaned, boundVars>>

\* timeout_handler(): 30 s for the lock and the answer.
StartTimeout(d) ==
    /\ dpc[d] \in {"lock", "hello", "asked"}
    /\ Gone(d, LeftSocket(d))
    /\ UNCHANGED <<pidfile, orphaned, boundVars>>

\* create_socket(): unlink() of whatever is at the path.
UnlinkOld(d) ==
    /\ dpc[d] = "unlink"
    /\ socket' = None
    /\ Goto(d, "bind")
    /\ UNCHANGED <<contVars, inode, parent, connVars, pidfile, pidlock, orphaned, boundVars>>

\* create_socket(): bind(), which fails if there is a socket again.
Bind(d) ==
    /\ dpc[d] = "bind"
    /\ \/ /\ socket = None /\ socket' = d
          /\ Goto(d, "listen")
          /\ UNCHANGED <<contVars, inode, parent, connVars, pidlock>>
       \/ socket # None /\ Gone(d, LeftSocket(d))
    /\ UNCHANGED <<pidfile, orphaned, boundVars>>

Listen(d) ==
    /\ dpc[d] = "listen"
    /\ Goto(d, "fork")
    /\ UNCHANGED <<contVars, inode, parent, connVars, pathVars, orphaned, boundVars>>

\* create_daemon(), unless -F or -d: the parent keeps the lock, until it exits.
CreateDaemon(d) ==
    /\ dpc[d] = "fork"
    /\ parent' \in {parent, [parent EXCEPT ![d] = TRUE]}
    /\ Goto(d, "pid")
    /\ UNCHANGED <<contVars, inode, connVars, pathVars, orphaned, boundVars>>

ParentExit(d) ==
    /\ parent[d]
    /\ parent' = [parent EXCEPT ![d] = FALSE]
    /\ pidlock' = [pidlock EXCEPT ![inode[d]] = None]
    /\ inode' = [inode EXCEPT ![d] = 0]
    /\ UNCHANGED <<contVars, dpc, connVars, pidfile, socket, orphaned, boundVars>>

\* Mutant: the descriptor of the pid file stays open.
WritePidOpen(d) ==
    /\ dpc[d] = "pid"
    /\ Goto(d, "serve")
    /\ UNCHANGED <<contVars, inode, parent, connVars, pathVars, orphaned, boundVars>>

\* The pid is written and the descriptor closed, which ends the lock of a daemon
\* that did not fork.
WritePid(d) ==
    /\ dpc[d] = "pid"
    /\ pidlock' = [i \in Inodes |-> IF pidlock[i] = d /\ ~parent[d] THEN None ELSE pidlock[i]]
    /\ inode' = [inode EXCEPT ![d] = IF parent[d] THEN @ ELSE 0]
    /\ Goto(d, "serve")
    /\ UNCHANGED <<contVars, parent, connVars, pidfile, socket, orphaned, boundVars>>

-----------------------------------------------------------------------------
(* server_loop(): a daemon serves, and ends *)

\* accept(), read() and the operation.  __uuid_generate_time_internal() falls back
\* to get_clock(), whose ranges have clock sequences of their own.
Serve(d) ==
    /\ dpc[d] = "serve" /\ backlog[d] # <<>>
    /\ LET n == Head(backlog[d]).num
       IN \/ /\ n = 0
             /\ reply' = [reply EXCEPT ![d] = Pid]
             /\ UNCHANGED contVars
          \/ /\ n > 0 /\ ContIssue(d, n)
             /\ reply' = [reply EXCEPT ![d] = Cont]
          \/ /\ n > 0 /\ (ContRefuse(d, n) \/ ContFail(d, n) \/ ContBroken(d))
             /\ reply' = [reply EXCEPT ![d] = Fallback]
    /\ Goto(d, "reply")
    /\ UNCHANGED <<inode, parent, backlog, heard, pathVars, orphaned, boundVars>>

\* write_all() and close().
Reply(d) ==
    /\ dpc[d] = "reply"
    /\ LET who == Head(backlog[d]).who
       IN heard' = IF who = None THEN heard ELSE [heard EXCEPT ![who] = reply[d]]
    /\ backlog' = [backlog EXCEPT ![d] = Tail(@)]
    /\ reply' = [reply EXCEPT ![d] = None]
    /\ Goto(d, "serve")
    /\ UNCHANGED <<contVars, inode, parent, pathVars, orphaned, boundVars>>

\* A signal, or poll() timed out: all_done().
Leave(d) ==
    /\ dpc[d] = "serve"
    /\ Goto(d, "unlink_pid")
    /\ UNCHANGED <<contVars, inode, parent, connVars, pathVars, orphaned, boundVars>>

\* all_done(): unlink() of whatever is at the path.
UnlinkPid(d) ==
    /\ dpc[d] = "unlink_pid"
    /\ pidfile' = 0
    /\ orphaned' = (orphaned \/ \E e \in Daemon \ {d} : OpenedPidfile(e))
    /\ Goto(d, "unlink_socket")
    /\ UNCHANGED <<contVars, inode, parent, connVars, pidlock, socket, boundVars>>

\* unlink() of whatever is at the path, and exit().
UnlinkSocket(d) ==
    /\ dpc[d] = "unlink_socket"
    /\ Gone(d, None)
    /\ UNCHANGED <<pidfile, orphaned, boundVars>>

Crash(d) ==
    /\ dpc[d] # "off" /\ crashes < MaxCrashes
    /\ crashes' = crashes + 1
    /\ Gone(d, LeftSocket(d))
    /\ UNCHANGED <<pidfile, orphaned, starts, requests>>

-----------------------------------------------------------------------------
(* get_uuid_via_daemon(): somebody connects and asks for n UUIDs *)

Request(n) ==
    /\ requests < MaxRequests
    /\ requests' = requests + 1
    /\ \E d \in Daemon : Connect(d, None, n)
    /\ UNCHANGED <<contVars, daemonVars, reply, heard, pathVars, orphaned, starts, crashes>>

-----------------------------------------------------------------------------
Init ==
    /\ ContInit
    /\ dpc = [d \in Daemon |-> "off"]
    /\ inode = [d \in Daemon |-> 0]
    /\ parent = [d \in Daemon |-> FALSE]
    /\ backlog = [d \in Daemon |-> <<>>]
    /\ reply = [d \in Daemon |-> None]
    /\ pidfile = 0
    /\ pidlock = [i \in Inodes |-> None]
    /\ socket = None
    /\ heard = [w \in Daemon |-> None]
    /\ orphaned = FALSE
    /\ starts = 0 /\ crashes = 0 /\ requests = 0

Startup(d) ==
    \/ LockPidfile(d) \/ Hello(d) \/ HelloEof(d) \/ AlreadyRunning(d) \/ UnlinkOld(d)
    \/ Bind(d) \/ Listen(d) \/ CreateDaemon(d) \/ ParentExit(d) \/ WritePid(d)

server_loop(d) == Serve(d) \/ Reply(d) \/ UnlinkPid(d) \/ UnlinkSocket(d)

\* Time is only read by Serve, and passes just before it here.
TimePasses ==
    /\ Tick
    /\ \E d \in Daemon : dpc[d] = "serve" /\ backlog[d] # <<>> /\ Head(backlog[d]).num > 0
    /\ UNCHANGED <<daemonVars, connVars, pathVars, orphaned, boundVars>>

Environment ==
    \/ \E d \in Daemon : OpenPidfile(d) \/ StartTimeout(d) \/ Leave(d) \/ Crash(d)
    \/ \E n \in Nums : Request(n)
    \/ TimePasses

Next ==
    \/ \E d \in Daemon : Startup(d) \/ server_loop(d)
    \/ Environment

\* A daemon that runs goes on.  Starts, time-outs, signals, crashes and requests
\* need not happen.
Fairness == \A d \in Daemon : WF_vars(Startup(d) \/ server_loop(d))

Spec == Init /\ [][Next]_vars /\ Fairness

-----------------------------------------------------------------------------
(* Properties *)

\* Unless a daemon that left unlinked the pid file that another one had open to start
\* with (:311), a daemon that is up is the one the socket's path leads to, hence the
\* only one.  Daemons that start together do not take the path from each other, nor
\* does one that leaves or crashes: the lock keeps them apart until listen(), and who
\* comes later hears of the first (uuidd.c:245, :294, :313, :380).
SocketKept ==
    ~orphaned => \A d \in Daemon : dpc[d] \in Up => socket = d

\* Under the same condition the daemons use the continuous clock one at a time,
\* as UuidCont has it, however their starts overlap.
ContClock == ContInit /\ [][orphaned' \/ ContNext]_contVars

\* Every daemon that starts comes up or gives up, although it waits for the pid
\* file and for an answer; and every connection is answered or closed, whatever
\* dies meanwhile (uuidd.c:243, :380, :563-566).
AllSettle ==
    \A d \in Daemon : /\ dpc[d] = "lock" ~> dpc[d] \in {"off", "serve"}
                      /\ backlog[d] # <<>> ~> backlog[d] = <<>>
=============================================================================
