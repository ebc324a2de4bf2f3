----------------------------- MODULE PtySession -----------------------------
(***************************************************************************)
(* A session of script(1): lib/pty-session.c, the proxy between the user's    *)
(* terminal and a child on a pseudo-terminal, with the callbacks and the end  *)
(* of main() of term-utils/script.c.  One process polls a signalfd, the master *)
(* side of the pty and its stdin; the child reads, writes, stops and exits   *)
(* between any two of its steps.                                            *)
(* What the user types is 1, 2, 3 ...; so is what the child writes.          *)
(***************************************************************************)
EXTENDS Integers, Sequences, SequencesExt, FiniteSetsExt

CONSTANTS
    BUFSIZ,       \* what one read() takes at most
    InRoom, OutRoom,  \* what the line discipline holds in each direction
    Sessions,     \* maxsz: script --output-limit, 0 for none;
                  \* hup: a closed stdin polls as POLLHUP (a pipe), or reads as 0 bytes
    MaxIn, MaxOut, MaxTerms, MaxStops    \* bounds

ASSUME PtyAssumption ==
    /\ BUFSIZ \in Nat \ {0} /\ InRoom \in Nat \ {0} /\ OutRoom \in Nat \ {0}
    /\ Sessions \subseteq [maxsz : Nat, hup : BOOLEAN]
    /\ MaxIn \in Nat /\ MaxOut \in Nat /\ MaxTerms \in Nat /\ MaxStops \in Nat

VARIABLES
    \* the process of script
    pc,           \* control point in ul_pty_proxy_master() and main()
    revents,      \* what the last poll() found
    leaving,      \* poll_timeout is 10 ms, no longer -1
    delivered,    \* delivered_signal
    rc,           \* rc of the loop is not 0
    pty_child,    \* pty->child is a pid, not -1
    ctl_child,    \* ctl.child is a pid, not -1
    stdin_fd,     \* pfd[POLLFD_STDIN].fd is not -1
    buffers,      \* child_buffer_head .. child_buffer_tail: what is left of each
    anything,     \* the current flush of the error path has written something
    stdout, log,  \* written to the terminal, written to the typescript
    logging,      \* the logs are open
    maxsz,        \* ctl.maxsz
    \* what is around it
    child,        \* state of the child process
    sigchld,      \* code of the pending SIGCHLD
    sigterm,      \* a SIGHUP, SIGINT, SIGQUIT or SIGTERM is pending
    typed, stdin, closed, hup,           \* the user's side of stdin
    slave, got,   \* input the child has yet to read, input it has read
    wrote, master,\* output the child has written, output script has yet to read
    stale_kill,   \* ghost: a signal was sent to the pid after it was reaped
    terms, stops

procVars == <<leaving, delivered, rc, pty_child, ctl_child, anything, logging, maxsz>>
inVars == <<stdin_fd, buffers, typed, stdin, closed, hup, slave, got>>
outVars == <<stdout, log, wrote, master>>
childVars == <<child, sigchld, stale_kill, stops>>
termVars == <<sigterm, terms>>
vars == <<pc, revents, procVars, inVars, outVars, childVars, termVars>>

DEF_EOF == 0
Quiet == [signal |-> FALSE, in |-> FALSE, out |-> FALSE, stdin |-> FALSE, hup |-> FALSE]

Upto(n) == [i \in 1..n |-> i]
TakeFirst(s, n) == SubSeq(s, 1, Min({n, Len(s)}))
DropFirst(s, n) == SubSeq(s, n + 1, Len(s))

\* A standard signal that is pending already is not queued a second time.
Chld(code) == IF sigchld = "none" THEN code ELSE sigchld

\* kill(pid, SIGKILL), after a SIGTERM and two seconds.
KillChild ==
    /\ stale_kill' = (stale_kill \/ child = "reaped")
    /\ IF child \in {"run", "stop"}
       THEN child' = "zombie" /\ sigchld' = Chld("exited")
       ELSE UNCHANGED <<child, sigchld>>

-----------------------------------------------------------------------------
(* ul_pty_proxy_master(): the loop *)

\* What poll() reports: POLLOUT is asked for only while buffers are queued.
Events ==
    [signal |-> sigchld # "none" \/ sigterm,
     in     |-> master # <<>>,
     out    |-> buffers # <<>> /\ Len(slave) < InRoom,
     stdin  |-> stdin_fd /\ (stdin # <<>> \/ (closed /\ ~hup)),
     hup    |-> stdin_fd /\ closed /\ hup]

Poll ==
    /\ pc = "poll" /\ ~delivered /\ Events # Quiet
    /\ revents' = Events
    /\ pc' = "signal"
    /\ UNCHANGED <<procVars, inVars, outVars, childVars, termVars>>

\* Mutant: once the child is gone the loop ends, whatever there is to read.
PollTimeoutAtOnce ==
    /\ pc = "poll" /\ ~delivered /\ leaving
    /\ pc' = "left"
    /\ UNCHANGED <<revents, procVars, inVars, outVars, childVars, termVars>>

\* poll() returns 0: only with the leaving timeout, when nothing happens.
PollTimeout ==
    /\ pc = "poll" /\ ~delivered /\ leaving /\ Events = Quiet
    /\ pc' = "left"
    /\ UNCHANGED <<revents, procVars, inVars, outVars, childVars, termVars>>

\* while (!pty->delivered_signal)
LoopEnds ==
    /\ pc = "poll" /\ delivered
    /\ pc' = "left"
    /\ UNCHANGED <<revents, procVars, inVars, outVars, childVars, termVars>>

\* handle_signal(): SIGHUP, SIGINT, SIGQUIT and SIGTERM come out of the signalfd
\* before SIGCHLD.  The child may ignore the SIGTERM.
SignalTerm ==
    /\ revents.signal /\ sigterm
    /\ sigterm' = FALSE
    /\ delivered' = TRUE
    /\ \/ /\ pty_child /\ child = "run"
          /\ child' = "zombie" /\ sigchld' = Chld("exited")
       \/ UNCHANGED <<child, sigchld>>
    /\ stale_kill' = (stale_kill \/ (pty_child /\ child = "reaped"))
    /\ pc' = "master"
    /\ UNCHANGED <<leaving, pty_child, ctl_child>>

\* Mutant: callback_child_die() keeps ctl.child.
ChildDieKeeps ==
    /\ pty_child /\ child = "zombie"
    /\ child' = "reaped" /\ pty_child' = FALSE
    /\ UNCHANGED ctl_child

\* ul_pty_wait_for_child() while the signalfd is open, and callback_child_die().
ChildDie ==
    /\ pty_child /\ child = "zombie"
    /\ child' = "reaped" /\ pty_child' = FALSE /\ ctl_child' = FALSE

\* Mutant: the leaving timeout is not set.
SignalChldStays ==
    /\ revents.signal /\ ~sigterm /\ sigchld # "none"
    /\ sigchld' = "none"
    /\ IF sigchld = "exited" THEN ChildDie ELSE UNCHANGED <<child, pty_child, ctl_child>>
    /\ pc' = IF sigchld = "sigstop" /\ pty_child THEN "sigstop" ELSE "master"
    /\ UNCHANGED <<leaving, sigterm, delivered, stale_kill>>

\* handle_signal(): SIGCHLD.  callback_child_sigstop() stops script itself.
SignalChld ==
    /\ revents.signal /\ ~sigterm /\ sigchld # "none"
    /\ sigchld' = "none"
    /\ IF sigchld = "exited" THEN ChildDie ELSE UNCHANGED <<child, pty_child, ctl_child>>
    /\ leaving' = (leaving \/ ~pty_child')
    /\ pc' = IF sigchld = "sigstop" /\ pty_child THEN "sigstop" ELSE "master"
    /\ UNCHANGED <<sigterm, delivered, stale_kill>>

HandleSignal ==
    /\ pc = "signal"
    /\ \/ SignalTerm
       \/ SignalChld
       \/ /\ ~revents.signal
          /\ pc' = "master"
          /\ UNCHANGED <<leaving, delivered, pty_child, ctl_child, child, sigchld, sigterm,
                         stale_kill>>
    /\ UNCHANGED <<revents, rc, anything, logging, maxsz, inVars, outVars, stops, terms>>

\* callback_child_sigstop(): somebody continues script, and script its child.
Resume ==
    /\ pc = "sigstop"
    /\ IF child = "stop" THEN child' = "run" /\ sigchld' = Chld("continued")
                         ELSE UNCHANGED <<child, sigchld>>
    /\ stale_kill' = (stale_kill \/ child = "reaped")
    /\ pc' = "master"
    /\ UNCHANGED <<revents, procVars, inVars, outVars, stops, termVars>>

\* handle_io() of the master: stdout, then callback_log_stream_activity().
ReadMaster ==
    LET data == TakeFirst(master, BUFSIZ)
        full == maxsz # 0 /\ Len(stdout) + Len(data) >= maxsz
    IN  /\ master' = DropFirst(master, Len(data))
        /\ stdout' = stdout \o data
        /\ log' = IF logging THEN log \o data ELSE log
        /\ logging' = (logging /\ ~full)
        /\ rc' = full

\* The master: the data, and then the flush, whose rc replaces the one of the data.
HandleMaster ==
    /\ pc = "master"
    /\ IF revents.in THEN ReadMaster ELSE UNCHANGED <<stdout, log, logging, rc, master>>
    /\ pc' = IF revents.out THEN "flush" ELSE IF rc' THEN "eof" ELSE "stdin"
    /\ UNCHANGED <<revents, leaving, delivered, pty_child, ctl_child, anything, maxsz, inVars, wrote,
                   childVars, termVars>>

\* Mutant: a buffer that was written in part is dropped whole.
WriteHeadWhole ==
    /\ slave' = slave \o TakeFirst(Head(buffers), InRoom - Len(slave))
    /\ buffers' = Tail(buffers)

\* flush_child_buffers(): one write(); what does not fit stays in the buffer.  (Before
\* an EOF drain_child_buffers() waits until the child has read everything, but no
\* longer than two seconds.)
WriteHead ==
    LET n == Min({InRoom - Len(slave), Len(Head(buffers))})
    IN  /\ slave' = slave \o SubSeq(Head(buffers), 1, n)
        /\ buffers' = IF n = Len(Head(buffers)) THEN Tail(buffers)
                      ELSE <<DropFirst(Head(buffers), n)>> \o Tail(buffers)

CanWrite == buffers # <<>> /\ Len(slave) < InRoom

Flush ==
    /\ pc = "flush"
    /\ IF CanWrite
       THEN WriteHead /\ UNCHANGED <<pc, rc>>
       ELSE pc' = "stdin" /\ rc' = FALSE /\ UNCHANGED <<slave, buffers>>
    /\ UNCHANGED <<revents, leaving, delivered, pty_child, ctl_child, anything, logging, maxsz, stdin_fd,
                   typed, stdin, closed, hup, got, outVars, childVars, termVars>>

\* handle_io() of stdin, where callback_log_stream_activity() tests the output limit too,
\* and the end of stdin, by POLLHUP or a read() of 0 bytes.
HandleStdin ==
    LET data == TakeFirst(stdin, BUFSIZ)
        input == IF revents.stdin /\ data # <<>> THEN <<data>> ELSE <<>>
        full == input # <<>> /\ maxsz # 0 /\ Len(stdout) >= maxsz
        eof == ~full /\ (revents.hup \/ (revents.stdin /\ data = <<>>))
    IN  /\ pc = "stdin"
        /\ stdin' = IF revents.stdin THEN DropFirst(stdin, Len(data)) ELSE stdin
        /\ buffers' = buffers \o input \o (IF eof THEN <<<<DEF_EOF>>>> ELSE <<>>)
        /\ stdin_fd' = (stdin_fd /\ ~eof)
        /\ logging' = (logging /\ ~full)
        /\ rc' = full
        /\ revents' = Quiet
        /\ pc' = IF full THEN "eof" ELSE "poll"
        /\ UNCHANGED <<leaving, delivered, pty_child, ctl_child, anything, maxsz, typed, closed, hup,
                       slave, got, outVars, childVars, termVars>>

\* An error: an EOF for the child, and flushes until one of them writes nothing.
ErrorEof ==
    /\ pc = "eof"
    /\ buffers' = Append(buffers, <<DEF_EOF>>)
    /\ anything' = FALSE
    /\ pc' = "eof_flush"
    /\ UNCHANGED <<revents, leaving, delivered, rc, pty_child, ctl_child, logging, maxsz, stdin_fd, typed,
                   stdin, closed, hup, slave, got, outVars, childVars, termVars>>

ErrorFlush ==
    /\ pc = "eof_flush"
    /\ IF CanWrite
       THEN WriteHead /\ anything' = TRUE /\ UNCHANGED pc
       ELSE /\ anything' = FALSE
            /\ pc' = IF anything THEN "eof_flush" ELSE "left"
            /\ UNCHANGED <<slave, buffers>>
    /\ UNCHANGED <<revents, leaving, delivered, rc, pty_child, ctl_child, logging, maxsz, stdin_fd, typed,
                   stdin, closed, hup, got, outVars, childVars, termVars>>

-----------------------------------------------------------------------------
(* After the loop *)

\* An error ends the child.
Left ==
    /\ pc = "left"
    /\ IF rc /\ pty_child /\ ~delivered THEN KillChild ELSE UNCHANGED <<child, sigchld, stale_kill>>
    /\ revents' = Quiet
    /\ pc' = "unblock"
    /\ UNCHANGED <<procVars, inVars, outVars, stops, termVars>>

\* pty_signals_cleanup() restores the signal mask: a signal that is pending ends script.
SignalsCleanup ==
    /\ pc = "unblock"
    /\ sigterm' = FALSE
    /\ pc' = IF sigterm THEN "killed" ELSE "main"
    /\ UNCHANGED <<revents, procVars, inVars, outVars, childVars, terms>>

\* Mutant: the shell is not killed.
SessionTerminatedSpares ==
    /\ pc = "main" /\ delivered /\ ctl_child
    /\ pc' = "done"
    /\ UNCHANGED <<child, sigchld, stale_kill>>

\* main(): "Session terminated, killing shell..."
SessionTerminated ==
    /\ pc = "main" /\ delivered /\ ctl_child
    /\ KillChild
    /\ pc' = "done"

\* main(): the child is gone already, or the final wait for it ends.
SessionOver ==
    /\ pc = "main" /\ (~ctl_child \/ (~delivered /\ child = "zombie"))
    /\ child' = IF ctl_child THEN "reaped" ELSE child
    /\ pc' = "done"
    /\ UNCHANGED <<sigchld, stale_kill>>

\* ul_pty_cleanup() and logging_done().
MainEnds ==
    /\ SessionTerminated \/ SessionOver
    /\ logging' = FALSE
    /\ UNCHANGED <<revents, leaving, delivered, rc, pty_child, ctl_child, anything, maxsz, inVars,
                   outVars, stops, termVars>>

\* A signal that comes after the mask was restored.
KilledLate ==
    /\ pc = "main" /\ sigterm
    /\ sigterm' = FALSE
    /\ pc' = "killed"
    /\ UNCHANGED <<revents, procVars, inVars, outVars, childVars, terms>>

-----------------------------------------------------------------------------
(* The child, the user and the rest of the system *)

\* The child writes; it blocks while the line discipline is full.
ChildWrite ==
    /\ child = "run" /\ wrote < MaxOut /\ Len(master) < OutRoom
    /\ wrote' = wrote + 1
    /\ master' = Append(master, wrote')
    /\ UNCHANGED <<pc, revents, procVars, inVars, stdout, log, childVars, termVars>>

ChildRead ==
    /\ child = "run" /\ slave # <<>>
    /\ got' = Append(got, Head(slave))
    /\ slave' = Tail(slave)
    /\ UNCHANGED <<pc, revents, procVars, stdin_fd, buffers, typed, stdin, closed, hup, outVars,
                   childVars, termVars>>

\* The child exits, or is killed.
ChildExit ==
    /\ child \in {"run", "stop"}
    /\ child' = "zombie" /\ sigchld' = Chld("exited")
    /\ UNCHANGED <<pc, revents, procVars, inVars, outVars, stale_kill, stops, termVars>>

\* Somebody stops the child, with SIGSTOP or another signal, or continues it.
ChildStop ==
    /\ child = "run" /\ stops < MaxStops
    /\ stops' = stops + 1
    /\ child' = "stop" /\ \E code \in {"sigstop", "sigtstp"} : sigchld' = Chld(code)
    /\ UNCHANGED <<pc, revents, procVars, inVars, outVars, stale_kill, termVars>>

ChildCont ==
    /\ child = "stop"
    /\ child' = "run" /\ sigchld' = Chld("continued")
    /\ UNCHANGED <<pc, revents, procVars, inVars, outVars, stale_kill, stops, termVars>>

Type ==
    /\ ~closed /\ typed < MaxIn
    /\ typed' = typed + 1
    /\ stdin' = Append(stdin, typed')
    /\ UNCHANGED <<pc, revents, procVars, stdin_fd, buffers, closed, hup, slave, got, outVars,
                   childVars, termVars>>

Close ==
    /\ ~closed
    /\ closed' = TRUE
    /\ UNCHANGED <<pc, revents, procVars, stdin_fd, buffers, typed, stdin, hup, slave, got, outVars,
                   childVars, termVars>>

\* A signal for script.
Term ==
    /\ terms < MaxTerms /\ ~sigterm
    /\ terms' = terms + 1
    /\ sigterm' = TRUE
    /\ UNCHANGED <<pc, revents, procVars, inVars, outVars, childVars>>

-----------------------------------------------------------------------------
Init ==
    /\ pc = "poll" /\ revents = Quiet
    /\ leaving = FALSE /\ delivered = FALSE /\ rc = FALSE
    /\ pty_child = TRUE /\ ctl_child = TRUE
    /\ stdin_fd = TRUE /\ buffers = <<>> /\ anything = FALSE
    /\ stdout = <<>> /\ log = <<>> /\ logging = TRUE
    /\ child = "run" /\ sigchld = "none" /\ sigterm = FALSE
    /\ typed = 0 /\ stdin = <<>> /\ closed = FALSE 
    /\ \E s \in Sessions : maxsz = s.maxsz /\ hup = s.hup
    /\ slave = <<>> /\ got = <<>>
    /\ wrote = 0 /\ master = <<>>
    /\ stale_kill = FALSE /\ terms = 0 /\ stops = 0

ul_pty_proxy_master ==
    \/ Poll \/ PollTimeout \/ LoopEnds \/ HandleSignal \/ Resume \/ HandleMaster \/ Flush
    \/ HandleStdin \/ ErrorEof \/ ErrorFlush

Script == ul_pty_proxy_master \/ Left \/ SignalsCleanup \/ MainEnds

\* What happens after the end of script is of no concern.
Around ==
    /\ pc \notin {"done", "killed"}
    /\ \/ KilledLate \/ ChildWrite \/ ChildRead \/ ChildExit \/ ChildStop \/ ChildCont
       \/ Type \/ Close \/ Term

Next == Script \/ Around

\* script is scheduled whenever it can take a step, and one who stopped it continues
\* it.  Nothing is assumed of the child and of the user.
Fairness == WF_vars(Script)

Spec == Init /\ [][Next]_vars /\ Fairness

-----------------------------------------------------------------------------
(* Properties *)

\* What was read from stdin: the child has it, the pty or a buffer.
Input == got \o (slave \o FlattenSeq(buffers))

\* What the user types reaches the child in the order it was typed, with nothing lost
\* or twice while stdin is open, through reads and writes that are cut anywhere; an
\* EOF comes after all the input that was read (schedule_child_write(),
\* flush_child_buffers(), handle_io()).
InputInOrder ==
    \E k \in 0..Len(Input) :
        /\ \A i \in 1..k : Input[i] = i
        /\ \A i \in (k + 1)..Len(Input) : Input[i] = DEF_EOF
        /\ stdin_fd => k + Len(stdin) = typed

\* When the loop ends by itself, because the child is gone, everything that the child
\* wrote is on the terminal and in the typescript: SIGCHLD may come before the last
\* output is read, and the leaving timeout waits for it.
OutputComplete ==
    (pc \in {"main", "done"} /\ ~delivered /\ ~rc)
        => stdout = Upto(wrote) /\ (maxsz = 0 \/ wrote < maxsz => log = stdout)

\* script never leaves a running child behind, whichever way the session ends: the
\* child's exit, an error, a signal.  (It does when a second signal kills script
\* itself.)
NoOrphan == pc = "done" => child \in {"zombie", "reaped"}

\* No signal is sent to the pid of a child that was reaped: both copies of the pid
\* are reset when waitpid() returns it.
NoStaleKill == ~stale_kill

\* Once the user types no more: a SIGCHLD that tells of the end of the child, and a child
\* that was reaped, end the session, whatever input is queued and output unread
\* (handle_signal(), the leaving timeout).  With a stdin that is always readable poll()
\* would never time out (pty-session.c:673, :687).  It is the signal that ends the session
\* and not the child: an exit while the SIGCHLD for a stop or a continuation is pending is
\* not announced again.
TypingEnds == <>[][UNCHANGED <<typed, closed>>]_vars

SessionEnds ==
    TypingEnds =>
        (child = "reaped" \/ (child = "zombie" /\ sigchld = "exited")) ~> (pc \in {"done", "killed"})
=============================================================================
