----------------------------- MODULE UuidClock -----------------------------
(***************************************************************************)
(* get_clock() of libuuid, libuuid/src/gen_uuid.c: the threads of any        *)
(* number of processes draw time stamps for UUIDs from one clock, whose     *)
(* state (clock sequence, last time, adjustment) lives in the file           *)
(* LIBUUID_CLOCK_FILE and is read and rewritten under an exclusive flock(2). *)
(*                                                                         *)
(* Time is the number of microseconds of gettimeofday(); a time stamp is a  *)
(* number of ticks of 100ns, without the constant offset to the Gregorian   *)
(* epoch.                                                                  *)
(***************************************************************************)
EXTENDS Integers, Sequences, FiniteSets

CONSTANTS
    Proc,       \* the threads that generate UUIDs
    NoOfd,      \* no open file description
    SeqMod,     \* number of clock sequences, 2^14 in the code
    Second,     \* microseconds of "last.tv_sec--"
    Nums,       \* the numbers of UUIDs a call asks for
    StartTime, MaxTime,   \* gettimeofday() moves between 1 and MaxTime
    MaxBack,    \* bound on the times the clock is set back
    MaxCalls,   \* bound on the calls
    MaxCrashes  \* bound on the processes that die

ASSUME ClockAssumption ==
    /\ SeqMod \in Nat /\ SeqMod > 2
    /\ Second \in Nat \ {0} /\ Nums \subseteq Nat \ {0}
    /\ StartTime \in Nat /\ MaxTime \in Nat /\ Second < StartTime /\ StartTime <= MaxTime
    /\ MaxBack \in Nat /\ MaxCalls \in Nat /\ MaxCrashes \in Nat
    /\ NoOfd \notin Proc

MAX_ADJUSTMENT == 10
CLOCK_SEQ_CONT == 0      \* the clock sequence reserved for get_clock_cont()

VARIABLES
    now,        \* the system's clock
    file,       \* LIBUUID_CLOCK_FILE: [seq, last, adj], all 0 when empty
    locked,     \* the open file description that has the flock, or NoOfd
    pc, num,    \* of each thread: control point, *num of the call
    state_fd,   \* "init", "open" or "error"
    ofd,        \* the open file description behind state_fd
    clock_seq, last, adjustment,     \* the THREAD_LOCAL clock state
    tv,         \* the gettimeofday() the call settled on
    log,        \* ghost: the ranges of time stamps returned, in order
    calls, back, crashes

threadVars == <<clock_seq, last, adjustment>>
callVars == <<num, tv>>
fdVars == <<state_fd, ofd>>
boundVars == <<calls, back, crashes>>
vars == <<now, file, locked, pc, callVars, fdVars, threadVars, log, boundVars>>

EmptyFile == [seq |-> 0, last |-> 0, adj |-> 0]

Goto(p, there) == pc' = [pc EXCEPT ![p] = there]

\* The call is over, and its locals are gone.
Leave(p) ==
    /\ Goto(p, "idle")
    /\ num' = [num EXCEPT ![p] = 1]
    /\ tv' = [tv EXCEPT ![p] = 0]

\* Mutant: the clock sequence is not advanced past the reserved one but back.
NextSeqStuck(s) == IF (s + 1) % SeqMod = CLOCK_SEQ_CONT THEN s ELSE (s + 1) % SeqMod

\* The next clock sequence; the reserved one is skipped.
NextSeq(s) == IF (s + 1) % SeqMod = CLOCK_SEQ_CONT THEN CLOCK_SEQ_CONT + 1 ELSE (s + 1) % SeqMod

\* A time in ticks.
Ticks(t, a) == t * 10 + a

-----------------------------------------------------------------------------
(* get_clock() *)

\* A call begins; the first one of a thread opens the file (state_fd_init).
Call(p, n) ==
    /\ pc[p] = "idle" /\ calls < MaxCalls
    /\ calls' = calls + 1
    /\ num' = [num EXCEPT ![p] = n]
    /\ IF state_fd[p] = "init"
       THEN \/ /\ state_fd' = [state_fd EXCEPT ![p] = "open"]
               /\ ofd' = [ofd EXCEPT ![p] = p]
            \/ state_fd' = [state_fd EXCEPT ![p] = "error"] /\ UNCHANGED ofd
       ELSE UNCHANGED fdVars
    /\ Goto(p, IF state_fd'[p] = "open" THEN "flock" ELSE "start")
    /\ UNCHANGED <<now, file, locked, threadVars, tv, log, back, crashes>>

\* Mutant: the lock is shared (LOCK_SH).
FlockShared(p) ==
    /\ pc[p] = "flock"
    /\ locked' = ofd[p]
    /\ Goto(p, "read")
    /\ UNCHANGED <<now, file, callVars, fdVars, threadVars, log, boundVars>>

\* flock(LOCK_EX): granted when no other open file description has it.  (EINTR
\* and EAGAIN only repeat the call.)
Flock(p) ==
    /\ pc[p] = "flock" /\ locked \in {NoOfd, ofd[p]}
    /\ locked' = ofd[p]
    /\ Goto(p, "read")
    /\ UNCHANGED <<now, file, callVars, fdVars, threadVars, log, boundVars>>

\* Another error of flock(): this thread goes on without the file, for good.
FlockFails(p) ==
    /\ pc[p] = "flock"
    /\ state_fd' = [state_fd EXCEPT ![p] = "error"]
    /\ ofd' = [ofd EXCEPT ![p] = NoOfd]
    /\ Goto(p, "start")
    /\ UNCHANGED <<now, file, locked, callVars, threadVars, log, boundVars>>

\* fscanf(): an empty file leaves the thread's own state alone; a reserved clock
\* sequence asks for a fresh start.
ReadFile(p) ==
    /\ pc[p] = "read"
    /\ LET valid == file # EmptyFile
           s == IF valid THEN file.seq % SeqMod ELSE clock_seq[p]
       IN /\ clock_seq' = [clock_seq EXCEPT ![p] = s]
          /\ adjustment' = [adjustment EXCEPT ![p] = IF valid THEN file.adj ELSE @]
          /\ last' = [last EXCEPT ![p] = IF s = CLOCK_SEQ_CONT THEN 0
                                         ELSE IF valid THEN file.last ELSE @]
    /\ Goto(p, "start")
    /\ UNCHANGED <<now, file, locked, callVars, fdVars, log, boundVars>>

\* No last time: a random clock sequence, and a last time one second ago.
Start(p) ==
    /\ pc[p] = "start"
    /\ IF last[p] = 0
       THEN /\ \E s \in (0..(SeqMod - 1)) \ {CLOCK_SEQ_CONT} :
                   clock_seq' = [clock_seq EXCEPT ![p] = s]
            /\ last' = [last EXCEPT ![p] = now - Second]
       ELSE UNCHANGED <<clock_seq, last>>
    /\ Goto(p, "try_again")
    /\ UNCHANGED <<now, file, locked, callVars, fdVars, adjustment, log, boundVars>>

\* Mutant: the clock sequence stays when the clock goes back.
ClockWentBackSameSeq(p) ==
    /\ now < last[p]
    /\ adjustment' = [adjustment EXCEPT ![p] = 0]
    /\ last' = [last EXCEPT ![p] = now]
    /\ UNCHANGED clock_seq

\* The clock went back: a new clock sequence.
ClockWentBack(p) ==
    /\ now < last[p]
    /\ clock_seq' = [clock_seq EXCEPT ![p] = NextSeq(@)]
    /\ adjustment' = [adjustment EXCEPT ![p] = 0]
    /\ last' = [last EXCEPT ![p] = now]

\* The same microsecond: the next tick, if there is one.
SameTime(p) ==
    /\ now = last[p] /\ adjustment[p] < MAX_ADJUSTMENT
    /\ adjustment' = [adjustment EXCEPT ![p] = @ + 1]
    /\ UNCHANGED <<clock_seq, last>>

ClockMovedOn(p) ==
    /\ now > last[p]
    /\ adjustment' = [adjustment EXCEPT ![p] = 0]
    /\ last' = [last EXCEPT ![p] = now]
    /\ UNCHANGED clock_seq

\* gettimeofday() and the three cases.  With now = last and the adjustment
\* exhausted none applies: "goto try_again" waits for the clock.
TryAgain(p) ==
    /\ pc[p] = "try_again"
    /\ ClockWentBack(p) \/ SameTime(p) \/ ClockMovedOn(p)
    /\ tv' = [tv EXCEPT ![p] = now]
    /\ Goto(p, "write")
    /\ UNCHANGED <<now, file, locked, num, fdVars, log, boundVars>>

\* What the call stores for the next one: the last tick of its range.
StoredAdjustment(p) ==
    IF num[p] > 1 THEN (adjustment[p] + num[p] - 1) % 10 ELSE adjustment[p]

\* Mutant: the microseconds of a bulk range are not added to the last time.
StoredLastNoCarry(p) == last[p]

StoredLast(p) ==
    IF num[p] > 1 THEN last[p] + (adjustment[p] + num[p] - 1) \div 10 ELSE last[p]

\* Reserve the range, write the file, drop the lock and return.  A thread without
\* the file returns -1 and its time stamps are not accounted for.
WriteFile(p) ==
    /\ pc[p] = "write"
    /\ adjustment' = [adjustment EXCEPT ![p] = StoredAdjustment(p)]
    /\ last' = [last EXCEPT ![p] = StoredLast(p)]
    /\ IF state_fd[p] = "open"
       THEN /\ file' = [seq |-> clock_seq[p], last |-> last'[p], adj |-> adjustment'[p]]
            /\ locked' = IF locked = ofd[p] THEN NoOfd ELSE locked
            /\ log' = Append(log, [seq |-> clock_seq[p], first |-> Ticks(tv[p], adjustment[p]), num |-> num[p]])
       ELSE UNCHANGED <<file, locked, log>>
    /\ Leave(p)
    /\ UNCHANGED <<now, fdVars, clock_seq, boundVars>>

-----------------------------------------------------------------------------
(* The environment *)

Tick ==
    /\ now < MaxTime
    /\ now' = now + 1
    /\ UNCHANGED <<file, locked, pc, callVars, fdVars, threadVars, log, boundVars>>

\* Somebody sets the clock back.
SetBack ==
    /\ back < MaxBack
    /\ \E t \in (Second + 1)..(now - 1) : now' = t
    /\ back' = back + 1
    /\ UNCHANGED <<file, locked, pc, callVars, fdVars, threadVars, log, calls, crashes>>

\* A process dies, and another one takes its place.  Its flock goes with the
\* last descriptor of the open file description.
Crash(p) ==
    /\ crashes < MaxCrashes
    /\ crashes' = crashes + 1
    /\ locked' = IF locked = ofd[p] /\ \A q \in Proc \ {p} : ofd[q] # ofd[p]
                 THEN NoOfd ELSE locked
    /\ state_fd' = [state_fd EXCEPT ![p] = "init"]
    /\ ofd' = [ofd EXCEPT ![p] = NoOfd]
    /\ clock_seq' = [clock_seq EXCEPT ![p] = 0]
    /\ last' = [last EXCEPT ![p] = 0]
    /\ adjustment' = [adjustment EXCEPT ![p] = 0]
    /\ Leave(p)
    /\ UNCHANGED <<now, file, log, calls, back>>

-----------------------------------------------------------------------------
Init ==
    /\ now = StartTime
    /\ file = EmptyFile
    /\ locked = NoOfd
    /\ pc = [p \in Proc |-> "idle"]
    /\ num = [p \in Proc |-> 1]
    /\ state_fd = [p \in Proc |-> "init"]
    /\ ofd = [p \in Proc |-> NoOfd]
    /\ clock_seq = [p \in Proc |-> 0]
    /\ last = [p \in Proc |-> 0]
    /\ adjustment = [p \in Proc |-> 0]
    /\ tv = [p \in Proc |-> 0]
    /\ log = <<>>
    /\ calls = 0
    /\ back = 0
    /\ crashes = 0

get_clock(p) ==
    \/ \E n \in Nums : Call(p, n)
    \/ Flock(p) \/ FlockFails(p) \/ ReadFile(p) \/ Start(p) \/ TryAgain(p) \/ WriteFile(p)

Next ==
    \/ \E p \in Proc : get_clock(p) \/ Crash(p)
    \/ Tick \/ SetBack

Spec == Init /\ [][Next]_vars

-----------------------------------------------------------------------------
(* Properties *)

\* The last time stamp of a range, and the whole range.
End(r) == r.first + r.num - 1

Stamps(r) == r.first .. End(r)

\* Between the read of the file and its rewrite.
Inside(p) == state_fd[p] = "open" /\ pc[p] \in {"read", "start", "try_again", "write"}

FileState == [seq : 0..(SeqMod - 1), last : Nat, adj : 0..MAX_ADJUSTMENT]

StampRange == [seq : 1..(SeqMod - 1), first : Nat, num : Nat \ {0}]

\* Types.  The file never holds an adjustment beyond MAX_ADJUSTMENT, and no time
\* stamp is returned with the reserved clock sequence (gen_uuid.c:297, :319, :339).
TypeOK ==
    /\ now \in Nat
    /\ file \in FileState
    /\ locked \in Proc \union {NoOfd}
    /\ pc \in [Proc -> {"idle", "flock", "read", "start", "try_again", "write"}]
    /\ num \in [Proc -> Nat \ {0}]
    /\ state_fd \in [Proc -> {"init", "open", "error"}]
    /\ ofd \in [Proc -> Proc \union {NoOfd}]
    /\ clock_seq \in [Proc -> 0..(SeqMod - 1)]
    /\ last \in [Proc -> Nat]
    /\ adjustment \in [Proc -> 0..MAX_ADJUSTMENT]
    /\ tv \in [Proc -> Nat]
    /\ log \in Seq(StampRange)
    /\ calls \in Nat /\ back \in Nat /\ crashes \in Nat

\* Two threads are never both between reading the file and rewriting it, also
\* when one of them died or gave up on flock() in between (gen_uuid.c:272, :351).
LockExclusion ==
    \A p, q \in Proc : Inside(p) /\ Inside(q) => p = q

\* At all times the file accounts for every time stamp that was returned: it
\* holds the clock sequence and the last tick of the latest range, whoever wrote
\* it and whoever died since (gen_uuid.c:336-349).
FileAccounts ==
    log # <<>> =>
        LET r == log[Len(log)]
        IN file.seq = r.seq /\ Ticks(file.last, file.adj) = End(r)

\* As long as the clock sequence stays the same the ranges ascend, whatever the
\* clock, the number of UUIDs per call and the order of the threads do: a range
\* starts after the end of every earlier one, or on its last tick when that is
\* also the first tick of a microsecond (gen_uuid.c:312-342).
Ascending ==
    \A i, j \in 1..Len(log) :
        /\ i < j
        /\ \A k \in i..j : log[k].seq = log[i].seq
        => \/ End(log[i]) < log[j].first
           \/ End(log[i]) = log[j].first /\ log[j].first % 10 = 0

\* The ranges up to the k-th that were followed by one with another clock sequence.
SeqChanges(ranges, k) == {m \in 1..(k - 1) : ranges[m].seq # ranges[m + 1].seq}

\* Two ranges with one clock sequence have no time stamp in common except the
\* first tick of a microsecond, until the clock sequences have all been used:
\* ClockWentBack() takes the next one when the clock was set back and also when the
\* last time is ahead of the clock after a bulk request (gen_uuid.c:317-321, :336).
SharedOnlyAtCarry ==
    Cardinality(SeqChanges(log, Len(log))) < SeqMod - 1 =>
        \A i, j \in 1..Len(log) :
            i < j /\ log[i].seq = log[j].seq =>
                \A t \in Stamps(log[i]) \intersect Stamps(log[j]) :
                    t = log[j].first /\ t % 10 = 0
=============================================================================
