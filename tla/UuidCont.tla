----------------------------- MODULE UuidCont ------------------------------
(***************************************************************************)
(* get_clock_cont() of libuuid, libuuid/src/gen_uuid.c: the "continuous       *)
(* clock" of "uuidd -C".  A daemon hands out consecutive ticks, never ahead  *)
(* of the system's clock, all with the clock sequence CLOCK_SEQ_CONT; what    *)
(* it handed out survives it only through LIBUUID_CLOCK_CONT_FILE, which it   *)
(* writes ahead of use, an interval at a time, and does not lock.            *)
(*                                                                         *)
(* This module is the clock alone, for daemons that live one after the       *)
(* other; Uuidd has the daemons and what keeps them apart.                   *)
(***************************************************************************)
EXTENDS Integers, Sequences

CONSTANTS
    Daemon,          \* the daemon processes
    Nums,            \* the numbers of UUIDs a request asks for
    Interval,        \* ticks written ahead: 10 s in the code
    ClockOffset,     \* max_clock_offset in ticks
    MAX_ADJUSTMENT,  \* 10 in the code
    StartTime, MaxTime,   \* the system's clock, in ticks
    MaxBack          \* bound on the times it is set back

ASSUME ContAssumption ==
    /\ Nums \subseteq Nat \ {0}
    /\ Interval \in Nat \ {0} /\ ClockOffset \in Nat \ {0} /\ MAX_ADJUSTMENT \in Nat
    /\ StartTime \in Nat \ {0} /\ MaxTime \in Nat /\ MaxBack \in Nat

VARIABLES
    now,              \* get_clock_counter()
    contfile,         \* LIBUUID_CLOCK_CONT_FILE, 0 when it is empty
    state_fd,         \* of each daemon: "init", "open" or "error"
    last_clock_reg,   \* the static variables of get_clock_cont()
    saved_clock_reg,
    issued,           \* ghost: the ranges of ticks handed out, in order
    back

staticVars == <<state_fd, last_clock_reg, saved_clock_reg>>
clockVars == <<now, back>>
contVars == <<clockVars, contfile, staticVars, issued>>

\* Mutant: a restarted daemon starts at the current time, whatever the file says.
FirstRegNow == now

\* Where a daemon starts: after what the file accounts for, but not in the past.
FirstReg == IF contfile < now THEN now ELSE contfile

\* The static variables once the file is open.
LastReg(d) == IF state_fd[d] = "init" THEN FirstReg ELSE last_clock_reg[d]
SavedReg(d) == IF state_fd[d] = "init" THEN FirstReg ELSE saved_clock_reg[d]

\* A clock that is further behind than max_clock_offset is pulled up.
Floor(d) == IF LastReg(d) + ClockOffset < now THEN now - ClockOffset ELSE LastReg(d)

Next_clock_reg(d, n) == Floor(d) + n

SetStatics(d, fd, reg, saved) ==
    /\ state_fd' = [state_fd EXCEPT ![d] = fd]
    /\ last_clock_reg' = [last_clock_reg EXCEPT ![d] = reg]
    /\ saved_clock_reg' = [saved_clock_reg EXCEPT ![d] = saved]

\* Mutant: the file is written when it was passed, not when it was reached.
MustSaveLate(d, n) == Next_clock_reg(d, n) > SavedReg(d) + 1

MustSave(d, n) == Next_clock_reg(d, n) >= SavedReg(d)

\* The n ticks from Floor(d) on are handed out, after the file says so.
ContIssue(d, n) ==
    LET next == Next_clock_reg(d, n)
        saved == IF MustSave(d, n) THEN next + Interval ELSE SavedReg(d)
    IN /\ state_fd[d] # "error" /\ next < now + MAX_ADJUSTMENT
       /\ contfile' = IF MustSave(d, n) THEN saved ELSE contfile
       /\ SetStatics(d, "open", next, saved)
       /\ issued' = Append(issued, [first |-> Floor(d), num |-> n])
       /\ UNCHANGED clockVars

\* The clock would run ahead of the system's: -1, the file and the ticks stay.
ContRefuse(d, n) ==
    /\ state_fd[d] # "error" /\ Next_clock_reg(d, n) >= now + MAX_ADJUSTMENT
    /\ SetStatics(d, "open", Floor(d), SavedReg(d))
    /\ UNCHANGED <<clockVars, contfile, issued>>

\* The file cannot be opened, read or written: -1, and this daemon is done with
\* it.  A failed write may have reached the file.
ContFail(d, n) ==
    /\ state_fd[d] # "error"
    /\ \/ state_fd[d] = "init" /\ UNCHANGED contfile
       \/ /\ Next_clock_reg(d, n) < now + MAX_ADJUSTMENT /\ MustSave(d, n)
          /\ contfile' \in {contfile, Next_clock_reg(d, n) + Interval}
    /\ SetStatics(d, "error", 0, 0)
    /\ UNCHANGED <<clockVars, issued>>

ContBroken(d) == state_fd[d] = "error" /\ UNCHANGED contVars

\* The process ends, and its static variables with it.
ContExit(d) == SetStatics(d, "init", 0, 0) /\ UNCHANGED <<clockVars, contfile, issued>>

Tick ==
    /\ now < MaxTime /\ now' = now + 1
    /\ UNCHANGED <<contfile, staticVars, issued, back>>

SetBack ==
    /\ back < MaxBack /\ back' = back + 1
    /\ \E t \in 1..(now - 1) : now' = t
    /\ UNCHANGED <<contfile, staticVars, issued>>

ContInit ==
    /\ now = StartTime /\ back = 0
    /\ contfile = 0
    /\ state_fd = [d \in Daemon |-> "init"]
    /\ last_clock_reg = [d \in Daemon |-> 0]
    /\ saved_clock_reg = [d \in Daemon |-> 0]
    /\ issued = <<>>

\* No other daemon that has the file open is alive.
Alone(d) == \A e \in Daemon \ {d} : state_fd[e] # "open"

ContNext ==
    \/ \E d \in Daemon, n \in Nums :
           Alone(d) /\ (ContIssue(d, n) \/ ContRefuse(d, n) \/ ContFail(d, n))
    \/ \E d \in Daemon : ContBroken(d) \/ ContExit(d)
    \/ Tick \/ SetBack

ContSpec == ContInit /\ [][ContNext]_contVars

-----------------------------------------------------------------------------
(* Properties *)

RangeEnd(r) == r.first + r.num

\* Types.
ContTypeOK ==
    /\ now \in Nat /\ back \in Nat /\ contfile \in Nat
    /\ state_fd \in [Daemon -> {"init", "open", "error"}]
    /\ last_clock_reg \in [Daemon -> Nat] /\ saved_clock_reg \in [Daemon -> Nat]
    /\ issued \in Seq([first : Nat, num : Nat \ {0}])

\* No tick of the continuous clock is handed out twice: not by one daemon, not by
\* its successor after an exit, a crash or a failed write, and not when the
\* system's clock was set back in between (gen_uuid.c:419-447).
ContUnique ==
    \A i, j \in 1..Len(issued) : i < j => RangeEnd(issued[i]) <= issued[j].first

\* The file is ahead of every tick that was handed out, and the daemon that has
\* it open is past all of them, and knows what the file says (gen_uuid.c:441-452).
FileAhead ==
    /\ \A i \in 1..Len(issued) : RangeEnd(issued[i]) <= contfile
    /\ \A d \in Daemon : state_fd[d] = "open" =>
           /\ \A i \in 1..Len(issued) : RangeEnd(issued[i]) <= last_clock_reg[d]
           /\ \/ saved_clock_reg[d] = contfile
              \/ last_clock_reg[d] >= saved_clock_reg[d] /\ saved_clock_reg[d] >= contfile
=============================================================================
