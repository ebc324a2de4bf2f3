---------------------------- MODULE FlockProofs ----------------------------
(***************************************************************************)
(* Proofs about the two users of an exclusive flock(2).  FsckLock, for any   *)
(* set of processes and disks: a checker that runs under the lock is alone   *)
(* on its disk.  UuidClock, for any number of threads, any clock and any     *)
(* numbers of UUIDs per call: the flock serialises the threads, the file     *)
(* accounts for every time stamp, and the ranges ascend.                     *)
(***************************************************************************)
EXTENDS FsckLock, UuidClock, TLAPS

-----------------------------------------------------------------------------
(* fsck -l *)

\* Every step of any fsck -l process keeps the types of the variables.
LEMMA LockTypeCorrect == LockSpec => []LockTypeOK
<1>1. LockInit => LockTypeOK
  BY DiskAssumption, MaxSignalsAssumption DEF LockInit, LockTypeOK
<1>2. LockTypeOK /\ [LockNext]_lockVars => LockTypeOK'
  <2> SUFFICES ASSUME LockTypeOK, [LockNext]_lockVars PROVE LockTypeOK'
    BY Zenon
  <2> USE DiskAssumption, MaxSignalsAssumption DEF LockTypeOK, Lockable, MoveTo
  <2>1. ASSUME NEW p \in FsckProc, Step(p) PROVE LockTypeOK'
    <3>1. CASE SkipLock(p) BY <3>1, Zenon DEF SkipLock, sigVars
    <3>2. CASE OpenFails(p) BY <3>2, Zenon DEF OpenFails, sigVars
    <3>3. CASE OpenLock(p) BY <3>3, Zenon DEF OpenLock, sigVars
    <3>4. CASE TryLock(p) BY <3>4, ZenonT(30) DEF TryLock, GrantLock, sigVars
    <3>5. CASE TryLockFails(p) BY <3>5, Zenon DEF TryLockFails, sigVars
    <3>6. CASE FlockDisk(p) BY <3>6, ZenonT(30) DEF FlockDisk, GrantLock, sigVars
    <3>7. CASE FlockInterrupted(p) BY <3>7, Zenon DEF FlockInterrupted, sigVars
    <3>8. CASE ForkChecker(p) BY <3>8, Zenon DEF ForkChecker, sigVars
    <3>9. CASE ForkFails(p) BY <3>9, Zenon DEF ForkFails, unlock_disk, sigVars
    <3>10. CASE EnterWait4(p) BY <3>10, Zenon DEF EnterWait4, sigVars
    <3>11. CASE Interrupted(p) BY <3>11, Zenon DEF Interrupted, ForwardCancel
    <3>12. CASE Reap(p) BY <3>12, Zenon DEF Reap, ForwardCancel, unlock_disk
    <3>. QED BY <2>1, <3>1, <3>2, <3>3, <3>4, <3>5, <3>6, <3>7, <3>8, <3>9, <3>10,
                <3>11, <3>12, Zenon DEF Step
  <2>2. ASSUME NEW p \in FsckProc, Signal(p) PROVE LockTypeOK'
    BY <2>2 DEF Signal
  <2>3. ASSUME NEW p \in FsckProc, CheckerExits(p) PROVE LockTypeOK'
    BY <2>3, Zenon DEF CheckerExits, sigVars
  <2>4. CASE Exited BY <2>4, Zenon DEF Exited, lockVars, sigVars
  <2>5. CASE UNCHANGED lockVars BY <2>5, Zenon DEF lockVars, sigVars
  <2>. QED BY <2>1, <2>2, <2>3, <2>4, <2>5, Zenon DEF LockNext
<1>. QED BY <1>1, <1>2, PTL DEF LockSpec

-----------------------------------------------------------------------------
\* LockHeld is inductive on top of the types: the flock is taken before the fork
\* and nothing but the process's own unlock_disk() gives it up.
THEOREM LockHeldInvariant == LockSpec => []LockHeld
<1>1. LockInit => LockHeld
  BY ZenonT(30) DEF LockInit, LockHeld
<1>2. LockTypeOK /\ LockHeld /\ [LockNext]_lockVars => LockHeld'
  <2> SUFFICES ASSUME LockTypeOK, LockHeld, [LockNext]_lockVars PROVE LockHeld'
    BY Zenon
  <2> USE DiskAssumption DEF LockTypeOK, LockHeld, Lockable, MoveTo
  <2>1. ASSUME NEW p \in FsckProc, Step(p) PROVE LockHeld'
    <3>1. CASE SkipLock(p) BY <3>1, Zenon DEF SkipLock, sigVars
    <3>2. CASE OpenFails(p) BY <3>2, Zenon DEF OpenFails, sigVars
    <3>3. CASE OpenLock(p) BY <3>3, Zenon DEF OpenLock, sigVars
    <3>4. CASE TryLock(p) BY <3>4 DEF TryLock, GrantLock, sigVars
    <3>5. CASE TryLockFails(p) BY <3>5, Zenon DEF TryLockFails, sigVars
    <3>6. CASE FlockDisk(p) BY <3>6 DEF FlockDisk, GrantLock, sigVars
    <3>7. CASE FlockInterrupted(p) BY <3>7, Zenon DEF FlockInterrupted, sigVars
    <3>8. CASE ForkChecker(p) BY <3>8, Zenon DEF ForkChecker, sigVars
    <3>9. CASE ForkFails(p) BY <3>9, Zenon DEF ForkFails, unlock_disk, sigVars
    <3>10. CASE EnterWait4(p) BY <3>10, Zenon DEF EnterWait4, sigVars
    <3>11. CASE Interrupted(p) BY <3>11, Zenon DEF Interrupted, ForwardCancel
    <3>12. CASE Reap(p) BY <3>12, ZenonT(30) DEF Reap, ForwardCancel, unlock_disk
    <3>. QED BY <2>1, <3>1, <3>2, <3>3, <3>4, <3>5, <3>6, <3>7, <3>8, <3>9, <3>10,
                <3>11, <3>12, Zenon DEF Step
  <2>2. ASSUME NEW p \in FsckProc, Signal(p) PROVE LockHeld'
    BY <2>2, Zenon DEF Signal
  <2>3. ASSUME NEW p \in FsckProc, CheckerExits(p) PROVE LockHeld'
    BY <2>3, Zenon DEF CheckerExits, sigVars
  <2>4. CASE Exited BY <2>4, Zenon DEF Exited, lockVars, sigVars
  <2>5. CASE UNCHANGED lockVars BY <2>5, Zenon DEF lockVars, sigVars
  <2>. QED BY <2>1, <2>2, <2>3, <2>4, <2>5, Zenon DEF LockNext
<1>. QED BY <1>1, <1>2, LockTypeCorrect, PTL DEF LockSpec

\* fsck -l processes that obtained their lock never check one disk at a time.
THEOREM LockedExclusion == LockSpec => []LockedExclusive
<1>1. LockHeld => LockedExclusive
  <2> SUFFICES ASSUME LockHeld, NEW p \in FsckProc, NEW q \in FsckProc,
                      p # q, DiskOf[p] = DiskOf[q],
                      checker[p] = "run", checker[q] = "run", lock[p], lock[q]
               PROVE  FALSE
    BY Zenon DEF LockedExclusive
  <2>1. holder[DiskOf[p]] = p /\ holder[DiskOf[q]] = q
    BY Zenon DEF LockHeld
  <2>. QED BY <2>1, Zenon
<1>. QED BY <1>1, LockHeldInvariant, PTL

-----------------------------------------------------------------------------
(* get_clock() *)

\* A thread uses an open file description of its own, and is past flock() only
\* with the lock.
LockInv ==
    \A p \in Proc :
        /\ ofd[p] = IF state_fd[p] = "open" THEN p ELSE NoOfd
        /\ pc[p] \in {"flock", "read"} => state_fd[p] = "open"
        /\ Inside(p) => locked = p

\* Times are positive, so 0 does mean "no last time", and a thread with a last
\* time has a clock sequence other than the reserved one.
TimeInv ==
    /\ now > Second
    /\ \A p \in Proc :
        /\ last[p] # 0 => clock_seq[p] # CLOCK_SEQ_CONT
        /\ pc[p] \in {"try_again", "write"} => last[p] # 0
        /\ pc[p] = "write" => tv[p] = last[p]

\* The file is empty until the first range is returned.
FileInv ==
    /\ log = <<>> => file = EmptyFile
    /\ log # <<>> => file.seq # CLOCK_SEQ_CONT /\ file.last # 0

\* The tick t may follow the last tick e of a range.
MayFollow(e, t) == e < t \/ (e = t /\ t % 10 = 0)

\* The thread that has the lock carries on where the file stands.
HolderInv ==
    \A p \in Proc :
        state_fd[p] = "open" /\ log # <<>> =>
            /\ pc[p] \in {"start", "try_again"} =>
                   clock_seq[p] = file.seq /\ last[p] = file.last /\ adjustment[p] = file.adj
            /\ pc[p] = "write" =>
                   \/ clock_seq[p] # file.seq
                   \/ MayFollow(Ticks(file.last, file.adj), Ticks(tv[p], adjustment[p]))

ClockInv == FileInv /\ HolderInv /\ FileAccounts /\ Ascending

-----------------------------------------------------------------------------
\* The next clock sequence is another one, and not the reserved one.
LEMMA NextSeqFact ==
    ASSUME NEW s \in 0..(SeqMod - 1)
    PROVE  NextSeq(s) \in 1..(SeqMod - 1) /\ (s # 0 => NextSeq(s) # s)
<1>1. (s + 1) % SeqMod = IF s + 1 = SeqMod THEN 0 ELSE s + 1
  BY ClockAssumption, SMT
<1>. QED BY <1>1, ClockAssumption DEF NextSeq, CLOCK_SEQ_CONT

\* What a call stores is the last tick of its range (gen_uuid.c:336-342).
LEMMA StoredFact ==
    ASSUME NEW l \in Nat, NEW a \in 0..10, NEW n \in Nat \ {0}
    PROVE  LET sa == IF n > 1 THEN (a + n - 1) % 10 ELSE a
               sl == IF n > 1 THEN l + (a + n - 1) \div 10 ELSE l
           IN sa \in 0..10 /\ sl \in Nat /\ sl >= l /\ Ticks(sl, sa) = Ticks(l, a) + n - 1
<1>1. PICK m \in Nat : m = a + n - 1
  OBVIOUS
<1>2. m % 10 \in 0..9 /\ m \div 10 \in Nat
  OBVIOUS
<1>3. m = 10 * (m \div 10) + (m % 10)
  OBVIOUS
<1>. QED BY <1>1, <1>2, <1>3 DEF Ticks

-----------------------------------------------------------------------------
\* The types, and that times are positive.
LEMMA TypesAndTimes == Spec => [](TypeOK /\ TimeInv)
<1>1. Init => TypeOK /\ TimeInv
  <2>1. EmptyFile \in FileState
    BY ClockAssumption DEF EmptyFile, FileState, MAX_ADJUSTMENT
  <2>. QED BY <2>1, ClockAssumption DEF Init, TypeOK, TimeInv, MAX_ADJUSTMENT
<1>2. TypeOK /\ TimeInv /\ [Next]_vars => TypeOK' /\ TimeInv'
  <2> SUFFICES ASSUME TypeOK, TimeInv, [Next]_vars PROVE TypeOK' /\ TimeInv'
    BY Zenon
  <2> USE ClockAssumption DEF TypeOK, TimeInv, Goto, MAX_ADJUSTMENT, CLOCK_SEQ_CONT,
          threadVars, callVars, fdVars, boundVars
  <2>1. ASSUME NEW p \in Proc, get_clock(p) PROVE TypeOK' /\ TimeInv'
    <3>1. ASSUME NEW n \in Nums, Call(p, n) PROVE TypeOK' /\ TimeInv'
      <4>1. n \in Nat \ {0} /\ state_fd'[p] \in {"init", "open", "error"}
        BY <3>1, Zenon DEF Call
      <4>2. state_fd' \in [Proc -> {"init", "open", "error"}] /\ ofd' \in [Proc -> Proc \union {NoOfd}]
        BY <3>1, ZenonT(30) DEF Call
      <4>3. TypeOK'
        <5>1. num' \in [Proc -> Nat \ {0}] /\ calls' \in Nat
          BY <3>1, <4>1 DEF Call
        <5>2. pc' \in [Proc -> {"idle", "flock", "read", "start", "try_again", "write"}]
          BY <3>1, <4>1, Zenon DEF Call
        <5>. QED BY <3>1, <4>2, <5>1, <5>2, Zenon DEF Call
      <4>4. TimeInv'
        BY <3>1, Zenon DEF Call
      <4>. QED BY <4>3, <4>4, ZenonT(30)
    <3>2. CASE Flock(p) BY <3>2, Zenon DEF Flock
    <3>3. CASE FlockFails(p) BY <3>3, Zenon DEF FlockFails
    <3>4. CASE ReadFile(p)
      <4>1. file.last \in Nat /\ file.adj \in 0..10 /\ file.seq % SeqMod \in 0..(SeqMod - 1)
        BY SMT DEF FileState
      <4>2. TypeOK'
        BY <3>4, <4>1, Zenon DEF ReadFile
      <4>3. TimeInv'
        BY <3>4, <4>1, Zenon DEF ReadFile
      <4>. QED BY <4>2, <4>3, ZenonT(30)
    <3>5. CASE Start(p)
      <4>1. now - Second \in Nat \ {0}
        OBVIOUS
      <4>2. last' \in [Proc -> Nat] /\ clock_seq' \in [Proc -> 0..(SeqMod - 1)]
        <5>1. CASE last[p] = 0
          <6>1. PICK s \in 0..(SeqMod - 1) : clock_seq' = [clock_seq EXCEPT ![p] = s]
            BY <3>5, <5>1, Zenon DEF Start
          <6>2. last' = [last EXCEPT ![p] = now - Second]
            BY <3>5, <5>1, Zenon DEF Start
          <6>. QED BY <4>1, <6>1, <6>2, Zenon
        <5>. QED BY <3>5, <5>1, Zenon DEF Start
      <4>3. TypeOK'
        BY <3>5, <4>2, ZenonT(30) DEF Start
      <4>4. TimeInv'
        BY <3>5, <4>1, <4>2, ZenonT(30) DEF Start
      <4>. QED BY <4>3, <4>4, ZenonT(30)
    <3>6. CASE TryAgain(p)
      <4>1. NextSeq(clock_seq[p]) \in 1..(SeqMod - 1)
        BY NextSeqFact, Zenon
      <4>2. CASE ClockWentBack(p) BY <3>6, <4>1, <4>2, SMTT(30) DEF TryAgain, ClockWentBack
      <4>3. CASE SameTime(p)
        <5>1. adjustment' \in [Proc -> 0..10]
          <6>1. adjustment[p] < 10 /\ adjustment \in [Proc -> 0..10]
            BY <4>3, Zenon DEF SameTime
          <6>2. adjustment' = [adjustment EXCEPT ![p] = adjustment[p] + 1]
            BY <4>3, Zenon DEF SameTime
          <6>. QED BY ONLY <6>1, <6>2
        <5>2. TypeOK'
          BY <3>6, <4>3, <5>1, Zenon DEF TryAgain, SameTime
        <5>3. TimeInv'
          BY <3>6, <4>3, Zenon DEF TryAgain, SameTime
        <5>. QED BY <5>2, <5>3, ZenonT(30)
      <4>4. CASE ClockMovedOn(p) BY <3>6, <4>4, SMTT(30) DEF TryAgain, ClockMovedOn
      <4>. QED BY <3>6, <4>2, <4>3, <4>4, ZenonT(30) DEF TryAgain
    <3>7. CASE WriteFile(p)
      <4>1. /\ StoredAdjustment(p) \in 0..10
            /\ StoredLast(p) \in Nat /\ StoredLast(p) >= last[p]
        BY StoredFact, ZenonT(30) DEF StoredAdjustment, StoredLast
      <4>2. clock_seq[p] \in 1..(SeqMod - 1) /\ Ticks(tv[p], adjustment[p]) \in Nat
        <5>1. last[p] # 0 /\ clock_seq[p] # 0
          BY <3>7, Zenon DEF WriteFile
        <5>2. tv[p] \in Nat /\ adjustment[p] \in 0..10 /\ clock_seq[p] \in 0..(SeqMod - 1)
          BY Zenon
        <5>. QED BY ONLY <5>1, <5>2, ClockAssumption DEF Ticks
      <4>3. log' \in Seq(StampRange)
        <5> DEFINE r == [seq |-> clock_seq[p], first |-> Ticks(tv[p], adjustment[p]), num |-> num[p]]
        <5>1. r \in StampRange
          BY <4>2, Zenon DEF StampRange
        <5>2. log' = log \/ log' = Append(log, r)
          BY <3>7, Zenon DEF WriteFile
        <5>3. log \in Seq(StampRange)
          BY Zenon
        <5> HIDE DEF r
        <5>. QED BY ONLY <5>1, <5>2, <5>3
      <4>4. file' \in FileState
        <5>1. CASE state_fd[p] = "open"
          <6>1. last'[p] \in Nat /\ adjustment'[p] \in 0..10
            BY <3>7, <4>1, Zenon DEF WriteFile
          <6>. QED BY <3>7, <4>2, <5>1, <6>1 DEF WriteFile, FileState
        <5>. QED BY <3>7, <5>1, Zenon DEF WriteFile
      <4>5. TypeOK'
        <5>1. locked' \in Proc \union {NoOfd}
          BY <3>7, Zenon DEF WriteFile
        <5>2. last' \in [Proc -> Nat] /\ adjustment' \in [Proc -> 0..10]
          BY <3>7, <4>1, Zenon DEF WriteFile
        <5>3. num' \in [Proc -> Nat \ {0}] /\ tv' \in [Proc -> Nat]
          BY <3>7 DEF WriteFile, Leave
        <5>. QED BY <3>7, <4>3, <4>4, <5>1, <5>2, <5>3, ZenonT(30) DEF WriteFile, Leave
      <4>6. TimeInv'
        BY <3>7, <4>1, Zenon DEF WriteFile, Leave
      <4>. QED BY <4>5, <4>6, ZenonT(30)
    <3>. QED BY <2>1, <3>1, <3>2, <3>3, <3>4, <3>5, <3>6, <3>7, ZenonT(30) DEF get_clock
  <2>2. ASSUME NEW p \in Proc, Crash(p) PROVE TypeOK' /\ TimeInv'
    BY <2>2, SMTT(30) DEF Crash, Leave
  <2>3. CASE Tick BY <2>3 DEF Tick
  <2>4. CASE SetBack BY <2>4 DEF SetBack
  <2>5. CASE UNCHANGED vars BY <2>5, Zenon DEF vars
  <2>. QED BY <2>1, <2>2, <2>3, <2>4, <2>5, ZenonT(30) DEF Next
<1>. QED BY <1>1, <1>2, PTL DEF Spec

-----------------------------------------------------------------------------
\* LockInv is inductive: a thread releases only its own lock, and a thread that
\* dies or whose flock() fails takes no lock of another thread with it.
LEMMA LockInvariant == Spec => []LockInv
<1>1. Init => LockInv
  BY ZenonT(30) DEF Init, LockInv, Inside
<1>2. TypeOK /\ LockInv /\ [Next]_vars => LockInv'
  <2> SUFFICES ASSUME TypeOK, LockInv, [Next]_vars PROVE LockInv'
    BY Zenon
  <2> USE ClockAssumption DEF TypeOK, LockInv, Inside, Goto,
          threadVars, callVars, fdVars, boundVars
  <2>1. ASSUME NEW p \in Proc, get_clock(p) PROVE LockInv'
    <3>1. ASSUME NEW n \in Nums, Call(p, n) PROVE LockInv'
      BY <3>1 DEF Call
    <3>2. CASE Flock(p) BY <3>2 DEF Flock
    <3>3. CASE FlockFails(p) BY <3>3, SMTT(30) DEF FlockFails
    <3>4. CASE ReadFile(p) BY <3>4, Zenon DEF ReadFile
    <3>5. CASE Start(p) BY <3>5, ZenonT(30) DEF Start
    <3>6. CASE TryAgain(p) BY <3>6, ZenonT(30) DEF TryAgain
    <3>7. CASE WriteFile(p) BY <3>7, ZenonT(30) DEF WriteFile, Leave
    <3>. QED BY <2>1, <3>1, <3>2, <3>3, <3>4, <3>5, <3>6, <3>7, Zenon DEF get_clock
  <2>2. ASSUME NEW p \in Proc, Crash(p) PROVE LockInv'
    BY <2>2, SMTT(30) DEF Crash, Leave
  <2>3. CASE Tick BY <2>3, Zenon DEF Tick
  <2>4. CASE SetBack BY <2>4, Zenon DEF SetBack
  <2>5. CASE UNCHANGED vars BY <2>5, Zenon DEF vars
  <2>. QED BY <2>1, <2>2, <2>3, <2>4, <2>5, ZenonT(30) DEF Next
<1>. QED BY <1>1, <1>2, TypesAndTimes, PTL DEF Spec

\* Two threads are never both between the read and the rewrite of the clock file.
THEOREM Exclusion == Spec => []LockExclusion
<1>1. LockInv => LockExclusion
  BY Zenon DEF LockInv, LockExclusion
<1>. QED BY <1>1, LockInvariant, PTL

-----------------------------------------------------------------------------
\* A later microsecond starts after every tick of an earlier one, or on its last.
LEMMA CarryFact ==
    ASSUME NEW l \in Nat, NEW a \in 0..10, NEW t \in Nat, t > l
    PROVE  MayFollow(Ticks(l, a), Ticks(t, 0))
<1>1. (10 * t) % 10 = 0
  OBVIOUS
<1>2. Ticks(t, 0) = 10 * t /\ 10 * l + a <= 10 * t /\ Ticks(l, a) = 10 * l + a
  BY DEF Ticks
<1>. QED BY <1>1, <1>2 DEF MayFollow

\* A range is not empty.
LEMMA EndFact ==
    ASSUME NEW r \in StampRange
    PROVE  End(r) \in Int /\ r.first \in Nat /\ r.first <= End(r)
<1>1. r.first \in Nat /\ r.num \in Nat \ {0}
  BY Zenon DEF StampRange
<1>. QED BY <1>1 DEF End

\* Ranges that may follow one another.
LEMMA FollowTransitive ==
    ASSUME NEW a \in Int, NEW b \in Int, NEW c \in Int, NEW d \in Int,
           MayFollow(a, b), b <= c, MayFollow(c, d)
    PROVE  MayFollow(a, d)
<1>1. a <= b
  BY DEF MayFollow
<1>2. CASE c < d
  BY <1>1, <1>2 DEF MayFollow
<1>3. CASE c = d /\ d % 10 = 0
  <2>1. a < d \/ a = d
    BY <1>1, <1>3, SMTT(30)
  <2>. QED BY ONLY <1>3, <2>1, Zenon DEF MayFollow
<1>. QED BY <1>2, <1>3, Zenon DEF MayFollow

\* The three cases of the comparison with the last time: a new clock sequence, or
\* a tick that may follow the one the file holds.
LEMMA TryAgainFact ==
    ASSUME TypeOK, TimeInv, HolderInv, NEW p \in Proc, TryAgain(p),
           state_fd[p] = "open", log # <<>>
    PROVE  \/ clock_seq'[p] # file.seq
           \/ MayFollow(Ticks(file.last, file.adj), Ticks(tv'[p], adjustment'[p]))
<1>1. /\ clock_seq[p] = file.seq /\ last[p] = file.last /\ adjustment[p] = file.adj
      /\ tv'[p] = now /\ last[p] # 0
  BY Zenon DEF TryAgain, HolderInv, TypeOK, TimeInv
<1>2. /\ clock_seq[p] \in 0..(SeqMod - 1) /\ clock_seq[p] # 0
      /\ last[p] \in Nat /\ adjustment[p] \in 0..10 /\ now \in Nat
  BY <1>1, Zenon DEF TypeOK, TimeInv, CLOCK_SEQ_CONT, MAX_ADJUSTMENT
<1>3. CASE ClockWentBack(p)
  <2>1. clock_seq'[p] = NextSeq(clock_seq[p])
    BY <1>3, Zenon DEF ClockWentBack, TypeOK
  <2>2. NextSeq(clock_seq[p]) # clock_seq[p]
    BY ONLY <1>2, NextSeqFact, Zenon
  <2>. QED BY ONLY <1>1, <2>1, <2>2, Zenon
<1>4. CASE SameTime(p)
  <2>1. adjustment'[p] = adjustment[p] + 1 /\ now = last[p]
    BY <1>4, Zenon DEF SameTime, TypeOK
  <2>2. Ticks(file.last, file.adj) < Ticks(tv'[p], adjustment'[p])
    BY ONLY <1>1, <1>2, <2>1 DEF Ticks
  <2>. QED BY ONLY <2>2, Zenon DEF MayFollow
<1>5. CASE ClockMovedOn(p)
  <2>1. adjustment'[p] = 0 /\ now > last[p]
    BY <1>5, Zenon DEF ClockMovedOn, TypeOK
  <2>. QED BY <1>1, <1>2, <2>1, CarryFact, Zenon
<1>. QED BY <1>3, <1>4, <1>5, Zenon DEF TryAgain

\* The ranges stay ascending when one is appended that may follow the last.
LEMMA AppendFact ==
    ASSUME TypeOK, Ascending, NEW r \in StampRange,
           log # <<>> => \/ r.seq # log[Len(log)].seq
                        \/ MayFollow(End(log[Len(log)]), r.first),
           log' = Append(log, r)
    PROVE  Ascending'
<1> DEFINE n == Len(log)
<1>1. /\ n \in Nat /\ Len(log') = n + 1 /\ log'[n + 1] = r
      /\ \A k \in 1..n : log'[k] = log[k] /\ log[k] \in StampRange
  BY DEF TypeOK
<1>2. SUFFICES ASSUME NEW i \in 1..(n + 1), NEW j \in 1..(n + 1), i < j,
                      \A k \in i..j : log'[k].seq = log'[i].seq
               PROVE  MayFollow(End(log'[i]), log'[j].first)
  BY <1>1, Zenon DEF Ascending, MayFollow, End
<1>3. CASE j <= n
  <2>1. \A k \in i..j : log[k].seq = log[i].seq
    BY <1>1, <1>2, <1>3
  <2>. QED BY <1>1, <1>2, <1>3, <2>1 DEF Ascending, MayFollow, End
<1>4. CASE j = n + 1
  <2>1. i <= n /\ n > 0 /\ log[n].seq = log[i].seq /\ r.seq = log[i].seq
    BY <1>1, <1>2, <1>4
  <2>2. MayFollow(End(log[n]), r.first)
    BY <1>1, <2>1
  <2>3. CASE i = n
    BY <1>1, <1>4, <2>2, <2>3
  <2>4. CASE i < n
    <3>1. \A k \in i..n : log[k].seq = log[i].seq
      BY <1>1, <1>2, <1>4, <2>4
    <3>2. MayFollow(End(log[i]), log[n].first)
      BY <1>1, <2>1, <2>4, <3>1 DEF Ascending, MayFollow, End
    <3>3. r.first \in Int /\ log[n].first \in Int
      BY <1>1, <2>1, EndFact
    <3>4. log'[i] = log[i] /\ log'[j] = r
      BY <1>1, <1>4, <2>1
    <3>5. MayFollow(End(log[i]), r.first)
      <4>1. End(log[i]) \in Int /\ End(log[n]) \in Int /\ log[n].first <= End(log[n])
        BY <1>1, <2>1, EndFact
      <4>. QED BY ONLY <2>2, <3>2, <3>3, <4>1, FollowTransitive, Zenon
    <3>. QED BY ONLY <3>4, <3>5, Zenon
  <2>. QED BY <1>1, <2>1, <2>3, <2>4
<1>. QED BY <1>1, <1>3, <1>4

-----------------------------------------------------------------------------
\* A step that leaves the file and the log alone keeps ClockInv if it keeps
\* HolderInv.
LEMMA FrameFact ==
    ASSUME ClockInv, HolderInv', UNCHANGED <<file, log>>
    PROVE  ClockInv'
BY ZenonT(30) DEF ClockInv, FileInv, FileAccounts, Ascending, Ticks, End

\* The rewrite of the file, the only step that returns time stamps.
LEMMA WriteFileFact ==
    ASSUME TypeOK, TypeOK', TimeInv, LockInv, ClockInv, NEW p \in Proc, WriteFile(p)
    PROVE  ClockInv'
<1> USE DEF CLOCK_SEQ_CONT, MAX_ADJUSTMENT
<1>1. CASE state_fd[p] # "open"
  <2>1. UNCHANGED <<file, log, state_fd, clock_seq>>
    BY <1>1, Zenon DEF WriteFile, fdVars
  <2>2. HolderInv'
    BY <1>1, <2>1 DEF WriteFile, Leave, Goto, HolderInv, ClockInv, TypeOK, Ticks
  <2>. QED BY <2>1, <2>2, FrameFact, Zenon
<1>2. CASE state_fd[p] = "open"
  <2> DEFINE r == [seq |-> clock_seq[p], first |-> Ticks(tv[p], adjustment[p]), num |-> num[p]]
  <2>1. /\ last[p] \in Nat /\ adjustment[p] \in 0..10 /\ num[p] \in Nat \ {0}
        /\ last[p] # 0 /\ clock_seq[p] \in 0..(SeqMod - 1) /\ clock_seq[p] # 0 /\ tv[p] = last[p]
    BY Zenon DEF WriteFile, TypeOK, TimeInv
  <2>2. /\ log' = Append(log, r) /\ file'.seq = clock_seq[p]
        /\ file'.last = StoredLast(p) /\ file'.adj = StoredAdjustment(p)
    BY <1>2, SMTT(30) DEF WriteFile, TypeOK
  <2>3. r \in StampRange
    BY <2>1, ClockAssumption, SMTT(30) DEF StampRange, Ticks
  <2>4. /\ StoredLast(p) \in Nat /\ StoredLast(p) >= last[p]
        /\ Ticks(StoredLast(p), StoredAdjustment(p)) = Ticks(last[p], adjustment[p]) + num[p] - 1
    BY <2>1, StoredFact, ZenonT(30) DEF StoredLast, StoredAdjustment
  <2>5. log' # <<>> /\ log'[Len(log')] = r
    <3>1. log \in Seq(StampRange)
      BY Zenon DEF TypeOK
    <3> HIDE DEF r
    <3>. QED BY ONLY <2>2, <2>3, <3>1
  <2>6. FileInv'
    BY <2>1, <2>2, <2>4, <2>5 DEF FileInv
  <2>7. FileAccounts'
    <3>1. End(r) = Ticks(last[p], adjustment[p]) + num[p] - 1
      BY <2>1, Zenon DEF End
    <3>. QED BY <2>2, <2>4, <2>5, <3>1 DEF FileAccounts
  <2>8. HolderInv'
    <3>1. \A q \in Proc : q # p => ~ Inside(q)
      BY <1>2, Zenon DEF LockInv, Inside, WriteFile
    <3>2. \A q \in Proc : state_fd'[q] = "open" => pc'[q] \notin {"start", "try_again", "write"}
      BY <3>1, Zenon DEF WriteFile, Leave, Goto, fdVars, Inside, TypeOK
    <3>. QED BY <3>2, Zenon DEF HolderInv
  <2>9. Ascending'
    <3>1. ASSUME log # <<>>
          PROVE  r.seq # log[Len(log)].seq \/ MayFollow(End(log[Len(log)]), r.first)
      <4>1. file.seq = log[Len(log)].seq /\ Ticks(file.last, file.adj) = End(log[Len(log)])
        BY <3>1, Zenon DEF ClockInv, FileAccounts
      <4>2. \/ clock_seq[p] # file.seq
            \/ MayFollow(Ticks(file.last, file.adj), Ticks(tv[p], adjustment[p]))
        BY <1>2, <3>1, Zenon DEF ClockInv, HolderInv, WriteFile
      <4>. QED BY <4>1, <4>2, Zenon
    <3> HIDE DEF r
    <3>. QED BY <2>2, <2>3, <3>1, AppendFact, Zenon DEF ClockInv
  <2>. QED BY <2>6, <2>7, <2>8, <2>9, Zenon DEF ClockInv
<1>. QED BY <1>1, <1>2, Zenon

\* The inductive invariant: the file, the holder of the lock and the log agree.
THEOREM ClockInvariant == Spec => []ClockInv
<1>1. Init => ClockInv
  <2> SUFFICES ASSUME Init PROVE ClockInv
    BY Zenon
  <2>1. log = <<>> /\ file = EmptyFile
    BY Zenon DEF Init
  <2>2. FileInv /\ HolderInv /\ FileAccounts
    BY <2>1, ZenonT(30) DEF FileInv, HolderInv, FileAccounts
  <2>3. Ascending
    BY <2>1 DEF Ascending
  <2>. QED BY <2>2, <2>3, Zenon DEF ClockInv
<1>2. /\ TypeOK /\ TypeOK' /\ TimeInv /\ LockInv /\ ClockInv
      /\ [Next]_vars
      => ClockInv'
  <2> SUFFICES ASSUME TypeOK, TypeOK', TimeInv, LockInv, ClockInv, [Next]_vars PROVE ClockInv'
    BY Zenon
  <2> USE DEF Goto, threadVars, callVars, fdVars, boundVars
  <2>1. ASSUME NEW p \in Proc, get_clock(p) PROVE ClockInv'
    <3>1. ASSUME NEW n \in Nums, Call(p, n) PROVE ClockInv'
      <4>1. HolderInv'
        <5>1. pc'[p] \in {"flock", "start"} /\ (pc'[p] = "start" => state_fd'[p] # "open")
          BY <3>1, Zenon DEF Call, TypeOK
        <5>2. \A q \in Proc : q # p => pc'[q] = pc[q] /\ state_fd'[q] = state_fd[q]
          <6>1. CASE state_fd[p] = "init"
            BY <3>1, <6>1, SMTT(30) DEF Call, TypeOK
          <6>2. CASE state_fd[p] # "init"
            BY <3>1, <6>2, Zenon DEF Call, TypeOK
          <6>. QED BY <6>1, <6>2, Zenon
        <5>. QED BY <3>1, <5>1, <5>2, Zenon DEF Call, HolderInv, ClockInv
      <4>. QED BY <3>1, <4>1, FrameFact, Zenon DEF Call
    <3>2. CASE Flock(p)
      <4>1. HolderInv'
        BY <3>2, Zenon DEF Flock, HolderInv, ClockInv, TypeOK
      <4>. QED BY <3>2, <4>1, FrameFact, Zenon DEF Flock
    <3>3. CASE FlockFails(p)
      <4>1. HolderInv'
        BY <3>3, Zenon DEF FlockFails, HolderInv, ClockInv, TypeOK
      <4>. QED BY <3>3, <4>1, FrameFact, Zenon DEF FlockFails
    <3>4. CASE ReadFile(p)
      <4>1. ASSUME log # <<>>
            PROVE  clock_seq'[p] = file.seq /\ last'[p] = file.last /\ adjustment'[p] = file.adj
        <5>1. file # EmptyFile /\ file.seq # 0
          BY <4>1 DEF ClockInv, FileInv, EmptyFile, CLOCK_SEQ_CONT
        <5>2. file.seq \in 0..(SeqMod - 1)
          BY Zenon DEF TypeOK, FileState
        <5>3. file.seq % SeqMod = file.seq
          BY ONLY <5>2, ClockAssumption, SMTT(30)
        <5>. QED BY <3>4, <5>1, <5>3 DEF ReadFile, TypeOK, CLOCK_SEQ_CONT
      <4>2. HolderInv'
        BY <3>4, <4>1 DEF ReadFile, HolderInv, ClockInv, TypeOK
      <4>. QED BY <3>4, <4>2, FrameFact, Zenon DEF ReadFile
    <3>5. CASE Start(p)
      <4>1. HolderInv'
        <5>1. state_fd[p] = "open" /\ log # <<>> => last[p] # 0
          BY <3>5, Zenon DEF Start, HolderInv, ClockInv, FileInv
        <5>2. state_fd[p] = "open" /\ log # <<>> => UNCHANGED <<clock_seq, last>>
          BY <3>5, <5>1, Zenon DEF Start
        <5>3. \A q \in Proc : q # p =>
                  pc'[q] = pc[q] /\ clock_seq'[q] = clock_seq[q] /\ last'[q] = last[q]
          <6>1. CASE last[p] = 0
            BY <3>5, <6>1 DEF Start, TypeOK
          <6>2. CASE last[p] # 0
            BY <3>5, <6>2, Zenon DEF Start, TypeOK
          <6>. QED BY <6>1, <6>2, Zenon
        <5>4. pc[p] = "start" /\ pc'[p] = "try_again" /\ UNCHANGED <<file, log, state_fd, adjustment, tv>>
          BY <3>5, Zenon DEF Start, TypeOK
        <5>. QED BY <5>2, <5>3, <5>4, Zenon DEF HolderInv, ClockInv, Ticks
      <4>. QED BY <3>5, <4>1, FrameFact, Zenon DEF Start
    <3>6. CASE TryAgain(p)
      <4>1. HolderInv'
        <5>1. state_fd[p] = "open" /\ log # <<>> =>
                  \/ clock_seq'[p] # file.seq
                  \/ MayFollow(Ticks(file.last, file.adj), Ticks(tv'[p], adjustment'[p]))
          BY <3>6, TryAgainFact, Zenon DEF ClockInv
        <5>2. \A q \in Proc : q # p =>
                  /\ pc'[q] = pc[q] /\ clock_seq'[q] = clock_seq[q] /\ last'[q] = last[q]
                  /\ adjustment'[q] = adjustment[q] /\ tv'[q] = tv[q]
          <6>1. CASE ClockWentBack(p) BY <3>6, <6>1, SMTT(30) DEF TryAgain, ClockWentBack, TypeOK
          <6>2. CASE SameTime(p) BY <3>6, <6>2, SMTT(30) DEF TryAgain, SameTime, TypeOK
          <6>3. CASE ClockMovedOn(p) BY <3>6, <6>3 DEF TryAgain, ClockMovedOn, TypeOK
          <6>. QED BY <3>6, <6>1, <6>2, <6>3, Zenon DEF TryAgain
        <5>3. pc'[p] = "write" /\ UNCHANGED <<file, log, state_fd>>
          BY <3>6, Zenon DEF TryAgain, TypeOK
        <5>. QED BY <5>1, <5>2, <5>3, ZenonT(30) DEF HolderInv, ClockInv, Ticks
      <4>. QED BY <3>6, <4>1, FrameFact, Zenon DEF TryAgain
    <3>7. CASE WriteFile(p)
      BY <3>7, WriteFileFact, Zenon
    <3>. QED BY <2>1, <3>1, <3>2, <3>3, <3>4, <3>5, <3>6, <3>7, Zenon DEF get_clock
  <2>2. ASSUME NEW p \in Proc, Crash(p) PROVE ClockInv'
    <3>1. HolderInv'
      BY <2>2, ZenonT(30) DEF Crash, Leave, HolderInv, ClockInv, TypeOK
    <3>. QED BY <2>2, <3>1, FrameFact, Zenon DEF Crash
  <2>3. CASE Tick
    <3>1. HolderInv'
      BY <2>3, Zenon DEF Tick, HolderInv, ClockInv
    <3>. QED BY <2>3, <3>1, FrameFact, Zenon DEF Tick
  <2>4. CASE SetBack
    <3>1. HolderInv'
      BY <2>4, Zenon DEF SetBack, HolderInv, ClockInv
    <3>. QED BY <2>4, <3>1, FrameFact, Zenon DEF SetBack
  <2>5. CASE UNCHANGED vars
    <3>1. HolderInv'
      BY <2>5, Zenon DEF vars, HolderInv, ClockInv
    <3>. QED BY <2>5, <3>1, FrameFact, Zenon DEF vars
  <2>. QED BY <2>1, <2>2, <2>3, <2>4, <2>5, Zenon DEF Next
<1>. QED BY <1>1, <1>2, TypesAndTimes, LockInvariant, PTL DEF Spec

\* At all times the clock file accounts for every time stamp returned so far.
THEOREM FileAccountsAlways == Spec => []FileAccounts
<1>1. ClockInv => FileAccounts
  BY Zenon DEF ClockInv
<1>. QED BY <1>1, ClockInvariant, PTL

\* Under one clock sequence the ranges that get_clock() returns ascend.
THEOREM AscendingAlways == Spec => []Ascending
<1>1. ClockInv => Ascending
  BY Zenon DEF ClockInv
<1>. QED BY <1>1, ClockInvariant, PTL

-----------------------------------------------------------------------------
(* Until the clock sequences have all been used no time stamp is shared.    *)

\* The thread about to rewrite the file has the clock sequence of the file or the
\* next one.
SeqStep ==
    \A p \in Proc :
        state_fd[p] = "open" /\ log # <<>> /\ pc[p] = "write" =>
            clock_seq[p] \in {file.seq, NextSeq(file.seq)}

\* The clock sequence c changes after s, for less changes than would lead back to s.
Turn(s, c) == IF s + c < SeqMod THEN s + c ELSE s + c - (SeqMod - 1)

Changed(k) == Cardinality(SeqChanges(log, k))

\* The clock sequence of a range is the one of the first, moved on by the changes.
SeqTurns ==
    \A k \in 1..Len(log) : Changed(k) < SeqMod - 1 => log[k].seq = Turn(log[1].seq, Changed(k))

\* One change more is the next clock sequence.
LEMMA TurnStep ==
    ASSUME NEW s \in 1..(SeqMod - 1), NEW c \in Nat, c + 1 < SeqMod - 1
    PROVE  Turn(s, c) \in 1..(SeqMod - 1) /\ Turn(s, c + 1) = NextSeq(Turn(s, c))
<1>1. Turn(s, c) \in 1..(SeqMod - 1)
  BY ClockAssumption DEF Turn
<1>2. PICK t \in 1..(SeqMod - 1) : t = Turn(s, c)
  BY <1>1, Zenon
<1>3. (t + 1) % SeqMod = IF t + 1 = SeqMod THEN 0 ELSE t + 1
  BY ClockAssumption, SMT
<1>. QED BY <1>1, <1>2, <1>3, ClockAssumption DEF NextSeq, Turn, CLOCK_SEQ_CONT

\* Different numbers of changes lead to different clock sequences.
LEMMA TurnInjective ==
    ASSUME NEW s \in 1..(SeqMod - 1), NEW c \in Nat, NEW d \in Nat,
           c < SeqMod - 1, d < SeqMod - 1, Turn(s, c) = Turn(s, d)
    PROVE  c = d
BY ClockAssumption DEF Turn

\* A thread takes at most the next clock sequence between the read of the file and
\* its rewrite.
LEMMA SeqStepInvariant == Spec => []SeqStep
<1>1. Init => SeqStep
  BY Zenon DEF Init, SeqStep
<1>2. TypeOK /\ TypeOK' /\ LockInv /\ HolderInv /\ SeqStep /\ [Next]_vars => SeqStep'
  <2> SUFFICES ASSUME TypeOK, TypeOK', LockInv, HolderInv, SeqStep, [Next]_vars PROVE SeqStep'
    BY Zenon
  <2> USE DEF Goto, threadVars, callVars, fdVars, boundVars
  <2>1. ASSUME NEW p \in Proc, get_clock(p) PROVE SeqStep'
    <3>1. ASSUME NEW n \in Nums, Call(p, n) PROVE SeqStep'
      <4>1. pc'[p] \in {"flock", "start"}
        BY <3>1, Zenon DEF Call, TypeOK
      <4>2. \A q \in Proc : q # p => pc'[q] = pc[q] /\ state_fd'[q] = state_fd[q]
        <5>1. CASE state_fd[p] = "init"
          BY <3>1, <5>1, SMTT(30) DEF Call, TypeOK
        <5>2. CASE state_fd[p] # "init"
          BY <3>1, <5>2, Zenon DEF Call, TypeOK
        <5>. QED BY <5>1, <5>2, Zenon
      <4>. QED BY <3>1, <4>1, <4>2, Zenon DEF Call, SeqStep
    <3>2. CASE Flock(p) BY <3>2, Zenon DEF Flock, SeqStep, TypeOK
    <3>3. CASE FlockFails(p) BY <3>3, Zenon DEF FlockFails, SeqStep, TypeOK
    <3>4. CASE ReadFile(p)
      <4>1. \A q \in Proc : q # p => pc'[q] = pc[q] /\ clock_seq'[q] = clock_seq[q]
        BY <3>4, ZenonT(30) DEF ReadFile, TypeOK
      <4>2. pc'[p] = "start" /\ UNCHANGED <<file, log, state_fd>>
        BY <3>4, Zenon DEF ReadFile, TypeOK
      <4>. QED BY <4>1, <4>2, Zenon DEF SeqStep
    <3>5. CASE Start(p)
      <4>1. \A q \in Proc : q # p => pc'[q] = pc[q] /\ clock_seq'[q] = clock_seq[q]
        <5>1. CASE last[p] = 0
          BY <3>5, <5>1 DEF Start, TypeOK
        <5>2. CASE last[p] # 0
          BY <3>5, <5>2, Zenon DEF Start, TypeOK
        <5>. QED BY <5>1, <5>2, Zenon
      <4>2. pc'[p] = "try_again" /\ UNCHANGED <<file, log, state_fd>>
        BY <3>5, Zenon DEF Start, TypeOK
      <4>. QED BY <4>1, <4>2, Zenon DEF SeqStep
    <3>6. CASE TryAgain(p)
      <4>1. \A q \in Proc : q # p => pc'[q] = pc[q] /\ clock_seq'[q] = clock_seq[q]
        BY <3>6, ZenonT(30) DEF TryAgain, ClockWentBack, SameTime, ClockMovedOn, TypeOK
      <4>2. clock_seq'[p] \in {clock_seq[p], NextSeq(clock_seq[p])}
        BY <3>6, ZenonT(30) DEF TryAgain, ClockWentBack, SameTime, ClockMovedOn, TypeOK
      <4>3. pc[p] = "try_again" /\ UNCHANGED <<file, log, state_fd>>
        BY <3>6, Zenon DEF TryAgain, TypeOK
      <4>4. state_fd[p] = "open" /\ log # <<>> => clock_seq[p] = file.seq
        BY <4>3, Zenon DEF HolderInv
      <4>. QED BY <4>1, <4>2, <4>3, <4>4, Zenon DEF SeqStep
    <3>7. CASE WriteFile(p)
      <4>1. CASE state_fd[p] = "open"
        <5>1. \A q \in Proc : q # p => ~ Inside(q)
          BY <3>7, <4>1, Zenon DEF LockInv, Inside, WriteFile
        <5>2. \A q \in Proc : state_fd'[q] = "open" => pc'[q] # "write"
          BY <3>7, <5>1, Zenon DEF WriteFile, Leave, Inside, TypeOK
        <5>. QED BY <5>2, Zenon DEF SeqStep
      <4>2. CASE state_fd[p] # "open"
        BY <3>7, <4>2, Zenon DEF WriteFile, Leave, SeqStep, TypeOK
      <4>. QED BY <4>1, <4>2, Zenon
    <3>. QED BY <2>1, <3>1, <3>2, <3>3, <3>4, <3>5, <3>6, <3>7, Zenon DEF get_clock
  <2>2. ASSUME NEW p \in Proc, Crash(p) PROVE SeqStep'
    BY <2>2, Zenon DEF Crash, Leave, SeqStep, TypeOK
  <2>3. CASE Tick BY <2>3, Zenon DEF Tick, SeqStep
  <2>4. CASE SetBack BY <2>4, Zenon DEF SetBack, SeqStep
  <2>5. CASE UNCHANGED vars BY <2>5, Zenon DEF vars, SeqStep
  <2>. QED BY <2>1, <2>2, <2>3, <2>4, <2>5, Zenon DEF Next
<1>3. ClockInv => HolderInv
  BY Zenon DEF ClockInv
<1>. QED BY <1>1, <1>2, <1>3, TypesAndTimes, LockInvariant, ClockInvariant, PTL DEF Spec

\* Only the rewrite of the file adds a range.
LEMMA LogGrows ==
    ASSUME [Next]_vars
    PROVE  UNCHANGED log \/ \E p \in Proc : WriteFile(p) /\ state_fd[p] = "open"
BY Zenon DEF Next, get_clock, Call, Flock, FlockFails, ReadFile, Start, TryAgain, WriteFile,
       Crash, Tick, SetBack, vars

\* The thread with the file open adds a range of time stamps to the log.
LEMMA RangeAdded ==
    ASSUME TypeOK, TimeInv, NEW p \in Proc, WriteFile(p)
    PROVE  [seq |-> clock_seq[p], first |-> Ticks(tv[p], adjustment[p]), num |-> num[p]]
               \in StampRange
<1>1. tv[p] \in Nat /\ adjustment[p] \in 0..10 /\ num[p] \in Nat \ {0}
  BY Zenon DEF WriteFile, TypeOK, TimeInv, MAX_ADJUSTMENT
<1>2. clock_seq[p] \in 0..(SeqMod - 1) /\ clock_seq[p] # 0
  BY Zenon DEF WriteFile, TypeOK, TimeInv, CLOCK_SEQ_CONT
<1>. QED BY <1>1, <1>2, ClockAssumption DEF StampRange, Ticks

-----------------------------------------------------------------------------
(* The changes are counted, and so the facts about finite sets come in here.  *)

INSTANCE FiniteSetTheorems

\* The changes are finitely many, and more of them in a longer log.
LEMMA ChangesFinite ==
    ASSUME NEW l, NEW k \in Nat
    PROVE  IsFiniteSet(SeqChanges(l, k)) /\ Cardinality(SeqChanges(l, k)) \in Nat
<1>1. IsFiniteSet(1..(k - 1))
  BY FS_Interval
<1>2. SeqChanges(l, k) \in SUBSET (1..(k - 1))
  BY Zenon DEF SeqChanges
<1>3. IsFiniteSet(SeqChanges(l, k))
  BY ONLY <1>1, <1>2, FS_Subset, Zenon
<1>. QED BY <1>3, FS_CardinalityType, Zenon

\* Changes of the sequence only add up.
LEMMA ChangesGrow ==
    ASSUME NEW l, NEW k \in Nat, NEW m \in Nat, k <= m
    PROVE  Cardinality(SeqChanges(l, k)) <= Cardinality(SeqChanges(l, m))
<1>1. SeqChanges(l, k) \in SUBSET SeqChanges(l, m)
  BY DEF SeqChanges
<1>. QED BY <1>1, ChangesFinite, FS_Subset, Zenon

\* The changes of a log with one more range.
LEMMA ChangesAppend ==
    ASSUME NEW l \in Seq(StampRange), NEW r \in StampRange, l # <<>>
    PROVE  LET n == Len(l)
               more == Append(l, r)
           IN  /\ \A k \in 1..n : SeqChanges(more, k) = SeqChanges(l, k)
               /\ Cardinality(SeqChanges(more, n + 1)) =
                      Cardinality(SeqChanges(l, n)) + IF r.seq = l[n].seq THEN 0 ELSE 1
<1> DEFINE n == Len(l)
           more == Append(l, r)
<1>1. /\ n \in Nat \ {0} /\ more[n + 1] = r
      /\ \A k \in 1..n : more[k] = l[k]
  OBVIOUS
<1> HIDE DEF more
<1>2. \A k \in 1..n : SeqChanges(more, k) = SeqChanges(l, k)
  BY <1>1 DEF SeqChanges
<1>3. CASE r.seq = l[n].seq
  <2>1. SeqChanges(more, n + 1) = SeqChanges(l, n)
    BY <1>1, <1>3 DEF SeqChanges
  <2>2. Cardinality(SeqChanges(l, n)) \in Nat
    BY <1>1, ChangesFinite, Zenon
  <2>. QED BY <1>2, <1>3, <2>1, <2>2 DEF more
<1>4. CASE r.seq # l[n].seq
  <2>1. SeqChanges(more, n + 1) = SeqChanges(l, n) \union {n}
    BY <1>1, <1>4 DEF SeqChanges
  <2>2. n \notin SeqChanges(l, n) /\ IsFiniteSet(SeqChanges(l, n))
    BY <1>1, ChangesFinite DEF SeqChanges
  <2>3. Cardinality(SeqChanges(more, n + 1)) = Cardinality(SeqChanges(l, n)) + 1
    BY <2>1, <2>2, FS_AddElement, Zenon
  <2>. QED BY <1>2, <1>4, <2>3, Zenon DEF more
<1>. QED BY <1>3, <1>4, Zenon

\* A range more keeps the clock sequences in turn.
LEMMA TurnsAppend ==
    ASSUME TypeOK, SeqTurns, NEW r \in StampRange, log' = Append(log, r),
           log # <<>> => r.seq \in {log[Len(log)].seq, NextSeq(log[Len(log)].seq)}
    PROVE  SeqTurns'
<1> DEFINE n == Len(log)
<1>1. log \in Seq(StampRange)
  BY Zenon DEF TypeOK
<1>2. /\ n \in Nat /\ Len(log') = n + 1 /\ log'[n + 1] = r
      /\ \A k \in 1..n : log'[k] = log[k] /\ log[k] \in StampRange
  BY <1>1
<1>3. SUFFICES ASSUME NEW k \in 1..(n + 1), Cardinality(SeqChanges(log', k)) < SeqMod - 1
               PROVE  log'[k].seq = Turn(log'[1].seq, Cardinality(SeqChanges(log', k)))
  BY <1>2, Zenon DEF SeqTurns, Changed
<1>4. CASE log = <<>>
  <2>1. k = 1 /\ SeqChanges(log', k) = {}
    BY <1>2, <1>4 DEF SeqChanges
  <2>2. r.seq \in 1..(SeqMod - 1) /\ log'[k] = r
    BY <1>2, <1>4, <2>1 DEF StampRange
  <2>3. Cardinality(SeqChanges(log', k)) = 0
    BY <2>1, FS_EmptySet, Zenon
  <2>4. Turn(r.seq, 0) = r.seq
    BY <2>2, ClockAssumption DEF Turn
  <2>. QED BY <2>1, <2>2, <2>3, <2>4, Zenon
<1>5. CASE log # <<>>
  <2>1. /\ n > 0 /\ log'[1] = log[1]
        /\ log[1].seq \in 1..(SeqMod - 1) /\ log[n].seq \in 1..(SeqMod - 1)
    BY <1>1, <1>2, <1>5 DEF StampRange
  <2>2. /\ \A m \in 1..n : SeqChanges(log', m) = SeqChanges(log, m)
        /\ Cardinality(SeqChanges(log', n + 1)) =
               Cardinality(SeqChanges(log, n)) + IF r.seq = log[n].seq THEN 0 ELSE 1
    BY <1>1, <1>5, ChangesAppend, Zenon
  <2>3. CASE k <= n
    BY <1>2, <1>3, <2>1, <2>2, <2>3 DEF SeqTurns, Changed
  <2>4. CASE k = n + 1
    <3>1. PICK c \in Nat : c = Cardinality(SeqChanges(log, n))
      BY <1>2, ChangesFinite, Zenon
    <3>2. c < SeqMod - 1 => log[n].seq = Turn(log[1].seq, c)
      BY <2>1, <1>2, <3>1 DEF SeqTurns, Changed
    <3>3. CASE r.seq = log[n].seq
      BY <1>2, <1>3, <2>1, <2>2, <2>4, <3>1, <3>2, <3>3
    <3>4. CASE r.seq # log[n].seq
      <4>1. r.seq = NextSeq(log[n].seq) /\ c + 1 < SeqMod - 1
        BY <1>3, <1>5, <2>2, <2>4, <3>1, <3>4, Zenon
      <4>2. Turn(log[1].seq, c + 1) = NextSeq(Turn(log[1].seq, c))
        BY <2>1, <4>1, TurnStep, Zenon
      <4>. QED BY <1>2, <2>1, <2>2, <2>4, <3>1, <3>2, <3>4, <4>1, <4>2, ClockAssumption
    <3>. QED BY <3>3, <3>4, Zenon
  <2>. QED BY <2>3, <2>4
<1>. QED BY <1>4, <1>5, Zenon

\* SeqTurns holds always.
LEMMA SeqTurnsInvariant == Spec => []SeqTurns
<1>1. Init => SeqTurns
  BY DEF Init, SeqTurns
<1>2. TypeOK /\ TypeOK' /\ TimeInv /\ FileAccounts /\ SeqStep /\ SeqTurns /\ [Next]_vars => SeqTurns'
  <2> SUFFICES ASSUME TypeOK, TypeOK', TimeInv, FileAccounts, SeqStep, SeqTurns, [Next]_vars
               PROVE  SeqTurns'
    BY Zenon
  <2>1. CASE UNCHANGED log
    BY <2>1, Zenon DEF SeqTurns, Changed
  <2>2. ASSUME NEW p \in Proc, WriteFile(p), state_fd[p] = "open" PROVE SeqTurns'
    <3> DEFINE r == [seq |-> clock_seq[p], first |-> Ticks(tv[p], adjustment[p]), num |-> num[p]]
    <3>1. log' = Append(log, r)
      BY <2>2, Zenon DEF WriteFile
    <3>2. r \in StampRange
      BY <2>2, RangeAdded, Zenon
    <3>3. log # <<>> => r.seq \in {log[Len(log)].seq, NextSeq(log[Len(log)].seq)}
      BY <2>2, Zenon DEF SeqStep, FileAccounts, WriteFile
    <3> HIDE DEF r
    <3>. QED BY <3>1, <3>2, <3>3, TurnsAppend, Zenon
  <2>. QED BY <2>1, <2>2, LogGrows, Zenon
<1>3. ClockInv => FileAccounts
  BY Zenon DEF ClockInv
<1>. QED BY <1>1, <1>2, <1>3, TypesAndTimes, SeqStepInvariant, ClockInvariant, PTL DEF Spec

\* No time stamp is returned twice under one clock sequence, but for the first tick of
\* a microsecond, until the clock sequences have all been used: ranges with the same
\* clock sequence have no change between them, and ascend.
THEOREM SharedOnlyAtCarryAlways == Spec => []SharedOnlyAtCarry
<1>1. TypeOK /\ Ascending /\ SeqTurns => SharedOnlyAtCarry
  <2> DEFINE n == Len(log)
  <2>1. SUFFICES ASSUME TypeOK, Ascending, SeqTurns, Changed(n) < SeqMod - 1,
                        NEW i \in 1..n, NEW j \in 1..n, i < j, log[i].seq = log[j].seq,
                        NEW t \in Stamps(log[i]) \intersect Stamps(log[j])
                 PROVE  t = log[j].first /\ t % 10 = 0
    BY Zenon DEF SharedOnlyAtCarry, Changed
  <2>2. n \in Nat /\ \A k \in 1..n : log[k] \in StampRange
    BY <2>1 DEF TypeOK
  <2>3. log[1].seq \in 1..(SeqMod - 1)
    BY <2>1, <2>2 DEF StampRange
  <2>4. \A k, m \in 1..n : k <= m => Changed(k) <= Changed(m)
    BY <2>2, ChangesGrow DEF Changed
  <2>5. \A k \in 1..n : Changed(k) \in Nat /\ Changed(k) < SeqMod - 1
    <3>1. \A k \in 1..n : Changed(k) \in Nat
      BY <2>2, ChangesFinite DEF Changed
    <3> SUFFICES ASSUME NEW k \in 1..n PROVE Changed(k) < SeqMod - 1
      BY <3>1, Zenon
    <3>2. n \in 1..n /\ k <= n
      BY <2>2
    <3>3. Changed(k) <= Changed(n) /\ Changed(k) \in Nat /\ Changed(n) \in Nat
      BY <2>4, <3>1, <3>2, Zenon
    <3>4. SeqMod \in Nat
      BY ClockAssumption, Zenon
    <3> HIDE DEF Changed
    <3>. QED BY <2>1, <3>3, <3>4, SMTT(30)
  <2>6. Changed(i) = Changed(j)
    BY <2>1, <2>3, <2>5, TurnInjective, Zenon DEF SeqTurns
  <2>7. \A k \in i..j : log[k].seq = log[i].seq
    <3> SUFFICES ASSUME NEW k \in i..j PROVE log[k].seq = log[i].seq
      BY Zenon
    <3>1. k \in 1..n
      BY <2>1, <2>2
    <3>2. Changed(i) <= Changed(k) /\ Changed(k) <= Changed(j)
      BY <2>1, <2>4, <3>1
    <3>3. Changed(k) = Changed(i)
      BY <2>5, <2>6, <3>1, <3>2
    <3>. QED BY <2>1, <2>5, <3>1, <3>3, Zenon DEF SeqTurns
  <2>8. End(log[i]) < log[j].first \/ (End(log[i]) = log[j].first /\ log[j].first % 10 = 0)
    BY <2>1, <2>7, Zenon DEF Ascending
  <2>9. End(log[i]) \in Int /\ log[j].first \in Nat /\ log[i].first \in Nat
    BY <2>2, EndFact, Zenon
  <2>10. t \in Int /\ t <= End(log[i]) /\ log[j].first <= t
    <3>1. End(log[j]) \in Int
      BY <2>2, EndFact, Zenon
    <3>. QED BY <2>9, <3>1 DEF Stamps
  <2>11. t = log[j].first
    BY <2>8, <2>9, <2>10
  <2>. QED BY <2>8, <2>9, <2>10, <2>11
<1>2. ClockInv => Ascending
  BY Zenon DEF ClockInv
<1>. QED BY <1>1, <1>2, TypesAndTimes, SeqTurnsInvariant, ClockInvariant, PTL
=============================================================================
