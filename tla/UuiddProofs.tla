---------------------------- MODULE UuiddProofs ----------------------------
(***************************************************************************)
(* Proofs about UuidCont: the continuous clock never hands out a tick twice;  *)
(* and about Uuidd: daemons that do not race keep their socket, and use the   *)
(* clock one at a time.                                                     *)
(***************************************************************************)
EXTENDS Uuidd, TLAPS

-----------------------------------------------------------------------------
(* The continuous clock *)

\* At most one live daemon has the file open.
OneOpen == \A d, e \in Daemon : state_fd[d] = "open" /\ state_fd[e] = "open" => d = e

IInv == ContTypeOK /\ OneOpen /\ FileAhead /\ ContUnique

IssuedRange == [first : Nat, num : Nat \ {0}]

\* A range that was handed out ends at a natural number.
LEMMA RangeEndNat ==
    ASSUME NEW S \in Seq(IssuedRange), NEW i \in 1..Len(S)
    PROVE  RangeEnd(S[i]) \in Nat
  <1>1. S[i] \in IssuedRange
    OBVIOUS
  <1>2. S[i].first \in Nat /\ S[i].num \in Nat
    BY <1>1, Zenon DEF IssuedRange
  <1> QED BY <1>2 DEF RangeEnd

\* The static variables are natural numbers once the file is open, the file is not
\* ahead of where a daemon starts, and the clock is only ever pulled up.
LEMMA RegTypes ==
    ASSUME ContTypeOK, NEW d \in Daemon
    PROVE  /\ FirstReg \in Nat /\ contfile <= FirstReg
           /\ LastReg(d) \in Nat /\ SavedReg(d) \in Nat
           /\ Floor(d) \in Nat /\ LastReg(d) <= Floor(d)
  <1>1. now \in Nat /\ contfile \in Nat /\ ClockOffset \in Nat
    BY ContAssumption, Zenon DEF ContTypeOK
  <1>2. FirstReg \in Nat /\ contfile <= FirstReg
    BY <1>1 DEF FirstReg
  <1>3. LastReg(d) \in Nat /\ SavedReg(d) \in Nat
    BY <1>2, Zenon DEF LastReg, SavedReg, ContTypeOK
  <1>4. Floor(d) \in Nat /\ LastReg(d) <= Floor(d)
    BY <1>1, <1>3 DEF Floor
  <1> QED BY <1>2, <1>3, <1>4, Zenon

\* Every tick handed out is below the first one the daemon hands out next, and the
\* file either says what the daemon believes or must be written first.
LEMMA FloorIsFresh ==
    ASSUME IInv, NEW d \in Daemon
    PROVE  /\ \A i \in 1..Len(issued) : RangeEnd(issued[i]) <= Floor(d) \/ state_fd[d] = "error"
           /\ state_fd[d] # "error" => SavedReg(d) = contfile \/ SavedReg(d) <= Floor(d)
           /\ state_fd[d] # "error" => contfile <= SavedReg(d)
  <1> USE DEF IInv
  <1>1. /\ FirstReg \in Nat /\ contfile <= FirstReg
        /\ LastReg(d) \in Nat /\ SavedReg(d) \in Nat
        /\ Floor(d) \in Nat /\ LastReg(d) <= Floor(d)
    BY RegTypes, Zenon
  <1>2. contfile \in Nat /\ \A i \in 1..Len(issued) : RangeEnd(issued[i]) \in Nat
    BY RangeEndNat, Zenon DEF ContTypeOK, IssuedRange
  <1>3. CASE state_fd[d] = "init"
    <2>1. LastReg(d) = FirstReg /\ SavedReg(d) = FirstReg
      BY <1>3, Zenon DEF LastReg, SavedReg
    <2>2. \A i \in 1..Len(issued) : RangeEnd(issued[i]) <= contfile
      BY Zenon DEF FileAhead
    <2> QED BY <1>1, <1>2, <2>1, <2>2
  <1>4. CASE state_fd[d] = "open"
    <2>1. LastReg(d) = last_clock_reg[d] /\ SavedReg(d) = saved_clock_reg[d]
      BY <1>4, Zenon DEF LastReg, SavedReg
    <2>2. /\ \A i \in 1..Len(issued) : RangeEnd(issued[i]) <= last_clock_reg[d]
          /\ \/ saved_clock_reg[d] = contfile
             \/ last_clock_reg[d] >= saved_clock_reg[d] /\ saved_clock_reg[d] >= contfile
      BY <1>4, Zenon DEF FileAhead
    <2> QED BY <1>1, <1>2, <2>1, <2>2
  <1>5. CASE state_fd[d] = "error"
    BY <1>5, Zenon
  <1>6. state_fd[d] \in {"init", "open", "error"}
    BY Zenon DEF ContTypeOK
  <1> QED BY <1>3, <1>4, <1>5, <1>6, Zenon

\* Handing out a range keeps the invariant.
LEMMA IssueKeeps ==
    ASSUME IInv, NEW d \in Daemon, NEW n \in Nat \ {0}, Alone(d), ContIssue(d, n)
    PROVE  IInv'
  <1> DEFINE next == Next_clock_reg(d, n)
             saved == IF MustSave(d, n) THEN next + Interval ELSE SavedReg(d)
             r == [first |-> Floor(d), num |-> n]
  <1>1. /\ state_fd[d] # "error"
        /\ contfile' = IF MustSave(d, n) THEN saved ELSE contfile
        /\ state_fd' = [state_fd EXCEPT ![d] = "open"]
        /\ last_clock_reg' = [last_clock_reg EXCEPT ![d] = next]
        /\ saved_clock_reg' = [saved_clock_reg EXCEPT ![d] = saved]
        /\ issued' = Append(issued, r)
        /\ now' = now /\ back' = back
    BY Zenon DEF ContIssue, SetStatics, clockVars
  <1>2. /\ n \in Nat /\ n > 0 /\ Interval \in Nat /\ Interval > 0
    BY ContAssumption
  <1>3. /\ Floor(d) \in Nat /\ SavedReg(d) \in Nat
    BY RegTypes, Zenon DEF IInv
  <1>4. next = Floor(d) + n /\ (MustSave(d, n) <=> next >= SavedReg(d))
    BY Zenon DEF Next_clock_reg, MustSave
  <1>5. /\ \A i \in 1..Len(issued) : RangeEnd(issued[i]) <= Floor(d)
        /\ SavedReg(d) = contfile \/ SavedReg(d) <= Floor(d)
        /\ contfile <= SavedReg(d)
    BY <1>1, FloorIsFresh, Zenon
  <1>6. next \in Nat /\ saved \in Nat /\ Floor(d) < next
    BY <1>2, <1>3, <1>4
  <1>7. next <= contfile' /\ saved = contfile'
    <2>1. CASE MustSave(d, n) BY <2>1, <1>1, <1>2, <1>6
    <2>2. CASE ~MustSave(d, n)
      BY <2>2, <1>1, <1>3, <1>4, <1>5, <1>6
    <2> QED BY <2>1, <2>2, Zenon
  <1> HIDE DEF next, saved
  <1>8. /\ issued \in Seq([first : Nat, num : Nat \ {0}])
        /\ r \in [first : Nat, num : Nat \ {0}]
    BY <1>2, <1>3, Zenon DEF IInv, ContTypeOK
  <1>9. /\ Len(issued) \in Nat /\ Len(issued') = Len(issued) + 1
        /\ \A i \in 1..Len(issued) : issued'[i] = issued[i]
        /\ issued'[Len(issued) + 1] = r
        /\ issued' \in Seq([first : Nat, num : Nat \ {0}])
    BY <1>1, <1>8
  <1>10. RangeEnd(r) = next
    BY <1>4, Zenon DEF RangeEnd
  <1>11. ContTypeOK'
    <2>1. now' \in Nat /\ back' \in Nat /\ contfile' \in Nat
      BY <1>1, <1>6, <1>7, Zenon DEF IInv, ContTypeOK
    <2>2. /\ state_fd' \in [Daemon -> {"init", "open", "error"}]
          /\ last_clock_reg' \in [Daemon -> Nat] /\ saved_clock_reg' \in [Daemon -> Nat]
      BY <1>1, <1>6, Zenon DEF IInv, ContTypeOK
    <2> QED BY <2>1, <2>2, <1>9, Zenon DEF ContTypeOK
  <1>12. \A e \in Daemon : state_fd'[e] = "open" => e = d
    BY <1>1, Zenon DEF Alone, IInv, ContTypeOK
  <1>13. OneOpen'
    BY <1>12, Zenon DEF OneOpen
  <1>14. \A i \in 1..Len(issued) : RangeEnd(issued[i]) \in Nat
    BY <1>8, RangeEndNat, Zenon DEF IssuedRange
  <1>15. \A i \in 1..Len(issued') : RangeEnd(issued'[i]) <= next
    <2> SUFFICES ASSUME NEW i \in 1..Len(issued') PROVE RangeEnd(issued'[i]) <= next
      BY Zenon
    <2>1. CASE i \in 1..Len(issued)
      <3>1. RangeEnd(issued'[i]) = RangeEnd(issued[i])
        BY <2>1, <1>9, Zenon DEF RangeEnd
      <3> QED BY <3>1, <2>1, <1>3, <1>5, <1>6, <1>14
    <2>2. CASE i = Len(issued) + 1
      BY <2>2, <1>6, <1>9, <1>10
    <2> QED BY <2>1, <2>2, <1>9
  <1>16. FileAhead'
    <2>1. \A i \in 1..Len(issued') : RangeEnd(issued'[i]) \in Nat
      BY <1>9, RangeEndNat, Zenon DEF IssuedRange
    <2>2. \A i \in 1..Len(issued') : RangeEnd(issued'[i]) <= contfile'
      BY <1>15, <1>6, <1>7, <2>1
    <2>3. last_clock_reg'[d] = next /\ saved_clock_reg'[d] = saved
      BY <1>1, Zenon DEF IInv, ContTypeOK
    <2> QED BY <1>7, <1>12, <1>15, <2>2, <2>3, Zenon DEF FileAhead, RangeEnd
  <1>17. ContUnique'
    <2> SUFFICES ASSUME NEW i \in 1..Len(issued'), NEW j \in 1..Len(issued'), i < j
                 PROVE  RangeEnd(issued'[i]) <= issued'[j].first
      BY Zenon DEF ContUnique, RangeEnd
    <2>0. i \in 1..Len(issued)
      <3>1. Len(issued) \in Nat /\ Len(issued') = Len(issued) + 1
        BY <1>9, Zenon
      <3> QED BY ONLY <3>1, i \in 1..Len(issued'), j \in 1..Len(issued'), i < j
    <2>1. i \in 1..Len(issued) /\ RangeEnd(issued'[i]) = RangeEnd(issued[i])
      BY <2>0, <1>9, Zenon DEF RangeEnd
    <2>2. CASE j \in 1..Len(issued)
      BY <2>1, <2>2, <1>9, Zenon DEF IInv, ContUnique
    <2>3. CASE j = Len(issued) + 1
      BY <2>1, <2>3, <1>5, <1>9
    <2>4. j \in 1..Len(issued) \/ j = Len(issued) + 1
      <3>1. Len(issued) \in Nat /\ Len(issued') = Len(issued) + 1
        BY <1>9, Zenon
      <3> QED BY ONLY <3>1, j \in 1..Len(issued')
    <2> QED BY <2>2, <2>3, <2>4, Zenon
  <1> QED BY <1>11, <1>13, <1>16, <1>17, Zenon DEF IInv

\* A step that hands nothing out, and leaves every open daemon where it was or
\* further on, keeps the invariant.
LEMMA SilentKeeps ==
    ASSUME IInv, ContTypeOK', issued' = issued,
           contfile' \in Nat, contfile <= contfile',
           \A e \in Daemon : state_fd'[e] = "open" =>
               \/ /\ state_fd[e] = "open" /\ last_clock_reg'[e] = last_clock_reg[e]
                  /\ saved_clock_reg'[e] = saved_clock_reg[e] /\ contfile' = contfile
               \/ /\ state_fd[e] # "error" /\ Alone(e) /\ contfile' = contfile
                  /\ \A f \in Daemon : state_fd'[f] = "open" => f = e
                  /\ last_clock_reg'[e] = Floor(e) /\ saved_clock_reg'[e] = SavedReg(e)
    PROVE  IInv'
  <1>1. ContUnique'
    BY Zenon DEF IInv, ContUnique, RangeEnd
  <1>2. \A i \in 1..Len(issued) : RangeEnd(issued[i]) \in Nat
    BY RangeEndNat, Zenon DEF IInv, ContTypeOK, IssuedRange
  <1>3. \A i \in 1..Len(issued) : RangeEnd(issued[i]) <= contfile /\ contfile \in Nat
    BY Zenon DEF IInv, ContTypeOK, FileAhead
  <1>4. \A i \in 1..Len(issued') : RangeEnd(issued'[i]) <= contfile'
    BY <1>2, <1>3 DEF RangeEnd
  <1>5. OneOpen'
    BY Zenon DEF OneOpen, IInv
  <1>6. ASSUME NEW e \in Daemon, state_fd'[e] = "open"
        PROVE  /\ \A i \in 1..Len(issued) : RangeEnd(issued[i]) <= last_clock_reg'[e]
               /\ \/ saved_clock_reg'[e] = contfile'
                  \/ last_clock_reg'[e] >= saved_clock_reg'[e] /\ saved_clock_reg'[e] >= contfile'
    <2>1. CASE /\ state_fd[e] = "open" /\ last_clock_reg'[e] = last_clock_reg[e]
               /\ saved_clock_reg'[e] = saved_clock_reg[e] /\ contfile' = contfile
      BY <2>1, Zenon DEF IInv, FileAhead
    <2>2. CASE /\ state_fd[e] # "error" /\ contfile' = contfile
               /\ last_clock_reg'[e] = Floor(e) /\ saved_clock_reg'[e] = SavedReg(e)
      <3>1. /\ \A i \in 1..Len(issued) : RangeEnd(issued[i]) <= Floor(e)
            /\ SavedReg(e) = contfile \/ SavedReg(e) <= Floor(e)
            /\ contfile <= SavedReg(e)
        BY <2>2, FloorIsFresh, Zenon
      <3>2. Floor(e) \in Nat /\ SavedReg(e) \in Nat /\ contfile \in Nat
        BY RegTypes, Zenon DEF IInv, ContTypeOK
      <3> QED BY <2>2, <3>1, <3>2, Zenon
    <2> QED BY <1>6, <2>1, <2>2, Zenon
  <1>7. FileAhead'
    BY <1>4, <1>6, Zenon DEF FileAhead, RangeEnd
  <1> QED BY <1>1, <1>5, <1>7, Zenon DEF IInv

\* So does every use of the clock, for any number of UUIDs.
LEMMA UseKeeps ==
    ASSUME IInv, NEW d \in Daemon, NEW n \in Nat \ {0}, Alone(d),
           ContIssue(d, n) \/ ContRefuse(d, n) \/ ContFail(d, n)
    PROVE  IInv'
  <1> USE DEF SetStatics
  <1>1. CASE ContIssue(d, n)
    BY <1>1, IssueKeeps, Zenon
  <1>2. CASE ContRefuse(d, n)
    <2>1. Floor(d) \in Nat /\ SavedReg(d) \in Nat
      BY RegTypes, Zenon DEF IInv
    <2>2. /\ state_fd' = [state_fd EXCEPT ![d] = "open"]
          /\ last_clock_reg' = [last_clock_reg EXCEPT ![d] = Floor(d)]
          /\ saved_clock_reg' = [saved_clock_reg EXCEPT ![d] = SavedReg(d)]
          /\ contfile' = contfile /\ issued' = issued /\ now' = now /\ back' = back
          /\ state_fd[d] # "error"
      BY <1>2, Zenon DEF ContRefuse, clockVars
    <2>3. ContTypeOK'
      BY <2>1, <2>2, Zenon DEF IInv, ContTypeOK
    <2>4. \A f \in Daemon : state_fd'[f] = "open" => f = d
      BY <1>2, <2>2, Zenon DEF Alone, IInv, ContTypeOK
    <2>5. /\ last_clock_reg'[d] = Floor(d) /\ saved_clock_reg'[d] = SavedReg(d)
          /\ contfile \in Nat /\ contfile <= contfile'
      BY <2>2 DEF IInv, ContTypeOK
    <2> QED BY <1>2, <2>2, <2>3, <2>4, <2>5, SilentKeeps, Zenon
  <1>3. CASE ContFail(d, n)
    <2>1. /\ state_fd' = [state_fd EXCEPT ![d] = "error"]
          /\ last_clock_reg' = [last_clock_reg EXCEPT ![d] = 0]
          /\ saved_clock_reg' = [saved_clock_reg EXCEPT ![d] = 0]
          /\ issued' = issued /\ now' = now /\ back' = back /\ state_fd[d] # "error"
          /\ contfile' = contfile \/ (contfile' = Next_clock_reg(d, n) + Interval /\ MustSave(d, n))
      BY <1>3, Zenon DEF ContFail, clockVars
    <2>2. contfile' \in Nat /\ contfile <= contfile' /\ contfile \in Nat
      <3>1. Floor(d) \in Nat /\ SavedReg(d) \in Nat /\ contfile \in Nat
        BY RegTypes, Zenon DEF IInv, ContTypeOK
      <3>2. contfile <= SavedReg(d)
        BY <2>1, FloorIsFresh, Zenon
      <3>3. n \in Nat /\ Interval \in Nat
        BY ContAssumption, Zenon
      <3> QED BY <2>1, <3>1, <3>2, <3>3 DEF Next_clock_reg, MustSave
    <2>3. ContTypeOK'
      BY <2>1, <2>2, Zenon DEF IInv, ContTypeOK
    <2>4. \A f \in Daemon : state_fd'[f] # "open"
      BY <1>3, <2>1, Zenon DEF Alone, IInv, ContTypeOK
    <2> QED BY <2>1, <2>2, <2>3, <2>4, SilentKeeps, Zenon
  <1> QED BY <1>1, <1>2, <1>3, Zenon

\* Every step of the clock keeps the invariant.
LEMMA ContStep ==
    ASSUME IInv, [ContNext]_contVars
    PROVE  IInv'
  <1> USE DEF SetStatics
  <1>1. ASSUME NEW d \in Daemon, NEW n \in Nums, Alone(d),
               ContIssue(d, n) \/ ContRefuse(d, n) \/ ContFail(d, n)
        PROVE  IInv'
    <2>1. n \in Nat \ {0}
      BY ContAssumption, Zenon
    <2> QED BY <1>1, <2>1, UseKeeps, Zenon
  <1>4. ASSUME NEW d \in Daemon, ContExit(d)
        PROVE  IInv'
    <2>1. /\ state_fd' = [state_fd EXCEPT ![d] = "init"]
          /\ last_clock_reg' = [last_clock_reg EXCEPT ![d] = 0]
          /\ saved_clock_reg' = [saved_clock_reg EXCEPT ![d] = 0]
          /\ contfile' = contfile /\ issued' = issued /\ now' = now /\ back' = back
      BY <1>4, Zenon DEF ContExit, clockVars
    <2>2. ContTypeOK' /\ contfile \in Nat /\ contfile <= contfile'
      BY <2>1 DEF IInv, ContTypeOK
    <2>3. \A e \in Daemon : state_fd'[e] = "open" =>
              /\ state_fd[e] = "open" /\ last_clock_reg'[e] = last_clock_reg[e]
              /\ saved_clock_reg'[e] = saved_clock_reg[e]
      BY <2>1, Zenon DEF IInv, ContTypeOK
    <2> QED BY <2>1, <2>2, <2>3, SilentKeeps, Zenon
  <1>5. ASSUME UNCHANGED <<contfile, staticVars, issued>>, now' \in Nat, back' \in Nat
        PROVE  IInv'
    <2>1. /\ contfile' = contfile /\ issued' = issued /\ state_fd' = state_fd
          /\ last_clock_reg' = last_clock_reg /\ saved_clock_reg' = saved_clock_reg
      BY <1>5, Zenon DEF staticVars
    <2>2. ContTypeOK' /\ contfile \in Nat /\ contfile <= contfile'
      BY <1>5, <2>1 DEF IInv, ContTypeOK
    <2> QED BY <2>1, <2>2, SilentKeeps, Zenon
  <1>6. CASE Tick
    BY <1>6, <1>5 DEF Tick, IInv, ContTypeOK
  <1>7. CASE SetBack
    BY <1>7, <1>5 DEF SetBack, IInv, ContTypeOK
  <1>8. CASE UNCHANGED contVars
    BY <1>8, <1>5, Zenon DEF contVars, clockVars, IInv, ContTypeOK
  <1>9. ASSUME NEW d \in Daemon, ContBroken(d)
        PROVE  IInv'
    BY <1>8, <1>9, Zenon DEF ContBroken
  <1> QED BY <1>1, <1>4, <1>6, <1>7, <1>8, <1>9, Zenon DEF ContNext

\* Initially nothing was handed out.
LEMMA ContStart == ContInit => IInv
  <1> SUFFICES ASSUME ContInit PROVE IInv
    BY Zenon
  <1>1. ContTypeOK
    BY ContAssumption DEF ContInit, ContTypeOK
  <1>2. OneOpen /\ FileAhead /\ ContUnique
    BY DEF ContInit, OneOpen, FileAhead, ContUnique
  <1> QED BY <1>1, <1>2, Zenon DEF IInv

\* The invariant always holds.
LEMMA ContInvariant == ContSpec => []IInv
  <1>1. IInv /\ [ContNext]_contVars => IInv'
    BY ContStep, Zenon
  <1> QED BY <1>1, ContStart, PTL DEF ContSpec

\* For any daemons, numbers of UUIDs, intervals and clock offsets: no tick of the
\* continuous clock is handed out twice, over exits, crashes, failed writes and a
\* clock that is set back.
THEOREM ContUniqueAlways == ContSpec => []ContUnique
  <1>1. IInv => ContUnique
    BY Zenon DEF IInv
  <1> QED BY <1>1, ContInvariant, PTL

\* The file is always ahead of every tick that was handed out.
THEOREM FileAheadAlways == ContSpec => []FileAhead
  <1>1. IInv => FileAhead
    BY Zenon DEF IInv
  <1> QED BY <1>1, ContInvariant, PTL

-----------------------------------------------------------------------------
(* The daemons *)

Conn == [who : Daemon \union {None}, num : Nums \union {0}]

Control == {"off", "lock"} \union Starting \union Listening

DaemonTypes ==
    /\ dpc \in [Daemon -> Control]
    /\ backlog \in [Daemon -> Seq(Conn)]
    /\ reply \in [Daemon -> {None, Pid, Cont, Fallback}]
    /\ heard \in [Daemon -> {None, Eof, Pid, Cont, Fallback}]
    /\ state_fd \in [Daemon -> {"init", "open", "error"}]
    /\ orphaned \in BOOLEAN

\* Only a daemon that listens has connections, serves one, or has the clock's file open.
OnlyListening ==
    \A d \in Daemon :
        /\ backlog[d] # <<>> => dpc[d] \in Listening
        /\ dpc[d] = "reply" => backlog[d] # <<>>
        /\ state_fd[d] = "open" => dpc[d] \in Listening

\* One daemon at a time is between the lock of the pid file and listen().
PidfileExclusive ==
    \A d, e \in Daemon : dpc[d] \in Starting /\ dpc[e] \in Starting => d = e

\* From bind() to its exit a daemon is the one the path leads to.
PathLeads == \A d \in Daemon : dpc[d] \in Listening \union {"listen"} => socket = d

\* A daemon takes the path only when nobody listens: it asked and was told so, by the
\* end of the connection at the latest.
NobodyListens == \A e \in Daemon : dpc[e] \notin Listening

TakesFreePath ==
    \A d \in Daemon :
        \/ dpc[d] \in {"unlink", "bind", "listen"}
        \/ dpc[d] = "asked" /\ heard[d] = Eof
        => NobodyListens

\* Only a daemon that asks is waited for, and an end of connection is news to it.
OnlyAsked ==
    \A d \in Daemon :
        dpc[d] # "asked" => heard[d] # Eof /\ \A e \in Daemon : d \notin Peers(e)

UInv ==
    /\ DaemonTypes /\ OnlyListening
    /\ ~orphaned => PidfileExclusive /\ PathLeads /\ TakesFreePath /\ OnlyAsked

-----------------------------------------------------------------------------
(* The lock of the pid file *)

PidTypes ==
    /\ inode \in [Daemon -> Inodes \union {0}]
    /\ parent \in [Daemon -> BOOLEAN]
    /\ pidfile \in Inodes \union {0}
    /\ pidlock \in [Inodes -> Daemon \union {None}]
    /\ starts \in Nat

\* A daemon has the lock of the file it opened until it has forked, and then its
\* parent has it.
LockHeld ==
    \A d \in Daemon :
        /\ dpc[d] \in Starting \union {"fork"} \/ parent[d] =>
               inode[d] \in Inodes /\ pidlock[inode[d]] = d
        /\ dpc[d] = "lock" => inode[d] \in Inodes
        /\ dpc[d] \in {"lock", "fork"} \union Starting => ~parent[d]

\* The file that a starting daemon opened is the one at the path, unless it was
\* unlinked under it.
PidCurrent ==
    ~orphaned => \A d \in Daemon : dpc[d] \in {"lock"} \union Starting => inode[d] = pidfile

PidInv == PidTypes /\ LockHeld /\ PidCurrent

\* A daemon moves on and leaves the pid file alone.
LEMMA PidMoveKeeps ==
    ASSUME PidInv, dpc \in [Daemon -> Control], NEW d \in Daemon, NEW there, Goto(d, there),
           UNCHANGED <<inode, parent, pidfile, pidlock, starts, orphaned>>,
           there # "lock", there \in Starting \union {"fork"} => dpc[d] \in Starting
    PROVE  PidInv'
<1>1. dpc'[d] = there /\ \A e \in Daemon : e # d => dpc'[e] = dpc[e]
  BY Zenon DEF Goto
<1>2. PidTypes'
  BY Zenon DEF PidInv, PidTypes
<1>3. \A e \in Daemon :
          /\ dpc'[e] \in Starting => dpc[e] \in Starting
          /\ dpc'[e] = "lock" => dpc[e] = "lock"
          /\ dpc'[e] = "fork" => dpc[e] \in Starting \union {"fork"}
  BY <1>1, Zenon
<1>4. LockHeld'
  BY <1>3, Zenon DEF PidInv, LockHeld
<1>5. PidCurrent'
  BY <1>3, Zenon DEF PidInv, PidCurrent
<1> QED BY <1>2, <1>4, <1>5, Zenon DEF PidInv

\* A daemon lets go of the locks that are its own: it ends, or closes the file.
LEMMA PidDropKeeps ==
    ASSUME PidInv, dpc \in [Daemon -> Control], NEW d \in Daemon, NEW there \in {"off", "serve"},
           Goto(d, there),
           inode' = [inode EXCEPT ![d] = IF parent[d] THEN @ ELSE 0],
           pidlock' = [i \in Inodes |-> IF pidlock[i] = d /\ ~parent[d] THEN None ELSE pidlock[i]],
           UNCHANGED <<parent, pidfile, starts, orphaned>>
    PROVE  PidInv'
<1>1. PidTypes /\ LockHeld
  BY Zenon DEF PidInv
<1>2. /\ dpc'[d] = there /\ \A e \in Daemon : e # d => dpc'[e] = dpc[e] /\ inode'[e] = inode[e]
      /\ parent[d] => inode'[d] = inode[d]
  BY <1>1, Zenon DEF Goto, PidTypes
<1>3. PidTypes'
  <2>1. inode' \in [Daemon -> Inodes \union {0}]
    BY <1>1, Zenon DEF PidTypes
  <2>2. pidlock' \in [Inodes -> Daemon \union {None}]
    BY <1>1, Zenon DEF PidTypes
  <2> QED BY <1>1, <2>1, <2>2, Zenon DEF PidTypes
<1>4. there \notin {"lock", "fork"} \union Starting
  BY Zenon DEF Starting
<1>5. LockHeld'
  <2> SUFFICES ASSUME NEW e \in Daemon
               PROVE  /\ dpc'[e] \in Starting \union {"fork"} \/ parent[e] =>
                             inode'[e] \in Inodes /\ pidlock'[inode'[e]] = e
                      /\ dpc'[e] = "lock" => inode'[e] \in Inodes
                      /\ dpc'[e] \in {"lock", "fork"} \union Starting => ~parent[e]
    BY Zenon DEF LockHeld
  <2>1. CASE e = d
    BY <1>1, <1>2, <1>4, <2>1 DEF LockHeld
  <2>2. CASE e # d
    BY <1>1, <1>2, <2>2 DEF LockHeld
  <2> QED BY <2>1, <2>2, Zenon
<1>6. PidCurrent'
  BY <1>2, <1>4, Zenon DEF PidInv, PidCurrent
<1> QED BY <1>3, <1>5, <1>6, Zenon DEF PidInv

\* The lock is taken, and so is nobody else's.
LEMMA PidLockKeeps ==
    ASSUME PidInv, dpc \in [Daemon -> Control], NEW d \in Daemon, LockPidfile(d)
    PROVE  PidInv' /\ (~orphaned => \A e \in Daemon : e # d => dpc[e] \notin Starting)
<1>1. /\ dpc[d] = "lock" /\ dpc' = [dpc EXCEPT ![d] = "hello"] /\ pidlock[inode[d]] = None
      /\ pidlock' = [pidlock EXCEPT ![inode[d]] = d]
      /\ UNCHANGED <<inode, parent, pidfile, starts, orphaned>>
  BY Zenon DEF LockPidfile, Goto, boundVars
<1>2. PidTypes /\ LockHeld /\ PidCurrent
  BY Zenon DEF PidInv
<1>3. inode[d] \in Inodes /\ ~parent[d] /\ pidlock'[inode[d]] = d
  BY <1>1, <1>2, Zenon DEF LockHeld, PidTypes
<1>4. /\ dpc'[d] = "hello" /\ \A e \in Daemon : e # d => dpc'[e] = dpc[e]
      /\ \A i \in Inodes : i # inode[d] => pidlock'[i] = pidlock[i]
  BY <1>1, <1>2, Zenon DEF PidTypes
<1>5. \A e \in Daemon : pidlock[inode[e]] = e => inode[e] # inode[d]
  BY <1>1, UuiddAssumption, Zenon
<1>6. PidTypes'
  <2>1. pidlock' \in [Inodes -> Daemon \union {None}]
    BY <1>1, <1>2, Zenon DEF PidTypes
  <2> QED BY <1>1, <1>2, <2>1, Zenon DEF PidTypes
<1>7. LockHeld'
  <2> SUFFICES ASSUME NEW e \in Daemon
               PROVE  /\ dpc'[e] \in Starting \union {"fork"} \/ parent[e] =>
                             inode[e] \in Inodes /\ pidlock'[inode[e]] = e
                      /\ dpc'[e] = "lock" => inode[e] \in Inodes
                      /\ dpc'[e] \in {"lock", "fork"} \union Starting => ~parent[e]
    BY <1>1, Zenon DEF LockHeld
  <2>1. CASE e = d
    BY <1>3, <2>1, Zenon
  <2>2. CASE e # d
    BY <1>2, <1>4, <1>5, <2>2, Zenon DEF LockHeld
  <2> QED BY <2>1, <2>2, Zenon
<1>8. PidCurrent'
  BY <1>1, <1>2, <1>4, Zenon DEF PidCurrent
<1>9. ASSUME ~orphaned, NEW e \in Daemon, e # d, dpc[e] \in Starting PROVE FALSE
  <2>1. inode[e] = pidfile /\ inode[d] = pidfile /\ pidlock[inode[e]] = e
    BY <1>1, <1>2, <1>9, Zenon DEF PidCurrent, LockHeld
  <2> QED BY <1>5, <2>1, Zenon
<1> QED BY <1>6, <1>7, <1>8, <1>9, Zenon DEF PidInv

\* The file that a starting daemon opens is the one at the path; it makes it, if there is none.
LEMMA PidOpenKeeps ==
    ASSUME PidInv, dpc \in [Daemon -> Control], NEW d \in Daemon, OpenPidfile(d)
    PROVE  PidInv'
<1>1. /\ dpc[d] = "off" /\ dpc' = [dpc EXCEPT ![d] = "lock"] /\ ~parent[d]
      /\ starts < MaxStarts /\ starts' = starts + 1
      /\ pidfile' = IF pidfile = 0 THEN starts' ELSE pidfile
      /\ inode' = [inode EXCEPT ![d] = pidfile']
      /\ UNCHANGED <<parent, pidlock, orphaned>>
  BY Zenon DEF OpenPidfile, Goto
<1>2. PidTypes /\ LockHeld /\ PidCurrent
  BY Zenon DEF PidInv
<1>3. starts' \in Inodes /\ starts' \in Nat /\ 0 \notin Inodes
  BY <1>1, <1>2, UuiddAssumption DEF PidTypes, Inodes
<1>4. pidfile' \in Inodes /\ (pidfile # 0 => pidfile' = pidfile)
  BY <1>1, <1>2, <1>3, Zenon DEF PidTypes
<1>5. /\ dpc'[d] = "lock" /\ inode'[d] = pidfile'
      /\ \A e \in Daemon : e # d => dpc'[e] = dpc[e] /\ inode'[e] = inode[e]
  BY <1>1, <1>2, Zenon DEF PidTypes
<1>6. PidTypes'
  <2>1. inode' \in [Daemon -> Inodes \union {0}]
    BY <1>1, <1>2, <1>4, Zenon DEF PidTypes
  <2> QED BY <1>1, <1>2, <1>3, <1>4, <2>1, Zenon DEF PidTypes
<1>7. LockHeld'
  BY <1>1, <1>2, <1>4, <1>5, Zenon DEF LockHeld, Starting
<1>8. PidCurrent'
  <2> SUFFICES ASSUME ~orphaned, NEW e \in Daemon, dpc'[e] \in {"lock"} \union Starting, e # d
               PROVE  inode'[e] = pidfile'
    BY <1>1, <1>5, Zenon DEF PidCurrent
  <2>1. inode[e] = pidfile /\ inode[e] \in Inodes
    BY <1>2, <1>5, Zenon DEF PidCurrent, LockHeld
  <2> QED BY <1>3, <1>4, <1>5, <2>1, Zenon
<1> QED BY <1>6, <1>7, <1>8, Zenon DEF PidInv

\* The pid file is unlinked: what the ghost is for.
LEMMA PidUnlinkKeeps ==
    ASSUME PidInv, dpc \in [Daemon -> Control], orphaned \in BOOLEAN, NEW d \in Daemon, UnlinkPid(d)
    PROVE  PidInv'
<1>1. /\ dpc' = [dpc EXCEPT ![d] = "unlink_socket"] /\ pidfile' = 0
      /\ orphaned' = (orphaned \/ \E e \in Daemon \ {d} : OpenedPidfile(e))
      /\ UNCHANGED <<inode, parent, pidlock, starts>>
  BY Zenon DEF UnlinkPid, Goto, boundVars
<1>2. PidTypes /\ LockHeld /\ PidCurrent
  BY Zenon DEF PidInv
<1>3. dpc'[d] = "unlink_socket" /\ \A e \in Daemon : e # d => dpc'[e] = dpc[e]
  BY <1>1, Zenon
<1>4. PidTypes'
  BY <1>1, <1>2, Zenon DEF PidTypes
<1>5. LockHeld'
  BY <1>1, <1>2, <1>3, Zenon DEF LockHeld, Starting
<1>6. PidCurrent'
  <2> SUFFICES ASSUME ~orphaned', NEW e \in Daemon, dpc'[e] \in {"lock"} \union Starting
               PROVE  FALSE
    BY Zenon DEF PidCurrent
  <2>1. e # d /\ dpc[e] \in {"lock"} \union Starting
    BY <1>3, Zenon DEF Starting
  <2>2. ~orphaned /\ ~OpenedPidfile(e)
    BY <1>1, <2>1, Zenon
  <2> QED BY <1>2, <2>1, <2>2, Zenon DEF PidCurrent, OpenedPidfile
<1> QED BY <1>4, <1>5, <1>6, Zenon DEF PidInv

\* The lock goes from the daemon to its parent, and with it.
LEMMA PidForkKeeps ==
    ASSUME PidInv, dpc \in [Daemon -> Control], NEW d \in Daemon, CreateDaemon(d) \/ ParentExit(d)
    PROVE  PidInv'
<1>1. PidTypes /\ LockHeld /\ PidCurrent
  BY Zenon DEF PidInv
<1>2. CASE CreateDaemon(d)
  <2>1. /\ dpc[d] = "fork" /\ dpc' = [dpc EXCEPT ![d] = "pid"]
        /\ parent' \in {parent, [parent EXCEPT ![d] = TRUE]}
        /\ UNCHANGED <<inode, pidfile, pidlock, starts, orphaned>>
    BY <1>2, Zenon DEF CreateDaemon, Goto, pathVars, boundVars
  <2>2. /\ dpc'[d] = "pid" /\ \A e \in Daemon : e # d => dpc'[e] = dpc[e] /\ parent'[e] = parent[e]
        /\ parent' \in [Daemon -> BOOLEAN]
    BY <1>1, <2>1, Zenon DEF PidTypes
  <2>3. LockHeld'
    BY <1>1, <2>1, <2>2, Zenon DEF LockHeld, Starting
  <2>4. PidCurrent'
    BY <1>1, <2>1, <2>2, Zenon DEF PidCurrent, Starting
  <2> QED BY <1>1, <2>1, <2>2, <2>3, <2>4, Zenon DEF PidInv, PidTypes
<1>3. CASE ParentExit(d)
  <2>1. /\ parent[d] /\ parent' = [parent EXCEPT ![d] = FALSE]
        /\ pidlock' = [pidlock EXCEPT ![inode[d]] = None] /\ inode' = [inode EXCEPT ![d] = 0]
        /\ UNCHANGED <<dpc, pidfile, starts, orphaned>>
    BY <1>3, Zenon DEF ParentExit, boundVars
  <2>2. /\ parent'[d] = FALSE /\ pidlock[inode[d]] = d
        /\ \A e \in Daemon : e # d => inode'[e] = inode[e] /\ parent'[e] = parent[e]
        /\ \A i \in Inodes : i # inode[d] => pidlock'[i] = pidlock[i]
    BY <1>1, <2>1, Zenon DEF PidTypes, LockHeld
  <2>3. PidTypes'
    <3>1. pidlock' \in [Inodes -> Daemon \union {None}]
      BY <1>1, <2>1, Zenon DEF PidTypes
    <3>2. inode' \in [Daemon -> Inodes \union {0}] /\ parent' \in [Daemon -> BOOLEAN]
      BY <1>1, <2>1, Zenon DEF PidTypes
    <3> QED BY <1>1, <2>1, <3>1, <3>2, Zenon DEF PidTypes
  <2>4. dpc[d] \notin {"lock", "fork"} \union Starting
    BY <1>1, <2>1, Zenon DEF LockHeld
  <2>5. LockHeld'
    <3> SUFFICES ASSUME NEW e \in Daemon
                 PROVE  /\ dpc[e] \in Starting \union {"fork"} \/ parent'[e] =>
                               inode'[e] \in Inodes /\ pidlock'[inode'[e]] = e
                        /\ dpc[e] = "lock" => inode'[e] \in Inodes
                        /\ dpc[e] \in {"lock", "fork"} \union Starting => ~parent'[e]
      BY <2>1, Zenon DEF LockHeld
    <3>1. CASE e = d
      BY <2>2, <2>4, <3>1, Zenon
    <3>2. CASE e # d
      BY <1>1, <2>2, <3>2 DEF LockHeld
    <3> QED BY <3>1, <3>2, Zenon
  <2>6. PidCurrent'
    BY <1>1, <2>1, <2>2, <2>4, Zenon DEF PidCurrent
  <2> QED BY <2>3, <2>5, <2>6, Zenon DEF PidInv
<1> QED BY <1>2, <1>3, Zenon

\* Every step keeps what is known of the pid file.
LEMMA PidStep == ASSUME DaemonTypes, PidInv, [Next]_vars PROVE PidInv'
<1> USE DEF pathVars, boundVars, daemonVars
<1>1. dpc \in [Daemon -> Control] /\ orphaned \in BOOLEAN
  BY Zenon DEF DaemonTypes
<1>2. CASE UNCHANGED <<dpc, inode, parent, pidfile, pidlock, starts, orphaned>>
  BY <1>2, Zenon DEF PidInv, PidTypes, LockHeld, PidCurrent
<1>3. ASSUME NEW d \in Daemon,
             \/ Hello(d) \/ HelloEof(d) \/ UnlinkOld(d) \/ Listen(d) \/ Serve(d) \/ Reply(d) \/ Leave(d)
             \/ Bind(d) /\ Goto(d, "listen") /\ UNCHANGED <<inode, parent, pidlock>>
      PROVE  PidInv'
  <2>1. UNCHANGED <<inode, parent, pidfile, pidlock, starts, orphaned>>
    BY <1>3, Zenon DEF Hello, HelloEof, UnlinkOld, Bind, Listen, Serve, Reply, Leave
  <2>2. PICK there : /\ Goto(d, there) /\ there # "lock"
                     /\ there \in Starting \union {"fork"} => dpc[d] \in Starting
    BY <1>3 DEF Hello, HelloEof, UnlinkOld, Bind, Listen, Serve, Reply, Leave, Starting
  <2> QED BY <1>1, <2>1, <2>2, PidMoveKeeps, Zenon
<1>4. ASSUME NEW d \in Daemon, NEW path, Gone(d, path), UNCHANGED <<pidfile, starts, orphaned>>
      PROVE  PidInv'
  BY <1>1, <1>4, PidDropKeeps, Zenon DEF Gone
<1>5. ASSUME NEW d \in Daemon, AlreadyRunning(d) \/ StartTimeout(d) \/ Crash(d) \/ UnlinkSocket(d)
      PROVE  PidInv'
  BY <1>4, <1>5, Zenon DEF AlreadyRunning, StartTimeout, Crash, UnlinkSocket
<1>6. ASSUME NEW d \in Daemon, Bind(d) PROVE PidInv'
  BY <1>3, <1>4, <1>6, Zenon DEF Bind
<1>7. ASSUME NEW d \in Daemon, WritePid(d) PROVE PidInv'
  BY <1>1, <1>7, PidDropKeeps, Zenon DEF WritePid
<1>8. ASSUME NEW n \in Nums, Request(n) PROVE PidInv'
  BY <1>2, <1>8, Zenon DEF Request
<1>9. CASE TimePasses
  BY <1>2, <1>9, Zenon DEF TimePasses
<1>10. CASE UNCHANGED vars
  BY <1>2, <1>10, Zenon DEF vars
<1> QED
  BY <1>1, <1>3, <1>5, <1>6, <1>7, <1>8, <1>9, <1>10,
     PidOpenKeeps, PidLockKeeps, PidForkKeeps, PidUnlinkKeeps, Zenon
  DEF Next, Startup, server_loop, Environment

-----------------------------------------------------------------------------

\* The process of a daemon goes away.
LEMMA GoneKeeps ==
    ASSUME UInv, NEW d \in Daemon, NEW path, Gone(d, path), orphaned' = orphaned,
           path = LeftSocket(d) \/ dpc[d] \in Listening
    PROVE  UInv'
<1>1. /\ dpc' = [dpc EXCEPT ![d] = "off"] /\ socket' = path
      /\ heard' = [w \in Daemon |->
                      IF w = d THEN None ELSE IF w \in Peers(d) THEN Eof ELSE heard[w]]
      /\ backlog' = [e \in Daemon |->
                      IF e = d THEN <<>>
                      ELSE [i \in 1..Len(backlog[e]) |->
                                IF backlog[e][i].who = d THEN [backlog[e][i] EXCEPT !.who = None]
                                ELSE backlog[e][i]]]
      /\ reply' = [reply EXCEPT ![d] = None]
      /\ state_fd' = [state_fd EXCEPT ![d] = "init"]
  BY Zenon DEF Gone, Goto, ContExit, SetStatics
<1>2. DaemonTypes
  BY Zenon DEF UInv
<1>3. ASSUME NEW e \in Daemon, e # d
      PROVE  /\ backlog'[e] \in Seq(Conn) /\ Len(backlog'[e]) = Len(backlog[e])
             /\ \A i \in 1..Len(backlog[e]) :
                    backlog'[e][i].who = IF backlog[e][i].who = d THEN None ELSE backlog[e][i].who
  <2>1. backlog[e] \in Seq(Conn) /\ Len(backlog[e]) \in Nat
    BY <1>2 DEF DaemonTypes
  <2> DEFINE b == [i \in 1..Len(backlog[e]) |->
                      IF backlog[e][i].who = d THEN [backlog[e][i] EXCEPT !.who = None]
                      ELSE backlog[e][i]]
  <2>2. ASSUME NEW i \in 1..Len(backlog[e])
        PROVE  /\ b[i] \in Conn
               /\ b[i].who = IF backlog[e][i].who = d THEN None ELSE backlog[e][i].who
    <3>1. backlog[e][i] \in Conn
      BY <2>1
    <3>2. PICK c \in Conn : c = backlog[e][i]
      BY <3>1, Zenon
    <3>3. [c EXCEPT !.who = None] \in Conn /\ [c EXCEPT !.who = None].who = None
      BY Zenon DEF Conn
    <3>4. b[i] = IF c.who = d THEN [c EXCEPT !.who = None] ELSE c
      BY <3>2, Zenon
    <3> HIDE DEF b
    <3> QED BY <3>2, <3>3, <3>4, Zenon
  <2>3. DOMAIN b = 1..Len(backlog[e]) /\ b = [i \in 1..Len(backlog[e]) |-> b[i]]
    BY Zenon
  <2> HIDE DEF b
  <2>4. b \in Seq(Conn) /\ Len(b) = Len(backlog[e])
    <3>1. b \in [1..Len(backlog[e]) -> Conn]
      BY <2>2, <2>3, Zenon
    <3> QED BY <2>1, <3>1
  <2>5. backlog'[e] = b
    BY <1>1, <1>3, Zenon DEF b
  <2> QED BY <2>2, <2>4, <2>5, Zenon
<1>4. backlog'[d] = <<>> /\ dpc'[d] = "off" /\ heard'[d] = None /\ state_fd'[d] = "init"
  BY <1>1, <1>2, Zenon DEF DaemonTypes
<1>5. \A e \in Daemon : e # d => dpc'[e] = dpc[e] /\ state_fd'[e] = state_fd[e]
  BY <1>1, <1>2, Zenon DEF DaemonTypes
<1>6. DaemonTypes'
  <2>1. backlog' \in [Daemon -> Seq(Conn)]
    BY <1>1, <1>3, <1>4
  <2>2. dpc' \in [Daemon -> Control] /\ state_fd' \in [Daemon -> {"init", "open", "error"}]
    BY <1>1, <1>2, Zenon DEF DaemonTypes, Control
  <2>3. reply' \in [Daemon -> {None, Pid, Cont, Fallback}]
    BY <1>1, <1>2, Zenon DEF DaemonTypes
  <2>4. heard' \in [Daemon -> {None, Eof, Pid, Cont, Fallback}]
    <3>1. \A w \in Daemon : heard[w] \in {None, Eof, Pid, Cont, Fallback}
      BY <1>2, Zenon DEF DaemonTypes
    <3>2. \A w \in Daemon : heard'[w] \in {None, Eof, Pid, Cont, Fallback}
      BY <1>1, <3>1, Zenon
    <3> QED BY <1>1, <3>2, Zenon
  <2> QED BY <1>2, <2>1, <2>2, <2>3, <2>4, Zenon DEF DaemonTypes
<1>7. \A e \in Daemon : backlog'[e] # <<>> => e # d /\ backlog[e] # <<>>
  BY <1>2, <1>3, <1>4 DEF DaemonTypes
<1>8. \A e \in Daemon : e # d /\ backlog[e] # <<>> => backlog'[e] # <<>>
  BY <1>2, <1>3 DEF DaemonTypes
<1>9. OnlyListening'
  BY <1>4, <1>5, <1>7, <1>8, Zenon DEF OnlyListening, UInv, Listening, Up
<1>10. \A e, f \in Daemon : e \in Peers(f)' => e # d /\ f # d /\ e \in Peers(f)
  BY <1>3, <1>4, UuiddAssumption DEF Peers
<1> SUFFICES ASSUME ~orphaned, PidfileExclusive, PathLeads, TakesFreePath, OnlyAsked
             PROVE  (PidfileExclusive /\ PathLeads /\ TakesFreePath /\ OnlyAsked)'
  BY <1>6, <1>9, Zenon DEF UInv
<1>11. PidfileExclusive'
  BY <1>4, <1>5, Zenon DEF PidfileExclusive, Starting
<1>12. PathLeads'
  <2> SUFFICES ASSUME NEW e \in Daemon, dpc'[e] \in Listening \union {"listen"} PROVE path = e
    BY <1>1, Zenon DEF PathLeads
  <2>1. e # d /\ dpc'[e] = dpc[e]
    BY <1>4, <1>5, Zenon DEF Listening, Up
  <2>2. socket = e
    BY <2>1, Zenon DEF PathLeads
  <2>3. dpc[d] \notin Listening
    BY <2>1, <2>2, Zenon DEF PathLeads
  <2> QED BY <2>1, <2>2, <2>3, Zenon DEF LeftSocket
<1>13. NobodyListens => NobodyListens'
  BY <1>4, <1>5, Zenon DEF NobodyListens, Listening, Up
<1>14. Peers(d) # {} => NobodyListens'
  <2> SUFFICES ASSUME Peers(d) # {} PROVE NobodyListens'
    BY Zenon
  <2>1. backlog[d] # <<>>
    BY DEF Peers
  <2>2. dpc[d] \in Listening
    BY <2>1, Zenon DEF OnlyListening, UInv
  <2> QED BY <1>4, <1>5, <2>2, Zenon DEF NobodyListens, PathLeads, Listening, Up
<1>15. TakesFreePath'
  <2> SUFFICES ASSUME NEW e \in Daemon,
                      \/ dpc'[e] \in {"unlink", "bind", "listen"}
                      \/ dpc'[e] = "asked" /\ heard'[e] = Eof
               PROVE  NobodyListens'
    BY Zenon DEF TakesFreePath
  <2>1. e # d /\ dpc'[e] = dpc[e]
    BY <1>4, <1>5, Zenon
  <2>2. CASE dpc[e] \in {"unlink", "bind", "listen"}
    BY <1>13, <2>2, Zenon DEF TakesFreePath
  <2>3. CASE dpc[e] = "asked" /\ heard'[e] = Eof
    BY <1>1, <1>13, <1>14, <2>1, <2>3, Zenon DEF TakesFreePath
  <2> QED BY <2>1, <2>2, <2>3, Zenon
<1>16. OnlyAsked'
  <2> SUFFICES ASSUME NEW e \in Daemon, dpc'[e] # "asked"
               PROVE  heard'[e] # Eof /\ \A f \in Daemon : e \notin Peers(f)'
    BY Zenon DEF OnlyAsked
  <2>1. CASE e = d
    BY <1>4, <1>10, <2>1, UuiddAssumption, Zenon DEF Eof
  <2>2. CASE e # d
    <3>1. heard[e] # Eof /\ \A f \in Daemon : e \notin Peers(f)
      BY <1>5, <2>2, Zenon DEF OnlyAsked
    <3> QED BY <1>1, <1>10, <2>2, <3>1, Zenon
  <2> QED BY <2>1, <2>2, Zenon
<1> QED BY <1>11, <1>12, <1>15, <1>16, Zenon

\* A daemon moves on, and may use the clock.
LEMMA ServeKeeps ==
    ASSUME UInv, NEW d \in Daemon, NEW there \in Control, Goto(d, there),
           UNCHANGED <<backlog, heard>>, orphaned' \in BOOLEAN, orphaned => orphaned',
           reply' \in [Daemon -> {None, Pid, Cont, Fallback}],
           state_fd' \in [Daemon -> {"init", "open", "error"}],
           \A e \in Daemon : state_fd'[e] = "open" =>
                                 state_fd[e] = "open" \/ (e = d /\ there \in Listening),
           dpc[d] # "asked", there # "asked",
           there = "reply" => backlog[d] # <<>>,
           dpc[d] \in Listening => there \in Listening,
           ~orphaned =>
               /\ there \in Starting => dpc[d] \in Starting
               /\ there \in {"unlink", "bind", "listen"} => NobodyListens
               /\ there \in Listening => dpc[d] \in Listening \/ dpc[d] = "listen"
               /\ there \in Listening \union {"listen"} => socket' = d
               /\ socket' = socket \/ (NobodyListens /\ dpc[d] \in Starting)
    PROVE  UInv'
<1>1. DaemonTypes /\ OnlyListening
  BY Zenon DEF UInv
<1>2. dpc' = [dpc EXCEPT ![d] = there]
  BY Zenon DEF Goto
<1>3. dpc'[d] = there /\ \A e \in Daemon : e # d => dpc'[e] = dpc[e]
  BY <1>1, <1>2, Zenon DEF DaemonTypes
<1>4. DaemonTypes'
  BY <1>1, <1>2, Zenon DEF DaemonTypes
<1>5. OnlyListening'
  BY <1>1, <1>3, Zenon DEF OnlyListening
<1> SUFFICES ASSUME ~orphaned, PidfileExclusive, PathLeads, TakesFreePath, OnlyAsked
             PROVE  (PidfileExclusive /\ PathLeads /\ TakesFreePath /\ OnlyAsked)'
  BY <1>4, <1>5, Zenon DEF UInv
<1>6. PidfileExclusive'
  BY <1>3, Zenon DEF PidfileExclusive
<1>7. PathLeads'
  <2> SUFFICES ASSUME NEW e \in Daemon, dpc'[e] \in Listening \union {"listen"} PROVE socket' = e
    BY Zenon DEF PathLeads
  <2>1. CASE e = d
    BY <1>3, <2>1, Zenon
  <2>2. CASE e # d
    <3>1. dpc[e] \in Listening \union {"listen"} /\ socket = e
      BY <1>3, <2>2, Zenon DEF PathLeads
    <3>2. ~(NobodyListens /\ dpc[d] \in Starting)
      BY <2>2, <3>1, Zenon DEF NobodyListens, PidfileExclusive, Starting
    <3> QED BY <3>1, <3>2, Zenon
  <2> QED BY <2>1, <2>2, Zenon
<1>8. TakesFreePath'
  <2> SUFFICES ASSUME NEW e \in Daemon,
                      \/ dpc'[e] \in {"unlink", "bind", "listen"}
                      \/ dpc'[e] = "asked" /\ heard'[e] = Eof
               PROVE  NobodyListens'
    BY Zenon DEF TakesFreePath
  <2>1. CASE e = d
    <3>1. NobodyListens /\ there \notin Listening
      BY <1>3, <2>1, Zenon DEF Listening, Up
    <3> QED BY <1>3, <3>1, Zenon DEF NobodyListens
  <2>2. CASE e # d
    <3>1. dpc[e] \in Starting /\ NobodyListens
      BY <1>3, <2>2, Zenon DEF TakesFreePath, Starting
    <3>2. dpc[d] # "listen" /\ dpc[d] \notin Listening
      BY <2>2, <3>1, Zenon DEF PidfileExclusive, Starting, NobodyListens
    <3> QED BY <1>3, <3>1, <3>2, Zenon DEF NobodyListens
  <2> QED BY <2>1, <2>2, Zenon
<1>9. OnlyAsked'
  BY <1>3 DEF OnlyAsked, Peers
<1> QED BY <1>6, <1>7, <1>8, <1>9, Zenon

\* A daemon that goes on without an answer keeps UInv.
LEMMA MoveKeeps ==
    ASSUME UInv, NEW d \in Daemon, NEW there \in Control, Goto(d, there),
           UNCHANGED <<backlog, reply, heard, state_fd>>,
           orphaned' \in BOOLEAN, orphaned => orphaned',
           dpc[d] # "asked", there # "asked", there # "reply",
           dpc[d] \in Listening => there \in Listening,
           ~orphaned =>
               /\ there \in Starting => dpc[d] \in Starting
               /\ there \in {"unlink", "bind", "listen"} => NobodyListens
               /\ there \in Listening => dpc[d] \in Listening \/ dpc[d] = "listen"
               /\ there \in Listening \union {"listen"} => socket' = d
               /\ socket' = socket \/ (NobodyListens /\ dpc[d] \in Starting)
    PROVE  UInv'
<1>1. /\ reply' \in [Daemon -> {None, Pid, Cont, Fallback}]
      /\ state_fd' \in [Daemon -> {"init", "open", "error"}]
  BY Zenon DEF UInv, DaemonTypes
<1> QED BY <1>1, ServeKeeps, Zenon

\* connect() and write() to the daemon that listens.
LEMMA ConnectKeeps ==
    ASSUME UInv, NEW e \in Daemon, NEW who \in Daemon \union {None},
           NEW n \in Nums \union {0}, Connect(e, who, n),
           UNCHANGED <<reply, heard, state_fd, orphaned, socket>>,
           \/ who = None /\ dpc' = dpc
           \/ who \in Daemon /\ dpc[who] = "hello" /\ dpc' = [dpc EXCEPT ![who] = "asked"]
    PROVE  UInv'
<1>1. DaemonTypes /\ OnlyListening
  BY Zenon DEF UInv
<1> DEFINE c == [who |-> who, num |-> n]
<1>2. c \in Conn /\ c.who = who
  BY Zenon DEF Conn
<1>3. dpc[e] \in Listening /\ backlog' = [backlog EXCEPT ![e] = Append(@, c)]
  BY Zenon DEF Connect, Reachable
<1> HIDE DEF c
<1>4. /\ backlog[e] \in Seq(Conn) /\ Len(backlog[e]) \in Nat
      /\ backlog'[e] = Append(backlog[e], c)
      /\ \A f \in Daemon : f # e => backlog'[f] = backlog[f]
      /\ backlog' \in [Daemon -> Seq(Conn)]
  BY <1>1, <1>2, <1>3 DEF DaemonTypes
<1>5. /\ Len(backlog'[e]) = Len(backlog[e]) + 1 /\ backlog'[e][Len(backlog[e]) + 1] = c
      /\ \A i \in 1..Len(backlog[e]) : backlog'[e][i] = backlog[e][i]
  BY <1>2, <1>4
<1>6. backlog'[e] # <<>>
  BY <1>4, <1>5
<1>7. \A w, f \in Daemon : w \in Peers(f)' => w \in Peers(f) \/ w = who
  <2> SUFFICES ASSUME NEW w \in Daemon, NEW f \in Daemon, w \in Peers(f)', w # who
               PROVE  w \in Peers(f)
    BY Zenon
  <2>1. CASE f # e
    BY <1>4, <2>1, Zenon DEF Peers
  <2>2. CASE f = e
    <3>1. PICK i \in 1..Len(backlog'[e]) : backlog'[e][i].who = w
      BY <2>2, Zenon DEF Peers
    <3>2. i # Len(backlog[e]) + 1
      BY <1>2, <1>5, <3>1, Zenon
    <3>3. i \in 1..Len(backlog[e])
      BY <1>4, <1>5, <3>1, <3>2
    <3> QED BY <1>5, <2>2, <3>1, <3>3, Zenon DEF Peers
  <2> QED BY <2>1, <2>2, Zenon
<1>8. /\ \A d \in Daemon : dpc'[d] = dpc[d] \/ (d = who /\ dpc[d] = "hello" /\ dpc'[d] = "asked")
      /\ who \in Daemon => dpc'[who] = "asked"
  BY <1>1, UuiddAssumption, Zenon DEF DaemonTypes
<1>9. \A d \in Daemon : dpc'[d] \in Listening <=> dpc[d] \in Listening
  BY <1>8, Zenon DEF Listening, Up
<1>10. DaemonTypes'
  <2>1. dpc' \in [Daemon -> Control]
    BY <1>1, Zenon DEF DaemonTypes, Control, Starting
  <2> QED BY <1>1, <1>4, <2>1, Zenon DEF DaemonTypes
<1>11. OnlyListening'
  BY <1>1, <1>3, <1>4, <1>6, <1>8, <1>9, Zenon DEF OnlyListening
<1> SUFFICES ASSUME ~orphaned, PidfileExclusive, PathLeads, TakesFreePath, OnlyAsked
             PROVE  (PidfileExclusive /\ PathLeads /\ TakesFreePath /\ OnlyAsked)'
  BY <1>10, <1>11, Zenon DEF UInv
<1>12. PidfileExclusive' /\ PathLeads'
  BY <1>8, <1>9, Zenon DEF PidfileExclusive, PathLeads, Starting
<1>13. TakesFreePath'
  BY <1>8, <1>9, Zenon DEF TakesFreePath, NobodyListens, OnlyAsked
<1>14. OnlyAsked'
  BY <1>7, <1>8, Zenon DEF OnlyAsked
<1> QED BY <1>12, <1>13, <1>14, Zenon

\* write_all() and close(): the first connection is answered.
LEMMA ReplyKeeps ==
    ASSUME UInv, NEW d \in Daemon, Reply(d)
    PROVE  UInv'
<1>1. DaemonTypes /\ OnlyListening
  BY Zenon DEF UInv
<1>2. /\ dpc[d] = "reply" /\ dpc' = [dpc EXCEPT ![d] = "serve"]
      /\ backlog' = [backlog EXCEPT ![d] = Tail(@)]
      /\ reply' = [reply EXCEPT ![d] = None]
      /\ heard' = IF Head(backlog[d]).who = None THEN heard
                   ELSE [heard EXCEPT ![Head(backlog[d]).who] = reply[d]]
      /\ state_fd' = state_fd /\ socket' = socket /\ orphaned' = orphaned
  BY Zenon DEF Reply, Goto, contVars, staticVars, pathVars
<1>3. backlog[d] # <<>> /\ backlog[d] \in Seq(Conn)
  BY <1>1, <1>2, Zenon DEF OnlyListening, DaemonTypes
<1>4. PICK who \in Daemon \union {None} : who = Head(backlog[d]).who
  <2>1. Head(backlog[d]) \in Conn
    BY <1>3
  <2> QED BY <2>1, Zenon DEF Conn
<1>5. who \in Daemon => who \in Peers(d)
  BY <1>3, <1>4 DEF Peers
<1>6. /\ Tail(backlog[d]) \in Seq(Conn) /\ Len(Tail(backlog[d])) = Len(backlog[d]) - 1
      /\ \A i \in 1..(Len(backlog[d]) - 1) : Tail(backlog[d])[i] = backlog[d][i + 1]
      /\ Len(backlog[d]) \in Nat
  BY <1>3
<1>7. /\ backlog'[d] = Tail(backlog[d]) /\ backlog' \in [Daemon -> Seq(Conn)]
      /\ \A e \in Daemon : e # d => backlog'[e] = backlog[e]
  BY <1>1, <1>2, <1>6, Zenon DEF DaemonTypes
<1>8. ASSUME NEW w \in Daemon, NEW e \in Daemon, w \in Peers(e)' PROVE w \in Peers(e)
  <2>1. CASE e # d
    BY <1>7, <1>8, <2>1, Zenon DEF Peers
  <2>2. CASE e = d
    <3>1. PICK i \in 1..(Len(backlog[d]) - 1) : Tail(backlog[d])[i].who = w
      BY <1>6, <1>7, <1>8, <2>2, ZenonT(30) DEF Peers
    <3>2. i + 1 \in 1..Len(backlog[d]) /\ backlog[d][i + 1].who = w
      BY <1>6, <3>1
    <3> QED BY <2>2, <3>2, Zenon DEF Peers
  <2> QED BY <2>1, <2>2, Zenon
<1>9. dpc'[d] = "serve" /\ \A e \in Daemon : e # d => dpc'[e] = dpc[e]
  BY <1>1, <1>2, Zenon DEF DaemonTypes
<1>10. \A e \in Daemon : dpc'[e] \in Listening <=> dpc[e] \in Listening
  BY <1>2, <1>9, Zenon DEF Listening, Up
<1>11. /\ reply[d] # Eof /\ reply[d] \in {None, Pid, Cont, Fallback}
  BY <1>1, UuiddAssumption, Zenon DEF DaemonTypes, Eof, Pid, Cont, Fallback
<1>12. \A w \in Daemon : heard'[w] = heard[w] \/ (w = who /\ heard'[w] = reply[d])
  BY <1>1, <1>2, <1>4, Zenon DEF DaemonTypes
<1>13. DaemonTypes'
  <2>1. dpc' \in [Daemon -> Control] /\ reply' \in [Daemon -> {None, Pid, Cont, Fallback}]
    BY <1>1, <1>2, Zenon DEF DaemonTypes, Control, Listening, Up
  <2>2. heard' \in [Daemon -> {None, Eof, Pid, Cont, Fallback}]
    <3>1. reply[d] \in {None, Eof, Pid, Cont, Fallback}
      BY <1>11, Zenon
    <3> QED BY <1>1, <1>2, <1>4, <3>1, Zenon DEF DaemonTypes
  <2> QED BY <1>1, <1>2, <1>7, <2>1, <2>2, Zenon DEF DaemonTypes
<1>14. OnlyListening'
  <2>1. \A e \in Daemon : backlog'[e] # <<>> => dpc'[e] \in Listening
    BY <1>1, <1>3, <1>7, <1>10, Zenon DEF OnlyListening
  <2> QED BY <1>1, <1>2, <1>7, <1>9, <1>10, <2>1, Zenon DEF OnlyListening
<1> SUFFICES ASSUME ~orphaned, PidfileExclusive, PathLeads, TakesFreePath, OnlyAsked
             PROVE  (PidfileExclusive /\ PathLeads /\ TakesFreePath /\ OnlyAsked)'
  BY <1>2, <1>13, <1>14, Zenon DEF UInv
<1>15. PidfileExclusive'
  BY <1>9, Zenon DEF PidfileExclusive, Starting
<1>16. PathLeads'
  BY <1>2, <1>10 DEF PathLeads
<1>17. TakesFreePath'
  <2> SUFFICES ASSUME NEW e \in Daemon,
                      \/ dpc'[e] \in {"unlink", "bind", "listen"}
                      \/ dpc'[e] = "asked" /\ heard'[e] = Eof
               PROVE  NobodyListens'
    BY Zenon DEF TakesFreePath
  <2>1. dpc'[e] = dpc[e] /\ (heard'[e] = Eof => heard[e] = Eof)
    BY <1>9, <1>11, <1>12, Zenon
  <2>2. NobodyListens
    BY <2>1, Zenon DEF TakesFreePath
  <2> QED BY <1>10, <2>2, Zenon DEF NobodyListens
<1>18. OnlyAsked'
  BY <1>2, <1>5, <1>8, <1>9, <1>11, <1>12, ZenonT(30) DEF OnlyAsked
<1> QED BY <1>15, <1>16, <1>17, <1>18, Zenon

\* Taking the pidfile lock keeps UInv.
LEMMA LockKeeps ==
    ASSUME UInv, PidInv, NEW d \in Daemon, LockPidfile(d)
    PROVE  UInv'
<1>1. DaemonTypes /\ OnlyListening
  BY Zenon DEF UInv
<1>2. /\ dpc[d] = "lock" /\ dpc' = [dpc EXCEPT ![d] = "hello"]
      /\ orphaned' = orphaned
      /\ backlog' = backlog /\ reply' = reply /\ heard' = heard /\ socket' = socket
      /\ state_fd' = state_fd
  BY Zenon DEF LockPidfile, Goto, contVars, staticVars, connVars
<1>3. dpc'[d] = "hello" /\ \A e \in Daemon : e # d => dpc'[e] = dpc[e]
  BY <1>1, <1>2, Zenon DEF DaemonTypes
<1>4. DaemonTypes'
  <2>1. dpc' \in [Daemon -> Control]
    BY <1>1, <1>2, Zenon DEF DaemonTypes, Control, Starting
  <2> QED BY <1>1, <1>2, <2>1, Zenon DEF DaemonTypes
<1>5. \A e \in Daemon : dpc'[e] \in Listening <=> dpc[e] \in Listening
  BY <1>2, <1>3, Zenon DEF Listening, Up
<1>6. OnlyListening'
  BY <1>1, <1>2, <1>3, <1>5, Zenon DEF OnlyListening
<1> SUFFICES ASSUME ~orphaned'
             PROVE  (PidfileExclusive /\ PathLeads /\ TakesFreePath /\ OnlyAsked)'
  BY <1>4, <1>6, Zenon DEF UInv
<1>7. /\ PidfileExclusive /\ PathLeads /\ TakesFreePath /\ OnlyAsked
      /\ \A e \in Daemon : e # d => dpc[e] \notin Starting
  BY <1>1, <1>2, PidLockKeeps, Zenon DEF UInv, DaemonTypes
<1>8. PidfileExclusive' /\ PathLeads'
  BY <1>2, <1>3, <1>5, <1>7, ZenonT(30) DEF PidfileExclusive, PathLeads
<1>9. TakesFreePath'
  BY <1>2, <1>3, <1>5, <1>7, Zenon DEF TakesFreePath, NobodyListens
<1>10. OnlyAsked'
  BY <1>2, <1>3, <1>7 DEF OnlyAsked, Peers
<1> QED BY <1>8, <1>9, <1>10, Zenon

\* A probe that gets no answer keeps UInv.
LEMMA HelloEofKeeps ==
    ASSUME UInv, NEW d \in Daemon, HelloEof(d)
    PROVE  UInv'
<1>1. DaemonTypes /\ OnlyListening
  BY Zenon DEF UInv
<1>2. /\ dpc[d] = "asked" /\ heard[d] = Eof /\ dpc' = [dpc EXCEPT ![d] = "unlink"]
      /\ heard' = [heard EXCEPT ![d] = None] /\ orphaned' = orphaned
      /\ backlog' = backlog /\ reply' = reply /\ socket' = socket /\ state_fd' = state_fd
  BY Zenon DEF HelloEof, Goto, contVars, staticVars, pathVars
<1>3. /\ dpc'[d] = "unlink" /\ heard'[d] = None
      /\ \A e \in Daemon : e # d => dpc'[e] = dpc[e] /\ heard'[e] = heard[e]
  BY <1>1, <1>2, Zenon DEF DaemonTypes
<1>4. DaemonTypes'
  <2>1. dpc' \in [Daemon -> Control]
    BY <1>1, <1>2, Zenon DEF DaemonTypes, Control, Starting
  <2>2. heard' \in [Daemon -> {None, Eof, Pid, Cont, Fallback}]
    BY <1>1, <1>2, Zenon DEF DaemonTypes
  <2> QED BY <1>1, <1>2, <2>1, <2>2, Zenon DEF DaemonTypes
<1>5. \A e \in Daemon : dpc'[e] \in Listening <=> dpc[e] \in Listening
  BY <1>2, <1>3, Zenon DEF Listening, Up
<1>6. OnlyListening'
  BY <1>1, <1>2, <1>3, <1>5, Zenon DEF OnlyListening
<1> SUFFICES ASSUME ~orphaned, PidfileExclusive, PathLeads, TakesFreePath, OnlyAsked
             PROVE  (PidfileExclusive /\ PathLeads /\ TakesFreePath /\ OnlyAsked)'
  BY <1>2, <1>4, <1>6, Zenon DEF UInv
<1>7. NobodyListens
  BY <1>2, Zenon DEF TakesFreePath
<1>8. NobodyListens'
  BY <1>5, <1>7, Zenon DEF NobodyListens
<1>9. \A e \in Daemon : backlog[e] = <<>>
  BY <1>1, <1>7, Zenon DEF OnlyListening, NobodyListens
<1>10. PidfileExclusive' /\ PathLeads'
  BY <1>2, <1>3, <1>5, ZenonT(30) DEF PidfileExclusive, PathLeads, Starting
<1>11. TakesFreePath'
  BY <1>8, Zenon DEF TakesFreePath
<1>12. \A e, f \in Daemon : e \notin Peers(f)'
  BY <1>2, <1>9 DEF Peers
<1>13. OnlyAsked'
  BY <1>3, <1>12, UuiddAssumption, Zenon DEF OnlyAsked, Eof
<1> QED BY <1>10, <1>11, <1>13, Zenon

\* A step that touches nothing UInv speaks of.
LEMMA SameKeeps ==
    ASSUME UInv, UNCHANGED <<dpc, backlog, reply, heard, state_fd, orphaned, socket>>
    PROVE  UInv'
BY DEF UInv, DaemonTypes, OnlyListening, PidfileExclusive, PathLeads, TakesFreePath, NobodyListens,
       OnlyAsked, Peers

\* Every step keeps the invariant.
LEMMA UStep == ASSUME UInv, PidInv, [Next]_vars PROVE UInv'
<1>0. orphaned \in BOOLEAN
  BY Zenon DEF UInv, DaemonTypes
<1> USE DEF contVars, staticVars, connVars, pathVars, daemonVars
<1>1. CASE UNCHANGED vars
  BY <1>1, SameKeeps, Zenon DEF vars
<1>2. ASSUME NEW d \in Daemon, OpenPidfile(d) PROVE UInv'
  BY <1>0, <1>2, MoveKeeps, Zenon DEF OpenPidfile, Goto, Control, Starting, Listening, Up
<1>3. ASSUME NEW d \in Daemon, Hello(d) PROVE UInv'
  <2>1. ASSUME NEW e \in Daemon, Connect(e, d, 0), Goto(d, "asked") PROVE UInv'
    BY <1>3, <2>1, ConnectKeeps, Zenon DEF Hello, Goto
  <2>2. ASSUME Unreachable, Goto(d, "unlink"), UNCHANGED backlog PROVE UInv'
    <3>1. ~orphaned => NobodyListens
      BY <2>2, Zenon DEF UInv, Unreachable, Reachable, NobodyListens, PathLeads
    <3>2. /\ dpc[d] = "hello" /\ "unlink" \in Control /\ dpc[d] \in Starting
          /\ "unlink" \notin Listening /\ dpc[d] \notin Listening
      BY <1>3, Zenon DEF Hello, Control, Starting, Listening, Up
    <3>3. UNCHANGED <<backlog, reply, heard, state_fd, orphaned, socket>>
      BY <1>3, <2>2, Zenon DEF Hello
    <3> QED BY <1>0, <2>2, <3>1, <3>2, <3>3, MoveKeeps, Zenon
  <2> QED BY <1>3, <2>1, <2>2, Zenon DEF Hello
<1>4. ASSUME NEW d \in Daemon, AlreadyRunning(d) \/ StartTimeout(d) \/ Crash(d) PROVE UInv'
  <2>1. Gone(d, LeftSocket(d)) /\ orphaned' = orphaned
    BY <1>4, Zenon DEF AlreadyRunning, StartTimeout, Crash
  <2> QED BY <2>1, GoneKeeps, Zenon
<1>5. ASSUME NEW d \in Daemon, UnlinkSocket(d) PROVE UInv'
  <2>1. Gone(d, None) /\ orphaned' = orphaned /\ dpc[d] \in Listening
    BY <1>5, Zenon DEF UnlinkSocket, Listening
  <2> QED BY <2>1, GoneKeeps, Zenon
<1>6. ASSUME NEW d \in Daemon, dpc[d] \in {"unlink", "bind"}, NEW there \in {"bind", "listen"},
             Goto(d, there), UNCHANGED <<backlog, reply, heard, state_fd, orphaned>>,
             there = "listen" => socket' = d
      PROVE  UInv'
  <2>1. ~orphaned => NobodyListens
    BY <1>6, Zenon DEF UInv, TakesFreePath
  <2>2. dpc[d] \in Starting /\ there \in Control /\ there \notin Listening /\ dpc[d] \notin Listening
    BY <1>6, Zenon DEF Starting, Control, Listening, Up
  <2>3. dpc[d] # "asked" /\ there # "asked" /\ there # "reply"
    BY <1>6, Zenon
  <2> QED BY <1>0, <1>6, <2>1, <2>2, <2>3, MoveKeeps, Zenon
<1>7. ASSUME NEW d \in Daemon, UnlinkOld(d) PROVE UInv'
  BY <1>6, <1>7, Zenon DEF UnlinkOld
<1>8. ASSUME NEW d \in Daemon, Bind(d) PROVE UInv'
  <2>1. CASE socket = None /\ socket' = d /\ Goto(d, "listen") /\ UNCHANGED <<contVars, inode, parent, connVars, pidlock>>
    BY <1>6, <1>8, <2>1, Zenon DEF Bind
  <2>2. CASE Gone(d, LeftSocket(d))
    BY <1>8, <2>2, GoneKeeps, Zenon DEF Bind
  <2> QED BY <1>8, <2>1, <2>2, Zenon DEF Bind
<1>9. ASSUME NEW d \in Daemon, dpc[d] \in Listening \union {"listen"},
             NEW there \in Listening \ {"reply"}, Goto(d, there),
             UNCHANGED <<backlog, reply, heard, state_fd, socket>>,
             orphaned' \in BOOLEAN, orphaned => orphaned'
      PROVE  UInv'
  <2>1. ~orphaned => socket' = d
    BY <1>9, Zenon DEF UInv, PathLeads
  <2>2. /\ there \in Control /\ there \notin Starting /\ there # "asked" /\ dpc[d] # "asked"
        /\ there \notin {"unlink", "bind", "listen"} /\ there # "reply"
    BY <1>9, Zenon DEF Starting, Control, Listening, Up
  <2> QED BY <1>9, <2>1, <2>2, MoveKeeps, Zenon
<1>10. ASSUME NEW d \in Daemon, Listen(d) \/ CreateDaemon(d) \/ WritePid(d) \/ Leave(d) \/ UnlinkPid(d)
       PROVE  UInv'
  <2>1. dpc[d] \in Listening \union {"listen"} /\ UNCHANGED <<backlog, reply, heard, state_fd, socket>>
    BY <1>10, Zenon DEF Listen, CreateDaemon, WritePid, Leave, UnlinkPid, Listening, Up
  <2>3. orphaned' \in BOOLEAN /\ (orphaned => orphaned')
    BY <1>0, <1>10, Zenon DEF Listen, CreateDaemon, WritePid, Leave, UnlinkPid
  <2>2. \E there \in Listening \ {"reply"} : Goto(d, there)
    BY <1>10, Zenon DEF Listen, CreateDaemon, WritePid, Leave, UnlinkPid, Listening, Up
  <2> QED BY <1>9, <2>1, <2>2, <2>3, Zenon
<1>11. ASSUME NEW d \in Daemon, ParentExit(d) PROVE UInv'
  BY <1>11, SameKeeps, Zenon DEF ParentExit
<1>12. ASSUME NEW d \in Daemon, Serve(d) PROVE UInv'
  <2>1. /\ dpc[d] = "serve" /\ backlog[d] # <<>> /\ Goto(d, "reply")
        /\ UNCHANGED <<backlog, heard, orphaned, socket>>
    BY <1>12, Zenon DEF Serve
  <2>2. PICK n : n = Head(backlog[d]).num
    BY Zenon
  <2>3. /\ \E r \in {Pid, Cont, Fallback} : reply' = [reply EXCEPT ![d] = r]
        /\ \/ state_fd' = state_fd
           \/ \E fd \in {"open", "error"} : state_fd' = [state_fd EXCEPT ![d] = fd]
    BY <1>12, Zenon DEF Serve, ContIssue, ContRefuse, ContFail, ContBroken, SetStatics
  <2>4. reply \in [Daemon -> {None, Pid, Cont, Fallback}] /\ state_fd \in [Daemon -> {"init", "open", "error"}]
    BY Zenon DEF UInv, DaemonTypes
  <2>5. reply' \in [Daemon -> {None, Pid, Cont, Fallback}]
    BY <2>3, <2>4, Zenon
  <2>6. /\ state_fd' \in [Daemon -> {"init", "open", "error"}]
        /\ \A e \in Daemon : state_fd'[e] = "open" => state_fd[e] = "open" \/ e = d
    BY <2>3, <2>4, Zenon
  <2>7. ~orphaned => socket' = d
    BY <2>1, Zenon DEF UInv, PathLeads, Listening, Up
  <2>8. "reply" \in Control /\ "reply" \in Listening /\ "reply" \notin Starting /\ dpc[d] \in Listening
    BY <2>1, Zenon DEF Control, Starting, Listening, Up
  <2> QED BY <1>0, <2>1, <2>5, <2>6, <2>7, <2>8, ServeKeeps, Zenon
<1>13. ASSUME NEW n \in Nums, Request(n) PROVE UInv'
  <2>1. PICK d \in Daemon : Connect(d, None, n)
    BY <1>13, Zenon DEF Request
  <2> QED BY <1>13, <2>1, ConnectKeeps, Zenon DEF Request
<1>14. CASE TimePasses
  BY <1>14, SameKeeps, Zenon DEF TimePasses, Tick
<1> QED
  BY <1>1, <1>2, <1>3, <1>4, <1>5, <1>7, <1>8, <1>10, <1>11, <1>12, <1>13, <1>14,
     LockKeeps, HelloEofKeeps, ReplyKeeps, Zenon
  DEF Next, Startup, server_loop, Environment

\* Both hold always.
LEMMA UInvariant == Spec => [](UInv /\ PidInv)
<1>1. Init => UInv
  <2> SUFFICES ASSUME Init PROVE UInv
    BY Zenon
  <2>1. /\ dpc = [d \in Daemon |-> "off"] /\ backlog = [d \in Daemon |-> <<>>]
        /\ reply = [d \in Daemon |-> None] /\ heard = [d \in Daemon |-> None]
        /\ state_fd = [d \in Daemon |-> "init"] /\ orphaned = FALSE
    BY Zenon DEF Init, ContInit
  <2>2. DaemonTypes
    <3>1. dpc \in [Daemon -> Control] /\ backlog \in [Daemon -> Seq(Conn)]
      BY <2>1 DEF Control
    <3>2. /\ reply \in [Daemon -> {None, Pid, Cont, Fallback}]
          /\ heard \in [Daemon -> {None, Eof, Pid, Cont, Fallback}]
      BY <2>1, Zenon
    <3>3. state_fd \in [Daemon -> {"init", "open", "error"}] /\ orphaned \in BOOLEAN
      BY <2>1, ZenonT(30)
    <3> QED BY <3>1, <3>2, <3>3, Zenon DEF DaemonTypes
  <2>3. OnlyListening /\ PidfileExclusive /\ PathLeads /\ TakesFreePath
    BY <2>1, Zenon DEF OnlyListening, PidfileExclusive, PathLeads, TakesFreePath, Starting, Listening, Up
  <2>4. OnlyAsked
    BY <2>1, UuiddAssumption DEF OnlyAsked, Peers, Eof
  <2> QED BY <2>2, <2>3, <2>4, Zenon DEF UInv
<1>2. Init => PidInv
  <2> SUFFICES ASSUME Init PROVE PidInv
    BY Zenon
  <2>1. /\ dpc = [d \in Daemon |-> "off"] /\ inode = [d \in Daemon |-> 0]
        /\ parent = [d \in Daemon |-> FALSE] /\ pidfile = 0
        /\ pidlock = [i \in Inodes |-> None] /\ starts = 0
    BY Zenon DEF Init
  <2>2. PidTypes
    BY <2>1 DEF PidTypes
  <2>3. LockHeld /\ PidCurrent
    BY <2>1, Zenon DEF LockHeld, PidCurrent, Starting
  <2> QED BY <2>2, <2>3, Zenon DEF PidInv
<1>3. UInv => DaemonTypes
  BY Zenon DEF UInv
<1>4. QED
  BY <1>1, <1>2, <1>3, UStep, PidStep, PTL DEF Spec

\* For any number of daemons, starts and crashes: a daemon that is up is the one that the
\* path of the socket leads to, unless the pid file was unlinked under one that was starting.
\* That daemons which start at the same time keep out of each other's way is the lock's doing
\* (LockHeld, PidCurrent), and is proved of it.
THEOREM SocketKeptAlways == Spec => []SocketKept
<1>1. UInv => SocketKept
  BY Zenon DEF UInv, PathLeads, SocketKept, Listening
<1>2. QED
  BY <1>1, UInvariant, PTL

-----------------------------------------------------------------------------

\* What a step of the daemons does to the clock is a step of the clock.
LEMMA ClockStep ==
    ASSUME UInv, [Next]_vars, ~orphaned'
    PROVE  [ContNext]_contVars
<1>1. ASSUME NEW d \in Daemon, Serve(d) PROVE [ContNext]_contVars
  <2>1. dpc[d] = "serve" /\ backlog[d] # <<>> /\ orphaned' = orphaned
    BY <1>1, Zenon DEF Serve
  <2>2. OnlyListening /\ PathLeads /\ backlog[d] \in Seq(Conn)
    BY <2>1, Zenon DEF UInv, DaemonTypes
  <2>3. Alone(d)
    BY <2>1, <2>2, Zenon DEF Alone, OnlyListening, PathLeads, Listening, Up
  <2>4. PICK n : n = Head(backlog[d]).num
    BY Zenon
  <2>5. n \in Nums \union {0}
    <3>1. Head(backlog[d]) \in Conn
      BY <2>1, <2>2
    <3> QED BY <2>4, <3>1, Zenon DEF Conn
  <2>6. \/ UNCHANGED contVars
        \/ n > 0 /\ (ContIssue(d, n) \/ ContRefuse(d, n) \/ ContFail(d, n) \/ ContBroken(d))
    BY <1>1, <2>4, Zenon DEF Serve
  <2>7. n > 0 => n \in Nums
    BY <2>5
  <2> QED BY <2>3, <2>6, <2>7, Zenon DEF ContNext
<1>2. ASSUME NEW d \in Daemon, NEW path, Gone(d, path) PROVE [ContNext]_contVars
  BY <1>2, Zenon DEF Gone, ContNext
<1>3. ASSUME NEW d \in Daemon,
             AlreadyRunning(d) \/ StartTimeout(d) \/ Crash(d) \/ UnlinkSocket(d)
      PROVE  [ContNext]_contVars
  BY <1>2, <1>3, Zenon DEF AlreadyRunning, StartTimeout, Crash, UnlinkSocket
<1>4. ASSUME NEW d \in Daemon, Bind(d) PROVE [ContNext]_contVars
  BY <1>2, <1>4, Zenon DEF Bind
<1>5. ASSUME NEW d \in Daemon,
             \/ OpenPidfile(d) \/ LockPidfile(d) \/ Hello(d) \/ HelloEof(d) \/ UnlinkOld(d)
             \/ Listen(d) \/ CreateDaemon(d) \/ ParentExit(d) \/ WritePid(d)
             \/ Reply(d) \/ Leave(d) \/ UnlinkPid(d)
      PROVE  UNCHANGED contVars
  BY <1>5, Zenon DEF OpenPidfile, LockPidfile, Hello, HelloEof, UnlinkOld, Listen, CreateDaemon,
              ParentExit, WritePid, Reply, Leave, UnlinkPid
<1>6. ASSUME NEW n \in Nums, Request(n) PROVE UNCHANGED contVars
  BY <1>6, Zenon DEF Request
<1>7. CASE TimePasses
  BY <1>7, Zenon DEF TimePasses, ContNext
<1>8. CASE UNCHANGED vars
  BY <1>8, Zenon DEF vars
<1> QED
  BY <1>1, <1>3, <1>4, <1>5, <1>6, <1>7, <1>8, Zenon
  DEF Next, Startup, server_loop, Environment

\* Unless the pid file was unlinked under one of them, the daemons use the continuous clock as UuidCont has it:
\* a daemon that serves is alone with the file, whatever became of the ones before it.
THEOREM ContClockAlways == Spec => ContClock
<1>1. Init => ContInit
  BY Zenon DEF Init
<1>2. ASSUME UInv, [Next]_vars PROVE [orphaned' \/ ContNext]_contVars
  BY <1>2, ClockStep, Zenon
<1>3. QED
  BY <1>1, <1>2, UInvariant, PTL DEF Spec, ContClock

\* Daemons that come and go, crash and are started twice hand out no tick of the
\* continuous clock twice, and the file stays ahead of them, unless the pid file was unlinked
\* under one that was starting.
THEOREM UniqueUnlessOrphaned == Spec => [](~orphaned => ContUnique /\ FileAhead)
<1> DEFINE J == orphaned \/ IInv
<1>1. Init => J
  BY ContStart, Zenon DEF Init
<1>2. ASSUME UInv, J, [Next]_vars PROVE J'
  <2>1. orphaned => orphaned'
    <3>1. orphaned \in BOOLEAN
      BY <1>2, Zenon DEF UInv, DaemonTypes
    <3> QED
      BY <1>2, <3>1, ZenonT(30)
      DEF Next, Startup, server_loop, Environment, vars, OpenPidfile, LockPidfile, Hello, HelloEof,
          AlreadyRunning, StartTimeout, UnlinkOld, Bind, Listen, CreateDaemon, ParentExit, WritePid,
          Serve, Reply, Leave, UnlinkPid, UnlinkSocket, Crash, Request, TimePasses
  <2>2. CASE orphaned'
    BY <2>2, Zenon
  <2>3. CASE ~orphaned'
    BY <1>2, <2>1, <2>3, ClockStep, ContStep, Zenon
  <2> QED BY <2>2, <2>3, Zenon
<1>3. J => (~orphaned => ContUnique /\ FileAhead)
  BY Zenon DEF IInv
<1> HIDE DEF J
<1>4. QED
  BY <1>1, <1>2, <1>3, UInvariant, PTL DEF Spec
=============================================================================
