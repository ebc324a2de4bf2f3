----------------------------- MODULE UtabProofs -----------------------------
(***************************************************************************)
(* Utab implements UtabTable, for any number of processes, any operations    *)
(* and any number of failures and deaths: no update of utab is lost.  And    *)
(* utab.act is the file that each announced process has locked.              *)
(***************************************************************************)
EXTENDS Utab, TLAPS, WellFoundedInduction

\* What the control points, the lock and the copies in memory have to do with
\* each other.
AfterWrite == {"emit", "close", "end", "unlink", "exit", "done", "dead"}

Types ==
    /\ pc \in [Proc -> Points]
    /\ ready \in [Proc -> BOOLEAN] /\ missing \in [Proc -> BOOLEAN]
    /\ DOMAIN tab = Proc

\* The copy a process is about to modify and write back is utab itself, because
\* it has the lock; and a process writes once, if it has to.
UpdateInv ==
    /\ \A p \in Proc : pc[p] \in Locked => lock = p
    /\ \A p \in Proc : pc[p] = "write" => tab[p] = utab
    /\ \A p \in Proc : p \in written => pc[p] \in AfterWrite
    /\ \A p \in Proc : ready[p] => op[p].kind # "kmount"
    /\ \A p \in Proc : pc[p] \in {"start", "act", "lock", "read", "write"} => ready[p]

-----------------------------------------------------------------------------

\* Every step keeps the types.
LEMMA TypesStep == ASSUME Types, [Next]_vars PROVE Types'
<1>1. CASE UNCHANGED vars
  BY <1>1, Zenon DEF Types, vars, updVars
<1>2. SUFFICES ASSUME NEW p \in Proc, Progress(p) \/ Failure(p) PROVE Types'
  BY <1>1, <1>2, Zenon DEF Next
<1> USE DEF Types, Goto, updVars, Points, Final
<1>3. CASE PrepareUpdate(p)
  BY <1>3, Zenon DEF PrepareUpdate, UpdateNeeded
<1>4. CASE StartLock(p)
  BY <1>4, Zenon DEF StartLock
<1>5. CASE StartAct(p)
  BY <1>5, Zenon DEF StartAct
<1>6. CASE StartUnlinks(p)
  BY <1>6, Zenon DEF StartUnlinks
<1>7. CASE Syscall(p)
  BY <1>7, Zenon DEF Syscall
<1>8. CASE ExecHelper(p)
  BY <1>8, Zenon DEF ExecHelper
<1>9. CASE HelperExits(p)
  BY <1>9, Zenon DEF HelperExits
<1>10. CASE UpdateTabs(p)
  BY <1>10, Zenon DEF UpdateTabs
<1>11. CASE mnt_update_already_done(p)
  BY <1>11, Zenon DEF mnt_update_already_done, ToEmit
<1>12. CASE UpdateLock(p)
  BY <1>12, Zenon DEF UpdateLock
<1>13. CASE ReadTable(p)
  BY <1>13, Zenon DEF ReadTable
<1>14. CASE WriteTable(p)
  BY <1>14, Zenon DEF WriteTable, ToEmit
<1>15. CASE EmitOpen(p)
  BY <1>15, Zenon DEF EmitOpen
<1>16. CASE EmitClose(p)
  BY <1>16, Zenon DEF EmitClose
<1>17. CASE EndNothing(p)
  BY <1>17, Zenon DEF EndNothing
<1>18. CASE EndLock(p)
  BY <1>18, Zenon DEF EndLock
<1>19. CASE EndUnlink(p)
  BY <1>19, Zenon DEF EndUnlink
<1>20. CASE Exit(p)
  BY <1>20, Zenon DEF Exit
<1>21. CASE StartLockFails(p)
  BY <1>21, Zenon DEF StartLockFails
<1>22. CASE StartActFails(p)
  BY <1>22, Zenon DEF StartActFails
<1>23. CASE SyscallFails(p)
  BY <1>23, Zenon DEF SyscallFails
<1>24. CASE PostFails(p)
  BY <1>24, Zenon DEF PostFails
<1>25. CASE TryAgain(p)
  BY <1>25, Zenon DEF TryAgain
<1>26. CASE UpdateLockFails(p)
  BY <1>26, Zenon DEF UpdateLockFails
<1>27. CASE ReadFails(p)
  BY <1>27, Zenon DEF ReadFails, ToEmit
<1>28. CASE WriteFails(p)
  BY <1>28, Zenon DEF WriteFails
<1>29. CASE EmitFails(p)
  BY <1>29, Zenon DEF EmitFails
<1>30. CASE EndLockFails(p)
  BY <1>30, Zenon DEF EndLockFails
<1>31. CASE Crash(p)
  BY <1>31, Zenon DEF Crash
<1> QED
  BY <1>2, <1>3, <1>4, <1>5, <1>6, <1>7, <1>8, <1>9, <1>10, <1>11, <1>12, <1>13, <1>14,
      <1>15, <1>16, <1>17, <1>18, <1>19, <1>20, <1>21, <1>22, <1>23, <1>24, <1>25, <1>26,
      <1>27, <1>28, <1>29, <1>30, <1>31, ZenonT(30)
  DEF Progress, Failure

\* Every step keeps UpdateInv.
LEMMA UpdateStep == ASSUME Types, UpdateInv, [Next]_vars PROVE UpdateInv'
<1>1. CASE UNCHANGED vars
  BY <1>1, Zenon DEF UpdateInv, vars, updVars, tableVars
<1>2. SUFFICES ASSUME NEW p \in Proc, Progress(p) \/ Failure(p) PROVE UpdateInv'
  BY <1>1, <1>2, Zenon DEF Next
<1> USE UtabAssumption DEF Types, UpdateInv, Goto, updVars, tableVars, Locked, AfterWrite
<1>3. CASE PrepareUpdate(p)
  BY <1>3, Zenon DEF PrepareUpdate, UpdateNeeded
<1>4. CASE StartLock(p)
  BY <1>4, Zenon DEF StartLock, mnt_lock_file
<1>5. CASE StartAct(p)
  BY <1>5, Zenon DEF StartAct, mnt_unlock_file
<1>6. CASE StartUnlinks(p)
  BY <1>6, Zenon DEF StartUnlinks
<1>7. CASE Syscall(p)
  BY <1>7, Zenon DEF Syscall
<1>8. CASE ExecHelper(p)
  BY <1>8, Zenon DEF ExecHelper
<1>9. CASE HelperExits(p)
  BY <1>9, Zenon DEF HelperExits, Final
<1>10. CASE UpdateTabs(p)
  BY <1>10, Zenon DEF UpdateTabs
<1>11. CASE mnt_update_already_done(p)
  BY <1>11, Zenon DEF mnt_update_already_done, ToEmit
<1>12. CASE UpdateLock(p)
  BY <1>12, Zenon DEF UpdateLock, mnt_lock_file
<1>13. CASE ReadTable(p)
  BY <1>13, Zenon DEF ReadTable
<1>14. CASE WriteTable(p)
  BY <1>14 DEF WriteTable, mnt_unlock_file, ToEmit
<1>15. CASE EmitOpen(p)
  BY <1>15, Zenon DEF EmitOpen
<1>16. CASE EmitClose(p)
  BY <1>16, Zenon DEF EmitClose
<1>17. CASE EndNothing(p)
  BY <1>17, Zenon DEF EndNothing
<1>18. CASE EndLock(p)
  BY <1>18, Zenon DEF EndLock, mnt_lock_file
<1>19. CASE EndUnlink(p)
  BY <1>19, Zenon DEF EndUnlink, mnt_unlock_file
<1>20. CASE Exit(p)
  BY <1>20, Zenon DEF Exit
<1>21. CASE StartLockFails(p)
  BY <1>21, Zenon DEF StartLockFails, mnt_lock_file_fails
<1>22. CASE StartActFails(p)
  BY <1>22, Zenon DEF StartActFails, mnt_unlock_file
<1>23. CASE SyscallFails(p)
  BY <1>23, Zenon DEF SyscallFails
<1>24. CASE PostFails(p)
  BY <1>24, Zenon DEF PostFails
<1>25. CASE TryAgain(p)
  BY <1>25, Zenon DEF TryAgain
<1>26. CASE UpdateLockFails(p)
  BY <1>26, Zenon DEF UpdateLockFails, mnt_lock_file_fails
<1>27. CASE ReadFails(p)
  BY <1>27, Zenon DEF ReadFails, mnt_unlock_file, ToEmit
<1>28. CASE WriteFails(p)
  BY <1>28, Zenon DEF WriteFails, mnt_unlock_file
<1>29. CASE EmitFails(p)
  BY <1>29, Zenon DEF EmitFails
<1>30. CASE EndLockFails(p)
  BY <1>30, Zenon DEF EndLockFails, mnt_lock_file_fails
<1>31. CASE Crash(p)
  BY <1>31, Zenon DEF Crash, Final
<1> QED
  BY <1>2, <1>3, <1>4, <1>5, <1>6, <1>7, <1>8, <1>9, <1>10, <1>11, <1>12, <1>13, <1>14,
      <1>15, <1>16, <1>17, <1>18, <1>19, <1>20, <1>21, <1>22, <1>23, <1>24, <1>25, <1>26,
      <1>27, <1>28, <1>29, <1>30, <1>31, ZenonT(30)
  DEF Progress, Failure

\* Renaming the new file to utab is the one step of the abstract specification.
LEMMA WriteStep ==
  ASSUME Types, UpdateInv, NEW p \in Proc, WriteTable(p)
  PROVE  Table!Next \/ UNCHANGED Table!vars
<1>1. CASE Table!Writes(op[p], missing[p], tab[p])
  <2>1. tab[p] = utab /\ p \notin written /\ op[p].kind # "kmount" /\ missing[p] \in BOOLEAN
    BY Zenon DEF Types, UpdateInv, WriteTable, AfterWrite
  <2>2. utab' = Table!mnt_update_table(op[p], missing[p], tab[p]) /\ written' = written \cup {p}
    BY <1>1, Zenon DEF WriteTable
  <2>3. op' = op
    BY Zenon DEF WriteTable
  <2>4. Table!Update(p)
    BY <2>1, <2>2, <2>3, ZenonT(30) DEF Table!Update
  <2> QED
    BY <2>4, Zenon DEF Table!Next
<1>2. CASE ~ Table!Writes(op[p], missing[p], tab[p])
  BY <1>2, Zenon DEF WriteTable, tableVars, Table!vars
<1> QED
  BY <1>1, <1>2, Zenon

\* No other step changes the table.
LEMMA TableFrame ==
  ASSUME NEW p \in Proc, Progress(p) \/ Failure(p), ~ WriteTable(p)
  PROVE  UNCHANGED Table!vars
<1> USE DEF tableVars, Table!vars
<1>1. CASE PrepareUpdate(p) \/ StartLock(p) \/ StartAct(p) \/ StartUnlinks(p)
          \/ Syscall(p) \/ ExecHelper(p) \/ HelperExits(p)
  BY <1>1, Zenon
  DEF PrepareUpdate, StartLock, StartAct, StartUnlinks, Syscall, ExecHelper, HelperExits
<1>2. CASE UpdateTabs(p) \/ mnt_update_already_done(p) \/ UpdateLock(p) \/ ReadTable(p)
  BY <1>2, Zenon DEF UpdateTabs, mnt_update_already_done, UpdateLock, ReadTable
<1>3. CASE EmitOpen(p) \/ EmitClose(p) \/ EndNothing(p) \/ EndLock(p)
          \/ EndUnlink(p) \/ Exit(p)
  BY <1>3, Zenon DEF EmitOpen, EmitClose, EndNothing, EndLock, EndUnlink, Exit
<1>4. CASE StartLockFails(p) \/ StartActFails(p) \/ SyscallFails(p) \/ PostFails(p)
          \/ TryAgain(p)
  BY <1>4, Zenon DEF StartLockFails, StartActFails, SyscallFails, PostFails, TryAgain
<1>5. CASE UpdateLockFails(p) \/ ReadFails(p) \/ WriteFails(p) \/ EmitFails(p)
          \/ EndLockFails(p) \/ Crash(p)
  BY <1>5, Zenon DEF UpdateLockFails, ReadFails, WriteFails, EmitFails, EndLockFails, Crash
<1> QED
  BY <1>1, <1>2, <1>3, <1>4, <1>5, ZenonT(30) DEF Progress, Failure

\* Every step is a step of UtabTable, or leaves utab alone.
LEMMA TableStep ==
  ASSUME Types, UpdateInv, [Next]_vars
  PROVE  [Table!Next]_(Table!vars)
<1>1. CASE UNCHANGED vars
  BY <1>1, Zenon DEF vars, tableVars, Table!vars
<1> QED
  BY <1>1, WriteStep, TableFrame, Zenon DEF Next

\* The types and UpdateInv hold always.
LEMMA UpdateInvariant == Spec => [](Types /\ UpdateInv)
<1>1. Init => Types /\ UpdateInv
  BY UtabAssumption, Zenon DEF Init, Types, UpdateInv, Points, Locked
<1>2. Types /\ UpdateInv /\ [Next]_vars => (Types /\ UpdateInv)'
  BY TypesStep, UpdateStep, Zenon
<1> QED
  BY <1>1, <1>2, PTL DEF Spec

\* NoLostUpdate: whatever the interleaving, the failures and the deaths, the
\* reads, writes and renames of tab_update.c change the table as if every
\* process had applied its update to the present table in one step.
THEOREM Refinement == Spec => NoLostUpdate
<1>1. Init => Table!Init
  BY Zenon DEF Init, Table!Init
<1>2. Types /\ UpdateInv /\ [Next]_vars => [Table!Next]_(Table!vars)
  BY TableStep, Zenon
<1> QED
  BY <1>1, <1>2, UpdateInvariant, PTL DEF Spec, NoLostUpdate, Table!Spec

-----------------------------------------------------------------------------
(* The file utab.act                                                         *)

ActTypes ==
    /\ act \in Nat /\ inodes \in Nat
    /\ act_fd \in [Proc -> Nat]
    /\ leaked \in [Proc -> SUBSET Nat]

\* Where a process may have utab.act open, and what must have failed before it
\* loses the descriptor or ends with it.
ActInv ==
    /\ \A p \in Proc : pc[p] = "actfail" => <<p, "act">> \in faults
    /\ \A p \in Proc : pc[p] = "unlink" => act_fd[p] # 0
    /\ \A p \in Proc :
          pc[p] \in {"idle", "start", "act"} => act_fd[p] = 0 \/ Retried(p)
    /\ \A p \in Proc : act_fd[p] = 0 \/ ready[p] \/ Retried(p)
    /\ \A p \in Proc : leaked[p] = {} \/ Retried(p)
    /\ \A p \in Proc :
          pc[p] = "exit" => act_fd[p] = 0 \/ HasFault(p, {"syscall", "post", "end", "rdonly", "loop"})

\* The steps that open, close or remove utab.act.
TouchesAct(p) ==
    StartAct(p) \/ StartActFails(p) \/ StartUnlinks(p) \/ EndUnlink(p) \/ Exit(p) \/ Crash(p)

\* The other steps leave utab.act alone.
LEMMA ActFrame ==
  ASSUME Types, NEW p \in Proc, Progress(p) \/ Failure(p), ~ TouchesAct(p)
  PROVE  /\ UNCHANGED actVars
         /\ pc[p] # "actfail" /\ \A q \in Proc \ {p} : pc'[q] = pc[q]
<1> USE DEF Types, Goto
<1>1. CASE PrepareUpdate(p) \/ StartLock(p) \/ Syscall(p) \/ ExecHelper(p)
          \/ HelperExits(p) \/ UpdateTabs(p) \/ mnt_update_already_done(p) \/ UpdateLock(p)
  BY <1>1, Zenon
  DEF PrepareUpdate, StartLock, Syscall, ExecHelper, HelperExits, UpdateTabs,
      mnt_update_already_done, UpdateLock
<1>2. CASE ReadTable(p) \/ WriteTable(p) \/ EmitOpen(p) \/ EmitClose(p)
          \/ EndNothing(p) \/ EndLock(p)
  BY <1>2, Zenon DEF ReadTable, WriteTable, EmitOpen, EmitClose, EndNothing, EndLock
<1>3. CASE StartLockFails(p) \/ SyscallFails(p) \/ PostFails(p) \/ TryAgain(p)
          \/ UpdateLockFails(p) \/ ReadFails(p) \/ WriteFails(p) \/ EmitFails(p)
          \/ EndLockFails(p)
  BY <1>3, ZenonT(30)
  DEF StartLockFails, SyscallFails, PostFails, TryAgain, UpdateLockFails, ReadFails,
      WriteFails, EmitFails, EndLockFails
<1> QED
  BY <1>1, <1>2, <1>3, ZenonT(30) DEF Progress, Failure, TouchesAct

\* Failures are never forgotten.
LEMMA FaultGrows ==
  ASSUME NEW p, NEW kind, Fault(p, kind) PROVE faults \subseteq faults'
BY Zenon DEF Fault

\* No step forgets a failure.
LEMMA FaultsGrow ==
  ASSUME NEW p \in Proc, Progress(p) \/ Failure(p)
  PROVE  faults \subseteq faults'
<1>1. CASE PrepareUpdate(p) \/ StartLock(p) \/ StartAct(p) \/ StartUnlinks(p) \/ Syscall(p)
  BY <1>1, Zenon DEF PrepareUpdate, StartLock, StartAct, StartUnlinks, Syscall
<1>2. CASE ExecHelper(p) \/ HelperExits(p) \/ UpdateTabs(p) \/ mnt_update_already_done(p)
  BY <1>2, Zenon DEF ExecHelper, HelperExits, UpdateTabs, mnt_update_already_done
<1>3. CASE UpdateLock(p) \/ ReadTable(p) \/ WriteTable(p) \/ EmitOpen(p) \/ EmitClose(p)
  BY <1>3, Zenon DEF UpdateLock, ReadTable, WriteTable, EmitOpen, EmitClose
<1>4. CASE EndNothing(p) \/ EndLock(p) \/ EndUnlink(p) \/ Exit(p)
  BY <1>4, Zenon DEF EndNothing, EndLock, EndUnlink, Exit
<1>5. CASE StartLockFails(p) \/ UpdateLockFails(p) \/ EndLockFails(p)
  BY <1>5, FaultGrows, Zenon
  DEF StartLockFails, UpdateLockFails, EndLockFails, mnt_lock_file_fails
<1>6. CASE StartActFails(p) \/ SyscallFails(p) \/ PostFails(p) \/ TryAgain(p)
  BY <1>6, FaultGrows, Zenon DEF StartActFails, SyscallFails, PostFails, TryAgain
<1>7. CASE ReadFails(p) \/ WriteFails(p) \/ EmitFails(p) \/ Crash(p)
  BY <1>7, FaultGrows, Zenon DEF ReadFails, WriteFails, EmitFails, Crash
<1> QED
  BY <1>1, <1>2, <1>3, <1>4, <1>5, <1>6, <1>7, ZenonT(30) DEF Progress, Failure

\* Every step keeps the types of what is known of utab.act.
LEMMA ActTypesStep == ASSUME Types, ActTypes, [Next]_vars PROVE ActTypes'
<1>1. CASE UNCHANGED actVars
  BY <1>1, Zenon DEF ActTypes, actVars
<1>2. SUFFICES ASSUME NEW p \in Proc, TouchesAct(p) PROVE ActTypes'
  BY <1>1, <1>2, ActFrame, Zenon DEF Next, vars
<1> USE DEF ActTypes, OpenAct
<1>3. CASE StartAct(p)
  BY <1>3 DEF StartAct, ForgetActFd
<1>4. CASE StartActFails(p)
  BY <1>4 DEF StartActFails, ForgetActFd
<1>5. CASE StartUnlinks(p)
  BY <1>5, Zenon DEF StartUnlinks
<1>6. CASE EndUnlink(p)
  BY <1>6, Zenon DEF EndUnlink
<1>7. CASE Exit(p)
  BY <1>7, Zenon DEF Exit
<1>8. CASE Crash(p)
  BY <1>8, Zenon DEF Crash
<1> QED
  BY <1>2, <1>3, <1>4, <1>5, <1>6, <1>7, <1>8, Zenon DEF TouchesAct

\* Every step keeps ActInv.
LEMMA ActInvStep ==
  ASSUME Types, UpdateInv, ActTypes, ActInv, [Next]_vars PROVE ActInv'
<1>1. CASE UNCHANGED vars
  BY <1>1, Zenon DEF ActInv, Retried, HasFault, vars, updVars, actVars
<1>2. SUFFICES ASSUME NEW p \in Proc, Progress(p) \/ Failure(p) PROVE ActInv'
  BY <1>1, <1>2, Zenon DEF Next
<1>3. faults \subseteq faults'
  BY <1>2, FaultsGrow, Zenon
<1> USE <1>3 DEF Types, ActTypes, ActInv, Retried, HasFault, Goto, updVars, actVars
<1>4. CASE PrepareUpdate(p)
  <2>1. act_fd[p] = 0 \/ Retried(p)
    BY <1>4, Zenon DEF PrepareUpdate
  <2>2. pc'[p] \in {"start", "syscall"} /\ \A q \in Proc \ {p} : pc'[q] = pc[q]
    BY <1>4, Zenon DEF PrepareUpdate
  <2>3. \A q \in Proc \ {p} : ready'[q] = ready[q]
    BY <1>4, Zenon DEF PrepareUpdate
  <2>4. act_fd' = act_fd /\ leaked' = leaked
    BY <1>4, Zenon DEF PrepareUpdate
  <2> QED
    BY <2>1, <2>2, <2>3, <2>4, ZenonT(30)
<1>5. CASE StartLock(p)
  BY <1>5, ZenonT(30) DEF StartLock
<1>6. CASE StartAct(p)
  <2>1. ready[p] /\ (act_fd[p] = 0 \/ Retried(p))
    BY <1>6, Zenon DEF StartAct, UpdateInv
  <2>2. \A q \in Proc : leaked'[q] = {} \/ Retried(q)
    BY <1>6, <2>1, ZenonT(30) DEF StartAct, ForgetActFd
  <2>3. pc'[p] = "syscall" /\ \A q \in Proc \ {p} : pc'[q] = pc[q] /\ act_fd'[q] = act_fd[q]
    BY <1>6, Zenon DEF StartAct
  <2>4. ready' = ready
    BY <1>6, Zenon DEF StartAct
  <2> QED
    BY <2>1, <2>2, <2>3, <2>4, ZenonT(30)
<1>7. CASE StartUnlinks(p)
  BY <1>7, ZenonT(30) DEF StartUnlinks
<1>8. CASE Syscall(p)
  BY <1>8, ZenonT(30) DEF Syscall
<1>9. CASE ExecHelper(p)
  BY <1>9, ZenonT(30) DEF ExecHelper
<1>10. CASE HelperExits(p)
  BY <1>10, ZenonT(30) DEF HelperExits
<1>11. CASE UpdateTabs(p)
  BY <1>11, ZenonT(30) DEF UpdateTabs
<1>12. CASE mnt_update_already_done(p)
  BY <1>12, ZenonT(30) DEF mnt_update_already_done, ToEmit
<1>13. CASE UpdateLock(p)
  BY <1>13, ZenonT(30) DEF UpdateLock
<1>14. CASE ReadTable(p)
  BY <1>14, ZenonT(30) DEF ReadTable
<1>15. CASE WriteTable(p)
  BY <1>15, ZenonT(30) DEF WriteTable, ToEmit
<1>16. CASE EmitOpen(p)
  BY <1>16, ZenonT(30) DEF EmitOpen
<1>17. CASE EmitClose(p)
  BY <1>17, ZenonT(30) DEF EmitClose
<1>18. CASE EndNothing(p)
  BY <1>18, ZenonT(30) DEF EndNothing
<1>19. CASE EndLock(p)
  BY <1>19, ZenonT(30) DEF EndLock
<1>20. CASE EndUnlink(p)
  BY <1>20, ZenonT(30) DEF EndUnlink
<1>21. CASE Exit(p)
  BY <1>21, ZenonT(30) DEF Exit
<1>22. CASE StartLockFails(p)
  BY <1>22, ZenonT(30) DEF StartLockFails, mnt_lock_file_fails, Fault
<1>23. CASE StartActFails(p)
  BY <1>23, ZenonT(30) DEF StartActFails, ForgetActFd, Fault
<1>24. CASE SyscallFails(p)
  BY <1>24, ZenonT(30) DEF SyscallFails, Fault
<1>25. CASE PostFails(p)
  BY <1>25, ZenonT(30) DEF PostFails, Fault
<1>26. CASE TryAgain(p)
  BY <1>26, ZenonT(30) DEF TryAgain, Fault
<1>27. CASE UpdateLockFails(p)
  BY <1>27, ZenonT(30) DEF UpdateLockFails, mnt_lock_file_fails, Fault
<1>28. CASE ReadFails(p)
  BY <1>28, ZenonT(30) DEF ReadFails, Fault, ToEmit
<1>29. CASE WriteFails(p)
  BY <1>29, ZenonT(30) DEF WriteFails, Fault
<1>30. CASE EmitFails(p)
  BY <1>30, ZenonT(30) DEF EmitFails, Fault
<1>31. CASE EndLockFails(p)
  BY <1>31, ZenonT(30) DEF EndLockFails, mnt_lock_file_fails, Fault
<1>32. CASE Crash(p)
  BY <1>32, ZenonT(30) DEF Crash, Fault
<1> QED
  BY <1>2, <1>4, <1>5, <1>6, <1>7, <1>8, <1>9, <1>10, <1>11, <1>12, <1>13, <1>14, <1>15,
      <1>16, <1>17, <1>18, <1>19, <1>20, <1>21, <1>22, <1>23, <1>24, <1>25, <1>26, <1>27,
      <1>28, <1>29, <1>30, <1>31, <1>32, ZenonT(30)
  DEF Progress, Failure

\* Every step keeps utab.act while a process has it open.
LEMMA ActUsedStep ==
  ASSUME Types, ActTypes, ActInv, ActWhileUsed, [Next]_vars PROVE ActWhileUsed'
<1>1. CASE UNCHANGED vars
  BY <1>1, ZenonT(30) DEF ActWhileUsed, AnyFault, Retried, HasFault, vars, actVars
<1>2. SUFFICES ASSUME NEW p \in Proc, Progress(p) \/ Failure(p) PROVE ActWhileUsed'
  BY <1>1, <1>2, Zenon DEF Next
<1>3. faults \subseteq faults'
  BY <1>2, FaultsGrow, Zenon
<1> USE <1>3 DEF ActWhileUsed, AnyFault, Retried, HasFault
<1>4. CASE UNCHANGED actVars
  BY <1>4, ZenonT(30) DEF actVars
<1> USE DEF ActTypes, ActInv
<1>5. CASE StartAct(p)
  BY <1>5, ZenonT(30) DEF StartAct, OpenAct
<1>6. CASE StartActFails(p)
  BY <1>6, Zenon DEF StartActFails, OpenAct, Fault
<1>7. CASE StartUnlinks(p)
  BY <1>7, Zenon DEF StartUnlinks
<1>8. CASE EndUnlink(p)
  BY <1>8, ZenonT(30) DEF EndUnlink, NobodyElse
<1>9. CASE Exit(p)
  BY <1>9, ZenonT(30) DEF Exit
<1>10. CASE Crash(p)
  BY <1>10, ZenonT(30) DEF Crash, Fault
<1> QED
  BY <1>2, <1>4, ActFrame, <1>5, <1>6, <1>7, <1>8, <1>9, <1>10, ZenonT(30) DEF TouchesAct

\* Every step keeps utab.act removed once nobody uses it.
LEMMA ActRemovedStep ==
  ASSUME Types, ActTypes, ActInv, ActRemoved, [Next]_vars PROVE ActRemoved'
<1>1. CASE UNCHANGED vars
  BY <1>1, ZenonT(30) DEF ActRemoved, AnyFault, Retried, HasFault, vars, actVars
<1>2. SUFFICES ASSUME NEW p \in Proc, Progress(p) \/ Failure(p) PROVE ActRemoved'
  BY <1>1, <1>2, Zenon DEF Next
<1>3. faults \subseteq faults'
  BY <1>2, FaultsGrow, Zenon
<1> USE <1>3 DEF ActRemoved, AnyFault, Retried, HasFault, Types, Goto
<1>4. CASE ~ TouchesAct(p)
  <2>1. UNCHANGED actVars
    BY <1>2, <1>4, ActFrame, Zenon
  <2>2. pc[p] # "actfail" /\ \A q \in Proc \ {p} : pc'[q] = pc[q]
    BY <1>2, <1>4, ActFrame, Zenon
  <2> QED
    BY <2>1, <2>2, ZenonT(30) DEF actVars
<1> USE DEF ActTypes, ActInv
<1>5. CASE StartAct(p)
  BY <1>5, ZenonT(30) DEF StartAct, OpenAct
<1>6. CASE StartActFails(p)
  BY <1>6, Zenon DEF StartActFails, OpenAct, Fault
<1>7. CASE StartUnlinks(p)
  BY <1>7, Zenon DEF StartUnlinks
<1>8. CASE EndUnlink(p)
  BY <1>8, ZenonT(30) DEF EndUnlink, NobodyElse
<1>9. CASE Exit(p)
  BY <1>9, ZenonT(30) DEF Exit
<1>10. CASE Crash(p)
  BY <1>10, ZenonT(30) DEF Crash, Fault
<1> QED
  BY <1>2, <1>4, <1>5, <1>6, <1>7, <1>8, <1>9, <1>10, ZenonT(30) DEF TouchesAct

\* ActWhileUsed: unless the error path of mnt_update_start() was taken, a process
\* between mnt_update_start() and mnt_update_end() has locked the very file that
\* has the name utab.act, whoever else starts, ends or dies meanwhile.
THEOREM ActWhileUsedAlways == Spec => []ActWhileUsed
<1>1. Init => ActTypes /\ ActInv /\ ActWhileUsed
  BY DEF Init, ActTypes, ActInv, ActWhileUsed
<1>2. /\ Types /\ UpdateInv /\ ActTypes /\ ActInv /\ ActWhileUsed /\ [Next]_vars
      => (ActTypes /\ ActInv /\ ActWhileUsed)'
  BY ActTypesStep, ActInvStep, ActUsedStep, Zenon
<1> QED
  BY <1>1, <1>2, UpdateInvariant, PTL DEF Spec

\* ActRemoved: the last process to call mnt_update_end() removes utab.act; the
\* file outlives its users only through the failures ActRemoved lists.
THEOREM ActRemovedAlways == Spec => []ActRemoved
<1>1. Init => ActTypes /\ ActInv /\ ActRemoved
  BY DEF Init, ActTypes, ActInv, ActRemoved
<1>2. /\ Types /\ UpdateInv /\ ActTypes /\ ActInv /\ ActRemoved /\ [Next]_vars
      => (ActTypes /\ ActInv /\ ActRemoved)'
  BY ActTypesStep, ActInvStep, ActRemovedStep, Zenon
<1> QED
  BY <1>1, <1>2, UpdateInvariant, PTL DEF Spec

-----------------------------------------------------------------------------
(* The searches in the table and its changes                                 *)

\* A set of indices that is not empty has a largest one.
LEMMA Greatest ==
  ASSUME NEW n \in Nat, NEW I, I \subseteq 1..n, I # {}
  PROVE  \E x \in I : \A y \in I : x >= y
<1> DEFINE R == OpToRel(<, Nat)
           T == {n - i : i \in I}
<1>1. IsWellFoundedOn(R, Nat)
  BY NatLessThanWellFounded, Zenon
<1>2. T \subseteq Nat /\ T # {}
  <2>1. PICK i \in I : TRUE
    BY Zenon
  <2>2. n - i \in T
    BY <2>1, Zenon
  <2>3. \A j \in I : n - j \in Nat
    OBVIOUS
  <2> QED
    BY <2>2, <2>3, Zenon
<1> HIDE DEF R, T
<1>3. PICK t \in T : \A y \in T : ~(<<y, t>> \in R)
  BY <1>1, <1>2, WFMin, Zenon
<1>4. \A y \in T : ~(y < t)
  BY <1>2, <1>3, Zenon DEF R, OpToRel
<1>5. PICK x \in I : t = n - x
  BY Zenon DEF T
<1>6. \A y \in I : n - y \in T
  BY Zenon DEF T
<1> QED
  BY <1>4, <1>5, <1>6

\* A set of indices that is not empty has a greatest member.
LEMMA LastIndex ==
  ASSUME NEW n \in Nat, NEW I, I \subseteq 1..n, I # {}
  PROVE  Table!LastOf(I) \in I
<1>1. \E x \in I : \A y \in I : x >= y
  BY Greatest, ZenonT(30)
<1>2. \E x \in I : \A y \in I : y <= x
  BY <1>1, Zenon
<1> QED
  BY <1>2, Zenon DEF Table!LastOf

\* mnt_table_find_target() and mnt_table_find_pair() find an entry if there is one.
FindsAt(f, tb, path) ==
    IF f = 0 THEN \A k \in 1..Len(tb) : tb[k].tgt # path
    ELSE f \in 1..Len(tb) /\ tb[f].tgt = path

\* find_target() is the last index of the mount point, or 0 when there is none.
LEMMA FindTarget ==
  ASSUME NEW tb \in Seq(TabEntry), NEW path
  PROVE  FindsAt(Table!find_target(tb, path), tb, path)
<1> DEFINE I == {i \in 1..Len(tb) : tb[i].tgt = path}
<1>1. Table!find_target(tb, path) = Table!LastOf(I)
  BY Zenon DEF Table!find_target
<1>2. I # {} => Table!LastOf(I) \in I
  <2>1. I \subseteq 1..Len(tb) /\ Len(tb) \in Nat
    OBVIOUS
  <2> HIDE DEF I
  <2> QED
    BY <2>1, LastIndex, Zenon
<1>3. CASE I = {}
  <2>1. Table!LastOf(I) = 0
    <3> HIDE DEF I
    <3> QED
      BY <1>3, Zenon DEF Table!LastOf
  <2> QED
    BY <1>1, <1>3, <2>1, Zenon DEF FindsAt
<1>4. CASE I # {}
  <2>1. PICK f : f = Table!find_target(tb, path)
    BY Zenon
  <2>2. f \in I
    BY <1>1, <1>2, <1>4, <2>1, Zenon
  <2> QED
    BY <2>1, <2>2 DEF FindsAt
<1> QED
  BY <1>3, <1>4, Zenon

FindsPair(f, tb, src, path) ==
    IF f = 0 THEN \A k \in 1..Len(tb) : ~ (tb[k].src = src /\ tb[k].tgt = path)
    ELSE f \in 1..Len(tb) /\ tb[f].tgt = path /\ tb[f].src = src

\* find_pair() is the last index of the pair, or 0 when there is none.
LEMMA FindPair ==
  ASSUME NEW tb \in Seq(TabEntry), NEW src, NEW path
  PROVE  FindsPair(Table!find_pair(tb, src, path), tb, src, path)
<1> DEFINE I == {i \in 1..Len(tb) : tb[i].src = src /\ tb[i].tgt = path}
<1>1. Table!find_pair(tb, src, path) = Table!LastOf(I)
  BY Zenon DEF Table!find_pair
<1>2. I # {} => Table!LastOf(I) \in I
  <2>1. I \subseteq 1..Len(tb) /\ Len(tb) \in Nat
    OBVIOUS
  <2> HIDE DEF I
  <2> QED
    BY <2>1, LastIndex, ZenonT(30)
<1>3. CASE I = {}
  <2>1. Table!LastOf(I) = 0
    <3> HIDE DEF I
    <3> QED
      BY <1>3, Zenon DEF Table!LastOf
  <2> QED
    BY <1>1, <1>3, <2>1, Zenon DEF FindsPair
<1>4. CASE I # {}
  <2>1. PICK f : f = Table!find_pair(tb, src, path)
    BY Zenon
  <2>2. f \in I
    BY <1>1, <1>2, <1>4, <2>1, Zenon
  <2> QED
    BY <2>1, <2>2 DEF FindsPair
<1> QED
  BY <1>3, <1>4, Zenon

\* No entry of the mount point, or the one entry e.
Absent(tb, path) == \A k \in 1..Len(tb) : tb[k].tgt # path

Single(tb, path, e) ==
    /\ e.tgt = path
    /\ \E i \in 1..Len(tb) : tb[i] = e /\ \A k \in 1..Len(tb) : tb[k].tgt = path => k = i

\* A change of the table that has nothing to do with the mount point.
Keeps(tb, new, path) ==
    /\ new \in Seq(TabEntry)
    /\ Absent(tb, path) => Absent(new, path)
    /\ \A e : Single(tb, path, e) => Single(new, path, e)

\* An entry of another mount point changes nothing for this one.
LEMMA AppendKeeps ==
  ASSUME NEW tb \in Seq(TabEntry), NEW path, NEW x \in TabEntry, x.tgt # path
  PROVE  Keeps(tb, Append(tb, x), path)
<1> DEFINE new == Append(tb, x)
           n == Len(tb)
<1>1. /\ new \in Seq(TabEntry) /\ n \in Nat /\ Len(new) = n + 1 /\ new[n + 1] = x
      /\ \A k \in 1..n : new[k] = tb[k]
  OBVIOUS
<1> HIDE DEF new
<1>2. Absent(tb, path) => Absent(new, path)
  BY <1>1 DEF Absent
<1>3. ASSUME NEW e, Single(tb, path, e) PROVE Single(new, path, e)
  BY <1>1, <1>3 DEF Single
<1> QED
  BY <1>1, <1>2, <1>3, Zenon DEF Keeps, new

\* The table without one of its entries.
Without(tb, f, new) ==
    /\ new \in Seq(TabEntry) /\ Len(new) = Len(tb) - 1
    /\ \A k \in 1..(Len(tb) - 1) : new[k] = IF k < f THEN tb[k] ELSE tb[k + 1]

\* What removing an entry leaves.
LEMMA RemoveFact ==
  ASSUME NEW tb \in Seq(TabEntry), NEW f \in 1..Len(tb)
  PROVE  Without(tb, f, Table!RemoveEntry(tb, f))
<1> DEFINE new == Table!RemoveEntry(tb, f)
           n == Len(tb)
<1> DEFINE a == SubSeq(tb, 1, f - 1)
           b == SubSeq(tb, f + 1, n)
<1>1. n \in Nat /\ f \in 1..n /\ \A k \in 1..n : tb[k] \in TabEntry
  OBVIOUS
<1>2. a \in Seq(TabEntry) /\ Len(a) = f - 1 /\ \A k \in 1..(f - 1) : a[k] = tb[k]
  BY <1>1
<1>3. b \in Seq(TabEntry) /\ Len(b) = n - f /\ \A k \in 1..(n - f) : b[k] = tb[f + k]
  <2>1. f + 1 \in Int /\ n \in Int /\ \A k \in (f + 1)..n : tb[k] \in TabEntry
    BY <1>1
  <2>2. /\ b \in Seq(TabEntry) /\ Len(b) = IF f + 1 <= n THEN n - (f + 1) + 1 ELSE 0
        /\ \A k \in 1..(n - (f + 1) + 1) : b[k] = tb[(f + 1) + k - 1]
    BY <2>1
  <2> HIDE DEF b
  <2>3. ASSUME NEW k \in 1..(n - f) PROVE b[k] = tb[f + k]
    <3>1. k \in 1..(n - (f + 1) + 1) /\ (f + 1) + k - 1 = f + k
      BY <1>1
    <3> QED
      BY <2>2, <3>1, Zenon
  <2> QED
    BY <1>1, <2>2, <2>3
<1>4. new = a \o b
  BY Zenon DEF Table!RemoveEntry
<1> HIDE DEF a, b, new
<1>5. /\ new \in Seq(TabEntry) /\ Len(new) = n - 1
      /\ \A k \in 1..(n - 1) : new[k] = IF k <= Len(a) THEN a[k] ELSE b[k - Len(a)]
  <2>1. a \in Seq(TabEntry) /\ b \in Seq(TabEntry)
    BY <1>2, <1>3, Zenon
  <2>2. /\ new \in Seq(TabEntry) /\ Len(new) = Len(a) + Len(b)
        /\ \A k \in 1..(Len(a) + Len(b)) : new[k] = IF k <= Len(a) THEN a[k] ELSE b[k - Len(a)]
    BY <1>4, <2>1
  <2>3. Len(a) + Len(b) = n - 1
    BY <1>1, <1>2, <1>3
  <2> QED
    BY <2>2, <2>3, Zenon
<1>6. ASSUME NEW k \in 1..(n - 1) PROVE new[k] = IF k < f THEN tb[k] ELSE tb[k + 1]
  <2>1. CASE k < f
    BY <1>1, <1>2, <1>5, <2>1
  <2>2. CASE ~ (k < f)
    <3>1. k - (f - 1) \in 1..(n - f) /\ f + (k - (f - 1)) = k + 1
      BY <1>1, <2>2
    <3> QED
      BY <1>1, <1>2, <1>3, <1>5, <2>2, <3>1
  <2> QED
    BY <2>1, <2>2, Zenon
<1> QED
  BY <1>1, <1>5, <1>6, Zenon DEF Without, new

\* Removing an entry of another mount point.
LEMMA RemoveKeeps ==
  ASSUME NEW tb \in Seq(TabEntry), NEW path, NEW f \in 1..Len(tb), tb[f].tgt # path,
         NEW new, Without(tb, f, new)
  PROVE  Keeps(tb, new, path)
<1> DEFINE n == Len(tb)
<1>1. /\ new \in Seq(TabEntry) /\ n \in Nat /\ Len(new) = n - 1
      /\ \A k \in 1..(n - 1) : new[k] = IF k < f THEN tb[k] ELSE tb[k + 1]
  BY DEF Without
<1>2. Absent(tb, path) => Absent(new, path)
  BY <1>1 DEF Absent
<1>3. ASSUME NEW e, Single(tb, path, e) PROVE Single(new, path, e)
  <2>1. PICK i \in 1..n : tb[i] = e /\ \A k \in 1..n : tb[k].tgt = path => k = i
    BY <1>3, Zenon DEF Single
  <2>2. e.tgt = path /\ i # f
    BY <1>3, <2>1, Zenon DEF Single
  <2> DEFINE j == IF i < f THEN i ELSE i - 1
  <2>3. j \in 1..(n - 1) /\ new[j] = e
    BY <1>1, <2>1, <2>2
  <2>4. ASSUME NEW k \in 1..(n - 1), new[k].tgt = path PROVE k = j
    <3>1. CASE k < f
      <4>1. k \in 1..n /\ tb[k].tgt = path
        BY <1>1, <2>4, <3>1
      <4> QED
        BY <2>1, <2>2, <3>1, <4>1, Zenon
    <3>2. CASE ~ (k < f)
      <4>1. k + 1 \in 1..n /\ tb[k + 1].tgt = path
        BY <1>1, <2>4, <3>2
      <4>2. k + 1 = i
        BY <2>1, <4>1, Zenon
      <4> QED
        BY <3>2, <4>2
    <3> QED
      BY <3>1, <3>2, Zenon
  <2> QED
    BY <1>1, <2>2, <2>3, <2>4, Zenon DEF Single
<1> QED
  BY <1>1, <1>2, <1>3, Zenon DEF Keeps

\* A change of single entries that are not and do not become ones of the mount point.
LEMMA MapKeeps ==
  ASSUME NEW tb \in Seq(TabEntry), NEW path, NEW new \in Seq(TabEntry),
         Len(new) = Len(tb),
         \A k \in 1..Len(tb) : IF tb[k].tgt = path THEN new[k] = tb[k] ELSE new[k].tgt # path
  PROVE  Keeps(tb, new, path)
<1>1. Absent(tb, path) => Absent(new, path)
  BY Zenon DEF Absent
<1>2. ASSUME NEW e, Single(tb, path, e) PROVE Single(new, path, e)
  <2>1. PICK i \in 1..Len(tb) : tb[i] = e /\ \A k \in 1..Len(tb) : tb[k].tgt = path => k = i
    BY <1>2, Zenon DEF Single
  <2>2. e.tgt = path
    BY <1>2, Zenon DEF Single
  <2> QED
    BY <2>1, <2>2, Zenon DEF Single
<1> QED
  BY <1>1, <1>2, Zenon DEF Keeps

\* The table with other options in one of its entries.
WithOptions(tb, f, opts, new) ==
    /\ new \in Seq(TabEntry) /\ Len(new) = Len(tb)
    /\ new[f] \in TabEntry /\ new[f].src = tb[f].src /\ new[f].tgt = tb[f].tgt /\ new[f].opts = opts
    /\ \A k \in 1..Len(tb) : k # f => new[k] = tb[k]

\* What setting the options of an entry leaves.
LEMMA OptionsFact ==
  ASSUME NEW tb \in Seq(TabEntry), NEW f \in 1..Len(tb), NEW opts \in SUBSET STRING
  PROVE  WithOptions(tb, f, opts, [tb EXCEPT ![f].opts = opts])
<1> DEFINE new == [tb EXCEPT ![f].opts = opts]
           e == [tb[f] EXCEPT !.opts = opts]
<1>1. e \in TabEntry /\ e.tgt = tb[f].tgt /\ e.src = tb[f].src /\ e.opts = opts
  <2>1. tb[f] \in TabEntry
    OBVIOUS
  <2> QED
    BY <2>1, Zenon DEF TabEntry
<1>2. new = [tb EXCEPT ![f] = e]
  BY Zenon
<1> HIDE DEF new, e
<1>3. /\ new \in Seq(TabEntry) /\ Len(new) = Len(tb)
      /\ \A k \in 1..Len(tb) : new[k] = IF k = f THEN e ELSE tb[k]
  BY <1>1, <1>2
<1> QED
  BY <1>1, <1>3, Zenon DEF WithOptions, new

\* Setting the options of an entry of another mount point.
LEMMA OptionsKeep ==
  ASSUME NEW tb \in Seq(TabEntry), NEW path, NEW f \in 1..Len(tb), tb[f].tgt # path,
         NEW opts, NEW new, WithOptions(tb, f, opts, new)
  PROVE  Keeps(tb, new, path)
<1>1. \A k \in 1..Len(tb) : IF tb[k].tgt = path THEN new[k] = tb[k] ELSE new[k].tgt # path
  BY Zenon DEF WithOptions
<1> QED
  BY <1>1, MapKeeps, Zenon DEF WithOptions

\* A path below dir with dir replaced by to is below to.
LEMMA MovedBelow ==
  ASSUME NEW dir \in Path, NEW to \in Path, NEW path \in Path, Len(dir) <= Len(path)
  PROVE  LET new == to \o SubSeq(path, Len(dir) + 1, Len(path))
         IN  new \in Path /\ Table!Below(new, to)
BY DEF Path, Table!Below

\* The table with one directory moved.
Moves(o, tb, new) ==
    /\ new \in Seq(TabEntry) /\ Len(new) = Len(tb)
    /\ \A k \in 1..Len(tb) :
          IF Table!Below(tb[k].tgt, o.src) THEN Table!Below(new[k].tgt, o.tgt) ELSE new[k] = tb[k]

\* What a move leaves.
LEMMA MoveFact ==
  ASSUME NEW tb \in Seq(TabEntry), NEW o, o.src \in Path, o.tgt \in Path
  PROVE  Moves(o, tb, Table!update_modify_target(o, tb))
<1> DEFINE new == Table!update_modify_target(o, tb)
           moved(k) == o.tgt \o SubSeq(tb[k].tgt, Len(o.src) + 1, Len(tb[k].tgt))
           below(k) == Table!Below(tb[k].tgt, o.src)
<1>1. new = [k \in 1..Len(tb) |-> IF below(k) THEN [tb[k] EXCEPT !.tgt = moved(k)] ELSE tb[k]]
  BY DEF Table!update_modify_target
<1>2. \A k \in 1..Len(tb) : tb[k] \in TabEntry /\ tb[k].tgt \in Path
  <2>1. \A k \in 1..Len(tb) : tb[k] \in TabEntry
    OBVIOUS
  <2> QED
    BY <2>1, Zenon DEF TabEntry
<1>3. \A k \in 1..Len(tb) : below(k) => moved(k) \in Path /\ Table!Below(moved(k), o.tgt)
  BY <1>2, MovedBelow, ZenonT(30) DEF Table!Below
<1> HIDE DEF new, moved, below
<1>4. \A k \in 1..Len(tb) : new[k] \in TabEntry /\ (below(k) => new[k].tgt = moved(k))
                           /\ (~ below(k) => new[k] = tb[k])
  BY <1>1, <1>2, <1>3, Zenon DEF TabEntry
<1>5. new \in Seq(TabEntry) /\ Len(new) = Len(tb)
  BY <1>1, <1>4
<1> QED
  BY <1>3, <1>4, <1>5, Zenon DEF Moves, new, below

\* A move that neither leaves nor enters the path.
LEMMA MoveKeeps ==
  ASSUME NEW tb \in Seq(TabEntry), NEW path \in Path, NEW o, o.src \in Path, o.tgt \in Path,
         ~ Table!Below(path, o.src), ~ Table!Below(path, o.tgt), NEW new, Moves(o, tb, new)
  PROVE  Keeps(tb, new, path)
<1>1. \A k \in 1..Len(tb) : tb[k].tgt = path => ~ Table!Below(tb[k].tgt, o.src)
  BY Zenon DEF Table!Below, Path
<1>2. \A k \in 1..Len(tb) : IF tb[k].tgt = path THEN new[k] = tb[k] ELSE new[k].tgt # path
  BY <1>1, Zenon DEF Moves
<1> QED
  BY <1>2, MapKeeps, Zenon DEF Moves

\* What a process of Jobs is asked for.
JobOk(o) ==
    /\ o.tgt \in Path /\ o.opts \subseteq STRING
    /\ IF o.kind = "move" THEN o.src \in Path ELSE o.src \in STRING
    /\ o.kind \in {"mount", "kmount", "remount", "move", "umount"}

\* The ways in which mnt_update_table() changes the table.
LEMMA UpdateCases ==
  ASSUME NEW tb \in Seq(TabEntry), NEW o, JobOk(o), o.kind # "kmount", NEW lacks \in BOOLEAN,
         NEW new, new = Table!mnt_update_table(o, lacks, tb)
  PROVE  \/ new = tb
         \/ new = Append(tb, Table!NewEntry(o)) /\ o.kind \in {"mount", "remount"}
         \/ o.kind = "move" /\ Moves(o, tb, new)
         \/ \E f \in 1..Len(tb) : tb[f].tgt = o.tgt /\ Without(tb, f, new)
         \/ \E f \in 1..Len(tb), opts \in SUBSET STRING :
               tb[f].tgt = o.tgt /\ WithOptions(tb, f, opts, new)
<1> DEFINE f == Table!find_target(tb, o.tgt)
<1>1. FindsAt(f, tb, o.tgt)
  BY FindTarget, Zenon
<1> HIDE DEF f
<1>2. f # 0 => f \in 1..Len(tb) /\ tb[f].tgt = o.tgt /\ tb[f].opts \in SUBSET STRING
  <2>1. f # 0 => f \in 1..Len(tb) /\ tb[f].tgt = o.tgt
    BY <1>1, Zenon DEF FindsAt
  <2>2. f # 0 => tb[f] \in TabEntry
    BY <2>1
  <2> QED
    BY <2>1, <2>2, Zenon DEF TabEntry
<1>3. CASE o.kind = "umount"
  <2>1. new = IF f = 0 THEN tb ELSE Table!RemoveEntry(tb, f)
    BY <1>3, Zenon DEF Table!mnt_update_table, Table!update_remove_entry, f
  <2> QED
    BY <1>2, <2>1, RemoveFact, Zenon
<1>4. CASE o.kind = "move"
  <2>1. new = Table!update_modify_target(o, tb)
    BY <1>4, Zenon DEF Table!mnt_update_table
  <2> QED
    BY <1>4, <2>1, MoveFact, Zenon DEF JobOk
<1>5. CASE o.kind = "remount"
  <2>1. new = IF f = 0 THEN Append(tb, Table!NewEntry(o)) ELSE [tb EXCEPT ![f].opts = o.opts]
    BY <1>5, Zenon DEF Table!mnt_update_table, Table!update_modify_options, Table!update_add_entry, f
  <2>2. o.opts \in SUBSET STRING
    BY Zenon DEF JobOk
  <2>3. CASE f # 0
    <3>1. PICK all \in SUBSET STRING : all = o.opts
      BY <2>2, Zenon
    <3>2. new = [tb EXCEPT ![f].opts = all]
      BY <2>1, <2>3, <3>1, Zenon
    <3> QED
      BY <1>2, <2>3, <3>2, OptionsFact, ZenonT(30)
  <2> QED
    BY <1>5, <2>1, <2>3, Zenon
<1>6. CASE o.kind = "mount" /\ lacks
  <2>1. new = IF f = 0 THEN Append(tb, Table!NewEntry(o))
              ELSE [tb EXCEPT ![f].opts = tb[f].opts \cup o.opts]
    BY <1>6, Zenon DEF Table!mnt_update_table, Table!update_add_options, Table!update_add_entry, f
  <2>2. f # 0 => tb[f].opts \cup o.opts \in SUBSET STRING
    BY <1>2, Zenon DEF JobOk
  <2>3. CASE f # 0
    <3>1. PICK all \in SUBSET STRING : all = tb[f].opts \cup o.opts
      BY <2>2, <2>3, ZenonT(30)
    <3>2. new = [tb EXCEPT ![f].opts = all]
      BY <2>1, <2>3, <3>1, Zenon
    <3> QED
      BY <1>2, <2>3, <3>2, OptionsFact, ZenonT(30)
  <2> QED
    BY <1>6, <2>1, <2>3, ZenonT(30)
<1>7. CASE o.kind = "mount" /\ ~ lacks
  BY <1>7, Zenon DEF Table!mnt_update_table, Table!update_add_entry
<1> QED
  BY <1>3, <1>4, <1>5, <1>6, <1>7, Zenon DEF JobOk

\* The entry that update_add_entry() makes.
LEMMA NewEntryTyped ==
  ASSUME NEW o, JobOk(o), o.kind # "move"
  PROVE  /\ Table!NewEntry(o) \in TabEntry
         /\ Table!NewEntry(o).src = o.src /\ Table!NewEntry(o).tgt = o.tgt
         /\ Table!NewEntry(o).opts = o.opts
BY Zenon DEF Table!NewEntry, TabEntry, JobOk

\* Every change keeps the table one of entries, and a change for another mount point
\* keeps the entries of this one.
LEMMA UpdateTyped ==
  ASSUME NEW tb \in Seq(TabEntry), NEW o, JobOk(o), o.kind # "kmount", NEW lacks \in BOOLEAN
  PROVE  Table!mnt_update_table(o, lacks, tb) \in Seq(TabEntry)
<1>1. PICK new : new = Table!mnt_update_table(o, lacks, tb)
  BY Zenon
<1>2. CASE new = Append(tb, Table!NewEntry(o)) /\ o.kind \in {"mount", "remount"}
  <2>1. Table!NewEntry(o) \in TabEntry
    BY <1>2, NewEntryTyped, Zenon
  <2> QED
    BY <1>1, <1>2, <2>1
<1>3. new \in Seq(TabEntry)
  BY <1>1, <1>2, UpdateCases, Zenon DEF Moves, Without, WithOptions
<1> QED
  BY <1>1, <1>3, Zenon

\* No update of another mount point changes the entries of this one.
LEMMA UpdateKeeps ==
  ASSUME NEW tb \in Seq(TabEntry), NEW o, JobOk(o), o.kind # "kmount", NEW lacks \in BOOLEAN,
         NEW path \in Path, o.tgt # path,
         o.kind = "move" => ~ Table!Below(path, o.src) /\ ~ Table!Below(path, o.tgt)
  PROVE  Keeps(tb, Table!mnt_update_table(o, lacks, tb), path)
<1>1. PICK new : new = Table!mnt_update_table(o, lacks, tb)
  BY Zenon
<1>2. CASE new = tb
  BY <1>1, <1>2, Zenon DEF Keeps
<1>3. CASE new = Append(tb, Table!NewEntry(o)) /\ o.kind \in {"mount", "remount"}
  <2>1. Table!NewEntry(o) \in TabEntry /\ Table!NewEntry(o).tgt # path
    BY <1>3, NewEntryTyped, Zenon
  <2> QED
    BY <1>1, <1>3, <2>1, AppendKeeps, Zenon
<1>4. CASE o.kind = "move" /\ Moves(o, tb, new)
  BY <1>1, <1>4, MoveKeeps, Zenon DEF JobOk
<1>5. ASSUME NEW f \in 1..Len(tb), tb[f].tgt = o.tgt, Without(tb, f, new)
      PROVE  Keeps(tb, new, path)
  BY <1>5, RemoveKeeps, Zenon
<1>6. ASSUME NEW f \in 1..Len(tb), NEW opts \in SUBSET STRING, tb[f].tgt = o.tgt,
             WithOptions(tb, f, opts, new)
      PROVE  Keeps(tb, new, path)
  BY <1>6, OptionsKeep, Zenon
<1>7. Keeps(tb, new, path)
  BY <1>1, <1>2, <1>3, <1>4, <1>5, <1>6, UpdateCases, Zenon
<1> QED
  BY <1>1, <1>7, Zenon

-----------------------------------------------------------------------------
(* A mount by a helper                                                       *)

\* p mounts by a helper, neither of them has met a failure, and nobody else changes
\* entries of the mount point.
Plain(p) ==
    LET h == op[p].helper
    IN  /\ h # NoProc /\ op[p].kind = "mount"
        /\ ~ HasFault(p, FaultKinds) /\ ~ HasFault(h, FaultKinds)
        /\ \A q \in Proc \ {p, h} : ~ Concerns(q, op[p].tgt)

AfterHelper == {"tabs", "lock", "read", "write", "emit", "close", "end", "unlink", "exit", "done"}

\* Where the two are: the helper is done before p looks at the table and has written
\* its entry if it has options; and p knows by then whether the entry lacks options.
HelperControl(p, h) ==
    /\ pc[p] \in AfterHelper => pc[h] = "done"
    /\ pc[p] # "dead" /\ pc[h] # "dead"
    /\ pc[p] # "idle" => ready[p]
    /\ op[h].kind = "mount" /\ pc[h] # "idle" => ready[h]
    /\ op[h].kind = "mount" /\ pc[h] \in AfterWrite => h \in written
    /\ op[h].kind # "mount" => h \notin written
    /\ ~ missing[h] /\ (missing[p] => h \in written)
    /\ pc[p] \in {"lock", "read", "write"} /\ h \in written => missing[p]
    /\ pc[p] \in AfterWrite => h \in written \/ p \in written

\* What the table has of the mount point: nothing before the first of them writes, one
\* entry with the options of those that have written or found theirs from then on.
HelperTable(p, h) ==
    IF h \notin written /\ p \notin written THEN Absent(utab, op[p].tgt)
    ELSE \E e \in TabEntry :
            /\ Single(utab, op[p].tgt, e) /\ e.src = op[p].src
            /\ h \in written => op[h].opts \subseteq e.opts
            /\ pc[p] \in AfterWrite => op[p].opts \subseteq e.opts

HelperInv == \A p \in Proc : Plain(p) => HelperControl(p, op[p].helper) /\ HelperTable(p, op[p].helper)

TabTypes == op \in Jobs /\ utab \in Seq(TabEntry)

\* What JobsAssumption says of one operation and its helper.
LEMMA JobFacts ==
  ASSUME op \in Jobs, NEW p \in Proc
  PROVE  /\ JobOk(op[p]) /\ (op[p].kind = "kmount" => op[p].opts = {})
         /\ op[p].helper \in Proc \cup {NoProc}
         /\ op[p].helper # NoProc =>
               LET h == op[p].helper
               IN  /\ h \in Proc /\ h # p /\ op[h].helper = NoProc
                   /\ op[h].src = op[p].src /\ op[h].tgt = op[p].tgt
                   /\ op[p].kind = "mount" => op[h].kind \in {"mount", "kmount"}
BY UtabAssumption, JobsAssumption DEF JobOk

\* Every step keeps utab a table.
LEMMA TabTypesStep ==
  ASSUME Types, UpdateInv, TabTypes, [Next]_vars PROVE TabTypes'
<1>1. CASE UNCHANGED Table!vars
  BY <1>1, Zenon DEF TabTypes, Table!vars
<1>2. CASE Table!Next
  <2>1. PICK p \in Proc : Table!Update(p)
    BY <1>2, Zenon DEF Table!Next
  <2>2. PICK lacks \in BOOLEAN : utab' = Table!mnt_update_table(op[p], lacks, utab)
    BY <2>1, Zenon DEF Table!Update
  <2>3. op' = op /\ op[p].kind # "kmount"
    BY <2>1, Zenon DEF Table!Update
  <2>4. JobOk(op[p])
    BY JobFacts, Zenon DEF TabTypes
  <2> QED
    BY <2>2, <2>3, <2>4, UpdateTyped, Zenon DEF TabTypes
<1> QED
  BY <1>1, <1>2, TableStep, Zenon

\* A step of one process leaves what the others have in memory alone.
LEMMA OtherFrame ==
  ASSUME Types, NEW q \in Proc, Progress(q) \/ Failure(q)
  PROVE  /\ op' = op
         /\ \A p \in Proc \ {q} : /\ pc'[p] = pc[p] /\ ready'[p] = ready[p]
                                  /\ missing'[p] = missing[p]
                                  /\ p \in written' <=> p \in written
<1> USE DEF Types, Goto, updVars, tableVars
<1>1. CASE PrepareUpdate(q) \/ StartLock(q) \/ StartAct(q) \/ StartUnlinks(q)
          \/ Syscall(q) \/ ExecHelper(q) \/ HelperExits(q)
  BY <1>1, ZenonT(30)
  DEF PrepareUpdate, StartLock, StartAct, StartUnlinks, Syscall, ExecHelper, HelperExits
<1>2. CASE UpdateTabs(q) \/ mnt_update_already_done(q) \/ UpdateLock(q) \/ ReadTable(q)
  BY <1>2, ZenonT(30) DEF UpdateTabs, mnt_update_already_done, UpdateLock, ReadTable
<1>3. CASE WriteTable(q)
  BY <1>3, ZenonT(30) DEF WriteTable
<1>4. CASE EmitOpen(q) \/ EmitClose(q) \/ EndNothing(q) \/ EndLock(q)
          \/ EndUnlink(q) \/ Exit(q)
  BY <1>4, Zenon DEF EmitOpen, EmitClose, EndNothing, EndLock, EndUnlink, Exit
<1>5. CASE StartLockFails(q) \/ StartActFails(q) \/ SyscallFails(q) \/ PostFails(q)
          \/ TryAgain(q)
  BY <1>5, ZenonT(30) DEF StartLockFails, StartActFails, SyscallFails, PostFails, TryAgain
<1>6. CASE UpdateLockFails(q) \/ ReadFails(q) \/ WriteFails(q) \/ EmitFails(q)
          \/ EndLockFails(q) \/ Crash(q)
  BY <1>6, Zenon DEF UpdateLockFails, ReadFails, WriteFails, EmitFails, EndLockFails, Crash
<1> QED
  BY <1>1, <1>2, <1>3, <1>4, <1>5, <1>6, ZenonT(30) DEF Progress, Failure

\* A failure is on record.
LEMMA FailureFault ==
  ASSUME NEW q \in Proc, Failure(q)
  PROVE  HasFault(q, FaultKinds)'
<1> USE DEF HasFault, FaultKinds, Fault
<1>1. CASE StartLockFails(q) \/ UpdateLockFails(q) \/ EndLockFails(q)
  BY <1>1, ZenonT(30) DEF StartLockFails, UpdateLockFails, EndLockFails, mnt_lock_file_fails
<1>2. CASE StartActFails(q) \/ SyscallFails(q) \/ PostFails(q) \/ TryAgain(q)
  BY <1>2, ZenonT(30) DEF StartActFails, SyscallFails, PostFails, TryAgain
<1>3. CASE ReadFails(q) \/ WriteFails(q) \/ EmitFails(q) \/ Crash(q)
  BY <1>3, ZenonT(30) DEF ReadFails, WriteFails, EmitFails, Crash
<1> QED
  BY <1>1, <1>2, <1>3, ZenonT(30) DEF Failure

\* The entry of the mount point in a table that has no other is the one that is found.
LEMMA FindSingle ==
  ASSUME NEW tb \in Seq(TabEntry), NEW path, NEW e, Single(tb, path, e)
  PROVE  /\ Table!find_target(tb, path) \in 1..Len(tb)
         /\ tb[Table!find_target(tb, path)] = e
         /\ \A k \in 1..Len(tb) : tb[k].tgt = path => k = Table!find_target(tb, path)
<1>1. PICK f : f = Table!find_target(tb, path)
  BY Zenon
<1>2. FindsAt(f, tb, path)
  BY <1>1, FindTarget, Zenon
<1>3. PICK i \in 1..Len(tb) : tb[i] = e /\ \A k \in 1..Len(tb) : tb[k].tgt = path => k = i
  BY Zenon DEF Single
<1>4. f = i
  BY <1>2, <1>3, Zenon DEF FindsAt, Single
<1> QED
  BY <1>1, <1>3, <1>4, Zenon

\* find_pair() finds the only entry of a mount point.
LEMMA FindPairSingle ==
  ASSUME NEW tb \in Seq(TabEntry), NEW path, NEW e, Single(tb, path, e)
  PROVE  /\ Table!find_pair(tb, e.src, path) # 0
         /\ tb[Table!find_pair(tb, e.src, path)] = e
<1>1. PICK f : f = Table!find_pair(tb, e.src, path)
  BY Zenon
<1>2. FindsPair(f, tb, e.src, path)
  BY <1>1, FindPair, Zenon
<1>3. PICK i \in 1..Len(tb) : tb[i] = e /\ \A k \in 1..Len(tb) : tb[k].tgt = path => k = i
  BY Zenon DEF Single
<1>4. f = i /\ i # 0
  BY <1>2, <1>3, Zenon DEF FindsPair, Single
<1> QED
  BY <1>1, <1>3, <1>4, Zenon

\* find_pair() finds nothing where there is no entry.
LEMMA FindPairAbsent ==
  ASSUME NEW tb \in Seq(TabEntry), NEW path, NEW src, Absent(tb, path)
  PROVE  Table!find_pair(tb, src, path) = 0
<1>1. PICK f : f = Table!find_pair(tb, src, path)
  BY Zenon
<1>2. FindsPair(f, tb, src, path)
  BY <1>1, FindPair, Zenon
<1> QED
  BY <1>1, <1>2, Zenon DEF FindsPair, Absent

\* The first entry of the mount point.
LEMMA AppendSingle ==
  ASSUME NEW tb \in Seq(TabEntry), NEW path, NEW x \in TabEntry, x.tgt = path, Absent(tb, path)
  PROVE  Single(Append(tb, x), path, x)
<1> DEFINE new == Append(tb, x)
           n == Len(tb)
<1>1. /\ n \in Nat /\ Len(new) = n + 1 /\ new[n + 1] = x
      /\ \A k \in 1..n : new[k] = tb[k]
  OBVIOUS
<1> HIDE DEF new
<1>2. Single(new, path, x)
  <2>1. n + 1 \in 1..Len(new)
    BY <1>1
  <2>2. \A k \in 1..Len(new) : new[k].tgt = path => k = n + 1
    BY <1>1 DEF Absent
  <2> QED
    BY <1>1, <2>1, <2>2, Zenon DEF Single
<1> QED
  BY <1>2, Zenon DEF new

\* update_add_options() of the one entry.
LEMMA OptionsSingle ==
  ASSUME NEW tb \in Seq(TabEntry), NEW path, NEW e, Single(tb, path, e),
         NEW o, JobOk(o), o.tgt = path
  PROVE  \E x \in TabEntry : /\ Single(Table!update_add_options(o, tb), path, x)
                             /\ x.src = e.src /\ x.opts = e.opts \cup o.opts
<1>1. PICK f : f = Table!find_target(tb, path)
  BY Zenon
<1>2. f \in 1..Len(tb) /\ tb[f] = e /\ \A k \in 1..Len(tb) : tb[k].tgt = path => k = f
  BY <1>1, FindSingle, Zenon
<1>3. e \in TabEntry /\ e.tgt = path
  BY <1>2 DEF Single
<1>4. PICK all \in SUBSET STRING : all = e.opts \cup o.opts
  BY <1>3, Zenon DEF TabEntry, JobOk
<1>5. PICK new : new = [tb EXCEPT ![f].opts = all]
  BY ZenonT(30)
<1>6. Table!update_add_options(o, tb) = new
  <2>1. f # 0 /\ Table!find_target(tb, o.tgt) = f
    BY <1>1, <1>2
  <2>2. Table!update_add_options(o, tb) = [tb EXCEPT ![f].opts = tb[f].opts \cup o.opts]
    BY <2>1, Zenon DEF Table!update_add_options
  <2> QED
    BY <1>2, <1>4, <1>5, <2>2, Zenon
<1>7. WithOptions(tb, f, all, new)
  BY <1>2, <1>5, OptionsFact, ZenonT(30)
<1>8. Single(new, path, new[f])
  BY <1>2, <1>3, <1>7 DEF Single, WithOptions
<1> QED
  BY <1>2, <1>4, <1>6, <1>7, <1>8, Zenon DEF WithOptions

\* A step of a process that has nothing to do with the mount point.
LEMMA StepOfOther ==
  ASSUME Types, UpdateInv, TabTypes, NEW p \in Proc, NEW h \in Proc, NEW q \in Proc \ {p, h},
         ~ Concerns(q, op[p].tgt), HelperControl(p, h), HelperTable(p, h),
         Progress(q) \/ Failure(q)
  PROVE  HelperControl(p, h)' /\ HelperTable(p, h)'
<1>1. /\ op' = op
      /\ \A r \in {p, h} : /\ pc'[r] = pc[r] /\ ready'[r] = ready[r] /\ missing'[r] = missing[r]
                           /\ r \in written' <=> r \in written
  BY OtherFrame, ZenonT(30)
<1>2. HelperControl(p, h)'
  BY <1>1, Zenon DEF HelperControl
<1>3. CASE ~ WriteTable(q)
  <2>1. utab' = utab
    BY <1>3, TableFrame, Zenon DEF Table!vars
  <2> QED
    BY <1>1, <1>2, <2>1, Zenon DEF HelperTable
<1>4. CASE WriteTable(q)
  <2>1. tab[q] = utab /\ op[q].kind # "kmount" /\ missing[q] \in BOOLEAN
    BY <1>4, Zenon DEF Types, UpdateInv, WriteTable
  <2>2. utab' = utab \/ utab' = Table!mnt_update_table(op[q], missing[q], utab)
    BY <1>4, <2>1, Zenon DEF WriteTable, tableVars
  <2>3. utab \in Seq(TabEntry) /\ JobOk(op[q]) /\ op[p].tgt \in Path
    BY JobFacts, Zenon DEF TabTypes, JobOk
  <2>4. /\ op[q].tgt # op[p].tgt
        /\ op[q].kind = "move" => ~ Table!Below(op[p].tgt, op[q].src) /\ ~ Table!Below(op[p].tgt, op[q].tgt)
    BY Zenon DEF Concerns
  <2>5. Keeps(utab, utab', op[p].tgt)
    <3>1. Keeps(utab, utab, op[p].tgt)
      BY <2>3, Zenon DEF Keeps
    <3>2. Keeps(utab, Table!mnt_update_table(op[q], missing[q], utab), op[p].tgt)
      BY <2>1, <2>3, <2>4, UpdateKeeps, Zenon
    <3> QED
      BY <2>2, <3>1, <3>2, Zenon
  <2>6. HelperTable(p, h)'
    BY <1>1, <2>5, Zenon DEF HelperTable, Keeps
  <2> QED
    BY <1>2, <2>6, Zenon
<1> QED
  BY <1>3, <1>4, Zenon

\* A step of the helper.
LEMMA StepOfHelper ==
  ASSUME Types, UpdateInv, TabTypes, NEW p \in Proc, NEW h \in Proc, h # p,
         h = op[p].helper, op[p].kind = "mount", HelperControl(p, h), HelperTable(p, h),
         Progress(h)
  PROVE  HelperControl(p, h)' /\ HelperTable(p, h)'
<1>0. NoProc \notin Proc
  BY UtabAssumption, Zenon
<1>1. /\ op[h].helper = NoProc /\ op[h].src = op[p].src /\ op[h].tgt = op[p].tgt
      /\ op[h].kind \in {"mount", "kmount"} /\ JobOk(op[h])
  BY <1>0, JobFacts, Zenon DEF TabTypes
<1>2. /\ op' = op /\ pc'[p] = pc[p] /\ ready'[p] = ready[p] /\ missing'[p] = missing[p]
      /\ p \in written' <=> p \in written
  BY OtherFrame, ZenonT(30)
<1>3. CASE WriteTable(h)
  <2>1. pc[h] = "write" /\ pc[p] \notin AfterHelper /\ h \notin written /\ p \notin written
    BY <1>3, Zenon DEF WriteTable, HelperControl, UpdateInv, AfterWrite, AfterHelper
  <2>2. tab[h] = utab /\ op[h].kind = "mount" /\ ~ missing[h] /\ ready[h]
    BY <1>1, <2>1, Zenon DEF UpdateInv, HelperControl
  <2>3. Table!Writes(op[h], missing[h], tab[h])
    BY <2>2, Zenon DEF Table!Writes
  <2>4. utab' = Append(utab, Table!NewEntry(op[h])) /\ written' = written \cup {h}
    BY <1>3, <2>2, <2>3, Zenon DEF WriteTable, Table!mnt_update_table, Table!update_add_entry
  <2>5. pc'[h] \in {"emit", "end"} /\ ready'[h] = ready[h] /\ missing'[h] = missing[h]
    BY <1>3, Zenon DEF WriteTable, Goto, ToEmit, Types
  <2>6. HelperControl(p, h)'
    BY <1>2, <2>1, <2>2, <2>4, <2>5, ZenonT(30) DEF HelperControl, AfterHelper
  <2>7. HelperTable(p, h)'
    <3>1. Table!NewEntry(op[h]) \in TabEntry /\ Table!NewEntry(op[h]).tgt = op[p].tgt
          /\ Table!NewEntry(op[h]).src = op[p].src /\ Table!NewEntry(op[h]).opts = op[h].opts
      BY <1>1, NewEntryTyped, Zenon
    <3>2. Absent(utab, op[p].tgt)
      BY <2>1, Zenon DEF HelperTable
    <3>3. Single(utab', op[p].tgt, Table!NewEntry(op[h]))
      BY <2>4, <3>1, <3>2, AppendSingle, ZenonT(30) DEF TabTypes
    <3>4. pc'[p] \notin AfterWrite
      BY <1>2, <2>1, Zenon DEF AfterWrite, AfterHelper, HelperControl
    <3> QED
      BY <1>2, <2>4, <3>1, <3>3, <3>4, ZenonT(30) DEF HelperTable
  <2> QED
    BY <2>6, <2>7, Zenon
<1>4. CASE ~ WriteTable(h)
  <2>1. utab' = utab /\ written' = written
    BY <1>4, TableFrame, Zenon DEF Table!vars
  <2>2. HelperTable(p, h)'
    BY <1>2, <2>1, Zenon DEF HelperTable
  <2>3. /\ pc[h] # "done" /\ pc'[h] # "dead" /\ pc'[h] # "idle" /\ ~ missing'[h]
        /\ op[h].kind = "mount" => ready'[h]
        /\ op[h].kind = "mount" /\ pc'[h] \in AfterWrite => h \in written
    <3> USE <1>1 DEF HelperControl, Types, Goto, updVars, AfterWrite
    <3>1. CASE PrepareUpdate(h)
      BY <3>1, Zenon DEF PrepareUpdate, UpdateNeeded
    <3>2. CASE StartLock(h) \/ StartAct(h) \/ StartUnlinks(h)
      BY <3>2, Zenon DEF StartLock, StartAct, StartUnlinks
    <3>3. CASE Syscall(h) \/ HelperExits(h) \/ ExecHelper(h)
      BY <3>3, ZenonT(30) DEF Syscall, HelperExits, ExecHelper
    <3>4. CASE UpdateTabs(h)
      BY <3>4, Zenon DEF UpdateTabs
    <3>5. CASE UpdateLock(h) \/ ReadTable(h)
      BY <3>5, ZenonT(30) DEF UpdateLock, ReadTable
    <3>6. CASE EmitOpen(h) \/ EmitClose(h) \/ EndNothing(h) \/ EndLock(h)
      BY <3>6, Zenon DEF EmitOpen, EmitClose, EndNothing, EndLock
    <3>7. CASE EndUnlink(h) \/ Exit(h)
      BY <3>7, Zenon DEF EndUnlink, Exit
    <3>8. ~ mnt_update_already_done(h)
      BY Zenon DEF mnt_update_already_done
    <3> QED
      BY <1>4, <3>1, <3>2, <3>3, <3>4, <3>5, <3>6, <3>7, <3>8, ZenonT(30) DEF Progress
  <2>4. HelperControl(p, h)'
    BY <1>2, <2>1, <2>3, ZenonT(30) DEF HelperControl
  <2> QED
    BY <2>2, <2>4, Zenon
<1> QED
  BY <1>3, <1>4, Zenon

\* The mount's own look at utab after its helper: it finds the helper's entry
\* and what options that lacks, or nothing.
LEMMA LookOfMount ==
  ASSUME Types, UpdateInv, TabTypes, NEW p \in Proc, NEW h \in Proc, h # p,
         h = op[p].helper, op[p].kind = "mount", HelperControl(p, h), HelperTable(p, h),
         mnt_update_already_done(p)
  PROVE  HelperControl(p, h)' /\ HelperTable(p, h)'
<1>1. /\ op' = op /\ utab' = utab /\ written' = written /\ ready' = ready
      /\ pc[p] = "tabs" /\ pc'[h] = pc[h] /\ missing'[h] = missing[h]
      /\ missing'[p] <=> missing[p] \/ MissingOptions(p)
      /\ AlreadyDone(p) => pc'[p] = ToEmit(p)
      /\ ~ AlreadyDone(p) => pc'[p] = "lock"
  BY Zenon DEF mnt_update_already_done, Goto, tableVars, Types
<1>2. p \notin written /\ ToEmit(p) \in {"emit", "end"}
  BY <1>1, Zenon DEF UpdateInv, AfterWrite, ToEmit
<1>3. CASE h \in written
  <2>1. PICK e \in TabEntry : /\ Single(utab, op[p].tgt, e) /\ e.src = op[p].src
                              /\ op[h].opts \subseteq e.opts
    BY <1>3, Zenon DEF HelperTable
  <2>2. /\ Table!find_pair(utab, op[p].src, op[p].tgt) # 0
        /\ utab[Table!find_pair(utab, op[p].src, op[p].tgt)] = e
    BY <2>1, FindPairSingle DEF TabTypes
  <2>3. /\ AlreadyDone(p) <=> op[p].opts \subseteq e.opts
        /\ MissingOptions(p) <=> ~ (op[p].opts \subseteq e.opts)
    BY <2>2, Zenon DEF AlreadyDone, MissingOptions
  <2>4. HelperControl(p, h)'
    BY <1>1, <1>2, <1>3, <2>3, ZenonT(30) DEF HelperControl, AfterHelper, AfterWrite
  <2>5. HelperTable(p, h)'
    BY <1>1, <1>2, <1>3, <2>1, <2>3, Zenon DEF HelperTable, AfterWrite
  <2> QED
    BY <2>4, <2>5, Zenon
<1>4. CASE h \notin written
  <2>1. Absent(utab, op[p].tgt)
    BY <1>2, <1>4, Zenon DEF HelperTable
  <2>2. Table!find_pair(utab, op[p].src, op[p].tgt) = 0
    BY <2>1, FindPairAbsent, Zenon DEF TabTypes
  <2>3. ~ AlreadyDone(p) /\ ~ MissingOptions(p)
    BY <2>2, Zenon DEF AlreadyDone, MissingOptions
  <2>4. HelperControl(p, h)'
    BY <1>1, <1>4, <2>3, ZenonT(30) DEF HelperControl, AfterHelper, AfterWrite
  <2>5. HelperTable(p, h)'
    BY <1>1, <1>2, <1>4, <2>1, Zenon DEF HelperTable
  <2> QED
    BY <2>4, <2>5, Zenon
<1> QED
  BY <1>3, <1>4, Zenon

\* The mount's own write: it adds its options to the helper's entry, finds them
\* there, or adds the entry that the helper has not made.
LEMMA WriteOfMount ==
  ASSUME Types, UpdateInv, TabTypes, NEW p \in Proc, NEW h \in Proc, h # p,
         h = op[p].helper, op[p].kind = "mount", HelperControl(p, h), HelperTable(p, h),
         WriteTable(p)
  PROVE  HelperControl(p, h)' /\ HelperTable(p, h)'
<1>1. /\ op' = op /\ ready' = ready /\ missing' = missing /\ tab[p] = utab
      /\ pc[p] = "write" /\ pc'[h] = pc[h] /\ pc'[p] \in {"emit", "end"}
      /\ p \notin written /\ JobOk(op[p])
  BY JobFacts, Zenon DEF WriteTable, Goto, Types, ToEmit, UpdateInv, AfterWrite, TabTypes
<1>2. h \in written <=> missing[p]
  BY <1>1, Zenon DEF HelperControl
<1>3. h \in written => written' = written \/ written' = written \cup {p}
  BY Zenon DEF WriteTable, tableVars
<1>4. CASE missing[p]
  <2>1. PICK e \in TabEntry : /\ Single(utab, op[p].tgt, e) /\ e.src = op[p].src
                              /\ op[h].opts \subseteq e.opts
    BY <1>2, <1>4, Zenon DEF HelperTable
  <2>2. /\ Table!find_target(utab, op[p].tgt) # 0
        /\ utab[Table!find_target(utab, op[p].tgt)] = e
    BY <2>1, FindSingle DEF TabTypes
  <2>3. Table!Writes(op[p], missing[p], tab[p]) <=> ~ (op[p].opts \subseteq e.opts)
    BY <1>1, <1>4, <2>2, Zenon DEF Table!Writes
  <2>4. \E x \in TabEntry : /\ Single(utab', op[p].tgt, x) /\ x.src = op[p].src
                            /\ op[h].opts \cup op[p].opts \subseteq x.opts
    <3>1. CASE op[p].opts \subseteq e.opts
      BY <1>1, <2>1, <2>3, <3>1, Zenon DEF WriteTable, tableVars
    <3>2. CASE ~ (op[p].opts \subseteq e.opts)
      <4>1. utab' = Table!update_add_options(op[p], utab)
        BY <1>1, <1>4, <2>3, <3>2, ZenonT(30) DEF WriteTable, Table!mnt_update_table
      <4>2. PICK x \in TabEntry : /\ Single(Table!update_add_options(op[p], utab), op[p].tgt, x)
                                  /\ x.src = e.src /\ x.opts = e.opts \cup op[p].opts
        <5>1. utab \in Seq(TabEntry) /\ JobOk(op[p])
          BY <1>1, Zenon DEF TabTypes
        <5> QED
          BY <2>1, <5>1, OptionsSingle, SMTT(30)
      <4> QED
        BY <2>1, <4>1, <4>2, Zenon
    <3> QED
      BY <3>1, <3>2, Zenon
  <2>5. HelperControl(p, h)'
    BY <1>1, <1>2, <1>3, <1>4, ZenonT(30) DEF HelperControl, AfterHelper, AfterWrite
  <2>6. HelperTable(p, h)'
    BY <1>1, <1>2, <1>3, <1>4, <2>4, Zenon DEF HelperTable
  <2> QED
    BY <2>5, <2>6, Zenon
<1>5. CASE ~ missing[p]
  <2>1. Table!Writes(op[p], missing[p], tab[p])
    BY <1>5, Zenon DEF Table!Writes
  <2>2. utab' = Append(utab, Table!NewEntry(op[p])) /\ written' = written \cup {p}
    BY <1>1, <1>5, <2>1, Zenon DEF WriteTable, Table!mnt_update_table, Table!update_add_entry
  <2>3. Table!NewEntry(op[p]) \in TabEntry /\ Table!NewEntry(op[p]).tgt = op[p].tgt
        /\ Table!NewEntry(op[p]).src = op[p].src /\ Table!NewEntry(op[p]).opts = op[p].opts
    BY <1>1, NewEntryTyped, Zenon
  <2>4. Absent(utab, op[p].tgt)
    BY <1>1, <1>2, <1>5, Zenon DEF HelperTable
  <2>5. Single(utab', op[p].tgt, Table!NewEntry(op[p]))
    BY <2>2, <2>3, <2>4, AppendSingle, Zenon DEF TabTypes
  <2>6. HelperControl(p, h)'
    BY <1>1, <1>2, <1>5, <2>2, ZenonT(30) DEF HelperControl, AfterHelper, AfterWrite
  <2>7. HelperTable(p, h)'
    BY <1>1, <1>2, <1>5, <2>2, <2>3, <2>5, ZenonT(30) DEF HelperTable
  <2> QED
    BY <2>6, <2>7, Zenon
<1> QED
  BY <1>4, <1>5, Zenon DEF Types

\* A step of the mount itself.
LEMMA StepOfMount ==
  ASSUME Types, UpdateInv, TabTypes, NEW p \in Proc, NEW h \in Proc, h # p,
         h = op[p].helper, op[p].kind = "mount", ~ HasFault(h, FaultKinds),
         HelperControl(p, h), HelperTable(p, h), Progress(p)
  PROVE  HelperControl(p, h)' /\ HelperTable(p, h)'
<1>1. CASE mnt_update_already_done(p)
  BY <1>1, LookOfMount, Zenon
<1>2. CASE WriteTable(p)
  BY <1>2, WriteOfMount, Zenon
<1>3. CASE ~ WriteTable(p) /\ ~ mnt_update_already_done(p)
  <2>0. h # NoProc /\ missing[p] \in BOOLEAN
    BY UtabAssumption, Zenon DEF Types
  <2>1. op' = op /\ utab' = utab /\ written' = written
    BY <1>3, TableFrame, OtherFrame, Zenon DEF Table!vars
  <2>2. /\ pc'[h] = pc[h] /\ ready'[h] = ready[h] /\ missing'[h] = missing[h]
    BY OtherFrame, ZenonT(30)
  <2>3. /\ missing'[p] = missing[p] /\ pc'[p] # "idle" /\ pc'[p] # "dead" /\ ready'[p]
        /\ pc'[p] \in AfterHelper => pc[h] = "done"
        /\ pc'[p] \in AfterWrite <=> pc[p] \in AfterWrite
        /\ pc'[p] \in {"lock", "read", "write"} <=> pc[p] \in {"lock", "read", "write"}
    <3> USE <2>0 DEF HelperControl, Types, Goto, updVars, AfterWrite, AfterHelper
    <3>1. CASE PrepareUpdate(p)
      BY <3>1, Zenon DEF PrepareUpdate, UpdateNeeded
    <3>2. CASE StartLock(p) \/ StartAct(p) \/ StartUnlinks(p)
      BY <3>2, Zenon DEF StartLock, StartAct, StartUnlinks
    <3>3. CASE HelperExits(p) \/ ExecHelper(p)
      BY <3>3, Zenon DEF HelperExits, ExecHelper, Final
    <3>4. ~ Syscall(p)
      BY Zenon DEF Syscall
    <3>5. ~ UpdateTabs(p)
      BY Zenon DEF UpdateTabs, HelperOk, HasFault, FaultKinds
    <3>6. CASE UpdateLock(p) \/ ReadTable(p)
      BY <3>6, Zenon DEF UpdateLock, ReadTable
    <3>7. CASE EmitOpen(p) \/ EmitClose(p) \/ EndNothing(p) \/ EndLock(p)
      BY <3>7, Zenon DEF EmitOpen, EmitClose, EndNothing, EndLock
    <3>8. CASE EndUnlink(p) \/ Exit(p)
      BY <3>8, Zenon DEF EndUnlink, Exit
    <3> QED
      BY <1>3, <3>1, <3>2, <3>3, <3>4, <3>5, <3>6, <3>7, <3>8, ZenonT(30) DEF Progress
  <2>4. HelperControl(p, h)'
    BY <2>1, <2>2, <2>3, ZenonT(30) DEF HelperControl
  <2>5. HelperTable(p, h)'
    BY <2>1, <2>3, Zenon DEF HelperTable
  <2> QED
    BY <2>4, <2>5, Zenon
<1> QED
  BY <1>1, <1>2, <1>3, Zenon

\* Every step keeps HelperInv.
LEMMA HelperStep ==
  ASSUME Types, UpdateInv, TabTypes, HelperInv, [Next]_vars PROVE HelperInv'
<1>1. CASE UNCHANGED vars
  <2>1. /\ op' = op /\ pc' = pc /\ ready' = ready /\ missing' = missing /\ faults' = faults
        /\ utab' = utab /\ written' = written
    BY <1>1, Zenon DEF vars, tableVars, updVars
  <2>2. ASSUME NEW p \in Proc, Plain(p)'
        PROVE  HelperControl(p, op[p].helper)' /\ HelperTable(p, op[p].helper)'
    <3>1. Plain(p)
      BY <2>1, <2>2, Zenon DEF Plain, HasFault, Concerns
    <3>2. HelperControl(p, op[p].helper) /\ HelperTable(p, op[p].helper)
      BY <3>1, Zenon DEF HelperInv
    <3>3. HelperControl(p, op[p].helper)'
      BY <2>1, <3>2, Zenon DEF HelperControl
    <3>4. HelperTable(p, op[p].helper)'
      BY <2>1, <3>2, Zenon DEF HelperTable
    <3> QED
      BY <3>3, <3>4, Zenon
  <2> QED
    BY <2>2, Zenon DEF HelperInv
<1>2. ASSUME NEW q \in Proc, Progress(q) \/ Failure(q), NEW p \in Proc, Plain(p)'
      PROVE  HelperControl(p, op[p].helper)' /\ HelperTable(p, op[p].helper)'
  <2>1. op' = op /\ faults \subseteq faults'
    BY <1>2, OtherFrame, FaultsGrow, Zenon
  <2>2. Plain(p)
    BY <1>2, <2>1, Zenon DEF Plain, HasFault, Concerns
  <2>3. PICK h : h = op[p].helper
    BY Zenon
  <2>4. h \in Proc /\ h # p /\ op[p].kind = "mount"
    BY <2>2, <2>3, JobFacts, Zenon DEF Plain, TabTypes
  <2>5. HelperControl(p, h) /\ HelperTable(p, h)
    BY <2>2, <2>3, Zenon DEF HelperInv
  <2>6. HelperControl(p, h)' /\ HelperTable(p, h)'
    <3>1. CASE q \in Proc \ {p, h}
      <4>1. ~ Concerns(q, op[p].tgt)
        BY <2>2, <2>3, <3>1, Zenon DEF Plain
      <4> QED
        BY <1>2, <2>4, <2>5, <3>1, <4>1, StepOfOther, ZenonT(30)
    <3>2. CASE q \in {p, h}
      <4>1. ~ HasFault(q, FaultKinds)'
        BY <1>2, <2>1, <2>3, <3>2, Zenon DEF Plain
      <4>2. Progress(q)
        BY <1>2, <4>1, FailureFault, Zenon
      <4>3. ~ HasFault(h, FaultKinds)
        BY <2>2, <2>3, Zenon DEF Plain
      <4>4. CASE q = p
        BY <2>3, <2>4, <2>5, <4>2, <4>3, <4>4, StepOfMount, ZenonT(30)
      <4>5. CASE q = h
        BY <2>3, <2>4, <2>5, <4>2, <4>5, StepOfHelper, ZenonT(30)
      <4> QED
        BY <3>2, <4>4, <4>5, Zenon
    <3> QED
      BY <1>2, <3>1, <3>2, Zenon
  <2>7. op'[p].helper = h
    BY <2>1, <2>3, Zenon
  <2> QED
    BY <2>6, <2>7, Zenon DEF HelperControl, HelperTable
<1> QED
  BY <1>1, <1>2, Zenon DEF Next, HelperInv

\* Before the first process starts no helper has written, and FreshMounts keeps
\* the mount points out of utab.
LEMMA HelperInit == ASSUME FreshMounts, Init PROVE TabTypes /\ HelperInv
<1>1. TabTypes
  BY TablesAssumption, Zenon DEF Init, TabTypes
<1>2. ASSUME NEW p \in Proc, Plain(p)
      PROVE  HelperControl(p, op[p].helper) /\ HelperTable(p, op[p].helper)
  <2>1. PICK h : h = op[p].helper
    BY Zenon
  <2>2. h \in Proc /\ h # NoProc /\ op[p].kind = "mount"
    BY <1>1, <1>2, <2>1, JobFacts, Zenon DEF Plain, TabTypes
  <2>3. HelperControl(p, h)
    BY <2>2, Zenon DEF Init, HelperControl, AfterHelper, AfterWrite
  <2>4. Absent(utab, op[p].tgt)
    BY <2>1, <2>2, Zenon DEF FreshMounts, Init, Absent
  <2>5. HelperTable(p, h)
    BY <2>4, Zenon DEF Init, HelperTable
  <2> QED
    BY <2>1, <2>3, <2>5, Zenon
<1> QED
  BY <1>1, <1>2, Zenon DEF HelperInv

\* When the mount is done HelperInv leaves one entry, with the options of both.
LEMMA HelperEntry ==
  ASSUME TabTypes, HelperInv PROVE OneEntryPerMount
<1>1. ASSUME NEW p \in Proc, pc[p] = "done", Plain(p)
      PROVE  \E i \in DOMAIN utab :
                /\ {k \in DOMAIN utab : utab[k].tgt = op[p].tgt} = {i}
                /\ op[p].opts \cup op[op[p].helper].opts \subseteq utab[i].opts
  <2>1. PICK h : h = op[p].helper
    BY Zenon
  <2>2. HelperControl(p, h) /\ HelperTable(p, h)
    BY <1>1, <2>1, Zenon DEF HelperInv
  <2>3. h \in Proc /\ op[h].kind \in {"mount", "kmount"} /\ (op[h].kind = "kmount" => op[h].opts = {})
    BY <1>1, <2>1, JobFacts, Zenon DEF Plain, TabTypes
  <2>4. pc[h] = "done" /\ (h \in written \/ p \in written)
    BY <1>1, <2>2, Zenon DEF HelperControl, AfterHelper, AfterWrite
  <2>5. op[h].kind = "mount" => h \in written
    BY <2>2, <2>4, Zenon DEF HelperControl, AfterWrite
  <2>6. PICK e \in TabEntry : /\ Single(utab, op[p].tgt, e)
                              /\ h \in written => op[h].opts \subseteq e.opts
                              /\ op[p].opts \subseteq e.opts
    BY <1>1, <2>2, <2>4, Zenon DEF HelperTable, AfterWrite
  <2>7. op[h].opts \subseteq e.opts
    BY <2>3, <2>5, <2>6, Zenon
  <2>8. DOMAIN utab = 1..Len(utab)
    BY DEF TabTypes
  <2> QED
    BY <2>1, <2>6, <2>7, <2>8, Zenon DEF Single
<1> QED
  BY <1>1, Zenon DEF OneEntryPerMount, Plain

\* A mount that succeeds together with its mount.<type> helper leaves exactly one
\* entry for its mount point, with the options of both, whatever the processes
\* at other mount points do in between: update_add_entry() is not repeated by the
\* second of the two and mnt_update_already_done() loses no option.  The mount
\* points have no entry at the start (FreshMounts): a second mount over an
\* existing one stacks, and has a second entry.
THEOREM OneEntryAlways ==
  ASSUME FreshMounts PROVE Spec => []OneEntryPerMount
<1>1. Init => TabTypes /\ HelperInv
  BY HelperInit, Zenon
<1>2. Types /\ UpdateInv /\ TabTypes /\ HelperInv /\ [Next]_vars => (TabTypes /\ HelperInv)'
  BY TabTypesStep, HelperStep, Zenon
<1>3. TabTypes /\ HelperInv => OneEntryPerMount
  BY HelperEntry, Zenon
<1> QED
  BY <1>1, <1>2, <1>3, UpdateInvariant, PTL DEF Spec

=============================================================================
