----------------------------- MODULE FsckProofs -----------------------------
(***************************************************************************)
(* Proofs about Fsck: for any table, options and number of signals, which    *)
(* checkers run, what is known of them, and what fsck reports in the end.   *)
(***************************************************************************)
EXTENDS Fsck, TLAPS

-----------------------------------------------------------------------------
(* Lists without repetition *)

Elems(s) == {s[k] : k \in DOMAIN s}
Distinct(s) == \A j, k \in DOMAIN s : s[j] = s[k] => j = k

Extends(t, s, x) ==
    Len(t) = Len(s) + 1 /\ t[Len(s) + 1] = x /\ \A i \in 1..Len(s) : t[i] = s[i]

Adds(t, s, x) == Elems(t) = Elems(s) \union {x} /\ Distinct(t)

\* Adding a new element at the end keeps the elements distinct.
LEMMA AppendElems ==
    ASSUME NEW S, NEW s \in Seq(S), NEW x \in S, x \notin Elems(s), Distinct(s),
           NEW t \in Seq(S), Extends(t, s, x)
    PROVE  Adds(t, s, x)
<1> /\ Len(t) = Len(s) + 1 /\ t[Len(s) + 1] = x /\ Len(s) \in Nat
    /\ \A i \in 1..Len(s) : t[i] = s[i]
  BY DEF Extends
<1> DOMAIN t = 1..(Len(s) + 1) /\ DOMAIN s = 1..Len(s)
  OBVIOUS
<1>3. Elems(t) = Elems(s) \union {x}
  <2>1. ASSUME NEW y \in Elems(t) PROVE y \in Elems(s) \union {x}
    BY <2>1 DEF Elems
  <2>2. ASSUME NEW y \in Elems(s) \union {x} PROVE y \in Elems(t)
    BY <2>2 DEF Elems
  <2> QED BY <2>1, <2>2, Zenon
<1>4. Distinct(t)
  <2> SUFFICES ASSUME NEW j \in DOMAIN t, NEW k \in DOMAIN t, t[j] = t[k] PROVE j = k
    BY Zenon DEF Distinct
  <2>1. CASE j \in 1..Len(s) /\ k \in 1..Len(s)
    BY <2>1, Zenon DEF Distinct
  <2>2. CASE j = Len(s) + 1 /\ k \in 1..Len(s)
    BY <2>2, Zenon DEF Elems
  <2>3. CASE k = Len(s) + 1 /\ j \in 1..Len(s)
    BY <2>3, Zenon DEF Elems
  <2> QED BY <2>1, <2>2, <2>3
<1> QED BY <1>3, <1>4, Zenon DEF Adds

\* unlinked() drops one element and keeps the others distinct.
LEMMA RemoveElems ==
    ASSUME NEW S, NEW s \in Seq(S), NEW k \in DOMAIN s, Distinct(s), NEW t, t = unlinked(s, k)
    PROVE  /\ t \in Seq(S) /\ Len(t) = Len(s) - 1 /\ Elems(t) = Elems(s) \ {s[k]} /\ Distinct(t)
<1>1. Len(s) \in Nat /\ DOMAIN s = 1..Len(s) /\ k \in 1..Len(s) /\ \A i \in 1..Len(s) : s[i] \in S
  OBVIOUS
<1> DEFINE a == SubSeq(s, 1, k - 1)
           b == SubSeq(s, k + 1, Len(s))
<1>2. a \in Seq(S) /\ Len(a) = k - 1 /\ \A i \in 1..(k - 1) : a[i] = s[i]
  <2>1. k - 1 \in Int /\ 1 \in Int /\ \A i \in 1..(k - 1) : s[i] \in S
    BY <1>1
  <2>2. /\ a \in Seq(S) /\ Len(a) = IF 1 <= k - 1 THEN (k - 1) - 1 + 1 ELSE 0
        /\ \A i \in 1..((k - 1) - 1 + 1) : a[i] = s[1 + i - 1]
    BY <2>1
  <2> HIDE DEF a
  <2> QED BY <1>1, <2>2
<1>3. b \in Seq(S) /\ Len(b) = Len(s) - k /\ \A i \in 1..(Len(s) - k) : b[i] = s[k + i]
  <2>1. k + 1 \in Int /\ Len(s) \in Int /\ \A i \in (k + 1)..Len(s) : s[i] \in S
    BY <1>1
  <2>2. /\ b \in Seq(S) /\ Len(b) = IF k + 1 <= Len(s) THEN Len(s) - (k + 1) + 1 ELSE 0
        /\ \A i \in 1..(Len(s) - (k + 1) + 1) : b[i] = s[(k + 1) + i - 1]
    BY <2>1
  <2> HIDE DEF b
  <2>3. Len(b) = Len(s) - k
    BY <1>1, <2>2
  <2>4. ASSUME NEW i \in 1..(Len(s) - k) PROVE b[i] = s[k + i]
    <3>1. i \in 1..(Len(s) - (k + 1) + 1) /\ (k + 1) + i - 1 = k + i
      BY <1>1
    <3> QED BY <2>2, <3>1, Zenon
  <2> QED BY <2>2, <2>3, <2>4, Zenon
<1>4. t = a \o b
  BY Zenon DEF unlinked
<1> HIDE DEF a, b
<1>5. /\ t \in Seq(S) /\ Len(t) = Len(a) + Len(b)
      /\ \A i \in 1..(Len(a) + Len(b)) : t[i] = IF i <= Len(a) THEN a[i] ELSE b[i - Len(a)]
  <2>1. a \in Seq(S) /\ b \in Seq(S)
    BY <1>2, <1>3, Zenon
  <2> QED BY <1>4, <2>1
<1>6. Len(t) = Len(s) - 1 /\ DOMAIN t = 1..(Len(s) - 1)
  BY <1>1, <1>2, <1>3, <1>5
<1>7. \A i \in 1..(Len(s) - 1) : t[i] = IF i < k THEN s[i] ELSE s[i + 1]
  <2> SUFFICES ASSUME NEW i \in 1..(Len(s) - 1) PROVE t[i] = IF i < k THEN s[i] ELSE s[i + 1]
    BY Zenon
  <2>1. t[i] = IF i <= k - 1 THEN a[i] ELSE b[i - (k - 1)]
    BY <1>1, <1>2, <1>3, <1>5
  <2>2. CASE i < k
    BY <1>1, <1>2, <2>1, <2>2
  <2>3. CASE ~(i < k)
    <3>1. i - (k - 1) \in 1..(Len(s) - k) /\ k + (i - (k - 1)) = i + 1
      BY <1>1, <2>3
    <3> QED BY <1>1, <1>3, <2>1, <2>3, <3>1
  <2> QED BY <2>2, <2>3, Zenon
<1>8. Elems(t) = Elems(s) \ {s[k]}
  <2>1. ASSUME NEW y \in Elems(t) PROVE y \in Elems(s) \ {s[k]}
    <3>1. PICK i \in 1..(Len(s) - 1) : y = t[i]
      BY <1>6, Zenon DEF Elems
    <3>2. PICK j \in 1..Len(s) : y = s[j] /\ j # k
      <4>1. CASE i < k
        BY <1>1, <1>7, <3>1, <4>1
      <4>2. CASE ~(i < k)
        <5>1. i + 1 \in 1..Len(s) /\ i + 1 # k
          BY <1>1, <4>2
        <5> QED BY <1>7, <3>1, <4>2, <5>1, Zenon
      <4> QED BY <4>1, <4>2, Zenon
    <3> QED BY <1>1, <3>2, Zenon DEF Elems, Distinct
  <2>2. ASSUME NEW y \in Elems(s) \ {s[k]} PROVE y \in Elems(t)
    <3>1. PICK i \in 1..Len(s) : y = s[i]
      BY <1>1, Zenon DEF Elems
    <3>2. i # k
      BY <3>1, Zenon
    <3>3. CASE i < k
      BY <1>1, <1>6, <1>7, <3>1, <3>3 DEF Elems
    <3>4. CASE i > k
      <4>1. i - 1 \in 1..(Len(s) - 1) /\ ~(i - 1 < k) /\ (i - 1) + 1 = i
        BY <1>1, <3>4
      <4>2. t[i - 1] = y
        BY <1>7, <3>1, <4>1, Zenon
      <4> QED BY <1>6, <4>1, <4>2, Zenon DEF Elems
    <3> QED BY <1>1, <3>2, <3>3, <3>4
  <2> QED BY <2>1, <2>2, Zenon
<1>9. Distinct(t)
  <2> SUFFICES ASSUME NEW i \in 1..(Len(s) - 1), NEW j \in 1..(Len(s) - 1), t[i] = t[j] PROVE i = j
    BY <1>6, Zenon DEF Distinct
  <2> DEFINE p(x) == IF x < k THEN x ELSE x + 1
  <2>1. p(i) \in 1..Len(s) /\ p(j) \in 1..Len(s) /\ t[i] = s[p(i)] /\ t[j] = s[p(j)]
    BY <1>1, <1>7
  <2>2. p(i) = p(j)
    BY <1>1, <2>1, ZenonT(30) DEF Distinct
  <2> QED BY <1>1, <2>2
<1> QED BY <1>5, <1>6, <1>8, <1>9, ZenonT(30)

\* Dropping the first element keeps the others distinct.
LEMMA TailElems ==
    ASSUME NEW S, NEW s \in Seq(S), s # <<>>, Distinct(s)
    PROVE  /\ Tail(s) \in Seq(S) /\ Len(Tail(s)) = Len(s) - 1 /\ Head(s) \in Elems(s)
           /\ Elems(Tail(s)) = Elems(s) \ {Head(s)} /\ Distinct(Tail(s))
<1> DEFINE t == Tail(s)
<1> /\ Head(s) = s[1] /\ Len(s) \in Nat /\ 1 \in 1..Len(s) /\ DOMAIN s = 1..Len(s)
    /\ t \in Seq(S) /\ Len(t) = Len(s) - 1 /\ \A i \in 1..(Len(s) - 1) : t[i] = s[i + 1]
  OBVIOUS
<1>2. DOMAIN t = 1..(Len(s) - 1)
  OBVIOUS
<1> HIDE DEF t
<1>3. Elems(t) = Elems(s) \ {s[1]}
  <2>1. ASSUME NEW y \in Elems(t) PROVE y \in Elems(s) \ {s[1]}
    <3>1. PICK i \in 1..(Len(s) - 1) : y = s[i + 1]
      BY <1>2, Zenon DEF Elems
    <3>2. i + 1 \in 1..Len(s) /\ i + 1 # 1
      OBVIOUS
    <3> QED BY <3>1, <3>2, Zenon DEF Elems, Distinct
  <2>2. ASSUME NEW y \in Elems(s) \ {s[1]} PROVE y \in Elems(t)
    <3>1. PICK i \in 1..Len(s) : y = s[i]
      BY Zenon DEF Elems
    <3>2. i - 1 \in 1..(Len(s) - 1) /\ (i - 1) + 1 = i
      BY <3>1
    <3>3. t[i - 1] = y
      BY <3>1, <3>2, Zenon
    <3> QED BY <1>2, <3>2, <3>3, Zenon DEF Elems
  <2> QED BY <2>1, <2>2, Zenon
<1>4. Distinct(t)
  <2> SUFFICES ASSUME NEW i \in 1..(Len(s) - 1), NEW j \in 1..(Len(s) - 1), t[i] = t[j] PROVE i = j
    BY <1>2, Zenon DEF Distinct
  <2>1. i + 1 \in 1..Len(s) /\ j + 1 \in 1..Len(s) /\ s[i + 1] = s[j + 1]
    OBVIOUS
  <2>2. i + 1 = j + 1
    BY <2>1, ZenonT(30) DEF Distinct
  <2> QED BY <2>2
<1>5. Head(s) \in Elems(s)
  BY Zenon DEF Elems
<1> QED BY <1>3, <1>4, <1>5, Zenon DEF t

-----------------------------------------------------------------------------
(* The process and its checkers *)

Waiting == pc \in {"wait", "wait4"}

\* Where the process is, or will be when the call of wait_many() or wait_one() is over.
Point == IF Waiting THEN ret ELSE pc

Walking == {"pass", "fs", "walked", "passend", "final"}

FsckTypes ==
    /\ opt \in Opt /\ tab \in Seq(Entry)
    /\ itr \in Nat \ {0} /\ passno \in Nat
    /\ not_done_yet \in BOOLEAN /\ pass_done \in BOOLEAN /\ nohang \in BOOLEAN
    /\ cancel_requested \in BOOLEAN /\ kill_sent \in BOOLEAN
    /\ child \in [Idx -> {"none", "run", "zombie", "fake", "reaped"}]
    /\ instance_list \in Seq(Idx)
    /\ \A i \in Idx : /\ opt.noexecute => child[i] \notin {"run", "zombie"}
                      /\ ~opt.noexecute => child[i] # "fake"

\* Who calls wait_many(), for what, and where it goes on; only a wait for one sees WNOHANG.
Callers ==
    /\ pc \in {"start", "scan", "root", "rootend", "dev", "wait", "wait4", "exit"} \union Walking
    /\ CheckingAll => Point # "dev"
    /\ ~CheckingAll => Point \in {"start", "dev", "exit"}
    /\ Waiting =>
           /\ ret \in {"rootend", "passend", "dev", "exit"}
           /\ wflags = CASE ret = "rootend" -> "all"
                         [] ret = "passend" -> (IF pass_done THEN "all" ELSE "one")
                         [] ret = "dev" -> "single"
                         [] OTHER -> (IF CheckingAll THEN "one" ELSE "all")
           /\ nohang => wflags = "one"

\* No checker is started twice: what was started is behind the walk, or done.
StartedBehind ==
    /\ Point \in {"start", "scan", "root"} => \A i \in Idx : child[i] = "none"
    /\ Point = "rootend" =>
           ~opt.parallel_root /\ \A i \in Idx : child[i] # "none" => IsFirstRoot(i)
    /\ Point \in Walking => \A i \in Idx : child[i] # "none" => i \in done
    /\ Point = "dev" => \A i \in Idx : child[i] # "none" => i < itr

Core == FsckTypes /\ Callers /\ StartedBehind /\ InstancesTracked

\* What a call of fsck_device() does.
DeviceFails == UNCHANGED <<instVars, procVars>> /\ status' \in {status, status \union {FSCK_EX_ERROR}}

\* fsck_device() reports an error or calls execute().
LEMMA DeviceStarts ==
    ASSUME NEW i, fsck_device(i)
    PROVE  DeviceFails \/ execute(i)
BY Zenon DEF fsck_device, DeviceFails

\* A checker is started on a filesystem that was not.
LEMMA ExecuteTracks ==
    ASSUME FsckTypes, InstancesTracked, NEW i \in Idx, child[i] = "none", execute(i), UNCHANGED <<opt, tab>>
    PROVE  /\ InstancesTracked' /\ Listed' = Listed \union {i} /\ instance_list' \in Seq(Idx)
           /\ child' \in [Idx -> {"none", "run", "zombie", "fake", "reaped"}]
           /\ child'[i] \in {"run", "fake"} /\ \A j \in Idx : j # i => child'[j] = child[j]
           /\ \A j \in Idx : /\ opt.noexecute => child'[j] \notin {"run", "zombie"}
                             /\ ~opt.noexecute => child'[j] # "fake"
<1>1. /\ instance_list' = Append(instance_list, i) /\ num_running' = num_running + 1
      /\ child' = [child EXCEPT ![i] = IF opt.noexecute THEN "fake" ELSE "run"]
  BY Zenon DEF execute
<1> /\ instance_list \in Seq(Idx) /\ Listed = Elems(instance_list) /\ Distinct(instance_list)
    /\ i \notin Listed /\ num_running = Len(instance_list)
  BY Zenon DEF FsckTypes, InstancesTracked, Listed, Elems, Distinct
<1>3. /\ instance_list' \in Seq(Idx) /\ Len(instance_list') = Len(instance_list) + 1
      /\ Elems(instance_list') = Elems(instance_list) \union {i} /\ Distinct(instance_list')
  <2>1. i \notin Elems(instance_list)
    BY Zenon
  <2>2. PICK s \in Seq(Idx) : s = instance_list
    BY Zenon
  <2>3. PICK t : t = instance_list'
    BY Zenon
  <2>4. i \notin Elems(s) /\ Distinct(s) /\ t = Append(s, i)
    BY <1>1, <2>1, <2>2, <2>3, Zenon
  <2>5. t \in Seq(Idx) /\ Extends(t, s, i) /\ Len(t) = Len(s) + 1
    BY <2>4 DEF Extends
  <2>6. Adds(t, s, i)
    BY <2>4, <2>5, AppendElems, ZenonT(30)
  <2> QED BY <2>2, <2>3, <2>5, <2>6, Zenon DEF Adds
<1>4. Listed' = Listed \union {i}
  BY <1>3, ZenonT(30) DEF Listed, Elems
<1>5. /\ child' \in [Idx -> {"none", "run", "zombie", "fake", "reaped"}]
      /\ child'[i] = (IF opt.noexecute THEN "fake" ELSE "run")
      /\ \A j \in Idx : j # i => child'[j] = child[j]
  BY <1>1, Zenon DEF FsckTypes
<1>6. Idx' = Idx
  BY Zenon DEF Idx
<1>7. InstancesTracked'
  <2>1. Listed' = {j \in Idx : child'[j] \in {"run", "zombie", "fake"}}
    BY <1>4, <1>5, Zenon DEF InstancesTracked
  <2>2. \A j, k \in DOMAIN instance_list' : instance_list'[j] = instance_list'[k] => j = k
    BY <1>3, Zenon DEF Distinct
  <2>3. num_running' = Len(instance_list')
    BY <1>1, <1>3, Zenon
  <2> QED BY <1>6, <2>1, <2>2, <2>3, Zenon DEF InstancesTracked
<1>8. \A j \in Idx : /\ opt.noexecute => child'[j] \notin {"run", "zombie"}
                     /\ ~opt.noexecute => child'[j] # "fake"
  BY <1>5, Zenon DEF FsckTypes
<1> QED BY <1>3, <1>4, <1>5, <1>7, <1>8, Zenon

\* A checker is collected: i leaves the list.
Collects(i) ==
    /\ i \in Listed /\ Listed' = Listed \ {i}
    /\ child' = [child EXCEPT ![i] = "reaped"]
    /\ instance_list' \in Seq(Idx)

\* wait_one() unlinks exactly the instance it reaped.
LEMMA ReapCollects ==
    ASSUME FsckTypes, InstancesTracked, NEW k \in DOMAIN instance_list, Reap(k)
    PROVE  Collects(instance_list[k]) /\ InstancesTracked'
<1> /\ child' = [child EXCEPT ![instance_list[k]] = "reaped"]
    /\ instance_list' = unlinked(instance_list, k)
    /\ num_running' = num_running - 1 /\ tab' = tab
  BY Zenon DEF Reap, Collected, jobVars
<1>2. /\ instance_list \in Seq(Idx) /\ Listed = Elems(instance_list) /\ Distinct(instance_list)
      /\ num_running = Len(instance_list)
  BY Zenon DEF FsckTypes, InstancesTracked, Listed, Elems, Distinct
<1>3. /\ instance_list' \in Seq(Idx) /\ Len(instance_list') = Len(instance_list) - 1
      /\ Elems(instance_list') = Elems(instance_list) \ {instance_list[k]} /\ Distinct(instance_list')
  BY <1>2, RemoveElems, Zenon
<1>4. PICK i \in Idx : i = instance_list[k]
  BY <1>2
<1>5. Listed' = Listed \ {i} /\ i \in Listed
  BY <1>2, <1>3, <1>4, ZenonT(30) DEF Listed, Elems
<1>6. child'[i] = "reaped" /\ \A j \in Idx : j # i => child'[j] = child[j]
  BY <1>4, Zenon DEF FsckTypes
<1>7. Idx' = Idx
  BY Zenon DEF Idx
<1>8. InstancesTracked'
  <2>1. Listed' = {j \in Idx : child'[j] \in {"run", "zombie", "fake"}}
    BY <1>5, <1>6, Zenon DEF InstancesTracked
  <2>2. \A j, m \in DOMAIN instance_list' : instance_list'[j] = instance_list'[m] => j = m
    BY <1>3, Zenon DEF Distinct
  <2>3. num_running' = Len(instance_list')
    BY <1>2, <1>3, Zenon
  <2> QED BY <1>7, <2>1, <2>2, <2>3, Zenon DEF InstancesTracked
<1> QED BY <1>3, <1>4, <1>5, <1>8, Zenon DEF Collects

\* With -N, wait_one() unlinks the first instance.
LEMMA FakeCollects ==
    ASSUME FsckTypes, InstancesTracked, WaitFake
    PROVE  Collects(Head(instance_list)) /\ InstancesTracked'
<1> /\ child' = [child EXCEPT ![Head(instance_list)] = "reaped"]
    /\ instance_list # <<>> /\ instance_list' = Tail(instance_list)
    /\ num_running' = num_running - 1 /\ tab' = tab
  BY Zenon DEF WaitFake, Collected, jobVars
<1>2. /\ instance_list \in Seq(Idx) /\ Listed = Elems(instance_list) /\ Distinct(instance_list)
      /\ num_running = Len(instance_list)
  BY Zenon DEF FsckTypes, InstancesTracked, Listed, Elems, Distinct
<1>3. /\ instance_list' \in Seq(Idx) /\ Len(instance_list') = Len(instance_list) - 1
      /\ Elems(instance_list') = Elems(instance_list) \ {Head(instance_list)} /\ Distinct(instance_list')
      /\ Head(instance_list) \in Elems(instance_list)
  BY <1>2, TailElems, Zenon
<1>4. PICK i \in Idx : i = Head(instance_list)
  BY <1>2
<1>5. Listed' = Listed \ {i} /\ i \in Listed
  BY <1>2, <1>3, <1>4, ZenonT(30) DEF Listed, Elems
<1>6. child'[i] = "reaped" /\ \A j \in Idx : j # i => child'[j] = child[j]
  BY <1>4, Zenon DEF FsckTypes
<1>7. Idx' = Idx
  BY Zenon DEF Idx
<1>8. InstancesTracked'
  <2>1. Listed' = {j \in Idx : child'[j] \in {"run", "zombie", "fake"}}
    BY <1>5, <1>6, Zenon DEF InstancesTracked
  <2>2. \A j, m \in DOMAIN instance_list' : instance_list'[j] = instance_list'[m] => j = m
    BY <1>3, Zenon DEF Distinct
  <2>3. num_running' = Len(instance_list')
    BY <1>2, <1>3, Zenon
  <2> QED BY <1>7, <2>1, <2>2, <2>3, Zenon DEF InstancesTracked
<1> QED BY <1>3, <1>4, <1>5, <1>8, Zenon DEF Collects

-----------------------------------------------------------------------------
(* The kinds of steps *)

\* No checker is started, exits or is collected.
Quiet == UNCHANGED <<jobVars, instVars, child, wstat>>

\* The checker of a filesystem is started for the first time; by fsck -A, before
\* the others or when its disk is free.
Starts(i) ==
    /\ execute(i) /\ child[i] = "none" /\ UNCHANGED jobVars
    /\ \/ ~CheckingAll
       \/ instance_list = <<>>
       \/ ~disk_already_active(i) /\ evald' = evald_after(i)

Collecting == WaitFake \/ \E k \in DOMAIN instance_list : Reap(k)

\* Before any checker is started the list is empty.
LEMMA NoneStarted ==
    ASSUME FsckTypes, InstancesTracked, \A i \in Idx : child[i] = "none"
    PROVE  instance_list = <<>>
<1>1. Listed = {}
  BY Zenon DEF InstancesTracked
<1>2. instance_list \in Seq(Idx)
  BY Zenon DEF FsckTypes
<1>3. DOMAIN instance_list = {}
  BY <1>1, ZenonT(30) DEF Listed
<1> QED BY <1>2, <1>3

\* An empty list lists nothing.
LEMMA NoneListed ==
    ASSUME FsckTypes, instance_list = <<>>
    PROVE  Listed = {}
BY DEF Listed

\* Up to the last line, itr is a line of the table.
LEMMA AtLine ==
    ASSUME FsckTypes, itr <= Len(tab)
    PROVE  itr \in Idx
BY DEF FsckTypes, Idx

\* What check_all() does about the root: a report or a start, of a line that is not done.
LEMMA RootStep ==
    ASSUME Core, CheckRoot
    PROVE  \E r \in Idx : /\ ~opt.parallel_root /\ IsFirstRoot(r) /\ r \notin done
                          /\ fsck_device(r) /\ ((DeviceFails /\ Quiet) \/ Starts(r))
<1>1. PICK r \in Idx : ~opt.parallel_root /\ IsFirstRoot(r) /\ r \notin done /\ fsck_device(r)
  BY Zenon DEF CheckRoot
<1>2. UNCHANGED jobVars /\ pc = "root"
  BY Zenon DEF CheckRoot
<1>3. \A i \in Idx : child[i] = "none"
  BY <1>2, Zenon DEF Core, StartedBehind, Point, Waiting
<1>4. instance_list = <<>>
  BY <1>3, NoneStarted, Zenon DEF Core
<1>5. CASE DeviceFails
  BY <1>1, <1>2, <1>5, Zenon DEF DeviceFails, Quiet, procVars
<1>6. CASE execute(r)
  BY <1>1, <1>2, <1>3, <1>4, <1>6, Zenon DEF Starts
<1> QED BY <1>1, <1>5, <1>6, DeviceStarts, Zenon

\* What a walk does about a line it selects: a report or a start, of a line that is not done.
LEMMA SpawnStep ==
    ASSUME Core, Spawn
    PROVE  /\ itr \in Idx /\ itr \notin done /\ fsck_device(itr)
           /\ (DeviceFails /\ Quiet) \/ Starts(itr)
<1> /\ itr \notin done /\ fsck_device(itr) /\ ~disk_already_active(itr)
    /\ evald' = evald_after(itr) /\ UNCHANGED jobVars /\ pc = "fs" /\ itr <= Len(tab)
  BY Zenon DEF Spawn, IsDue, AtFs
<1>2. itr \in Idx
  BY AtLine, Zenon DEF Core
<1>3. child[itr] = "none"
  BY <1>2, Zenon DEF Core, StartedBehind, Point, Waiting, Walking
<1>4. CASE DeviceFails
  BY <1>2, <1>4, Zenon DEF DeviceFails, Quiet, procVars
<1>5. CASE execute(itr)
  BY <1>2, <1>3, <1>5, Zenon DEF Starts
<1> QED BY <1>2, <1>4, <1>5, DeviceStarts, Zenon

\* What main() does about a device argument: a report or a start.
LEMMA DeviceStepStarts ==
    ASSUME Core, SpawnDevice
    PROVE  itr \in Idx /\ fsck_device(itr) /\ ((DeviceFails /\ Quiet) \/ Starts(itr))
<1> fsck_device(itr) /\ UNCHANGED jobVars /\ pc = "dev" /\ itr <= Len(tab)
  BY Zenon DEF SpawnDevice, AtDev
<1>2. itr \in Idx /\ ~(itr < itr)
  BY AtLine DEF Core, FsckTypes
<1>3. child[itr] = "none"
  BY <1>2, Zenon DEF Core, StartedBehind, Point, Waiting
<1>4. ~CheckingAll
  BY Zenon DEF Core, Callers, Point, Waiting
<1>5. CASE DeviceFails
  BY <1>2, <1>5, Zenon DEF DeviceFails, Quiet, procVars
<1>6. CASE execute(itr)
  BY <1>2, <1>3, <1>4, <1>6, Zenon DEF Starts
<1> QED BY <1>2, <1>5, <1>6, DeviceStarts, Zenon

\* Every step starts a checker, sees one exit, collects one, or leaves the list alone.
LEMMA Kinds ==
    ASSUME Core, Next
    PROVE  Quiet \/ (\E i \in Idx : CheckerExits(i)) \/ (\E i \in Idx : Starts(i)) \/ Collecting
<1>1. CASE CheckAllStep
  <2>1. CASE CheckRoot
    BY <2>1, RootStep, Zenon
  <2>2. CASE Spawn
    BY <2>2, SpawnStep, Zenon
  <2>3. CASE InitialScan \/ RootEnd \/ SkipRootCheck \/ PassBegin \/ WalkEnd
    BY <2>3, Zenon DEF Quiet, InitialScan, RootEnd, SkipRootCheck, PassBegin, WalkEnd, procVars
  <2>4. CASE SkipDone \/ DeferPass \/ SkipMounted \/ DeferDisk
    BY <2>4, Zenon DEF Quiet, SkipDone, DeferPass, SkipMounted, DeferDisk, procVars
  <2>5. CASE WaitAfterWalk \/ PassEnd \/ AllPassesDone \/ FinalWait
    BY <2>5, Zenon DEF Quiet, WaitAfterWalk, PassEnd, AllPassesDone, FinalWait, procVars
  <2> QED BY <1>1, <2>1, <2>2, <2>3, <2>4, <2>5, Zenon DEF CheckAllStep
<1>2. CASE DeviceStep
  <2>1. CASE SpawnDevice
    BY <2>1, DeviceStepStarts, Zenon
  <2>2. CASE SkipDevice \/ DevicesEnd
    BY <2>2, Zenon DEF Quiet, SkipDevice, DevicesEnd, procVars
  <2> QED BY <1>2, <2>1, <2>2, Zenon DEF DeviceStep
<1>3. CASE WaitStep
  <2>1. CASE WaitFake \/ \E k \in DOMAIN instance_list : Reap(k)
    BY <2>1, Zenon DEF Collecting
  <2>2. CASE WaitNothing \/ EnterWait4 \/ Interrupted \/ NothingExited
    BY <2>2, Zenon DEF Quiet, WaitNothing, EnterWait4, Interrupted, NothingExited, procVars
  <2>3. CASE \E i \in Idx : ReapHelper(i)
    BY <2>3, Zenon DEF Quiet, ReapHelper
  <2> QED BY <1>3, <2>1, <2>2, <2>3, Zenon DEF WaitStep
<1>4. CASE ParseArgv \/ Signal \/ Exited
  BY <1>4, Zenon DEF Quiet, ParseArgv, Signal, Exited, vars, procVars
<1>5. CASE \E i \in Idx : CheckerExits(i) \/ HelperExits(i)
  BY <1>5, Zenon DEF Quiet, HelperExits
<1> QED BY <1>1, <1>2, <1>3, <1>4, <1>5, Zenon DEF Next, FsckStep

-----------------------------------------------------------------------------
(* Core is an invariant *)

\* execute() adds its line to the list and touches no other checker.
LEMMA StartsTracked ==
    ASSUME FsckTypes, InstancesTracked, NEW i \in Idx, Starts(i)
    PROVE  /\ InstancesTracked' /\ Listed' = Listed \union {i} /\ instance_list' \in Seq(Idx)
           /\ child' \in [Idx -> {"none", "run", "zombie", "fake", "reaped"}]
           /\ child'[i] \in {"run", "fake"} /\ \A j \in Idx : j # i => child'[j] = child[j]
           /\ \A j \in Idx : /\ opt.noexecute => child'[j] \notin {"run", "zombie"}
                             /\ ~opt.noexecute => child'[j] # "fake"
<1>1. execute(i) /\ child[i] = "none" /\ UNCHANGED <<opt, tab>>
  BY Zenon DEF Starts, jobVars
<1> QED BY <1>1, ExecuteTracks, Zenon

\* Collecting keeps the list and the checkers in step.
LEMMA CollectingTracked ==
    ASSUME FsckTypes, InstancesTracked, Collecting
    PROVE  InstancesTracked' /\ (\E i \in Idx : Collects(i)) /\ UNCHANGED <<jobVars, wstat>>
<1>1. \A i : Collects(i) => i \in Idx
  BY Zenon DEF Collects, InstancesTracked
<1>2. CASE WaitFake
  BY <1>1, <1>2, FakeCollects, Zenon DEF WaitFake
<1>3. ASSUME NEW k \in DOMAIN instance_list, Reap(k)
      PROVE  InstancesTracked' /\ (\E i \in Idx : Collects(i)) /\ UNCHANGED <<jobVars, wstat>>
  BY <1>1, <1>3, ReapCollects, ZenonT(30) DEF Reap
<1> QED BY <1>2, <1>3, Zenon DEF Collecting

\* The table, the checkers and the list keep their types and match.
LEMMA TrackedStep ==
    ASSUME Core, Next
    PROVE  /\ InstancesTracked' /\ UNCHANGED jobVars /\ instance_list' \in Seq(Idx)
           /\ child' \in [Idx -> {"none", "run", "zombie", "fake", "reaped"}]
           /\ \A i \in Idx : /\ opt.noexecute => child'[i] \notin {"run", "zombie"}
                             /\ ~opt.noexecute => child'[i] # "fake"
<1> FsckTypes /\ InstancesTracked
  BY Zenon DEF Core
<1>1. CASE Quiet
  <2>1. UNCHANGED <<opt, tab, instance_list, num_running, child>>
    BY <1>1, Zenon DEF Quiet, jobVars, instVars
  <2> QED BY <2>1 DEF InstancesTracked, FsckTypes, Listed, Idx, jobVars
<1>2. ASSUME NEW i \in Idx, CheckerExits(i)
      PROVE  /\ InstancesTracked' /\ UNCHANGED jobVars /\ instance_list' \in Seq(Idx)
             /\ child' \in [Idx -> {"none", "run", "zombie", "fake", "reaped"}]
             /\ \A j \in Idx : /\ opt.noexecute => child'[j] \notin {"run", "zombie"}
                               /\ ~opt.noexecute => child'[j] # "fake"
  <2> /\ UNCHANGED <<opt, tab, instance_list, num_running>> /\ child[i] = "run"
      /\ child' = [child EXCEPT ![i] = "zombie"]
    BY <1>2, Zenon DEF CheckerExits, jobVars, instVars
  <2>2. /\ child' \in [Idx -> {"none", "run", "zombie", "fake", "reaped"}]
        /\ child'[i] = "zombie" /\ \A j \in Idx : j # i => child'[j] = child[j]
    BY Zenon DEF FsckTypes
  <2>3. Listed' = Listed /\ Idx' = Idx
    BY Zenon DEF Listed, Idx
  <2>4. Listed' = {j \in Idx : child'[j] \in {"run", "zombie", "fake"}}
    BY <2>2, <2>3, ZenonT(30) DEF InstancesTracked
  <2>5. InstancesTracked'
    BY <2>3, <2>4, Zenon DEF InstancesTracked
  <2> QED BY <2>2, <2>5, Zenon DEF FsckTypes, jobVars
<1>3. ASSUME NEW i \in Idx, Starts(i)
      PROVE  /\ InstancesTracked' /\ UNCHANGED jobVars /\ instance_list' \in Seq(Idx)
             /\ child' \in [Idx -> {"none", "run", "zombie", "fake", "reaped"}]
             /\ \A j \in Idx : /\ opt.noexecute => child'[j] \notin {"run", "zombie"}
                               /\ ~opt.noexecute => child'[j] # "fake"
  BY <1>3, StartsTracked, Zenon DEF Starts
<1>4. CASE Collecting
  <2>1. PICK i \in Idx : Collects(i)
    BY <1>4, CollectingTracked, Zenon
  <2>2. child' = [child EXCEPT ![i] = "reaped"] /\ instance_list' \in Seq(Idx)
    BY <2>1, Zenon DEF Collects
  <2> QED BY <1>4, <2>2, CollectingTracked, Zenon DEF FsckTypes
<1> QED BY <1>1, <1>2, <1>3, <1>4, Kinds, Zenon

\* Every step keeps the types.
LEMMA TypesStep ==
    ASSUME Core, Next
    PROVE  FsckTypes'
<1> FsckTypes /\ Idx' = Idx /\ UNCHANGED <<opt, tab>>
  BY TrackedStep, Zenon DEF Core, Idx, jobVars
<1>1. itr' \in Nat \ {0} /\ passno' \in Nat /\ not_done_yet' \in BOOLEAN /\ pass_done' \in BOOLEAN
  <2> /\ itr \in Nat \ {0} /\ itr + 1 \in Nat \ {0} /\ passno \in Nat /\ passno + 1 \in Nat
      /\ not_done_yet \in BOOLEAN /\ pass_done \in BOOLEAN
    BY DEF FsckTypes
  <2>1. CASE UNCHANGED walkVars
    BY <2>1, Zenon DEF walkVars
  <2>2. CASE PassBegin \/ SkipDone \/ DeferPass \/ SkipMounted \/ DeferDisk
    <3>1. itr' \in Nat \ {0} /\ passno' \in Nat
      BY <2>2 DEF PassBegin, SkipDone, DeferPass, SkipMounted, DeferDisk
    <3>2. not_done_yet' \in BOOLEAN
      BY <2>2, Zenon DEF PassBegin, SkipDone, DeferPass, SkipMounted, DeferDisk
    <3>3. pass_done' \in BOOLEAN
      BY <2>2, Zenon DEF PassBegin, SkipDone, DeferPass, SkipMounted, DeferDisk
    <3> QED BY <3>1, <3>2, <3>3, Zenon
  <2>3. CASE Spawn \/ SkipDevice \/ SpawnDevice \/ PassEnd
    BY <2>3, ZenonT(30) DEF Spawn, SkipDevice, SpawnDevice, PassEnd
  <2>4. CASE CheckAllStep
    BY <2>1, <2>2, <2>3, <2>4, Zenon DEF CheckAllStep, InitialScan, CheckRoot, RootEnd, SkipRootCheck, WalkEnd,
                                  WaitAfterWalk, AllPassesDone, FinalWait
  <2>5. CASE DeviceStep
    BY <2>1, <2>3, <2>5, Zenon DEF DeviceStep, DevicesEnd
  <2>6. CASE WaitStep
    BY <2>1, <2>6, Zenon DEF WaitStep, WaitNothing, WaitFake, EnterWait4, Interrupted, NothingExited, Reap, ReapHelper
  <2>7. CASE ParseArgv \/ Signal \/ Exited \/ \E i \in Idx : CheckerExits(i) \/ HelperExits(i)
    BY <2>1, <2>7, Zenon DEF ParseArgv, Signal, Exited, CheckerExits, HelperExits, vars
  <2> QED BY <2>4, <2>5, <2>6, <2>7, Zenon DEF Next, FsckStep
<1>2. nohang' \in BOOLEAN
  <2> USE DEF FsckTypes, waitVars, CallWait
  <2>1. CASE CheckAllStep
    BY <2>1, Zenon DEF CheckAllStep, InitialScan, CheckRoot, RootEnd, SkipRootCheck, WalkEnd, PassBegin, SkipDone,
                      DeferPass, SkipMounted, DeferDisk, Spawn, WaitAfterWalk, PassEnd, AllPassesDone, FinalWait
  <2>2. CASE DeviceStep
    BY <2>2, ZenonT(30) DEF DeviceStep, SkipDevice, SpawnDevice, DevicesEnd
  <2>3. CASE WaitStep
    BY <2>3, ZenonT(30) DEF WaitStep, WaitNothing, WaitFake, EnterWait4, Interrupted, NothingExited, Reap, ReapHelper, Collected
  <2>4. CASE ParseArgv \/ Signal \/ Exited \/ \E i \in Idx : CheckerExits(i) \/ HelperExits(i)
    BY <2>4, Zenon DEF ParseArgv, Signal, Exited, CheckerExits, HelperExits, vars
  <2> QED BY <2>1, <2>2, <2>3, <2>4, Zenon DEF Next, FsckStep
<1>3. cancel_requested' \in BOOLEAN /\ kill_sent' \in BOOLEAN
  <2> USE DEF FsckTypes, sigVars, KillIfCanceled
  <2>1. CASE CheckAllStep
    BY <2>1, Zenon DEF CheckAllStep, InitialScan, CheckRoot, RootEnd, SkipRootCheck, WalkEnd, PassBegin, SkipDone,
                      DeferPass, SkipMounted, DeferDisk, Spawn, WaitAfterWalk, PassEnd, AllPassesDone, FinalWait
  <2>2. CASE DeviceStep
    BY <2>2, ZenonT(30) DEF DeviceStep, SkipDevice, SpawnDevice, DevicesEnd
  <2>3. CASE WaitStep
    BY <2>3, ZenonT(30) DEF WaitStep, WaitNothing, WaitFake, EnterWait4, Interrupted, NothingExited, Reap, ReapHelper
  <2>4. CASE ParseArgv \/ Signal \/ Exited \/ \E i \in Idx : CheckerExits(i) \/ HelperExits(i)
    BY <2>4, Zenon DEF ParseArgv, Signal, Exited, CheckerExits, HelperExits, vars
  <2> QED BY <2>1, <2>2, <2>3, <2>4, Zenon DEF Next, FsckStep
<1> QED BY <1>1, <1>2, <1>3, TrackedStep, Zenon DEF FsckTypes

\* The steps of wait_many() and of the environment.
Outside == Signal \/ Exited \/ \E i \in Idx : CheckerExits(i) \/ HelperExits(i)

\* The parts of Next.
LEMMA Steps ==
    ASSUME Next
    PROVE  ParseArgv \/ CheckAllStep \/ DeviceStep \/ WaitStep \/ Outside
BY Zenon DEF Next, FsckStep, Outside

\* They leave the walk where it is.
LEMMA PointStays ==
    ASSUME Core, WaitStep \/ Outside
    PROVE  Point' = Point /\ UNCHANGED <<walkVars, dataVars>>
<1>0. Waiting => ret \in {"rootend", "passend", "dev", "exit"}
  BY Zenon DEF Core, Callers
<1>1. CASE Outside
  BY <1>1, Zenon DEF Outside, Signal, Exited, CheckerExits, HelperExits, Point, Waiting, waitVars, vars
<1>2. CASE WaitNothing \/ EnterWait4 \/ Interrupted \/ NothingExited
  BY <1>0, <1>2, Zenon DEF WaitNothing, EnterWait4, Interrupted, NothingExited, ReturnFromWait, Point, Waiting, waitVars
<1>3. CASE WaitFake
  BY <1>0, <1>3, Zenon DEF WaitFake, Collected, Point, Waiting
<1>4. ASSUME NEW k \in DOMAIN instance_list, Reap(k) PROVE Point' = Point /\ UNCHANGED <<walkVars, dataVars>>
  BY <1>0, <1>4, Zenon DEF Reap, Collected, Point, Waiting
<1>5. ASSUME NEW i \in Idx, ReapHelper(i) PROVE Point' = Point /\ UNCHANGED <<walkVars, dataVars>>
  BY <1>5, Zenon DEF ReapHelper, Point, Waiting, waitVars
<1> QED BY <1>1, <1>2, <1>3, <1>4, <1>5, Zenon DEF WaitStep

\* Every step keeps wait_many() returning to a caller of its mode.
LEMMA CallersStep ==
    ASSUME Core, Next
    PROVE  Callers'
<1> Callers /\ (CheckingAll' <=> CheckingAll) /\ opt' = opt
  BY TrackedStep, Zenon DEF Core, CheckingAll, jobVars
<1>1. CASE ParseArgv
  BY <1>1, Zenon DEF ParseArgv, Callers, Point, Waiting, Walking, CheckingAll
<1>2. CASE CheckAllStep
  <2> USE DEF Callers, Point, Waiting, Walking
  <2>1. CASE InitialScan \/ RootEnd \/ SkipRootCheck \/ PassBegin \/ WalkEnd \/ PassEnd \/ AllPassesDone
    BY <2>1, ZenonT(30) DEF InitialScan, RootEnd, SkipRootCheck, PassBegin, WalkEnd, PassEnd, AllPassesDone
  <2>2. CASE SkipDone \/ DeferPass \/ SkipMounted \/ DeferDisk
    BY <2>2, Zenon DEF SkipDone, DeferPass, SkipMounted, DeferDisk, IsDue, AtFs
  <2>3. CASE Spawn
    BY <2>3, Zenon DEF Spawn, IsDue, AtFs
  <2>4. CASE CheckRoot
    BY <2>4, Zenon DEF CheckRoot, CallWait
  <2>5. CASE WaitAfterWalk
    BY <2>5, Zenon DEF WaitAfterWalk, CallWait, walkVars
  <2>6. CASE FinalWait
    BY <2>6, Zenon DEF FinalWait, CallWait
  <2> QED BY <1>2, <2>1, <2>2, <2>3, <2>4, <2>5, <2>6, ZenonT(30) DEF CheckAllStep
<1>3. CASE DeviceStep
  <2> USE DEF Callers, Point, Waiting, Walking
  <2>1. CASE SkipDevice
    BY <2>1, Zenon DEF SkipDevice, AtDev
  <2>2. CASE SpawnDevice
    BY <2>2, Zenon DEF SpawnDevice, AtDev, CallWait
  <2>3. CASE DevicesEnd
    BY <2>3, Zenon DEF DevicesEnd, CallWait
  <2> QED BY <1>3, <2>1, <2>2, <2>3, Zenon DEF DeviceStep
<1>4. CASE WaitStep \/ Outside
  <2>1. Point' = Point /\ pass_done' = pass_done
    BY <1>4, PointStays, ZenonT(30) DEF walkVars
  <2>2. /\ pc' \in {"start", "scan", "root", "rootend", "dev", "wait", "wait4", "exit"} \union Walking
        /\ Waiting' => Waiting /\ wflags' = wflags /\ ret' = ret /\ (nohang' => nohang \/ wflags = "one")
    <3> USE DEF Waiting
    <3>1. CASE Outside
      BY <1>4, <3>1 DEF Callers, Outside, Signal, Exited, CheckerExits, HelperExits, waitVars, vars
    <3>2. CASE WaitNothing \/ EnterWait4 \/ Interrupted \/ NothingExited
      BY <3>2 DEF Callers, Walking, WaitNothing, EnterWait4, Interrupted, NothingExited, ReturnFromWait, waitVars
    <3>3. CASE WaitFake
      BY <3>3, ZenonT(30) DEF Callers, Walking, WaitFake, Collected
    <3>4. ASSUME NEW k \in DOMAIN instance_list, Reap(k)
          PROVE  /\ pc' \in {"start", "scan", "root", "rootend", "dev", "wait", "wait4", "exit"} \union Walking
                 /\ Waiting' => Waiting /\ wflags' = wflags /\ ret' = ret /\ (nohang' => nohang \/ wflags = "one")
      BY <3>4, ZenonT(30) DEF Callers, Walking, Reap, Collected
    <3>5. ASSUME NEW i \in Idx, ReapHelper(i)
          PROVE  /\ pc' \in {"start", "scan", "root", "rootend", "dev", "wait", "wait4", "exit"} \union Walking
                 /\ Waiting' => Waiting /\ wflags' = wflags /\ ret' = ret /\ (nohang' => nohang \/ wflags = "one")
      BY <3>5, Zenon DEF Callers, ReapHelper, waitVars
    <3> HIDE DEF Waiting
    <3> QED BY <1>4, <3>1, <3>2, <3>3, <3>4, <3>5, ZenonT(30) DEF WaitStep
  <2> QED BY <2>1, <2>2, Zenon DEF Callers
<1> QED BY <1>1, <1>2, <1>3, <1>4, Steps, Zenon

\* What the steps of wait_many() and the environment do to the checkers.
LEMMA ChildStays ==
    ASSUME Core, WaitStep \/ Outside
    PROVE  /\ \A i \in Idx : child'[i] = "none" <=> child[i] = "none"
           /\ Listed' \subseteq Listed
<1>0. FsckTypes /\ InstancesTracked
  BY Zenon DEF Core
<1>1. CASE UNCHANGED <<child, instance_list>>
  BY <1>1, Zenon DEF Listed
<1>2. CASE Collecting
  <2>1. PICK i \in Idx : Collects(i)
    BY <1>0, <1>2, CollectingTracked, Zenon
  <2>2. /\ i \in Listed /\ child' = [child EXCEPT ![i] = "reaped"] /\ Listed' \subseteq Listed
    BY <2>1, Zenon DEF Collects
  <2>3. child[i] # "none"
    BY <1>0, <2>2, Zenon DEF InstancesTracked
  <2> QED BY <1>0, <2>2, <2>3, Zenon DEF FsckTypes
<1>3. ASSUME NEW i \in Idx, CheckerExits(i)
      PROVE  /\ \A j \in Idx : child'[j] = "none" <=> child[j] = "none"
             /\ Listed' \subseteq Listed
  <2>1. child[i] = "run" /\ child' = [child EXCEPT ![i] = "zombie"] /\ instance_list' = instance_list
    BY <1>3, Zenon DEF CheckerExits, instVars
  <2> QED BY <1>0, <2>1, Zenon DEF FsckTypes, Listed
<1>4. CASE WaitStep
  BY <1>1, <1>2, <1>4, ZenonT(30) DEF WaitStep, Collecting, WaitNothing, EnterWait4, Interrupted, NothingExited, ReapHelper,
                          instVars, procVars
<1>5. CASE Outside
  BY <1>1, <1>3, <1>5, Zenon DEF Outside, Signal, Exited, HelperExits, instVars, procVars, vars
<1> QED BY <1>4, <1>5, Zenon

\* No checker is started ahead of the point that check_all() has come to.
LEMMA StartedStep ==
    ASSUME Core, Next
    PROVE  StartedBehind'
<1> FsckTypes /\ StartedBehind /\ InstancesTracked /\ opt' = opt /\ tab' = tab /\ Idx' = Idx /\ Roots' = Roots
  BY TrackedStep, Zenon DEF Core, jobVars, Idx, Roots
<1>1. \A i : IsFirstRoot(i)' <=> IsFirstRoot(i)
  BY Zenon DEF IsFirstRoot
<1>2. CASE WaitStep \/ Outside
  <2>1. Point' = Point /\ done' = done /\ itr' = itr
    BY <1>2, PointStays, Zenon DEF walkVars, dataVars
  <2>2. \A i \in Idx : child'[i] = "none" <=> child[i] = "none"
    BY <1>2, ChildStays, Zenon
  <2> QED BY <1>1, <2>1, <2>2, Zenon DEF StartedBehind
<1>3. CASE ParseArgv
  <2>1. Point = "start" /\ Point' \in {"exit", "dev", "scan"} /\ child' = child
    BY <1>3, Zenon DEF ParseArgv, Point, Waiting, procVars
  <2> QED BY <2>1, Zenon DEF StartedBehind, Walking
<1>4. CASE DeviceStep
  <2>0. Point = "dev" /\ ~(itr < itr) /\ itr < itr + 1 /\ \A i \in Idx : i < itr => i < itr + 1
    BY <1>4 DEF DeviceStep, SkipDevice, SpawnDevice, DevicesEnd, AtDev, Point, Waiting, FsckTypes, Idx
  <2>1. CASE SkipDevice
    <3>1. Point' = "dev" /\ itr' = itr + 1 /\ child' = child
      BY <2>0, <2>1, Zenon DEF SkipDevice, AtDev, Point, Waiting, procVars
    <3> QED BY <2>0, <3>1, Zenon DEF StartedBehind, Walking
  <2>2. CASE DevicesEnd
    <3>1. Point' = "exit"
      BY <2>2, Zenon DEF DevicesEnd, CallWait, Point, Waiting
    <3> QED BY <3>1, Zenon DEF StartedBehind, Walking
  <2>3. CASE SpawnDevice
    <3>1. Point' = "dev" /\ itr' = itr + 1
      BY <2>0, <2>3, Zenon DEF SpawnDevice, AtDev, CallWait, Point, Waiting
    <3>2. itr \in Idx /\ \A j \in Idx : j # itr => child'[j] = child[j]
      BY <2>3, DeviceStepStarts, StartsTracked, ZenonT(30) DEF Quiet
    <3> QED BY <2>0, <3>1, <3>2, ZenonT(30) DEF StartedBehind, Walking
  <2> QED BY <1>4, <2>1, <2>2, <2>3, ZenonT(30) DEF DeviceStep
<1>5. CASE CheckAllStep
  <2>1. CASE InitialScan
    <3>1. Point = "scan" /\ Point' = "root" /\ child' = child
      BY <2>1, Zenon DEF InitialScan, Point, Waiting, procVars
    <3> QED BY <3>1, Zenon DEF StartedBehind, Walking
  <2>2. CASE CheckRoot
    <3>1. Point = "root" /\ Point' = "rootend"
      BY <2>2, Zenon DEF CheckRoot, CallWait, Point, Waiting
    <3>2. PICK r \in Idx : ~opt.parallel_root /\ IsFirstRoot(r) /\ (Quiet \/ Starts(r))
      BY <2>2, RootStep, ZenonT(30)
    <3>3. \A j \in Idx : j # r => child'[j] = child[j]
      BY <3>2, StartsTracked, Zenon DEF Quiet
    <3> QED BY <1>1, <3>1, <3>2, <3>3, ZenonT(30) DEF StartedBehind, Walking
  <2>3. CASE RootEnd
    <3>1. Point = "rootend" /\ child' = child /\ Point' \in {"pass", "exit"}
      BY <2>3, Zenon DEF RootEnd, Point, Waiting, procVars
    <3>2. Point' = "pass" => done' = AfterRoot(done \union {r \in Idx : IsFirstRoot(r)})
      BY <2>3, Zenon DEF RootEnd, Point, Waiting
    <3>3. Point' = "pass" => \A r \in Idx : IsFirstRoot(r) => r \in done'
      BY <3>2, Zenon DEF AfterRoot
    <3> QED BY <3>1, <3>3, Zenon DEF StartedBehind, Walking
  <2>4. CASE SkipRootCheck
    <3>1. Point = "root" /\ child' = child /\ Point' = "pass"
      BY <2>4, Zenon DEF SkipRootCheck, Point, Waiting, procVars
    <3> QED BY <3>1, Zenon DEF StartedBehind, Walking
  <2>5. CASE Spawn
    <3>1. Point = "fs" /\ Point' \in {"fs", "walked"} /\ done' = done \union {itr}
      BY <2>5, Zenon DEF Spawn, IsDue, AtFs, Point, Waiting
    <3>2. itr \in Idx /\ \A j \in Idx : j # itr => child'[j] = child[j]
      BY <2>5, SpawnStep, StartsTracked, Zenon DEF Quiet
    <3> QED BY <3>1, <3>2, Zenon DEF StartedBehind, Walking
  <2>6. CASE PassBegin \/ WalkEnd \/ PassEnd \/ AllPassesDone
    <3>1. Point \in Walking /\ Point' \in Walking /\ child' = child /\ done' = done
      BY <2>6, Zenon DEF PassBegin, WalkEnd, PassEnd, AllPassesDone, Point, Waiting, Walking, procVars, dataVars
    <3> QED BY <3>1, Zenon DEF StartedBehind, Walking
  <2>7. CASE SkipDone \/ DeferPass \/ SkipMounted \/ DeferDisk
    <3>1. Point = "fs" /\ Point' = "fs" /\ child' = child /\ done \subseteq done'
      BY <2>7, Zenon DEF SkipDone, DeferPass, SkipMounted, DeferDisk, IsDue, AtFs, Point, Waiting, procVars, dataVars
    <3> QED BY <3>1, Zenon DEF StartedBehind, Walking
  <2>8. CASE WaitAfterWalk
    <3>1. Point = "walked" /\ Point' \in {"final", "passend"} /\ child' = child /\ done' = done
      BY <2>8, ZenonT(30) DEF WaitAfterWalk, CallWait, Point, Waiting, procVars, dataVars
    <3> QED BY <3>1, Zenon DEF StartedBehind, Walking
  <2>9. CASE FinalWait
    <3>1. Point' = "exit"
      BY <2>9, Zenon DEF FinalWait, CallWait, Point, Waiting
    <3> QED BY <3>1, Zenon DEF StartedBehind, Walking
  <2> QED BY <1>5, <2>1, <2>2, <2>3, <2>4, <2>5, <2>6, <2>7, <2>8, <2>9, ZenonT(30) DEF CheckAllStep
<1> QED BY <1>2, <1>3, <1>4, <1>5, Steps, ZenonT(30)

\* Core holds when main() begins.
LEMMA CoreInit ==
    ASSUME Init
    PROVE  Core
<1>1. opt \in Opt /\ tab \in Seq(Entry)
  BY JobsAssumption, Zenon DEF Init
<1> /\ instance_list = <<>> /\ num_running = 0 /\ child = [i \in Idx |-> "none"]
    /\ pc = "start" /\ itr = 1 /\ passno = 1
  BY Zenon DEF Init
<1>3. FsckTypes
  <2>1. itr \in Nat \ {0} /\ passno \in Nat
    OBVIOUS
  <2>2. instance_list \in Seq(Idx)
    OBVIOUS
  <2>3. /\ not_done_yet \in BOOLEAN /\ pass_done \in BOOLEAN /\ nohang \in BOOLEAN
        /\ cancel_requested \in BOOLEAN /\ kill_sent \in BOOLEAN
    BY ZenonT(30) DEF Init
  <2> QED BY <1>1, <2>1, <2>2, <2>3, ZenonT(30) DEF FsckTypes
<1>4. Callers
  BY Zenon DEF Callers, Point, Waiting
<1>5. StartedBehind
  BY Zenon DEF StartedBehind, Point, Waiting, Walking
<1>6. InstancesTracked
  <2>1. Len(instance_list) = 0 /\ Listed = {}
    BY DEF Listed
  <2>2. \A i \in Idx : child[i] = "none"
    BY Zenon
  <2> QED BY <2>1, <2>2 DEF InstancesTracked
<1> QED BY <1>3, <1>4, <1>5, <1>6, ZenonT(30) DEF Core

\* Every step keeps Core.
LEMMA CoreStep ==
    ASSUME Core, [Next]_vars
    PROVE  Core'
<1>1. CASE Next
  BY <1>1, TypesStep, CallersStep, StartedStep, TrackedStep, Zenon DEF Core
<1>2. CASE UNCHANGED vars
  <2> USE <1>2 DEF vars, jobVars, walkVars, instVars, waitVars, procVars, sigVars, dataVars
  <2>1. Idx' = Idx /\ Roots' = Roots /\ Point' = Point /\ (Waiting' <=> Waiting) /\ (CheckingAll' <=> CheckingAll) /\ Listed' = Listed
    BY Zenon DEF Idx, Roots, Point, Waiting, CheckingAll, Listed
  <2>2. \A i : IsFirstRoot(i)' <=> IsFirstRoot(i)
    BY <2>1, Zenon DEF IsFirstRoot
  <2>3. FsckTypes' /\ InstancesTracked'
    BY <2>1, ZenonT(30) DEF Core, FsckTypes, InstancesTracked
  <2>4. Callers'
    BY <2>1 DEF Core, Callers
  <2>5. StartedBehind'
    BY <2>1, <2>2, Zenon DEF Core, StartedBehind
  <2> QED BY <2>3, <2>4, <2>5, Zenon DEF Core
<1> QED BY <1>1, <1>2, Zenon

\* For every table and every set of options: the types, the bookkeeping of
\* instance_list, the callers of wait_many() and the reach of check_all().
THEOREM CoreAlways == Spec => []Core
<1>1. Init => Core
  BY CoreInit, Zenon
<1>2. Core /\ [Next]_vars => Core'
  BY CoreStep, Zenon
<1> QED BY <1>1, <1>2, PTL DEF Spec

\* For every table and every order of exits and signals, instance_list holds the
\* checkers that execute() started and wait_one() has not collected, each once.
THEOREM InstancesTrackedAlways == Spec => []InstancesTracked
<1>1. Core => InstancesTracked
  BY Zenon DEF Core
<1> QED BY <1>1, CoreAlways, PTL

-----------------------------------------------------------------------------
(* Disks *)

\* The first instance is listed.
LEMMA HeadListed ==
    ASSUME FsckTypes, instance_list # <<>>
    PROVE  Head(instance_list) \in Listed
<1>1. instance_list \in Seq(Idx)
  BY Zenon DEF FsckTypes
<1>2. Head(instance_list) = instance_list[1] /\ 1 \in DOMAIN instance_list
  BY <1>1
<1> QED BY <1>2, Zenon DEF Listed

\* A checker that disk_already_active() lets through shares no disk.
LEMMA FreeDisk ==
    ASSUME FsckTypes, InstancesTracked, DiskExclusive, CheckingAll, ~opt.force_all_parallel,
           NEW i \in Idx, ~disk_already_active(i), NEW j \in Listed
    PROVE  /\ tab[i].disk # tab[j].disk /\ tab[i].disk # 0 /\ ~tab[i].stacked
           /\ tab[j].disk # 0 /\ ~tab[j].stacked
<1>1. instance_list # <<>>
  BY DEF Listed
<1>2. /\ ~stacked_active /\ tab[i].disk # 0 /\ ~tab[i].stacked
      /\ known_disk(j) # 0 /\ known_disk(j) # tab[i].disk
  BY <1>1, Zenon DEF disk_already_active
<1>3. j \in evald /\ tab[j].disk # 0 /\ tab[j].disk # tab[i].disk
  BY <1>2, Zenon DEF known_disk
<1>4. Head(instance_list) \in Listed
  BY <1>1, HeadListed, Zenon
<1>5. CASE j = Head(instance_list)
  <2>1. ~known_stacked(j)
    BY <1>1, <1>2, <1>5, Zenon DEF stacked_active
  <2> QED BY <1>2, <1>3, <2>1, Zenon DEF known_stacked
<1>6. CASE j # Head(instance_list)
  BY <1>2, <1>3, <1>4, <1>6, Zenon DEF DiskExclusive
<1> QED BY <1>5, <1>6, Zenon

\* Every step keeps a disk to one checker.
LEMMA DiskStep ==
    ASSUME Core, DiskExclusive, [Next]_vars
    PROVE  DiskExclusive'
<1>0. FsckTypes /\ InstancesTracked
  BY Zenon DEF Core
<1>1. CASE Listed' \subseteq Listed /\ UNCHANGED jobVars
  BY <1>1, Zenon DEF DiskExclusive, CheckingAll, jobVars
<1>2. ASSUME NEW i \in Idx, Starts(i) PROVE DiskExclusive'
  <2>1. Listed' = Listed \union {i} /\ opt' = opt /\ tab' = tab
    BY <1>0, <1>2, StartsTracked, Zenon DEF Starts, jobVars
  <2>2. CASE CheckingAll /\ ~opt.force_all_parallel
    <3>1. CASE Listed = {}
      BY <2>1, <3>1, ZenonT(30) DEF DiskExclusive
    <3>2. CASE Listed # {}
      <4>1. instance_list # <<>>
        BY <1>0, <3>2, NoneListed, Zenon
      <4>2. ~disk_already_active(i)
        BY <1>2, <2>2, <4>1, Zenon DEF Starts
      <4>3. \A j \in Listed : /\ tab[i].disk # tab[j].disk /\ tab[i].disk # 0 /\ ~tab[i].stacked
                              /\ tab[j].disk # 0 /\ ~tab[j].stacked
        BY <1>0, <2>2, <4>2, FreeDisk, Zenon
      <4> QED BY <2>1, <2>2, <4>3 DEF DiskExclusive
    <3> QED BY <3>1, <3>2, Zenon
  <2>3. CASE ~(CheckingAll /\ ~opt.force_all_parallel)
    BY <2>1, <2>3, Zenon DEF DiskExclusive, CheckingAll
  <2> QED BY <2>2, <2>3, Zenon
<1>3. CASE Quiet \/ UNCHANGED vars
  BY <1>1, <1>3, Zenon DEF Quiet, vars, instVars, Listed
<1>4. CASE \E i \in Idx : CheckerExits(i)
  BY <1>1, <1>4, Zenon DEF CheckerExits, instVars, Listed
<1>5. CASE Collecting
  BY <1>0, <1>1, <1>5, CollectingTracked, Zenon DEF Collects
<1> QED BY <1>2, <1>3, <1>4, <1>5, Kinds, ZenonT(30)

\* For every table: what disk_already_active() lets start together shares no disk,
\* and a stacked device, or one of unknown disk, runs alone.
THEOREM DiskExclusiveAlways == Spec => []DiskExclusive
<1>1. Init => DiskExclusive
  BY DEF Init, DiskExclusive, Listed
<1>2. Core /\ DiskExclusive /\ [Next]_vars => DiskExclusive'
  BY DiskStep, Zenon
<1> QED BY <1>1, <1>2, CoreAlways, PTL DEF Spec

-----------------------------------------------------------------------------
(* The progress bar *)

Ext == {i \in Listed : ShowsProgress(i)}

\* ProgressBar, and without -C there is no bar.
BarOwned ==
    ~opt.noexecute =>
        /\ progress \subseteq Ext
        /\ opt.progress /\ Ext # {} => \E i \in Ext : progress = {i}
        /\ ~opt.progress => progress = {}

\* execute() hands FLAG_PROGRESS to one owner at most.
LEMMA BarStarts ==
    ASSUME FsckTypes, InstancesTracked, BarOwned, NEW i \in Idx, Starts(i)
    PROVE  BarOwned'
<1> Listed' = Listed \union {i} /\ opt' = opt /\ tab' = tab
  BY StartsTracked, Zenon DEF Starts, jobVars
<1>2. progress' = IF opt.progress /\ ShowsProgress(i) /\ progress = {} THEN progress \union {i} ELSE progress
  BY Zenon DEF Starts, execute
<1>3. \A j : ShowsProgress(j)' <=> ShowsProgress(j)
  BY ZenonT(30) DEF ShowsProgress, checker_type, fs_interpret_type
<1>4. Ext' = IF ShowsProgress(i) THEN Ext \union {i} ELSE Ext
  BY <1>3, Zenon DEF Ext
<1>5. CASE opt.noexecute
  BY <1>5, Zenon DEF BarOwned
<1>6. CASE ~opt.noexecute /\ ~opt.progress
  BY <1>2, <1>4, <1>6, Zenon DEF BarOwned
<1>7. CASE ~opt.noexecute /\ opt.progress
  <2>1. CASE Ext = {}
    BY <1>2, <1>4, <1>7, <2>1, Zenon DEF BarOwned
  <2>2. CASE Ext # {}
    <3>1. PICK j \in Ext : progress = {j}
      BY <1>7, <2>2, Zenon DEF BarOwned
    <3>2. progress' = {j} /\ j \in Ext'
      BY <1>2, <1>4, <3>1, Zenon
    <3> QED BY <1>7, <3>2, Zenon DEF BarOwned
  <2> QED BY <2>1, <2>2, Zenon
<1> QED BY <1>5, <1>6, <1>7, Zenon

\* wait_one() passes FLAG_PROGRESS on only when its owner is gone.
LEMMA BarReap ==
    ASSUME FsckTypes, InstancesTracked, BarOwned, NEW k \in DOMAIN instance_list, Reap(k)
    PROVE  BarOwned'
<1> opt' = opt /\ tab' = tab /\ HandOver(instance_list[k], instance_list')
  BY Zenon DEF Reap, jobVars
<1>2. PICK i : i = instance_list[k]
  BY Zenon
<1>3. Listed' = Listed \ {i} /\ i \in Listed
  BY <1>2, ReapCollects, Zenon DEF Collects
<1>4. \A j : ShowsProgress(j)' <=> ShowsProgress(j)
  BY ZenonT(30) DEF ShowsProgress, checker_type, fs_interpret_type
<1>5. Ext' = Ext \ {i}
  BY <1>3, <1>4, Zenon DEF Ext
<1> DEFINE heirs == {m \in DOMAIN instance_list' : ShowsProgress(instance_list'[m])}
<1>6. Listed' = {instance_list'[m] : m \in DOMAIN instance_list'}
  BY Zenon DEF Listed
<1>7. Ext' = {instance_list'[m] : m \in heirs}
  BY <1>4, <1>6, Zenon DEF Ext
<1>8. /\ progress = {i} /\ heirs # {} => \E m \in heirs : progress' = {instance_list'[m]}
      /\ ~(progress = {i} /\ heirs # {}) => progress' = progress \ {i}
  BY <1>2, Zenon DEF HandOver
<1> HIDE DEF heirs
<1>9. CASE opt.noexecute
  BY <1>9, Zenon DEF BarOwned
<1>10. CASE ~opt.noexecute /\ ~opt.progress
  <2>1. progress = {}
    BY <1>10, Zenon DEF BarOwned
  <2>2. progress' = {}
    BY <1>8, <2>1, Zenon
  <2> QED BY <1>10, <2>2, Zenon DEF BarOwned
<1>11. CASE ~opt.noexecute /\ opt.progress
  <2> USE <1>11
  <2>1. CASE progress = {i} /\ heirs # {}
    <3>1. PICK m \in heirs : progress' = {instance_list'[m]}
      BY <1>8, <2>1, Zenon
    <3>2. PICK j \in Ext' : progress' = {j}
      BY <1>7, <3>1, Zenon
    <3> QED BY <3>2, Zenon DEF BarOwned
  <2>2. CASE progress = {i} /\ heirs = {}
    <3>1. Ext' = {} /\ progress' = {}
      BY <1>7, <1>8, <2>2, Zenon
    <3> QED BY <3>1, Zenon DEF BarOwned
  <2>3. CASE progress # {i}
    <3>1. progress' = progress \ {i}
      BY <1>8, <2>3, Zenon
    <3>2. CASE Ext = {}
      <4>1. progress' = {} /\ Ext' = {}
        BY <1>5, <3>1, <3>2, Zenon DEF BarOwned
      <4> QED BY <4>1, Zenon DEF BarOwned
    <3>3. CASE Ext # {}
      <4>1. PICK j \in Ext : progress = {j}
        BY <3>3, Zenon DEF BarOwned
      <4>2. progress' = {j} /\ j \in Ext'
        BY <1>5, <2>3, <3>1, <4>1, Zenon
      <4> QED BY <4>2, Zenon DEF BarOwned
    <3> QED BY <3>2, <3>3, Zenon
  <2> QED BY <2>1, <2>2, <2>3, Zenon
<1> QED BY <1>9, <1>10, <1>11, Zenon

\* Every step keeps the owner of the progress bar.
LEMMA BarStep ==
    ASSUME Core, BarOwned, [Next]_vars
    PROVE  BarOwned'
<1>0. FsckTypes /\ InstancesTracked
  BY Zenon DEF Core
<1>1. CASE UNCHANGED <<jobVars, instVars>>
  <2>1. opt' = opt /\ tab' = tab /\ Listed' = Listed /\ progress' = progress
    BY <1>1, Zenon DEF jobVars, instVars, Listed
  <2>2. \A j : ShowsProgress(j)' <=> ShowsProgress(j)
    BY <2>1, ZenonT(30) DEF ShowsProgress, checker_type, fs_interpret_type
  <2>3. Ext' = Ext
    BY <2>1, <2>2, Zenon DEF Ext
  <2> QED BY <2>1, <2>3, Zenon DEF BarOwned
<1>2. CASE Quiet \/ UNCHANGED vars \/ \E i \in Idx : CheckerExits(i)
  BY <1>1, <1>2, Zenon DEF Quiet, vars, CheckerExits
<1>3. CASE WaitFake
  BY <1>3, Zenon DEF WaitFake, BarOwned, jobVars
<1> QED BY <1>0, <1>2, <1>3, BarStarts, BarReap, Kinds, Zenon DEF Collecting

\* For every table: with -C, whenever ext* checkers run, exactly one of them has
\* the bar, and wait_one() hands it to a checker that still runs.
THEOREM ProgressBarAlways == Spec => []ProgressBar
<1>1. Init => BarOwned
  BY DEF Init, BarOwned, Ext, Listed
<1>2. Core /\ BarOwned /\ [Next]_vars => BarOwned'
  BY BarStep, Zenon
<1>3. BarOwned => ProgressBar
  BY Zenon DEF BarOwned, Ext, ProgressBar
<1> QED BY <1>1, <1>2, <1>3, CoreAlways, PTL DEF Spec

-----------------------------------------------------------------------------
(* Cancellation *)

\* The cancellation is forwarded only where nothing is started any more.
Cancels ==
    /\ kill_sent => cancel_requested
    /\ Point \in {"start", "scan", "root"} => ~kill_sent
    /\ CancelReachesAll

\* kill_all() after a cancel reaches every listed checker.
LEMMA CancelForwarded ==
    ASSUME Core, Cancels, KillIfCanceled, Listed' \subseteq Listed, UNCHANGED <<opt, cancel_requested>>,
           Point' \notin {"start", "scan", "root"}
    PROVE  Cancels'
<1>1. CASE UNCHANGED <<termed, kill_sent>>
  BY <1>1, Zenon DEF Cancels, CancelReachesAll
<1>2. CASE cancel_requested /\ kill_all /\ kill_sent' = TRUE
  <2>1. ~opt.noexecute => \A i \in Listed : child[i] # "fake"
    BY Zenon DEF Core, FsckTypes, InstancesTracked
  <2>2. ~opt.noexecute => Listed' \subseteq termed'
    BY <1>2, <2>1, Zenon DEF kill_all
  <2> QED BY <1>2, <2>2, Zenon DEF Cancels, CancelReachesAll
<1> QED BY <1>1, <1>2, ZenonT(30) DEF KillIfCanceled

\* Every step keeps Cancels.
LEMMA CancelStep ==
    ASSUME Core, Cancels, [Next]_vars
    PROVE  Cancels'
<1>0. FsckTypes /\ InstancesTracked /\ Callers
  BY Zenon DEF Core
<1>1. CASE /\ Listed' \subseteq Listed /\ UNCHANGED <<opt, termed, kill_sent>> /\ (cancel_requested => cancel_requested')
           /\ Point' \in {"start", "scan", "root"} => Point \in {"start", "scan", "root"}
  BY <1>1, Zenon DEF Cancels, CancelReachesAll
<1>2. CASE /\ ~kill_sent /\ kill_sent' = kill_sent
  BY <1>2, Zenon DEF Cancels, CancelReachesAll
<1>3. CASE UNCHANGED vars
  <2>1. Listed' = Listed /\ Point' = Point
    BY <1>3, Zenon DEF vars, Listed, Point, Waiting, instVars, waitVars
  <2> QED BY <1>1, <1>3, <2>1, Zenon DEF vars, sigVars, jobVars
<1>4. CASE WaitStep \/ Outside
  <2>1. Listed' \subseteq Listed /\ Point' = Point /\ opt' = opt
    <3>1. Next
      BY <1>4, Zenon DEF Next, FsckStep, Outside
    <3> QED BY <1>4, <3>1, ChildStays, PointStays, TrackedStep, Zenon DEF jobVars
  <2>2. CASE pc = "wait4" /\ KillIfCanceled /\ UNCHANGED cancel_requested
    <3>1. Point \notin {"start", "scan", "root"}
      BY <1>0, <2>2, Zenon DEF Callers, Point, Waiting
    <3> QED BY <2>1, <2>2, <3>1, CancelForwarded, Zenon
  <2>3. CASE UNCHANGED <<termed, kill_sent>> /\ (cancel_requested => cancel_requested')
    BY <1>1, <2>1, <2>3, Zenon
  <2>4. CASE Outside
    BY <2>3, <2>4 DEF Outside, Signal, Exited, CheckerExits, HelperExits, sigVars, vars
  <2>5. CASE WaitNothing \/ WaitFake \/ EnterWait4
    BY <2>3, <2>5, Zenon DEF WaitNothing, WaitFake, EnterWait4, sigVars
  <2>6. CASE Interrupted \/ NothingExited
    BY <2>2, <2>6, Zenon DEF Interrupted, NothingExited
  <2>7. CASE (\E k \in DOMAIN instance_list : Reap(k)) \/ \E i \in Idx : ReapHelper(i)
    BY <2>2, <2>7, Zenon DEF Reap, ReapHelper
  <2> QED BY <1>4, <2>4, <2>5, <2>6, <2>7, Zenon DEF WaitStep
<1>5. CASE ParseArgv
  <2>1. ~kill_sent /\ kill_sent' = kill_sent
    BY <1>5, Zenon DEF ParseArgv, Cancels, Point, Waiting, sigVars
  <2> QED BY <1>2, <2>1, Zenon
<1>6. CASE CheckAllStep
  <2>1. CASE InitialScan \/ CheckRoot \/ SkipRootCheck
    <3>1. ~kill_sent /\ kill_sent' = kill_sent
      BY <2>1, Zenon DEF InitialScan, CheckRoot, SkipRootCheck, Cancels, Point, Waiting, sigVars
    <3> QED BY <1>2, <3>1, Zenon
  <2>2. CASE Spawn
    <3>1. ~kill_sent /\ kill_sent' = kill_sent
      BY <1>0, <2>2, Zenon DEF Spawn, IsDue, AtFs, Cancels, sigVars
    <3> QED BY <1>2, <3>1, Zenon
  <2>3. CASE FinalWait
    <3>1. KillIfCanceled /\ Listed' = Listed /\ UNCHANGED <<opt, cancel_requested>> /\ Point' = "exit"
      BY <2>3, Zenon DEF FinalWait, CallWait, Point, Waiting, Listed, instVars, jobVars
    <3> QED BY <3>1, CancelForwarded, Zenon
  <2>4. CASE RootEnd \/ PassBegin \/ WalkEnd \/ PassEnd \/ AllPassesDone \/ WaitAfterWalk
    <3>1. Listed' = Listed /\ UNCHANGED <<opt, sigVars>> /\ Point' \in Walking \union {"exit"}
      BY <2>4, Zenon DEF RootEnd, PassBegin, WalkEnd, PassEnd, AllPassesDone, WaitAfterWalk, CallWait, Point, Waiting,
                  Listed, Walking, instVars, jobVars
    <3> QED BY <1>1, <3>1, Zenon DEF Walking, sigVars
  <2>5. CASE SkipDone \/ DeferPass \/ SkipMounted \/ DeferDisk
    <3>1. Listed' = Listed /\ UNCHANGED <<opt, sigVars>> /\ Point' = "fs"
      BY <2>5, Zenon DEF SkipDone, DeferPass, SkipMounted, DeferDisk, IsDue, AtFs, Point, Waiting, Listed, instVars, jobVars
    <3> QED BY <1>1, <3>1, Zenon DEF sigVars
  <2> QED BY <1>6, <2>1, <2>2, <2>3, <2>4, <2>5, ZenonT(30) DEF CheckAllStep
<1>7. CASE DeviceStep
  <2>1. CASE SpawnDevice
    <3>1. ~kill_sent /\ kill_sent' = kill_sent
      BY <1>0, <2>1, Zenon DEF SpawnDevice, AtDev, Cancels, sigVars
    <3> QED BY <1>2, <3>1, Zenon
  <2>2. CASE SkipDevice
    <3>1. Listed' = Listed /\ UNCHANGED <<opt, sigVars>> /\ Point' = "dev"
      BY <2>2, Zenon DEF SkipDevice, AtDev, Point, Waiting, Listed, instVars, jobVars
    <3> QED BY <1>1, <3>1, Zenon DEF sigVars
  <2>3. CASE DevicesEnd
    <3>1. /\ KillIfCanceled \/ UNCHANGED <<termed, kill_sent>>
          /\ Listed' = Listed /\ UNCHANGED <<opt, cancel_requested>> /\ Point' = "exit"
      BY <2>3, ZenonT(30) DEF DevicesEnd, CallWait, Point, Waiting, Listed, instVars, jobVars
    <3> QED BY <1>1, <3>1, CancelForwarded, Zenon
  <2> QED BY <1>7, <2>1, <2>2, <2>3, ZenonT(30) DEF DeviceStep
<1> QED BY <1>3, <1>4, <1>5, <1>6, <1>7, Steps, Zenon

\* Whenever SIGINT or SIGTERM arrives, and whatever runs by then: after kill_all()
\* no checker is in the list that was not sent SIGTERM.
THEOREM CancelReachesAllAlways == Spec => []CancelReachesAll
<1>1. Init => Cancels
  BY Zenon DEF Init, Cancels, CancelReachesAll
<1>2. Core /\ Cancels /\ [Next]_vars => Cancels'
  BY CancelStep, Zenon
<1>3. Cancels => CancelReachesAll
  BY Zenon DEF Cancels
<1> QED BY <1>1, <1>2, <1>3, CoreAlways, PTL DEF Spec

-----------------------------------------------------------------------------
(* Nothing left behind *)

\* A wait for all, and the wait of an fsck -A that ends uncanceled, leaves no instance.
Settled ==
    /\ pc = "rootend" => instance_list = <<>>
    /\ pc = "passend" /\ pass_done => instance_list = <<>>
    /\ pc = "pass" /\ ~not_done_yet => instance_list = <<>>
    /\ Point = "final" => cancel_requested \/ instance_list = <<>>
    /\ Point = "exit" /\ CheckingAll => cancel_requested \/ instance_list = <<>>
    /\ pc = "exit" => cancel_requested \/ instance_list = <<>>

\* An empty list stays empty while the process waits.
LEMMA EmptyStays ==
    ASSUME Core, WaitStep \/ Outside, instance_list = <<>>
    PROVE  instance_list' = <<>>
<1>0. FsckTypes /\ InstancesTracked
  BY Zenon DEF Core
<1>1. Next
  BY Zenon DEF Next, FsckStep, Outside
<1>2. Listed' = {}
  BY <1>0, ChildStays, NoneListed, Zenon
<1>3. instance_list' \in Seq(Idx)
  BY <1>1, TrackedStep, Zenon
<1>4. DOMAIN instance_list' = {}
  BY <1>2, ZenonT(30) DEF Listed
<1> QED BY <1>3, <1>4

\* Every step keeps Settled.
LEMMA SettledStep ==
    ASSUME Core, Settled, [Next]_vars
    PROVE  Settled'
<1> FsckTypes /\ InstancesTracked /\ Callers /\ StartedBehind
  BY Zenon DEF Core
<1>1. CASE UNCHANGED vars
  BY <1>1, Zenon DEF vars, Settled, Point, Waiting, CheckingAll, jobVars, walkVars, instVars, waitVars, sigVars
<1>2. CASE Outside \/ WaitStep
  <2> USE <1>2
  <2>1. Point' = Point /\ UNCHANGED <<pass_done, not_done_yet>> /\ (CheckingAll' <=> CheckingAll)
    <3>1. Next
      BY Zenon DEF Next, FsckStep, Outside
    <3> QED BY <3>1, PointStays, TrackedStep, Zenon DEF walkVars, jobVars, CheckingAll
  <2>2. instance_list = <<>> => instance_list' = <<>>
    BY EmptyStays, Zenon
  <2>3. cancel_requested => cancel_requested'
    BY ZenonT(30) DEF Outside, WaitStep, Signal, Exited, CheckerExits, HelperExits, WaitNothing, WaitFake, EnterWait4,
                Interrupted, NothingExited, Reap, ReapHelper, sigVars, vars
  <2>4. CASE pc' = pc
    BY <2>1, <2>2, <2>3, <2>4, Zenon DEF Settled
  <2>5. CASE pc' \in {"wait", "wait4", "dev"}
    BY <2>1, <2>2, <2>3, <2>5, Zenon DEF Settled
  <2>6. CASE WaitNothing
    <3>1. instance_list' = <<>>
      BY <2>2, <2>6, Zenon DEF WaitNothing
    <3> QED BY <3>1, Zenon DEF Settled
  <2>7. CASE NothingExited
    <3>1. pc' = ret /\ Waiting /\ nohang
      BY <2>7, Zenon DEF NothingExited, ReturnFromWait, Waiting
    <3>2. ret \in {"passend", "exit"} /\ (ret = "passend" => ~pass_done) /\ (ret = "exit" => CheckingAll)
      BY <3>1, Zenon DEF Callers
    <3>3. Point = ret
      BY <3>1, Zenon DEF Point
    <3> QED BY <2>1, <2>2, <2>3, <3>1, <3>2, <3>3, Zenon DEF Settled
  <2>8. CASE WaitFake \/ \E k \in DOMAIN instance_list : Reap(k)
    <3>1. Waiting /\ (pc' = "wait" \/ (wflags = "single" /\ pc' = ret))
      <4>1. pc \in {"wait", "wait4"} /\ \E bits : Collected(bits)
        BY <2>8, Zenon DEF WaitFake, Reap
      <4>2. pc' = "wait" \/ (wflags = "single" /\ pc' = ret)
        <5>1. PICK bits : Collected(bits)
          BY <4>1, Zenon
        <5>2. CASE wflags = "single"
          BY <5>1, <5>2, Zenon DEF Collected
        <5>3. CASE wflags # "single"
          BY <5>1, <5>3, Zenon DEF Collected
        <5> QED BY <5>2, <5>3, Zenon
      <4> QED BY <4>1, <4>2, Zenon DEF Waiting
    <3> QED BY <2>5, <3>1, Zenon DEF Callers
  <2>9. CASE EnterWait4 \/ Interrupted \/ \E i \in Idx : ReapHelper(i)
    BY <2>4, <2>5, <2>9, Zenon DEF EnterWait4, Interrupted, ReapHelper
  <2>10. CASE Outside
    BY <2>4, <2>10, Zenon DEF Outside, Signal, Exited, CheckerExits, HelperExits, vars
  <2> QED BY <2>6, <2>7, <2>8, <2>9, <2>10, Zenon DEF WaitStep
<1>3. CASE ParseArgv
  <2>1. Point = "start" /\ instance_list' = instance_list
    BY <1>3, Zenon DEF ParseArgv, Point, Waiting, instVars
  <2>2. instance_list' = <<>>
    BY <2>1, NoneStarted, Zenon DEF StartedBehind
  <2> QED BY <2>2, Zenon DEF Settled
<1>4. CASE DeviceStep
  <2>1. ~CheckingAll /\ (CheckingAll' <=> CheckingAll)
    BY <1>4, Zenon DEF DeviceStep, SkipDevice, SpawnDevice, DevicesEnd, AtDev, Callers, Point, Waiting, CheckingAll, jobVars
  <2>2. pc' \in {"dev", "wait"} /\ (pc' = "wait" => ret' \in {"dev", "exit"})
    BY <1>4, Zenon DEF DeviceStep, SkipDevice, SpawnDevice, DevicesEnd, AtDev, CallWait
  <2> QED BY <2>1, <2>2, Zenon DEF Settled, Point, Waiting
<1>5. CASE CheckAllStep
  <2>0. (CheckingAll' <=> CheckingAll) /\ cancel_requested' = cancel_requested
    <3>1. Next
      BY <1>5, Zenon DEF Next, FsckStep
    <3>2. cancel_requested' = cancel_requested
      BY <1>5, Zenon DEF CheckAllStep, InitialScan, CheckRoot, RootEnd, SkipRootCheck, WalkEnd, PassBegin, SkipDone,
                  DeferPass, SkipMounted, DeferDisk, Spawn, WaitAfterWalk, PassEnd, AllPassesDone, FinalWait, sigVars
    <3> QED BY <3>1, <3>2, TrackedStep, Zenon DEF CheckingAll, jobVars
  <2>1. CASE InitialScan \/ SkipRootCheck
    <3>1. Point \in {"scan", "root"} /\ instance_list' = instance_list
      BY <2>1, Zenon DEF InitialScan, SkipRootCheck, Point, Waiting, instVars
    <3>2. instance_list' = <<>>
      BY <3>1, NoneStarted, Zenon DEF StartedBehind
    <3> QED BY <3>2, Zenon DEF Settled
  <2>2. CASE RootEnd
    <3>1. instance_list' = <<>>
      BY <2>2, Zenon DEF RootEnd, Settled, instVars
    <3> QED BY <3>1, Zenon DEF Settled
  <2>3. CASE CheckRoot \/ PassBegin \/ WalkEnd
    <3>1. pc' \in {"wait", "fs", "walked"} /\ (pc' = "wait" => ret' = "rootend")
      BY <2>3, Zenon DEF CheckRoot, PassBegin, WalkEnd, CallWait
    <3> QED BY <3>1, Zenon DEF Settled, Point, Waiting
  <2>4. CASE SkipDone \/ DeferPass \/ SkipMounted \/ DeferDisk \/ Spawn
    <3>1. pc' \in {"fs", "walked"}
      BY <2>4, Zenon DEF SkipDone, DeferPass, SkipMounted, DeferDisk, Spawn, IsDue, AtFs
    <3> QED BY <3>1, Zenon DEF Settled, Point, Waiting
  <2>5. CASE WaitAfterWalk
    <3>1. (pc' = "final" /\ cancel_requested) \/ (pc' = "wait" /\ ret' = "passend")
      <4>1. CASE cancel_requested
        <5>1. pc' = "final"
          BY <2>5, <4>1, Zenon DEF WaitAfterWalk
        <5> QED BY <4>1, <5>1, Zenon
      <4>2. CASE ~cancel_requested
        BY <2>5, <4>2, Zenon DEF WaitAfterWalk, CallWait
      <4> QED BY <4>1, <4>2, Zenon
    <3> QED BY <2>0, <3>1, Zenon DEF Settled, Point, Waiting
  <2>6. CASE PassEnd
    <3>1. pc = "passend" /\ pc' = "pass" /\ (~pass_done => not_done_yet') /\ instance_list' = instance_list
      BY <2>6, Zenon DEF PassEnd, instVars
    <3> QED BY <3>1, Zenon DEF Settled, Point, Waiting
  <2>7. CASE AllPassesDone
    <3>1. instance_list' = <<>>
      BY <2>7, Zenon DEF AllPassesDone, Settled, instVars
    <3> QED BY <3>1, Zenon DEF Settled
  <2>8. CASE FinalWait
    <3>1. Point = "final" /\ pc' = "wait" /\ ret' = "exit" /\ instance_list' = instance_list
      BY <2>8, Zenon DEF FinalWait, CallWait, Point, Waiting, instVars
    <3> QED BY <2>0, <3>1, Zenon DEF Settled, Point, Waiting
  <2> QED BY <1>5, <2>1, <2>2, <2>3, <2>4, <2>5, <2>6, <2>7, <2>8, Zenon DEF CheckAllStep
<1> QED BY <1>1, <1>2, <1>3, <1>4, <1>5, Steps, Zenon

\* check_all() goes on, and main() exits, with nothing left to collect where it should not be.
LEMMA SettledAlways == Spec => []Settled
<1>1. Init => Settled
  BY Zenon DEF Init, Settled, Point, Waiting
<1>2. Core /\ Settled /\ [Next]_vars => Settled'
  BY SettledStep, Zenon
<1> QED BY <1>1, <1>2, CoreAlways, PTL DEF Spec

-----------------------------------------------------------------------------
(* Passes *)

\* From where to where each step of the process goes.
LEMMA Moves ==
    /\ ParseArgv => Point = "start" /\ Point' \in {"exit", "dev", "scan"}
    /\ InitialScan => Point = "scan" /\ Point' = "root"
    /\ CheckRoot => Point = "root" /\ Point' = "rootend"
    /\ RootEnd => Point = "rootend" /\ pc = "rootend" /\ Point' \in {"pass", "exit"}
    /\ SkipRootCheck => Point = "root" /\ Point' = "pass"
    /\ PassBegin => Point = "pass" /\ Point' = "fs"
    /\ WalkEnd => Point = "fs" /\ Point' = "walked"
    /\ SkipDone \/ DeferPass \/ SkipMounted \/ DeferDisk => Point = "fs" /\ Point' = "fs"
    /\ Spawn => Point = "fs" /\ Point' \in {"fs", "walked"}
    /\ WaitAfterWalk => Point = "walked" /\ Point' \in {"passend", "final"}
    /\ PassEnd => Point = "passend" /\ pc = "passend" /\ Point' = "pass"
    /\ AllPassesDone => Point = "pass" /\ Point' = "final"
    /\ FinalWait => Point = "final" /\ Point' = "exit"
    /\ SkipDevice \/ SpawnDevice => Point = "dev" /\ Point' = "dev"
    /\ DevicesEnd => Point = "dev" /\ Point' = "exit"
<1> USE DEF Point, Waiting
<1>1. /\ ParseArgv => Point = "start" /\ Point' \in {"exit", "dev", "scan"}
      /\ InitialScan => Point = "scan" /\ Point' = "root"
  BY Zenon DEF ParseArgv, InitialScan
<1>2. /\ CheckRoot => Point = "root" /\ Point' = "rootend"
      /\ RootEnd => Point = "rootend" /\ pc = "rootend" /\ Point' \in {"pass", "exit"}
      /\ SkipRootCheck => Point = "root" /\ Point' = "pass"
  BY Zenon DEF CheckRoot, RootEnd, SkipRootCheck, CallWait
<1>3. /\ PassBegin => Point = "pass" /\ Point' = "fs"
      /\ WalkEnd => Point = "fs" /\ Point' = "walked"
      /\ SkipDone \/ DeferPass \/ SkipMounted \/ DeferDisk => Point = "fs" /\ Point' = "fs"
  BY Zenon DEF PassBegin, WalkEnd, SkipDone, DeferPass, SkipMounted, DeferDisk, IsDue, AtFs
<1>4. /\ Spawn => Point = "fs" /\ Point' \in {"fs", "walked"}
      /\ WaitAfterWalk => Point = "walked" /\ Point' \in {"passend", "final"}
  BY Zenon DEF Spawn, IsDue, AtFs, WaitAfterWalk, CallWait
<1>5. /\ PassEnd => Point = "passend" /\ pc = "passend" /\ Point' = "pass"
      /\ AllPassesDone => Point = "pass" /\ Point' = "final"
      /\ FinalWait => Point = "final" /\ Point' = "exit"
  BY Zenon DEF PassEnd, AllPassesDone, FinalWait, CallWait
<1>6. /\ SkipDevice \/ SpawnDevice => Point = "dev" /\ Point' = "dev"
      /\ DevicesEnd => Point = "dev" /\ Point' = "exit"
  BY Zenon DEF SkipDevice, SpawnDevice, DevicesEnd, AtDev, CallWait
<1> QED BY <1>1, <1>2, <1>3, <1>4, <1>5, <1>6, Zenon

\* cancel_requested is never reset.
LEMMA CancelStays ==
    ASSUME Next, cancel_requested
    PROVE  cancel_requested'
<1>1. CASE CheckAllStep \/ ParseArgv
  BY <1>1, Zenon DEF ParseArgv, CheckAllStep, InitialScan, CheckRoot, RootEnd, SkipRootCheck, WalkEnd, PassBegin, SkipDone,
              DeferPass, SkipMounted, DeferDisk, Spawn, WaitAfterWalk, PassEnd, AllPassesDone, FinalWait, sigVars
<1>2. CASE DeviceStep
  BY <1>2, ZenonT(30) DEF DeviceStep, SkipDevice, SpawnDevice, DevicesEnd, sigVars
<1>3. CASE WaitStep
  BY <1>3, ZenonT(30) DEF WaitStep, WaitNothing, WaitFake, EnterWait4, Interrupted, NothingExited, Reap, ReapHelper, sigVars
<1>4. CASE Outside
  BY <1>4, ZenonT(30) DEF Outside, Signal, Exited, CheckerExits, HelperExits, sigVars, vars
<1> QED BY <1>1, <1>2, <1>3, <1>4, Steps, Zenon

Ignored == {i \in Idx : ignore(tab[i])}
Passed(n) == \A j \in Idx : tab[j].pass < n => j \in done /\ j \notin Listed

\* Before the walk: pass 1, and nothing is done but the ignored.
WalkBegins ==
    /\ Point \in {"start", "scan", "root", "rootend"} => passno = 1 /\ not_done_yet
    /\ Point \in {"root", "rootend"} => done = Ignored

\* In the walk: the lower passes are finished, and no later one has begun.
PassesBehind ==
    /\ Point \in Walking =>
           /\ Ignored \subseteq done /\ Passed(passno)
           /\ \A i \in Listed : (IsFirstRoot(i) /\ ~opt.parallel_root) \/ tab[i].pass <= passno
    /\ Point = "exit" => PassOrder

WalkComplete ==
    \A j \in Idx : /\ pass_done /\ tab[j].pass <= passno => j \in done
                   /\ pass_done /\ ~not_done_yet => j \in done

\* A walk leaves a line undone only with not_done_yet set or pass_done cleared.
WalkLines ==
    /\ Point = "fs" =>
           \A j \in Idx : j < itr =>
               /\ pass_done /\ tab[j].pass <= passno => j \in done
               /\ ~not_done_yet /\ tab[j].pass > passno => j \in done
    /\ Point = "walked" => cancel_requested \/ WalkComplete
    /\ Point = "passend" => WalkComplete
    /\ Point = "pass" /\ ~not_done_yet => Idx \subseteq done
    /\ Point = "final" => cancel_requested \/ Idx \subseteq done

\* What a step leaves of the table.
LEMMA TableStays ==
    ASSUME Core, Next
    PROVE  /\ opt' = opt /\ tab' = tab /\ Idx' = Idx /\ Roots' = Roots /\ Ignored' = Ignored
           /\ (CheckingAll' <=> CheckingAll) /\ \A i : IsFirstRoot(i)' <=> IsFirstRoot(i)
           /\ \A i : MustCheck(i)' <=> MustCheck(i)
<1> opt' = opt /\ tab' = tab
  BY TrackedStep, Zenon DEF jobVars
<1>2. Idx' = Idx /\ Roots' = Roots /\ (CheckingAll' <=> CheckingAll)
  BY Zenon DEF Idx, Roots, CheckingAll
<1>3. \A e : ignore(e)' <=> ignore(e)
  BY DEF ignore, fs_match, find_fsck, fs_interpret_type, fs_ignored_type, TypeItems
<1>4. Ignored' = Ignored
  BY <1>2, <1>3, Zenon DEF Ignored
<1>5. \A i : IsFirstRoot(i)' <=> IsFirstRoot(i)
  BY <1>2, Zenon DEF IsFirstRoot
<1>6. \A i : MustCheck(i)' <=> MustCheck(i)
  BY <1>3, Zenon DEF MustCheck, is_skipped_mounted
<1> QED BY <1>2, <1>4, <1>5, <1>6, Zenon

\* Until the walk, done holds the ignored lines only.
LEMMA WalkBeginsStep ==
    ASSUME Core, WalkBegins, Next
    PROVE  WalkBegins'
<1>0. Ignored' = Ignored
  BY TableStays, Zenon
<1>1. CASE WaitStep \/ Outside
  BY <1>0, <1>1, PointStays, Zenon DEF WalkBegins, walkVars, dataVars
<1>2. CASE ParseArgv \/ CheckRoot
  <2>1. UNCHANGED <<passno, not_done_yet, done>>
    BY <1>2, Zenon DEF ParseArgv, CheckRoot, walkVars, dataVars
  <2> QED BY <1>0, <1>2, <2>1, Moves, Zenon DEF WalkBegins
<1>3. CASE InitialScan
  <2>1. UNCHANGED <<passno, not_done_yet>> /\ done' = Ignored
    BY <1>3, Zenon DEF InitialScan, walkVars, Ignored
  <2> QED BY <1>0, <1>3, <2>1, Moves, Zenon DEF WalkBegins
<1>4. CASE Point' \notin {"start", "scan", "root", "rootend"}
  BY <1>4, Zenon DEF WalkBegins
<1>5. CASE CheckAllStep
  BY <1>2, <1>3, <1>4, <1>5, Moves, Zenon DEF CheckAllStep
<1>6. CASE DeviceStep
  BY <1>4, <1>6, Moves, Zenon DEF DeviceStep
<1> QED BY <1>1, <1>2, <1>5, <1>6, Steps, Zenon

\* Pass numbers are natural numbers.
LEMMA PassNat ==
    ASSUME FsckTypes
    PROVE  passno \in Nat /\ \A j \in Idx : tab[j].pass \in Nat
<1>1. tab \in Seq(Entry) /\ passno \in Nat
  BY Zenon DEF FsckTypes
<1>2. \A j \in Idx : tab[j] \in Entry
  BY <1>1 DEF Idx
<1>3. \A e \in Entry : e.pass \in Nat
  BY Zenon DEF Entry
<1> QED BY <1>1, <1>2, <1>3, Zenon

\* The order of the passes follows from what is behind the walk.
LEMMA PassesOrdered ==
    ASSUME FsckTypes, InstancesTracked, Passed(passno),
           \A i \in Listed : (IsFirstRoot(i) /\ ~opt.parallel_root) \/ tab[i].pass <= passno
    PROVE  PassOrder
<1> SUFFICES ASSUME NEW i \in Listed, NEW j \in Idx, tab[j].pass < tab[i].pass, ~(IsFirstRoot(i) /\ ~opt.parallel_root)
             PROVE  j \in done /\ j \notin Listed
  BY Zenon DEF PassOrder
<1>1. i \in Idx
  BY Zenon DEF InstancesTracked
<1>2. tab[i].pass <= passno
  BY Zenon
<1>3. tab[i].pass \in Nat /\ tab[j].pass \in Nat /\ passno \in Nat
  BY <1>1, PassNat, Zenon
<1>4. tab[j].pass < passno
  BY <1>2, <1>3, SMTT(30)
<1> QED BY <1>4, Zenon DEF Passed

\* Every step keeps the earlier passes done.
LEMMA PassesStep ==
    ASSUME Core, Settled, WalkBegins, PassesBehind, WalkLines, Next
    PROVE  PassesBehind'
<1> FsckTypes /\ InstancesTracked /\ StartedBehind /\ FsckTypes' /\ InstancesTracked'
  BY TypesStep, TrackedStep, Zenon DEF Core
<1> /\ opt' = opt /\ tab' = tab /\ Idx' = Idx /\ Ignored' = Ignored
    /\ (CheckingAll' <=> CheckingAll) /\ \A i : IsFirstRoot(i)' <=> IsFirstRoot(i)
  BY TableStays, Zenon
<1>n. passno \in Nat /\ \A j \in Idx : tab[j].pass \in Nat
  BY PassNat, Zenon
<1>1. CASE WaitStep \/ Outside
  <2>1. Point' = Point /\ passno' = passno /\ done' = done /\ Listed' \subseteq Listed
    BY <1>1, PointStays, ChildStays, Zenon DEF walkVars, dataVars
  <2>2. Passed(passno) => Passed(passno)'
    BY <2>1, Zenon DEF Passed
  <2>3. PassOrder => PassOrder'
    BY <2>1, Zenon DEF PassOrder
  <2> QED BY <2>1, <2>2, <2>3, Zenon DEF PassesBehind
\* the list is empty
<1>2. CASE ParseArgv \/ RootEnd \/ SkipRootCheck
  <2>1. passno' = passno /\ instance_list' = instance_list /\ done \subseteq done'
    BY <1>2, Zenon DEF ParseArgv, RootEnd, SkipRootCheck, AfterRoot, walkVars, instVars, dataVars
  <2>2. instance_list = <<>>
    <3>1. CASE RootEnd
      BY <3>1, Zenon DEF RootEnd, Settled
    <3>2. CASE ParseArgv \/ SkipRootCheck
      BY <3>2, Moves, NoneStarted, Zenon DEF StartedBehind
    <3> QED BY <1>2, <3>1, <3>2, Zenon
  <2>3. Listed' = {}
    BY <2>1, <2>2 DEF Listed
  <2>4. PassOrder'
    BY <2>3, Zenon DEF PassOrder
  <2>5. CASE RootEnd \/ SkipRootCheck
    <3>1. Point \in {"root", "rootend"}
      BY <2>5, Moves, Zenon
    <3>2. passno' = 1 /\ Ignored' \subseteq done'
      BY <2>1, <3>1, Zenon DEF WalkBegins
    <3>3. \A j \in Idx : tab[j].pass < 1 => j \in Ignored
      <4>1. \A j \in Idx : tab[j].pass < 1 => tab[j].pass = 0
        BY <1>n
      <4> QED BY <4>1, Zenon DEF Ignored, ignore
    <3>4. Passed(passno)'
      BY <2>3, <3>2, <3>3, Zenon DEF Passed
    <3> QED BY <2>3, <2>4, <3>2, <3>4, Zenon DEF PassesBehind
  <2>6. CASE ParseArgv
    BY <2>4, <2>6, Moves, Zenon DEF PassesBehind, Walking
  <2> QED BY <1>2, <2>5, <2>6, Zenon
\* the walk goes on
<1>3. CASE /\ Point \in Walking /\ Point' \in Walking /\ passno' = passno
           /\ instance_list' = instance_list /\ done \subseteq done'
  <2>1. Listed' = Listed
    BY <1>3, Zenon DEF Listed
  <2>2. Passed(passno) => Passed(passno)'
    BY <1>3, <2>1, Zenon DEF Passed
  <2>3. Point' # "exit"
    BY <1>3, Zenon DEF Walking
  <2> QED BY <1>3, <2>1, <2>2, <2>3, Zenon DEF PassesBehind
<1>4. CASE PassBegin \/ WalkEnd \/ SkipDone \/ DeferPass \/ SkipMounted \/ DeferDisk \/ WaitAfterWalk \/ AllPassesDone
  <2>1. Point \in Walking /\ Point' \in Walking
    BY <1>4, Moves, Zenon DEF Walking
  <2>2. passno' = passno /\ instance_list' = instance_list /\ done \subseteq done'
    BY <1>4, Zenon DEF PassBegin, WalkEnd, SkipDone, DeferPass, SkipMounted, DeferDisk, WaitAfterWalk, AllPassesDone,
                walkVars, instVars, dataVars
  <2> QED BY <1>3, <2>1, <2>2, Zenon
<1>5. CASE Spawn
  <2>1. Point \in Walking /\ Point' \in Walking /\ Point' # "exit"
    BY <1>5, Moves, Zenon DEF Walking
  <2>2. passno' = passno /\ done' = done \union {itr} /\ tab[itr].pass <= passno
    BY <1>5, Zenon DEF Spawn, IsDue
  <2>3. itr \in Idx /\ itr \notin done /\ Listed' \subseteq Listed \union {itr}
    BY <1>5, SpawnStep, StartsTracked, ZenonT(30) DEF Quiet, Listed, instVars
  <2>4. Passed(passno)'
    BY <2>1, <2>2, <2>3, Zenon DEF Passed, PassesBehind
  <2> QED BY <2>1, <2>2, <2>3, <2>4, Zenon DEF PassesBehind
<1>6. CASE PassEnd
  <2> Point = "passend" /\ pc = "passend" /\ Point' = "pass" /\ Point \in Walking
    BY <1>6, Moves, Zenon DEF Walking
  <2>2. instance_list' = instance_list /\ done' = done
    BY <1>6, Zenon DEF PassEnd, instVars, dataVars
  <2>3. CASE ~pass_done
    <3>1. passno' = passno /\ Point' \in Walking
      BY <1>6, <2>3, Zenon DEF PassEnd, Walking
    <3> QED BY <1>3, <2>2, <3>1, Zenon
  <2>4. CASE pass_done
    <3>1. passno' = passno + 1
      BY <1>6, <2>4, Zenon DEF PassEnd
    <3>2. Listed' = {}
      BY <2>2, <2>4 DEF Settled, Listed
    <3>3. \A j \in Idx : tab[j].pass < passno + 1 => tab[j].pass <= passno
      BY <1>n
    <3>4. \A j \in Idx : tab[j].pass < passno + 1 => j \in done
      BY <2>4, <3>3, Zenon DEF WalkLines, WalkComplete
    <3>5. Passed(passno)'
      BY <2>2, <3>1, <3>2, <3>4, Zenon DEF Passed
    <3>6. Ignored' \subseteq done'
      BY <2>2, Zenon DEF PassesBehind
    <3> QED BY <3>2, <3>5, <3>6, Zenon DEF PassesBehind
  <2> QED BY <2>3, <2>4, Zenon
<1>7. CASE FinalWait
  <2>1. Point \in Walking /\ Point' = "exit"
    BY <1>7, Moves, Zenon DEF Walking
  <2>2. Listed' = Listed /\ done' = done
    BY <1>7, Zenon DEF FinalWait, Listed, instVars, dataVars
  <2>3. PassOrder
    BY <2>1, PassesOrdered, Zenon DEF PassesBehind
  <2>4. PassOrder'
    BY <2>2, <2>3, Zenon DEF PassOrder
  <2> QED BY <2>1, <2>4, Zenon DEF PassesBehind, Walking
<1>8. CASE Point' \notin Walking \union {"exit"}
  BY <1>8, Zenon DEF PassesBehind
<1>9. CASE InitialScan \/ CheckRoot
  BY <1>8, <1>9, Moves, Zenon DEF Walking
<1>10. CASE DeviceStep
  <2>1. Point = "dev" /\ Point' \notin Walking
    BY <1>10, Moves, Zenon DEF DeviceStep, Walking
  <2>2. ~CheckingAll'
    BY <2>1, Zenon DEF Core, Callers
  <2> QED BY <2>1, <2>2, Zenon DEF PassesBehind, PassOrder
<1> QED BY <1>1, <1>2, <1>4, <1>5, <1>6, <1>7, <1>9, <1>10, Steps, ZenonT(30) DEF CheckAllStep

\* Every step keeps account of the lines behind the iterator.
LEMMA LinesStep ==
    ASSUME Core, WalkBegins, WalkLines, Next
    PROVE  WalkLines'
<1>0. FsckTypes /\ FsckTypes' /\ itr \in Nat /\ \A j \in Idx : j \in Nat
  BY TypesStep DEF Core, FsckTypes, Idx
<1> tab' = tab /\ Idx' = Idx
  BY TableStays, Zenon
<1>n. passno \in Nat /\ \A j \in Idx : tab[j].pass \in Nat
  BY <1>0, PassNat, Zenon
<1>m. \A j \in Idx : ~(tab[j].pass <= passno) <=> tab[j].pass > passno
  BY <1>n
<1>c. cancel_requested => cancel_requested'
  BY CancelStays, Zenon
<1> DEFINE Line(j) == /\ pass_done /\ tab[j].pass <= passno => j \in done
                      /\ ~not_done_yet /\ tab[j].pass > passno => j \in done
<1>f. Point = "fs" => \A j \in Idx : j < itr => Line(j)
  BY Zenon DEF WalkLines
<1>1. CASE WaitStep \/ Outside
  <2>1. Point' = Point /\ UNCHANGED <<passno, not_done_yet, pass_done, itr, done>>
    BY <1>1, PointStays, Zenon DEF walkVars, dataVars
  <2>2. WalkComplete' <=> WalkComplete
    BY <2>1, Zenon DEF WalkComplete
  <2> QED BY <1>c, <2>1, <2>2, Zenon DEF WalkLines
<1>2. CASE Point' \notin {"fs", "walked", "passend", "pass", "final"}
  BY <1>2, Zenon DEF WalkLines
<1>3. CASE ParseArgv \/ InitialScan \/ CheckRoot \/ FinalWait
  BY <1>2, <1>3, Moves, Zenon
<1>4. CASE DeviceStep
  BY <1>2, <1>4, Moves, Zenon DEF DeviceStep
<1>5. CASE RootEnd \/ SkipRootCheck
  <2>1. Point \in {"rootend", "root"} /\ Point' \in {"pass", "exit"}
    BY <1>5, Moves, Zenon
  <2>2. not_done_yet'
    BY <1>5, <2>1, Zenon DEF RootEnd, SkipRootCheck, WalkBegins, walkVars
  <2> QED BY <2>1, <2>2, Zenon DEF WalkLines
<1>6. CASE PassBegin
  <2>1. Point' = "fs" /\ itr' = 1
    BY <1>6, Moves, Zenon DEF PassBegin
  <2>2. \A j \in Idx : ~(j < 1)
    BY DEF Idx
  <2> QED BY <2>1, <2>2, ZenonT(30) DEF WalkLines
<1>7. ASSUME SkipDone \/ DeferPass \/ SkipMounted \/ DeferDisk \/ (Spawn /\ itr' = itr + 1 /\ pc' = pc /\ pass_done' = pass_done)
      PROVE  WalkLines'
  <2> USE <1>7
  <2>1. Point = "fs" /\ Point' = "fs"
    <3>1. CASE Spawn /\ pc' = pc
      BY <3>1, Moves, ZenonT(30) DEF Spawn, Point, Waiting, IsDue, AtFs
    <3> QED BY <3>1, Moves, Zenon
  <2> /\ itr' = itr + 1 /\ passno' = passno /\ itr \in Idx /\ done \subseteq done'
      /\ not_done_yet => not_done_yet'
    <3>1. itr \in Idx
      BY <1>0, AtLine, ZenonT(30) DEF SkipDone, DeferPass, SkipMounted, DeferDisk, Spawn, IsDue, AtFs
    <3>2. itr' = itr + 1 /\ passno' = passno
      BY ZenonT(30) DEF SkipDone, DeferPass, SkipMounted, DeferDisk, Spawn
    <3>3. done \subseteq done'
      BY ZenonT(30) DEF SkipDone, DeferPass, SkipMounted, DeferDisk, Spawn, dataVars
    <3>4. not_done_yet => not_done_yet'
      BY ZenonT(30) DEF SkipDone, DeferPass, SkipMounted, DeferDisk, Spawn
    <3> QED BY <3>1, <3>2, <3>3, <3>4, ZenonT(30)
  <2>3. pass_done' => pass_done
    BY ZenonT(30) DEF SkipDone, DeferPass, SkipMounted, DeferDisk, Spawn
  <2>4. /\ pass_done' /\ tab[itr].pass <= passno => itr \in done'
        /\ ~not_done_yet' /\ tab[itr].pass > passno => itr \in done'
    <3>1. CASE SkipDone
      BY <3>1, Zenon DEF SkipDone
    <3>2. CASE DeferPass
      BY <1>m, <3>2, ZenonT(30) DEF DeferPass
    <3>3. CASE SkipMounted \/ Spawn
      BY <3>3, ZenonT(30) DEF SkipMounted, Spawn
    <3>4. CASE DeferDisk
      BY <1>m, <3>4, ZenonT(30) DEF DeferDisk, IsDue
    <3> QED BY <3>1, <3>2, <3>3, <3>4, ZenonT(30)
  <2>5. \A j \in Idx : j < itr + 1 => j < itr \/ j = itr
    BY <1>0
  <2>6. \A j \in Idx : j < itr' => /\ pass_done' /\ tab[j].pass <= passno => j \in done'
                                   /\ ~not_done_yet' /\ tab[j].pass > passno => j \in done'
    BY <1>f, <2>1, <2>3, <2>4, <2>5, ZenonT(30)
  <2> QED BY <2>1, <2>6, Zenon DEF WalkLines
<1>8. CASE Spawn
  <2>1. CASE pass_done' = FALSE /\ pc' = "walked"
    <3>1. Point' = "walked"
      BY <2>1, Zenon DEF Point, Waiting
    <3>2. WalkComplete'
      BY <2>1, Zenon DEF WalkComplete
    <3> QED BY <3>1, <3>2, Zenon DEF WalkLines
  <2>2. CASE itr' = itr + 1 /\ pc' = pc /\ pass_done' = pass_done
    BY <1>7, <1>8, <2>2, ZenonT(30)
  <2> QED BY <1>8, <2>1, <2>2, ZenonT(30) DEF Spawn
<1>9. CASE WalkEnd
  <2>1. Point = "fs" /\ Point' = "walked" /\ UNCHANGED <<passno, not_done_yet, pass_done, itr, done>>
    BY <1>9, Moves, ZenonT(30) DEF WalkEnd, walkVars, dataVars
  <2>2. CASE cancel_requested
    BY <1>c, <2>1, <2>2, ZenonT(30) DEF WalkLines
  <2>3. CASE itr > Len(tab)
    <3>1. \A j \in Idx : j < itr
      BY <1>0, <2>3 DEF Idx, FsckTypes
    <3>2. \A j \in Idx : Line(j)
      BY <1>f, <2>1, <3>1, Zenon
    <3>3. WalkComplete
      BY <1>m, <3>2, Zenon DEF WalkComplete
    <3>4. WalkComplete'
      BY <2>1, <3>3, Zenon DEF WalkComplete
    <3> QED BY <2>1, <3>4, ZenonT(30) DEF WalkLines
  <2> QED BY <1>9, <2>2, <2>3, ZenonT(30) DEF WalkEnd
<1>10. CASE WaitAfterWalk
  <2>1. Point = "walked" /\ Point' \in {"passend", "final"} /\ UNCHANGED <<passno, not_done_yet, pass_done, itr, done>>
    BY <1>10, Moves, Zenon DEF WaitAfterWalk, walkVars, dataVars
  <2>2. CASE cancel_requested
    <3>1. Point' = "final"
      BY <1>10, <2>2, ZenonT(30) DEF WaitAfterWalk, Point, Waiting
    <3> QED BY <1>c, <2>2, <3>1, ZenonT(30) DEF WalkLines
  <2>3. CASE ~cancel_requested
    <3>1. Point' = "passend"
      BY <1>10, <2>3, Zenon DEF WaitAfterWalk, CallWait, Point, Waiting
    <3>2. WalkComplete'
      BY <2>1, <2>3, ZenonT(30) DEF WalkComplete, WalkLines
    <3> QED BY <3>1, <3>2, ZenonT(30) DEF WalkLines
  <2> QED BY <2>2, <2>3, Zenon
<1>11. CASE PassEnd
  <2>1. Point = "passend" /\ Point' = "pass" /\ done' = done
    BY <1>11, Moves, Zenon DEF PassEnd, dataVars
  <2>2. ASSUME ~not_done_yet' PROVE Idx \subseteq done
    <3>1. pass_done /\ ~not_done_yet
      BY <1>11, <2>2, Zenon DEF PassEnd
    <3> QED BY <2>1, <3>1, Zenon DEF WalkLines, WalkComplete
  <2> QED BY <2>1, <2>2, Zenon DEF WalkLines
<1>12. CASE AllPassesDone
  <2>1. Point = "pass" /\ Point' = "final" /\ done' = done /\ ~not_done_yet
    BY <1>12, Moves, Zenon DEF AllPassesDone, dataVars
  <2> QED BY <2>1, Zenon DEF WalkLines
<1> QED BY <1>1, <1>3, <1>4, <1>5, <1>6, <1>7, <1>8, <1>9, <1>10, <1>11, <1>12, Steps, ZenonT(30) DEF CheckAllStep

Walked == WalkBegins /\ PassesBehind /\ WalkLines

\* Where the walk of check_all() stands, always.
LEMMA WalkedAlways == Spec => []Walked
<1>1. Init => Walked
  <2> SUFFICES ASSUME Init PROVE Walked
    BY Zenon
  <2>1. Point = "start" /\ passno = 1 /\ not_done_yet
    BY Zenon DEF Init, Point, Waiting
  <2> QED BY <2>1, Zenon DEF Walked, WalkBegins, PassesBehind, WalkLines, Walking
<1>2. Core /\ Settled /\ Walked /\ [Next]_vars => Walked'
  <2> SUFFICES ASSUME Core, Settled, Walked, [Next]_vars PROVE Walked'
    BY Zenon
  <2>1. CASE Next
    BY <2>1, WalkBeginsStep, PassesStep, LinesStep, ZenonT(30) DEF Walked
  <2>2. CASE UNCHANGED vars
    <3>1. UNCHANGED <<opt, tab, pc, passno, not_done_yet, pass_done, itr, done, instance_list, ret, cancel_requested>>
      BY <2>2, ZenonT(30) DEF vars, jobVars, walkVars, dataVars, instVars, waitVars, sigVars
    <3>2. /\ Point' = Point /\ Idx' = Idx /\ Roots' = Roots /\ Listed' = Listed /\ (CheckingAll' <=> CheckingAll)
          /\ \A e : ignore(e)' <=> ignore(e)
      BY <3>1 DEF Point, Waiting, Idx, Roots, Listed, CheckingAll, ignore, fs_match, find_fsck, fs_interpret_type,
                  fs_ignored_type, TypeItems
    <3>3. Ignored' = Ignored /\ (WalkComplete' <=> WalkComplete) /\ \A i : IsFirstRoot(i)' <=> IsFirstRoot(i)
      BY <3>1, <3>2, Zenon DEF Ignored, WalkComplete, IsFirstRoot
    <3>4. (Passed(passno)' <=> Passed(passno)) /\ (PassOrder' <=> PassOrder)
      BY <3>1, <3>2, <3>3, Zenon DEF Passed, PassOrder
    <3> QED BY <3>1, <3>2, <3>3, <3>4, ZenonT(30) DEF Walked, WalkBegins, PassesBehind, WalkLines
  <2> QED BY <2>1, <2>2, Zenon
<1> QED BY <1>1, <1>2, CoreAlways, SettledAlways, PTL DEF Spec

\* PassOrder follows from where the walk stands.
LEMMA WalkOrdered ==
    ASSUME Core, Walked
    PROVE  PassOrder
<1> FsckTypes /\ InstancesTracked /\ StartedBehind /\ Callers
  BY Zenon DEF Core
<1>1. CASE Point \in {"start", "scan", "root"}
  <2>1. Listed = {}
    BY <1>1, NoneStarted, NoneListed, Zenon DEF StartedBehind
  <2> QED BY <2>1, Zenon DEF PassOrder
<1>2. CASE Point = "rootend"
  <2>1. \A i \in Listed : IsFirstRoot(i) /\ ~opt.parallel_root
    BY <1>2, Zenon DEF StartedBehind, InstancesTracked
  <2> QED BY <2>1, Zenon DEF PassOrder
<1>3. CASE Point \in Walking
  BY <1>3, PassesOrdered, Zenon DEF Walked, PassesBehind
<1>4. CASE Point = "exit"
  BY <1>4, Zenon DEF Walked, PassesBehind
<1>5. CASE Point = "dev"
  BY <1>5, Zenon DEF Callers, PassOrder
<1>6. Point \in {"start", "scan", "root", "rootend", "dev", "exit"} \union Walking
  BY Zenon DEF Callers, Point, Waiting, Walking
<1> QED BY <1>1, <1>2, <1>3, <1>4, <1>5, <1>6, Zenon

\* For every table, whatever its pass numbers and disks: check_all() begins no
\* filesystem of a pass while one of an earlier pass is unfinished.
THEOREM PassOrderAlways == Spec => []PassOrder
<1>1. Core /\ Walked => PassOrder
  BY WalkOrdered, Zenon
<1> QED BY <1>1, CoreAlways, WalkedAlways, PTL

-----------------------------------------------------------------------------
(* The exit status *)

\* The status so far, with what the running wait_many() has collected.
Total == status \union (IF Waiting THEN gstatus ELSE {})

Reaped == {i \in Idx : child[i] = "reaped"}

Explained(b) == b \in {FSCK_EX_ERROR, FSCK_EX_USAGE} \/ \E i \in Reaped : b \in exit_status(wstat[i])

\* The status is the OR of what was collected, and of nothing else but errors of fsck.
StatusSoFar ==
    /\ wstat \in [Idx -> WaitStatus \union {NoWaitStatus}]
    /\ Waiting /\ wflags = "single" => gstatus = {}
    /\ ~opt.noexecute =>
           /\ \A i \in Reaped : exit_status(wstat[i]) \subseteq Total
           /\ \A b \in Total : Explained(b)

\* A step of fsck outside wait_many() reports at most an error of its own.
LEMMA StatusGrows ==
    ASSUME Core, CheckAllStep \/ DeviceStep
    PROVE  /\ status \subseteq status' /\ status' \subseteq status \union {FSCK_EX_ERROR}
           /\ ~Waiting /\ (Waiting' => gstatus' = {})
<1>1. CASE CheckRoot \/ Spawn \/ SpawnDevice
  <2>1. \E i : fsck_device(i)
    BY <1>1, Zenon DEF CheckRoot, Spawn, SpawnDevice
  <2>2. status \subseteq status' /\ status' \subseteq status \union {FSCK_EX_ERROR}
    BY <2>1, DeviceStarts, Zenon DEF DeviceFails, execute
  <2>3. ~Waiting /\ (Waiting' => gstatus' = {})
    BY <1>1, Zenon DEF CheckRoot, Spawn, SpawnDevice, IsDue, AtFs, AtDev, CallWait, Waiting
  <2> QED BY <2>2, <2>3, Zenon
<1>2. CASE status' = status /\ ~Waiting /\ (Waiting' => gstatus' = {})
  BY <1>2, Zenon
<1>3. CASE InitialScan \/ RootEnd \/ SkipRootCheck \/ PassBegin \/ WalkEnd \/ PassEnd \/ AllPassesDone
  BY <1>2, <1>3, Zenon DEF InitialScan, RootEnd, SkipRootCheck, PassBegin, WalkEnd, PassEnd, AllPassesDone, Waiting
<1>4. CASE SkipDone \/ DeferPass \/ SkipMounted \/ DeferDisk \/ SkipDevice
  BY <1>2, <1>4, ZenonT(30) DEF SkipDone, DeferPass, SkipMounted, DeferDisk, SkipDevice, IsDue, AtFs, AtDev, Waiting
<1>5. CASE WaitAfterWalk \/ FinalWait \/ DevicesEnd
  BY <1>2, <1>5, ZenonT(30) DEF WaitAfterWalk, FinalWait, DevicesEnd, CallWait, Waiting
<1> QED BY <1>1, <1>3, <1>4, <1>5, ZenonT(30) DEF CheckAllStep, DeviceStep

\* The steps of fsck that collect nothing leave the finished checkers alone.
LEMMA ReapedStays ==
    ASSUME Core, Next, ~Collecting
    PROVE  Reaped' = Reaped
<1>0. FsckTypes /\ InstancesTracked /\ Idx' = Idx
  BY TableStays, Zenon DEF Core
<1>1. CASE Quiet
  BY <1>0, <1>1, Zenon DEF Quiet, Reaped
<1>2. ASSUME NEW i \in Idx, CheckerExits(i) PROVE Reaped' = Reaped
  <2>1. child[i] = "run" /\ child' = [child EXCEPT ![i] = "zombie"]
    BY <1>2, Zenon DEF CheckerExits
  <2> QED BY <1>0, <2>1, Zenon DEF Reaped, FsckTypes
<1>3. ASSUME NEW i \in Idx, Starts(i) PROVE Reaped' = Reaped
  <2>1. child[i] = "none" /\ child'[i] \in {"run", "fake"} /\ \A j \in Idx : j # i => child'[j] = child[j]
    BY <1>0, <1>3, StartsTracked, Zenon DEF Starts
  <2> QED BY <1>0, <2>1, Zenon DEF Reaped
<1> QED BY <1>1, <1>2, <1>3, Kinds, ZenonT(30)

\* A wait status does not change any more once it is collected.
LEMMA WstatStays ==
    ASSUME Core, StatusSoFar, Next
    PROVE  /\ wstat' \in [Idx -> WaitStatus \union {NoWaitStatus}]
           /\ \A i \in Idx : child[i] # "run" => wstat'[i] = wstat[i]
<1>0. wstat \in [Idx -> WaitStatus \union {NoWaitStatus}]
  BY Zenon DEF StatusSoFar
<1>1. CASE wstat' = wstat
  BY <1>0, <1>1, Zenon
<1>2. ASSUME NEW i \in Idx, CheckerExits(i)
      PROVE  /\ wstat' \in [Idx -> WaitStatus \union {NoWaitStatus}]
             /\ \A j \in Idx : child[j] # "run" => wstat'[j] = wstat[j]
  <2>1. PICK w \in WaitStatuses : wstat' = [wstat EXCEPT ![i] = w]
    BY <1>2, ZenonT(30) DEF CheckerExits
  <2>2. w \in WaitStatus /\ child[i] = "run"
    BY <1>2, WaitStatusesAssumption, Zenon DEF CheckerExits
  <2> QED BY <1>0, <2>1, <2>2, Zenon
<1>3. CASE Quiet \/ \E i \in Idx : Starts(i)
  BY <1>1, <1>3, Zenon DEF Quiet, Starts, execute
<1>4. CASE Collecting
  BY <1>1, <1>4, CollectingTracked, Zenon DEF Core
<1> QED BY <1>2, <1>3, <1>4, Kinds, ZenonT(30)

\* The statuses that a step does not touch.
LEMMA StatusKept ==
    ASSUME Core, StatusSoFar, Next, ~Collecting, Total' = Total, Waiting' /\ wflags' = "single" => gstatus' = {}
    PROVE  StatusSoFar'
<1>1. Reaped' = Reaped /\ Idx' = Idx /\ opt' = opt
  BY ReapedStays, TableStays, Zenon
<1>2. \A i \in Reaped : wstat'[i] = wstat[i]
  BY WstatStays, Zenon DEF Reaped
<1>3. \A i \in Reaped : exit_status(wstat[i])' = exit_status(wstat[i])
  BY <1>2, Zenon DEF exit_status
<1>4. \A b : Explained(b)' <=> Explained(b)
  BY <1>1, <1>3, Zenon DEF Explained
<1> QED BY <1>1, <1>3, <1>4, WstatStays, Zenon DEF StatusSoFar

\* wait_one() adds the status of the checker it reaped, and nothing else.
LEMMA StatusReap ==
    ASSUME Core, StatusSoFar, NEW k \in DOMAIN instance_list, Reap(k)
    PROVE  StatusSoFar'
<1>0. FsckTypes /\ InstancesTracked /\ Next
  BY Zenon DEF Core, Next, FsckStep, WaitStep
<1>1. Idx' = Idx /\ opt' = opt
  BY <1>0, TableStays, Zenon
<1>2. PICK i \in Idx : i = instance_list[k]
  BY <1>0 DEF FsckTypes
<1>3. child' = [child EXCEPT ![i] = "reaped"] /\ wstat' = wstat
  BY <1>2, Zenon DEF Reap
<1>4. Reaped' = Reaped \union {i}
  BY <1>0, <1>1, <1>2, <1>3, Zenon DEF Reaped, FsckTypes
<1>5. PICK bits : bits = exit_status(wstat[i])
  BY Zenon
<1>6. Waiting /\ Collected(bits)
  BY <1>2, <1>5, Zenon DEF Reap, Waiting
<1>7. Total' = Total \union bits /\ (Waiting' /\ wflags' = "single" => gstatus' = {})
  <2>1. CASE wflags = "single"
    <3>1. status' = status \union bits /\ pc' = ret /\ gstatus' = gstatus /\ gstatus = {} /\ wflags' = wflags
      BY <1>6, <2>1, Zenon DEF Collected, StatusSoFar
    <3> QED BY <1>6, <3>1, Zenon DEF Total
  <2>2. CASE wflags # "single"
    <3>1. gstatus' = gstatus \union bits /\ status' = status /\ wflags' = wflags /\ Waiting'
      BY <1>6, <2>2, Zenon DEF Collected, Waiting
    <3> QED BY <1>6, <2>2, <3>1, Zenon DEF Total
  <2> QED BY <2>1, <2>2, Zenon
<1>8. \A j \in Reaped' : exit_status(wstat[j])' = exit_status(wstat[j])
  BY <1>3, Zenon DEF exit_status
<1>9. \A b : Explained(b) => Explained(b)'
  BY <1>4, <1>8, Zenon DEF Explained
<1>10. \A b \in bits : Explained(b)'
  BY <1>4, <1>5, <1>8, Zenon DEF Explained
<1> QED BY <1>0, <1>1, <1>4, <1>5, <1>7, <1>8, <1>9, <1>10, WstatStays, ZenonT(30) DEF StatusSoFar

\* Every step keeps StatusSoFar.
LEMMA StatusStep ==
    ASSUME Core, StatusSoFar, Next
    PROVE  StatusSoFar'
<1>0. FsckTypes /\ InstancesTracked /\ Callers /\ StartedBehind
  BY Zenon DEF Core
<1>t. opt' = opt /\ Idx' = Idx
  BY TableStays, Zenon
<1>1. CASE \E k \in DOMAIN instance_list : Reap(k)
  BY <1>1, StatusReap, Zenon
<1>2. CASE WaitFake
  <2>1. opt.noexecute /\ (wflags = "single" => gstatus' = gstatus) /\ wflags' = wflags /\ Waiting
    BY <1>2, Zenon DEF WaitFake, Collected, Waiting
  <2> QED BY <1>t, <2>1, WstatStays, Zenon DEF StatusSoFar
<1>3. CASE ~Collecting /\ (WaitStep \/ Outside)
  <2>1. WaitNothing \/ NothingExited \/ EnterWait4 \/ Interrupted \/ (\E i \in Idx : ReapHelper(i)) \/ Outside
    BY <1>3, Zenon DEF WaitStep, Collecting
  <2>2. CASE WaitNothing \/ NothingExited
    <3>1. Waiting /\ status' = status \union gstatus /\ pc' = ret
      BY <2>2, Zenon DEF WaitNothing, NothingExited, ReturnFromWait, Waiting
    <3>2. ~Waiting'
      BY <1>0, <3>1, Zenon DEF Callers, Waiting
    <3>3. Total' = Total
      BY <3>1, <3>2, Zenon DEF Total
    <3> QED BY <1>3, <3>2, <3>3, StatusKept, ZenonT(30)
  <2>3. CASE EnterWait4 \/ Interrupted \/ (\E i \in Idx : ReapHelper(i)) \/ Outside
    <3>1. (Waiting' <=> Waiting) /\ UNCHANGED <<status, gstatus, wflags>>
      BY <2>3, ZenonT(30) DEF EnterWait4, Interrupted, ReapHelper, Outside, Signal, Exited, CheckerExits, HelperExits, Waiting,
                  waitVars, vars
    <3>2. Total' = Total
      BY <3>1, Zenon DEF Total
    <3> QED BY <1>3, <3>1, <3>2, StatusKept, ZenonT(30) DEF StatusSoFar
  <2> QED BY <2>1, <2>2, <2>3, ZenonT(30)
<1>4. CASE ParseArgv \/ CheckAllStep \/ DeviceStep
  <2>1. ~Collecting
    <3>1. ~Waiting
      BY <1>4, StatusGrows, ZenonT(30) DEF ParseArgv, Waiting
    <3> QED BY <3>1, Zenon DEF Collecting, WaitFake, Reap, Waiting
  <2>2. Reaped' = Reaped
    BY <2>1, ReapedStays, Zenon
  <2>3. \A i \in Reaped : wstat'[i] = wstat[i]
    BY WstatStays, Zenon DEF Reaped
  <2>4. \A i \in Reaped : exit_status(wstat[i])' = exit_status(wstat[i])
    BY <2>3, Zenon DEF exit_status
  <2>5. \A b : Explained(b)' <=> Explained(b)
    BY <2>2, <2>4, Zenon DEF Explained
  <2>6. CASE CheckAllStep \/ DeviceStep
    <3>1. /\ status \subseteq status' /\ status' \subseteq status \union {FSCK_EX_ERROR}
          /\ ~Waiting /\ (Waiting' => gstatus' = {})
      BY <2>6, StatusGrows, Zenon
    <3>2. Total \subseteq Total' /\ Total' \subseteq Total \union {FSCK_EX_ERROR}
      BY <3>1, Zenon DEF Total
    <3>3. Explained(FSCK_EX_ERROR)'
      BY Zenon DEF Explained
    <3> QED BY <1>t, <2>2, <2>4, <2>5, <3>1, <3>2, <3>3, WstatStays, ZenonT(30) DEF StatusSoFar
  <2>7. CASE ParseArgv
    <3>1. pc = "start" /\ pc' \in {"exit", "dev", "scan"} /\ status' \in {status, {FSCK_EX_USAGE}}
      BY <2>7, Zenon DEF ParseArgv
    <3>2. Reaped = {} /\ ~Waiting /\ ~Waiting'
      BY <1>0, <3>1, Zenon DEF StartedBehind, Point, Waiting, Reaped
    <3>3. Total' \in {Total, {FSCK_EX_USAGE}}
      BY <3>1, <3>2, ZenonT(30) DEF Total
    <3>4. Explained(FSCK_EX_USAGE)'
      BY Zenon DEF Explained
    <3> QED BY <1>t, <2>2, <2>5, <3>2, <3>3, <3>4, WstatStays, ZenonT(30) DEF StatusSoFar
  <2> QED BY <1>4, <2>6, <2>7, ZenonT(30)
<1> QED BY <1>1, <1>2, <1>3, <1>4, Steps, ZenonT(30) DEF Collecting

\* The status collected so far is that of the reaped checkers.
LEMMA StatusAlways == Spec => []StatusSoFar
<1>1. Init => StatusSoFar
  <2> SUFFICES ASSUME Init PROVE StatusSoFar
    BY Zenon
  <2>1. ~Waiting /\ status = {} /\ Reaped = {}
    BY Zenon DEF Init, Waiting, Reaped
  <2>2. wstat \in [Idx -> WaitStatus \union {NoWaitStatus}]
    BY Zenon DEF Init
  <2> QED BY <2>1, <2>2, Zenon DEF StatusSoFar, Total
<1>2. Core /\ StatusSoFar /\ [Next]_vars => StatusSoFar'
  <2> SUFFICES ASSUME Core, StatusSoFar, [Next]_vars PROVE StatusSoFar'
    BY Zenon
  <2>1. CASE UNCHANGED vars
    <3>1. UNCHANGED <<opt, tab, pc, child, wstat, status, gstatus, wflags>>
      BY <2>1, Zenon DEF vars, jobVars, procVars, waitVars
    <3>2. Idx' = Idx /\ (Waiting' <=> Waiting) /\ \A i : exit_status(wstat[i])' = exit_status(wstat[i])
      BY <3>1, Zenon DEF Idx, Waiting, exit_status
    <3>3. Reaped' = Reaped /\ Total' = Total
      BY <3>1, <3>2, Zenon DEF Reaped, Total
    <3>4. \A b : Explained(b)' <=> Explained(b)
      BY <3>2, <3>3, Zenon DEF Explained
    <3> QED BY <3>1, <3>2, <3>3, <3>4, ZenonT(30) DEF StatusSoFar
  <2> QED BY <2>1, StatusStep, ZenonT(30)
<1> QED BY <1>1, <1>2, CoreAlways, PTL DEF Spec

\* At the exit nothing is left to collect, so the status is complete.
LEMMA StatusAtExit ==
    ASSUME Core, Settled, StatusSoFar
    PROVE  ExitStatusIsOr
<1> SUFFICES ASSUME pc = "exit", ~cancel_requested, ~opt.noexecute
             PROVE  LET all == UNION {StartedStatus(i) : i \in Idx}
                    IN /\ \A i \in Idx : child[i] \in {"none", "reaped"}
                       /\ all \subseteq status
                       /\ status \subseteq all \union {FSCK_EX_ERROR, FSCK_EX_USAGE}
  BY Zenon DEF ExitStatusIsOr
<1>1. FsckTypes /\ InstancesTracked
  BY Zenon DEF Core
<1>2. instance_list = <<>>
  BY Zenon DEF Settled
<1>3. Listed = {}
  BY <1>1, <1>2, NoneListed, ZenonT(30)
<1>4. \A i \in Idx : child[i] \in {"none", "reaped"}
  BY <1>1, <1>3, Zenon DEF FsckTypes, InstancesTracked
<1>5. Total = status
  BY Zenon DEF Total, Waiting
<1>6. ASSUME NEW i \in Idx PROVE StartedStatus(i) \subseteq status
  <2>1. CASE child[i] = "none"
    BY <2>1, Zenon DEF StartedStatus
  <2>2. CASE child[i] = "reaped"
    BY <1>5, <2>2, ZenonT(30) DEF StartedStatus, StatusSoFar, Reaped
  <2> QED BY <1>4, <2>1, <2>2, ZenonT(30)
<1>7. ASSUME NEW b \in status
      PROVE  b \in (UNION {StartedStatus(i) : i \in Idx}) \union {FSCK_EX_ERROR, FSCK_EX_USAGE}
  <2>1. CASE b \in {FSCK_EX_ERROR, FSCK_EX_USAGE}
    BY <2>1, Zenon
  <2>2. CASE \E i \in Reaped : b \in exit_status(wstat[i])
    <3>1. PICK i \in Reaped : b \in exit_status(wstat[i])
      BY <2>2, Zenon
    <3>2. i \in Idx /\ b \in StartedStatus(i)
      BY <3>1, Zenon DEF Reaped, StartedStatus
    <3> QED BY <3>2, Zenon
  <2>3. Explained(b)
    BY <1>5, Zenon DEF StatusSoFar
  <2> QED BY <2>1, <2>2, <2>3, ZenonT(30) DEF Explained
<1> QED BY <1>4, <1>6, <1>7, ZenonT(30)

\* For every table and every way the checkers end: an fsck that is not canceled
\* exits with every checker collected, and with the OR of their statuses.
THEOREM ExitStatusIsOrAlways == Spec => []ExitStatusIsOr
<1>1. Core /\ Settled /\ StatusSoFar => ExitStatusIsOr
  BY StatusAtExit, Zenon
<1> QED BY <1>1, CoreAlways, SettledAlways, StatusAlways, PTL

-----------------------------------------------------------------------------
(* The root filesystem *)

\* Without -P, the root was checked before the walk, and stays as it was found.
RootBefore ==
    CheckingAll /\ ~opt.parallel_root =>
        /\ Point \in Walking \union {"exit"} =>
               \A r \in Idx : IsFirstRoot(r) => child[r] \in {"none", "reaped"}
        /\ Point \in Walking =>
               \A r \in Idx : IsFirstRoot(r) =>
                   /\ r \in done
                   /\ child[r] = "reaped" /\ ~opt.noexecute => exit_status(wstat[r]) \subseteq {FSCK_EX_NONDESTRUCT}
        /\ Point = "exit" => RootGate

\* There is one first root line at most.
LEMMA OneFirstRoot ==
    ASSUME NEW r \in Idx, NEW s \in Idx, IsFirstRoot(r), IsFirstRoot(s)
    PROVE  r = s
BY DEF IsFirstRoot, Roots, Idx

\* RootGate follows from RootBefore, wherever the process is.
LEMMA GateShut ==
    ASSUME Core, RootBefore
    PROVE  RootGate
<1>0. FsckTypes /\ StartedBehind /\ Callers
  BY Zenon DEF Core
<1> SUFFICES ASSUME NEW r \in Idx, CheckingAll, ~opt.parallel_root, IsFirstRoot(r), child[r] = "reaped", ~opt.noexecute,
                    ~(exit_status(wstat[r]) \subseteq {FSCK_EX_NONDESTRUCT}), NEW i \in Idx \ {r}
             PROVE  child[i] = "none"
  BY Zenon DEF RootGate
<1>1. Point \in {"start", "scan", "root", "rootend", "exit"} \union Walking
  BY <1>0, Zenon DEF Callers, Point, Waiting, Walking
<1>2. Point \notin Walking
  BY Zenon DEF RootBefore
<1>3. CASE Point \in {"start", "scan", "root"}
  BY <1>0, <1>3, ZenonT(30) DEF StartedBehind
<1>4. CASE Point = "rootend"
  BY <1>0, <1>4, OneFirstRoot, ZenonT(30) DEF StartedBehind
<1>5. CASE Point = "exit"
  BY <1>5, Zenon DEF RootBefore, RootGate
<1> QED BY <1>1, <1>2, <1>3, <1>4, <1>5, ZenonT(30)

\* Every step keeps RootBefore.
LEMMA RootBeforeStep ==
    ASSUME Core, Settled, StatusSoFar, RootBefore, Next
    PROVE  RootBefore'
<1> FsckTypes /\ InstancesTracked /\ Callers /\ StartedBehind
  BY Zenon DEF Core
<1> /\ opt' = opt /\ tab' = tab /\ Idx' = Idx /\ (CheckingAll' <=> CheckingAll)
    /\ \A i : IsFirstRoot(i)' <=> IsFirstRoot(i)
  BY TableStays, Zenon
<1>w. \A r \in Idx : child[r] # "run" => exit_status(wstat[r])' = exit_status(wstat[r])
  BY WstatStays, Zenon DEF exit_status
<1> SUFFICES ASSUME CheckingAll, ~opt.parallel_root PROVE RootBefore'
  BY Zenon DEF RootBefore
<1>1. CASE Point' \notin Walking \union {"exit"}
  BY <1>1, Zenon DEF RootBefore, Walking
\* the list is empty
<1>2. CASE ParseArgv \/ RootEnd \/ SkipRootCheck
  <2> USE <1>2
  <2>1. child' = child /\ wstat' = wstat
    BY Zenon DEF ParseArgv, RootEnd, SkipRootCheck, procVars
  <2>2. instance_list = <<>>
    <3>1. CASE RootEnd
      BY <3>1, Zenon DEF RootEnd, Settled
    <3>2. CASE ParseArgv \/ SkipRootCheck
      BY <3>2, Moves, NoneStarted, ZenonT(30) DEF StartedBehind
    <3> QED BY <3>1, <3>2, Zenon
  <2>3. \A i \in Idx : child[i] \in {"none", "reaped"}
    BY <2>2, NoneListed, Zenon DEF FsckTypes, InstancesTracked
  <2>4. Point' \in Walking => \A r \in Idx : IsFirstRoot(r) => r \in done'
    <3>1. CASE ParseArgv
      BY <3>1, Moves, ZenonT(30) DEF Walking
    <3>2. CASE RootEnd
      <4>1. CASE status \subseteq {FSCK_EX_NONDESTRUCT}
        BY <3>2, <4>1, Zenon DEF RootEnd, AfterRoot
      <4>2. CASE ~(status \subseteq {FSCK_EX_NONDESTRUCT})
        BY <3>2, <4>2, ZenonT(30) DEF RootEnd, Point, Waiting, Walking
      <4> QED BY <4>1, <4>2, ZenonT(30)
    <3>3. CASE SkipRootCheck
      BY <3>3, Zenon DEF SkipRootCheck, AfterRoot
    <3> QED BY <3>1, <3>2, <3>3, ZenonT(30)
  <2>5. Point' \in Walking =>
            \A r \in Idx : child[r] = "reaped" /\ ~opt.noexecute => exit_status(wstat[r]) \subseteq {FSCK_EX_NONDESTRUCT}
    <3>1. CASE ParseArgv \/ SkipRootCheck
      BY <3>1, Moves, Zenon DEF StartedBehind
    <3>2. CASE RootEnd
      <4>1. pc = "rootend" /\ (Point' \in Walking => status \subseteq {FSCK_EX_NONDESTRUCT})
        BY <3>2, ZenonT(30) DEF RootEnd, Point, Waiting, Walking
      <4>2. Total = status
        BY <4>1, Zenon DEF Total, Waiting
      <4> QED BY <4>1, <4>2, ZenonT(30) DEF StatusSoFar, Reaped
    <3> QED BY <3>1, <3>2, ZenonT(30)
  <2>6. \A i \in Idx : ~opt.parallel_root /\ child[i] # "none" => IsFirstRoot(i)
    BY Moves, Zenon DEF StartedBehind
  <2>7. RootGate'
    BY <2>1, <2>6, OneFirstRoot, ZenonT(30) DEF RootGate
  <2>8. \A r \in Idx : exit_status(wstat[r])' = exit_status(wstat[r])
    BY <2>1, Zenon DEF exit_status
  <2> QED BY <2>1, <2>3, <2>4, <2>5, <2>7, <2>8, ZenonT(30) DEF RootBefore
\* the walk goes on, and the first root is left alone
<1>3. ASSUME Point \in Walking, done \subseteq done',
             \A r \in Idx : IsFirstRoot(r) => child'[r] = child[r]
      PROVE  /\ \A r \in Idx : IsFirstRoot(r) => child'[r] \in {"none", "reaped"}
             /\ \A r \in Idx : IsFirstRoot(r) =>
                    /\ r \in done'
                    /\ child'[r] = "reaped" /\ ~opt.noexecute =>
                          exit_status(wstat[r])' \subseteq {FSCK_EX_NONDESTRUCT}
  BY <1>w, <1>3, Zenon DEF RootBefore
<1>4. ASSUME Point \in Walking, Point' \in Walking, done \subseteq done',
             \A r \in Idx : IsFirstRoot(r) => child'[r] = child[r]
      PROVE  RootBefore'
  <2>1. Point' # "exit"
    BY <1>4, Zenon DEF Walking
  <2> QED BY <1>3, <1>4, <2>1, ZenonT(30) DEF RootBefore
<1>5. CASE PassBegin \/ WalkEnd \/ SkipDone \/ DeferPass \/ SkipMounted \/ DeferDisk \/ WaitAfterWalk \/ AllPassesDone \/ PassEnd
  <2>1. Point \in Walking /\ Point' \in Walking
    BY <1>5, Moves, Zenon DEF Walking
  <2>2. child' = child /\ done \subseteq done'
    BY <1>5, Zenon DEF PassBegin, WalkEnd, SkipDone, DeferPass, SkipMounted, DeferDisk, WaitAfterWalk, AllPassesDone, PassEnd,
                procVars, dataVars
  <2> QED BY <1>4, <2>1, <2>2, Zenon
<1>6. CASE Spawn
  <2>1. Point \in Walking /\ Point' \in Walking /\ done \subseteq done'
    BY <1>6, Moves, Zenon DEF Walking, Spawn
  <2>2. itr \in Idx /\ itr \notin done /\ \A j \in Idx : j # itr => child'[j] = child[j]
    BY <1>6, SpawnStep, StartsTracked, Zenon DEF Quiet
  <2>3. \A r \in Idx : IsFirstRoot(r) => r # itr
    BY <2>1, <2>2, Zenon DEF RootBefore
  <2> QED BY <1>4, <2>1, <2>2, <2>3, Zenon
<1>7. CASE FinalWait
  <2>1. Point \in Walking /\ Point' = "exit" /\ child' = child /\ done' = done
    BY <1>7, Moves, Zenon DEF Walking, FinalWait, procVars, dataVars
  <2>2. RootGate'
    BY <1>3, <2>1, Zenon DEF RootGate
  <2>3. Point' \notin Walking
    BY <2>1, Zenon DEF Walking
  <2> QED BY <1>3, <2>1, <2>2, <2>3, Zenon DEF RootBefore
<1>8. CASE WaitStep \/ Outside
  <2>1. Point' = Point /\ done' = done
    BY <1>8, PointStays, Zenon DEF dataVars
  <2>2. \A i \in Idx : child[i] \in {"none", "reaped"} => child'[i] = child[i]
    <3>1. CASE child' = child
      BY <3>1, Zenon
    <3>2. CASE Collecting
      <4>1. PICK i \in Idx : Collects(i)
        BY <3>2, CollectingTracked, Zenon
      <4>2. child' = [child EXCEPT ![i] = "reaped"] /\ child[i] \notin {"none", "reaped"}
        BY <4>1, Zenon DEF Collects, InstancesTracked
      <4> QED BY <4>2, Zenon DEF FsckTypes
    <3>3. CASE \E i \in Idx : CheckerExits(i)
      BY <3>3, Zenon DEF CheckerExits, FsckTypes
    <3>4. ~\E i \in Idx : Starts(i)
      <4>1. \A i \in Idx : Starts(i) => child[i] = "none" /\ child'[i] # "none"
        BY StartsTracked, Zenon DEF Starts
      <4> QED BY <1>8, <4>1, ChildStays, Zenon
    <3> QED BY <3>1, <3>2, <3>3, <3>4, Kinds, ZenonT(30) DEF Quiet
  <2>3. CASE Point \in Walking
    BY <1>4, <2>1, <2>2, <2>3, Zenon DEF RootBefore
  <2>4. CASE Point = "exit"
    <3>1. \A r \in Idx : IsFirstRoot(r) => child[r] \in {"none", "reaped"} /\ child'[r] = child[r]
      BY <2>2, <2>4, Zenon DEF RootBefore
    <3>2. \A i \in Idx : child'[i] = "none" <=> child[i] = "none"
      BY <1>8, ChildStays, Zenon
    <3>3. RootGate
      BY <2>4, Zenon DEF RootBefore
    <3>4. RootGate'
      BY <1>w, <3>1, <3>2, <3>3, ZenonT(30) DEF RootGate
    <3>5. Point' \notin Walking
      BY <2>1, <2>4, Zenon DEF Walking
    <3> QED BY <3>1, <3>4, <3>5, ZenonT(30) DEF RootBefore
  <2> QED BY <1>1, <2>1, <2>3, <2>4, ZenonT(30)
<1>9. CASE InitialScan \/ CheckRoot
  BY <1>1, <1>9, Moves, Zenon DEF Walking
<1>10. CASE DeviceStep
  <2>1. Point = "dev"
    BY <1>10, Moves, Zenon DEF DeviceStep
  <2> QED BY <2>1, Zenon DEF Callers
<1> QED BY <1>2, <1>5, <1>6, <1>7, <1>8, <1>9, <1>10, Steps, ZenonT(30) DEF CheckAllStep

\* RootBefore holds always.
LEMMA RootBeforeAlways == Spec => []RootBefore
<1>1. Init => RootBefore
  BY Zenon DEF Init, RootBefore, Point, Waiting, Walking
<1>2. Core /\ Settled /\ StatusSoFar /\ RootBefore /\ [Next]_vars => RootBefore'
  <2> SUFFICES ASSUME Core, Settled, StatusSoFar, RootBefore, [Next]_vars PROVE RootBefore'
    BY Zenon
  <2>1. CASE UNCHANGED vars
    <3>1. UNCHANGED <<opt, tab, pc, ret, child, wstat, done>>
      BY <2>1, Zenon DEF vars, jobVars, procVars, waitVars, dataVars
    <3>2. /\ Idx' = Idx /\ Roots' = Roots /\ Point' = Point /\ (CheckingAll' <=> CheckingAll)
          /\ \A i : exit_status(wstat[i])' = exit_status(wstat[i])
      BY <3>1, Zenon DEF Idx, Roots, Point, Waiting, CheckingAll, exit_status
    <3>3. \A i : IsFirstRoot(i)' <=> IsFirstRoot(i)
      BY <3>2, Zenon DEF IsFirstRoot
    <3>4. RootGate => RootGate'
      BY <3>1, <3>2, <3>3, ZenonT(30) DEF RootGate
    <3> QED BY <3>1, <3>2, <3>3, <3>4, Zenon DEF RootBefore
  <2> QED BY <2>1, RootBeforeStep, Zenon
<1> QED BY <1>1, <1>2, CoreAlways, SettledAlways, StatusAlways, PTL DEF Spec

\* For every table: without -P, nothing else is ever checked by a fsck -A whose
\* root filesystem was left with errors.
THEOREM RootGateAlways == Spec => []RootGate
<1>1. Core /\ RootBefore => RootGate
  BY GateShut, Zenon
<1> QED BY <1>1, CoreAlways, RootBeforeAlways, PTL

-----------------------------------------------------------------------------
(* Every selected filesystem *)

Errs == FSCK_EX_ERROR \in status

\* A filesystem that is done was checked, or need not be, or an error is reported.
DoneChecked ==
    /\ Point = "rootend" => \A r \in Idx : IsFirstRoot(r) => child[r] # "none" \/ Errs
    /\ Point \in Walking => \A i \in Idx : i \in done /\ MustCheck(i) => child[i] # "none" \/ Errs
    /\ Point = "exit" /\ CheckingAll =>
           \/ cancel_requested
           \/ ~(status \subseteq {FSCK_EX_NONDESTRUCT})
           \/ \A i \in Idx : MustCheck(i) => child[i] # "none"

\* fsck_device() starts the checker of a filesystem that is not ignored, or reports.
LEMMA DeviceChecked ==
    ASSUME FsckTypes, InstancesTracked, NEW i \in Idx, ~ignore(tab[i]), fsck_device(i), Quiet \/ Starts(i)
    PROVE  child'[i] # "none" \/ Errs'
<1>1. checker_type(tab[i]) = fs_interpret_type(tab[i]) /\ find_fsck(checker_type(tab[i]))
  BY Zenon DEF ignore, checker_type
<1>2. Errs' \/ execute(i)
  BY <1>1, Zenon DEF fsck_device, Errs
<1>3. CASE Starts(i)
  BY <1>3, StartsTracked, Zenon
<1>4. CASE Quiet /\ execute(i)
  <2>1. child' = [child EXCEPT ![i] = IF opt.noexecute THEN "fake" ELSE "run"]
    BY <1>4, Zenon DEF execute
  <2> QED BY <2>1, Zenon DEF FsckTypes
<1> QED BY <1>2, <1>3, <1>4, Zenon

\* No step forgets that a checker was started, or a bit of the status.
LEMMA StartedStays ==
    ASSUME Core, Next, Point # "start"
    PROVE  /\ \A i \in Idx : child[i] # "none" => child'[i] # "none"
           /\ status \subseteq status'
<1>0. FsckTypes /\ InstancesTracked
  BY Zenon DEF Core
<1>1. \A i \in Idx : child[i] # "none" => child'[i] # "none"
  <2>1. CASE WaitStep \/ Outside
    BY <2>1, ChildStays, Zenon
  <2>2. ASSUME NEW i \in Idx, Starts(i) PROVE \A j \in Idx : child[j] # "none" => child'[j] # "none"
    BY <1>0, <2>2, StartsTracked, Zenon DEF Starts
  <2>3. CASE Quiet
    BY <2>3, Zenon DEF Quiet
  <2>4. CASE ~(WaitStep \/ Outside)
    BY <2>2, <2>3, <2>4, Kinds, Zenon DEF Collecting, WaitStep, Outside
  <2> QED BY <2>1, <2>4, Zenon
<1>2. status \subseteq status'
  <2>1. CASE CheckAllStep \/ DeviceStep
    BY <2>1, StatusGrows, Zenon
  <2>2. CASE Outside
    BY <2>2, Zenon DEF Outside, Signal, Exited, CheckerExits, HelperExits, vars
  <2>3. CASE WaitFake \/ \E k \in DOMAIN instance_list : Reap(k)
    <3>1. PICK bits : Collected(bits)
      BY <2>3, Zenon DEF WaitFake, Reap
    <3>2. status' \in {status, status \union bits}
      BY <3>1, Zenon DEF Collected
    <3> QED BY <3>2, Zenon
  <2>4. CASE WaitNothing \/ NothingExited \/ EnterWait4 \/ Interrupted \/ \E i \in Idx : ReapHelper(i)
    BY <2>4, Zenon DEF WaitNothing, NothingExited, EnterWait4, Interrupted, ReapHelper, ReturnFromWait
  <2>5. ~ParseArgv
    BY Moves, Zenon
  <2> QED BY <2>1, <2>2, <2>3, <2>4, <2>5, Steps, ZenonT(30) DEF WaitStep
<1> QED BY <1>1, <1>2, Zenon

\* Every step keeps DoneChecked.
LEMMA CheckedStep ==
    ASSUME Core, Walked, DoneChecked, Next
    PROVE  DoneChecked'
<1>0. FsckTypes /\ InstancesTracked /\ Callers /\ StartedBehind
  BY Zenon DEF Core
<1> /\ opt' = opt /\ tab' = tab /\ Idx' = Idx /\ Ignored' = Ignored /\ Roots' = Roots
    /\ (CheckingAll' <=> CheckingAll) /\ \A i : IsFirstRoot(i)' <=> IsFirstRoot(i)
    /\ \A i : MustCheck(i)' <=> MustCheck(i)
  BY TableStays, Zenon
<1>s. Point # "start" => /\ \A i \in Idx : child[i] # "none" => child'[i] # "none"
                         /\ status \subseteq status' /\ (Errs => Errs')
  BY StartedStays, Zenon DEF Errs
<1>c. cancel_requested => cancel_requested'
  BY CancelStays, Zenon
<1>i. \A i \in Ignored : ~MustCheck(i)
  BY Zenon DEF Ignored, MustCheck
<1>1. CASE Point' \notin Walking \union {"rootend", "exit"}
  BY <1>1, Zenon DEF DoneChecked
<1>2. ASSUME Point' = Point, done' = done, Point # "start" PROVE DoneChecked'
  BY <1>s, <1>c, <1>2, ZenonT(30) DEF DoneChecked
<1>3. CASE WaitStep \/ Outside
  <2>1. Point' = Point /\ done' = done
    BY <1>3, PointStays, ZenonT(30) DEF dataVars
  <2>2. CASE Point = "start"
    BY <1>1, <2>1, <2>2, ZenonT(30) DEF Walking
  <2> QED BY <1>2, <2>1, <2>2, ZenonT(30)
<1>4. ASSUME Point \in Walking, Point' \in Walking,
             \A i \in done' : i \in done \/ (i \in Idx => ~MustCheck(i) \/ child'[i] # "none" \/ Errs')
      PROVE  DoneChecked'
  <2>1. Point # "start" /\ Point' \notin {"rootend", "exit"}
    BY <1>4, Zenon DEF Walking
  <2> QED BY <1>s, <1>4, <2>1, ZenonT(30) DEF DoneChecked
<1>5. CASE PassBegin \/ WalkEnd \/ SkipDone \/ DeferPass \/ DeferDisk \/ WaitAfterWalk \/ AllPassesDone \/ PassEnd
  <2>1. Point \in Walking /\ Point' \in Walking
    BY <1>5, Moves, ZenonT(30) DEF Walking
  <2>2. done' = done
    BY <1>5, ZenonT(30) DEF PassBegin, WalkEnd, SkipDone, DeferPass, DeferDisk, WaitAfterWalk, AllPassesDone, PassEnd, dataVars
  <2> QED BY <1>4, <2>1, <2>2, ZenonT(30)
<1>6. CASE SkipMounted
  <2>1. Point \in Walking /\ Point' \in Walking
    BY <1>6, Moves, Zenon DEF Walking
  <2>2. done' = done \union {itr} /\ ~MustCheck(itr)
    BY <1>6, Zenon DEF SkipMounted, MustCheck
  <2> QED BY <1>4, <2>1, <2>2, ZenonT(30)
<1>7. CASE Spawn
  <2>1. Point \in Walking /\ Point' \in Walking
    BY <1>7, Moves, ZenonT(30) DEF Walking
  <2>2. done' = done \union {itr} /\ itr \in Idx /\ itr \notin done /\ fsck_device(itr) /\ (Quiet \/ Starts(itr))
    BY <1>7, SpawnStep, ZenonT(30) DEF Spawn
  <2>3. ~ignore(tab[itr])
    BY <2>1, <2>2, ZenonT(30) DEF Walked, PassesBehind, Ignored
  <2>4. child'[itr] # "none" \/ Errs'
    BY <1>0, <2>2, <2>3, DeviceChecked, ZenonT(30)
  <2> QED BY <1>4, <2>1, <2>2, <2>4, ZenonT(30)
<1>8. CASE CheckRoot
  <2>1. Point = "root" /\ Point' = "rootend"
    BY <1>8, Moves, ZenonT(30)
  <2>2. PICK r \in Idx : IsFirstRoot(r) /\ r \notin done /\ fsck_device(r) /\ (Quiet \/ Starts(r))
    BY <1>8, RootStep, ZenonT(30)
  <2>3. ~ignore(tab[r])
    BY <2>1, <2>2, ZenonT(30) DEF Walked, WalkBegins, Ignored
  <2>4. child'[r] # "none" \/ Errs'
    BY <1>0, <2>2, <2>3, DeviceChecked, ZenonT(30)
  <2>5. \A q \in Idx : IsFirstRoot(q) => q = r
    BY <2>2, OneFirstRoot, ZenonT(30)
  <2> QED BY <2>1, <2>4, <2>5, ZenonT(30) DEF DoneChecked, Walking
<1>9. CASE RootEnd
  <2>1. Point = "rootend" /\ done = Ignored /\ child' = child /\ status' = status
    BY <1>9, Moves, ZenonT(30) DEF RootEnd, Walked, WalkBegins, procVars
  <2>2. CASE status \subseteq {FSCK_EX_NONDESTRUCT}
    <3>1. Point' = "pass" /\ done' = AfterRoot(done \union {r \in Idx : IsFirstRoot(r)})
      BY <1>9, <2>2, ZenonT(30) DEF RootEnd, Point, Waiting
    <3>2. \A i \in done' : i \in Ignored \/ (i \in Idx /\ IsFirstRoot(i)) \/ (opt.skip_root /\ i \in Roots)
      BY <2>1, <3>1, ZenonT(30) DEF AfterRoot
    <3>3. \A i \in Roots : opt.skip_root => ~MustCheck(i)
      BY Zenon DEF Roots, MustCheck
    <3>4. \A i \in Idx : i \in done' /\ MustCheck(i) => child[i] # "none" \/ Errs
      BY <1>i, <2>1, <3>2, <3>3, ZenonT(30) DEF DoneChecked
    <3> QED BY <2>1, <3>1, <3>4, ZenonT(30) DEF DoneChecked, Errs
  <2>3. CASE ~(status \subseteq {FSCK_EX_NONDESTRUCT})
    <3>1. Point' = "exit"
      BY <1>9, <2>3, ZenonT(30) DEF RootEnd, Point, Waiting
    <3> QED BY <2>1, <2>3, <3>1, ZenonT(30) DEF DoneChecked, Walking
  <2> QED BY <2>2, <2>3, ZenonT(30)
<1>10. CASE SkipRootCheck
  <2>1. Point = "root" /\ Point' = "pass" /\ done = Ignored
    BY <1>10, Moves, ZenonT(30) DEF Walked, WalkBegins
  <2>2. PICK first : /\ first = {r \in Idx : ~opt.parallel_root /\ IsFirstRoot(r)}
                     /\ \A r \in first : opt.skip_root \/ r \in done \/ is_skipped_mounted(r)
                     /\ done' = AfterRoot(done \union first)
    BY <1>10, ZenonT(30) DEF SkipRootCheck
  <2>3. \A i \in Roots : opt.skip_root => ~MustCheck(i)
    BY Zenon DEF Roots, MustCheck
  <2>4. first \subseteq Roots
    BY <2>2, ZenonT(30) DEF IsFirstRoot
  <2>5. \A i \in first : ~MustCheck(i)
    BY <1>i, <2>1, <2>2, <2>3, <2>4, ZenonT(30) DEF MustCheck
  <2>6. \A i \in done' : ~MustCheck(i)
    BY <1>i, <2>1, <2>2, <2>3, <2>5, ZenonT(30) DEF AfterRoot
  <2> QED BY <2>1, <2>6, ZenonT(30) DEF DoneChecked
<1>11. CASE FinalWait
  <2> Point = "final" /\ Point' = "exit" /\ Point \in Walking /\ status' = status /\ child' = child
    BY <1>11, Moves, ZenonT(30) DEF Walking, FinalWait, procVars
  <2>2. CASE cancel_requested
    BY <1>c, <2>2, ZenonT(30) DEF DoneChecked, Walking
  <2>3. CASE Errs
    <3>1. ~(status \subseteq {FSCK_EX_NONDESTRUCT})
      BY <2>3 DEF Errs, FSCK_EX_ERROR, FSCK_EX_NONDESTRUCT
    <3> QED BY <3>1, Zenon DEF DoneChecked, Walking
  <2>4. CASE ~cancel_requested /\ ~Errs
    <3>1. Idx \subseteq done
      BY <2>4, Zenon DEF Walked, WalkLines
    <3>2. \A i \in Idx : MustCheck(i) => child[i] # "none"
      BY <2>4, <3>1, ZenonT(30) DEF DoneChecked
    <3> QED BY <3>2, ZenonT(30) DEF DoneChecked, Walking
  <2> QED BY <2>2, <2>3, <2>4, ZenonT(30)
<1>12. CASE ParseArgv
  <2>1. CASE MixedNegation(opt.tlist)
    <3>1. Point' = "exit" /\ status' = {FSCK_EX_USAGE}
      BY <1>12, <2>1, Zenon DEF ParseArgv, Point, Waiting
    <3>2. ~(status' \subseteq {FSCK_EX_NONDESTRUCT})
      BY <3>1 DEF FSCK_EX_USAGE, FSCK_EX_NONDESTRUCT
    <3> QED BY <3>1, <3>2, Zenon DEF DoneChecked, Walking
  <2>2. CASE ~MixedNegation(opt.tlist)
    <3>1. Point' \in {"dev", "scan"}
      BY <1>12, <2>2, ZenonT(30) DEF ParseArgv, Point, Waiting
    <3> QED BY <1>1, <3>1, ZenonT(30) DEF Walking
  <2> QED BY <2>1, <2>2, Zenon
<1>13. CASE InitialScan
  BY <1>1, <1>13, Moves, ZenonT(30) DEF Walking
<1>14. CASE DeviceStep
  <2>1. Point = "dev" /\ Point' \in {"dev", "exit"}
    BY <1>14, Moves, ZenonT(30) DEF DeviceStep
  <2>2. ~CheckingAll'
    BY <1>0, <2>1, ZenonT(30) DEF Callers
  <2> QED BY <2>1, <2>2, ZenonT(30) DEF DoneChecked, Walking
<1> QED BY <1>3, <1>5, <1>6, <1>7, <1>8, <1>9, <1>10, <1>11, <1>12, <1>13, <1>14, Steps, ZenonT(30) DEF CheckAllStep

\* DoneChecked holds always.
LEMMA CheckedAlways == Spec => []DoneChecked
<1>1. Init => DoneChecked
  BY Zenon DEF Init, DoneChecked, Point, Waiting, Walking
<1>2. Core /\ Walked /\ DoneChecked /\ [Next]_vars => DoneChecked'
  <2> SUFFICES ASSUME Core, Walked, DoneChecked, [Next]_vars PROVE DoneChecked'
    BY Zenon
  <2>1. CASE UNCHANGED vars
    <3>1. UNCHANGED <<opt, tab, pc, ret, child, status, done, cancel_requested>>
      BY <2>1, ZenonT(30) DEF vars, jobVars, procVars, waitVars, dataVars, sigVars
    <3>2. /\ Idx' = Idx /\ Roots' = Roots /\ Point' = Point /\ (CheckingAll' <=> CheckingAll) /\ (Errs' <=> Errs)
          /\ \A e : ignore(e)' <=> ignore(e)
      BY <3>1 DEF Idx, Roots, Point, Waiting, CheckingAll, Errs, ignore, fs_match, find_fsck, fs_interpret_type,
                  fs_ignored_type, TypeItems
    <3>3. \A i : (IsFirstRoot(i)' <=> IsFirstRoot(i)) /\ (MustCheck(i)' <=> MustCheck(i))
      BY <3>1, <3>2, Zenon DEF IsFirstRoot, MustCheck, is_skipped_mounted
    <3> QED BY <3>1, <3>2, <3>3, ZenonT(30) DEF DoneChecked
  <2> QED BY <2>1, CheckedStep, Zenon
<1> QED BY <1>1, <1>2, CoreAlways, WalkedAlways, PTL DEF Spec

\* At the exit every line is done and nothing is left to collect.
LEMMA CheckedAtExit ==
    ASSUME Core, Settled, DoneChecked
    PROVE  AllChecked
<1> SUFFICES ASSUME pc = "exit", ~cancel_requested, CheckingAll, status \subseteq {FSCK_EX_NONDESTRUCT},
                    NEW i \in Idx, MustCheck(i)
             PROVE  child[i] = "reaped"
  BY Zenon DEF AllChecked
<1>1. FsckTypes /\ InstancesTracked /\ Point = "exit"
  BY Zenon DEF Core, Point, Waiting
<1>2. instance_list = <<>>
  BY Zenon DEF Settled
<1>3. Listed = {}
  BY <1>1, <1>2, NoneListed, Zenon
<1>4. child[i] # "none"
  BY <1>1, Zenon DEF DoneChecked
<1> QED BY <1>1, <1>3, <1>4, Zenon DEF FsckTypes, InstancesTracked

\* For every table, every pass order and every limit on running checkers: a fsck -A
\* that is not canceled and reports no error has checked each selected filesystem.
THEOREM AllCheckedAlways == Spec => []AllChecked
<1>1. Core /\ Settled /\ DoneChecked => AllChecked
  BY CheckedAtExit, Zenon
<1> QED BY <1>1, CoreAlways, SettledAlways, CheckedAlways, PTL
=============================================================================
