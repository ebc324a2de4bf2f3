-------------------------- MODULE PtySessionProofs --------------------------
(***************************************************************************)
(* What PtySession promises, for every size of the buffers, every amount of  *)
(* input and output and every number of signals and stops: no signal to a    *)
(* reaped child, no child left behind, no output lost, no input lost, doubled *)
(* or out of order.                                                         *)
(***************************************************************************)
EXTENDS PtySession, TLAPS, SequenceTheorems, WellFoundedInduction

-----------------------------------------------------------------------------
(* Sequences that are cut in two *)

\* Concatenation is associative.
LEMMA ConcatConcat ==
    ASSUME NEW s \in Seq(Nat), NEW t \in Seq(Nat), NEW u \in Seq(Nat)
    PROVE  (s \o t) \o u = s \o (t \o u)
OBVIOUS

\* Appending to the second of two sequences.
LEMMA ConcatAppend ==
    ASSUME NEW s \in Seq(Nat), NEW t \in Seq(Nat), NEW e \in Nat
    PROVE  s \o Append(t, e) = Append(s \o t, e)
OBVIOUS

\* What one read() or write() takes, and what it leaves, are the whole.
LEMMA TakeDrop ==
    ASSUME NEW S, NEW s \in Seq(S), NEW n \in Nat
    PROVE  LET t == TakeFirst(s, n)
               r == DropFirst(s, Len(t))
           IN  /\ t \in Seq(S) /\ r \in Seq(S)
               /\ Len(t) \in Nat /\ Len(t) <= n /\ Len(t) <= Len(s)
               /\ t \o r = s
               /\ n # 0 /\ s # <<>> => t # <<>>
<1> DEFINE m == Min({n, Len(s)})
           t == TakeFirst(s, n)
<1>1. Len(s) \in Nat
  BY LenProperties, Zenon
<1>2. m \in Nat /\ m <= n /\ m <= Len(s) /\ m \in {n, Len(s)}
  <2>1. \E x \in {n, Len(s)} : \A y \in {n, Len(s)} : x <= y
    BY <1>1
  <2> QED BY <1>1, <2>1, Zenon DEF Min
<1> HIDE DEF m
<1>3. t = SubSeq(s, 1, m)
  BY Zenon DEF TakeFirst, m
<1>4. t \in Seq(S) /\ Len(t) = m
  BY <1>1, <1>2, <1>3, SubSeqProperties
<1>5. DropFirst(s, Len(t)) = SubSeq(s, m + 1, Len(s))
  BY <1>4, Zenon DEF DropFirst
<1>6. SubSeq(s, m + 1, Len(s)) \in Seq(S)
  BY <1>1, <1>2, SubSeqProperties
<1>7. SubSeq(s, 1, m) \o SubSeq(s, m + 1, Len(s)) = s
  <2>1. 1 \in 1..(Len(s) + 1) /\ m \in (1 - 1)..Len(s) /\ Len(s) \in m..Len(s)
    BY <1>1, <1>2
  <2>2. SubSeq(s, 1, m) \o SubSeq(s, m + 1, Len(s)) = SubSeq(s, 1, Len(s))
    BY <2>1, ConcatAdjacentSubSeq, Zenon
  <2> QED BY <2>2, SubSeqFull, Zenon
<1>8. n # 0 /\ s # <<>> => t # <<>>
  BY <1>1, <1>2, <1>4, EmptySeq, Zenon
<1> QED BY <1>2, <1>3, <1>4, <1>5, <1>6, <1>7, <1>8, ZenonT(30)

-----------------------------------------------------------------------------
(* Induction *)

\* A set of natural numbers that is not empty has a least element; so a set that has 0
\* and with every number the next has all.  (The induction that the proofs below use:
\* over sets, not over predicates.)
LEMMA Least ==
    ASSUME NEW T, T \subseteq Nat, T # {}
    PROVE  \E x \in T : \A y \in T : x <= y
<1> DEFINE R == OpToRel(<, Nat)
<1>1. IsWellFoundedOn(R, Nat)
  BY NatLessThanWellFounded, Zenon
<1> HIDE DEF R
<1>2. PICK x \in T : \A y \in T : ~(<<y, x>> \in R)
  BY <1>1, WFMin, Zenon
<1>3. \A y \in T : ~(y < x)
  BY <1>2, ZenonT(30) DEF R, OpToRel
<1> QED BY <1>3

\* Induction, from the least counterexample.
LEMMA Induct ==
    ASSUME NEW T, 0 \in T, \A n \in Nat : n \in T => n + 1 \in T
    PROVE  \A n \in Nat : n \in T
<1> SUFFICES ASSUME Nat \ T # {} PROVE FALSE
  BY Zenon
<1>1. PICK x \in Nat \ T : \A y \in Nat \ T : x <= y
  BY Least, ZenonT(30)
<1>2. x # 0 /\ x - 1 \in Nat /\ ~(x - 1 \in Nat \ T)
  BY <1>1
<1> QED BY <1>2

-----------------------------------------------------------------------------
(* The queue of buffers as one sequence *)

\* f[i] is what the first i of the sequences b come to.
Follows(f, b, n) == \A i \in 1..n : f[i] = IF i = 1 THEN b[i] ELSE f[i - 1] \o b[i]

Flattens(f, b, n) == f \in [1..n -> Seq(Nat)] /\ Follows(f, b, n)

\* The partial concatenations, one buffer further.
LEMMA FlattensExtend ==
    ASSUME NEW b \in Seq(Seq(Nat)), NEW n \in Nat, n < Len(b), NEW f, Flattens(f, b, n),
           NEW g, g = [i \in 1..(n + 1) |->
                          IF i <= n THEN f[i] ELSE IF n = 0 THEN b[1] ELSE f[n] \o b[n + 1]]
    PROVE  Flattens(g, b, n + 1)
<1>1. b[n + 1] \in Seq(Nat) /\ (n # 0 => f[n] \in Seq(Nat))
  BY DEF Flattens
<1>2. (n # 0 => f[n] \o b[n + 1] \in Seq(Nat))
  BY <1>1
<1>3. \A i \in 1..(n + 1) : g[i] \in Seq(Nat)
  BY <1>1, <1>2 DEF Flattens
<1>4. \A i \in 1..n : g[i] = f[i]
  OBVIOUS
<1>5. g[n + 1] = IF n + 1 = 1 THEN b[n + 1] ELSE g[n] \o b[n + 1]
  BY <1>4
<1>6. ASSUME NEW i \in 1..n PROVE g[i] = IF i = 1 THEN b[i] ELSE g[i - 1] \o b[i]
  <2>1. i # 1 => g[i - 1] = f[i - 1]
    OBVIOUS
  <2> QED BY <1>4, <2>1, ZenonT(30) DEF Flattens, Follows
<1>7. \A i \in 1..(n + 1) : g[i] = IF i = 1 THEN b[i] ELSE g[i - 1] \o b[i]
  <2> TAKE i \in 1..(n + 1)
  <2>1. CASE i = n + 1
    BY <1>5, <2>1
  <2>2. CASE i # n + 1
    <3>1. i \in 1..n
      BY <2>2
    <3> QED BY <1>6, <3>1, ZenonT(30)
  <2> QED BY <2>1, <2>2, ZenonT(30)
<1>8. g \in [1..(n + 1) -> Seq(Nat)]
  BY <1>3, Zenon
<1> QED BY <1>7, <1>8, ZenonT(30) DEF Flattens, Follows

\* The partial concatenations exist.
LEMMA FlattensExists ==
    ASSUME NEW b \in Seq(Seq(Nat)) PROVE \E f : Flattens(f, b, Len(b))
<1> DEFINE T == {n \in Nat : n <= Len(b) => \E f : Flattens(f, b, n)}
<1>1. 0 \in T
  <2>1. Flattens([i \in 1..0 |-> <<>>], b, 0)
    BY DEF Flattens, Follows
  <2> QED BY <2>1, Zenon
<1>2. ASSUME NEW n \in Nat, n \in T PROVE n + 1 \in T
  <2> SUFFICES ASSUME n + 1 <= Len(b) PROVE \E f : Flattens(f, b, n + 1)
    OBVIOUS
  <2>1. PICK f : Flattens(f, b, n)
    BY <1>2
  <2>2. n < Len(b)
    OBVIOUS
  <2> QED BY <2>1, <2>2, FlattensExtend, ZenonT(30)
<1> HIDE DEF T
<1>3. Len(b) \in T
  BY <1>1, <1>2, Induct
<1> QED BY <1>3 DEF T

\* The partial concatenations are unique.
LEMMA FollowsUnique ==
    ASSUME NEW b, NEW m \in Nat, NEW f, NEW g, Follows(f, b, m), Follows(g, b, m)
    PROVE  \A i \in 1..m : f[i] = g[i]
<1> DEFINE T == {n \in Nat : n \in 1..m => f[n] = g[n]}
<1>1. 0 \in T
  OBVIOUS
<1>2. ASSUME NEW n \in Nat, n \in T PROVE n + 1 \in T
  <2> SUFFICES ASSUME n + 1 <= m PROVE f[n + 1] = g[n + 1]
    OBVIOUS
  <2>1. n # 0 => f[n] = g[n]
    BY <1>2
  <2>2. n + 1 \in 1..m /\ (n + 1 # 1 => n # 0) /\ (n + 1) - 1 = n
    OBVIOUS
  <2> QED BY <2>1, <2>2 DEF Follows
<1> HIDE DEF T
<1>3. \A n \in Nat : n \in T
  BY <1>1, <1>2, Induct, Zenon
<1> QED BY <1>3 DEF T

\* FlattenSeq is defined by recursion over the length; there is such a function, and
\* no other.
LEMMA FlattenIs ==
    ASSUME NEW b \in Seq(Seq(Nat)), b # <<>>, NEW f, Flattens(f, b, Len(b))
    PROVE  FlattenSeq(b) = f[Len(b)]
<1> DEFINE Rec(g) == g = [i \in 1..Len(b) |-> IF i = 1 THEN b[i] ELSE g[i - 1] \o b[i]]
           F == CHOOSE g : Rec(g)
<1>1. Len(b) \in Nat \ {0}
  OBVIOUS
<1>2. FlattenSeq(b) = F[Len(b)]
  BY <1>1, Zenon DEF FlattenSeq
<1>3. Rec(f)
  BY ZenonT(30) DEF Flattens, Follows
<1>4. Rec(F)
  <2> HIDE DEF Rec
  <2> QED BY <1>3, Zenon
<1>5. Follows(F, b, Len(b))
  <2> HIDE DEF F
  <2> QED BY <1>4, ZenonT(30) DEF Follows
<1> HIDE DEF F
<1>6. \A i \in 1..Len(b) : f[i] = F[i]
  BY <1>1, <1>5, FollowsUnique DEF Flattens
<1> QED BY <1>1, <1>2, <1>6

\* FlattenSeq() is the last of the partial concatenations.
LEMMA FlattenSeqOf ==
    ASSUME NEW b \in Seq(Seq(Nat)), b # <<>>
    PROVE  \E f : Flattens(f, b, Len(b)) /\ FlattenSeq(b) = f[Len(b)]
BY FlattensExists, FlattenIs, Zenon

\* The flattened buffers are a sequence of bytes.
LEMMA FlattenType == ASSUME NEW b \in Seq(Seq(Nat)) PROVE FlattenSeq(b) \in Seq(Nat)
<1>1. CASE b = <<>>
  BY <1>1 DEF FlattenSeq
<1>2. CASE b # <<>>
  <2>1. PICK f : Flattens(f, b, Len(b)) /\ FlattenSeq(b) = f[Len(b)]
    BY <1>2, FlattenSeqOf, Zenon
  <2>2. Len(b) \in 1..Len(b)
    BY <1>2
  <2> QED BY <2>1, <2>2, Zenon DEF Flattens
<1> QED BY <1>1, <1>2, Zenon

\* Flattening a single buffer.
LEMMA FlattenOne ==
    ASSUME NEW b \in Seq(Seq(Nat)), Len(b) = 1
    PROVE  FlattenSeq(b) = b[1]
<1> DEFINE f == [i \in 1..1 |-> b[1]]
<1>1. b[1] \in Seq(Nat) /\ b # <<>>
  OBVIOUS
<1>2. Flattens(f, b, Len(b)) /\ f[1] = b[1]
  BY <1>1 DEF Flattens, Follows
<1> HIDE DEF f
<1> QED BY <1>1, <1>2, FlattenIs, ZenonT(30)

\* A buffer that is queued comes last, and the head of the queue first.
LEMMA FlattenAppend ==
    ASSUME NEW b \in Seq(Seq(Nat)), NEW x \in Seq(Nat),
           NEW c, c = Append(b, x)
    PROVE  FlattenSeq(c) = FlattenSeq(b) \o x
<1> DEFINE n == Len(b)
<1>1. n \in Nat /\ Len(c) = n + 1 /\ c[n + 1] = x /\ \A i \in 1..n : c[i] = b[i]
  OBVIOUS
<1>2. c \in Seq(Seq(Nat)) /\ c # <<>>
  <2>1. Append(b, x) \in Seq(Seq(Nat))
    BY AppendProperties, Zenon
  <2>2. Len(c) # 0 /\ Len(<<>>) = 0
    BY <1>1
  <2>3. c # <<>>
    BY <2>2, Zenon
  <2> QED BY <2>1, <2>3, ZenonT(30)
<1> HIDE DEF n
<1>3. CASE b = <<>>
  <2>1. n = 0 /\ FlattenSeq(b) = <<>>
    BY <1>3, ZenonT(30) DEF FlattenSeq, n
  <2>2. Len(c) = 1 /\ c[1] = x
    BY <1>1, <2>1
  <2>3. FlattenSeq(c) = x
    BY <1>2, <2>2, FlattenOne, ZenonT(30)
  <2> QED BY <2>1, <2>3
<1>4. CASE b # <<>>
  <2>1. PICK f : Flattens(f, b, n) /\ FlattenSeq(b) = f[n]
    BY <1>4, FlattenSeqOf, Zenon DEF n
  <2>2. n # 0
    BY <1>4 DEF n
  <2>3. Flattens(f, c, n)
    BY <1>1, <2>1, Zenon DEF Flattens, Follows
  <2>4. PICK g : g = [i \in 1..(n + 1) |->
                      IF i <= n THEN f[i] ELSE IF n = 0 THEN c[1] ELSE f[n] \o c[n + 1]]
    BY ZenonT(30)
  <2>5. n < Len(c)
    BY <1>1
  <2>6. Flattens(g, c, n + 1)
    BY <1>1, <1>2, <2>3, <2>4, <2>5, FlattensExtend, ZenonT(30)
  <2>7. g[n + 1] = f[n] \o x
    BY <1>1, <2>2, <2>4
  <2>8. FlattenSeq(c) = g[n + 1]
    BY <1>1, <1>2, <2>6, FlattenIs, ZenonT(30)
  <2> QED BY <2>1, <2>7, <2>8, Zenon
<1> QED BY <1>3, <1>4, ZenonT(30)

\* Flattening splits off the first buffer.
LEMMA FlattenHead ==
    ASSUME NEW b \in Seq(Seq(Nat)), b # <<>>
    PROVE  FlattenSeq(b) = Head(b) \o FlattenSeq(Tail(b))
<1> DEFINE t == Tail(b)
           h == Head(b)
           n == Len(b)
<1>1. /\ Len(t) = n - 1 /\ n \in Nat /\ n >= 1 /\ h = b[1]
      /\ \A i \in 1..(n - 1) : t[i] = b[i + 1]
  OBVIOUS
<1>2. t \in Seq(Seq(Nat)) /\ h \in Seq(Nat)
  OBVIOUS
<1>3. \A i \in 1..n : b[i] \in Seq(Nat)
  OBVIOUS
<1> HIDE DEF t, h, n
<1>4. CASE t = <<>>
  <2>1. n = 1 /\ FlattenSeq(t) = <<>>
    BY <1>1, <1>4 DEF FlattenSeq
  <2>2. FlattenSeq(b) = h
    BY <1>1, <2>1, FlattenOne, ZenonT(30) DEF n
  <2>3. h \o <<>> = h
    BY <1>2
  <2> QED BY <2>1, <2>2, <2>3, Zenon DEF t, h
<1>5. CASE t # <<>>
  <2>1. n - 1 \in Nat /\ n > 1
    BY <1>1, <1>2, <1>5
  <2>2. PICK f : Flattens(f, t, n - 1) /\ FlattenSeq(t) = f[n - 1]
    BY <1>1, <1>2, <1>5, FlattenSeqOf, ZenonT(30)
  <2>3. \A i \in 1..(n - 1) : f[i] \in Seq(Nat)
    BY <2>2, Zenon DEF Flattens
  <2>4. PICK g : g = [i \in 1..n |-> IF i = 1 THEN h ELSE h \o f[i - 1]]
    BY ZenonT(30)
  <2>5. g[1] = h /\ \A i \in 2..n : g[i] = h \o f[i - 1]
    <3>1. 1 \in 1..n /\ \A i \in 2..n : i \in 1..n /\ i # 1
      BY <1>1
    <3> QED BY <2>4, <3>1, Zenon
  <2>6. \A i \in 1..n : g[i] \in Seq(Nat)
    <3> TAKE i \in 1..n
    <3>1. CASE i = 1
      BY <1>2, <2>5, <3>1, ZenonT(30)
    <3>2. CASE i # 1
      <4>1. i - 1 \in 1..(n - 1) /\ i \in 2..n
        BY <1>1, <3>2
      <4>2. f[i - 1] \in Seq(Nat) /\ g[i] = h \o f[i - 1]
        BY <2>3, <2>5, <4>1, Zenon
      <4> QED BY <1>2, <4>2
    <3> QED BY <3>1, <3>2, ZenonT(30)
  <2>7. ASSUME NEW i \in 2..n PROVE g[i] = g[i - 1] \o b[i]
    <3>1. CASE i = 2
      <4>1. f[1] = b[2]
        <5>1. 1 \in 1..(n - 1) /\ t[1] = b[1 + 1] /\ 1 + 1 = 2
          BY <1>1, <2>1
        <5>2. f[1] = t[1]
          BY <2>2, <5>1, Zenon DEF Flattens, Follows
        <5> QED BY <5>1, <5>2, Zenon
      <4>2. g[2] = h \o f[2 - 1] /\ 2 - 1 = 1
        BY <2>5, <3>1
      <4> QED BY <2>5, <3>1, <4>1, <4>2, ZenonT(30)
    <3>2. CASE i # 2
      <4>1. i - 1 \in 2..(n - 1) /\ i - 2 \in 1..(n - 1) /\ i \in 1..n /\ i - 1 \in 1..(n - 1)
        BY <1>1, <3>2
      <4>2. f[i - 1] = f[i - 2] \o t[i - 1]
        <5>1. i - 1 # 1 /\ (i - 1) - 1 = i - 2
          BY <4>1, <1>1
        <5>2. f[i - 1] = f[(i - 1) - 1] \o t[i - 1]
          BY <2>2, <4>1, <5>1, Zenon DEF Flattens, Follows
        <5> QED BY <5>1, <5>2, ZenonT(30)
      <4>3. t[i - 1] = b[i]
        BY <1>1, <4>1
      <4>4. f[i - 2] \in Seq(Nat) /\ b[i] \in Seq(Nat)
        BY <1>3, <2>3, <4>1, ZenonT(30)
      <4>5. g[i] = h \o f[i - 1]
        BY <2>5, Zenon
      <4>6. g[i - 1] = h \o f[(i - 1) - 1] /\ (i - 1) - 1 = i - 2
        <5>1. i - 1 \in 2..n /\ (i - 1) - 1 = i - 2
          BY <4>1, <1>1
        <5> QED BY <2>5, <5>1, Zenon
      <4>7. h \o (f[i - 2] \o b[i]) = (h \o f[i - 2]) \o b[i]
        BY <1>2, <4>4, ConcatConcat, ZenonT(30)
      <4> QED BY <4>2, <4>3, <4>5, <4>6, <4>7, ZenonT(30)
    <3> QED BY <3>1, <3>2, ZenonT(30)
  <2>8. g \in [1..n -> Seq(Nat)]
    BY <2>4, <2>6, Zenon
  <2>9. Follows(g, b, n)
    <3> SUFFICES ASSUME NEW i \in 1..n PROVE g[i] = IF i = 1 THEN b[i] ELSE g[i - 1] \o b[i]
      BY Zenon DEF Follows
    <3>1. CASE i = 1
      BY <1>1, <2>5, <3>1, Zenon
    <3>2. CASE i # 1
      <4>1. i \in 2..n
        BY <1>1, <3>2
      <4> QED BY <2>7, <3>2, <4>1, Zenon
    <3> QED BY <3>1, <3>2, Zenon
  <2>10. FlattenSeq(b) = g[n]
    BY <2>8, <2>9, FlattenIs, Zenon DEF n, Flattens
  <2>11. g[n] = h \o f[n - 1]
    <3>1. n \in 2..n
      BY <1>1, <2>1
    <3> QED BY <2>5, <3>1, Zenon
  <2> QED BY <2>2, <2>10, <2>11, ZenonT(30) DEF t, h
<1> QED BY <1>4, <1>5, Zenon

-----------------------------------------------------------------------------
(* The child *)

Points == {"poll", "signal", "sigstop", "master", "flush", "stdin", "eof", "eof_flush",
           "left", "unblock", "main", "done", "killed"}

\* The two copies of the pid are one, and they are reset exactly when the child is
\* reaped, except by the last wait of main(); the leaving timeout is for a child that
\* is gone; script stops itself only for a child that it has.
ChildInv ==
    /\ pc \in Points /\ child \in {"run", "stop", "zombie", "reaped"}
    /\ pty_child \in BOOLEAN /\ ctl_child \in BOOLEAN /\ leaving \in BOOLEAN
    /\ pty_child <=> ctl_child
    /\ ~pty_child => child = "reaped"
    /\ child = "reaped" => ~pty_child \/ pc = "done"
    /\ leaving => ~pty_child
    /\ pc = "sigstop" => pty_child
    /\ ~stale_kill
    /\ pc = "done" => child \in {"zombie", "reaped"}

\* Every step keeps ChildInv.
LEMMA ChildStep == ASSUME ChildInv, [Next]_vars PROVE ChildInv'
<1> USE DEF ChildInv, Points
<1>1. CASE UNCHANGED vars
  BY <1>1, Zenon DEF vars, procVars, childVars
<1>2. CASE Poll \/ PollTimeout \/ LoopEnds
  BY <1>2 DEF Poll, PollTimeout, LoopEnds, procVars, childVars
<1>3. CASE HandleSignal
  <2>1. CASE SignalTerm
    BY <1>3, <2>1, ZenonT(30) DEF HandleSignal, SignalTerm
  <2>2. CASE SignalChld
    BY <1>3, <2>2, ZenonT(30) DEF HandleSignal, SignalChld, ChildDie
  <2>3. CASE /\ ~revents.signal /\ pc' = "master"
             /\ UNCHANGED <<leaving, delivered, pty_child, ctl_child, child, sigchld, sigterm,
                            stale_kill>>
    BY <1>3, <2>3, ZenonT(30) DEF HandleSignal
  <2> QED BY <1>3, <2>1, <2>2, <2>3, ZenonT(30) DEF HandleSignal
<1>4. CASE Resume
  BY <1>4, Zenon DEF Resume, procVars
<1>5. CASE HandleMaster \/ Flush \/ HandleStdin \/ ErrorEof \/ ErrorFlush
  <2>1. UNCHANGED <<leaving, pty_child, ctl_child, child, stale_kill>>
    BY <1>5, ZenonT(30) DEF HandleMaster, Flush, HandleStdin, ErrorEof, ErrorFlush, procVars, childVars
  <2>2. pc # "done" /\ pc' \in Points \ {"done", "sigstop"}
    BY <1>5, ZenonT(30) DEF HandleMaster, Flush, HandleStdin, ErrorEof, ErrorFlush
  <2> QED BY <2>1, <2>2, Zenon
<1>6. CASE Left
  BY <1>6, ZenonT(30) DEF Left, KillChild, procVars
<1>7. CASE SignalsCleanup
  BY <1>7, ZenonT(30) DEF SignalsCleanup, procVars, childVars
<1>8. CASE MainEnds
  BY <1>8 DEF MainEnds, SessionTerminated, SessionOver, KillChild
<1>9. CASE Around
  <2>1. CASE KilledLate \/ ChildWrite \/ ChildRead \/ Type \/ Close \/ Term
    BY <2>1 DEF KilledLate, ChildWrite, ChildRead, Type, Close, Term, procVars, childVars
  <2>2. CASE ChildExit \/ ChildStop \/ ChildCont
    BY <1>9, <2>2 DEF Around, ChildExit, ChildStop, ChildCont, procVars
  <2> QED BY <1>9, <2>1, <2>2, ZenonT(30) DEF Around
<1> QED
  BY <1>1, <1>2, <1>3, <1>4, <1>5, <1>6, <1>7, <1>8, <1>9, Zenon
  DEF Next, Script, ul_pty_proxy_master

\* ChildInv holds always.
LEMMA ChildInvariant == Spec => []ChildInv
<1>1. Init => ChildInv
  BY ZenonT(30) DEF Init, ChildInv, Points
<1>2. QED
  BY <1>1, ChildStep, PTL DEF Spec

\* No signal goes to the pid of a child that was reaped: handle_signal(),
\* callback_child_sigstop(), the error path after the loop and main() each have a
\* copy of the pid that is reset by then.
THEOREM NoStaleKillAlways == Spec => []NoStaleKill
<1>1. ChildInv => NoStaleKill
  BY Zenon DEF ChildInv, NoStaleKill
<1>2. QED
  BY <1>1, ChildInvariant, PTL

\* When main() of script ends, its child is a zombie or reaped.
THEOREM NoOrphanAlways == Spec => []NoOrphan
<1>1. ChildInv => NoOrphan
  BY Zenon DEF ChildInv, NoOrphan
<1>2. QED
  BY <1>1, ChildInvariant, PTL
-----------------------------------------------------------------------------
(* The output *)

\* The output is on the terminal or still in the pty, and nowhere else; the loop ends
\* by itself only when the child is gone and the pty is empty; and the typescript is
\* complete as long as its limit is not reached.
OutInv ==
    /\ wrote \in Nat /\ maxsz \in Nat
    /\ stdout \in Seq(Nat) /\ master \in Seq(Nat) /\ log \in Seq(Nat)
    /\ logging \in BOOLEAN /\ rc \in BOOLEAN /\ delivered \in BOOLEAN
    /\ stdout \o master = Upto(wrote)
    /\ pc \in {"eof", "eof_flush"} => rc
    /\ pc \in {"left", "unblock", "main", "done"} /\ ~delivered /\ ~rc
           => master = <<>> /\ child = "reaped"
    /\ maxsz = 0 \/ Len(stdout) < maxsz => log = stdout /\ (pc # "done" => logging)

\* One byte more.
LEMMA UptoAppend == ASSUME NEW n \in Nat PROVE Append(Upto(n), n + 1) = Upto(n + 1)
<1>1. Upto(n) \in Seq(Nat) /\ Len(Upto(n)) = n
  BY DEF Upto
<1>2. Upto(n + 1) \in Seq(Nat) /\ Len(Upto(n + 1)) = n + 1
  BY DEF Upto
<1> QED BY <1>1, <1>2, SeqEqual, AppendProperties DEF Upto

\* Reading the master moves bytes to stdout and, below the limit, to the log.
LEMMA ReadMasterStep ==
    ASSUME OutInv, ReadMaster, pc # "done", maxsz' = maxsz, PtyAssumption
    PROVE  /\ stdout' \in Seq(Nat) /\ master' \in Seq(Nat) /\ log' \in Seq(Nat)
           /\ stdout' \o master' = stdout \o master
           /\ maxsz = 0 \/ Len(stdout') < maxsz => log' = stdout' /\ logging'
<1> DEFINE data == TakeFirst(master, BUFSIZ)
           rest == DropFirst(master, Len(data))
<1>1. data \in Seq(Nat) /\ rest \in Seq(Nat) /\ data \o rest = master
  BY TakeDrop, ZenonT(30) DEF OutInv, PtyAssumption
<1>2. /\ master' = rest /\ stdout' = stdout \o data
      /\ log' = IF logging THEN log \o data ELSE log
      /\ logging' = (logging /\ ~(maxsz # 0 /\ Len(stdout) + Len(data) >= maxsz))
  BY Zenon DEF ReadMaster
<1> HIDE DEF data, rest
<1>3. stdout \in Seq(Nat) /\ log \in Seq(Nat) /\ maxsz \in Nat
  BY Zenon DEF OutInv
<1>4. stdout' \in Seq(Nat) /\ log' \in Seq(Nat) /\ Len(stdout') = Len(stdout) + Len(data)
  BY <1>1, <1>2, <1>3, ConcatProperties, ZenonT(30)
<1>5. stdout' \o master' = stdout \o master
  <2>1. (stdout \o data) \o rest = stdout \o (data \o rest)
    BY <1>1, <1>3, ConcatConcat, ZenonT(30)
  <2> QED BY <1>1, <1>2, <2>1, ZenonT(30)
<1>6. ASSUME maxsz = 0 \/ Len(stdout') < maxsz PROVE log' = stdout' /\ logging'
  <2>1. Len(stdout) \in Nat /\ Len(data) \in Nat
    BY <1>1, <1>3, LenProperties, Zenon
  <2>2. maxsz = 0 \/ Len(stdout) < maxsz
    BY <1>3, <1>4, <1>6, <2>1
  <2>3. log = stdout /\ logging = TRUE
    BY <2>2, Zenon DEF OutInv
  <2>4. ~(maxsz # 0 /\ Len(stdout) + Len(data) >= maxsz)
    BY <1>3, <1>4, <1>6, <2>1
  <2> QED BY <1>2, <2>3, <2>4, ZenonT(30)
<1> QED BY <1>1, <1>2, <1>4, <1>5, <1>6, ZenonT(30)

\* Every step keeps OutInv.
LEMMA OutStep == ASSUME ChildInv, OutInv, [Next]_vars PROVE OutInv'
<1>1. CASE UNCHANGED vars
  BY <1>1, ZenonT(30) DEF OutInv, vars, procVars, outVars, childVars
<1>2. CASE Poll \/ PollTimeout \/ LoopEnds
  <2>1. UNCHANGED <<procVars, outVars, childVars>>
    BY <1>2, ZenonT(30) DEF Poll, PollTimeout, LoopEnds
  <2>2. CASE Poll
    BY <2>1, <2>2 DEF Poll, OutInv, procVars, outVars, childVars
  <2>3. CASE PollTimeout
    <3>1. master = <<>>
      BY <2>3, ZenonT(30) DEF PollTimeout, Events, Quiet
    <3> QED BY <2>1, <2>3, <3>1 DEF PollTimeout, OutInv, ChildInv, procVars, outVars, childVars
  <2>4. CASE LoopEnds
    BY <2>1, <2>4 DEF LoopEnds, OutInv, procVars, outVars, childVars
  <2> QED BY <1>2, <2>2, <2>3, <2>4, ZenonT(30)
<1>3. CASE HandleSignal
  <2>1. UNCHANGED <<rc, logging, maxsz, outVars>> /\ pc = "signal" /\ pc' \in {"master", "sigstop"}
    BY <1>3, ZenonT(30) DEF HandleSignal, SignalTerm, SignalChld
  <2>2. delivered' \in BOOLEAN
    BY <1>3, ZenonT(30) DEF HandleSignal, SignalTerm, SignalChld, OutInv
  <2> QED BY <2>1, <2>2, ZenonT(30) DEF OutInv, outVars
<1>4. CASE Resume
  BY <1>4, ZenonT(30) DEF Resume, OutInv, procVars, outVars
<1>5. CASE HandleMaster
  <2>1. /\ pc = "master" /\ pc' \in {"flush", "eof", "stdin"} /\ (pc' = "eof" => rc')
        /\ UNCHANGED <<delivered, maxsz, wrote, child>>
    BY <1>5, Zenon DEF HandleMaster, childVars
  <2>2. CASE revents.in
    <3>1. ReadMaster /\ logging' \in BOOLEAN /\ rc' \in BOOLEAN
      BY <1>5, <2>2, ZenonT(30) DEF HandleMaster, ReadMaster, OutInv
    <3>2. /\ stdout' \in Seq(Nat) /\ master' \in Seq(Nat) /\ log' \in Seq(Nat)
          /\ stdout' \o master' = stdout \o master
          /\ maxsz = 0 \/ Len(stdout') < maxsz => log' = stdout' /\ logging'
      BY <2>1, <3>1, ReadMasterStep, PtyAssumption, ZenonT(30)
    <3> QED BY <2>1, <3>1, <3>2, ZenonT(30) DEF OutInv
  <2>3. CASE ~revents.in
    <3>1. UNCHANGED <<stdout, log, logging, rc, master>>
      BY <1>5, <2>3, Zenon DEF HandleMaster
    <3> QED BY <2>1, <3>1, ZenonT(30) DEF OutInv
  <2> QED BY <2>2, <2>3, ZenonT(30)
<1>6. CASE Flush
  <2>1. /\ UNCHANGED <<delivered, logging, maxsz, outVars, child>> /\ rc' \in {rc, FALSE}
        /\ pc' \in {"flush", "stdin"} /\ pc # "done"
    BY <1>6, ZenonT(30) DEF Flush, childVars
  <2> QED BY <2>1, ZenonT(30) DEF OutInv, outVars
<1>12. CASE HandleStdin
  <2>1. /\ UNCHANGED <<delivered, maxsz, outVars, child>> /\ rc' \in BOOLEAN
        /\ pc = "stdin" /\ pc' \in {"eof", "poll"} /\ (pc' = "eof" => rc')
        /\ logging' = (logging /\ ~rc') /\ (rc' => maxsz # 0 /\ Len(stdout) >= maxsz)
    BY <1>12, ZenonT(30) DEF HandleStdin, childVars
  <2>2. Len(stdout) \in Nat /\ maxsz \in Nat /\ logging' \in BOOLEAN
    BY <2>1 DEF OutInv
  <2>3. maxsz = 0 \/ Len(stdout) < maxsz => ~rc'
    BY <2>1, <2>2
  <2> QED BY <2>1, <2>2, <2>3, ZenonT(30) DEF OutInv, outVars
<1>7. CASE ErrorEof \/ ErrorFlush
  <2>1. /\ UNCHANGED <<delivered, rc, logging, maxsz, outVars, child>>
        /\ pc \in {"eof", "eof_flush"} /\ pc' \in {"eof_flush", "left"}
    BY <1>7, Zenon DEF ErrorEof, ErrorFlush, childVars
  <2> QED BY <2>1, Zenon DEF OutInv, outVars
<1>8. CASE Left
  <2>1. UNCHANGED <<procVars, outVars>> /\ pc = "left" /\ pc' = "unblock"
    BY <1>8, Zenon DEF Left
  <2>2. ~rc => child' = child
    BY <1>8, Zenon DEF Left
  <2> QED BY <2>1, <2>2, ZenonT(30) DEF OutInv, procVars, outVars
<1>9. CASE SignalsCleanup
  BY <1>9, Zenon DEF SignalsCleanup, OutInv, procVars, outVars, childVars
<1>10. CASE MainEnds
  <2>1. UNCHANGED <<delivered, rc, maxsz, outVars>> /\ pc = "main" /\ pc' = "done" /\ logging' = FALSE
    BY <1>10, Zenon DEF MainEnds, SessionTerminated, SessionOver
  <2>2. ~delivered => child' \in {child, "reaped"}
    BY <1>10, Zenon DEF MainEnds, SessionTerminated, SessionOver
  <2> QED BY <2>1, <2>2, ZenonT(30) DEF OutInv, outVars
<1>11. CASE Around
  <2>1. CASE ChildWrite
    <3>1. /\ UNCHANGED <<pc, procVars, stdout, log, childVars>>
          /\ wrote' = wrote + 1 /\ master' = Append(master, wrote + 1) /\ child = "run"
      BY <2>1, Zenon DEF ChildWrite
    <3>2. stdout \o Append(master, wrote + 1) = Append(stdout \o master, wrote + 1)
      <4>1. stdout \in Seq(Nat) /\ master \in Seq(Nat) /\ wrote + 1 \in Nat
        BY DEF OutInv
      <4> QED BY <4>1, ConcatAppend, ZenonT(30)
    <3>3. stdout' \o master' = Upto(wrote')
      BY <3>1, <3>2, UptoAppend, ZenonT(30) DEF OutInv
    <3>4. master' \in Seq(Nat) /\ wrote' \in Nat
      BY <3>1 DEF OutInv
    <3> QED BY <3>1, <3>3, <3>4, ZenonT(30) DEF OutInv, procVars, childVars
  <2>2. CASE KilledLate
    BY <2>2, ZenonT(30) DEF KilledLate, OutInv, procVars, outVars, childVars
  <2>3. CASE ChildRead \/ Type \/ Close \/ Term
    BY <2>3, ZenonT(30) DEF ChildRead, Type, Close, Term, OutInv, procVars, outVars, childVars
  <2>4. CASE ChildExit \/ ChildStop \/ ChildCont
    <3>1. UNCHANGED <<pc, procVars, outVars>> /\ child # "reaped"
      BY <2>4, Zenon DEF ChildExit, ChildStop, ChildCont
    <3> QED BY <3>1, ZenonT(30) DEF OutInv, procVars, outVars
  <2> QED BY <1>11, <2>1, <2>2, <2>3, <2>4, ZenonT(30) DEF Around
<1> QED
  BY <1>1, <1>2, <1>3, <1>4, <1>5, <1>6, <1>7, <1>8, <1>9, <1>10, <1>11, <1>12, Zenon
  DEF Next, Script, ul_pty_proxy_master

\* OutInv holds always.
LEMMA OutInvariant == Spec => []OutInv
<1>1. Init => OutInv
  <2> SUFFICES ASSUME Init PROVE OutInv
    BY Zenon
  <2>1. Upto(0) = <<>>
    BY DEF Upto
  <2>2. maxsz \in Nat
    BY PtyAssumption, ZenonT(30) DEF Init, PtyAssumption
  <2>3. stdout = <<>> /\ master = <<>> /\ wrote = 0 /\ log = <<>>
    BY Zenon DEF Init
  <2>4. stdout \o master = Upto(wrote)
    BY <2>1, <2>3
  <2>5. pc = "poll" /\ logging = TRUE /\ rc = FALSE /\ delivered = FALSE
    BY Zenon DEF Init
  <2>6. <<>> \in Seq(Nat)
    OBVIOUS
  <2> QED BY <2>2, <2>3, <2>4, <2>5, <2>6, ZenonT(30) DEF OutInv
<1>2. QED
  BY <1>1, OutStep, ChildInvariant, PTL DEF Spec

\* Everything the child wrote is on the terminal and, up to the limit, in the
\* typescript when the loop ends because the child is gone, in whatever order SIGCHLD
\* and the output came.
THEOREM OutputCompleteAlways == Spec => []OutputComplete
<1>1. OutInv => OutputComplete
  <2> SUFFICES ASSUME OutInv, pc \in {"main", "done"}, ~delivered, ~rc
               PROVE  stdout = Upto(wrote) /\ (maxsz = 0 \/ wrote < maxsz => log = stdout)
    BY Zenon DEF OutputComplete
  <2>1. stdout \o <<>> = Upto(wrote) /\ stdout \in Seq(Nat)
    BY ZenonT(30) DEF OutInv
  <2>2. stdout = Upto(wrote)
    BY <2>1
  <2>3. Len(stdout) = wrote
    BY <2>2 DEF OutInv, Upto
  <2> QED BY <2>2, <2>3, ZenonT(30) DEF OutInv
<1>2. QED
  BY <1>1, OutInvariant, PTL

-----------------------------------------------------------------------------
(* The input *)

\* The input is what was typed, in order, followed by EOFs.
Ordered(w, k) ==
    /\ k \in Nat /\ k <= Len(w)
    /\ \A i \in 1..k : w[i] = i
    /\ \A i \in (k + 1)..Len(w) : w[i] = DEF_EOF

Loop == {"poll", "signal", "sigstop", "master", "flush", "stdin", "eof"}

InTypes ==
    /\ got \in Seq(Nat) /\ slave \in Seq(Nat) /\ buffers \in Seq(Seq(Nat))
    /\ stdin \in Seq(Nat) /\ typed \in Nat /\ stdin_fd \in BOOLEAN

\* While stdin is open, what is still in it follows what was read; and as long as the
\* loop goes on there is no EOF yet.
Follow(k) ==
    stdin_fd => /\ k + Len(stdin) = typed
                /\ \A i \in 1..Len(stdin) : stdin[i] = k + i
                /\ pc \in Loop => k = Len(Input)

InInv ==
    /\ InTypes
    /\ revents \in [signal : BOOLEAN, in : BOOLEAN, out : BOOLEAN, stdin : BOOLEAN, hup : BOOLEAN]
    /\ revents.stdin \/ revents.hup => stdin_fd
    /\ \E k \in Nat : Ordered(Input, k) /\ Follow(k)

\* An end-of-file character does not disturb the order.
LEMMA OrderedEof ==
    ASSUME NEW w \in Seq(Nat), NEW k, Ordered(w, k)
    PROVE  Ordered(w \o <<DEF_EOF>>, k)
<1> DEFINE v == w \o <<DEF_EOF>>
<1>1. Len(v) = Len(w) + 1 /\ v[Len(w) + 1] = DEF_EOF /\ \A i \in 1..Len(w) : v[i] = w[i]
  BY DEF DEF_EOF
<1> HIDE DEF v
<1>2. Ordered(v, k)
  BY <1>1 DEF Ordered
<1> QED BY <1>2, Zenon DEF v

\* The next bytes continue the order.
LEMMA OrderedMore ==
    ASSUME NEW w \in Seq(Nat), Ordered(w, Len(w)), NEW data \in Seq(Nat),
           \A i \in 1..Len(data) : data[i] = Len(w) + i
    PROVE  Ordered(w \o data, Len(w) + Len(data)) /\ Len(w \o data) = Len(w) + Len(data)
<1> DEFINE v == w \o data
<1>1. Len(v) = Len(w) + Len(data) /\ \A i \in 1..Len(w) : v[i] = w[i]
  OBVIOUS
<1>2. \A i \in (Len(w) + 1)..(Len(w) + Len(data)) : v[i] = data[i - Len(w)]
  BY ConcatProperties
<1>3. Len(w) \in Nat /\ Len(data) \in Nat
  OBVIOUS
<1> HIDE DEF v
<1>4. \A i \in 1..(Len(w) + Len(data)) : v[i] = i
  <2> TAKE i \in 1..(Len(w) + Len(data))
  <2>1. CASE i <= Len(w)
    BY <1>1, <1>3, <2>1 DEF Ordered
  <2>2. CASE i > Len(w)
    <3>1. v[i] = data[i - Len(w)] /\ i - Len(w) \in 1..Len(data)
      BY <1>2, <1>3, <2>2
    <3>2. data[i - Len(w)] = Len(w) + (i - Len(w))
      BY <3>1, Zenon
    <3> QED BY <1>3, <3>1, <3>2
  <2> QED BY <1>3, <2>1, <2>2
<1>5. Ordered(v, Len(w) + Len(data))
  BY <1>1, <1>3, <1>4 DEF Ordered
<1> QED BY <1>1, <1>5, Zenon DEF v

\* The input on its way is a sequence of bytes.
LEMMA InputType == ASSUME InTypes PROVE Input \in Seq(Nat)
<1>1. FlattenSeq(buffers) \in Seq(Nat)
  BY FlattenType, Zenon DEF InTypes
<1> QED BY <1>1 DEF InTypes, Input

\* One more buffer is one more piece of input.
LEMMA BuffersAppend ==
    ASSUME InTypes, NEW b \in Seq(Seq(Nat)), NEW x \in Seq(Nat)
    PROVE  got \o (slave \o FlattenSeq(Append(b, x))) = (got \o (slave \o FlattenSeq(b))) \o x
<1>0. PICK g, s, c : g = got /\ s = slave /\ c = Append(b, x)
  BY ZenonT(30)
<1>1. g \in Seq(Nat) /\ s \in Seq(Nat)
  BY <1>0, Zenon DEF InTypes
<1> DEFINE f == FlattenSeq(b)
<1>2. f \in Seq(Nat)
  BY FlattenType, Zenon
<1>3. c = Append(b, x)
  BY <1>0, Zenon
<1>4. FlattenSeq(c) = f \o x
  BY <1>3, FlattenAppend, Zenon
<1> HIDE DEF f
<1>5. s \o (f \o x) = (s \o f) \o x
  BY <1>1, <1>2, ConcatConcat, ZenonT(30)
<1>6. s \o f \in Seq(Nat)
  BY <1>1, <1>2
<1>7. g \o ((s \o f) \o x) = (g \o (s \o f)) \o x
  BY <1>1, <1>6, ConcatConcat, ZenonT(30)
<1>8. g \o (s \o FlattenSeq(c)) = (g \o (s \o FlattenSeq(b))) \o x
  BY <1>4, <1>5, <1>7, Zenon DEF f
<1> QED BY <1>0, <1>8, Zenon

\* The child reads a character.
LEMMA ReadStep ==
    ASSUME InTypes, slave # <<>>, got' = Append(got, Head(slave)), slave' = Tail(slave),
           UNCHANGED buffers
    PROVE  Input' = Input /\ got' \in Seq(Nat) /\ slave' \in Seq(Nat)
<1> DEFINE f == FlattenSeq(buffers)
<1>1. f \in Seq(Nat) /\ got \in Seq(Nat) /\ slave \in Seq(Nat)
  BY FlattenType, Zenon DEF InTypes
<1>2. Input' = got' \o (slave' \o f) /\ Input = got \o (slave \o f)
  BY Zenon DEF Input
<1> HIDE DEF f
<1>3. Head(slave) \in Nat /\ Tail(slave) \in Seq(Nat)
  BY <1>1
<1>4. <<Head(slave)>> \o Tail(slave) = slave /\ <<Head(slave)>> \in Seq(Nat)
  BY <1>1, <1>3
<1>5. got' = got \o <<Head(slave)>>
  BY <1>1, <1>3
<1>6. PICK h : h = <<Head(slave)>>
  BY ZenonT(30)
<1>7. PICK t : t = Tail(slave)
  BY Zenon
<1>8. h \in Seq(Nat) /\ t \in Seq(Nat)
  BY <1>3, <1>4, <1>6, <1>7, ZenonT(30)
<1>9. t \o f \in Seq(Nat)
  BY <1>1, <1>8
<1>10. (got \o h) \o (t \o f) = got \o (h \o (t \o f))
  BY <1>1, <1>8, <1>9, ConcatConcat, ZenonT(30)
<1>11. (h \o t) \o f = h \o (t \o f)
  BY <1>1, <1>8, ConcatConcat, ZenonT(30)
<1>12. Input' = Input
  BY <1>2, <1>4, <1>5, <1>6, <1>7, <1>10, <1>11, Zenon
<1> QED BY <1>1, <1>3, <1>12

\* A buffer in front of the others.
LEMMA PushFront ==
    ASSUME NEW r \in Seq(Nat), NEW b \in Seq(Seq(Nat)), NEW c, c = <<r>> \o b
    PROVE  c \in Seq(Seq(Nat)) /\ Head(c) = r /\ Tail(c) = b /\ c # <<>>
<1>1. <<r>> \in Seq(Seq(Nat)) /\ Len(<<r>>) = 1 /\ <<r>>[1] = r
  OBVIOUS
<1>2. c \in Seq(Seq(Nat)) /\ Len(c) = 1 + Len(b)
  BY <1>1, ConcatProperties, ZenonT(30)
<1>3. Len(b) \in Nat /\ \A i \in 1..(1 + Len(b)) : c[i] = IF i <= 1 THEN r ELSE b[i - 1]
  <2>1. \A i \in 1..(Len(<<r>>) + Len(b)) :
           (<<r>> \o b)[i] = IF i <= Len(<<r>>) THEN <<r>>[i] ELSE b[i - Len(<<r>>)]
    BY <1>1, ConcatProperties, Zenon
  <2> QED BY <1>1, <2>1
<1>4. c # <<>>
  <2>1. Len(c) # 0 /\ Len(<<>>) = 0
    BY <1>2, <1>3
  <2> QED BY <2>1, Zenon
<1>5. Head(c) = r
  BY <1>2, <1>3
<1>6. Tail(c) \in Seq(Seq(Nat)) /\ Len(Tail(c)) = Len(b) /\ \A i \in 1..Len(b) : Tail(c)[i] = c[i + 1]
  BY <1>2, <1>3, <1>4, HeadTailProperties
<1>7. \A i \in 1..Len(b) : Tail(c)[i] = b[i]
  BY <1>3, <1>6
<1>8. Tail(c) = b
  BY <1>6, <1>7, SeqEqual, Zenon
<1> QED BY <1>2, <1>4, <1>5, <1>8, ZenonT(30)

\* A write() to the pty, of a whole buffer or a part of it.
LEMMA WriteStep ==
    ASSUME InTypes, CanWrite, WriteHead, UNCHANGED got, PtyAssumption
    PROVE  Input' = Input /\ slave' \in Seq(Nat) /\ buffers' \in Seq(Seq(Nat))
<1> DEFINE h == Head(buffers)
           m == InRoom - Len(slave)
           t == TakeFirst(h, m)
           r == DropFirst(h, Len(t))
           f == FlattenSeq(Tail(buffers))
<1>1. /\ got \in Seq(Nat) /\ slave \in Seq(Nat) /\ buffers \in Seq(Seq(Nat)) /\ buffers # <<>>
      /\ m \in Nat
  BY DEF InTypes, CanWrite, PtyAssumption
<1>2. h \in Seq(Nat) /\ Tail(buffers) \in Seq(Seq(Nat))
  BY <1>1
<1>3. f \in Seq(Nat) /\ FlattenSeq(buffers) = h \o f
  BY <1>1, <1>2, FlattenType, FlattenHead, ZenonT(30)
<1>4. /\ t \in Seq(Nat) /\ r \in Seq(Nat) /\ t \o r = h
      /\ Len(t) \in Nat /\ Len(t) <= Len(h)
  <2> HIDE DEF h, m
  <2> QED BY <1>1, <1>2, TakeDrop, ZenonT(30)
<1>5. /\ slave' = slave \o t
      /\ buffers' = IF Len(t) = Len(h) THEN Tail(buffers) ELSE <<r>> \o Tail(buffers)
  <2>1. Len(h) \in Nat
    BY <1>2
  <2>2. Min({m, Len(h)}) \in Nat /\ Min({m, Len(h)}) <= Len(h)
    <3>1. \E x \in {m, Len(h)} : \A y \in {m, Len(h)} : x <= y
      BY <1>1, <2>1
    <3> QED BY <1>1, <2>1, <3>1, ZenonT(30) DEF Min
  <2>3. t = SubSeq(h, 1, Min({m, Len(h)}))
    BY Zenon DEF TakeFirst
  <2>4. Len(t) = Min({m, Len(h)})
    <3> HIDE DEF h, t
    <3> QED BY <1>2, <2>2, <2>3, SubSeqProperties
  <2> QED BY <2>3, <2>4, ZenonT(30) DEF WriteHead
<1>6. FlattenSeq(buffers') = r \o f /\ buffers' \in Seq(Seq(Nat))
  <2>1. CASE Len(t) = Len(h)
    <3>1. r = <<>>
      <4> HIDE DEF h, t
      <4>1. Len(h) \in Nat /\ r = SubSeq(h, Len(h) + 1, Len(h))
        BY <1>2, <2>1 DEF DropFirst
      <4> QED BY <4>1, SubSeqEmpty
    <3>2. r \o f = f
      BY <1>3, <3>1
    <3> QED BY <1>2, <1>5, <2>1, <3>2, Zenon
  <2>2. CASE Len(t) # Len(h)
    <3>1. buffers' = <<r>> \o Tail(buffers)
      BY <1>5, <2>2, Zenon
    <3>2. PICK b : b = Tail(buffers)
      BY ZenonT(30)
    <3> HIDE DEF r
    <3>3. r \in Seq(Nat) /\ b \in Seq(Seq(Nat)) /\ buffers' = <<r>> \o b
      BY <1>2, <1>4, <3>1, <3>2, ZenonT(30)
    <3>4. buffers' \in Seq(Seq(Nat)) /\ Head(buffers') = r /\ Tail(buffers') = b /\ buffers' # <<>>
      BY <3>3, PushFront, ZenonT(30)
    <3> QED BY <3>2, <3>4, FlattenHead, ZenonT(30)
  <2> QED BY <2>1, <2>2, Zenon
<1> HIDE DEF h, m, t, r, f
<1>7. slave' \in Seq(Nat) /\ r \o f \in Seq(Nat)
  BY <1>1, <1>2, <1>3, <1>4, <1>5
<1>8. (slave \o t) \o (r \o f) = slave \o (t \o (r \o f))
  <2>1. slave \in Seq(Nat) /\ t \in Seq(Nat)
    BY <1>1, <1>4, Zenon
  <2> QED BY <2>1, <1>7, ConcatConcat, ZenonT(30)
<1>9. (t \o r) \o f = t \o (r \o f)
  BY <1>3, <1>4, ConcatConcat, ZenonT(30)
<1>10. slave' \o FlattenSeq(buffers') = slave \o FlattenSeq(buffers)
  BY <1>3, <1>4, <1>5, <1>6, <1>8, <1>9, Zenon
<1>11. Input' = Input
  BY <1>10, ZenonT(30) DEF Input
<1> QED BY <1>6, <1>7, <1>11, Zenon

\* A step that moves no input keeps the order.
LEMMA InputKeeps ==
    ASSUME InInv, Input' = Input, InTypes', UNCHANGED <<stdin_fd, stdin, typed>>,
           pc' \in Loop => pc \in Loop, UNCHANGED revents \/ revents' = Quiet
    PROVE  InInv'
<1>1. PICK k \in Nat : Ordered(Input, k) /\ Follow(k)
  BY Zenon DEF InInv
<1>2. Ordered(Input', k) /\ Follow(k)'
  BY <1>1, ZenonT(30) DEF Follow
<1>3. /\ revents' \in [signal : BOOLEAN, in : BOOLEAN, out : BOOLEAN, stdin : BOOLEAN, hup : BOOLEAN]
      /\ revents'.stdin \/ revents'.hup => stdin_fd'
  <2>1. CASE UNCHANGED revents
    BY <2>1, ZenonT(30) DEF InInv
  <2>2. CASE revents' = Quiet
    BY <2>2, ZenonT(30) DEF Quiet
  <2> QED BY <2>1, <2>2, ZenonT(30)
<1> QED BY <1>1, <1>2, <1>3, ZenonT(30) DEF InInv

\* The end of a round: what was read is queued, and an EOF after it if stdin ended.
LEMMA StdinStep == ASSUME InInv, HandleStdin, PtyAssumption PROVE InInv'
<1> DEFINE data == TakeFirst(stdin, BUFSIZ)
           rest == DropFirst(stdin, Len(data))
           reads == revents.stdin /\ data # <<>>
           full == reads /\ maxsz # 0 /\ Len(stdout) >= maxsz
           eof == ~full /\ (revents.hup \/ (revents.stdin /\ data = <<>>))
<1>1. InTypes /\ BUFSIZ \in Nat
  BY Zenon DEF InInv, PtyAssumption
<1>2. data \in Seq(Nat) /\ rest \in Seq(Nat) /\ data \o rest = stdin
  BY <1>1, TakeDrop, ZenonT(30) DEF InTypes
<1>3. /\ pc = "stdin" /\ pc' \in Loop /\ revents' = Quiet
      /\ UNCHANGED <<typed, slave, got>>
      /\ stdin' = IF revents.stdin THEN rest ELSE stdin
      /\ stdin_fd' = (stdin_fd /\ ~eof)
      /\ buffers' = (buffers \o (IF reads THEN <<data>> ELSE <<>>))
                        \o (IF eof THEN <<<<DEF_EOF>>>> ELSE <<>>)
  BY ZenonT(30) DEF HandleStdin, Loop
<1> HIDE DEF data, rest
<1>4. PICK k \in Nat : Ordered(Input, k) /\ Follow(k)
  BY Zenon DEF InInv
<1>5. Input \in Seq(Nat)
  BY <1>1, InputType, ZenonT(30)
<1>6. revents.stdin \/ revents.hup => stdin_fd
  BY Zenon DEF InInv
<1>7. got \in Seq(Nat) /\ slave \in Seq(Nat) /\ buffers \in Seq(Seq(Nat))
  BY <1>1, ZenonT(30) DEF InTypes
<1>8. Len(data) \in Nat /\ Len(rest) \in Nat /\ Len(stdin) = Len(data) + Len(rest)
      /\ (\A i \in 1..Len(data) : stdin[i] = data[i])
      /\ \A i \in 1..Len(rest) : stdin[Len(data) + i] = rest[i]
  <2>1. /\ Len(data \o rest) = Len(data) + Len(rest)
        /\ \A i \in 1..(Len(data) + Len(rest)) :
              (data \o rest)[i] = IF i <= Len(data) THEN data[i] ELSE rest[i - Len(data)]
    BY <1>2, ConcatProperties, ZenonT(30)
  <2>2. Len(data) \in Nat /\ Len(rest) \in Nat
    BY <1>2
  <2>3. ASSUME NEW i \in 1..Len(rest) PROVE stdin[Len(data) + i] = rest[i]
    <3>1. Len(data) + i \in 1..(Len(data) + Len(rest)) /\ ~(Len(data) + i <= Len(data))
          /\ (Len(data) + i) - Len(data) = i
      BY <2>2
    <3> QED BY <1>2, <2>1, <3>1, Zenon
  <2> QED BY <1>2, <2>1, <2>2, <2>3
\* The data.
<1>9. \E b1, k1 :
         /\ b1 = IF reads THEN Append(buffers, data) ELSE buffers
         /\ b1 \in Seq(Seq(Nat)) /\ k1 \in Nat
         /\ Ordered(got \o (slave \o FlattenSeq(b1)), k1)
         /\ stdin_fd /\ ~eof =>
               /\ k1 + Len(stdin') = typed
               /\ \A i \in 1..Len(stdin') : stdin'[i] = k1 + i
               /\ k1 = Len(got \o (slave \o FlattenSeq(b1)))
  <2>1. CASE ~reads
    <3>1. stdin_fd /\ ~eof => stdin' = stdin
      BY <1>3, <2>1, ZenonT(30)
    <3>2. /\ Ordered(got \o (slave \o FlattenSeq(buffers)), k)
          /\ stdin_fd => /\ k + Len(stdin) = typed
                         /\ \A i \in 1..Len(stdin) : stdin[i] = k + i
                         /\ k = Len(got \o (slave \o FlattenSeq(buffers)))
      BY <1>3, <1>4, ZenonT(30) DEF Input, Follow, Loop
    <3> HIDE DEF reads, eof
    <3> QED BY <1>7, <2>1, <3>1, <3>2, ZenonT(30)
  <2>2. CASE reads
    <3> DEFINE b1 == Append(buffers, data)
               w1 == got \o (slave \o FlattenSeq(b1))
    <3>1. b1 \in Seq(Seq(Nat))
      BY <1>2, <1>7, AppendProperties, ZenonT(30)
    <3>2. w1 = Input \o data
      <4>1. data \in Seq(Nat)
        BY <1>2, ZenonT(30)
      <4>2. w1 = (got \o (slave \o FlattenSeq(buffers))) \o data
        BY <1>1, <1>7, <4>1, BuffersAppend, ZenonT(30)
      <4> QED BY <4>2, ZenonT(30) DEF Input
    <3>3. /\ stdin_fd /\ k = Len(Input) /\ Ordered(Input, Len(Input))
          /\ k + Len(stdin) = typed /\ \A i \in 1..Len(stdin) : stdin[i] = k + i
      BY <1>3, <1>4, <1>6, <2>2, ZenonT(30) DEF Follow, Loop
    <3>4. \A i \in 1..Len(data) : data[i] = Len(Input) + i
      BY <1>8, <3>3
    <3>5. Ordered(w1, k + Len(data)) /\ Len(w1) = k + Len(data)
      BY <1>2, <1>5, <3>2, <3>3, <3>4, OrderedMore, ZenonT(30)
    <3>6. stdin' = rest
      BY <1>3, <2>2, Zenon
    <3>7. k + Len(data) \in Nat /\ (k + Len(data)) + Len(rest) = typed
      BY <1>8, <3>3
    <3>8. \A i \in 1..Len(rest) : rest[i] = (k + Len(data)) + i
      BY <1>8, <3>3
    <3> HIDE DEF b1, w1, reads, eof
    <3> WITNESS b1, k + Len(data)
    <3> QED BY <2>2, <3>1, <3>5, <3>6, <3>7, <3>8, ZenonT(30) DEF b1, w1
  <2> QED BY <2>1, <2>2, ZenonT(30)
<1>10. PICK b1, k1 :
         /\ b1 = IF reads THEN Append(buffers, data) ELSE buffers
         /\ b1 \in Seq(Seq(Nat)) /\ k1 \in Nat
         /\ Ordered(got \o (slave \o FlattenSeq(b1)), k1)
         /\ stdin_fd /\ ~eof =>
               /\ k1 + Len(stdin') = typed
               /\ \A i \in 1..Len(stdin') : stdin'[i] = k1 + i
               /\ k1 = Len(got \o (slave \o FlattenSeq(b1)))
  BY <1>9, Zenon
<1>11. buffers' = IF eof THEN Append(b1, <<DEF_EOF>>) ELSE b1
  <2>1. buffers \o (IF reads THEN <<data>> ELSE <<>>) = b1
    <3>1. buffers \o <<>> = buffers
      BY <1>7
    <3>2. Append(buffers, data) = buffers \o <<data>>
      BY <1>2, <1>7, AppendIsConcat, ZenonT(30)
    <3> HIDE DEF reads
    <3> QED BY <1>10, <3>1, <3>2, Zenon
  <2>2. b1 \o <<>> = b1 /\ <<DEF_EOF>> \in Seq(Nat)
    BY <1>10 DEF DEF_EOF
  <2>3. Append(b1, <<DEF_EOF>>) = b1 \o <<<<DEF_EOF>>>>
    BY <1>10, <2>2, AppendIsConcat, ZenonT(30)
  <2> HIDE DEF reads, eof
  <2> QED BY <1>3, <2>1, <2>2, <2>3, ZenonT(30)
<1> DEFINE w1 == got \o (slave \o FlattenSeq(b1))
<1>12. w1 \in Seq(Nat)
  <2>1. FlattenSeq(b1) \in Seq(Nat)
    BY <1>10, FlattenType, ZenonT(30)
  <2> QED BY <1>7, <2>1
<1>13. buffers' \in Seq(Seq(Nat)) /\ Ordered(Input', k1)
  <2>1. CASE eof
    <3>1. buffers' = Append(b1, <<DEF_EOF>>) /\ <<DEF_EOF>> \in Seq(Nat)
      BY <1>11, <2>1 DEF DEF_EOF
    <3>2. buffers' \in Seq(Seq(Nat))
      BY <1>10, <3>1, AppendProperties, Zenon
    <3>3. b1 \in Seq(Seq(Nat))
      BY <1>10, Zenon
    <3>4. got \o (slave \o FlattenSeq(buffers')) = w1 \o <<DEF_EOF>>
      BY <1>1, <3>1, <3>3, BuffersAppend, ZenonT(30)
    <3>5. Input' = w1 \o <<DEF_EOF>>
      BY <1>3, <3>4, ZenonT(30) DEF Input
    <3>6. Ordered(w1 \o <<DEF_EOF>>, k1)
      BY <1>10, <1>12, OrderedEof, ZenonT(30)
    <3> QED BY <3>2, <3>5, <3>6, ZenonT(30)
  <2>2. CASE ~eof
    BY <1>3, <1>10, <1>11, <2>2, ZenonT(30) DEF Input
  <2> QED BY <2>1, <2>2, Zenon
<1>14. Follow(k1)'
  <2> SUFFICES ASSUME stdin_fd'
               PROVE  /\ k1 + Len(stdin') = typed'
                      /\ \A i \in 1..Len(stdin') : stdin'[i] = k1 + i
                      /\ k1 = Len(Input')
    BY Zenon DEF Follow
  <2>1. stdin_fd /\ ~eof
    BY <1>3, ZenonT(30)
  <2>2. Input' = w1
    BY <1>3, <1>11, <2>1, ZenonT(30) DEF Input
  <2> QED BY <1>3, <1>10, <2>1, <2>2, ZenonT(30)
<1>15. InTypes'
  BY <1>1, <1>2, <1>3, <1>7, <1>13, ZenonT(30) DEF InTypes
<1>16. revents' \in [signal : BOOLEAN, in : BOOLEAN, out : BOOLEAN, stdin : BOOLEAN, hup : BOOLEAN]
       /\ ~(revents'.stdin \/ revents'.hup)
  BY <1>3, ZenonT(30) DEF Quiet
<1> QED BY <1>10, <1>13, <1>14, <1>15, <1>16, ZenonT(30) DEF InInv

\* Every step keeps InInv.
LEMMA InStep == ASSUME ChildInv, InInv, [Next]_vars PROVE InInv'
<1>1. InTypes
  BY Zenon DEF InInv
<1>2. ASSUME UNCHANGED inVars, pc' \in Loop => pc \in Loop, UNCHANGED revents \/ revents' = Quiet
      PROVE  InInv'
  BY <1>1, <1>2, InputKeeps, ZenonT(30) DEF inVars, InTypes, Input
<1>3. CASE UNCHANGED vars
  BY <1>2, <1>3, ZenonT(30) DEF vars, inVars
<1>4. CASE Poll
  <2>1. UNCHANGED inVars /\ pc = "poll" /\ revents' = Events
    BY <1>4, ZenonT(30) DEF Poll
  <2>2. PICK k \in Nat : Ordered(Input, k) /\ Follow(k)
    BY Zenon DEF InInv
  <2>3. Input' = Input /\ InTypes'
    BY <1>1, <2>1, ZenonT(30) DEF inVars, Input, InTypes
  <2>4. Ordered(Input', k) /\ Follow(k)'
    BY <2>1, <2>2, <2>3, ZenonT(30) DEF Follow, inVars, Loop
  <2>5. revents' \in [signal : BOOLEAN, in : BOOLEAN, out : BOOLEAN, stdin : BOOLEAN, hup : BOOLEAN]
        /\ (revents'.stdin \/ revents'.hup => stdin_fd')
    BY <2>1, ZenonT(30) DEF Events, inVars
  <2> QED BY <2>2, <2>3, <2>4, <2>5, ZenonT(30) DEF InInv
<1>5. CASE PollTimeout \/ LoopEnds \/ HandleSignal \/ Resume \/ HandleMaster
  <2>1. UNCHANGED <<inVars, revents>> /\ pc \in Loop
    BY <1>5, ZenonT(30) DEF PollTimeout, LoopEnds, HandleSignal, Resume, HandleMaster, Loop
  <2> QED BY <1>2, <2>1, ZenonT(30)
<1>6. CASE Left \/ SignalsCleanup \/ MainEnds
  <2>1. UNCHANGED inVars /\ pc' \notin Loop /\ (UNCHANGED revents \/ revents' = Quiet)
    BY <1>6, Zenon DEF Left, SignalsCleanup, MainEnds, SessionTerminated, SessionOver, Loop
  <2> QED BY <1>2, <2>1, ZenonT(30)
<1>7. CASE HandleStdin
  BY <1>7, StdinStep, PtyAssumption, ZenonT(30)
<1>8. CASE Flush \/ ErrorFlush
  <2>1. /\ UNCHANGED <<revents, stdin_fd, typed, stdin, got>> /\ (pc' \in Loop => pc \in Loop)
        /\ (CanWrite /\ WriteHead) \/ UNCHANGED <<slave, buffers>>
    BY <1>8, ZenonT(30) DEF Flush, ErrorFlush, Loop
  <2>2. CASE CanWrite /\ WriteHead
    <3>1. Input' = Input /\ slave' \in Seq(Nat) /\ buffers' \in Seq(Seq(Nat))
      BY <1>1, <2>1, <2>2, WriteStep, PtyAssumption, ZenonT(30)
    <3>2. InTypes'
      BY <1>1, <2>1, <3>1, ZenonT(30) DEF InTypes
    <3> QED BY <2>1, <3>1, <3>2, InputKeeps, ZenonT(30)
  <2>3. CASE UNCHANGED <<slave, buffers>>
    <3>1. Input' = Input /\ InTypes'
      BY <1>1, <2>1, <2>3, ZenonT(30) DEF Input, InTypes
    <3> QED BY <2>1, <3>1, InputKeeps, ZenonT(30)
  <2> QED BY <2>1, <2>2, <2>3, ZenonT(30)
<1>9. CASE ErrorEof
  <2>1. /\ UNCHANGED <<revents, stdin_fd, typed, stdin, slave, got>> /\ pc' \notin Loop
        /\ buffers' = Append(buffers, <<DEF_EOF>>) /\ <<DEF_EOF>> \in Seq(Nat)
    BY <1>9 DEF ErrorEof, Loop, DEF_EOF
  <2>2. got \in Seq(Nat) /\ slave \in Seq(Nat) /\ buffers \in Seq(Seq(Nat))
    BY <1>1, ZenonT(30) DEF InTypes
  <2>3. Input' = Input \o <<DEF_EOF>>
    <3>1. <<DEF_EOF>> \in Seq(Nat)
      BY <2>1, ZenonT(30)
    <3>2. buffers' = Append(buffers, <<DEF_EOF>>)
      BY <2>1, ZenonT(30)
    <3>3. got \o (slave \o FlattenSeq(buffers')) = (got \o (slave \o FlattenSeq(buffers))) \o <<DEF_EOF>>
      BY <1>1, <2>2, <3>1, <3>2, BuffersAppend, ZenonT(30)
    <3> QED BY <2>1, <3>3, ZenonT(30) DEF Input
  <2>4. buffers' \in Seq(Seq(Nat))
    BY <2>1, <2>2, AppendProperties, ZenonT(30)
  <2>5. PICK k \in Nat : Ordered(Input, k) /\ Follow(k)
    BY Zenon DEF InInv
  <2>6. Ordered(Input', k)
    BY <1>1, <2>3, <2>5, InputType, OrderedEof, ZenonT(30)
  <2>7. Follow(k)' /\ InTypes'
    BY <1>1, <2>1, <2>4, <2>5, ZenonT(30) DEF Follow, InTypes
  <2> QED BY <2>1, <2>5, <2>6, <2>7, ZenonT(30) DEF InInv
<1>10. CASE ChildRead
  <2>1. /\ UNCHANGED <<pc, revents, stdin_fd, typed, stdin, buffers>> /\ slave # <<>>
        /\ got' = Append(got, Head(slave)) /\ slave' = Tail(slave)
    BY <1>10, ZenonT(30) DEF ChildRead
  <2>2. Input' = Input /\ got' \in Seq(Nat) /\ slave' \in Seq(Nat)
    BY <1>1, <2>1, ReadStep, ZenonT(30)
  <2>3. InTypes'
    BY <1>1, <2>1, <2>2, ZenonT(30) DEF InTypes
  <2> QED BY <2>1, <2>2, <2>3, InputKeeps, ZenonT(30)
<1>11. CASE Type
  <2>1. /\ UNCHANGED <<pc, revents, stdin_fd, slave, got, buffers>>
        /\ typed' = typed + 1 /\ stdin' = Append(stdin, typed + 1)
    BY <1>11, ZenonT(30) DEF Type
  <2>2. stdin \in Seq(Nat) /\ typed \in Nat
    BY <1>1, ZenonT(30) DEF InTypes
  <2>3. /\ stdin' \in Seq(Nat) /\ typed' \in Nat /\ Len(stdin') = Len(stdin) + 1
        /\ stdin'[Len(stdin) + 1] = typed + 1 /\ \A i \in 1..Len(stdin) : stdin'[i] = stdin[i]
    BY <2>1, <2>2
  <2>4. Input' = Input /\ InTypes'
    BY <1>1, <2>1, <2>3, ZenonT(30) DEF Input, InTypes
  <2>5. PICK k \in Nat : Ordered(Input, k) /\ Follow(k)
    BY Zenon DEF InInv
  <2>6. Follow(k)'
    <3> SUFFICES ASSUME stdin_fd'
                 PROVE  /\ k + Len(stdin') = typed'
                        /\ \A i \in 1..Len(stdin') : stdin'[i] = k + i
                        /\ pc' \in Loop => k = Len(Input')
      BY Zenon DEF Follow
    <3>1. /\ k + Len(stdin) = typed /\ Len(stdin) \in Nat
          /\ \A i \in 1..Len(stdin) : stdin[i] = k + i
          /\ pc \in Loop => k = Len(Input)
      BY <2>1, <2>2, <2>5 DEF Follow
    <3> QED BY <2>1, <2>2, <2>3, <2>4, <3>1
  <2>7. /\ revents' \in [signal : BOOLEAN, in : BOOLEAN, out : BOOLEAN, stdin : BOOLEAN, hup : BOOLEAN]
        /\ revents'.stdin \/ revents'.hup => stdin_fd'
    BY <2>1, Zenon DEF InInv
  <2> QED BY <2>4, <2>5, <2>6, <2>7, ZenonT(30) DEF InInv
<1>12. CASE Close
  <2>1. /\ UNCHANGED <<pc, revents, stdin_fd, typed, stdin, buffers, slave, got>>
    BY <1>12, Zenon DEF Close
  <2>2. Input' = Input /\ InTypes'
    BY <1>1, <2>1, ZenonT(30) DEF Input, InTypes
  <2> QED BY <2>1, <2>2, InputKeeps, Zenon
<1>13. CASE KilledLate \/ ChildWrite \/ ChildExit \/ ChildStop \/ ChildCont \/ Term
  <2>1. UNCHANGED <<inVars, revents>> /\ (pc' \in Loop => pc \in Loop)
    BY <1>13, ZenonT(30) DEF KilledLate, ChildWrite, ChildExit, ChildStop, ChildCont, Term, Loop
  <2> QED BY <1>2, <2>1, ZenonT(30)
<1> QED
  BY <1>3, <1>4, <1>5, <1>6, <1>7, <1>8, <1>9, <1>10, <1>11, <1>12, <1>13, ZenonT(30)
  DEF Next, Script, ul_pty_proxy_master, Around

\* InInv holds always.
LEMMA InInvariant == Spec => []InInv
<1>1. Init => InInv
  <2> SUFFICES ASSUME Init PROVE InInv
    BY Zenon
  <2>1. /\ pc = "poll" /\ revents = Quiet /\ stdin_fd = TRUE /\ typed = 0
        /\ buffers = <<>> /\ slave = <<>> /\ got = <<>> /\ stdin = <<>>
    BY Zenon DEF Init
  <2>2. FlattenSeq(buffers) = <<>>
    BY <2>1, ZenonT(30) DEF FlattenSeq
  <2>3. Input = <<>>
    BY <2>1, <2>2 DEF Input
  <2>4. InTypes
    BY <2>1 DEF InTypes
  <2>5. Ordered(Input, 0) /\ Follow(0)
    BY <2>1, <2>3 DEF Ordered, Follow
  <2>6. revents \in [signal : BOOLEAN, in : BOOLEAN, out : BOOLEAN, stdin : BOOLEAN, hup : BOOLEAN]
    BY <2>1, ZenonT(30) DEF Quiet
  <2> QED BY <2>1, <2>4, <2>5, <2>6, ZenonT(30) DEF InInv
<1>2. QED
  BY <1>1, InStep, ChildInvariant, PTL DEF Spec

\* What is typed reaches the child in order, with nothing lost or twice, and EOFs come
\* after it, however read() and write() cut it and whatever stops the session.
THEOREM InputInOrderAlways == Spec => []InputInOrder
<1>1. InInv => InputInOrder
  <2> SUFFICES ASSUME InInv PROVE InputInOrder
    BY Zenon
  <2>1. PICK k \in Nat : Ordered(Input, k) /\ Follow(k)
    BY Zenon DEF InInv
  <2>2. Len(Input) \in Nat
    BY InputType DEF InInv
  <2>3. k \in 0..Len(Input)
    BY <2>1, <2>2 DEF Ordered
  <2> QED BY <2>1, <2>3, ZenonT(30) DEF InputInOrder, Ordered, Follow
<1>2. QED
  BY <1>1, InInvariant, PTL
=============================================================================
