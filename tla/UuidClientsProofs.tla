------------------------- MODULE UuidClientsProofs -------------------------
(***************************************************************************)
(* Proofs about UuidClients: no stamp is returned twice, and what a thread   *)
(* has cached was drawn for it alone.  The lemmas about the continuous clock  *)
(* are those of UuiddProofs.                                                *)
(***************************************************************************)
EXTENDS UuidClients, UuiddProofs

CacheType ==
    [num : Nat, cache_size : Nat \ {0}, last_used : Nat, seq : Nat, tick : Nat]

AnswerType == [seq : Nat, first : Nat, num : Nat]

ClientTypes ==
    /\ up \subseteq Daemon
    /\ asked \in [Client -> SUBSET Daemon]
    /\ cache \in [Client -> CacheType]
    /\ answer \in [Client -> AnswerType]
    /\ given \subseteq [seq : Nat, tick : Nat]
    /\ draws \in Nat

\* Only the daemon that is up has the clock's file open.
OpenUp == \A d \in Daemon : state_fd[d] = "open" => up = {d}

\* A thread that waits for the daemon has no cache, and gets as many as it asked for.
Waits ==
    \A c \in Client :
        /\ asked[c] # {} => cache[c].num = 0
        /\ answer[c] # NoAnswer => asked[c] # {} /\ answer[c].num = cache[c].cache_size
        /\ c \in written => answer[c] # NoAnswer
        /\ cache[c].num <= cache[c].cache_size

\* The stamp with clock sequence s and tick t is one c may return: it is in its cache, or
\* in the answer on the connection.
Holds(c, s, t) ==
    \/ /\ answer[c] # NoAnswer /\ s = answer[c].seq
       /\ answer[c].first <= t /\ t < answer[c].first + answer[c].num
    \/ /\ s = cache[c].seq
       /\ cache[c].tick < t /\ t <= cache[c].tick + cache[c].num

InRange(i, t) == issued[i].first <= t /\ t < RangeEnd(issued[i])

\* It was drawn from the continuous clock, or from a local one.
Drawn(s, t) ==
    IF s = CLOCK_SEQ_CONT THEN \E i \in 1..Len(issued) : InRange(i, t) ELSE s <= draws

\* Nothing that was returned, and nothing that another thread may return.
HeldFresh == \A c \in Client, s, t \in Nat : Holds(c, s, t) => Stamp(s, t) \notin given

HeldApart ==
    \A c, e \in Client, s, t \in Nat : Holds(c, s, t) /\ Holds(e, s, t) => c = e

HeldDrawn ==
    \A c \in Client :
        /\ \A s, t \in Nat : Holds(c, s, t) => Drawn(s, t)
        /\ \A u \in Nat : Holds(c, CLOCK_SEQ_CONT, u) =>
               \E i \in 1..Len(issued) :
                   \A t \in Nat : Holds(c, CLOCK_SEQ_CONT, t) => InRange(i, t)

GivenDrawn == \A s, t \in Nat : Stamp(s, t) \in given => Drawn(s, t)

CInv ==
    /\ IInv /\ ClientTypes /\ OpenUp /\ Waits
    /\ HeldFresh /\ HeldApart /\ HeldDrawn /\ GivenDrawn
    /\ twice = {}

\* What was handed out stays handed out, and what was drawn stays drawn.
LEMMA DrawnStays ==
    ASSUME issued \in Seq(IssuedRange), draws \in Nat, draws' \in Nat, draws <= draws',
           issued' = issued \/ \E r \in IssuedRange : issued' = Append(issued, r)
    PROVE  /\ \A s, t \in Nat : Drawn(s, t) => Drawn(s, t)'
           /\ \A i \in 1..Len(issued) : i \in 1..Len(issued') /\ issued'[i] = issued[i]
<1>1. \A i \in 1..Len(issued) : i \in 1..Len(issued') /\ issued'[i] = issued[i]
  <2>1. CASE issued' = issued
    BY <2>1, Zenon
  <2>2. ASSUME NEW r \in IssuedRange, issued' = Append(issued, r)
        PROVE  \A i \in 1..Len(issued) : i \in 1..Len(issued') /\ issued'[i] = issued[i]
    <3>1. /\ Len(issued) \in Nat /\ Len(issued') = Len(issued) + 1
          /\ \A i \in 1..Len(issued) : issued'[i] = issued[i]
      BY <2>2
    <3> QED BY <3>1
  <2> QED BY <2>1, <2>2, Zenon
<1>2. ASSUME NEW s \in Nat, NEW t \in Nat, Drawn(s, t) PROVE Drawn(s, t)'
  BY <1>1, <1>2 DEF Drawn, InRange, RangeEnd, CLOCK_SEQ_CONT
<1> QED BY <1>1, <1>2, Zenon

\* A step in which threads hold less than before, and the stamps that are returned were
\* held by one of them, or are new.
LEMMA HoldLess ==
    ASSUME CInv, NEW gs \in Nat, NEW gt \in Nat,
           \A s, t \in Nat : Drawn(s, t) => Drawn(s, t)',
           \A i \in 1..Len(issued) : i \in 1..Len(issued') /\ issued'[i] = issued[i],
           \A c \in Client, s, t \in Nat : Holds(c, s, t)' => Holds(c, s, t),
           \/ given' = given
           \/ /\ given' = given \union {Stamp(gs, gt)}
              /\ Drawn(gs, gt)'
              /\ \A c \in Client : ~Holds(c, gs, gt)'
    PROVE  (HeldFresh /\ HeldApart /\ HeldDrawn /\ GivenDrawn)'
<1>1. HeldApart'
  BY ZenonT(30) DEF HeldApart, CInv
<1>2. \A s, t \in Nat : Stamp(s, t) \in given' => Stamp(s, t) \in given \/ (s = gs /\ t = gt /\ given' # given)
  BY DEF Stamp
<1>3. HeldFresh'
  <2> SUFFICES ASSUME NEW c \in Client, NEW s \in Nat, NEW t \in Nat, Holds(c, s, t)',
                      Stamp(s, t) \in given'
               PROVE  FALSE
    BY Zenon DEF HeldFresh, Stamp
  <2>1. Stamp(s, t) \notin given
    BY Zenon DEF CInv, HeldFresh
  <2> QED BY <1>2, <2>1, Zenon
<1>4. GivenDrawn'
  <2> SUFFICES ASSUME NEW s \in Nat, NEW t \in Nat, Stamp(s, t) \in given'
               PROVE  Drawn(s, t)'
    BY Zenon DEF GivenDrawn, Stamp
  <2> QED BY <1>2, Zenon DEF CInv, GivenDrawn
<1>5. HeldDrawn'
  <2> SUFFICES ASSUME NEW c \in Client
               PROVE  /\ \A s, t \in Nat : Holds(c, s, t)' => Drawn(s, t)'
                      /\ \A u \in Nat : Holds(c, CLOCK_SEQ_CONT, u)' =>
                             \E i \in 1..Len(issued') :
                                 \A t \in Nat : Holds(c, CLOCK_SEQ_CONT, t)' => InRange(i, t)'
    BY Zenon DEF HeldDrawn, CLOCK_SEQ_CONT
  <2>1. ASSUME NEW s \in Nat, NEW t \in Nat, Holds(c, s, t)' PROVE Drawn(s, t)'
    <3>1. Drawn(s, t)
      BY <2>1, Zenon DEF CInv, HeldDrawn
    <3> QED BY <3>1, Zenon
  <2>2. ASSUME NEW u \in Nat, Holds(c, CLOCK_SEQ_CONT, u)'
        PROVE  \E i \in 1..Len(issued') :
                   \A t \in Nat : Holds(c, CLOCK_SEQ_CONT, t)' => InRange(i, t)'
    <3>0. CLOCK_SEQ_CONT \in Nat
      BY Zenon DEF CLOCK_SEQ_CONT
    <3>1. Holds(c, CLOCK_SEQ_CONT, u)
      BY <2>2, <3>0, Zenon
    <3>2. PICK i \in 1..Len(issued) : \A t \in Nat : Holds(c, CLOCK_SEQ_CONT, t) => InRange(i, t)
      BY <3>1, Zenon DEF CInv, HeldDrawn
    <3>3. i \in 1..Len(issued') /\ issued'[i] = issued[i]
      BY Zenon
    <3>4. \A t \in Nat : InRange(i, t) => InRange(i, t)'
      BY <3>3, Zenon DEF InRange, RangeEnd
    <3> QED BY <3>0, <3>2, <3>3, <3>4, Zenon
  <2> QED BY <2>1, <2>2, Zenon
<1> QED BY <1>1, <1>3, <1>4, <1>5, Zenon

\* A step in which c is answered with a range that nobody had.
LEMMA HoldNew ==
    ASSUME CInv, NEW c \in Client, NEW s0 \in Nat, NEW lo \in Nat, NEW hi \in Nat,
           \A s, t \in Nat : Drawn(s, t) => Drawn(s, t)',
           \A i \in 1..Len(issued) : i \in 1..Len(issued') /\ issued'[i] = issued[i],
           given' = given,
           \A e \in Client, s, t \in Nat : e # c => (Holds(e, s, t)' => Holds(e, s, t)),
           \A s, t \in Nat : Holds(c, s, t)' => s = s0 /\ lo <= t /\ t < hi,
           \A t \in Nat : lo <= t /\ t < hi => ~Drawn(s0, t) /\ Drawn(s0, t)',
           s0 = CLOCK_SEQ_CONT => \E j \in 1..Len(issued') :
                                      \A t \in Nat : lo <= t /\ t < hi => InRange(j, t)'
    PROVE  (HeldFresh /\ HeldApart /\ HeldDrawn /\ GivenDrawn)'
<1>1. \A s, t \in Nat : Holds(c, s, t)' => ~Drawn(s, t) /\ Drawn(s, t)'
  BY Zenon
<1>2. \A e \in Client, s, t \in Nat : Holds(e, s, t) => Drawn(s, t) /\ Stamp(s, t) \notin given
  BY Zenon DEF CInv, HeldDrawn, HeldFresh
<1>3. HeldFresh'
  <2> SUFFICES ASSUME NEW e \in Client, NEW s \in Nat, NEW t \in Nat, Holds(e, s, t)'
               PROVE  Stamp(s, t) \notin given
    BY Zenon DEF HeldFresh, Stamp
  <2>1. CASE e = c
    <3>1. ~Drawn(s, t)
      BY <1>1, <2>1, Zenon
    <3> QED BY <3>1, Zenon DEF CInv, GivenDrawn
  <2>2. CASE e # c
    <3>1. Holds(e, s, t)
      BY <2>2, Zenon
    <3> QED BY <1>2, <3>1, Zenon
  <2> QED BY <2>1, <2>2, Zenon
<1>4. HeldApart'
  <2> SUFFICES ASSUME NEW e \in Client, NEW f \in Client, NEW s \in Nat, NEW t \in Nat,
                      Holds(e, s, t)', Holds(f, s, t)', e # f
               PROVE  FALSE
    BY Zenon DEF HeldApart
  <2>1. CASE e # c /\ f # c
    <3>1. Holds(e, s, t) /\ Holds(f, s, t)
      BY <2>1, Zenon
    <3> QED BY <3>1, Zenon DEF CInv, HeldApart
  <2>2. CASE e = c
    <3>1. ~Drawn(s, t) /\ Holds(f, s, t)
      BY <1>1, <2>2, Zenon
    <3> QED BY <1>2, <3>1, Zenon
  <2>3. CASE f = c
    <3>1. ~Drawn(s, t) /\ Holds(e, s, t)
      BY <1>1, <2>3, Zenon
    <3> QED BY <1>2, <3>1, Zenon
  <2> QED BY <2>1, <2>2, <2>3, Zenon
<1>5. GivenDrawn'
  BY Zenon DEF GivenDrawn, CInv, Stamp
<1>6. HeldDrawn'
  <2> SUFFICES ASSUME NEW e \in Client
               PROVE  /\ \A s, t \in Nat : Holds(e, s, t)' => Drawn(s, t)'
                      /\ \A u \in Nat : Holds(e, CLOCK_SEQ_CONT, u)' =>
                             \E i \in 1..Len(issued') :
                                 \A t \in Nat : Holds(e, CLOCK_SEQ_CONT, t)' => InRange(i, t)'
    BY Zenon DEF HeldDrawn, CLOCK_SEQ_CONT
  <2>0. CLOCK_SEQ_CONT \in Nat
    BY Zenon DEF CLOCK_SEQ_CONT
  <2>1. CASE e = c
    <3>1. ASSUME NEW u \in Nat, Holds(c, CLOCK_SEQ_CONT, u)'
          PROVE  \E i \in 1..Len(issued') :
                     \A t \in Nat : Holds(c, CLOCK_SEQ_CONT, t)' => InRange(i, t)'
      <4>1. s0 = CLOCK_SEQ_CONT
        BY <2>0, <3>1, Zenon
      <4> QED BY <2>0, <4>1, Zenon
    <3> QED BY <1>1, <2>1, <3>1, Zenon
  <2>2. CASE e # c
    <3>1. \A s, t \in Nat : Holds(e, s, t)' => Drawn(s, t)'
      BY <1>2, <2>2, Zenon
    <3>2. ASSUME NEW u \in Nat, Holds(e, CLOCK_SEQ_CONT, u)'
          PROVE  \E i \in 1..Len(issued') :
                     \A t \in Nat : Holds(e, CLOCK_SEQ_CONT, t)' => InRange(i, t)'
      <4>1. Holds(e, CLOCK_SEQ_CONT, u)
        BY <2>0, <2>2, <3>2, Zenon
      <4>2. PICK i \in 1..Len(issued) : \A t \in Nat : Holds(e, CLOCK_SEQ_CONT, t) => InRange(i, t)
        BY <4>1, Zenon DEF CInv, HeldDrawn
      <4>3. i \in 1..Len(issued') /\ \A t \in Nat : InRange(i, t) => InRange(i, t)'
        BY Zenon DEF InRange, RangeEnd
      <4> QED BY <2>0, <2>2, <4>2, <4>3, Zenon
    <3> QED BY <3>1, <3>2, Zenon
  <2> QED BY <2>1, <2>2, Zenon
<1> QED BY <1>3, <1>4, <1>5, <1>6, Zenon

\* A thread is answered: the continuous clock gives a range, or a local one does.
LEMMA GenerateKeeps ==
    ASSUME CInv, NEW d \in Daemon, NEW c \in Client, GenerateTime(d, c)
    PROVE  CInv'
<1> DEFINE n == cache[c].cache_size
<1>1. /\ IInv /\ ClientTypes /\ cache[c] \in CacheType /\ n \in Nat \ {0}
      /\ cache[c].num = 0 /\ up = {d} /\ asked[c] # {}
  <2>1. asked[c] = {d} /\ up = {d}
    BY Zenon DEF GenerateTime
  <2>2. cache[c] \in CacheType
    BY Zenon DEF CInv, ClientTypes
  <2> QED BY <2>1, <2>2, Zenon DEF CInv, Waits, CacheType
<1>2. Alone(d)
  BY <1>1, Zenon DEF Alone, CInv, OpenUp
<1>3. /\ UNCHANGED <<up, asked, cache, written, given, twice>>
      /\ \/ /\ ContIssue(d, n) /\ draws' = draws
            /\ answer' = [answer EXCEPT ![c] = [seq |-> CLOCK_SEQ_CONT, first |-> Floor(d), num |-> n]]
         \/ /\ ContRefuse(d, n) \/ ContFail(d, n) \/ ContBroken(d)
            /\ draws' = draws + 1
            /\ answer' = [answer EXCEPT ![c] = [seq |-> draws + 1, first |-> 0, num |-> n]]
  BY Zenon DEF GenerateTime, Answer
<1>4. IInv'
  <2>1. CASE ContBroken(d)
    BY <1>1, <2>1, ContStep, Zenon DEF ContBroken
  <2>2. CASE ContIssue(d, n) \/ ContRefuse(d, n) \/ ContFail(d, n)
    BY <1>1, <1>2, <2>2, UseKeeps, Zenon
  <2> QED BY <1>3, <2>1, <2>2, Zenon
<1>5. OpenUp'
  <2>1. state_fd' = state_fd \/ \E fd \in {"open", "error"} : state_fd' = [state_fd EXCEPT ![d] = fd]
    BY <1>3, Zenon DEF ContIssue, ContRefuse, ContFail, ContBroken, SetStatics, contVars, staticVars
  <2>2. state_fd \in [Daemon -> {"init", "open", "error"}]
    BY <1>1, Zenon DEF IInv, ContTypeOK
  <2> QED BY <1>1, <1>3, <2>1, <2>2, Zenon DEF OpenUp, CInv
<1>6. PICK a \in AnswerType : /\ answer' = [answer EXCEPT ![c] = a] /\ a.num = n
                              /\ \/ ContIssue(d, n) /\ draws' = draws /\ a.seq = CLOCK_SEQ_CONT /\ a.first = Floor(d)
                                 \/ /\ ContRefuse(d, n) \/ ContFail(d, n) \/ ContBroken(d)
                                    /\ draws' = draws + 1 /\ a.seq = draws + 1 /\ a.first = 0
  <2>1. Floor(d) \in Nat /\ draws \in Nat
    BY <1>1, RegTypes, Zenon DEF IInv, ClientTypes
  <2>2. /\ [seq |-> CLOCK_SEQ_CONT, first |-> Floor(d), num |-> n] \in AnswerType
        /\ [seq |-> draws + 1, first |-> 0, num |-> n] \in AnswerType
    BY <1>1, <2>1 DEF AnswerType, CLOCK_SEQ_CONT
  <2> HIDE DEF n
  <2> QED BY <1>3, <2>2, Zenon
<1> HIDE DEF n
<1>7. /\ answer'[c] = a /\ \A e \in Client : e # c => answer'[e] = answer[e]
      /\ answer' \in [Client -> AnswerType] /\ draws \in Nat /\ draws' \in Nat /\ draws <= draws'
  BY <1>1, <1>6 DEF ClientTypes
<1>8. a # NoAnswer /\ a.seq \in Nat /\ a.first \in Nat /\ a.num \in Nat /\ a.first + a.num \in Nat
  BY <1>1, <1>6 DEF NoAnswer, AnswerType
<1>9. ClientTypes'
  BY <1>1, <1>3, <1>7, Zenon DEF ClientTypes
<1>10. Waits'
  BY <1>1, <1>3, <1>6, <1>7, <1>8, Zenon DEF Waits, CInv, n
<1>11. \A e \in Client, s, t \in Nat : e # c => (Holds(e, s, t)' => Holds(e, s, t))
  BY <1>3, <1>7, ZenonT(30) DEF Holds
<1>12. \A s, t \in Nat : Holds(c, s, t)' => s = a.seq /\ a.first <= t /\ t < a.first + a.num
  <2>1. cache[c].tick \in Nat /\ cache[c].num = 0
    BY <1>1, Zenon DEF CacheType
  <2> QED BY <1>3, <1>7, <2>1 DEF Holds
<1>13. issued \in Seq(IssuedRange)
  BY <1>1, Zenon DEF IInv, ContTypeOK, IssuedRange
<1>14. CASE ContIssue(d, n) /\ draws' = draws /\ a.seq = CLOCK_SEQ_CONT /\ a.first = Floor(d)
  <2> DEFINE r == [first |-> Floor(d), num |-> n]
  <2>1. issued' = Append(issued, r) /\ state_fd[d] # "error" /\ Floor(d) \in Nat
    BY <1>1, <1>14, RegTypes, Zenon DEF ContIssue, IInv
  <2>2. r \in IssuedRange /\ r.first = a.first /\ RangeEnd(r) = a.first + a.num
    BY <1>1, <1>6, <1>14, <2>1, Zenon DEF IssuedRange, RangeEnd
  <2> HIDE DEF r
  <2>3. /\ \A s, t \in Nat : Drawn(s, t) => Drawn(s, t)'
        /\ \A i \in 1..Len(issued) : i \in 1..Len(issued') /\ issued'[i] = issued[i]
    BY <1>7, <1>13, <2>1, <2>2, DrawnStays, Zenon
  <2>4. PICK j \in 1..Len(issued') : issued'[j] = r
    <3>1. Len(issued) + 1 \in 1..Len(issued') /\ issued'[Len(issued) + 1] = r
      BY <1>13, <2>1, <2>2
    <3> QED BY <3>1, Zenon
  <2>5. \A t \in Nat : a.first <= t /\ t < a.first + a.num => InRange(j, t)'
    BY <2>2, <2>4, Zenon DEF InRange, RangeEnd
  <2>6. ASSUME NEW t \in Nat, a.first <= t, t < a.first + a.num
        PROVE  ~Drawn(a.seq, t) /\ Drawn(a.seq, t)'
    <3>1. Drawn(a.seq, t)'
      BY <1>14, <2>4, <2>5, <2>6, Zenon DEF Drawn
    <3>2. ASSUME NEW i \in 1..Len(issued), InRange(i, t) PROVE FALSE
      <4>1. RangeEnd(issued[i]) <= a.first /\ RangeEnd(issued[i]) \in Nat
        BY <1>1, <1>13, <1>14, <2>1, FloorIsFresh, RangeEndNat, Zenon
      <4> QED BY <1>8, <2>6, <3>2, <4>1 DEF InRange
    <3> QED BY <1>14, <3>1, <3>2, Zenon DEF Drawn
  <2>7. (HeldFresh /\ HeldApart /\ HeldDrawn /\ GivenDrawn)'
    BY <1>3, <1>8, <1>11, <1>12, <2>3, <2>4, <2>5, <2>6, HoldNew, Zenon
  <2> QED BY <1>3, <1>4, <1>5, <1>9, <1>10, <2>7, Zenon DEF CInv
<1>15. CASE /\ ContRefuse(d, n) \/ ContFail(d, n) \/ ContBroken(d)
            /\ draws' = draws + 1 /\ a.seq = draws + 1 /\ a.first = 0
  <2>1. issued' = issued
    BY <1>15, Zenon DEF ContRefuse, ContFail, ContBroken, contVars
  <2>2. /\ \A s, t \in Nat : Drawn(s, t) => Drawn(s, t)'
        /\ \A i \in 1..Len(issued) : i \in 1..Len(issued') /\ issued'[i] = issued[i]
    BY <1>7, <1>13, <2>1, DrawnStays, Zenon
  <2>3. a.seq # CLOCK_SEQ_CONT /\ \A t \in Nat : ~Drawn(a.seq, t) /\ Drawn(a.seq, t)'
    BY <1>7, <1>15 DEF Drawn, CLOCK_SEQ_CONT
  <2>4. (HeldFresh /\ HeldApart /\ HeldDrawn /\ GivenDrawn)'
    BY <1>3, <1>8, <1>11, <1>12, <2>2, <2>3, HoldNew, Zenon
  <2> QED BY <1>3, <1>4, <1>5, <1>9, <1>10, <2>4, Zenon DEF CInv
<1> QED BY <1>6, <1>14, <1>15, Zenon

\* Steps of the threads leave the clock and the daemon alone.
LEMMA ClientKeeps ==
    ASSUME CInv, UNCHANGED <<contVars, up>>, ClientTypes', Waits', draws <= draws', twice' = {},
           NEW gs \in Nat, NEW gt \in Nat,
           \A c \in Client, s, t \in Nat : Holds(c, s, t)' => Holds(c, s, t),
           \/ given' = given
           \/ /\ given' = given \union {Stamp(gs, gt)}
              /\ Drawn(gs, gt)'
              /\ \A c \in Client : ~Holds(c, gs, gt)'
    PROVE  CInv'
<1>1. IInv'
  BY ContStep, Zenon DEF CInv
<1>2. issued' = issued /\ state_fd' = state_fd
  BY Zenon DEF contVars, staticVars
<1>3. OpenUp'
  BY <1>2, Zenon DEF CInv, OpenUp
<1>4. issued \in Seq(IssuedRange) /\ draws \in Nat /\ draws' \in Nat
  BY Zenon DEF CInv, IInv, ContTypeOK, IssuedRange, ClientTypes
<1>5. /\ \A s, t \in Nat : Drawn(s, t) => Drawn(s, t)'
      /\ \A i \in 1..Len(issued) : i \in 1..Len(issued') /\ issued'[i] = issued[i]
  BY <1>2, <1>4, DrawnStays, Zenon
<1>6. (HeldFresh /\ HeldApart /\ HeldDrawn /\ GivenDrawn)'
  BY <1>5, HoldLess, ZenonT(30)
<1> QED BY <1>1, <1>3, <1>6, Zenon DEF CInv

\* A UUID is returned: one that c held, or a new one of a local clock.
LEMMA ReturnKeeps ==
    ASSUME CInv, NEW c \in Client, UNCHANGED <<contVars, up>>,
           NEW k \in CacheType, cache' = [cache EXCEPT ![c] = k], k.num <= k.cache_size,
           NEW gs \in Nat, NEW gt \in Nat, Return(c, Stamp(gs, gt)),
           \A t \in Nat : k.tick < t /\ t <= k.tick + k.num =>
                              Holds(c, k.seq, t) /\ ~(k.seq = gs /\ t = gt),
           \/ draws' = draws /\ Holds(c, gs, gt)
           \/ draws' = draws + 1 /\ gs = draws + 1
    PROVE  CInv'
<1>1. /\ given' = given \union {Stamp(gs, gt)}
      /\ twice' = twice \union ({Stamp(gs, gt)} \intersect given)
      /\ asked' = [asked EXCEPT ![c] = {}]
      /\ answer' = [answer EXCEPT ![c] = NoAnswer] /\ written' = written \ {c}
  BY Zenon DEF Return
<1>2. ClientTypes /\ twice = {} /\ Waits
  BY Zenon DEF CInv
<1>3. /\ cache'[c] = k /\ asked'[c] = {} /\ answer'[c] = NoAnswer
      /\ \A e \in Client : e # c => /\ cache'[e] = cache[e] /\ asked'[e] = asked[e]
                                    /\ answer'[e] = answer[e]
  BY <1>1, <1>2, Zenon DEF ClientTypes
<1>4. draws \in Nat /\ draws' \in Nat /\ draws <= draws'
  BY <1>2 DEF ClientTypes
<1>5. ClientTypes'
  <2>1. asked' \in [Client -> SUBSET Daemon] /\ cache' \in [Client -> CacheType] /\ up' \subseteq Daemon
    BY <1>1, <1>2, Zenon DEF ClientTypes
  <2>2. answer' \in [Client -> AnswerType]
    BY <1>1, <1>2, Zenon DEF ClientTypes, NoAnswer, AnswerType
  <2>3. given' \subseteq [seq : Nat, tick : Nat]
    BY <1>1, <1>2 DEF ClientTypes, Stamp
  <2> QED BY <1>4, <2>1, <2>2, <2>3, Zenon DEF ClientTypes
<1>6. Waits'
  BY <1>1, <1>2, <1>3, ZenonT(30) DEF Waits
<1>7. \A e \in Client, s, t \in Nat : e # c => (Holds(e, s, t)' <=> Holds(e, s, t))
  <2> SUFFICES ASSUME NEW e \in Client, NEW s \in Nat, NEW t \in Nat, e # c
               PROVE  Holds(e, s, t)' <=> Holds(e, s, t)
    BY Zenon
  <2>1. cache'[e] = cache[e] /\ answer'[e] = answer[e]
    BY <1>3, Zenon
  <2> QED BY <2>1, Zenon DEF Holds
<1>8. \A s, t \in Nat : Holds(c, s, t)' => Holds(c, s, t) /\ ~(s = gs /\ t = gt)
  BY <1>3, Zenon DEF Holds
<1>9. /\ Stamp(gs, gt) \notin given /\ Drawn(gs, gt)'
      /\ \A e \in Client : e # c => ~Holds(e, gs, gt)
  <2>1. CASE draws' = draws /\ Holds(c, gs, gt)
    <3>1. Drawn(gs, gt)
      BY <2>1, Zenon DEF CInv, HeldDrawn
    <3>2. Drawn(gs, gt)'
      BY <2>1, <3>1, Zenon DEF Drawn, InRange, RangeEnd, contVars
    <3> QED BY <2>1, <3>2, Zenon DEF CInv, HeldFresh, HeldApart
  <2>2. CASE draws' = draws + 1 /\ gs = draws + 1
    <3>1. ~Drawn(gs, gt) /\ Drawn(gs, gt)'
      BY <1>4, <2>2 DEF Drawn, CLOCK_SEQ_CONT
    <3> QED BY <3>1, Zenon DEF CInv, HeldDrawn, GivenDrawn
  <2> QED BY <2>1, <2>2, Zenon
<1>10. twice' = {}
  BY <1>1, <1>2, <1>9, Zenon
<1>11. \A e \in Client, s, t \in Nat : Holds(e, s, t)' => Holds(e, s, t)
  BY <1>7, <1>8, Zenon
<1>12. \A e \in Client : ~Holds(e, gs, gt)'
  BY <1>7, <1>8, <1>9, Zenon
<1> QED BY <1>1, <1>4, <1>5, <1>6, <1>9, <1>10, <1>11, <1>12, ClientKeeps, Zenon

\* The next size is one.
LEMMA NextSizeType ==
    ASSUME NEW k \in CacheType, k.num <= k.cache_size
    PROVE  LastUsed(k) \in Nat /\ NextSize(k) \in Nat \ {0}
<1>1. /\ k.num \in Nat /\ k.cache_size \in Nat /\ k.cache_size > 0 /\ k.last_used \in Nat
      /\ CS_FACTOR \in Nat /\ CS_FACTOR > 0
  BY ClientsAssumption DEF CacheType
<1>2. LastUsed(k) \in Nat
  BY <1>1 DEF LastUsed
<1>3. k.cache_size * CS_FACTOR \in Nat /\ k.cache_size * CS_FACTOR > 0
  BY <1>1
<1>4. k.cache_size \div CS_FACTOR \in Int
  BY <1>1
<1> QED BY <1>1, <1>2, <1>3, <1>4 DEF NextSize

\* "request to daemon failed, reset cache"
LEMMA LocalKeeps ==
    ASSUME CInv, NEW c \in Client, UNCHANGED <<contVars, up>>, Local(c)
    PROVE  CInv'
<1>1. EmptyCache \in CacheType /\ EmptyCache.num = 0 /\ EmptyCache.cache_size \in Nat /\ EmptyCache.tick = 0
  BY ClientsAssumption, Zenon DEF EmptyCache, CacheType
<1>2. cache' = [cache EXCEPT ![c] = EmptyCache] /\ draws' = draws + 1 /\ Return(c, Stamp(draws + 1, 0))
  BY Zenon DEF Local
<1>3. draws + 1 \in Nat
  BY DEF CInv, ClientTypes
<1>4. PICK gs \in Nat : gs = draws + 1
  BY <1>3, Zenon
<1>5. Return(c, Stamp(gs, 0))
  BY <1>2, <1>4, Zenon
<1>6. \A t \in Nat : ~(EmptyCache.tick < t /\ t <= EmptyCache.tick + EmptyCache.num)
  BY <1>1
<1>7. EmptyCache.num <= EmptyCache.cache_size /\ 0 \in Nat
  BY <1>1
<1> QED BY <1>1, <1>2, <1>4, <1>5, <1>6, <1>7, ReturnKeeps, ZenonT(30)

\* get_uuid_via_daemon() has the answer: the first UUID is returned, the others cached.
LEMMA AnsweredKeeps ==
    ASSUME CInv, NEW c \in Client, Answered(c)
    PROVE  CInv'
<1>1. /\ answer[c] # NoAnswer /\ UNCHANGED <<contVars, up, draws>>
      /\ Return(c, Stamp(answer[c].seq, answer[c].first))
      /\ cache' = [cache EXCEPT ![c].num = cache[c].cache_size - 1,
                                ![c].seq = answer[c].seq, ![c].tick = answer[c].first]
  BY Zenon DEF Answered, CInv, Waits
<1>2. /\ cache \in [Client -> CacheType] /\ cache[c] \in CacheType /\ answer[c] \in AnswerType
      /\ answer[c].num = cache[c].cache_size
  BY <1>1, Zenon DEF CInv, ClientTypes, Waits
<1> DEFINE k == [cache[c] EXCEPT !.num = cache[c].cache_size - 1,
                                 !.seq = answer[c].seq, !.tick = answer[c].first]
<1>3. cache' = [cache EXCEPT ![c] = k]
  BY <1>1, <1>2, Zenon
<1>4. /\ answer[c].seq \in Nat /\ answer[c].first \in Nat /\ answer[c].num \in Nat /\ answer[c].num > 0
  BY <1>2 DEF AnswerType, CacheType
<1>5. /\ k \in CacheType /\ k.num = answer[c].num - 1 /\ k.cache_size = answer[c].num
      /\ k.seq = answer[c].seq /\ k.tick = answer[c].first
  <2>1. cache[c].cache_size - 1 \in Nat
    BY <1>2, <1>4
  <2> QED BY <1>2, <1>4, <2>1, ZenonT(30) DEF CacheType
<1> HIDE DEF k
<1>6. PICK gs \in Nat, gt \in Nat : gs = answer[c].seq /\ gt = answer[c].first
  BY <1>4, Zenon
<1>7. Return(c, Stamp(gs, gt)) /\ Holds(c, gs, gt)
  BY <1>1, <1>4, <1>6 DEF Holds
<1>8. \A t \in Nat : k.tick < t /\ t <= k.tick + k.num => Holds(c, k.seq, t) /\ ~(k.seq = gs /\ t = gt)
  BY <1>1, <1>4, <1>5, <1>6 DEF Holds
<1>9. k.num <= k.cache_size
  BY <1>4, <1>5
<1>10. k \in CacheType /\ UNCHANGED <<contVars, up>> /\ draws' = draws
  BY <1>1, <1>5, Zenon
<1> QED BY <1>3, <1>7, <1>8, <1>9, <1>10, ReturnKeeps, Zenon

\* "serve uuid from cache"
LEMMA FromCacheKeeps ==
    ASSUME CInv, NEW c \in Client, FromCache(c)
    PROVE  CInv'
<1> DEFINE lu == IF cache[c].num = 1 THEN cache[c].cache_size ELSE cache[c].last_used
           k == [cache[c] EXCEPT !.tick = cache[c].tick + 1, !.num = cache[c].num - 1, !.last_used = lu]
<1>1. /\ cache[c].num > 0 /\ UNCHANGED <<contVars, up, draws>>
      /\ Return(c, Stamp(cache[c].seq, cache[c].tick + 1))
      /\ cache' = [cache EXCEPT ![c].tick = @ + 1, ![c].num = @ - 1,
                                ![c].last_used = IF cache[c].num = 1 THEN cache[c].cache_size ELSE @]
  BY Zenon DEF FromCache
<1>2. cache \in [Client -> CacheType] /\ cache[c] \in CacheType /\ cache[c].num <= cache[c].cache_size
  BY Zenon DEF CInv, ClientTypes, Waits
<1>3. cache' = [cache EXCEPT ![c] = k]
  BY <1>1, <1>2, ZenonT(30)
<1>4. /\ cache[c].num \in Nat /\ cache[c].tick \in Nat /\ cache[c].seq \in Nat
      /\ cache[c].cache_size \in Nat /\ lu \in Nat
  BY <1>2, Zenon DEF CacheType
<1> HIDE DEF lu
<1>5. /\ k \in CacheType /\ k.num = cache[c].num - 1 /\ k.cache_size = cache[c].cache_size
      /\ k.seq = cache[c].seq /\ k.tick = cache[c].tick + 1
  BY <1>1, <1>2, <1>4 DEF CacheType
<1> HIDE DEF k
<1>6. PICK gs \in Nat, gt \in Nat : gs = cache[c].seq /\ gt = cache[c].tick + 1
  BY <1>4
<1>7. Return(c, Stamp(gs, gt)) /\ Holds(c, gs, gt)
  BY <1>1, <1>4, <1>6 DEF Holds
<1>8. \A t \in Nat : k.tick < t /\ t <= k.tick + k.num => Holds(c, k.seq, t) /\ ~(k.seq = gs /\ t = gt)
  BY <1>1, <1>4, <1>5, <1>6 DEF Holds
<1>9. k.num <= k.cache_size
  BY <1>2, <1>4, <1>5
<1>10. k \in CacheType /\ UNCHANGED <<contVars, up>> /\ draws' = draws
  BY <1>1, <1>5, Zenon
<1> QED BY <1>3, <1>7, <1>8, <1>9, <1>10, ReturnKeeps, Zenon

\* A cache without stamps replaces that of c, which is not answered.
LEMMA EmptiedKeeps ==
    ASSUME CInv, NEW c \in Client, NEW k \in CacheType, k.num = 0, answer[c] = NoAnswer,
           cache' = [cache EXCEPT ![c] = k], asked' \in [Client -> SUBSET Daemon],
           \A e \in Client : e # c => asked'[e] = asked[e],
           UNCHANGED <<contVars, up, answer, written, given, twice, draws>>
    PROVE  CInv'
<1>1. ClientTypes /\ Waits /\ twice = {}
  BY Zenon DEF CInv
<1>2. cache'[c] = k /\ \A e \in Client : e # c => cache'[e] = cache[e]
  BY <1>1, Zenon DEF ClientTypes
<1>3. ClientTypes'
  BY <1>1, Zenon DEF ClientTypes
<1>4. k.tick \in Nat /\ k.num <= k.cache_size
  BY DEF CacheType
<1>5. Waits'
  BY <1>1, <1>2, <1>4, ZenonT(30) DEF Waits
<1>6. \A e \in Client, s, t \in Nat : Holds(e, s, t)' => Holds(e, s, t)
  BY <1>2, <1>4 DEF Holds
<1>7. draws <= draws' /\ 0 \in Nat
  BY <1>1 DEF ClientTypes
<1> QED BY <1>1, <1>3, <1>5, <1>6, <1>7, ClientKeeps, Zenon

\* Filling a cache keeps CInv.
LEMMA FillKeeps ==
    ASSUME CInv, NEW c \in Client, Fill(c)
    PROVE  CInv'
<1>1. asked[c] = {} /\ answer[c] = NoAnswer /\ UNCHANGED <<contVars, up>>
  BY Zenon DEF Fill, CInv, Waits
<1>2. CASE Local(c)
  BY <1>1, <1>2, LocalKeeps, Zenon
<1>3. CASE ~Local(c)
  <2>1. /\ asked' = [asked EXCEPT ![c] = up]
        /\ cache' = [cache EXCEPT ![c].num = 0, ![c].cache_size = NextSize(cache[c]),
                                  ![c].last_used = LastUsed(cache[c])]
        /\ UNCHANGED <<answer, written, given, twice, draws>>
    BY <1>3, Zenon DEF Fill
  <2>2. /\ cache \in [Client -> CacheType] /\ cache[c] \in CacheType /\ cache[c].num <= cache[c].cache_size
        /\ asked \in [Client -> SUBSET Daemon] /\ up \subseteq Daemon
    BY Zenon DEF CInv, ClientTypes, Waits
  <2> DEFINE k == [cache[c] EXCEPT !.num = 0, !.cache_size = NextSize(cache[c]),
                                   !.last_used = LastUsed(cache[c])]
  <2>3. cache' = [cache EXCEPT ![c] = k]
    BY <2>1, <2>2, Zenon
  <2>4. LastUsed(cache[c]) \in Nat /\ NextSize(cache[c]) \in Nat \ {0}
    BY <2>2, NextSizeType, Zenon
  <2>5. k \in CacheType /\ k.num = 0
    BY <2>2, <2>4, Zenon DEF CacheType
  <2> HIDE DEF k
  <2>6. asked' \in [Client -> SUBSET Daemon] /\ \A e \in Client : e # c => asked'[e] = asked[e]
    BY <2>1, <2>2, Zenon
  <2> QED BY <1>1, <2>1, <2>3, <2>5, <2>6, EmptiedKeeps, ZenonT(30)
<1> QED BY <1>2, <1>3, Zenon

\* fork(2) keeps CInv.
LEMMA ForkKeeps ==
    ASSUME CInv, NEW c \in Client, NEW e \in Client, Fork(c, e)
    PROVE  CInv'
<1>1. /\ asked[e] = {} /\ cache' = [cache EXCEPT ![e] = EmptyCache]
      /\ UNCHANGED <<contVars, up, asked, answer, written, given, twice, draws>>
  BY Zenon DEF Fork, ForkedCache
<1>2. EmptyCache \in CacheType /\ EmptyCache.num = 0
  BY ClientsAssumption, Zenon DEF EmptyCache, CacheType
<1>3. answer[e] = NoAnswer /\ asked' \in [Client -> SUBSET Daemon]
  BY <1>1, Zenon DEF CInv, Waits, ClientTypes
<1> QED BY <1>1, <1>2, <1>3, EmptiedKeeps, Zenon

\* The daemon comes and goes, and writes what it drew unless it dies first; time passes.
LEMMA DaemonKeeps ==
    ASSUME CInv, UNCHANGED <<asked, cache, given, twice, draws>>, issued' = issued, IInv', OpenUp',
           up' \subseteq Daemon, answer' \in [Client -> AnswerType],
           \A c \in Client : /\ answer'[c] = answer[c] \/ answer'[c] = NoAnswer
                             /\ c \in written' => answer'[c] # NoAnswer
    PROVE  CInv'
<1>0. ClientTypes /\ Waits /\ twice = {}
  BY Zenon DEF CInv
<1>1. ClientTypes' /\ Waits' /\ twice' = {} /\ draws <= draws'
  <2>1. ClientTypes'
    BY <1>0, Zenon DEF ClientTypes
  <2>2. Waits'
    BY <1>0, Zenon DEF Waits
  <2>3. draws <= draws'
    BY <1>0 DEF ClientTypes
  <2> QED BY <1>0, <2>1, <2>2, <2>3, Zenon
<1>2. ASSUME NEW c \in Client, NEW s \in Nat, NEW t \in Nat, Holds(c, s, t)' PROVE Holds(c, s, t)
  <2>1. CASE answer'[c] = answer[c]
    BY <1>2, <2>1, Zenon DEF Holds
  <2>2. CASE answer'[c] = NoAnswer
    BY <1>2, <2>2, Zenon DEF Holds
  <2> QED BY <2>1, <2>2, Zenon
<1>3. issued \in Seq(IssuedRange) /\ draws \in Nat /\ draws' \in Nat
  BY Zenon DEF CInv, IInv, ContTypeOK, IssuedRange, ClientTypes
<1>4. /\ \A s, t \in Nat : Drawn(s, t) => Drawn(s, t)'
      /\ \A i \in 1..Len(issued) : i \in 1..Len(issued') /\ issued'[i] = issued[i]
  BY <1>1, <1>3, DrawnStays, Zenon
<1>5. 0 \in Nat /\ given' = given
  BY Zenon
<1>6. (HeldFresh /\ HeldApart /\ HeldDrawn /\ GivenDrawn)'
  BY <1>2, <1>4, <1>5, HoldLess, Zenon
<1> QED BY <1>1, <1>6, Zenon DEF CInv

\* Every step keeps the invariant.
LEMMA ClientsStep == ASSUME CInv, [ClientsNext]_clientsVars PROVE CInv'
<1>0. IInv /\ OpenUp /\ up \subseteq Daemon /\ state_fd \in [Daemon -> {"init", "open", "error"}]
  BY Zenon DEF CInv, ClientTypes, IInv, ContTypeOK
<1>7. /\ answer \in [Client -> AnswerType]
      /\ \A c \in Client : c \in written => answer[c] # NoAnswer
  BY Zenon DEF CInv, ClientTypes, Waits
<1> USE DEF clientVars
<1>1. CASE UNCHANGED clientsVars
  <2>1. UNCHANGED <<contVars, up, clientVars, draws>>
    BY <1>1, Zenon DEF clientsVars
  <2>2. IInv' /\ OpenUp' /\ issued' = issued
    BY <1>0, <2>1, ContStep, Zenon DEF OpenUp, contVars, staticVars
  <2> QED BY <1>0, <2>1, <2>2, <1>7, DaemonKeeps, Zenon
<1>2. ASSUME NEW d \in Daemon, DaemonStarts(d) PROVE CInv'
  <2>1. UNCHANGED <<contVars, clientVars, draws>> /\ up = {} /\ up' = {d}
    BY <1>2, Zenon DEF DaemonStarts
  <2>2. IInv' /\ issued' = issued
    BY <1>0, <2>1, ContStep, Zenon DEF contVars
  <2>3. OpenUp'
    BY <1>0, <2>1, Zenon DEF OpenUp, contVars, staticVars
  <2> QED BY <2>1, <2>2, <2>3, <1>7, DaemonKeeps, Zenon
<1>3. ASSUME NEW d \in Daemon, DaemonEnds(d) PROVE CInv'
  <2>1. /\ UNCHANGED <<asked, cache, written, given, twice, draws>> /\ up = {d} /\ up' = {} /\ ContExit(d)
        /\ answer' = [c \in Client |-> IF c \in written THEN answer[c] ELSE NoAnswer]
    BY <1>3, Zenon DEF DaemonEnds
  <2>5. /\ answer' \in [Client -> AnswerType]
        /\ \A c \in Client : /\ answer'[c] = answer[c] \/ answer'[c] = NoAnswer
                             /\ c \in written' => answer'[c] # NoAnswer
    <3>1. NoAnswer \in AnswerType
      BY Zenon DEF NoAnswer, AnswerType
    <3>2. \A c \in Client : answer'[c] = IF c \in written THEN answer[c] ELSE NoAnswer
      BY <2>1, Zenon
    <3>3. answer' \in [Client -> AnswerType]
      BY <1>7, <2>1, <3>1, Zenon
    <3> QED BY <1>7, <2>1, <3>2, <3>3, Zenon
  <2>2. issued' = issued /\ state_fd' = [state_fd EXCEPT ![d] = "init"]
    BY <2>1, Zenon DEF ContExit, SetStatics
  <2>3. IInv'
    BY <1>0, <2>1, ContStep, Zenon DEF ContNext
  <2>4. OpenUp'
    BY <1>0, <2>1, <2>2, Zenon DEF OpenUp
  <2> QED BY <2>1, <2>2, <2>3, <2>4, <2>5, DaemonKeeps, Zenon
<1>4. CASE (Tick \/ SetBack) /\ UNCHANGED <<up, clientVars, draws, calls, exits>>
  <2>1. issued' = issued /\ state_fd' = state_fd
    BY <1>4, Zenon DEF Tick, SetBack, staticVars
  <2>2. IInv' /\ OpenUp'
    BY <1>0, <1>4, <2>1, ContStep, Zenon DEF ContNext, OpenUp
  <2> QED BY <1>0, <1>4, <2>1, <2>2, <1>7, DaemonKeeps, Zenon
<1>5. ASSUME NEW c \in Client, Failed(c) PROVE CInv'
  BY <1>5, LocalKeeps, Zenon DEF Failed
<1>6. ASSUME NEW d \in Daemon, NEW c \in Client, WriteAnswer(d, c) PROVE CInv'
  <2>1. /\ UNCHANGED <<contVars, up, asked, cache, answer, given, twice, draws>>
        /\ answer[c] # NoAnswer /\ written' = written \union {c}
    BY <1>6, Zenon DEF WriteAnswer
  <2>2. IInv' /\ OpenUp' /\ issued' = issued
    BY <1>0, <2>1, ContStep, Zenon DEF OpenUp, contVars, staticVars
  <2>3. \A e \in Client : e \in written' => answer'[e] # NoAnswer
    BY <1>7, <2>1, Zenon
  <2> QED BY <1>0, <1>7, <2>1, <2>2, <2>3, DaemonKeeps, Zenon
<1> QED
  BY <1>1, <1>2, <1>3, <1>4, <1>5, <1>6, GenerateKeeps, FillKeeps, AnsweredKeeps, FromCacheKeeps, ForkKeeps, Zenon
  DEF ClientsNext, uuid_generate_time_generic

\* CInv holds always.
LEMMA ClientsInvariant == ClientsSpec => []CInv
<1>1. ClientsInit => CInv
  <2> SUFFICES ASSUME ClientsInit PROVE CInv
    BY Zenon
  <2>1. IInv /\ issued = <<>> /\ state_fd = [d \in Daemon |-> "init"]
    BY ContStart, Zenon DEF ClientsInit, ContInit
  <2>2. EmptyCache \in CacheType /\ EmptyCache.num = 0 /\ EmptyCache.tick = 0 /\ EmptyCache.cache_size \in Nat
    BY ClientsAssumption, Zenon DEF EmptyCache, CacheType
  <2>3. NoAnswer \in AnswerType
    BY Zenon DEF NoAnswer, AnswerType
  <2>4. ClientTypes
    BY <2>2, <2>3, Zenon DEF ClientsInit, ClientTypes
  <2>5. OpenUp /\ Waits
    BY <2>1, <2>2 DEF ClientsInit, OpenUp, Waits
  <2>6. \A c \in Client, s, t \in Nat : ~Holds(c, s, t)
    BY <2>2 DEF ClientsInit, Holds
  <2>7. HeldFresh /\ HeldApart /\ HeldDrawn /\ GivenDrawn /\ twice = {}
    BY <2>6, Zenon DEF ClientsInit, HeldFresh, HeldApart, HeldDrawn, GivenDrawn, CLOCK_SEQ_CONT
  <2> QED BY <2>1, <2>4, <2>5, <2>7, Zenon DEF CInv
<1>2. QED
  BY <1>1, ClientsStep, PTL DEF ClientsSpec

\* For any threads, daemons, sizes of a cache and clock offsets, no two UUIDs have the same
\* stamp: over restarts of the daemon, lost answers, forks and the fallback.
THEOREM GivenOnceAlways == ClientsSpec => []GivenOnce
<1>1. CInv => GivenOnce
  BY Zenon DEF CInv, GivenOnce
<1>2. QED
  BY <1>1, ClientsInvariant, PTL

\* What a thread has cached is the rest of one range that was issued, and no other thread
\* has a tick of it.
THEOREM CachedIssuedAlways == ClientsSpec => []CachedIssued
<1>1. CInv => CachedIssued
  <2> SUFFICES ASSUME CInv, NEW c \in Client, cache[c].num > 0, cache[c].seq = CLOCK_SEQ_CONT
               PROVE  LET rest == (cache[c].tick + 1) .. (cache[c].tick + cache[c].num)
                      IN /\ \E i \in 1..Len(issued) : rest \subseteq issued[i].first .. (RangeEnd(issued[i]) - 1)
                         /\ \A e \in Client \ {c} :
                                cache[e].num > 0 /\ cache[e].seq = CLOCK_SEQ_CONT =>
                                    rest \intersect (cache[e].tick + 1) .. (cache[e].tick + cache[e].num) = {}
    BY Zenon DEF CachedIssued
  <2> DEFINE Rest(e) == (cache[e].tick + 1) .. (cache[e].tick + cache[e].num)
  <2>1. \A e \in Client : cache[e].num \in Nat /\ cache[e].tick \in Nat
    BY Zenon DEF CInv, ClientTypes, CacheType
  <2>2. ASSUME NEW e \in Client, cache[e].seq = CLOCK_SEQ_CONT, NEW t \in Rest(e)
        PROVE  t \in Nat /\ Holds(e, CLOCK_SEQ_CONT, t)
    BY <2>1, <2>2 DEF Holds
  <2>3. CLOCK_SEQ_CONT \in Nat /\ issued \in Seq(IssuedRange)
    BY Zenon DEF CLOCK_SEQ_CONT, CInv, IInv, ContTypeOK, IssuedRange
  <2>4. cache[c].tick + 1 \in Rest(c)
    BY <2>1
  <2>5. PICK i \in 1..Len(issued) : \A t \in Nat : Holds(c, CLOCK_SEQ_CONT, t) => InRange(i, t)
    BY <2>2, <2>4, Zenon DEF CInv, HeldDrawn
  <2>6. issued[i].first \in Nat /\ RangeEnd(issued[i]) \in Nat
    <3>1. issued[i] \in IssuedRange
      BY <2>3
    <3>2. RangeEnd(issued[i]) \in Nat
      BY <2>3, RangeEndNat, Zenon
    <3> QED BY <3>1, <3>2, Zenon DEF IssuedRange
  <2>7. Rest(c) \subseteq issued[i].first .. (RangeEnd(issued[i]) - 1)
    <3> SUFFICES ASSUME NEW t \in Rest(c) PROVE t \in issued[i].first .. (RangeEnd(issued[i]) - 1)
      BY Zenon
    <3>1. t \in Nat /\ InRange(i, t)
      BY <2>2, <2>5, Zenon
    <3> QED BY <2>6, <3>1 DEF InRange
  <2>8. ASSUME NEW e \in Client \ {c}, cache[e].num > 0, cache[e].seq = CLOCK_SEQ_CONT
        PROVE  Rest(c) \intersect Rest(e) = {}
    <3> SUFFICES ASSUME NEW t \in Rest(c), t \in Rest(e) PROVE FALSE
      BY Zenon
    <3>1. t \in Nat /\ Holds(c, CLOCK_SEQ_CONT, t) /\ Holds(e, CLOCK_SEQ_CONT, t)
      BY <2>2, <2>8, Zenon
    <3> QED BY <2>3, <2>8, <3>1, Zenon DEF CInv, HeldApart
  <2> QED BY <2>7, <2>8, Zenon
<1>2. QED
  BY <1>1, ClientsInvariant, PTL

\* What ContSpec promises of the clock holds of the clock the threads use, for any sizes.
THEOREM ClientsClock == ClientsSpec => [](ContUnique /\ FileAhead)
<1>1. CInv => ContUnique /\ FileAhead
  BY Zenon DEF CInv, IInv
<1>2. QED
  BY <1>1, ClientsInvariant, PTL
=============================================================================
