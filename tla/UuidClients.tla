---------------------------- MODULE UuidClients ----------------------------
(***************************************************************************)
(* uuid_generate_time_generic() of libuuid/src/gen_uuid.c, against a uuidd    *)
(* with the continuous clock: a thread asks the daemon for a number of UUIDs  *)
(* at once and serves itself from this cache; when no daemon answers it       *)
(* draws from the local clock.  The daemons come and go, one at a time        *)
(* (Uuidd is about that), and the answer of one that dies is lost.            *)
(*                                                                         *)
(* A range of the local clock, get_clock(), has a clock sequence of its own    *)
(* here: which ranges it returns is the subject of UuidClock.                *)
(***************************************************************************)
EXTENDS UuidCont

CONSTANTS
    Client,                     \* the threads
    CS_MIN, CS_MAX, CS_FACTOR,  \* the sizes of a cache
    MaxCalls, MaxExits          \* bounds

ASSUME ClientsAssumption ==
    /\ CS_MIN \in Nat \ {0} /\ CS_MAX \in Nat /\ CS_FACTOR \in Nat \ {0}
    /\ MaxCalls \in Nat /\ MaxExits \in Nat

VARIABLES
    up,           \* the daemon that answers on the socket: a set of at most one
    asked,        \* of each thread: the daemon it waits for, a set of at most one
    cache,        \* uuidd_cache: num, cache_size, last_used and uu
    answer,       \* what the daemon drew for the connection
    written,      \* the threads to whom it has written that
    given, twice, \* ghost: the stamps returned, and those returned again
    draws,        \* the ranges drawn from the local clocks
    calls, exits

clientVars == <<asked, cache, answer, written, given, twice>>
clientsVars == <<contVars, up, clientVars, draws, calls, exits>>

EmptyCache == [num |-> 0, cache_size |-> CS_MIN, last_used |-> 0, seq |-> 0, tick |-> 0]

NoAnswer == [seq |-> 0, first |-> 0, num |-> 0]

\* The clock sequence of the continuous clock.
CLOCK_SEQ_CONT == 0

-----------------------------------------------------------------------------
(* The daemon *)

DaemonStarts(d) ==
    /\ up = {} /\ up' = {d}
    /\ \A c \in Client : d \notin asked[c]      \* a new process
    /\ UNCHANGED <<contVars, clientVars, draws, calls, exits>>

\* It exits or dies: the connections end, its statics are gone, and so is a range
\* that it drew and has not written.
DaemonEnds(d) ==
    /\ up = {d} /\ up' = {} /\ exits < MaxExits
    /\ exits' = exits + 1
    /\ ContExit(d)
    /\ answer' = [c \in Client |-> IF c \in written THEN answer[c] ELSE NoAnswer]
    /\ UNCHANGED <<asked, cache, written, given, twice, draws, calls>>

Answer(c, seq, first) ==
    answer' = [answer EXCEPT ![c] = [seq |-> seq, first |-> first, num |-> cache[c].cache_size]]

\* UUIDD_OP_BULK_TIME_UUID: __uuid_generate_time_internal() tries the continuous
\* clock and falls back to get_clock().  One connection is served at a time.
GenerateTime(d, c) ==
    /\ asked[c] = {d} /\ up = {d} /\ answer[c] = NoAnswer
    /\ \A e \in Client : answer[e] # NoAnswer => e \in written
    /\ LET n == cache[c].cache_size
       IN \/ ContIssue(d, n) /\ Answer(c, CLOCK_SEQ_CONT, Floor(d)) /\ UNCHANGED draws
          \/ /\ ContRefuse(d, n) \/ ContFail(d, n) \/ ContBroken(d)
             /\ draws' = draws + 1
             /\ Answer(c, draws', 0)
    /\ UNCHANGED <<up, asked, cache, written, given, twice, calls, exits>>

\* write_all()
WriteAnswer(d, c) ==
    /\ up = {d} /\ answer[c] # NoAnswer /\ c \notin written
    /\ written' = written \union {c}
    /\ UNCHANGED <<contVars, up, asked, cache, answer, given, twice, draws, calls, exits>>

-----------------------------------------------------------------------------
(* uuid_generate_time_generic() *)

\* The UUID with this stamp is returned to the caller.
Return(c, stamp) ==
    /\ given' = given \union {stamp}
    /\ twice' = twice \union ({stamp} \intersect given)
    /\ asked' = [asked EXCEPT ![c] = {}]
    /\ answer' = [answer EXCEPT ![c] = NoAnswer]
    /\ written' = written \ {c}

Stamp(seq, tick) == [seq |-> seq, tick |-> tick]

\* last_used, when the cache has just expired or not.
LastUsed(k) == IF k.num > 0 THEN k.cache_size - k.num ELSE k.last_used

\* The size of the next cache: up if the last one was used up, down if less than
\* a CS_FACTOR-th of it was.
NextSize(k) ==
    IF LastUsed(k) = k.cache_size /\ k.cache_size < CS_MAX THEN k.cache_size * CS_FACTOR
    ELSE IF LastUsed(k) < k.cache_size \div CS_FACTOR /\ k.cache_size > CS_MIN
         THEN k.cache_size \div CS_FACTOR
         ELSE k.cache_size

\* "request to daemon failed, reset cache", and __uuid_generate_time().
Local(c) ==
    /\ cache' = [cache EXCEPT ![c] = EmptyCache]
    /\ draws' = draws + 1
    /\ Return(c, Stamp(draws', 0))

\* The cache is empty, or more than a second old: get_uuid_via_daemon().
Fill(c) ==
    /\ asked[c] = {} /\ calls < MaxCalls
    /\ calls' = calls + 1
    /\ \/ /\ up # {}
          /\ asked' = [asked EXCEPT ![c] = up]
          /\ cache' = [cache EXCEPT ![c].num = 0, ![c].cache_size = NextSize(cache[c]),
                                    ![c].last_used = LastUsed(cache[c])]
          /\ UNCHANGED <<answer, written, given, twice, draws>>
       \/ up = {} /\ Local(c)
    /\ UNCHANGED <<contVars, up, exits>>

\* Mutant: the UUID that is returned is left in the cache.
AnsweredKept(c) ==
    /\ c \in written
    /\ cache' = [cache EXCEPT ![c].num = answer[c].num,
                              ![c].seq = answer[c].seq, ![c].tick = answer[c].first]
    /\ Return(c, Stamp(answer[c].seq, answer[c].first))
    /\ UNCHANGED <<contVars, up, draws, calls, exits>>

\* get_uuid_via_daemon() has the answer.
Answered(c) ==
    /\ c \in written
    /\ cache' = [cache EXCEPT ![c].num = cache[c].cache_size - 1,
                              ![c].seq = answer[c].seq, ![c].tick = answer[c].first]
    /\ Return(c, Stamp(answer[c].seq, answer[c].first))
    /\ UNCHANGED <<contVars, up, draws, calls, exits>>

\* The connection ended without an answer.
Failed(c) ==
    /\ asked[c] # {} /\ asked[c] # up /\ answer[c] = NoAnswer
    /\ Local(c)
    /\ UNCHANGED <<contVars, up, calls, exits>>

\* "serve uuid from cache"
FromCache(c) ==
    /\ asked[c] = {} /\ cache[c].num > 0
    /\ cache' = [cache EXCEPT ![c].tick = @ + 1, ![c].num = @ - 1,
                              ![c].last_used = IF cache[c].num = 1 THEN cache[c].cache_size ELSE @]
    /\ Return(c, Stamp(cache[c].seq, cache[c].tick + 1))
    /\ UNCHANGED <<contVars, up, draws, calls, exits>>

\* Mutant: no reset_uuidd_cache() in the child.
ForkedCacheKept(c) == cache[c]

\* pthread_atfork(): reset_uuidd_cache() in the child.
ForkedCache(c) == EmptyCache

\* c forks; its child takes the place of a thread e that has ended.
Fork(c, e) ==
    /\ asked[c] = {} /\ asked[e] = {} /\ c # e
    /\ cache' = [cache EXCEPT ![e] = ForkedCache(c)]
    /\ UNCHANGED <<contVars, up, asked, answer, written, given, twice, draws, calls, exits>>

-----------------------------------------------------------------------------
ClientsInit ==
    /\ ContInit
    /\ up = {}
    /\ asked = [c \in Client |-> {}]
    /\ cache = [c \in Client |-> EmptyCache]
    /\ answer = [c \in Client |-> NoAnswer]
    /\ written = {} /\ given = {} /\ twice = {}
    /\ draws = 0 /\ calls = 0 /\ exits = 0

uuid_generate_time_generic(c) == Fill(c) \/ Answered(c) \/ Failed(c) \/ FromCache(c)

ClientsNext ==
    \/ \E d \in Daemon : DaemonStarts(d) \/ DaemonEnds(d)
    \/ \E d \in Daemon, c \in Client : GenerateTime(d, c) \/ WriteAnswer(d, c)
    \/ \E c \in Client : uuid_generate_time_generic(c)
    \/ \E c, e \in Client : Fork(c, e)
    \/ (Tick \/ SetBack) /\ UNCHANGED <<up, clientVars, draws, calls, exits>>

ClientsSpec == ClientsInit /\ [][ClientsNext]_clientsVars

-----------------------------------------------------------------------------
(* Properties *)

\* No two UUIDs have the same stamp: across the restarts of the daemon, a clock
\* that is set back, the caches of the threads, their forks, and the fallback to
\* the local clock (gen_uuid.c:600-604).
GivenOnce == twice = {}

\* A thread never hands out a stamp of the continuous clock that no daemon drew
\* for it: the cached stamps are the rest of a range that was issued, and no tick
\* is cached by two threads (gen_uuid.c:656-673).
CachedIssued ==
    \A c \in Client :
        cache[c].num > 0 /\ cache[c].seq = CLOCK_SEQ_CONT =>
            LET rest == (cache[c].tick + 1) .. (cache[c].tick + cache[c].num)
            IN /\ \E i \in 1..Len(issued) : rest \subseteq issued[i].first .. (RangeEnd(issued[i]) - 1)
               /\ \A e \in Client \ {c} :
                      cache[e].num > 0 /\ cache[e].seq = CLOCK_SEQ_CONT =>
                          rest \intersect (cache[e].tick + 1) .. (cache[e].tick + cache[e].num) = {}
=============================================================================
