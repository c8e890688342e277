---------------------------- MODULE LoginLimiter ----------------------------
(***************************************************************************)
(* The budget of login attempts (rateLimit.ts) and the part of the login   *)
(* handler that spends it (server.ts): one sliding window per address and  *)
(* one per identifier, each in a table of bounded size that is swept once  *)
(* a window and loses its oldest key when it is full.                      *)
(*                                                                         *)
(* Time is in ticks; the handler is synchronous, so a login is one action. *)
(* The clock does not run backwards.                                       *)
(***************************************************************************)
EXTENDS Naturals, Sequences, FiniteSets

CONSTANTS
    Ips, Ids,      \* client addresses, normalised identifiers
    Window,        \* LOGIN_IP_WINDOW_MS = LOGIN_IDENTIFIER_WINDOW_MS, in ticks
    Second,        \* ticks in the unit of Retry-After
    MaxIp, MaxId,  \* LOGIN_IP_MAX_ATTEMPTS, LOGIN_IDENTIFIER_MAX_ATTEMPTS
    MaxTracked,    \* RATE_LIMIT_MAX_TRACKED_KEYS
    MaxTime        \* bound: the last tick

ASSUME LimiterAssumption ==
    /\ Ips \intersect Ids = {}
    /\ Window \in Nat \ {0} /\ Second \in Nat \ {0}
    /\ MaxIp \in Nat \ {0} /\ MaxId \in Nat \ {0} /\ MaxTracked \in Nat \ {0}
    /\ MaxTime \in Nat /\ Window <= MaxTime

VARIABLES
    now,
    byIp, byId,  \* the two limiters
    spent,       \* history: attempts a key was charged for, a success cancels an identifier's
    forgotten,   \* history: keys evicted while some of that was in the window
    told         \* history: the end of the wait a key was last given, 0 once it is used again

limiterVars == <<now, byIp, byId, spent, forgotten, told>>

Keys == Ips \union Ids
Times == 0..MaxTime

\* at: a key's attempts, none for a key that is not in the Map; younger: the
\* Map's insertion order, as the keys that came after each.
Limiter == [at : [Keys -> Seq(Times)], younger : [Keys -> SUBSET Keys], lastSweep : Times]

LimiterTypeOK ==
    /\ now \in Times
    /\ byIp \in Limiter /\ byId \in Limiter
    /\ spent \in [Keys -> Seq(Times)]
    /\ forgotten \subseteq Keys
    /\ told \in [Keys -> Nat]

Empty == [at |-> [k \in Keys |-> <<>>], younger |-> [k \in Keys |-> {}], lastSweep |-> 0]

\* A sweep stands at the epoch at first, a window or more ago.
LimiterInit ==
    /\ now = Window
    /\ byIp = Empty /\ byId = Empty
    /\ spent = [k \in Keys |-> <<>>]
    /\ forgotten = {}
    /\ told = [k \in Keys |-> 0]

-----------------------------------------------------------------------------
(***************************************************************************)
(* SlidingWindowLimiter.                                                   *)
(***************************************************************************)
\* Attempts are pushed in the order of time: those still in the window at t
\* are the ones from this index on.
FirstWithin(attempts, t) ==
    CHOOSE i \in 1..Len(attempts) + 1 :
        \A j \in 1..Len(attempts) : t - attempts[j] < Window <=> i <= j

WithinWindow(attempts, t) == SubSeq(attempts, FirstWithin(attempts, t), Len(attempts))

Tracked(l) == {k \in Keys : l.at[k] # <<>>}

\* Map.delete, of the keys gone.
Forget(l, gone) ==
    [l EXCEPT !.at = [k \in Keys |-> IF k \in gone THEN <<>> ELSE l.at[k]],
              !.younger = [k \in Keys |-> IF k \in gone THEN {} ELSE l.younger[k] \ gone]]

\* Map.set: a key that is there keeps its place, a new one comes last.
Put(l, k, attempts) ==
    [l EXCEPT !.at[k] = attempts,
              !.younger = [j \in Keys |->
                  IF l.at[k] = <<>> /\ j \in Tracked(l) THEN l.younger[j] \union {k}
                  ELSE l.younger[j]]]

\* Mutant: the sweep takes every key it finds.
Sweep_All(l) ==
    IF now - l.lastSweep < Window THEN l
    ELSE [Forget(l, Keys) EXCEPT !.lastSweep = now]

\* At most once a window: expired attempts go, and the keys left with none.
Sweep(l) ==
    IF now - l.lastSweep < Window THEN l
    ELSE LET alive == [k \in Keys |-> WithinWindow(l.at[k], now)]
         IN  [Forget([l EXCEPT !.at = alive], {k \in Keys : alive[k] = <<>>})
                 EXCEPT !.lastSweep = now]

\* The keys first inserted go, until the table fits: those with a table's
\* worth of younger ones.
EvictIfOverCapacity(l) ==
    Forget(l, {k \in Keys : Cardinality(l.younger[k]) >= MaxTracked})

Ceil(a, b) == (a + b - 1) \div b

\* Mutant: whole seconds, rounded down.
RetryAfter_Down(oldest) ==
    LET seconds == (Window - (now - oldest)) \div Second
    IN  IF seconds < 1 THEN 1 ELSE seconds

RetryAfter(oldest) ==
    LET seconds == Ceil(Window - (now - oldest), Second)
    IN  IF seconds < 1 THEN 1 ELSE seconds

\* check: the answer, and the limiter it leaves.
Check(l, k, max) ==
    LET swept == Sweep(l)
        existing == swept.at[k]
        within == WithinWindow(existing, now)
        added == Put(swept, k, Append(within, now))
    IN  IF Len(within) >= max
        THEN [allowed |-> FALSE, retryAfter |-> RetryAfter(within[1]),
              limiter |-> Put(swept, k, within)]
        ELSE [allowed |-> TRUE, retryAfter |-> 0,
              limiter |-> IF existing = <<>> THEN EvictIfOverCapacity(added) ELSE added]

Reset(l, k) == Forget(l, {k})

-----------------------------------------------------------------------------
\* Keys with attempts in the window that a check has dropped from its table.
Evicted(before, after) ==
    {k \in Tracked(before) \ Tracked(after) : WithinWindow(before.at[k], now) # <<>>}

\* Charged for the attempt: the key has used what it was told to wait for.
Charge(sp, k) == [sp EXCEPT ![k] = Append(@, now)]

\* Over the address's budget: nothing is tested, nothing charged.
IpRefused(ip) ==
    LET c == Check(byIp, ip, MaxIp)
    IN  /\ ~c.allowed
        /\ byIp' = c.limiter
        /\ told' = [told EXCEPT ![ip] = now + c.retryAfter * Second]
        /\ UNCHANGED <<now, byId, spent, forgotten>>

\* Over the identifier's budget: the address has been charged already.
IdRefused(ip, id) ==
    LET c == Check(byIp, ip, MaxIp)
        d == Check(byId, id, MaxId)
    IN  /\ c.allowed /\ ~d.allowed
        /\ byIp' = c.limiter /\ byId' = d.limiter
        /\ spent' = Charge(spent, ip)
        /\ forgotten' = forgotten \union Evicted(byIp, c.limiter)
        /\ told' = [told EXCEPT ![ip] = 0, ![id] = now + d.retryAfter * Second]
        /\ UNCHANGED now

\* recordSuccess; the address's budget is deliberately not reset.
Succeeded(l, id) == Reset(l, id)

\* The password is tested; correct: a success clears the identifier.
Tested(ip, id, correct) ==
    LET c == Check(byIp, ip, MaxIp)
        d == Check(byId, id, MaxId)
    IN  /\ c.allowed /\ d.allowed
        /\ byIp' = c.limiter
        /\ byId' = IF correct THEN Succeeded(d.limiter, id) ELSE d.limiter
        /\ spent' = IF correct THEN [Charge(spent, ip) EXCEPT ![id] = <<>>]
                    ELSE Charge(Charge(spent, ip), id)
        /\ forgotten' = (forgotten \union Evicted(byIp, c.limiter) \union Evicted(byId, d.limiter))
                       \ (IF correct THEN {id} ELSE {})
        /\ told' = [told EXCEPT ![ip] = 0, ![id] = 0]
        /\ UNCHANGED now

Login(ip, id) ==
    \/ IpRefused(ip)
    \/ IdRefused(ip, id)
    \/ \E correct \in BOOLEAN : Tested(ip, id, correct)

\* Time passes; the history forgets what has left the window.
Tick ==
    /\ now < MaxTime
    /\ now' = now + 1
    /\ spent' = [k \in Keys |-> WithinWindow(spent[k], now')]
    /\ forgotten' = {k \in forgotten : spent'[k] # <<>>}
    /\ UNCHANGED <<byIp, byId, told>>

\* The limiter lives in the server's memory.
Restart ==
    /\ byIp # Empty \/ byId # Empty
    /\ byIp' = Empty /\ byId' = Empty
    /\ spent' = [k \in Keys |-> <<>>]
    /\ forgotten' = {}
    /\ told' = [k \in Keys |-> 0]
    /\ UNCHANGED now

LimiterNext ==
    \/ \E ip \in Ips, id \in Ids : Login(ip, id)
    \/ Tick
    \/ Restart

LimiterSpec == LimiterInit /\ [][LimiterNext]_limiterVars
-----------------------------------------------------------------------------
Table(k) == IF k \in Ips THEN byIp ELSE byId
Max_(k) == IF k \in Ips THEN MaxIp ELSE MaxId
Counted(k) == WithinWindow(Table(k).at[k], now)

(***************************************************************************)
(* Sweeps, pruning and the keys of others leave a key's budget exact: what *)
(* counts against it are the attempts it was charged for in the last       *)
(* window, an identifier's since its last success, and never more than it  *)
(* is allowed.  Only a full table forgets any.                             *)
(***************************************************************************)
BudgetIsExact ==
    \A k \in Keys \ forgotten :
        /\ Counted(k) = spent[k]
        /\ Len(spent[k]) <= Max_(k)

(***************************************************************************)
(* Retry-After is honest: when the wait it names is over and the key was   *)
(* not used meanwhile, there is budget; and a whole second earlier there   *)
(* was none, unless a full table forgot the key.                           *)
(***************************************************************************)
RetryAfterIsHonest ==
    \A k \in Keys : told[k] # 0 =>
        /\ now >= told[k] => Len(Counted(k)) < Max_(k)
        /\ now + Second <= told[k] /\ k \notin forgotten => Len(Counted(k)) >= Max_(k)
=============================================================================
