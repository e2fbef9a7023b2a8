---------------------------- MODULE RateLimiter ----------------------------
(***************************************************************************)
(* The sliding window of app/rate_limit.py behind rate_limit_middleware of *)
(* app/main.py. The middleware is a coroutine, so the event loop runs one  *)
(* check at a time and reads the clock in the order of the checks.         *)
(*                                                                         *)
(* The clock counts ticks, a fraction of the second the limiter is         *)
(* configured and answers in. A request to /health, and every request when *)
(* the limiter is off, passes by and changes nothing.                      *)
(***************************************************************************)
EXTENDS Integers, Sequences

CONSTANTS
    ApiKeys,        \* values of the header X-API-Key
    Hosts,          \* addresses of clients
    MaxRequests,    \* FLOP_RATE_LIMIT
    WindowSeconds,  \* FLOP_RATE_WINDOW
    Ticks,          \* ticks of the clock in a second
    MaxTime,        \* bound on the clock
    NoKey,          \* the header is missing or empty
    NoRefusal

(* With a limit of 0 every check would look for the first of no time stamps *)
(* and raise IndexError.                                                     *)
ASSUME LimitAssumption == MaxRequests \in Nat \ {0}
ASSUME WindowAssumption == WindowSeconds \in Nat \ {0} /\ Ticks \in Nat \ {0}
ASSUME TimeAssumption == MaxTime \in Nat
ASSUME RefusalAssumption == NoRefusal \notin [at : Nat, wait : Nat \ {0}]

VARIABLES
    now,        \* time.monotonic()
    requests,   \* per key, the time stamps that are kept
    admitted,   \* history: per key, when its requests were let in
    refused     \* history: per key, the refusal since, or NoRefusal

limiterVars == <<now, requests, admitted, refused>>

RateLimitKey(r) == IF r.key # NoKey THEN <<"api", r.key>> ELSE <<"ip", r.host>>

Requests == [key : ApiKeys \cup {NoKey}, host : Hosts]
LimitKeys == {RateLimitKey(r) : r \in Requests}

Window == WindowSeconds * Ticks

(* Mutation: the clock is cut to whole seconds before it is compared. *)
ExpiredInSeconds(stamp) == stamp \div Ticks + WindowSeconds <= now \div Ticks

Expired(stamp) == stamp + Window <= now

(* Mutation: less than a second is told as 0. *)
RetryAfterUnbounded(kept) == (kept[1] + Window - now) \div Ticks

(* Mutation: the wait is until the newest time stamp expires. *)
RetryAfterNewest(kept) ==
    LET seconds == (kept[Len(kept)] + Window - now) \div Ticks
    IN  IF seconds > 1 THEN seconds ELSE 1

(* Whole seconds until the oldest kept time stamp expires, rounded down,   *)
(* and one second at least.                                                *)
RetryAfter(kept) ==
    LET seconds == (kept[1] + Window - now) \div Ticks
    IN  IF seconds > 1 THEN seconds ELSE 1

NoStamps == [k \in LimitKeys |-> <<>>]

LimiterInit ==
    /\ now = 0
    /\ requests = NoStamps
    /\ admitted = NoStamps
    /\ refused = [k \in LimitKeys |-> NoRefusal]

Tick ==
    /\ now < MaxTime
    /\ now' = now + 1
    /\ UNCHANGED <<requests, admitted, refused>>

(* Mutation: a refused request takes the place of the oldest. *)
RefuseCounted(k, kept) ==
    /\ Len(kept) >= MaxRequests
    /\ requests' = [requests EXCEPT ![k] = Append(Tail(kept), now)]
    /\ refused' = [refused EXCEPT ![k] = [at |-> now, wait |-> RetryAfter(kept)]]
    /\ UNCHANGED admitted

Refuse(k, kept) ==
    /\ Len(kept) >= MaxRequests
    /\ requests' = [requests EXCEPT ![k] = kept]
    /\ refused' = [refused EXCEPT ![k] = [at |-> now, wait |-> RetryAfter(kept)]]
    /\ UNCHANGED admitted

Admit(k, kept) ==
    /\ Len(kept) < MaxRequests
    /\ requests' = [requests EXCEPT ![k] = Append(kept, now)]
    /\ admitted' = [admitted EXCEPT ![k] = Append(@, now)]
    /\ refused' = [refused EXCEPT ![k] = NoRefusal]

(* The loop drops expired time stamps from the front, up to the first that *)
(* is not: n of them.                                                      *)
Check(k) ==
    LET stamps == requests[k]
    IN  \E n \in 0..Len(stamps) :
            /\ \A i \in 1..n : Expired(stamps[i])
            /\ n < Len(stamps) => ~Expired(stamps[n + 1])
            /\ LET kept == SubSeq(stamps, n + 1, Len(stamps))
               IN  Refuse(k, kept) \/ Admit(k, kept)
            /\ UNCHANGED now

Middleware == \E r \in Requests : Check(RateLimitKey(r))

(* reset, and a new process.                                               *)
Reset ==
    /\ requests' = NoStamps
    /\ admitted' = NoStamps
    /\ refused' = [k \in LimitKeys |-> NoRefusal]
    /\ UNCHANGED now

LimiterNext == Tick \/ Middleware \/ Reset

LimiterSpec == LimiterInit /\ [][LimiterNext]_limiterVars

-----------------------------------------------------------------------------
(* What the limiter keeps of a key is bounded by the limit, whoever sends  *)
(* how much, and a refusal asks for a second or more.                      *)
LimiterTypeOK ==
    /\ now \in Nat
    /\ requests \in [LimitKeys -> Seq(Nat)]
    /\ \A k \in LimitKeys : Len(requests[k]) <= MaxRequests
    /\ admitted \in [LimitKeys -> Seq(Nat)]
    /\ refused \in [LimitKeys -> [at : Nat, wait : Nat \ {0}] \cup {NoRefusal}]

(* In no window of time are more than MaxRequests requests of a key let    *)
(* in: from one to the MaxRequests-th after it a whole window passes,      *)
(* whatever was dropped in between (check).                                *)
WindowLimit ==
    \A k \in LimitKeys : \A i \in DOMAIN admitted[k] :
        i + MaxRequests \in DOMAIN admitted[k] =>
            admitted[k][i + MaxRequests] >= admitted[k][i] + Window

(* The request whose expiry makes room for the next of a key.              *)
Oldest(k) == admitted[k][Len(admitted[k]) + 1 - MaxRequests]

(* A key is refused only when MaxRequests of its requests were let in      *)
(* within the window before: a refusal, or another key's requests, use up  *)
(* nothing, and a request as old as the window no longer counts (check).   *)
RefusedWhenFull ==
    \A k \in LimitKeys : refused[k] # NoRefusal =>
        /\ Len(admitted[k]) >= MaxRequests
        /\ Oldest(k) + Window > refused[k].at

(* A refused client that waits as told and a second more finds room, if no *)
(* other request took it; and when it was told to wait more than the least *)
(* second there is none before that time (Retry-After).                    *)
RetryIsNear ==
    \A k \in LimitKeys : refused[k] # NoRefusal =>
        LET told == refused[k].at + refused[k].wait * Ticks
        IN  /\ Oldest(k) + Window <= told + Ticks
            /\ refused[k].wait > 1 => told <= Oldest(k) + Window
=============================================================================
