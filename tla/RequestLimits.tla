---------------------------- MODULE RequestLimits ----------------------------
(***************************************************************************)
(* How many requests a minute a route takes from one address, or about one  *)
(* account (cmd/fuudelivery: rate_limit_redis.go, ratelimit.go).  All       *)
(* processes count in Redis: the first request of a window sets its end.    *)
(* While Redis does not answer, each process has a bucket of tokens of its  *)
(* own, refilled as time goes by.                                           *)
(***************************************************************************)
EXTENDS Integers, FiniteSets

CONSTANTS
  Instances,       \* processes
  LimitCalls,      \* requests under way at once
  Callers,         \* addresses, or accounts
  Limits,          \* maxPerMinute of the routes
  Minute,          \* ticks of the clock in a minute; divides every limit
  IdleTicks,       \* a bucket of an address unused for so long is deleted (10 minutes)
  Full,            \* "no bucket": a new one is full
  MaxAsked, MaxLostCalls \* bounds: requests, and Redis calls that fail

\* A bucket an address or an account has had since it was used.
Bucket == [tokens : Nat, limit : Limits, idle : 0..IdleTicks]

ASSUME LimitAssumption ==
  /\ Minute \in Nat \ {0} /\ IdleTicks \in Nat /\ IdleTicks > Minute
  /\ \A n \in Limits : n \in Nat \ {0} /\ n % Minute = 0
  /\ Full \notin Bucket
  /\ MaxAsked \in Nat /\ MaxLostCalls \in Nat

\* A limiter: by address, the limit in its key; by account, the account alone.
ByIPAlone(who, limit)    == <<"ip", who, 0>>      \* mutant of ByIP: as it once was
ByIP(who, limit)         == <<"ip", who, limit>>
ByIdentifier(who, limit) == <<"id", who, 0>>
KeyFor(kind, who, limit) == IF kind = "ip" THEN ByIP(who, limit) ELSE ByIdentifier(who, limit)

LimitKinds == {"ip", "id"}
Routes    == LimitKinds \X Callers \X Limits
LimitKeys == {KeyFor(r[1], r[2], r[3]) : r \in Routes}
NoTTL     == 0 - 1     \* a key without an expiry
NoCall    == [pc |-> "idle"]
Asking    == [pc : {"incr", "expire", "bucket"}, kind : LimitKinds, who : Callers, limit : Limits,
              inst : Instances]

VARIABLES
  counter,    \* key |-> [n, ttl]; n = 0: no such key
  bucket,     \* instance, key |-> [tokens, limit, idle], or Full
  call,       \* a request: its step, route and process
  asked,      \* requests of a route that reached its window
  let,        \* how many of them went through
  refused,    \* the routes that refused a request in their window, by Redis
  asks, lostCalls

limitVars == <<counter, bucket, call, asked, let, refused, asks, lostCalls>>

LimitTypeOK ==
  /\ counter \in [LimitKeys -> [n : Nat, ttl : {NoTTL} \cup 1..Minute]]
  /\ bucket \in [Instances -> [LimitKeys -> Bucket \cup {Full}]]
  /\ \A i \in Instances, k \in LimitKeys : bucket[i][k] # Full => bucket[i][k].tokens <= bucket[i][k].limit
  /\ call \in [LimitCalls -> Asking \cup {NoCall}]
  /\ asked \in [Routes -> Nat] /\ let \in [Routes -> Nat] /\ refused \subseteq Routes
  /\ asks \in 0..MaxAsked /\ lostCalls \in 0..MaxLostCalls

LimitsInit ==
  /\ counter = [k \in LimitKeys |-> [n |-> 0, ttl |-> NoTTL]]
  /\ bucket = [i \in Instances |-> [k \in LimitKeys |-> Full]]
  /\ call = [c \in LimitCalls |-> NoCall]
  /\ asked = [r \in Routes |-> 0] /\ let = [r \in Routes |-> 0] /\ refused = {}
  /\ asks = 0 /\ lostCalls = 0

RouteOf(c) == <<call[c].kind, call[c].who, call[c].limit>>
KeyOfCall(c) == KeyFor(call[c].kind, call[c].who, call[c].limit)

LimitStep(c, pc) == call' = [call EXCEPT ![c].pc = pc]
CallEnds(c)      == call' = [call EXCEPT ![c] = NoCall]
Lost             == lostCalls < MaxLostCalls /\ lostCalls' = lostCalls + 1

AskLimit(c, i, r) ==
  /\ call[c] = NoCall /\ asks < MaxAsked /\ asks' = asks + 1
  /\ call' = [call EXCEPT ![c] = [pc |-> "incr", kind |-> r[1], who |-> r[2], limit |-> r[3], inst |-> i]]
  /\ UNCHANGED <<counter, bucket, asked, let, refused, lostCalls>>

AllowedOneMore(n, limit) == n <= limit + 1   \* mutant of Allowed
Allowed(n, limit)        == n <= limit

\* The answer of a window: counted in it, and let through or refused.
WindowAnswers(c, n) ==
  LET r == RouteOf(c)
  IN IF Allowed(n, call[c].limit) THEN let' = [let EXCEPT ![r] = @ + 1] /\ UNCHANGED refused
     ELSE refused' = refused \cup {r} /\ UNCHANGED let

\* INCR is atomic; the first of a window goes on to EXPIRE.  A call that fails,
\* having counted or not, sends the request to the bucket.
Incr(c) ==
  LET k == KeyOfCall(c)
      Counts == /\ counter' = [counter EXCEPT ![k].n = @ + 1]
                /\ asked' = [asked EXCEPT ![RouteOf(c)] = @ + 1]
      n == counter[k].n + 1
  IN /\ call[c].pc = "incr"
     /\ \/ /\ Counts /\ UNCHANGED lostCalls
           /\ IF n = 1 THEN LimitStep(c, "expire") /\ UNCHANGED <<let, refused>>
              ELSE CallEnds(c) /\ WindowAnswers(c, n)
        \/ Lost /\ (Counts \/ UNCHANGED <<counter, asked>>) /\ LimitStep(c, "bucket") /\ UNCHANGED <<let, refused>>
     /\ UNCHANGED <<bucket, asks>>

\* Its error is not looked at: the key may stay without an expiry.
Expire(c) ==
  LET Sets == counter' = [counter EXCEPT ![KeyOfCall(c)].ttl = IF counter[KeyOfCall(c)].n = 0 THEN NoTTL ELSE Minute]
  IN /\ call[c].pc = "expire" /\ CallEnds(c)
     /\ \/ Sets /\ UNCHANGED lostCalls
        \/ Lost /\ UNCHANGED counter
     /\ WindowAnswers(c, 1)
     /\ UNCHANGED <<bucket, asked, asks>>

\* getIPLimiter, getIdentifierLimiter: made full, with the limit of the first who
\* asks for it; one token per request.
TakeToken(c) ==
  LET i == call[c].inst
      k == KeyOfCall(c)
      b == IF bucket[i][k] = Full THEN [tokens |-> call[c].limit, limit |-> call[c].limit, idle |-> 0] ELSE bucket[i][k]
  IN /\ call[c].pc = "bucket" /\ CallEnds(c)
     /\ bucket' = [bucket EXCEPT ![i][k] = [b EXCEPT !.tokens = IF @ = 0 THEN 0 ELSE @ - 1, !.idle = 0]]
     /\ UNCHANGED <<counter, asked, let, refused, asks, lostCalls>>

-----------------------------------------------------------------------------
(* Time. *)

WindowsEnding == {k \in LimitKeys : counter[k].ttl = 1}
EndsWith(r)   == KeyFor(r[1], r[2], r[3]) \in WindowsEnding

Refilled(b) ==
  IF b = Full THEN Full
  ELSE LET more == b.tokens + b.limit \div Minute
       IN [b EXCEPT !.tokens = IF more > b.limit THEN b.limit ELSE more,
                    !.idle = IF @ < IdleTicks THEN @ + 1 ELSE @]

PassTime ==
  /\ counter' = [k \in LimitKeys |->
       IF k \in WindowsEnding THEN [n |-> 0, ttl |-> NoTTL]
       ELSE [counter[k] EXCEPT !.ttl = IF @ = NoTTL THEN @ ELSE @ - 1]]
  /\ asked'   = [r \in Routes |-> IF EndsWith(r) THEN 0 ELSE asked[r]]
  /\ let'     = [r \in Routes |-> IF EndsWith(r) THEN 0 ELSE let[r]]
  /\ refused' = {r \in refused : ~EndsWith(r)}
  /\ bucket'  = [i \in Instances |-> [k \in LimitKeys |-> Refilled(bucket[i][k])]]
  /\ UNCHANGED <<call, asks, lostCalls>>

IdleAnyTime(b) == b # Full   \* mutant of Idle
Idle(b)        == b # Full /\ b.idle >= IdleTicks

\* startRateLimitCleanup: buckets of addresses only.
CleanupLimiters(i) ==
  /\ \E k \in LimitKeys : k[1] = "ip" /\ Idle(bucket[i][k])
  /\ bucket' = [bucket EXCEPT ![i] = [k \in LimitKeys |-> IF k[1] = "ip" /\ Idle(@[k]) THEN Full ELSE @[k]]]
  /\ UNCHANGED <<counter, call, asked, let, refused, asks, lostCalls>>

LimitsNext ==
  \/ \E c \in LimitCalls :
       \/ Incr(c) \/ Expire(c) \/ TakeToken(c)
       \/ \E i \in Instances, r \in Routes : AskLimit(c, i, r)
  \/ PassTime
  \/ \E i \in Instances : CleanupLimiters(i)

LimitsSpec == LimitsInit /\ [][LimitsNext]_limitVars

-----------------------------------------------------------------------------
\* In one window no more requests of a route go through Redis than its limit, from
\* all processes together ("o contador e global - o limite de N/min passa a valer
\* de verdade", rate_limit_redis.go:22-23).
WindowHolds == \A r \in Routes : let[r] <= r[3]

\* A route that limits addresses refuses only one that used up its limit: what an
\* address asks of one route does not count against another with another limit
\* ("so o ip fazia o primeiro limite que o IP encontrasse valer para todas as
\* rotas", rate_limit_redis.go:173-175).
RefusedOnlyWhenUsedUp == \A r \in refused : r[1] = "ip" => asked[r] > r[3]

\* Deleting an idle bucket gives its address nothing: it was full.
CleanupGivesNothing ==
  [][\A i \in Instances, k \in LimitKeys :
       bucket[i][k] # Full /\ bucket'[i][k] = Full => bucket[i][k].tokens = bucket[i][k].limit]_limitVars

\* A limit lets through what it says, refuses no sooner, and forgets nobody early.
LimitsKept == [](LimitTypeOK /\ WindowHolds /\ RefusedOnlyWhenUsedUp) /\ CleanupGivesNothing

-----------------------------------------------------------------------------
(* Refuted: see the README.                                                  *)

\* The same for routes that limit accounts.
AccountsRefusedOnlyWhenUsedUp == \A r \in refused : asked[r] > r[3]

\* A counter nobody is about to give an end has one ("uma janela fixa atomica no
\* Redis (INCR + EXPIRE)", rate_limit_redis.go:22).
WindowsEnd ==
  (\A c \in LimitCalls : call[c].pc # "expire") => \A k \in LimitKeys : counter[k].n > 0 => counter[k].ttl # NoTTL
=============================================================================
