----------------------------- MODULE RateLimiter -----------------------------
(***************************************************************************)
(* The token bucket that limits what a client edits:                       *)
(* rust/components/src/client/rate_limiter.rs.  Times are whole numbers of *)
(* a unit of which an interval has several.                                *)
(***************************************************************************)
EXTENDS Integers

RateLimiters == [maxTokens : Nat \ {0}, refill : Nat \ {0}, interval : Nat \ {0},
                 tokens : Nat, lastRefresh : Nat]

Elapsed(l, time) == time - l.lastRefresh

\* More intervals have passed than fill an empty bucket.
FillsUp(l, time) == l.maxTokens * l.interval < l.refill * Elapsed(l, time)

\* Fault: the time of the last refresh stays.
RefreshAgain(l, time) ==
  IF FillsUp(l, time) THEN [l EXCEPT !.tokens = l.maxTokens]
  ELSE IF Elapsed(l, time) > l.interval
         THEN [l EXCEPT !.tokens = @ + l.refill * (Elapsed(l, time) \div l.interval)]
         ELSE l

\* A full bucket leaves the time of the last refresh as it is; otherwise the
\* tokens of the whole intervals are added, whatever there is already.
RefreshTokens(l, time) ==
  IF FillsUp(l, time) THEN [l EXCEPT !.tokens = l.maxTokens]
  ELSE IF Elapsed(l, time) > l.interval
         THEN [l EXCEPT !.lastRefresh = time,
                        !.tokens = @ + l.refill * (Elapsed(l, time) \div l.interval)]
         ELSE l

Grants(l, time, n) == RefreshTokens(l, time).tokens >= n

\* The bucket after a request for n tokens, granted or not.
SendMany(l, time, n) ==
  LET r == RefreshTokens(l, time)
  IN  IF Grants(l, time, n) THEN [r EXCEPT !.tokens = @ - n] ELSE r

-----------------------------------------------------------------------------
\* What has been granted since time 0 and what is left never exceed what was there
\* at first and what has been added at the rate.
RateKept(l, granted, initial) ==
  l.interval * (granted + l.tokens) <= l.interval * initial + l.refill * l.lastRefresh
=============================================================================
