----------------------------- MODULE RateLimit -----------------------------
(* check_auth_rate_limit over KVStore.incr: one counter per scope and        *)
(* caller, with an expiry that only the first increment sets.  A key is      *)
(* [count, expires]; Never stands for a key without expiry, NoKey for none.  *)
EXTENDS Integers, FiniteSets, Sequences

CONSTANTS
  Limit,     \* settings.auth_rate_limit_per_minute; no limit if it is not positive
  Window,    \* the 60 seconds, in ticks
  Never

ASSUME LimitAssumption == Limit \in Int /\ Window \in Nat \ {0} /\ Never \notin Int

NoKey == [count |-> 0, expires |-> Never]

\* _purge_expired, and the expiry of Redis
Purged(key, now) == IF key.expires # Never /\ key.expires <= now THEN NoKey ELSE key

\* Mutant: every increment sets the expiry anew.
IncrExtends(key, now) ==
  [count |-> Purged(key, now).count + 1, expires |-> now + Window]
Incr(key, now) ==
  LET k == Purged(key, now)
  IN  [count |-> k.count + 1, expires |-> IF k.count = 0 THEN now + Window ELSE k.expires]

\* Redis fails after INCR and before EXPIRE: the caller sees an error, the key stays
IncrTorn(key, now) == [Purged(key, now) EXCEPT !.count = @ + 1]

\* Mutant: the count is compared before it is incremented.
ExceededLate(key) == Limit > 0 /\ key.count - 1 > Limit
Exceeded(key) == Limit > 0 /\ key.count > Limit

-----------------------------------------------------------------------------
(* What the counter promises of a log of calls, each [at, admitted].         *)

Within(calls, from, to) == {i \in DOMAIN calls : from <= calls[i].at /\ calls[i].at < to}
Admitted(calls) == {i \in DOMAIN calls : calls[i].admitted}

\* Any minute, wherever it begins, admits less than twice the limit (a sliding window, which
\* the docstring of check_auth_rate_limit names, would admit the limit itself).
LessThanTwice(calls) ==
  Limit > 0 => \A i \in DOMAIN calls :
    Cardinality(Admitted(calls) \cap Within(calls, calls[i].at, calls[i].at + Window)) < 2 * Limit

\* A caller is refused only after Limit calls within the last minute: the counter of an
\* earlier minute is gone, and waiting out Retry-After helps.
RefusedForCause(calls) ==
  \A i \in DOMAIN calls \ Admitted(calls) :
    Cardinality(Admitted(calls) \cap Within(calls, calls[i].at - Window + 1, calls[i].at + 1)
                  \cap 1 .. i) >= Limit
=============================================================================
