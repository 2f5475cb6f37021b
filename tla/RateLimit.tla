------------------------------ MODULE RateLimit ------------------------------
(***************************************************************************)
(* The gateway's rate limiter (gateway/src/rate_limit.rs): three tables of *)
(* limiters per address, made when first used, and the middleware that     *)
(* asks them.  A limiter is the library's: it holds up to burst requests,  *)
(* all of them at first, and regains one every Minute / burst.             *)
(***************************************************************************)
EXTENDS Integers, Sequences, FiniteSets, SequencesExt

CONSTANTS Minute,        \* in units of time
          MAX_ENTRIES

new(config) == [config |-> config, global |-> <<>>, exchange |-> <<>>, info |-> <<>>]

-----------------------------------------------------------------------------
(* governor::RateLimiter *)

\* earned: the time of refilling that is not used up yet.
Fresh(burst, now) == [burst |-> burst, earned |-> Minute, at |-> now]

Refilled(l, now) == LET e == l.earned + (now - l.at)
                    IN  [l EXCEPT !.earned = IF e > Minute THEN Minute ELSE e, !.at = now]

Admits(l, now) == Refilled(l, now).earned * l.burst >= Minute
Charged(l, now) == LET r == Refilled(l, now) IN [r EXCEPT !.earned = @ - Minute \div l.burst]

-----------------------------------------------------------------------------
(* RateLimiterState *)

Burst(per_minute, config) ==
    IF per_minute * config.burst_multiplier = 0 THEN 1 ELSE per_minute * config.burst_multiplier

get_or_create_limiter(map, ip, per_minute, config, now) ==
    IF ip \in DOMAIN map THEN map
    ELSE [k \in DOMAIN map \cup {ip} |-> IF k = ip THEN Fresh(Burst(per_minute, config), now) ELSE map[k]]

\* check_global, check_exchange and check_info: the table is the one named.
Quota(config, table) ==
    CASE table = "global" -> config.requests_per_minute
      [] table = "exchange" -> config.exchange_requests_per_minute
      [] table = "info" -> config.info_requests_per_minute

check(st, table, ip, now) ==
    LET map == get_or_create_limiter(st[table], ip, Quota(st.config, table), st.config, now)
        ok == Admits(map[ip], now)
    IN  IF ~st.config.enabled THEN [ok |-> TRUE, state |-> st]
        ELSE [ok |-> ok,
              state |-> [st EXCEPT ![table] = IF ok THEN [map EXCEPT ![ip] = Charged(@, now)] ELSE map]]

\* Half of the largest number of entries goes, whichever the iteration gives.
Evicted(map, chosen) ==
    IF Cardinality(DOMAIN map) <= MAX_ENTRIES THEN map
    ELSE [k \in DOMAIN map \ chosen |-> map[k]]

cleanup(st, chosen) == [st EXCEPT !.global = Evicted(@, chosen.global),
                                  !.exchange = Evicted(@, chosen.exchange),
                                  !.info = Evicted(@, chosen.info)]

Victims(map) == {S \in SUBSET DOMAIN map : Cardinality(S) = MAX_ENTRIES \div 2}

-----------------------------------------------------------------------------
(* RateLimitService::call *)

\* A header is absent, unreadable or an address.
extract_client_ip(req) ==
    CASE req.forwarded \notin {"absent", "unreadable"} -> req.forwarded
      [] req.real \notin {"absent", "unreadable"} -> req.real
      [] req.connection # "absent" -> req.connection
      [] OTHER -> "127.0.0.1"

Endpoint(path) == CASE path = "/exchange" -> {"exchange"} [] path = "/info" -> {"info"} [] OTHER -> {}

\* The global quota is spent before the endpoint's is asked.
call(st, req, now) ==
    LET ip == extract_client_ip(req)
        first == check(st, "global", ip, now)
    IN  IF ~first.ok \/ Endpoint(req.path) = {} THEN first
        ELSE check(first.state, CHOOSE t \in Endpoint(req.path) : TRUE, ip, now)
=============================================================================
