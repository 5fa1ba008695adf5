---------------------------- MODULE RateLimiter -----------------------------
(***************************************************************************)
(* createGlobalRateLimiter: a fixed window of requests per caller, in a    *)
(* Map that is kept in the order of the last check.  check runs to         *)
(* completion on the event loop, so it is an operator on the Map.          *)
(*                                                                         *)
(* The Map is the sequence of its entries in insertion order.  Instants    *)
(* are kept as ages: an entry's age is the time since its window started   *)
(* (windowStartedAtMs) and idle the time since it was last touched, both   *)
(* capped where the code no longer tells them apart.  c is the limiter's   *)
(* configuration; c.ttl = 0 stands for an entryTtlMs that is not given.    *)
(***************************************************************************)
EXTENDS Naturals, Sequences, FiniteSets, SequencesExt

RateLimitConfig(requests, window, maxEntries, ttl) ==
    [requests |-> requests, window |-> window, maxEntries |-> maxEntries, ttl |-> ttl]

\* The constructor throws on anything else.
ValidRateLimitConfig(c) ==
    /\ c.requests \in Nat \ {0}
    /\ c.window \in Nat \ {0}
    /\ c.maxEntries \in Nat \ {0}
    /\ c.ttl \in Nat

RateLimitEntries(c, keys) ==
    [key : keys, age : 0..c.window, count : 0..c.requests, idle : 0..(c.ttl + 1)]

\* Date.now() moved on by one.
AgeRateLimit(c, entries) ==
    [i \in 1..Len(entries) |->
        [entries[i] EXCEPT !.age  = IF @ < c.window THEN @ + 1 ELSE @,
                           !.idle = IF c.ttl > 0 /\ @ <= c.ttl THEN @ + 1 ELSE @]]

\* The Map is in touch order, so the entries touched too long ago come first.
evictRateLimitEntriesOlderThan(c, entries) ==
    IF c.ttl = 0 THEN entries
    ELSE LET old == {i \in DOMAIN entries : entries[i].idle > c.ttl}
         IN  SubSeq(entries, Cardinality(old) + 1, Len(entries))

\* Where the caller's entry is in the Map: at one place at most.
Places(entries, key) == {i \in DOMAIN entries : entries[i].key = key}

\* entries.delete(key)
Delete(entries, key) ==
    IF Places(entries, key) = {} THEN entries
    ELSE RemoveAt(entries, CHOOSE i \in Places(entries, key) : TRUE)

advanceWindow(e, window, fresh) ==
    IF e.age >= window THEN fresh ELSE e

\* The caller's entry, with its window advanced; a caller without an entry
\* has windowStartedAtMs 0, which always starts a window.
AdvancedEntry(c, entries, key) ==
    LET fresh == [key |-> key, age |-> 0, count |-> 0, idle |-> 0]
        mine  == {entries[i] : i \in Places(entries, key)}
    IN  IF mine = {} THEN fresh
        ELSE [advanceWindow(CHOOSE e \in mine : TRUE, c.window, fresh) EXCEPT !.idle = 0]

\* While there are too many entries the one touched longest ago goes: the
\* Map is in touch order, so it is the first.
EvictToMaxEntries(c, entries) ==
    SubSeq(entries, Len(entries) - c.maxEntries + 1, Len(entries))

\* Mutant: the refusal comes one request too late.
CheckOneTooMany(c, entries, key) ==
    LET kept    == evictRateLimitEntriesOlderThan(c, entries)
        next    == AdvancedEntry(c, kept, key)
        allowed == next.count <= c.requests
        moved   == Append(Delete(kept, key), [next EXCEPT !.count = IF allowed THEN @ + 1 ELSE @])
    IN  [allowed |-> allowed,
         entries |-> IF Len(moved) > c.maxEntries THEN EvictToMaxEntries(c, moved) ELSE moved]

check(c, entries, key) ==
    LET kept    == evictRateLimitEntriesOlderThan(c, entries)
        next    == AdvancedEntry(c, kept, key)
        allowed == next.count < c.requests
        moved   == Append(Delete(kept, key), [next EXCEPT !.count = IF allowed THEN @ + 1 ELSE @])
    IN  [allowed |-> allowed,
         entries |-> IF Len(moved) > c.maxEntries THEN EvictToMaxEntries(c, moved) ELSE moved]

LimitedKeys(entries) == {entries[i].key : i \in 1..Len(entries)}
=============================================================================
