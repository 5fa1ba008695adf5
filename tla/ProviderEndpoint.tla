-------------------------- MODULE ProviderEndpoint --------------------------
(***************************************************************************)
(* assertResolvedProviderEndpointPolicy: the address an upstream request   *)
(* is pinned to.  The resolution cache belongs to the process: routes with *)
(* different allowPrivateEndpoints share it, before and after a reload.    *)
(*                                                                         *)
(* A cache maps a hostname to "none", to the class of the address it was   *)
(* pinned to, or to "rejected".  Entries expire, and leave when the cache  *)
(* is full, at any time.                                                   *)
(***************************************************************************)
EXTENDS Naturals, Sequences, SequencesExt, FiniteSets, FiniteSetsExt

CONSTANT Hostnames  \* provider hosts that are neither IP literals nor localhost

Addresses == {"public", "private"}

CacheEntries == Addresses \cup {"none", "rejected"}

\* Bound: a lookup returns at most this many addresses.
MaxAddresses == 2

LookupResults == UNION {[1..n -> Addresses] : n \in 0..MaxAddresses}

\* Mutant: a cached address is used as it is.
CachedUnchecked(cache, host, allowPrivate) ==
    CASE cache[host] = "none"     -> "lookup"
      [] cache[host] = "rejected" -> IF allowPrivate THEN "lookup" ELSE "blocked"
      [] OTHER                    -> cache[host]

\* What the cache says of the host: a pinned address, "blocked", or "lookup".
cachedResolution(cache, host, allowPrivate) ==
    CASE cache[host] = "none"     -> "lookup"
      [] cache[host] = "rejected" -> IF allowPrivate THEN "lookup" ELSE "blocked"
      [] cache[host] = "private"  -> IF allowPrivate THEN "private" ELSE "blocked"
      [] cache[host] = "public"   -> "public"

\* A rejection does not bind a route that allows private endpoints: the entry
\* is deleted before the lookup.
cacheBeforeLookup(cache, host, allowPrivate) ==
    IF cache[host] = "rejected" /\ allowPrivate
    THEN [cache EXCEPT ![host] = "none"] ELSE cache

\* What a lookup pins: one private address among those returned is enough to
\* reject the host for a route that does not allow it.
pinnedEntry(addresses, allowPrivate) ==
    IF ~allowPrivate /\ \E i \in DOMAIN addresses : addresses[i] = "private"
    THEN "rejected"
    ELSE IF addresses = <<>> THEN "unresolved" ELSE addresses[1]

cacheAfterLookup(cache, host, pinned) ==
    IF pinned = "unresolved" THEN cache ELSE [cache EXCEPT ![host] = pinned]
=============================================================================
