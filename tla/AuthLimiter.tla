---------------------------- MODULE AuthLimiter -----------------------------
(***************************************************************************)
(* createFailedAuthAttemptLimiter: failures per source in a window, and a  *)
(* lockout that doubles with every failure from the threshold on.          *)
(*                                                                         *)
(* Its Map is a set of entries, one per source: nothing depends on its     *)
(* order, because compareEvictionCandidates orders the entries itself.     *)
(* age is the time since the window started, idle the time since the last  *)
(* failure (lastFailureAtMs and lastTouchedAtMs are always equal) and      *)
(* blocked the time left until blockedUntilMs.  Two entries touched in the *)
(* same instant are ordered by firstSeenAtMs and by name; which of them is *)
(* first is left open.                                                     *)
(***************************************************************************)
EXTENDS Naturals, FiniteSets

CONSTANTS
    AuthWindow,     \* windowMs
    Threshold,      \* threshold
    InitialBackoff, \* initialBackoffMs
    MaxBackoff,     \* maxBackoffMs
    AuthMaxEntries  \* maxEntries

ASSUME AuthLimiterAssumption ==
    /\ AuthWindow \in Nat \ {0}
    /\ Threshold \in Nat \ {0}
    /\ InitialBackoff \in Nat \ {0}
    /\ MaxBackoff \in Nat \ {0}
    /\ AuthMaxEntries \in Nat \ {0}

\* From here on another failure changes neither the decision nor the backoff.
MaxCount == Threshold + MaxBackoff

AuthEntries(sources) ==
    [source : sources, age : 0..AuthWindow, count : 1..MaxCount,
     idle : 0..(AuthWindow + 1), blocked : 0..MaxBackoff]

AgeAuth(entries) ==
    {[source  |-> e.source,
      age     |-> IF e.age < AuthWindow THEN e.age + 1 ELSE e.age,
      count   |-> e.count,
      idle    |-> IF e.idle <= AuthWindow THEN e.idle + 1 ELSE e.idle,
      blocked |-> IF e.blocked > 0 THEN e.blocked - 1 ELSE 0] : e \in entries}

isEntryBlocked(e) == e.blocked > 0

isEntryWindowDrained(e) == e.idle > AuthWindow

evictionPriority(e) ==
    CASE isEntryBlocked(e)                               -> 2
      [] ~isEntryBlocked(e) /\ isEntryWindowDrained(e)   -> 0
      [] ~isEntryBlocked(e) /\ ~isEntryWindowDrained(e)  -> 1

\* Mutant: the order forgets the lockouts.
LeastRecentFirst(a, b) == a.idle >= b.idle

\* a may be evicted before b.
compareEvictionCandidates(a, b) ==
    \/ evictionPriority(a) < evictionPriority(b)
    \/ /\ evictionPriority(a) = evictionPriority(b)
       /\ \/ isEntryBlocked(a) /\ a.blocked < b.blocked
          \/ /\ isEntryBlocked(a) => a.blocked = b.blocked
             /\ a.idle >= b.idle

selectEvictionCandidate(entries) ==
    {e \in entries : \A f \in entries : compareEvictionCandidates(e, f)}

\* The Maps pruneExpiredEntries may leave.  One entry at most is evicted:
\* the Map is within its limit before every failure.
pruneExpiredEntries(entries) ==
    LET kept == {e \in entries : isEntryBlocked(e) \/ ~isEntryWindowDrained(e)}
    IN  IF Cardinality(kept) <= AuthMaxEntries THEN {kept}
        ELSE {kept \ {e} : e \in selectEvictionCandidate(kept)}

Backoff(count) ==
    LET doubled == InitialBackoff * 2^(count - Threshold)
    IN  IF doubled < MaxBackoff THEN doubled ELSE MaxBackoff

createEntry(source) ==
    [source |-> source, age |-> 0, count |-> 0, idle |-> 0, blocked |-> 0]

\* Mutant: the window is over at every failure.
CountedForgetful(entries, source) ==
    [createEntry(source) EXCEPT !.count = 1]

\* The source's entry after one more failure; a window that is over starts
\* again with neither the failures nor the lockout of the last one.
Counted(entries, source) ==
    LET mine == {e \in entries : e.source = source /\ e.age < AuthWindow}
        base == IF mine = {} THEN createEntry(source) ELSE CHOOSE e \in mine : TRUE
        n    == IF base.count < MaxCount THEN base.count + 1 ELSE MaxCount
    IN  [source  |-> source,
         age     |-> base.age,
         count   |-> n,
         idle    |-> 0,
         blocked |-> IF n >= Threshold /\ Backoff(n) > base.blocked THEN Backoff(n)
                     ELSE base.blocked]

\* What registerFailure may answer and leave behind.
registerFailure(entries, source) ==
    UNION {LET e      == Counted(before, source)
               others == {f \in before : f.source # source}
           IN  {[blocked |-> e.count >= Threshold, entries |-> after] :
                    after \in pruneExpiredEntries(others \cup {e})}
           : before \in pruneExpiredEntries(entries)}

reset(entries, source) == {e \in entries : e.source # source}

Lockout(entries, source) ==
    \E e \in entries : e.source = source /\ isEntryBlocked(e)
=============================================================================
