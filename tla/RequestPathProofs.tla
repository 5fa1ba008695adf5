------------------------- MODULE RequestPathProofs --------------------------
(***************************************************************************)
(* RequestPath for any number of requests, sources, routes and             *)
(* configurations: first the requests with their slots, upstream bodies,   *)
(* responses and endpoints, then the tables that outlive them, the rate    *)
(* limiter, the failed-auth limiter and the inspection store.              *)
(***************************************************************************)
EXTENDS RequestPath, FiniteSetTheorems, SequenceTheorems, WellFoundedInduction, TLAPS

Request ==
    [pc : {"idle", "reading", "resolving", "fetching", "buffering"} \cup StreamPcs \cup {"done"},
     upstream : {"none", "open", "released", "abandoned"},
     pinned : Addresses \cup {"no"},
     response : {"open", "ended", "finished", "closed", "destroyed"},
     sent : BOOLEAN,
     body : {"none", "part", "whole"},
     aborted : {"no", "idle", "limit", "client"},
     done : BOOLEAN,
     failed : BOOLEAN,
     capture : CaptureIds \cup {None},
     msg : DOMAIN Message \cup {None},
     config : DOMAIN Config \cup {None}]

EarlyPcs == {"reading", "resolving", "fetching"}

\* How far a request and its response have come, one clause per fact that a
\* later step relies on.
Sound(d) ==
    /\ d.pc \in EarlyPcs => d.upstream = "none"
    /\ d.pc \in EarlyPcs \cup {"buffering"} => ~d.sent
    /\ d.pc \in EarlyPcs \cup {"buffering", "translating"} => d.aborted = "no"
    /\ d.pc \notin {"idle", "done", "piping", "blocked"} => d.response \in {"open", "closed"}
    /\ d.pc \in {"piping", "blocked"} => d.response \in {"open", "closed", "ended"}
    /\ d.pc = "blocked" /\ d.response = "ended" => d.aborted # "no"
    /\ d.pc # "done" => d.sent \/ d.body = "none"
    /\ d.pc \in {"piping", "blocked"} /\ (d.aborted # "no" \/ d.response = "ended")
           => d.upstream # "open"
    /\ d.pc \in {"closing", "done"} => d.upstream # "open"
    /\ d.pc = "closing" => d.body = "whole"
    /\ d.response \in {"ended", "finished"} /\ d.body # "none"
           => d.body = "whole" \/ d.aborted = "idle"

\* A step of a request that is at work writes such a record.
Goes(d, e) ==
    /\ e \in Request /\ Sound(e)
    /\ e.pc \notin {"idle", "reading"}
    /\ e.msg = d.msg /\ e.config = d.config
    /\ e.pinned = "private" => d.pinned = "private" \/ RouteOf(d).allowPrivate

USE DEF EarlyPcs, StreamPcs

-----------------------------------------------------------------------------
(***************************************************************************)
(* What the helpers of ResponseDelivery do to a record, field by field     *)
(***************************************************************************)
Alike(e, d) ==
    /\ e.pinned = d.pinned /\ e.failed = d.failed /\ e.capture = d.capture
    /\ e.msg = d.msg /\ e.config = d.config

\* response.end() changes nothing but the response.
LEMMA EndFields ==
    ASSUME NEW d \in Request
    PROVE  /\ End(d) \in Request /\ Alike(End(d), d)
           /\ End(d).pc = d.pc /\ End(d).upstream = d.upstream
           /\ End(d).body = d.body /\ End(d).aborted = d.aborted
           /\ End(d).sent
           /\ End(d).response = IF d.response = "open" THEN "ended" ELSE d.response
<1> DEFINE response == IF d.response = "open" THEN "ended" ELSE d.response
<1>1. response \in {"open", "ended", "finished", "closed", "destroyed"}
  BY DEF Request
<1>2. End(d) = [d EXCEPT !.response = response, !.sent = TRUE]
  BY DEF End
<1> HIDE DEF response
<1>3. End(d) \in Request
  BY <1>1, <1>2, ZenonT(60) DEF Request
<1>4. /\ Alike(End(d), d) /\ End(d).sent /\ End(d).response = response
      /\ End(d).pc = d.pc /\ End(d).upstream = d.upstream
      /\ End(d).body = d.body /\ End(d).aborted = d.aborted
  BY <1>2 DEF Request, Alike
<1> QED
  BY <1>3, <1>4 DEF response

\* Cancelling the reader changes nothing but the upstream body.
LEMMA ReleasedFields ==
    ASSUME NEW d \in Request
    PROVE  /\ Released(d) \in Request /\ Alike(Released(d), d)
           /\ Released(d).pc = d.pc /\ Released(d).upstream # "open"
           /\ Released(d).body = d.body /\ Released(d).aborted = d.aborted
           /\ Released(d).sent = d.sent /\ Released(d).response = d.response
           /\ Released(d).done = d.done
BY DEF Released, Request, Alike

\* A response that was sent whole waits for its connection to close.
LEMMA ClosingFields ==
    ASSUME NEW d \in Request, NEW x, x = [d EXCEPT !.done = TRUE, !.pc = "closing"]
    PROVE  /\ x \in Request /\ Alike(x, d) /\ x.pc = "closing" /\ x.upstream = d.upstream
           /\ x.body = d.body /\ x.sent = d.sent /\ x.response = d.response
<1>1. x \in Request
  BY DEF Request, StreamPcs
<1>2. QED
  BY <1>1 DEF Request, Alike

\* A write sends the headers too.
LEMMA GivenFields ==
    ASSUME NEW d \in Request, NEW amount \in {"part", "whole"}
    PROVE  /\ Given(d, amount) \in Request /\ Alike(Given(d, amount), d)
           /\ Given(d, amount).pc = d.pc /\ Given(d, amount).upstream = d.upstream
           /\ Given(d, amount).body = amount /\ Given(d, amount).aborted = d.aborted
           /\ Given(d, amount).sent /\ Given(d, amount).response = d.response
           /\ Given(d, amount).done = d.done
<1>1. Given(d, amount) \in Request
  BY ZenonT(60) DEF Given, Request
<1> QED
  BY <1>1 DEF Given, Request, Alike

\* The first abort releases the upstream body; a second one does nothing.
LEMMA AbortFields ==
    ASSUME NEW d \in Request, NEW reason \in {"idle", "limit", "client"}
    PROVE  /\ abortStream(d, reason) \in Request /\ Alike(abortStream(d, reason), d)
           /\ abortStream(d, reason).pc = d.pc /\ abortStream(d, reason).body = d.body
           /\ abortStream(d, reason).sent = d.sent
           /\ abortStream(d, reason).response = d.response
           /\ abortStream(d, reason).aborted = IF d.aborted = "no" THEN reason ELSE d.aborted
           /\ d.aborted = "no" => abortStream(d, reason).upstream # "open"
           /\ d.aborted # "no" => abortStream(d, reason).upstream = d.upstream
<1> DEFINE x == Released(d)
<1>1. /\ x \in Request /\ Alike(x, d) /\ x.pc = d.pc /\ x.upstream # "open"
      /\ x.body = d.body /\ x.sent = d.sent /\ x.response = d.response
  BY ReleasedFields
<1>2. abortStream(d, reason) = IF d.aborted = "no" THEN [x EXCEPT !.aborted = reason] ELSE d
  BY DEF abortStream
<1> HIDE DEF x
<1>3. CASE d.aborted = "no"
  BY <1>1, <1>2, <1>3 DEF Request, Alike
<1>4. CASE d.aborted # "no"
  BY <1>2, <1>4 DEF Alike
<1> QED
  BY <1>3, <1>4

\* A request that fails answers with an error, or tears the response down
\* when it was begun; either way it is over.
LEMMA ErrorFields ==
    ASSUME NEW d \in Request
    PROVE  /\ sendJsonError(d) \in Request /\ Alike(sendJsonError(d), d)
           /\ sendJsonError(d).pc = "done" /\ sendJsonError(d).upstream = d.upstream
           /\ sendJsonError(d).body = d.body /\ sendJsonError(d).aborted = d.aborted
           /\ sendJsonErrorIfWritable(d) \in Request /\ Alike(sendJsonErrorIfWritable(d), d)
           /\ sendJsonErrorIfWritable(d).pc = "done"
           /\ sendJsonErrorIfWritable(d).upstream = d.upstream
           /\ sendJsonErrorIfWritable(d).body = d.body
           /\ sendJsonErrorIfWritable(d).aborted = d.aborted
           /\ d.sent => sendJsonErrorIfWritable(d).response \in {"closed", "destroyed"}
<1> DEFINE x == End(d)
<1>1. /\ x \in Request /\ Alike(x, d) /\ x.upstream = d.upstream
      /\ x.body = d.body /\ x.aborted = d.aborted
  BY EndFields
<1>2. sendJsonError(d) = [x EXCEPT !.pc = "done"]
  BY DEF sendJsonError
<1> HIDE DEF x
<1>3. /\ sendJsonError(d) \in Request /\ Alike(sendJsonError(d), d)
      /\ sendJsonError(d).pc = "done" /\ sendJsonError(d).upstream = d.upstream
      /\ sendJsonError(d).body = d.body /\ sendJsonError(d).aborted = d.aborted
  BY <1>1, <1>2 DEF Request, Alike
<1>4. CASE d.sent \/ d.response = "ended"
  <2> DEFINE y == [d EXCEPT !.response = IF @ = "closed" THEN @ ELSE "destroyed", !.pc = "done"]
  <2>1. sendJsonErrorIfWritable(d) = y
    BY <1>4 DEF sendJsonErrorIfWritable
  <2>2. /\ y \in Request /\ Alike(y, d) /\ y.pc = "done" /\ y.upstream = d.upstream
        /\ y.body = d.body /\ y.aborted = d.aborted /\ y.response \in {"closed", "destroyed"}
    <3> DEFINE response == IF d.response = "closed" THEN d.response ELSE "destroyed"
    <3>1. response \in {"closed", "destroyed"}
      OBVIOUS
    <3>2. y = [d EXCEPT !.response = response, !.pc = "done"]
      OBVIOUS
    <3> HIDE DEF response, y
    <3>3. y \in Request
      BY <3>1, <3>2, ZenonT(60) DEF Request
    <3> QED
      BY <3>1, <3>2, <3>3 DEF Request, Alike
  <2> HIDE DEF y
  <2> QED
    BY <1>3, <2>1, <2>2
<1>5. CASE ~(d.sent \/ d.response = "ended")
  <2>1. sendJsonErrorIfWritable(d) = sendJsonError(d)
    BY <1>5 DEF sendJsonErrorIfWritable
  <2> QED
    BY <1>3, <1>5, <2>1
<1> QED
  BY <1>4, <1>5

\* A request whose handler throws is over, with its upstream body released.
LEMMA UndeliveredGoes ==
    ASSUME NEW d \in Request, d.sent \/ d.body = "none"
    PROVE  Goes(d, Undelivered(d))
<1> DEFINE x == Released(d)
           y == sendJsonErrorIfWritable(x)
<1>1. /\ x \in Request /\ Alike(x, d) /\ x.upstream # "open"
      /\ x.body = d.body /\ x.sent = d.sent
  BY ReleasedFields
<1> HIDE DEF x
<1>2. /\ y \in Request /\ Alike(y, x) /\ y.pc = "done" /\ y.upstream = x.upstream
      /\ y.body = x.body /\ (x.sent => y.response \in {"closed", "destroyed"})
  BY <1>1, ErrorFields
<1> HIDE DEF y
<1>3. Undelivered(d) = y
  BY DEF Undelivered, x, y
<1> QED
  BY <1>1, <1>2, <1>3 DEF Goes, Sound, Alike

(***************************************************************************)
(* The steps of a response                                                 *)
(***************************************************************************)

\* What a pass-through stream makes of its events.
LEMMA PipeGoes ==
    ASSUME NEW d \in Request, Sound(d), d.pc = "piping", d.upstream = "open"
    PROVE  /\ Goes(d, Given(d, "part"))
           /\ Goes(d, exceedStreamLimit(Given(d, "part")))
           /\ Goes(d, exceedStreamLimit(d))
           /\ Goes(d, End(abortStream(d, "idle")))
           /\ Goes(d, End(Released(Given(d, "whole"))))
           /\ Goes(d, Undelivered(d))
<1>1. Goes(d, Given(d, "part"))
  BY ZenonT(60) DEF Goes, Request, Sound, Given
<1>2. Goes(d, exceedStreamLimit(Given(d, "part")))
  <2> DEFINE x == Given(d, "part")
             y == abortStream(x, "limit")
  <2>1. /\ x \in Request /\ Alike(x, d) /\ x.pc = "piping" /\ x.aborted = d.aborted /\ x.sent
        /\ x.upstream = d.upstream /\ x.response = d.response
    BY GivenFields
  <2> HIDE DEF x
  <2>2. /\ y \in Request /\ Alike(y, x) /\ y.pc = "piping" /\ y.sent
        /\ y.response = x.response /\ y.upstream # "open"
    BY <2>1, AbortFields DEF Sound
  <2> HIDE DEF y
  <2>3. exceedStreamLimit(Given(d, "part")) = y
    BY DEF exceedStreamLimit, x, y
  <2> QED
    BY <2>1, <2>2, <2>3 DEF Goes, Sound, Alike
<1>3. Goes(d, exceedStreamLimit(d))
  BY ZenonT(60) DEF Goes, Request, Sound, exceedStreamLimit, abortStream, Released
<1>4. Goes(d, End(abortStream(d, "idle")))
  <2> DEFINE y == abortStream(d, "idle")
             z == End(y)
  <2>1. /\ y \in Request /\ Alike(y, d) /\ y.pc = "piping" /\ y.aborted = "idle"
        /\ y.response = d.response /\ y.upstream # "open"
    BY AbortFields DEF Sound
  <2> HIDE DEF y
  <2>2. /\ z \in Request /\ Alike(z, y) /\ z.pc = "piping" /\ z.aborted = "idle" /\ z.sent
        /\ z.upstream # "open" /\ z.response = IF y.response = "open" THEN "ended" ELSE y.response
    BY <2>1, EndFields
  <2> HIDE DEF z
  <2>3. z = End(abortStream(d, "idle"))
    BY DEF y, z
  <2> QED
    BY <2>1, <2>2, <2>3 DEF Goes, Sound, Alike
<1>5. Goes(d, End(Released(Given(d, "whole"))))
  <2> DEFINE x == Given(d, "whole")
             y == Released(x)
             z == End(y)
  <2>1. /\ x \in Request /\ Alike(x, d) /\ x.pc = "piping" /\ x.body = "whole"
        /\ x.response = d.response
    BY GivenFields
  <2> HIDE DEF x
  <2>2. /\ y \in Request /\ Alike(y, x) /\ y.pc = "piping" /\ y.body = "whole"
        /\ y.response = x.response /\ y.upstream # "open"
    BY <2>1, ReleasedFields
  <2> HIDE DEF y
  <2>3. /\ z \in Request /\ Alike(z, y) /\ z.pc = "piping" /\ z.body = "whole" /\ z.sent
        /\ z.upstream # "open" /\ z.response = IF y.response = "open" THEN "ended" ELSE y.response
    BY <2>2, EndFields
  <2> HIDE DEF z
  <2>4. z = End(Released(Given(d, "whole")))
    BY DEF x, y, z
  <2> QED
    BY <2>1, <2>2, <2>3, <2>4 DEF Goes, Sound, Alike
<1>6. Goes(d, Undelivered(d))
  BY UndeliveredGoes DEF Sound
<1> QED
  BY <1>1, <1>2, <1>3, <1>4, <1>5, <1>6

\* The wait for the client is over.
LEMMA DoneGoes ==
    ASSUME NEW d \in Request, NEW e \in Request, Alike(e, d), e.upstream # "open",
           e.response \in {"ended", "finished"} /\ e.body # "none"
               => e.body = "whole" \/ e.aborted = "idle"
    PROVE  /\ Goes(d, [e EXCEPT !.pc = "done"])
           /\ (e.sent \/ e.body = "none") => Goes(d, TranslationAborted(e))
<1> DEFINE x == [e EXCEPT !.pc = "done"]
           y == sendJsonErrorIfWritable(e)
<1>1. /\ x \in Request /\ Alike(x, e) /\ x.pc = "done" /\ x.upstream = e.upstream
      /\ x.body = e.body /\ x.response = e.response /\ x.aborted = e.aborted
  BY DEF Request, Alike
<1>2. /\ y \in Request /\ Alike(y, e) /\ y.pc = "done" /\ y.upstream = e.upstream
      /\ y.body = e.body /\ (e.sent => y.response \in {"closed", "destroyed"})
  BY ErrorFields
<1>3. TranslationAborted(e) = IF e.aborted = "limit" THEN y ELSE x
  BY DEF TranslationAborted
<1> HIDE DEF x, y
<1>4. Goes(d, x)
  BY <1>1 DEF Goes, Sound, Alike
<1>5. e.sent \/ e.body = "none" => Goes(d, y)
  BY <1>2 DEF Goes, Sound, Alike
<1> QED
  BY <1>3, <1>4, <1>5 DEF x

\* What a translated stream makes of its events while it reads.
LEMMA TranslateGoes ==
    ASSUME NEW d \in Request, Sound(d), d.pc = "translating"
    PROVE  /\ d.response = "open" => \A last \in BOOLEAN, blocks \in BOOLEAN :
                 Goes(d, [Given(d, "part") EXCEPT !.done = @ \/ last,
                                                  !.pc = IF blocks THEN "blocked" ELSE @])
           /\ Goes(d, TranslationAborted(abortStream(d, "limit")))
           /\ Goes(d, TranslationAborted(End(abortStream(d, "idle"))))
           /\ Goes(d, [Released(d) EXCEPT !.pc = "done"])
           /\ Goes(d, [End(Released(Given(d, "whole"))) EXCEPT !.pc = "done"])
           /\ Goes(d, [Released(Given(d, "whole")) EXCEPT !.done = TRUE, !.pc = "closing"])
<1>1. ASSUME NEW last \in BOOLEAN, NEW blocks \in BOOLEAN, d.response = "open"
      PROVE  Goes(d, [Given(d, "part") EXCEPT !.done = @ \/ last,
                           !.pc = IF blocks THEN "blocked" ELSE @])
  <2> DEFINE x == Given(d, "part")
             pc == IF blocks THEN "blocked" ELSE x.pc
             done == x.done \/ last
             y == [x EXCEPT !.done = done, !.pc = pc]
  <2>1. /\ x \in Request /\ Alike(x, d) /\ x.pc = "translating" /\ x.aborted = "no" /\ x.sent
        /\ x.response = "open"
    BY <1>1, GivenFields DEF Sound
  <2>2. y = [Given(d, "part") EXCEPT !.done = @ \/ last, !.pc = IF blocks THEN "blocked" ELSE @]
    OBVIOUS
  <2>3. pc \in {"translating", "blocked"} /\ done \in BOOLEAN
    BY <2>1
  <2> HIDE DEF x, pc, done
  <2>4. /\ y \in Request /\ Alike(y, x) /\ y.pc = pc /\ y.aborted = "no" /\ y.sent
        /\ y.response = "open"
    BY <2>1, <2>3, ZenonT(60) DEF Request, Alike
  <2> HIDE DEF y
  <2> QED
    BY <2>1, <2>2, <2>3, <2>4 DEF Goes, Sound, Alike
<1>2. Goes(d, TranslationAborted(abortStream(d, "limit")))
  <2> DEFINE x == abortStream(d, "limit")
  <2>1. /\ x \in Request /\ Alike(x, d) /\ x.upstream # "open" /\ x.body = d.body
        /\ x.sent = d.sent /\ x.response = d.response /\ d.aborted = "no"
    BY AbortFields DEF Sound
  <2> HIDE DEF x
  <2>2. Goes(d, TranslationAborted(x))
    BY <2>1, DoneGoes DEF Sound
  <2> QED
    BY <2>2 DEF x
<1>3. Goes(d, TranslationAborted(End(abortStream(d, "idle"))))
  <2> DEFINE x == abortStream(d, "idle")
             y == End(x)
  <2>1. x \in Request /\ Alike(x, d) /\ x.upstream # "open" /\ x.aborted = "idle"
    BY AbortFields DEF Sound
  <2> HIDE DEF x
  <2>2. y \in Request /\ Alike(y, d) /\ y.upstream # "open" /\ y.aborted = "idle" /\ y.sent
    BY <2>1, EndFields DEF Alike
  <2> HIDE DEF y
  <2>3. Goes(d, TranslationAborted(y))
    BY <2>2, DoneGoes
  <2> QED
    BY <2>3 DEF x, y
<1>4. Goes(d, [Released(d) EXCEPT !.pc = "done"])
  <2> DEFINE x == Released(d)
  <2>1. /\ x \in Request /\ Alike(x, d) /\ x.upstream # "open" /\ x.body = d.body
        /\ x.response = d.response /\ x.aborted = d.aborted
    BY ReleasedFields
  <2> HIDE DEF x
  <2>2. Goes(d, [x EXCEPT !.pc = "done"])
    BY <2>1, DoneGoes DEF Sound
  <2> QED
    BY <2>2 DEF x
<1> DEFINE w == Released(Given(d, "whole"))
<1>5. /\ w \in Request /\ Alike(w, d) /\ w.upstream # "open" /\ w.body = "whole" /\ w.sent
      /\ w.response = d.response /\ w.aborted = d.aborted
  <2> DEFINE x == Given(d, "whole")
  <2>1. /\ x \in Request /\ Alike(x, d) /\ x.body = "whole" /\ x.sent
        /\ x.response = d.response /\ x.aborted = d.aborted
    BY GivenFields
  <2> HIDE DEF x
  <2>2. /\ Released(x) \in Request /\ Alike(Released(x), d) /\ Released(x).upstream # "open"
        /\ Released(x).body = "whole" /\ Released(x).sent
        /\ Released(x).response = d.response /\ Released(x).aborted = d.aborted
    BY <2>1, ReleasedFields DEF Alike
  <2> QED
    BY <2>2 DEF x
<1> HIDE DEF w
<1>6. Goes(d, [End(w) EXCEPT !.pc = "done"])
  <2> DEFINE x == End(w)
  <2>1. x \in Request /\ Alike(x, d) /\ x.upstream # "open" /\ x.body = "whole"
    BY <1>5, EndFields DEF Alike
  <2> HIDE DEF x
  <2>2. Goes(d, [x EXCEPT !.pc = "done"])
    BY <2>1, DoneGoes
  <2> QED
    BY <2>2 DEF x
<1>7. Goes(d, [w EXCEPT !.done = TRUE, !.pc = "closing"])
  <2> DEFINE x == [w EXCEPT !.done = TRUE, !.pc = "closing"]
  <2>0. x \in Request
    BY <1>5, ClosingFields
  <2>1. /\ Alike(x, w) /\ x.pc = "closing" /\ x.upstream # "open"
        /\ x.body = "whole" /\ x.sent /\ x.response = d.response
    BY <1>5, ClosingFields, ZenonT(60)
  <2> HIDE DEF x
  <2>2. Goes(d, x)
    BY <1>5, <2>0, <2>1 DEF Goes, Sound, Alike
  <2> QED
    BY <2>2 DEF x
<1> QED
  BY <1>1, <1>2, <1>3, <1>4, <1>6, <1>7 DEF w

\* What a write that waits for the client makes of its events.
LEMMA BlockedGoes ==
    ASSUME NEW d \in Request, Sound(d)
    PROVE  /\ d.pc = "blocked" /\ d.aborted = "no" =>
                  /\ Goes(d, abortStream(d, "limit"))
                  /\ Goes(d, End(abortStream(d, "idle")))
                  /\ Goes(d, [d EXCEPT !.pc = "translating"])
           /\ d.pc = "blocked" /\ d.aborted # "no" =>
                  Goes(d, TranslationAborted([d EXCEPT !.response = IF @ = "ended" THEN "finished" ELSE @]))
           /\ d.pc = "closing" => Goes(d, [End(d) EXCEPT !.pc = "done"])
           /\ d.pc = "piping" /\ d.response = "ended" =>
                  Goes(d, [d EXCEPT !.response = "finished", !.pc = "done"])
<1>1. ASSUME d.pc = "blocked", d.aborted = "no"
      PROVE  /\ Goes(d, abortStream(d, "limit"))
             /\ Goes(d, End(abortStream(d, "idle")))
             /\ Goes(d, [d EXCEPT !.pc = "translating"])
  <2> DEFINE x == abortStream(d, "limit")
             y == abortStream(d, "idle")
             z == End(y)
             w == [d EXCEPT !.pc = "translating"]
  <2>1. /\ x \in Request /\ Alike(x, d) /\ x.pc = "blocked" /\ x.body = d.body /\ x.sent = d.sent
        /\ x.response = d.response /\ x.upstream # "open"
    BY <1>1, AbortFields
  <2>2. /\ y \in Request /\ Alike(y, d) /\ y.pc = "blocked" /\ y.aborted = "idle"
        /\ y.response = d.response /\ y.upstream # "open"
    BY <1>1, AbortFields
  <2> HIDE DEF x, y
  <2>3. /\ z \in Request /\ Alike(z, y) /\ z.pc = "blocked" /\ z.aborted = "idle" /\ z.sent
        /\ z.response = (IF y.response = "open" THEN "ended" ELSE y.response) /\ z.upstream # "open"
    BY <2>2, EndFields
  <2>4. /\ w \in Request /\ Alike(w, d) /\ w.pc = "translating" /\ w.aborted = "no"
        /\ w.sent = d.sent /\ w.body = d.body /\ w.response = d.response /\ w.upstream = d.upstream
    BY <1>1 DEF Request, Alike
  <2> HIDE DEF z, w
  <2>5. Goes(d, x)
    BY <1>1, <2>1 DEF Goes, Sound, Alike
  <2>6. Goes(d, z)
    BY <1>1, <2>2, <2>3 DEF Goes, Sound, Alike
  <2>7. Goes(d, w)
    BY <1>1, <2>4 DEF Goes, Sound, Alike
  <2> QED
    BY <2>5, <2>6, <2>7 DEF x, y, z, w
<1>2. ASSUME d.pc = "blocked", d.aborted # "no"
      PROVE  Goes(d, TranslationAborted([d EXCEPT !.response = IF @ = "ended" THEN "finished" ELSE @]))
  <2> DEFINE response == IF d.response = "ended" THEN "finished" ELSE d.response
             x == [d EXCEPT !.response = response]
  <2>1. /\ response \in {"open", "ended", "finished", "closed", "destroyed"}
        /\ response \in {"ended", "finished"} => d.response \in {"ended", "finished"}
    BY DEF Request
  <2>2. x = [d EXCEPT !.response = IF @ = "ended" THEN "finished" ELSE @]
    OBVIOUS
  <2> HIDE DEF response
  <2>3. /\ x \in Request /\ Alike(x, d) /\ x.upstream = d.upstream /\ x.body = d.body
        /\ x.sent = d.sent /\ x.aborted = d.aborted /\ x.response = response
    BY <2>1 DEF Request, Alike
  <2> HIDE DEF x
  <2>4. Goes(d, TranslationAborted(x))
    BY <1>2, <2>1, <2>3, DoneGoes DEF Sound
  <2> QED
    BY <2>2, <2>4
<1>3. ASSUME d.pc = "closing"
      PROVE  Goes(d, [End(d) EXCEPT !.pc = "done"])
  <2> DEFINE x == End(d)
  <2>1. x \in Request /\ Alike(x, d) /\ x.upstream # "open" /\ x.body = "whole"
    BY <1>3, EndFields DEF Sound
  <2> HIDE DEF x
  <2>2. Goes(d, [x EXCEPT !.pc = "done"])
    BY <2>1, DoneGoes
  <2> QED
    BY <2>2 DEF x
<1>4. ASSUME d.pc = "piping", d.response = "ended"
      PROVE  Goes(d, [d EXCEPT !.response = "finished", !.pc = "done"])
  <2> DEFINE x == [d EXCEPT !.response = "finished", !.pc = "done"]
  <2>1. /\ x \in Request /\ Alike(x, d) /\ x.pc = "done" /\ x.upstream = d.upstream
        /\ x.body = d.body /\ x.aborted = d.aborted /\ x.response = "finished"
    BY ZenonT(60) DEF Request, Alike
  <2> HIDE DEF x
  <2>2. Goes(d, x)
    BY <1>4, <2>1 DEF Goes, Sound, Alike
  <2> QED
    BY <2>2 DEF x
<1> QED
  BY <1>1, <1>2, <1>3, <1>4

\* What a client that leaves makes of its request.
LEMMA LeavesGoes ==
    ASSUME NEW d \in Request, Sound(d)
    PROVE  LET gone    == [d EXCEPT !.response = "closed"]
               aborted == abortStream(gone, "client")
           IN  /\ d.pc \in {"piping", "translating"} => Goes(d, [aborted EXCEPT !.pc = "done"])
               /\ d.pc = "blocked" => Goes(d, TranslationAborted(aborted))
               /\ d.pc = "closing" => Goes(d, [gone EXCEPT !.pc = "done"])
               /\ d.pc \in {"resolving", "fetching", "buffering"} => Goes(d, gone)
<1> DEFINE gone    == [d EXCEPT !.response = "closed"]
           aborted == abortStream(gone, "client")
<1>1. /\ gone \in Request /\ Alike(gone, d) /\ gone.pc = d.pc /\ gone.upstream = d.upstream
      /\ gone.body = d.body /\ gone.sent = d.sent /\ gone.aborted = d.aborted
      /\ gone.response = "closed"
  BY DEF Request, Alike
<1> HIDE DEF gone
<1>2. /\ aborted \in Request /\ Alike(aborted, d) /\ aborted.response = "closed"
      /\ aborted.body = d.body /\ aborted.sent = d.sent
      /\ d.aborted = "no" \/ d.upstream # "open" => aborted.upstream # "open"
  BY <1>1, AbortFields DEF Alike
<1> HIDE DEF aborted
<1>3. d.pc \in {"piping", "translating"} => Goes(d, [aborted EXCEPT !.pc = "done"])
  BY <1>2, DoneGoes DEF Sound
<1>4. d.pc = "blocked" => Goes(d, TranslationAborted(aborted))
  BY <1>2, DoneGoes DEF Sound
<1>5. d.pc = "closing" => Goes(d, [gone EXCEPT !.pc = "done"])
  BY <1>1, DoneGoes DEF Sound
<1>6. d.pc \in {"resolving", "fetching", "buffering"} => Goes(d, gone)
  BY <1>1 DEF Goes, Sound, Alike
<1> QED
  BY <1>3, <1>4, <1>5, <1>6 DEF gone, aborted

\* Every step of ResponseDelivery is one of these.
LEMMA DeliveryGoes ==
    ASSUME NEW r, req[r] \in Request, Sound(req[r]), DeliveryStep(r)
    PROVE  \E e : Set(r, e) /\ Goes(req[r], e) /\ req[r].pc \notin {"idle", "reading", "done"}
<1> USE DEF In
<1>1. CASE BufferFails(r) \/ BufferTimesOut(r)
  <2>1. Goes(req[r], Undelivered(req[r]))
    BY <1>1, UndeliveredGoes DEF BufferFails, BufferTimesOut, Sound
  <2> QED
    BY <1>1, <2>1 DEF BufferFails, BufferTimesOut
<1>2. CASE PipeData(r) \/ PipeOversized(r) \/ PipeLimit(r) \/ PipeIdle(r) \/ PipeEnd(r) \/ PipeError(r)
  <2>1. req[r].pc = "piping" /\ req[r].upstream = "open"
    BY <1>2 DEF PipeData, PipeOversized, PipeLimit, PipeIdle, PipeEnd, PipeError
  <2> QED
    BY <1>2, <2>1, PipeGoes DEF PipeData, PipeOversized, PipeLimit, PipeIdle, PipeEnd, PipeError
<1>3. CASE PipeFinish(r)
  BY <1>3, BlockedGoes DEF PipeFinish
<1>4. CASE TranslateChunk(r)
  <2>1. PICK last \in BOOLEAN, blocks \in BOOLEAN :
            Set(r, [Given(req[r], "part") EXCEPT !.done = @ \/ last,
                                                 !.pc = IF blocks THEN "blocked" ELSE @])
    BY <1>4 DEF TranslateChunk
  <2>2. req[r].pc = "translating" /\ req[r].response = "open"
    BY <1>4 DEF TranslateChunk
  <2>3. Goes(req[r], [Given(req[r], "part") EXCEPT !.done = @ \/ last,
                                                 !.pc = IF blocks THEN "blocked" ELSE @])
    BY <2>2, TranslateGoes
  <2> QED
    BY <2>1, <2>2, <2>3
<1>5. CASE TranslateFails(r) \/ TranslateLimit(r) \/ TranslateIdle(r) \/ TranslateEnd(r)
  <2>1. req[r].pc = "translating"
    BY <1>5 DEF TranslateFails, TranslateLimit, TranslateIdle, TranslateEnd
  <2>2. Goes(req[r], Undelivered(req[r]))
    BY <2>1, UndeliveredGoes DEF Sound
  <2>3. CASE TranslateFails(r) \/ TranslateLimit(r) \/ TranslateIdle(r)
    BY <2>1, <2>2, <2>3, TranslateGoes DEF TranslateFails, TranslateLimit, TranslateIdle
  <2>4. CASE TranslateEnd(r)
    BY <2>1, <2>2, <2>4, TranslateGoes DEF TranslateEnd
  <2> QED
    BY <1>5, <2>3, <2>4
<1>6. CASE BlockedLimit(r) \/ BlockedIdle(r)
  BY <1>6, BlockedGoes DEF BlockedLimit, BlockedIdle
<1>7. CASE Drained(r)
  BY <1>7, BlockedGoes DEF Drained
<1>8. CASE ClientLeaves(r)
  BY <1>8, LeavesGoes DEF ClientLeaves
<1> QED
  BY <1>1, <1>2, <1>3, <1>4, <1>5, <1>6, <1>7, <1>8 DEF DeliveryStep

-----------------------------------------------------------------------------
(***************************************************************************)
(* The steps of a request before its response                              *)
(***************************************************************************)

\* A request that is refused before its upstream answered is over, and one
\* whose client left is no different.
LEMMA RefusedGoes ==
    ASSUME NEW d \in Request, Sound(d), d.pc \in EarlyPcs
    PROVE  /\ Goes(d, sendJsonError(d))
           /\ Goes(d, sendJsonError([d EXCEPT !.response = "closed"]))
<1> DEFINE x == sendJsonError(d)
           y == [d EXCEPT !.response = "closed"]
           z == sendJsonError(y)
<1>1. /\ x \in Request /\ Alike(x, d) /\ x.pc = "done" /\ x.upstream = d.upstream
      /\ x.body = d.body /\ x.aborted = d.aborted
  BY ErrorFields
<1>2. y \in Request /\ Alike(y, d) /\ y.upstream = d.upstream /\ y.body = d.body
  BY DEF Request, Alike
<1> HIDE DEF x, y
<1>3. /\ z \in Request /\ Alike(z, y) /\ z.pc = "done" /\ z.upstream = y.upstream
      /\ z.body = y.body
  BY <1>2, ErrorFields
<1> HIDE DEF z
<1>4. Goes(d, x)
  BY <1>1 DEF Goes, Sound, Alike
<1>5. Goes(d, z)
  BY <1>2, <1>3 DEF Goes, Sound, Alike
<1> QED
  BY <1>4, <1>5 DEF x, y, z

\* A request goes on to its lookup or to its upstream, pinned to nothing, to
\* a public address, or to a private one its route allows.
LEMMA ForwardGoes ==
    ASSUME NEW d \in Request, Sound(d), d.pc \in {"reading", "resolving"},
           NEW address \in Addresses, address = "private" => RouteOf(d).allowPrivate
    PROVE  /\ Goes(d, [d EXCEPT !.pc = "resolving"])
           /\ Goes(d, [d EXCEPT !.pc = "fetching"])
           /\ Goes(d, [d EXCEPT !.pc = "fetching", !.pinned = address])
<1> DEFINE x == [d EXCEPT !.pc = "resolving"]
           y == [d EXCEPT !.pc = "fetching"]
           z == [d EXCEPT !.pc = "fetching", !.pinned = address]
<1>1. /\ x \in Request /\ Alike(x, d) /\ x.pc = "resolving" /\ x.upstream = d.upstream
      /\ x.body = d.body /\ x.aborted = d.aborted /\ x.sent = d.sent /\ x.response = d.response
  BY DEF Request, Alike
<1>2. /\ y \in Request /\ Alike(y, d) /\ y.pc = "fetching" /\ y.upstream = d.upstream
      /\ y.body = d.body /\ y.aborted = d.aborted /\ y.sent = d.sent /\ y.response = d.response
  BY DEF Request, Alike
<1>3. z \in Request
  BY DEF Request
<1>4. /\ z.pc = "fetching" /\ z.upstream = d.upstream /\ z.pinned = address
      /\ z.body = d.body /\ z.aborted = d.aborted /\ z.sent = d.sent /\ z.response = d.response
      /\ z.msg = d.msg /\ z.config = d.config
  BY DEF Request
<1> HIDE DEF x, y, z
<1>5. Goes(d, x)
  BY <1>1 DEF Goes, Sound, Alike
<1>6. Goes(d, y)
  BY <1>2 DEF Goes, Sound, Alike
<1>7. Goes(d, z)
  BY <1>3, <1>4 DEF Goes, Sound, Alike
<1> QED
  BY <1>5, <1>6, <1>7 DEF x, y, z

\* The headers of the upstream response are here: its body is open, unless it
\* was refused for its declared length.
LEMMA RespondsGoes ==
    ASSUME NEW d \in Request, Sound(d), d.pc = "fetching", NEW failed \in BOOLEAN
    PROVE  LET x == [d EXCEPT !.upstream = "open", !.failed = failed]
           IN  /\ \A pc \in {"translating", "piping", "buffering"} : Goes(d, [x EXCEPT !.pc = pc])
               /\ Goes(d, BufferDeclaredTooLarge(x))
<1> DEFINE x == [d EXCEPT !.upstream = "open", !.failed = failed]
<1>1. x \in Request
  BY DEF Request
<1>2. /\ x.pc = "fetching" /\ x.upstream = "open" /\ x.pinned = d.pinned
      /\ x.body = d.body /\ x.aborted = d.aborted /\ x.sent = d.sent /\ x.response = d.response
      /\ x.msg = d.msg /\ x.config = d.config
  BY DEF Request
<1> HIDE DEF x
<1>3. ASSUME NEW pc \in {"translating", "piping", "buffering"}
      PROVE  Goes(d, [x EXCEPT !.pc = pc])
  <2> DEFINE y == [x EXCEPT !.pc = pc]
  <2>1. y \in Request
    BY <1>1 DEF Request
  <2>2. /\ y.pc = pc /\ y.upstream = "open" /\ y.pinned = d.pinned
        /\ y.body = d.body /\ y.aborted = d.aborted /\ y.sent = d.sent /\ y.response = d.response
        /\ y.msg = d.msg /\ y.config = d.config
    BY <1>1, <1>2 DEF Request
  <2> HIDE DEF y
  <2>3. /\ d.aborted = "no" /\ d.body = "none" /\ d.sent = FALSE
        /\ d.response \in {"open", "closed"}
    BY DEF Sound, Request
  <2>4. Sound(y)
    BY <2>2, <2>3 DEF Sound
  <2>5. Goes(d, y)
    BY <2>1, <2>2, <2>4 DEF Goes
  <2> QED
    BY <2>5 DEF y
<1>4. Goes(d, BufferDeclaredTooLarge(x))
  <2> DEFINE y == [x EXCEPT !.upstream = "abandoned"]
             z == sendJsonErrorIfWritable(y)
  <2>0. y \in Request
    BY <1>1 DEF Request
  <2>1. /\ y.upstream = "abandoned" /\ y.body = d.body
        /\ y.pinned = d.pinned /\ y.msg = d.msg /\ y.config = d.config
    BY <1>1, <1>2 DEF Request
  <2> HIDE DEF y
  <2>2. /\ z \in Request /\ Alike(z, y) /\ z.pc = "done" /\ z.upstream = y.upstream
        /\ z.body = y.body
    BY <2>0, ErrorFields
  <2> HIDE DEF z
  <2>3. Goes(d, z)
    BY <2>1, <2>2 DEF Goes, Sound, Alike
  <2> QED
    BY <2>3 DEF y, z, BufferDeclaredTooLarge
<1> QED
  BY <1>3, <1>4 DEF x

\* The whole body was read and is sent.
LEMMA BufferedGoes ==
    ASSUME NEW d \in Request
    PROVE  Goes(d, sendBufferedResponse(d))
<1> DEFINE x == Released(d)
           y == Given(x, "whole")
           z == End(y)
<1>1. x \in Request /\ Alike(x, d) /\ x.upstream # "open"
  BY ReleasedFields
<1> HIDE DEF x
<1>2. y \in Request /\ Alike(y, x) /\ y.upstream # "open" /\ y.body = "whole"
  BY <1>1, GivenFields
<1> HIDE DEF y
<1>3. z \in Request /\ Alike(z, d) /\ z.upstream # "open" /\ z.body = "whole"
  BY <1>1, <1>2, EndFields DEF Alike
<1> HIDE DEF z
<1>4. Goes(d, [z EXCEPT !.pc = "done"])
  BY <1>3, DoneGoes
<1> QED
  BY <1>4 DEF x, y, z, sendBufferedResponse

\* Of a request that is over only how it ended is kept.
LEMMA SettledGoes ==
    ASSUME NEW d \in Request, NEW e, Goes(d, e)
    PROVE  /\ Settled(e) \in Request /\ Sound(Settled(e)) /\ Settled(e).pc = e.pc
           /\ e.pc = "done" => Settled(e).pinned = "no"
           /\ e.pc # "done" => Settled(e) = e
<1>1. e \in Request /\ Sound(e)
  BY DEF Goes
<1>2. CASE e.pc = "done"
  <2> DEFINE x == [pc |-> "done", upstream |-> e.upstream, pinned |-> "no", response |-> e.response,
                   sent |-> FALSE, body |-> e.body, aborted |-> e.aborted, done |-> FALSE,
                   failed |-> FALSE, capture |-> None, msg |-> None, config |-> None]
  <2>1. Settled(e) = x
    BY <1>2 DEF Settled, Idle
  <2>2. x \in Request
    BY <1>1 DEF Request
  <2>3. /\ x.pc = "done" /\ x.pinned = "no" /\ x.upstream = e.upstream /\ x.response = e.response
        /\ x.body = e.body /\ x.aborted = e.aborted
    OBVIOUS
  <2> HIDE DEF x
  <2>4. Sound(x)
    BY <1>1, <1>2, <2>3 DEF Sound
  <2> QED
    BY <1>2, <2>1, <2>2, <2>3, <2>4
<1>3. CASE e.pc # "done"
  BY <1>1, <1>3 DEF Settled
<1> QED
  BY <1>2, <1>3

-----------------------------------------------------------------------------
(***************************************************************************)
(* The inductive invariant                                                 *)
(***************************************************************************)
StreamHolders(s) == {r \in Held : HasStreamSlot(req[r]) /\ Msg(req[r]).source = s}

TypeOK ==
    /\ req \in [Slots -> Request]
    /\ parseActive \in Nat
    /\ streamActive \in [Sources -> Nat]
    /\ cache \in [Hostnames -> CacheEntries]
    /\ workload \in DOMAIN Workload
    /\ config \in DOMAIN Config

\* A request at work came with a message.
HeldHaveMessages == \A r \in Held : req[r].msg \in DOMAIN Message

RequestsSound == \A r \in Slots : Sound(req[r])

Inv == TypeOK /\ HeldHaveMessages /\ RequestsSound /\ SlotsHeldExactly /\ PrivateOnlyIfAllowed

\* What a step of the request in slot r does to it.
Moves(r, e) ==
    /\ r \in Held /\ Set(r, e) /\ Goes(req[r], e)

\* A request that leaves the body it read behind, and takes a stream slot.
Acquires(r, e) ==
    /\ req[r].pc = "reading" /\ e.pc # "done"
    /\ parseActive' = parseActive /\ streamActive' = Acquired(req[r])

\* A request that goes on with the slots it has, or ends and gives them back.
Keeps(r, e) ==
    /\ req[r].pc = "reading" => e.pc = "done"
    /\ releaseSlots(r)

\* The requests at work are finitely many.
LEMMA HeldFinite == IsFiniteSet(Held) /\ \A s : IsFiniteSet(StreamHolders(s))
<1>1. IsFiniteSet(Slots)
  BY RequestPathAssumption
<1>2. Held \subseteq Slots /\ \A s : StreamHolders(s) \subseteq Slots
  BY DEF Held, StreamHolders
<1> QED
  BY <1>1, <1>2, FS_Subset

\* The record of a request that took a step, and every other record.
LEMMA MovedRequest ==
    ASSUME Inv, NEW r \in Slots, NEW e, Moves(r, e)
    PROVE  /\ req' \in [Slots -> Request]
           /\ req'[r] = Settled(e) /\ Settled(e).pc = e.pc /\ Sound(Settled(e))
           /\ e.pc # "done" => req'[r] = e
           /\ e.pc = "done" => req'[r].pinned = "no"
           /\ \A q \in Slots \ {r} : req'[q] = req[q]
           /\ Held' = IF e.pc = "done" THEN Held \ {r} ELSE Held
<1>1. req[r] \in Request /\ Goes(req[r], e) /\ req' = [req EXCEPT ![r] = Settled(e)] /\ r \in Held
  BY DEF Inv, TypeOK, Moves, Set
<1>2. /\ Settled(e) \in Request /\ Sound(Settled(e)) /\ Settled(e).pc = e.pc
      /\ e.pc = "done" => Settled(e).pinned = "no"
      /\ e.pc # "done" => Settled(e) = e
  BY <1>1, SettledGoes
<1>3. /\ req' \in [Slots -> Request] /\ req'[r] = Settled(e)
      /\ \A q \in Slots \ {r} : req'[q] = req[q]
  BY <1>1, <1>2 DEF Inv, TypeOK
<1>4. e.pc # "idle"
  BY <1>1 DEF Goes
<1>5. Held' = IF e.pc = "done" THEN Held \ {r} ELSE Held
  BY <1>1, <1>2, <1>3, <1>4 DEF Held, Free
<1> QED
  BY <1>2, <1>3, <1>5

\* The step keeps what is known of every single request.
LEMMA MoveKeepsRequests ==
    ASSUME Inv, NEW r \in Slots, NEW e, Moves(r, e)
    PROVE  /\ req' \in [Slots -> Request]
           /\ HeldHaveMessages' /\ RequestsSound' /\ PrivateOnlyIfAllowed'
<1>1. /\ req' \in [Slots -> Request]
      /\ req'[r] = Settled(e) /\ Settled(e).pc = e.pc /\ Sound(Settled(e))
      /\ e.pc # "done" => req'[r] = e
      /\ e.pc = "done" => req'[r].pinned = "no"
      /\ \A q \in Slots \ {r} : req'[q] = req[q]
      /\ Held' = IF e.pc = "done" THEN Held \ {r} ELSE Held
  BY MovedRequest
<1>2. /\ e.msg = req[r].msg /\ e.config = req[r].config /\ r \in Held
      /\ e.pinned = "private" => req[r].pinned = "private" \/ RouteOf(req[r]).allowPrivate
  BY DEF Moves, Goes
<1>3. HeldHaveMessages'
  BY <1>1, <1>2 DEF HeldHaveMessages, Inv, Held
<1>4. RequestsSound'
  BY <1>1 DEF RequestsSound, Inv
<1>5. PrivateOnlyIfAllowed'
  <2> SUFFICES ASSUME NEW q \in Slots, req'[q].pinned = "private"
               PROVE  RouteOf(req'[q]).allowPrivate
    BY DEF PrivateOnlyIfAllowed
  <2>1. CASE q # r
    BY <1>1, <2>1 DEF PrivateOnlyIfAllowed, Inv
  <2>2. CASE q = r
    <3>1. e.pc # "done" /\ req'[r] = e
      BY <1>1, <2>2
    <3>2. RouteOf(req[r]).allowPrivate
      BY <1>2, <2>2, <3>1 DEF PrivateOnlyIfAllowed, Inv
    <3>3. RouteOf(e) = RouteOf(req[r])
      BY <1>2 DEF RouteOf, Conf, Msg
    <3> QED
      BY <2>2, <3>1, <3>2, <3>3
  <2> QED
    BY <2>1, <2>2
<1> QED
  BY <1>1, <1>3, <1>4, <1>5

\* Which of the moved requests holds a stream slot.
LEMMA MovedHolders ==
    ASSUME Inv, NEW r \in Slots, NEW e, Moves(r, e), NEW s
    PROVE  /\ e.pc = "done" => StreamHolders(s)' = StreamHolders(s) \ {r}
           /\ e.pc # "done" /\ req[r].pc # "reading" => StreamHolders(s)' = StreamHolders(s)
           /\ e.pc # "done" /\ req[r].pc = "reading" =>
                  /\ r \notin StreamHolders(s)
                  /\ StreamHolders(s)' = IF Msg(req[r]).stream /\ Msg(req[r]).source = s
                                         THEN StreamHolders(s) \cup {r} ELSE StreamHolders(s)
<1>1. /\ e.pc # "done" => req'[r] = e
      /\ \A q \in Slots \ {r} : req'[q] = req[q]
      /\ Held' = IF e.pc = "done" THEN Held \ {r} ELSE Held
  BY MovedRequest
<1>2. /\ e.msg = req[r].msg /\ e.pc \notin {"idle", "reading"} /\ r \in Held
      /\ req[r].pc \notin {"idle", "done"}
  BY DEF Moves, Goes, Held, Free
<1>3. Held \subseteq Slots
  BY DEF Held
<1>4. \A q \in Slots \ {r} : q \in StreamHolders(s)' <=> q \in StreamHolders(s)
  BY <1>1 DEF StreamHolders, HasStreamSlot, Msg
<1>5. StreamHolders(s)' \subseteq Slots /\ StreamHolders(s) \subseteq Slots
  BY <1>1, <1>3 DEF StreamHolders
<1>6. e.pc = "done" => r \notin StreamHolders(s)'
  BY <1>1 DEF StreamHolders
<1>7. e.pc # "done" => (r \in StreamHolders(s)' <=> (Msg(req[r]).stream /\ Msg(req[r]).source = s))
  BY <1>1, <1>2 DEF StreamHolders, HasStreamSlot, Msg
<1>8. r \in StreamHolders(s) <=>
          (req[r].pc # "reading" /\ Msg(req[r]).stream /\ Msg(req[r]).source = s)
  BY <1>2 DEF StreamHolders, HasStreamSlot
<1> HIDE DEF StreamHolders
<1>9. e.pc = "done" => StreamHolders(s)' = StreamHolders(s) \ {r}
  BY <1>4, <1>5, <1>6
<1>10. e.pc # "done" /\ req[r].pc # "reading" => StreamHolders(s)' = StreamHolders(s)
  BY <1>4, <1>5, <1>7, <1>8
<1>11. e.pc # "done" /\ req[r].pc = "reading" =>
           StreamHolders(s)' = IF Msg(req[r]).stream /\ Msg(req[r]).source = s
                               THEN StreamHolders(s) \cup {r} ELSE StreamHolders(s)
  BY <1>4, <1>5, <1>7, <1>8
<1> QED
  BY <1>8, <1>9, <1>10, <1>11

\* A step of a request that keeps its slots, gives them back or takes a stream
\* slot leaves the counters exact.
LEMMA MoveKeepsSlots ==
    ASSUME Inv, NEW r \in Slots, NEW e, Moves(r, e), Keeps(r, e) \/ Acquires(r, e)
    PROVE  /\ parseActive' \in Nat /\ streamActive' \in [Sources -> Nat]
           /\ SlotsHeldExactly'
<1> DEFINE s0 == Msg(req[r]).source
<1>1. r \in Held /\ s0 \in Sources
  BY RequestPathAssumption DEF Moves, Inv, HeldHaveMessages, Msg
<1>2. /\ parseActive \in Nat /\ streamActive \in [Sources -> Nat]
      /\ parseActive = Cardinality(Held)
      /\ \A s \in Sources : streamActive[s] = Cardinality(StreamHolders(s))
  BY DEF Inv, TypeOK, SlotsHeldExactly, StreamHolders
<1>3. IsFiniteSet(Held) /\ \A s : IsFiniteSet(StreamHolders(s))
  BY HeldFinite
<1>4. Cardinality(Held \ {r}) = Cardinality(Held) - 1
  BY <1>1, <1>3, FS_RemoveElement
<1>5. Cardinality(Held) # 0
  BY <1>1, <1>3, FS_EmptySet
<1>6. req'[r].pc = e.pc /\ Held' = IF e.pc = "done" THEN Held \ {r} ELSE Held
  BY MovedRequest
<1>7. ASSUME NEW s
      PROVE  /\ Cardinality(StreamHolders(s) \cup {r}) =
                    IF r \in StreamHolders(s) THEN Cardinality(StreamHolders(s))
                    ELSE Cardinality(StreamHolders(s)) + 1
             /\ Cardinality(StreamHolders(s) \ {r}) =
                    IF r \in StreamHolders(s) THEN Cardinality(StreamHolders(s)) - 1
                    ELSE Cardinality(StreamHolders(s))
             /\ r \in StreamHolders(s) => Cardinality(StreamHolders(s)) # 0
             /\ r \in StreamHolders(s) <=> HasStreamSlot(req[r]) /\ s0 = s
  <2>1. r \in StreamHolders(s) => Cardinality(StreamHolders(s)) # 0
    BY <1>3, FS_EmptySet
  <2>2. r \in StreamHolders(s) <=> HasStreamSlot(req[r]) /\ s0 = s
    BY <1>1 DEF StreamHolders
  <2> QED
    BY <1>3, <2>1, <2>2, FS_AddElement, FS_RemoveElement
<1>8. ASSUME NEW s
      PROVE  /\ e.pc = "done" => StreamHolders(s)' = StreamHolders(s) \ {r}
             /\ e.pc # "done" /\ req[r].pc # "reading" => StreamHolders(s)' = StreamHolders(s)
             /\ e.pc # "done" /\ req[r].pc = "reading" =>
                  /\ r \notin StreamHolders(s)
                  /\ StreamHolders(s)' = IF Msg(req[r]).stream /\ Msg(req[r]).source = s
                                         THEN StreamHolders(s) \cup {r} ELSE StreamHolders(s)
  BY MovedHolders
<1>9. parseActive' \in Nat /\ parseActive' = Cardinality(Held)'
  <2>1. CASE Keeps(r, e)
    <3>1. parseActive' = IF e.pc = "done" THEN Decrement(parseActive) ELSE parseActive
      BY <1>6, <2>1 DEF Keeps, releaseSlots
    <3> QED
      BY <1>2, <1>4, <1>5, <1>6, <3>1 DEF Decrement
  <2>2. CASE Acquires(r, e)
    BY <1>2, <1>6, <2>2 DEF Acquires
  <2> QED
    BY <2>1, <2>2
<1>10. /\ streamActive' \in [Sources -> Nat]
       /\ \A s \in Sources : streamActive'[s] = Cardinality(StreamHolders(s)')
  <2>1. CASE Keeps(r, e)
    <3>1. /\ streamActive' = IF e.pc = "done" /\ HasStreamSlot(req[r])
                             THEN [streamActive EXCEPT ![s0] = Decrement(@)] ELSE streamActive
          /\ req[r].pc = "reading" => e.pc = "done"
      BY <1>6, <2>1 DEF Keeps, releaseSlots
    <3>2. streamActive' \in [Sources -> Nat]
      BY <1>1, <1>2, <3>1 DEF Decrement
    <3>3. ASSUME NEW s \in Sources
          PROVE  streamActive'[s] = Cardinality(StreamHolders(s)')
      <4>1. CASE e.pc = "done"
        <5>1. streamActive'[s] = IF HasStreamSlot(req[r]) /\ s0 = s
                                 THEN Decrement(streamActive[s]) ELSE streamActive[s]
          BY <1>1, <1>2, <3>1, <4>1
        <5>2. /\ Cardinality(StreamHolders(s) \ {r}) =
                    IF r \in StreamHolders(s) THEN Cardinality(StreamHolders(s)) - 1
                    ELSE Cardinality(StreamHolders(s))
              /\ r \in StreamHolders(s) => Cardinality(StreamHolders(s)) # 0
              /\ r \in StreamHolders(s) <=> HasStreamSlot(req[r]) /\ s0 = s
          BY <1>7
        <5>3. streamActive[s] = Cardinality(StreamHolders(s)) /\ streamActive[s] \in Nat
          BY <1>2
        <5>4. Cardinality(StreamHolders(s)') = Cardinality(StreamHolders(s) \ {r})
          BY <1>8, <4>1
        <5>5. CASE r \in StreamHolders(s)
          <6>1. Decrement(streamActive[s]) = streamActive[s] - 1
            BY <5>2, <5>3, <5>5 DEF Decrement
          <6> QED
            BY <5>1, <5>2, <5>3, <5>4, <5>5, <6>1
        <5>6. CASE r \notin StreamHolders(s)
          BY <5>1, <5>2, <5>3, <5>4, <5>6
        <5> QED
          BY <5>5, <5>6
      <4>2. CASE e.pc # "done"
        BY <1>2, <1>8, <3>1, <4>2
      <4> QED
        BY <4>1, <4>2
    <3> QED
      BY <3>2, <3>3
  <2>2. CASE Acquires(r, e)
    <3>1. /\ streamActive' = IF Msg(req[r]).stream THEN [streamActive EXCEPT ![s0] = @ + 1]
                             ELSE streamActive
          /\ req[r].pc = "reading" /\ e.pc # "done"
      BY <2>2 DEF Acquires, Acquired
    <3>2. streamActive' \in [Sources -> Nat]
      BY <1>1, <1>2, <3>1
    <3>3. ASSUME NEW s \in Sources
          PROVE  streamActive'[s] = Cardinality(StreamHolders(s)')
      <4>1. streamActive'[s] = IF Msg(req[r]).stream /\ s0 = s
                               THEN streamActive[s] + 1 ELSE streamActive[s]
        BY <1>1, <1>2, <3>1
      <4> QED
        BY <1>2, <1>7, <1>8, <3>1, <4>1
    <3> QED
      BY <3>2, <3>3
  <2> QED
    BY <2>1, <2>2
<1> QED
  BY <1>9, <1>10 DEF SlotsHeldExactly, StreamHolders

-----------------------------------------------------------------------------
(***************************************************************************)
(* Every action keeps the invariant                                        *)
(***************************************************************************)

\* A cached address is private only for a route that allows it.
LEMMA CacheObeysPolicy ==
    ASSUME NEW allow, NEW host \in Hostnames, cache \in [Hostnames -> CacheEntries],
           cachedResolution(cache, host, allow) = "private"
    PROVE  allow
<1>1. cache[host] \in {"public", "private", "none", "rejected"}
  BY DEF CacheEntries, Addresses
<1> QED
  BY <1>1 DEF cachedResolution

\* So is an address that was looked up, and what is cached of a lookup is
\* an address or a rejection.
LEMMA LookupObeysPolicy ==
    ASSUME NEW allow, NEW addresses \in LookupResults
    PROVE  /\ pinnedEntry(addresses, allow) = "private" => allow
           /\ pinnedEntry(addresses, allow) \in Addresses \cup {"rejected", "unresolved"}
<1>1. PICK n \in 0..MaxAddresses : addresses \in [1..n -> Addresses]
  BY DEF LookupResults
<1>2. addresses # <<>> => n >= 1
  BY <1>1 DEF MaxAddresses
<1>3. addresses # <<>> => 1 \in DOMAIN addresses /\ addresses[1] \in Addresses
  BY <1>1, <1>2
<1> QED
  BY <1>3 DEF pinnedEntry

\* Every step of a request moves it, and keeps, gives back or takes its slots.
LEMMA ProgressMoves ==
    ASSUME Inv, NEW r \in Slots, Progress(r)
    PROVE  /\ \E e : Moves(r, e) /\ (Keeps(r, e) \/ Acquires(r, e))
           /\ cache' \in [Hostnames -> CacheEntries]
           /\ workload' = workload /\ config' = config
<1> DEFINE d == req[r]
<1>1. d \in Request /\ Sound(d) /\ cache \in [Hostnames -> CacheEntries]
  BY DEF Inv, TypeOK, RequestsSound
<1> USE DEF In
<1>2. ASSUME d.pc = "reading", NEW e, e = sendJsonError(d) \/ e = sendJsonError([d EXCEPT !.response = "closed"]),
             Set(r, e), releaseSlots(r)
      PROVE  Moves(r, e) /\ Keeps(r, e)
  <2>1. Goes(d, e)
    BY <1>1, <1>2, RefusedGoes
  <2>2. [d EXCEPT !.response = "closed"] \in Request
    BY <1>1 DEF Request
  <2>3. sendJsonError(d).pc = "done" /\ sendJsonError([d EXCEPT !.response = "closed"]).pc = "done"
    BY <1>1, <2>2, ErrorFields
  <2>4. e.pc = "done"
    BY <1>2, <2>3
  <2> QED
    BY <1>2, <2>1, <2>4 DEF Moves, Keeps, Held, Free
<1>3. CASE ReadFails(r)
  BY <1>1, <1>2, <1>3 DEF ReadFails
<1>4. CASE BodyRejected(r) \/ StreamRefused(r) \/ ProxyRefused(r)
  BY <1>1, <1>2, <1>4 DEF BodyRejected, StreamRefused, ProxyRefused
<1>5. CASE Forward(r)
  <2> DEFINE route == RouteOf(d)
             said  == cachedResolution(cache, route.host, route.allowPrivate)
             x     == [d EXCEPT !.pc = "fetching"]
             y     == [d EXCEPT !.pc = "fetching", !.pinned = said]
             z     == [d EXCEPT !.pc = "resolving"]
  <2>1. d.pc = "reading" /\ workload' = workload /\ config' = config
    BY <1>5 DEF Forward
  <2>2. r \in Held
    BY <2>1 DEF Held, Free
  <2>3. Goes(d, x) /\ Goes(d, z) /\ x.pc = "fetching" /\ z.pc = "resolving"
    <3>1. "public" \in Addresses
      BY DEF Addresses
    <3> QED
      BY <1>1, <2>1, <3>1, ForwardGoes DEF Request
  <2>4. ASSUME route.host \in Hostnames, said \in Addresses
        PROVE  Goes(d, y) /\ y.pc = "fetching"
    <3>1. said = "private" => route.allowPrivate
      BY <1>1, <2>4, CacheObeysPolicy
    <3> HIDE DEF said
    <3>2. y.pc = "fetching"
      BY <1>1 DEF Request
    <3> QED
      BY <1>1, <2>1, <2>4, <3>1, <3>2, ForwardGoes
  <2>5. CASE /\ Set(r, x) /\ streamActive' = Acquired(d) /\ UNCHANGED <<cache, parseActive>>
    BY <1>1, <2>1, <2>2, <2>3, <2>5 DEF Moves, Acquires
  <2>6. CASE /\ route.host \in Hostnames /\ said \in Addresses
             /\ Set(r, y) /\ streamActive' = Acquired(d) /\ UNCHANGED <<cache, parseActive>>
    <3>1. Moves(r, y) /\ Acquires(r, y)
      BY <2>1, <2>2, <2>4, <2>6 DEF Moves, Acquires
    <3> QED
      BY <1>1, <2>1, <2>6, <3>1
  <2>7. CASE Set(r, sendJsonError(d)) /\ releaseSlots(r) /\ UNCHANGED cache
    BY <1>1, <1>2, <2>1, <2>7
  <2>8. CASE /\ cache' = cacheBeforeLookup(cache, route.host, route.allowPrivate)
             /\ Set(r, z) /\ streamActive' = Acquired(d) /\ UNCHANGED parseActive
    <3>1. cache' \in [Hostnames -> CacheEntries]
      BY <1>1, <2>8 DEF cacheBeforeLookup, CacheEntries
    <3> QED
      BY <2>1, <2>2, <2>3, <2>8, <3>1 DEF Moves, Acquires
  <2> HIDE DEF said, x, y, z
  <2>9. \/ /\ Set(r, x) /\ streamActive' = Acquired(d) /\ UNCHANGED <<cache, parseActive>>
        \/ /\ route.host \in Hostnames /\ said \in Addresses
           /\ Set(r, y) /\ streamActive' = Acquired(d) /\ UNCHANGED <<cache, parseActive>>
        \/ Set(r, sendJsonError(d)) /\ releaseSlots(r) /\ UNCHANGED cache
        \/ /\ cache' = cacheBeforeLookup(cache, route.host, route.allowPrivate)
           /\ Set(r, z) /\ streamActive' = Acquired(d) /\ UNCHANGED parseActive
    BY <1>5 DEF Forward, said, x, y, z
  <2> QED
    BY <2>5, <2>6, <2>7, <2>8, <2>9
<1>6. CASE LookupAnswers(r)
  <2> DEFINE route == RouteOf(d)
  <2>1. PICK addresses \in LookupResults :
            LET pinned == pinnedEntry(addresses, route.allowPrivate)
            IN  /\ cache' = cacheAfterLookup(cache, route.host, pinned)
                /\ Set(r, IF pinned \in Addresses
                          THEN [d EXCEPT !.pc = "fetching", !.pinned = pinned]
                          ELSE sendJsonError(d))
    BY <1>6 DEF LookupAnswers
  <2> DEFINE pinned == pinnedEntry(addresses, route.allowPrivate)
             x      == [d EXCEPT !.pc = "fetching", !.pinned = pinned]
  <2>2. /\ d.pc = "resolving" /\ releaseSlots(r) /\ workload' = workload /\ config' = config
    BY <1>6 DEF LookupAnswers
  <2>3. /\ pinned = "private" => route.allowPrivate
        /\ pinned \in Addresses \cup {"rejected", "unresolved"}
    BY LookupObeysPolicy
  <2>4. cache' = cacheAfterLookup(cache, route.host, pinned)
    BY <2>1
  <2>5. Set(r, IF pinned \in Addresses THEN x ELSE sendJsonError(d))
    BY <2>1
  <2> HIDE DEF pinned
  <2>6. cache' \in [Hostnames -> CacheEntries]
    BY <1>1, <2>3, <2>4 DEF cacheAfterLookup, CacheEntries
  <2>7. pinned \in Addresses => Goes(d, x)
    BY <1>1, <2>2, <2>3, ForwardGoes
  <2>8. Goes(d, sendJsonError(d))
    BY <1>1, <2>2, RefusedGoes
  <2> HIDE DEF x
  <2> QED
    BY <2>2, <2>5, <2>6, <2>7, <2>8 DEF Moves, Keeps, Held, Free
<1>7. CASE FetchFails(r)
  BY <1>1, <1>7, RefusedGoes DEF FetchFails, Moves, Keeps, Held, Free
<1>8. CASE FetchResponds(r)
  <2>1. PICK failed \in BOOLEAN, declaredTooLarge \in BOOLEAN :
            LET x == [d EXCEPT !.upstream = "open", !.failed = failed]
            IN  Set(r, IF Msg(x).stream /\ ~failed
                       THEN [x EXCEPT !.pc = IF Translates(x) THEN "translating" ELSE "piping"]
                       ELSE IF declaredTooLarge THEN BufferDeclaredTooLarge(x)
                       ELSE [x EXCEPT !.pc = "buffering"])
    BY <1>8 DEF FetchResponds
  <2>2. d.pc = "fetching" /\ releaseSlots(r) /\ cache' = cache /\ workload' = workload /\ config' = config
    BY <1>8 DEF FetchResponds
  <2> DEFINE x == [d EXCEPT !.upstream = "open", !.failed = failed]
  <2>3. /\ \A pc \in {"translating", "piping", "buffering"} : Goes(d, [x EXCEPT !.pc = pc])
        /\ Goes(d, BufferDeclaredTooLarge(x))
    BY <1>1, <2>2, RespondsGoes
  <2>4. \/ Set(r, BufferDeclaredTooLarge(x))
        \/ \E pc \in {"translating", "piping", "buffering"} : Set(r, [x EXCEPT !.pc = pc])
    BY <2>1
  <2> HIDE DEF x
  <2>5. PICK e : Set(r, e) /\ Goes(d, e)
    BY <2>3, <2>4
  <2> QED
    BY <1>1, <2>2, <2>5 DEF Moves, Keeps, Held, Free
<1>9. CASE BufferEnds(r)
  <2>1. Goes(d, Undelivered(d))
    BY <1>1, <1>9, UndeliveredGoes DEF BufferEnds, Sound
  <2>2. Goes(d, sendBufferedResponse(d))
    BY <1>1, BufferedGoes
  <2> QED
    BY <1>1, <1>9, <2>1, <2>2 DEF BufferEnds, Moves, Keeps, Held, Free
<1>10. CASE Deliver(r)
  BY <1>1, <1>10, DeliveryGoes DEF Deliver, Moves, Keeps, Held, Free
<1> QED
  BY <1>3, <1>4, <1>5, <1>6, <1>7, <1>8, <1>9, <1>10 DEF Progress

\* The record of a request that was let in.
Started(capture, name, c) ==
    [Idle EXCEPT !.pc = "reading", !.response = "open", !.capture = capture,
                 !.msg = name, !.config = c]

\* It is sound, and holds no stream slot yet.
LEMMA StartedSound ==
    ASSUME NEW capture \in CaptureIds \cup {None}, NEW name \in DOMAIN Message, NEW c \in DOMAIN Config
    PROVE  LET new == Started(capture, name, c)
           IN  new \in Request /\ Sound(new) /\ new.pc = "reading" /\ new.pinned = "no" /\ new.msg = name
<1>1. Idle \in Request /\ Idle.body = "none" /\ Idle.upstream = "none" /\ ~Idle.sent
      /\ Idle.aborted = "no" /\ Idle.pinned = "no"
  BY DEF Idle, Request
<1> DEFINE new == [Idle EXCEPT !.pc = "reading", !.response = "open", !.capture = capture,
                               !.msg = name, !.config = c]
<1>2. new \in Request
  BY <1>1 DEF Request
<1>3. /\ new.pc = "reading" /\ new.response = "open" /\ new.msg = name /\ new.body = "none"
      /\ new.upstream = "none" /\ ~new.sent /\ new.aborted = "no" /\ new.pinned = "no"
  BY <1>1 DEF Request
<1> HIDE DEF new
<1>4. Sound(new)
  BY <1>3 DEF Sound
<1> QED
  BY <1>2, <1>3, <1>4 DEF new, Started

\* A request that was let in holds a parse slot and no stream slot.
LEMMA NewRequestKeepsInv ==
    ASSUME Inv, NEW name \in DOMAIN Message, NEW r \in Slots, Free(r),
           NEW capture \in CaptureIds \cup {None},
           parseActive' = parseActive + 1, streamActive' = streamActive,
           cache' = cache, workload' = workload, config' = config,
           req' = [req EXCEPT ![r] = Started(capture, name, config)]
    PROVE  Inv'
<1> DEFINE new == Started(capture, name, config)
<1>1. req' = [req EXCEPT ![r] = new]
  OBVIOUS
<1>2. config \in DOMAIN Config
  BY DEF Inv, TypeOK
<1>3. new \in Request /\ Sound(new) /\ new.pc = "reading" /\ new.pinned = "no" /\ new.msg = name
  BY <1>2, StartedSound
<1> HIDE DEF new
<1>4. /\ req' \in [Slots -> Request] /\ req'[r] = new /\ r \notin Held
      /\ \A q \in Slots \ {r} : req'[q] = req[q]
  BY <1>1, <1>3 DEF Inv, TypeOK, Held
<1>5. Held' = Held \cup {r} /\ Held \subseteq Slots
  BY <1>3, <1>4 DEF Held, Free
<1>6. TypeOK'
  BY <1>4 DEF Inv, TypeOK
<1>7. HeldHaveMessages'
  BY <1>3, <1>4, <1>5 DEF Inv, HeldHaveMessages
<1>8. RequestsSound'
  BY <1>3, <1>4 DEF Inv, RequestsSound
<1>9. PrivateOnlyIfAllowed'
  BY <1>3, <1>4 DEF Inv, PrivateOnlyIfAllowed
<1>10. SlotsHeldExactly'
  <2>1. parseActive' = Cardinality(Held')
    BY <1>4, <1>5, HeldFinite, FS_AddElement DEF Inv, SlotsHeldExactly
  <2>2. ASSUME NEW s \in Sources
        PROVE  StreamHolders(s)' = StreamHolders(s)
    <3>1. r \notin StreamHolders(s) /\ r \notin StreamHolders(s)'
      BY <1>3, <1>4 DEF StreamHolders, HasStreamSlot
    <3>2. \A q \in Slots \ {r} : q \in StreamHolders(s)' <=> q \in StreamHolders(s)
      BY <1>4, <1>5 DEF StreamHolders, HasStreamSlot, Msg
    <3>3. StreamHolders(s)' \subseteq Slots /\ StreamHolders(s) \subseteq Slots
      BY <1>5 DEF StreamHolders
    <3> HIDE DEF StreamHolders
    <3> QED
      BY <3>1, <3>2, <3>3
  <2>3. \A s \in Sources : streamActive'[s] = Cardinality(StreamHolders(s)')
    BY <2>2 DEF Inv, SlotsHeldExactly, StreamHolders
  <2> QED
    BY <2>1, <2>3 DEF SlotsHeldExactly, StreamHolders
<1> QED
  BY <1>6, <1>7, <1>8, <1>9, <1>10 DEF Inv

\* A step that leaves the requests and the counters alone keeps the invariant.
LEMMA RestKeepsInv ==
    ASSUME Inv, UNCHANGED <<req, parseActive, streamActive, workload>>,
           cache' \in [Hostnames -> CacheEntries], config' \in DOMAIN Config
    PROVE  Inv'
<1>1. TypeOK'
  BY DEF Inv, TypeOK
<1>2. Held' = Held
  BY DEF Held, Free
<1>3. HeldHaveMessages' /\ RequestsSound' /\ PrivateOnlyIfAllowed'
  BY <1>2 DEF Inv, HeldHaveMessages, RequestsSound, PrivateOnlyIfAllowed
<1>4. SlotsHeldExactly'
  BY <1>2 DEF Inv, SlotsHeldExactly
<1> QED
  BY <1>1, <1>3, <1>4 DEF Inv

\* What a message that arrives may do to the requests.
LEMMA ArrivalKeepsInv ==
    ASSUME Inv, NEW name \in Workload[workload].messages, Arrival(name)
    PROVE  Inv'
<1> DEFINE m == Message[name]
<1>1. name \in DOMAIN Message
  BY RequestPathAssumption DEF Inv, TypeOK
<1>2. CASE \/ HealthProbe(m) \/ FailedAuth(m) \/ NotFound(m) \/ RateLimited(m)
           \/ RuntimeConfigRead(m) \/ RuntimeInspectRead(m)
  <2>1. UNCHANGED <<req, parseActive, streamActive, workload, cache, config>>
    BY <1>2 DEF HealthProbe, FailedAuth, NotFound, RateLimited, RuntimeConfigRead,
                RuntimeInspectRead, Admits
  <2> QED
    BY <2>1, RestKeepsInv DEF Inv, TypeOK
<1>3. ASSUME NEW r \in Slots, DataPlaneRequest(name, r)
      PROVE  Inv'
  <2>1. UNCHANGED <<workload, config, cache, streamActive>> /\ Free(r)
    BY <1>3 DEF DataPlaneRequest, Admits
  <2>2. \/ UNCHANGED <<req, parseActive>>
        \/ \E capture \in CaptureIds \cup {None} :
               /\ parseActive' = parseActive + 1
               /\ req' = [req EXCEPT ![r] = Started(capture, name, config)]
    BY <1>3 DEF DataPlaneRequest, Started
  <2>3. CASE UNCHANGED <<req, parseActive>>
    BY <2>1, <2>3, RestKeepsInv DEF Inv, TypeOK
  <2>4. ASSUME NEW capture \in CaptureIds \cup {None},
               parseActive' = parseActive + 1,
               req' = [req EXCEPT ![r] = Started(capture, name, config)]
        PROVE  Inv'
    BY <1>1, <2>1, <2>4, NewRequestKeepsInv
  <2> QED
    BY <2>2, <2>3, <2>4
<1> QED
  BY <1>2, <1>3 DEF Arrival

\* The invariant holds initially ...
LEMMA InitInv == Init => Inv
<1> SUFFICES ASSUME Init PROVE Inv
  OBVIOUS
<1>1. Idle \in Request /\ Sound(Idle) /\ Idle.pc = "idle" /\ Idle.pinned = "no"
  BY DEF Idle, Request, Sound
<1>2. req \in [Slots -> Request] /\ \A r \in Slots : req[r] = Idle
  BY <1>1 DEF Init
<1>3. TypeOK
  BY <1>2, RequestPathAssumption DEF TypeOK, Init, CacheEntries
<1>4. Held = {}
  BY <1>1, <1>2 DEF Held, Free
<1>5. HeldHaveMessages /\ RequestsSound /\ PrivateOnlyIfAllowed
  BY <1>1, <1>2, <1>4 DEF HeldHaveMessages, RequestsSound, PrivateOnlyIfAllowed
<1>6. SlotsHeldExactly
  <2>1. Cardinality(Held) = 0 /\ \A s : Cardinality(StreamHolders(s)) = 0
    BY <1>4, FS_EmptySet DEF StreamHolders
  <2> QED
    BY <2>1 DEF Init, SlotsHeldExactly, StreamHolders
<1> QED
  BY <1>3, <1>5, <1>6 DEF Inv

\* ... and every step keeps it.
LEMMA NextKeepsInv == Inv /\ [Next]_vars => Inv'
<1> SUFFICES ASSUME Inv, [Next]_vars PROVE Inv'
  OBVIOUS
<1>1. ASSUME NEW name \in Workload[workload].messages, Arrival(name)
      PROVE  Inv'
  BY <1>1, ArrivalKeepsInv
<1>2. ASSUME NEW r \in Slots, Progress(r)
      PROVE  Inv'
  <2>1. PICK e : Moves(r, e) /\ (Keeps(r, e) \/ Acquires(r, e))
    BY <1>2, ProgressMoves
  <2>2. /\ cache' \in [Hostnames -> CacheEntries]
        /\ workload' = workload /\ config' = config
    BY <1>2, ProgressMoves
  <2>3. /\ req' \in [Slots -> Request]
        /\ HeldHaveMessages' /\ RequestsSound' /\ PrivateOnlyIfAllowed'
    BY <2>1, MoveKeepsRequests
  <2>4. /\ parseActive' \in Nat /\ streamActive' \in [Sources -> Nat]
        /\ SlotsHeldExactly'
    BY <2>1, MoveKeepsSlots
  <2> QED
    BY <2>2, <2>3, <2>4 DEF Inv, TypeOK
<1>3. CASE Tick \/ PruneTimerFires
  BY <1>3, RestKeepsInv DEF Tick, PruneTimerFires, Inv, TypeOK
<1>4. CASE Reload
  <2>1. config' \in DOMAIN Config
    BY <1>4, RequestPathAssumption DEF Reload, Inv, TypeOK
  <2> QED
    BY <1>4, <2>1, RestKeepsInv DEF Reload, Inv, TypeOK
<1>5. ASSUME NEW h \in Hostnames, CacheEntryExpires(h)
      PROVE  Inv'
  <2>1. cache' \in [Hostnames -> CacheEntries]
    BY <1>5 DEF CacheEntryExpires, Inv, TypeOK, CacheEntries
  <2> QED
    BY <1>5, <2>1, RestKeepsInv DEF CacheEntryExpires, Inv, TypeOK
<1>6. CASE UNCHANGED vars
  BY <1>6, RestKeepsInv DEF vars, Inv, TypeOK
<1> QED
  BY <1>1, <1>2, <1>3, <1>4, <1>5, <1>6 DEF Next

\* The invariant tells what the runs check.
LEMMA InvImplies ==
    Inv => UpstreamReleased /\ CleanEndIsComplete /\ SlotsHeldExactly /\ PrivateOnlyIfAllowed
<1>1. Inv => UpstreamReleased
  BY DEF Inv, RequestsSound, UpstreamReleased, Sound
<1>2. Inv => CleanEndIsComplete
  BY DEF Inv, RequestsSound, CleanEndIsComplete, Sound
<1> QED
  BY <1>1, <1>2 DEF Inv

\* The counters of handleGatewayProxyRequest are exactly the requests at work:
\* on no path out of the handler, and in no order of client and upstream
\* events, is a slot leaked or given back twice.
THEOREM SlotsExact == Spec => []SlotsHeldExactly
BY InitInv, NextKeepsInv, InvImplies, PTL DEF Spec

\* No request ends with its upstream body open, whatever ended it.
THEOREM BodiesReleased == Spec => []UpstreamReleased
BY InitInv, NextKeepsInv, InvImplies, PTL DEF Spec

\* A response that ends cleanly after part of a body was written carries the
\* whole body, unless the idle timeout ended it.
THEOREM CleanEnds == Spec => []CleanEndIsComplete
BY InitInv, NextKeepsInv, InvImplies, PTL DEF Spec

\* No request goes to a private address its own route does not allow, although
\* all routes, before and after a reload, share one resolution cache.
THEOREM EndpointPolicy == Spec => []PrivateOnlyIfAllowed
BY InitInv, NextKeepsInv, InvImplies, PTL DEF Spec

-----------------------------------------------------------------------------
(***************************************************************************)
(* Counting the entries of a log                                           *)
(***************************************************************************)
Logged(log, n) == UNION {{a} \X (1..log[a]) : a \in 0..(n - 1)}

Logs(window) == [0..(window - 1) -> Nat]

\* An interval from one has as many elements as its end says.
LEMMA IntervalCount ==
    ASSUME NEW n \in Nat
    PROVE  IsFiniteSet(1..n) /\ Cardinality(1..n) = n
BY FS_Interval

\* What the set is that Sum counts.
LEMMA LoggedElements ==
    ASSUME NEW log, NEW n
    PROVE  \A x : x \in Logged(log, n) <=>
               \E a \in 0..(n - 1), i \in Nat : i \in 1..log[a] /\ x = <<a, i>>
BY DEF Logged

\* The logged entries are finitely many.
LEMMA LoggedFinite ==
    ASSUME NEW w \in Nat, NEW log \in Logs(w), NEW n \in 0..w
    PROVE  /\ IsFiniteSet(Logged(log, n))
           /\ Sum(log, n) = Cardinality(Logged(log, n)) /\ Sum(log, n) \in Nat
<1> DEFINE rows == {{a} \X (1..log[a]) : a \in 0..(n - 1)}
           f == [a \in 0..(n - 1) |-> {a} \X (1..log[a])]
<1>1. IsFiniteSet(0..(n - 1))
  BY FS_Interval
<1>2. f \in Surjection(0..(n - 1), rows)
  BY DEF Surjection
<1>3. IsFiniteSet(rows)
  BY <1>1, <1>2, FS_Surjection
<1>4. ASSUME NEW T \in rows PROVE IsFiniteSet(T)
  <2>1. PICK a \in 0..(n - 1) : T = {a} \X (1..log[a])
    OBVIOUS
  <2>2. log[a] \in Nat
    BY DEF Logs
  <2>3. IsFiniteSet({a}) /\ IsFiniteSet(1..log[a])
    BY <2>2, FS_Singleton, IntervalCount
  <2> QED
    BY <2>1, <2>3, FS_Product
<1>5. IsFiniteSet(UNION rows)
  <2> HIDE DEF rows
  <2> QED
    BY <1>3, <1>4, FS_UNION
<1>6. Logged(log, n) = UNION rows
  BY DEF Logged
<1>7. Sum(log, n) = Cardinality(Logged(log, n))
  BY DEF Sum, Logged
<1> HIDE DEF rows
<1> QED
  BY <1>5, <1>6, <1>7, FS_CardinalityType

\* One row more counts what the row holds.
LEMMA SumNext ==
    ASSUME NEW w \in Nat, NEW log \in Logs(w), NEW n \in 0..(w - 1)
    PROVE  Sum(log, n + 1) = Sum(log, n) + log[n]
<1> DEFINE row == {n} \X (1..log[n])
<1>1. log[n] \in Nat
  BY DEF Logs
<1>2. IsFiniteSet(row) /\ Cardinality(row) = log[n]
  <2>1. IsFiniteSet({n}) /\ Cardinality({n}) = 1
    BY FS_Singleton
  <2>2. IsFiniteSet(1..log[n]) /\ Cardinality(1..log[n]) = log[n]
    BY <1>1, IntervalCount
  <2>3. IsFiniteSet(row) /\ Cardinality(row) = Cardinality({n}) * Cardinality(1..log[n])
    BY <2>1, <2>2, FS_Product
  <2> QED
    BY <1>1, <2>1, <2>2, <2>3
<1>3. Logged(log, n + 1) = Logged(log, n) \cup row
  <2>1. \A a : a \in 0..(n + 1 - 1) <=> (a \in 0..(n - 1) \/ a = n)
    OBVIOUS
  <2>2. \A x : x \in row <=> \E i \in 1..log[n] : x = <<n, i>>
    OBVIOUS
  <2> HIDE DEF row
  <2>3. \A x : x \in Logged(log, n + 1) <=> x \in Logged(log, n) \/ x \in row
    BY <2>1, <2>2, LoggedElements
  <2> QED
    BY <2>3
<1>4. Logged(log, n) \cap row = {}
  <2> SUFFICES ASSUME NEW x \in Logged(log, n), x \in row PROVE FALSE
    OBVIOUS
  <2>1. PICK a \in 0..(n - 1), i \in Nat : i \in 1..log[a] /\ x = <<a, i>>
    BY LoggedElements
  <2>2. PICK j \in 1..log[n] : x = <<n, j>>
    OBVIOUS
  <2> QED
    BY <2>1, <2>2
<1>5. /\ IsFiniteSet(Logged(log, n)) /\ Sum(log, n) = Cardinality(Logged(log, n))
      /\ Sum(log, n + 1) = Cardinality(Logged(log, n + 1)) /\ Sum(log, n) \in Nat
  BY LoggedFinite
<1> HIDE DEF row
<1>6. Cardinality(Logged(log, n) \cup row) =
          Cardinality(Logged(log, n)) + Cardinality(row) - Cardinality({})
  BY <1>2, <1>4, <1>5, FS_Union
<1> QED
  BY <1>1, <1>2, <1>3, <1>5, <1>6, FS_EmptySet

\* Nothing is younger than zero.
LEMMA SumNone == ASSUME NEW log PROVE Sum(log, 0) = 0
<1>1. Logged(log, 0) = {}
  BY DEF Logged
<1> QED
  BY <1>1, FS_EmptySet DEF Sum, Logged

\* An empty log counts zero.
LEMMA SumZero ==
    ASSUME NEW w \in Nat, NEW log \in Logs(w), NEW n \in 0..w, \A a \in 0..(w - 1) : log[a] = 0
    PROVE  Sum(log, n) = 0
<1>1. \A x : x \notin Logged(log, n)
  BY LoggedElements
<1>2. Logged(log, n) = {}
  BY <1>1
<1> QED
  BY <1>2, FS_EmptySet DEF Sum, Logged

\* The count grows with the age.
LEMMA SumMonotone ==
    ASSUME NEW w \in Nat, NEW log \in Logs(w), NEW n \in 0..w, NEW m \in 0..n
    PROVE  Sum(log, m) <= Sum(log, n)
<1>1. \A a : a \in 0..(m - 1) => a \in 0..(n - 1)
  OBVIOUS
<1>2. Logged(log, m) \subseteq Logged(log, n)
  BY <1>1, LoggedElements
<1> QED
  BY <1>2, LoggedFinite, FS_Subset

\* An entry of this instant is one entry more.
LEMMA SumIncrement ==
    ASSUME NEW w \in Nat, NEW log \in Logs(w), NEW n \in 1..w
    PROVE  LET new == [log EXCEPT ![0] = @ + 1]
           IN  new \in Logs(w) /\ Sum(new, n) = Sum(log, n) + 1
<1> DEFINE new == [log EXCEPT ![0] = @ + 1]
<1>1. new \in Logs(w) /\ log[0] \in Nat
  BY DEF Logs
<1>2. new[0] = log[0] + 1 /\ \A a \in 0..(n - 1) : a # 0 => new[a] = log[a]
  BY DEF Logs
<1>3. 0 \in 0..(n - 1)
  OBVIOUS
<1> HIDE DEF new
<1>4. \A i : i \in 1..new[0] <=> (i \in 1..log[0] \/ i = log[0] + 1)
  BY <1>1, <1>2
<1>5. \A x : x \in Logged(new, n) <=> (x \in Logged(log, n) \/ x = <<0, log[0] + 1>>)
  BY <1>2, <1>3, <1>4, LoggedElements
<1>6. Logged(new, n) = Logged(log, n) \cup {<<0, log[0] + 1>>}
  BY <1>5
<1>7. <<0, log[0] + 1>> \notin Logged(log, n)
  <2> SUFFICES ASSUME <<0, log[0] + 1>> \in Logged(log, n) PROVE FALSE
    OBVIOUS
  <2>1. PICK a \in 0..(n - 1), i \in Nat : i \in 1..log[a] /\ <<0, log[0] + 1>> = <<a, i>>
    BY LoggedElements
  <2> QED
    BY <1>1, <2>1
<1>8. /\ IsFiniteSet(Logged(log, n)) /\ Sum(log, n) = Cardinality(Logged(log, n))
      /\ Sum(new, n) = Cardinality(Logged(new, n))
  BY <1>1, LoggedFinite
<1>9. Sum(new, n) = Sum(log, n) + 1
  <2> DEFINE x == <<0, log[0] + 1>>
  <2>1. Logged(new, n) = Logged(log, n) \cup {x} /\ x \notin Logged(log, n)
    BY <1>6, <1>7
  <2> HIDE DEF x
  <2> QED
    BY <1>8, <2>1, FS_AddElement
<1> QED
  BY <1>1, <1>9 DEF new

\* Time moves every entry up by one and forgets those that leave the window.
LEMMA SumAged ==
    ASSUME NEW w \in Nat, NEW log \in Logs(w), NEW old \in Logs(w),
           NEW n \in 0..(w - 1), log[0] = 0, \A a \in 1..n : log[a] = old[a - 1]
    PROVE  Sum(log, n + 1) = Sum(old, n)
<1> DEFINE S == Logged(old, n)
           T == Logged(log, n + 1)
           f == [x \in S |-> <<x[1] + 1, x[2]>>]
<1>1. \A x \in S : \E a \in 0..(n - 1), i \in Nat : i \in 1..old[a] /\ x = <<a, i>> /\ f[x] = <<a + 1, i>>
  BY LoggedElements
<1>2. \A x \in T : \E a \in 0..n, i \in Nat : i \in 1..log[a] /\ x = <<a, i>>
  BY LoggedElements
<1>3. f \in [S -> T]
  <2> SUFFICES ASSUME NEW x \in S PROVE f[x] \in T
    OBVIOUS
  <2>1. PICK a \in 0..(n - 1), i \in Nat : i \in 1..old[a] /\ f[x] = <<a + 1, i>>
    BY <1>1
  <2>2. a + 1 \in 1..n /\ a + 1 \in 0..(n + 1 - 1) /\ (a + 1) - 1 = a
    OBVIOUS
  <2>3. log[a + 1] = old[a]
    BY <2>2
  <2> HIDE DEF f
  <2> QED
    BY <2>1, <2>2, <2>3, LoggedElements
<1>4. \A x, y \in S : f[x] = f[y] => x = y
  <2> SUFFICES ASSUME NEW x \in S, NEW y \in S, f[x] = f[y] PROVE x = y
    OBVIOUS
  <2>1. PICK a \in 0..(n - 1), i \in Nat : i \in 1..old[a] /\ x = <<a, i>> /\ f[x] = <<a + 1, i>>
    BY <1>1
  <2>2. PICK b \in 0..(n - 1), j \in Nat : j \in 1..old[b] /\ y = <<b, j>> /\ f[y] = <<b + 1, j>>
    BY <1>1
  <2> HIDE DEF f
  <2> QED
    BY <2>1, <2>2
<1>5. \A y \in T : \E x \in S : f[x] = y
  <2> SUFFICES ASSUME NEW y \in T PROVE \E x \in S : f[x] = y
    OBVIOUS
  <2>1. PICK a \in 0..n, i \in Nat : i \in 1..log[a] /\ y = <<a, i>>
    BY <1>2
  <2>2. a \in 1..n /\ i \in 1..old[a - 1] /\ a - 1 \in 0..(n - 1)
    BY <2>1
  <2>3. <<a - 1, i>> \in S
    BY <2>2, LoggedElements
  <2>4. f[<<a - 1, i>>] = y
    BY <2>1, <2>2, <2>3
  <2> QED
    BY <2>3, <2>4
<1>6. ExistsBijection(S, T)
  <2> HIDE DEF f, S, T
  <2> QED
    BY <1>3, <1>4, <1>5 
       DEF ExistsBijection, Bijection, Injection, IsInjective, Surjection
<1> HIDE DEF f, S, T
<1>7. IsFiniteSet(S) /\ Sum(old, n) = Cardinality(S) /\ Sum(log, n + 1) = Cardinality(T)
  BY LoggedFinite DEF S, T
<1> QED
  BY <1>6, <1>7, FS_Bijection

(***************************************************************************)
(* A fixed window and the log of its grants                                *)
(***************************************************************************)

\* The window started age ago, when its first grant was given: it has given
\* at most b, and those before it that are young enough to be logged are less
\* than b, because the first of them is not.
Paced(age, log, w, b) ==
    /\ age \in 0..w
    /\ age < w => /\ Sum(log, age + 1) <= b /\ log[age] >= 1
                  /\ Sum(log, w) <= Sum(log, age + 1) + b - 1
    /\ age = w => log[0] = 0 /\ Sum(log, w) <= b - 1

\* A window's length never holds two budgets.
LEMMA PacedBound ==
    ASSUME NEW m \in Nat, NEW log \in Logs(m), NEW w \in 1..m, NEW b \in Nat \ {0}, NEW age,
           Paced(age, log, w, b)
    PROVE  Sum(log, w) <= 2 * b - 1
<1>1. Sum(log, w) \in Nat
  BY LoggedFinite
<1>2. CASE age = w
  BY <1>1, <1>2 DEF Paced
<1>3. CASE age < w
  <2>1. age + 1 \in 0..m
    BY <1>3 DEF Paced
  <2>2. Sum(log, age + 1) \in Nat
    BY <2>1, LoggedFinite
  <2> QED
    BY <1>1, <1>3, <2>2 DEF Paced
<1> QED
  BY <1>2, <1>3 DEF Paced

\* Another grant of a window that has not given all.
LEMMA PacedGrant ==
    ASSUME NEW m \in Nat, NEW log \in Logs(m), NEW w \in 1..m, NEW b \in Nat \ {0}, NEW age,
           Paced(age, log, w, b), age < w, Sum(log, age + 1) < b
    PROVE  LET new == [log EXCEPT ![0] = @ + 1]
           IN  /\ new \in Logs(m) /\ Paced(age, new, w, b)
               /\ Sum(new, age + 1) = Sum(log, age + 1) + 1
<1> DEFINE new == [log EXCEPT ![0] = @ + 1]
<1>1. age \in 0..(w - 1) /\ age + 1 \in 1..m /\ w \in 1..m /\ age + 1 \in 0..m
  BY DEF Paced
<1>2. new \in Logs(m) /\ Sum(new, age + 1) = Sum(log, age + 1) + 1 /\ Sum(new, w) = Sum(log, w) + 1
  BY <1>1, SumIncrement
<1>3. new[age] >= 1
  <2>1. log[age] \in Nat /\ log[age] >= 1
    BY <1>1 DEF Logs, Paced
  <2>2. new[age] = IF age = 0 THEN log[0] + 1 ELSE log[age]
    BY <1>1 DEF Logs
  <2> QED
    BY <2>1, <2>2
<1>4. Sum(log, w) \in Nat /\ Sum(log, age + 1) \in Nat
  BY <1>1, LoggedFinite
<1> HIDE DEF new
<1>5. Paced(age, new, w, b)
  BY <1>1, <1>2, <1>3, <1>4 DEF Paced
<1> QED
  BY <1>2, <1>5 DEF new

\* The first grant of a window.
LEMMA PacedFresh ==
    ASSUME NEW m \in Nat, NEW log \in Logs(m), NEW w \in 1..m, NEW b \in Nat \ {0},
           log[0] = 0, Sum(log, w) <= b - 1
    PROVE  LET new == [log EXCEPT ![0] = @ + 1]
           IN  /\ new \in Logs(m) /\ Paced(0, new, w, b)
               /\ Sum(new, 1) = 1
<1> DEFINE new == [log EXCEPT ![0] = @ + 1]
<1>1. 1 \in 1..m /\ w \in 1..m
  OBVIOUS
<1>2. new \in Logs(m) /\ Sum(new, 1) = Sum(log, 1) + 1 /\ Sum(new, w) = Sum(log, w) + 1
  BY <1>1, SumIncrement
<1>3. Sum(log, 1) = 0
  <2>1. Sum(log, 0 + 1) = Sum(log, 0) + log[0]
    BY SumNext
  <2> QED
    BY <2>1, SumNone
<1>4. new[0] = 1
  BY DEF Logs
<1>5. Sum(log, w) \in Nat
  BY LoggedFinite
<1> HIDE DEF new
<1>6. Paced(0, new, w, b)
  <2>1. 0 \in 0..w /\ 0 < w /\ 0 + 1 = 1
    OBVIOUS
  <2>2. Sum(new, 1) = 1
    BY <1>2, <1>3
  <2>3. Sum(new, w) <= 1 + b - 1
    BY <1>2, <1>5
  <2> QED
    BY <1>4, <2>1, <2>2, <2>3 DEF Paced
<1> QED
  BY <1>2, <1>3, <1>6 DEF new

\* Time passes.
Aged(log, w) == [a \in DOMAIN log |-> IF a \in 1..(w - 1) THEN log[a - 1] ELSE 0]

\* A window gets older with its log.
LEMMA PacedAged ==
    ASSUME NEW m \in Nat, NEW log \in Logs(m), NEW w \in 1..m, NEW b \in Nat \ {0}, NEW age,
           Paced(age, log, w, b)
    PROVE  /\ Aged(log, w) \in Logs(m)
           /\ Paced(IF age < w THEN age + 1 ELSE age, Aged(log, w), w, b)
           /\ age + 1 < w => Sum(Aged(log, w), age + 2) = Sum(log, age + 1)
<1> DEFINE new == Aged(log, w)
<1>1. /\ new \in Logs(m) /\ new[0] = 0 /\ \A a \in 1..(w - 1) : new[a] = log[a - 1]
  <2>1. ASSUME NEW a \in 0..(m - 1)
        PROVE  /\ new[a] = IF a \in 1..(w - 1) THEN log[a - 1] ELSE 0
               /\ new[a] \in Nat
    BY DEF Logs, Aged
  <2>2. new \in Logs(m)
    BY <2>1 DEF Logs, Aged
  <2>3. new[0] = 0
    BY <2>1
  <2>4. \A a \in 1..(w - 1) : a \in 0..(m - 1)
    OBVIOUS
  <2> QED
    BY <2>1, <2>2, <2>3, <2>4
<1> HIDE DEF new
<1>2. ASSUME NEW n \in 0..(w - 1) PROVE Sum(new, n + 1) = Sum(log, n)
  <2>1. n \in 0..(m - 1) /\ \A a \in 1..n : new[a] = log[a - 1]
    BY <1>1
  <2> QED
    BY <1>1, <2>1, SumAged
<1>3. w - 1 \in 0..(w - 1) /\ w - 1 \in 0..(m - 1) /\ (w - 1) + 1 = w /\ w \in 0..m
  OBVIOUS
<1>4. Sum(new, w) = Sum(log, w - 1)
  BY <1>2, <1>3
<1>5. /\ Sum(log, w) = Sum(log, w - 1) + log[w - 1] /\ log[w - 1] \in Nat
      /\ Sum(log, w) \in Nat /\ Sum(log, w - 1) \in Nat
  BY <1>3, SumNext, LoggedFinite, SMTT(30) DEF Logs
<1>6. CASE age + 1 < w
  <2>1. /\ age + 1 \in 0..(w - 1) /\ age + 1 \in 1..(w - 1) /\ age + 1 \in 0..m
        /\ (age + 1) + 1 = age + 2 /\ (age + 1) - 1 = age /\ age < w
    BY <1>6 DEF Paced
  <2>2. Sum(new, age + 2) = Sum(log, age + 1)
    BY <1>2, <2>1
  <2>3. new[age + 1] = log[age]
    BY <1>1, <2>1
  <2>4. Sum(log, age + 1) \in Nat
    BY <2>1, LoggedFinite
  <2>5. /\ Sum(log, age + 1) <= b /\ log[age] >= 1 /\ Sum(log, w) <= Sum(log, age + 1) + b - 1
    BY <2>1 DEF Paced
  <2>6. Sum(new, w) <= Sum(new, age + 2) + b - 1
    BY <1>4, <1>5, <2>2, <2>4, <2>5
  <2>7. Paced(age + 1, new, w, b)
    BY <2>1, <2>2, <2>3, <2>5, <2>6 DEF Paced
  <2>8. (IF age < w THEN age + 1 ELSE age) = age + 1
    BY <2>1
  <2> QED
    BY <1>1, <2>2, <2>7, <2>8 DEF new
<1>7. CASE age + 1 = w
  <2>1. age = w - 1 /\ age < w
    BY <1>7 DEF Paced
  <2>2. Sum(log, w) <= b /\ log[w - 1] >= 1
    BY <1>3, <2>1 DEF Paced
  <2>3. Sum(new, w) <= b - 1
    BY <1>4, <1>5, <2>2
  <2>4. Paced(w, new, w, b)
    BY <1>1, <2>3 DEF Paced
  <2> QED
    BY <1>1, <1>7, <2>1, <2>4 DEF new
<1>8. CASE age = w
  <2>1. Sum(log, w) <= b - 1
    BY <1>8 DEF Paced
  <2>2. Sum(new, w) <= b - 1
    BY <1>4, <1>5, <2>1
  <2>3. Paced(w, new, w, b)
    BY <1>1, <2>2 DEF Paced
  <2> QED
    BY <1>1, <1>8, <2>3 DEF new
<1>9. age \in 0..w
  BY DEF Paced
<1> QED
  BY <1>6, <1>7, <1>8, <1>9

-----------------------------------------------------------------------------
(***************************************************************************)
(* The inspection store                                                    *)
(***************************************************************************)
StoreOK == store.captures \in Seq(Captures)

\* Nothing is bound, and a capture that leaves takes its binding with it.
Leaves(s, t) == t.bound \subseteq s.bound /\ StoredIds(s) \cap t.bound \subseteq StoredIds(t)

\* The body of the capture's own request is being read.
BodyRead(id) == \E r \in Slots : In(r, "reading") /\ req[r].capture = id

\* What the step from s to t leaves bound although it is not stored.
Late(s, t) ==
    \A id \in t.bound \ StoredIds(t) : id \notin StoredIds(s) /\ (id \in s.bound \/ BodyRead(id))

\* A set of naturals that has a member has a least one.
LEMMA LeastNatural ==
    ASSUME NEW K \in SUBSET Nat, K # {}
    PROVE  Min(K) \in K
<1>1. PICK m \in K : \A k \in K : <<k, m>> \notin OpToRel(<, Nat)
  BY WFMin, NatLessThanWellFounded, Zenon
<1>2. \A k \in K : ~(k < m)
  BY <1>1, Zenon DEF OpToRel
<1>3. \A k \in K : m <= k
  BY <1>2
<1> QED
  BY <1>3 DEF Min

\* prune keeps a tail of the captures.
LEMMA PruneKeeps ==
    ASSUME NEW s, s.captures \in Seq(Captures)
    PROVE  \E kept \in Seq(Captures) : prune(s) = KeepCaptures(s, kept)
<1> DEFINE all       == s.captures
           from(k)   == SubSeq(all, k, Len(all))
           within(k) == /\ \A i \in k..Len(all) : all[i].age <= CaptureTtl
                        /\ Len(from(k)) <= MaxCaptures
                        /\ StoreBytes(from(k)) <= MaxStoreBytes
           tails     == {k \in 1..(Len(all) + 1) : within(k)}
           first     == Min(tails)
<1>1. Len(all) \in Nat
  OBVIOUS
<1>2. from(Len(all) + 1) = <<>>
  BY <1>1
<1>3. StoreBytes(<<>>) = 0
  <2>1. {x \in (1..Len(<<>>)) \X (1..MaxExchanges) : x[2] <= <<>>[x[1]].exchanges} = {}
    OBVIOUS
  <2> QED
    BY <2>1, FS_EmptySet DEF StoreBytes
<1>4. within(Len(all) + 1)
  <2> DEFINE end == Len(all) + 1
  <2>1. \A i \in end..Len(all) : all[i].age <= CaptureTtl
    BY <1>1
  <2>2. Len(from(end)) = 0 /\ StoreBytes(from(end)) = 0
    <3>1. from(end) = <<>> /\ Len(<<>>) = 0
      BY <1>2
    <3> HIDE DEF from
    <3> QED
      BY <1>3, <3>1
  <2>3. MaxCaptures \in Nat /\ MaxStoreBytes \in Nat
    BY InspectionStoreAssumption
  <2> HIDE DEF from, end
  <2>4. Len(from(end)) <= MaxCaptures /\ StoreBytes(from(end)) <= MaxStoreBytes
    BY <2>2, <2>3
  <2>5. within(end)
    BY <2>1, <2>4
  <2> QED
    BY <2>5 DEF end
<1>5. tails # {} /\ tails \in SUBSET Nat
  BY <1>1, <1>4
<1>6. first \in 1..(Len(all) + 1)
  <2>1. first \in tails
    <3> HIDE DEF tails
    <3> QED
      BY <1>5, LeastNatural
  <2> QED
    BY <2>1
<1>7. prune(s) = KeepCaptures(s, from(first))
  BY DEF prune
<1> HIDE DEF first, within, tails
<1>8. from(first) \in Seq(Captures)
  BY <1>1, <1>6
<1> QED
  BY <1>7, <1>8

\* What is removed leaves with its bindings.
LEMMA KeepLeaves ==
    ASSUME NEW s, NEW kept \in Seq(Captures)
    PROVE  /\ Leaves(s, KeepCaptures(s, kept))
           /\ KeepCaptures(s, kept).captures = kept
BY DEF Leaves, KeepCaptures, StoredIds

\* The store after prune, allocate and consume.
LEMMA RemovalLeaves ==
    ASSUME NEW s, s.captures \in Seq(Captures), NEW id \in CaptureIds
    PROVE  /\ prune(s).captures \in Seq(Captures) /\ Leaves(s, prune(s))
           /\ allocate(s, id).captures \in Seq(Captures) /\ Leaves(s, allocate(s, id))
           /\ consume(s, id).captures \in Seq(Captures) /\ Leaves(s, consume(s, id))
<1> DEFINE p == prune(s)
<1>1. PICK kept \in Seq(Captures) : p = KeepCaptures(s, kept)
  BY PruneKeeps
<1>2. p.captures = kept /\ Leaves(s, p)
  BY <1>1, KeepLeaves
<1>3. allocate(s, id).captures \in Seq(Captures) /\ Leaves(s, allocate(s, id))
  <2> DEFINE new == [id |-> id, age |-> 0, exchanges |-> 0]
             t   == [captures |-> Append(kept, new), bound |-> p.bound]
  <2>1. new \in Captures
    BY InspectionStoreAssumption DEF Captures, MaxExchanges
  <2>2. allocate(s, id) = t
    BY <1>2 DEF allocate
  <2> HIDE DEF new, p
  <2>3. Append(kept, new) \in Seq(Captures)
    BY <2>1
  <2>4. StoredIds(p) \subseteq StoredIds(t)
    <3>1. \A i \in 1..Len(kept) : i \in 1..Len(Append(kept, new)) /\ Append(kept, new)[i] = kept[i]
      BY <2>1
    <3> QED
      BY <1>2, <3>1 DEF StoredIds
  <2>5. t.bound = p.bound /\ t.captures \in Seq(Captures)
    BY <2>3
  <2> HIDE DEF t
  <2>6. Leaves(s, t)
    BY <1>2, <2>4, <2>5 DEF Leaves
  <2> QED
    BY <2>2, <2>5, <2>6
<1>4. consume(s, id).captures \in Seq(Captures) /\ Leaves(s, consume(s, id))
  <2> DEFINE place == {i \in DOMAIN kept : kept[i].id = id}
             at    == CHOOSE i \in place : TRUE
             rest  == RemoveAt(kept, at)
  <2>1. CASE place = {}
    <3>1. consume(s, id) = p
      BY <1>2, <2>1 DEF consume
    <3> QED
      BY <1>2, <3>1
  <2>2. CASE place # {}
    <3>1. consume(s, id) = KeepCaptures(p, rest)
      BY <1>2, <2>2 DEF consume
    <3>2. at \in 1..Len(kept)
      BY <2>2
    <3> HIDE DEF at, place
    <3>3. rest \in Seq(Captures)
      BY <3>2 DEF RemoveAt
    <3> HIDE DEF rest, p
    <3>4. Leaves(p, KeepCaptures(p, rest)) /\ KeepCaptures(p, rest).captures = rest
      BY <3>3, KeepLeaves
    <3>5. KeepCaptures(p, rest).bound \subseteq p.bound
      BY DEF KeepCaptures
    <3>6. Leaves(s, KeepCaptures(p, rest))
      BY <1>2, <3>4, <3>5 DEF Leaves
    <3> QED
      BY <3>1, <3>3, <3>4, <3>6
  <2> QED
    BY <2>1, <2>2
<1> QED
  BY <1>2, <1>3, <1>4

\* The store keeps its captures.
Same(s, t) == t.captures \in Seq(Captures) /\ StoredIds(t) = StoredIds(s)

\* Ageing, recording and binding change no capture's id, and only binding
\* binds one.
LEMMA RecordingSame ==
    ASSUME NEW s, s.captures \in Seq(Captures), NEW id
    PROVE  /\ Same(s, AgeStore(s)) /\ Same(s, recordExchange(s, id))
           /\ Same(s, recordByRequestId(s, id))
           /\ Same(s, bindInvokeInspectionCaptureToRequestId(s, id))
           /\ AgeStore(s).bound = s.bound /\ recordByRequestId(s, id).bound = s.bound
           /\ recordExchange(s, id).bound = s.bound
           /\ bindInvokeInspectionCaptureToRequestId(s, id).bound = s.bound \cup {id}
<1> DEFINE c == s.captures
<1>1. ASSUME NEW f, f = [i \in 1..Len(c) |-> f[i]],
             \A i \in 1..Len(c) : f[i] \in Captures /\ f[i].id = c[i].id,
             NEW t, t.captures = f
      PROVE  Same(s, t)
  <2>1. f \in [1..Len(c) -> Captures] /\ DOMAIN f = 1..Len(c)
    BY <1>1, Zenon
  <2>2. Len(c) \in Nat
    OBVIOUS
  <2> HIDE DEF c
  <2>3. f \in Seq(Captures) /\ Len(f) = Len(c)
    BY <2>1, <2>2, SMTT(30)
  <2> QED
    BY <1>1, <2>3 DEF Same, StoredIds, c
<1>2. Same(s, AgeStore(s))
  <2> DEFINE f == [i \in 1..Len(c) |-> [c[i] EXCEPT !.age = IF @ <= CaptureTtl THEN @ + 1 ELSE @]]
  <2>1. ASSUME NEW i \in 1..Len(c) PROVE f[i] \in Captures /\ f[i].id = c[i].id
    <3>1. c[i] \in Captures
      OBVIOUS
    <3> DEFINE age == IF c[i].age <= CaptureTtl THEN c[i].age + 1 ELSE c[i].age
               x   == c[i]
    <3>2. age \in 0..(CaptureTtl + 1)
      <4>1. c[i].age \in 0..(CaptureTtl + 1) /\ CaptureTtl \in Nat
        BY <3>1, InspectionStoreAssumption DEF Captures
      <4> HIDE DEF c
      <4> QED
        BY <4>1
    <3>3. f[i] = [x EXCEPT !.age = age]
      OBVIOUS
    <3> HIDE DEF f, age, x
    <3>4. x \in Captures
      BY <3>1 DEF x
    <3>5. f[i] \in Captures /\ f[i].id = x.id
      BY <3>2, <3>3, <3>4 DEF Captures
    <3> QED
      BY <3>5 DEF x
  <2>2. AgeStore(s).captures = f
    BY DEF AgeStore
  <2>3. f = [i \in 1..Len(c) |-> f[i]]
    OBVIOUS
  <2> HIDE DEF f
  <2> QED
    BY <1>1, <2>1, <2>2, <2>3
<1>3. Same(s, recordExchange(s, id))
  <2> DEFINE f == [i \in 1..Len(c) |-> IF c[i].id = id /\ c[i].exchanges < MaxExchanges
                                       THEN [c[i] EXCEPT !.exchanges = @ + 1] ELSE c[i]]
  <2>1. ASSUME NEW i \in 1..Len(c) PROVE f[i] \in Captures /\ f[i].id = c[i].id
    <3>1. c[i] \in Captures
      OBVIOUS
    <3> QED
      BY <3>1 DEF Captures, MaxExchanges
  <2>2. recordExchange(s, id).captures = f
    BY DEF recordExchange
  <2>3. f = [i \in 1..Len(c) |-> f[i]]
    OBVIOUS
  <2> HIDE DEF f
  <2> QED
    BY <1>1, <2>1, <2>2, <2>3
<1>4. Same(s, s)
  BY DEF Same
<1>5. Same(s, recordByRequestId(s, id))
  BY <1>3, <1>4 DEF recordByRequestId
<1>6. Same(s, bindInvokeInspectionCaptureToRequestId(s, id))
  BY DEF Same, StoredIds, bindInvokeInspectionCaptureToRequestId
<1>7. /\ AgeStore(s).bound = s.bound /\ recordExchange(s, id).bound = s.bound
      /\ recordByRequestId(s, id).bound = s.bound
      /\ bindInvokeInspectionCaptureToRequestId(s, id).bound = s.bound \cup {id}
  BY DEF AgeStore, recordExchange, recordByRequestId, bindInvokeInspectionCaptureToRequestId
<1> QED
  BY <1>2, <1>3, <1>5, <1>6, <1>7

\* Every step keeps the store's type, and binds what is not stored only while
\* the body of its request is read.
LEMMA StoreStep == StoreOK /\ [Next]_vars => StoreOK' /\ Late(store, store')
<1> SUFFICES ASSUME StoreOK, [Next]_vars PROVE StoreOK' /\ Late(store, store')
  OBVIOUS
<1>1. ASSUME Same(store, store'), \A id \in store'.bound \ store.bound : BodyRead(id)
      PROVE  StoreOK' /\ Late(store, store')
  BY <1>1 DEF Same, StoreOK, Late
<1>2. ASSUME store' = store PROVE StoreOK' /\ Late(store, store')
  BY <1>2 DEF StoreOK, Late
<1>3. ASSUME NEW s, s.captures \in Seq(Captures), NEW d
      PROVE  /\ Same(s, Recorded(s, d)) /\ Same(s, Bound(s, d)) /\ Same(s, RecordedByRequest(s, d))
             /\ Recorded(s, d).bound = s.bound /\ RecordedByRequest(s, d).bound = s.bound
             /\ Bound(s, d).bound \subseteq s.bound \cup {d.capture}
  <2>1. Same(s, s)
    BY <1>3 DEF Same
  <2>2. CASE d.capture = None
    BY <2>1, <2>2 DEF Recorded, Bound, RecordedByRequest
  <2>3. CASE d.capture # None
    BY <1>3, <2>3, RecordingSame DEF Recorded, Bound, RecordedByRequest
  <2> QED
    BY <2>2, <2>3
<1>4. \A s, t, u : Same(s, t) /\ Same(t, u) => Same(s, u)
  BY DEF Same
<1>5. \A s, t : Same(s, t) => t.captures \in Seq(Captures)
  BY DEF Same
<1>6. ASSUME NEW r \in Slots, Progress(r) PROVE StoreOK' /\ Late(store, store')
  <2> DEFINE d == req[r]
  <2>1. CASE ReadFails(r) \/ LookupAnswers(r) \/ FetchFails(r) \/ FetchResponds(r) \/ Deliver(r)
    BY <1>2, <2>1 DEF ReadFails, LookupAnswers, FetchFails, FetchResponds, Deliver
  <2>2. CASE BodyRejected(r) \/ StreamRefused(r)
    <3>1. store' = Recorded(store, d)
      BY <2>2 DEF BodyRejected, StreamRefused
    <3>2. Same(store, store') /\ store'.bound = store.bound
      BY <1>3, <3>1 DEF StoreOK
    <3> QED
      BY <1>1, <3>2
  <2> DEFINE s1 == Recorded(store, d)
             s2 == Bound(s1, d)
             s3 == RecordedByRequest(s2, d)
  <2>3. /\ Same(store, s2) /\ Same(store, s3)
        /\ s2.bound \subseteq store.bound \cup {d.capture}
        /\ s3.bound \subseteq store.bound \cup {d.capture}
    <3>1. Same(store, s1) /\ s1.captures \in Seq(Captures) /\ s1.bound = store.bound
      BY <1>3, <1>5 DEF StoreOK
    <3> HIDE DEF s1
    <3>2. /\ Same(s1, s2) /\ s2.captures \in Seq(Captures)
          /\ s2.bound \subseteq s1.bound \cup {d.capture}
      BY <1>3, <1>5, <3>1
    <3> HIDE DEF s2
    <3>3. Same(s2, s3) /\ s3.bound = s2.bound
      BY <1>3, <3>2
    <3> HIDE DEF s3
    <3> QED
      BY <1>4, <3>1, <3>2, <3>3
  <2>4. CASE ProxyRefused(r) \/ Forward(r)
    <3>1. (store' = s2 \/ store' = s3) /\ In(r, "reading")
      BY <2>4 DEF ProxyRefused, Forward
    <3>2. BodyRead(d.capture)
      BY <3>1 DEF BodyRead
    <3> HIDE DEF s1, s2, s3, d
    <3> QED
      BY <1>1, <2>3, <3>1, <3>2
  <2>6. CASE BufferEnds(r)
    <3> DEFINE t1 == RecordedByRequest(store, d)
               t2 == RecordedByRequest(t1, d)
    <3>1. Same(store, t1) /\ t1.captures \in Seq(Captures) /\ t1.bound = store.bound
      BY <1>3, <1>5 DEF StoreOK
    <3>2. store' = t1 \/ store' = t2
      BY <2>6 DEF BufferEnds
    <3> HIDE DEF t1
    <3>3. Same(t1, t2) /\ t2.bound = t1.bound
      BY <1>3, <3>1
    <3> HIDE DEF t2
    <3> QED
      BY <1>1, <1>4, <3>1, <3>2, <3>3
  <2> QED
    BY <1>6, <2>1, <2>2, <2>4, <2>6 DEF Progress
<1>7. ASSUME NEW id \in CaptureIds, store' \in {prune(store), allocate(store, id), consume(store, id)}
      PROVE  StoreOK' /\ Late(store, store')
  BY <1>7, RemovalLeaves DEF StoreOK, Leaves, Late
<1>8. ASSUME store' = prune(store) PROVE StoreOK' /\ Late(store, store')
  <2>1. PICK kept \in Seq(Captures) : prune(store) = KeepCaptures(store, kept)
    BY PruneKeeps DEF StoreOK
  <2> QED
    BY <1>8, <2>1, KeepLeaves DEF StoreOK, Leaves, Late
<1>9. ASSUME NEW name, Arrival(name) PROVE StoreOK' /\ Late(store, store')
  <2> DEFINE m == Message[name]
  <2>1. CASE HealthProbe(m) \/ FailedAuth(m) \/ NotFound(m) \/ RateLimited(m) \/ RuntimeConfigRead(m)
    BY <1>2, <2>1 DEF HealthProbe, FailedAuth, NotFound, RateLimited, RuntimeConfigRead
  <2>2. CASE RuntimeInspectRead(m)
    <3>1. \/ store' = store \/ store' = prune(store)
          \/ \E id \in StoredIds(store) : store' = consume(store, id)
      BY <2>2 DEF RuntimeInspectRead
    <3>2. ASSUME NEW id \in StoredIds(store) PROVE id \in CaptureIds
      <4>1. PICK i \in 1..Len(store.captures) : id = store.captures[i].id
        BY DEF StoredIds
      <4>2. store.captures[i] \in Captures
        BY DEF StoreOK
      <4> QED
        BY <4>1, <4>2 DEF Captures
    <3> QED
      BY <1>2, <1>7, <1>8, <3>1, <3>2
  <2>3. ASSUME NEW r \in Slots, DataPlaneRequest(name, r)
        PROVE  StoreOK' /\ Late(store, store')
    <3>1. store' = store \/ \E id \in CaptureIds : store' = allocate(store, id)
      BY <2>3 DEF DataPlaneRequest
    <3> QED
      BY <1>2, <1>7, <3>1
  <2> QED
    BY <1>9, <2>1, <2>2, <2>3 DEF Arrival
<1>10. CASE Tick
  <2>1. store' = AgeStore(store)
    BY <1>10 DEF Tick
  <2>2. Same(store, store') /\ store'.bound = store.bound
    BY <2>1, RecordingSame DEF StoreOK
  <2> QED
    BY <1>1, <2>2
<1>11. CASE PruneTimerFires
  BY <1>8, <1>11 DEF PruneTimerFires
<1>12. CASE Reload \/ (\E h \in Hostnames : CacheEntryExpires(h)) \/ UNCHANGED vars
  BY <1>2, <1>12 DEF Reload, CacheEntryExpires, vars
<1> QED
  BY <1>6, <1>9, <1>10, <1>11, <1>12 DEF Next

\* Whatever removes a capture from the inspection store - its age, a newer
\* capture, the store's size or its reader - removes its request binding too,
\* and a capture that is not stored is bound only by its own request, at the
\* end of its body.
THEOREM BindingsLeave == Spec => BindingsLeaveWithCaptures
<1>1. Init => StoreOK
  BY DEF Init, StoreOK, EmptyStore
<1>2. StoreOK /\ [Next]_vars =>
          [\A id \in store'.bound \ StoredIds(store') :
               /\ id \notin StoredIds(store)
               /\ \/ id \in store.bound
                  \/ \E r \in Slots : In(r, "reading") /\ req[r].capture = id]_vars
  BY StoreStep DEF Late, BodyRead
<1> QED
  BY <1>1, <1>2, StoreStep, PTL DEF Spec, BindingsLeaveWithCaptures

-----------------------------------------------------------------------------
(***************************************************************************)
(* The failed-auth limiter                                                 *)
(***************************************************************************)

\* How an entry and the wrong tokens its source was told of belong together.
AuthTracked(e, log) ==
    /\ e.source \in Sources
    /\ e.age \in 0..AuthWindow /\ e.idle \in Nat /\ e.count \in Nat \ {0}
    /\ e.age < AuthWindow => e.idle <= e.age
    /\ Threshold >= 2 =>
           /\ Paced(e.age, log, AuthWindow, Threshold - 1)
           /\ e.age < AuthWindow =>
                  Sum(log, e.age + 1) = IF e.count < Threshold THEN e.count ELSE Threshold - 1

NoEntry(log, w) == \A a \in 0..(w - 1) : log[a] = 0

AuthInv ==
    /\ IsFiniteSet(auth) /\ Cardinality(auth) <= AuthMaxEntries
    /\ guesses \in [Sources -> Logs(AuthWindow)]
    /\ \A e \in auth : AuthTracked(e, guesses[e.source])
    /\ \A q \in Sources \ FailedSources(auth) : NoEntry(guesses[q], AuthWindow)

\* The entries pruneExpiredEntries does not drop.
Live(entries) == {e \in entries : isEntryBlocked(e) \/ ~isEntryWindowDrained(e)}

\* pruneExpiredEntries leaves a Map within its limit, and it evicts a source
\* that is locked out only if all that stay are.
LEMMA PruneAuth ==
    ASSUME NEW entries, IsFiniteSet(entries), Cardinality(entries) <= AuthMaxEntries + 1,
           NEW after \in pruneExpiredEntries(entries)
    PROVE  /\ after \subseteq entries /\ IsFiniteSet(after) /\ Cardinality(after) <= AuthMaxEntries
           /\ \A e \in entries : e \notin after /\ isEntryBlocked(e) => \A f \in after : isEntryBlocked(f)
           /\ Cardinality(entries) <= AuthMaxEntries => after = Live(entries)
<1> DEFINE kept == Live(entries)
<1>1. AuthMaxEntries \in Nat
  BY AuthLimiterAssumption
<1>2. /\ kept \subseteq entries /\ IsFiniteSet(kept) /\ Cardinality(kept) <= Cardinality(entries)
      /\ Cardinality(kept) \in Nat /\ Cardinality(entries) \in Nat
  <2>1. kept \subseteq entries
    BY DEF Live
  <2> QED
    BY <2>1, FS_Subset, FS_CardinalityType
<1>3. \A e \in entries : isEntryBlocked(e) => e \in kept
  BY DEF Live
<1>4. CASE Cardinality(kept) <= AuthMaxEntries
  <2>1. after = kept
    BY <1>4 DEF pruneExpiredEntries, Live
  <2> HIDE DEF kept
  <2> QED
    BY <1>2, <1>3, <1>4, <2>1 DEF kept
<1>5. CASE ~(Cardinality(kept) <= AuthMaxEntries)
  <2>1. PICK x \in selectEvictionCandidate(kept) : after = kept \ {x}
    BY <1>5 DEF pruneExpiredEntries, Live
  <2>2. x \in kept /\ \A f \in kept : compareEvictionCandidates(x, f)
    BY <2>1 DEF selectEvictionCandidate
  <2>3. isEntryBlocked(x) => \A f \in kept : isEntryBlocked(f)
    <3>1. ASSUME NEW e
          PROVE  /\ isEntryBlocked(e) => evictionPriority(e) = 2
                 /\ ~isEntryBlocked(e) => evictionPriority(e) \in {0, 1}
      <4>1. CASE isEntryBlocked(e)
        BY <4>1 DEF evictionPriority
      <4>2. CASE ~isEntryBlocked(e) /\ isEntryWindowDrained(e)
        BY <4>2 DEF evictionPriority
      <4>3. CASE ~isEntryBlocked(e) /\ ~isEntryWindowDrained(e)
        BY <4>3 DEF evictionPriority
      <4> QED
        BY <4>1, <4>2, <4>3
    <3>2. ASSUME isEntryBlocked(x), NEW f \in kept PROVE isEntryBlocked(f)
      <4>1. evictionPriority(x) < evictionPriority(f) \/ evictionPriority(x) = evictionPriority(f)
        BY <2>2, <3>2 DEF compareEvictionCandidates
      <4> QED
        BY <3>1, <3>2, <4>1
    <3> QED
      BY <3>2
  <2> HIDE DEF kept
  <2>4. IsFiniteSet(after) /\ Cardinality(after) = Cardinality(kept) - 1
    BY <1>2, <2>1, <2>2, FS_RemoveElement
  <2>5. \A e \in entries : e \notin after /\ isEntryBlocked(e) => \A f \in after : isEntryBlocked(f)
    BY <1>3, <2>1, <2>3
  <2>6. Cardinality(after) <= AuthMaxEntries /\ ~(Cardinality(entries) <= AuthMaxEntries)
    BY <1>1, <1>2, <1>5, <2>4
  <2>7. after \subseteq entries
    BY <1>2, <2>1
  <2> QED
    BY <2>4, <2>5, <2>6, <2>7
<1> QED
  BY <1>4, <1>5

\* The log of a source after a failure that was counted as c.
LogAfter(c, log) == IF c.count >= Threshold THEN log ELSE [log EXCEPT ![0] = @ + 1]

\* The source's entry after one more failure.
LEMMA CountedTracked ==
    ASSUME AuthInv, NEW q \in Sources
    PROVE  LET c == Counted(Live(auth), q)
           IN  /\ c.source = q
               /\ LogAfter(c, guesses[q]) \in Logs(AuthWindow)
               /\ AuthTracked(c, LogAfter(c, guesses[q]))
<1> DEFINE mine == {e \in Live(auth) : e.source = q /\ e.age < AuthWindow}
           base == IF mine = {} THEN createEntry(q) ELSE CHOOSE e \in mine : TRUE
           n    == IF base.count < MaxCount THEN base.count + 1 ELSE MaxCount
           c    == Counted(Live(auth), q)
           log  == guesses[q]
           new  == [log EXCEPT ![0] = @ + 1]
<1> SUFFICES /\ c.source = q /\ LogAfter(c, log) \in Logs(AuthWindow)
             /\ AuthTracked(c, LogAfter(c, log))
  OBVIOUS
<1>1. c.source = q /\ c.age = base.age /\ c.count = n /\ c.idle = 0
  BY DEF Counted
<1>2. /\ AuthWindow \in Nat \ {0} /\ Threshold \in Nat \ {0} /\ MaxCount \in Nat /\ MaxCount > Threshold
  BY AuthLimiterAssumption DEF MaxCount
<1>3. log \in Logs(AuthWindow)
  BY DEF AuthInv
<1>4. new \in Logs(AuthWindow) /\ AuthWindow \in 1..AuthWindow
  BY <1>2, <1>3, SumIncrement
<1>5. LogAfter(c, log) = IF n >= Threshold THEN log ELSE new
  BY <1>1 DEF LogAfter
<1> HIDE DEF new, c
<1>6. CASE mine # {}
  <2>1. base \in mine
    BY <1>6
  <2>2. base \in auth /\ base.source = q /\ base.age < AuthWindow
    BY <2>1 DEF Live
  <2> HIDE DEF base, mine
  <2>3. AuthTracked(base, log)
    BY <2>2 DEF AuthInv
  <2>4. base.age \in 0..AuthWindow /\ base.count \in Nat \ {0}
    BY <2>3 DEF AuthTracked
  <2>5. n \in Nat \ {0} /\ (n >= Threshold <=> base.count >= Threshold - 1)
        /\ (n < Threshold => n = base.count + 1)
    BY <1>2, <2>4
  <2>6. CASE Threshold < 2
    <3>1. n >= Threshold
      BY <1>2, <2>5, <2>6
    <3> QED
      BY <1>1, <1>2, <1>3, <1>5, <2>2, <2>4, <2>5, <2>6, <3>1 DEF AuthTracked
  <2>7. CASE Threshold >= 2
    <3> DEFINE b == Threshold - 1
    <3>1. b \in Nat \ {0}
      BY <1>2, <2>7
    <3>2. /\ Paced(base.age, log, AuthWindow, b)
          /\ Sum(log, base.age + 1) = IF base.count < Threshold THEN base.count ELSE Threshold - 1
      BY <2>2, <2>3, <2>7 DEF AuthTracked
    <3>3. CASE n >= Threshold
      <4>1. Sum(log, base.age + 1) = Threshold - 1
        BY <1>2, <2>4, <2>5, <3>2, <3>3
      <4> QED
        BY <1>1, <1>2, <1>3, <1>5, <2>2, <2>4, <2>5, <3>2, <3>3, <4>1 DEF AuthTracked
    <3>4. CASE n < Threshold
      <4>1. Sum(log, base.age + 1) = base.count /\ base.count < b
        BY <1>2, <2>4, <2>5, <3>2, <3>4
      <4>2. Paced(base.age, new, AuthWindow, b) /\ Sum(new, base.age + 1) = Sum(log, base.age + 1) + 1
        <5> HIDE DEF b
        <5> QED
          BY <1>3, <1>4, <1>2, <2>2, <3>1, <3>2, <4>1, PacedGrant DEF new
      <4>3. ~(n >= Threshold)
        BY <1>2, <2>5, <3>4
      <4> QED
        BY <1>1, <1>2, <1>4, <1>5, <2>2, <2>4, <2>5, <3>4, <4>1, <4>2, <4>3 DEF AuthTracked
    <3> QED
      BY <1>2, <2>5, <3>3, <3>4
  <2> QED
    BY <1>2, <2>6, <2>7
<1>7. CASE mine = {}
  <2>1. base.age = 0 /\ base.count = 0 /\ n = 1
    BY <1>2, <1>7 DEF createEntry
  <2> HIDE DEF base, n
  <2>2. CASE Threshold < 2
    BY <1>1, <1>2, <1>3, <1>5, <2>1, <2>2 DEF AuthTracked
  <2>3. CASE Threshold >= 2
    <3>1. log[0] = 0 /\ Sum(log, AuthWindow) <= Threshold - 2
      <4>1. CASE q \notin FailedSources(auth)
        <5>1. NoEntry(log, AuthWindow)
          BY <4>1 DEF AuthInv
        <5>2. Sum(log, AuthWindow) = 0
          BY <1>2, <1>3, <5>1, SumZero DEF NoEntry
        <5> QED
          BY <1>2, <2>3, <5>1, <5>2 DEF NoEntry
      <4>2. CASE q \in FailedSources(auth)
        <5>1. PICK e \in auth : e.source = q
          BY <4>2 DEF FailedSources
        <5>2. AuthTracked(e, log)
          BY <5>1 DEF AuthInv
        <5>3. e.age \in 0..AuthWindow /\ e.idle \in Nat /\ (e.age < AuthWindow => e.idle <= e.age)
          BY <5>2 DEF AuthTracked
        <5>4. e.age = AuthWindow
          <6> SUFFICES ASSUME e.age # AuthWindow PROVE FALSE
            OBVIOUS
          <6>1. e.age < AuthWindow /\ ~(e.idle > AuthWindow)
            BY <1>2, <5>3
          <6> QED
            BY <1>7, <5>1, <6>1 DEF Live, isEntryWindowDrained
        <5> QED
          BY <1>2, <2>3, <5>2, <5>4 DEF AuthTracked, Paced
      <4> QED
        BY <4>1, <4>2
    <3> DEFINE b == Threshold - 1
    <3>2. b \in Nat \ {0} /\ b - 1 = Threshold - 2
      BY <1>2, <2>3
    <3>3. Paced(0, new, AuthWindow, b) /\ Sum(new, 1) = 1
      <4> HIDE DEF b
      <4> QED
        BY <1>2, <1>3, <1>4, <3>1, <3>2, PacedFresh DEF new
    <3> QED
      BY <1>1, <1>2, <1>4, <1>5, <2>1, <2>3, <3>3 DEF AuthTracked
  <2> QED
    BY <1>2, <2>2, <2>3
<1> QED
  BY <1>6, <1>7

\* What a limiter forgets with an entry is the log of that entry alone.
LEMMA Forgotten ==
    ASSUME NEW keys, NEW w \in Nat, NEW log \in [keys -> Logs(w)], NEW kept
    PROVE  /\ Forget(log, kept) \in [keys -> Logs(w)]
           /\ \A k \in keys \cap kept : Forget(log, kept)[k] = log[k]
           /\ \A k \in keys \ kept : NoEntry(Forget(log, kept)[k], w)
<1> DEFINE new == Forget(log, kept)
<1>1. DOMAIN new = keys /\ new = [k \in keys |-> new[k]]
  BY DEF Forget
<1>2. ASSUME NEW k \in keys
      PROVE  /\ new[k] \in Logs(w) /\ (k \in kept => new[k] = log[k])
             /\ (k \notin kept => NoEntry(new[k], w))
  <2>1. log[k] \in Logs(w) /\ DOMAIN log[k] = 0..(w - 1)
    BY DEF Logs
  <2>2. new[k] = IF k \in kept THEN log[k] ELSE [a \in 0..(w - 1) |-> 0]
    BY <2>1 DEF Forget
  <2> HIDE DEF new
  <2> QED
    BY <2>1, <2>2 DEF NoEntry, Logs
<1> HIDE DEF new
<1>3. new \in [keys -> Logs(w)]
  BY <1>1, <1>2
<1> QED
  BY <1>2, <1>3 DEF new

\* A log that only ages stays a log.
LEMMA AgedLogs ==
    ASSUME NEW keys, NEW m \in Nat, NEW log \in [keys -> Logs(m)], NEW w \in 1..m
    PROVE  /\ AgeLog(log, w) \in [keys -> Logs(m)]
           /\ \A k \in keys : AgeLog(log, w)[k] = Aged(log[k], w)
           /\ \A k \in keys : NoEntry(log[k], m) => NoEntry(AgeLog(log, w)[k], m)
<1> DEFINE new == AgeLog(log, w)
<1>1. new = [k \in keys |-> new[k]] /\ \A k \in keys : new[k] = Aged(log[k], w)
  BY DEF AgeLog, Aged
<1> HIDE DEF new
<1>2. ASSUME NEW k \in keys
      PROVE  Aged(log[k], w) \in Logs(m) /\ (NoEntry(log[k], m) => NoEntry(Aged(log[k], w), m))
  <2>1. log[k] \in Logs(m)
    OBVIOUS
  <2>2. ASSUME NEW a \in 0..(m - 1)
        PROVE  /\ Aged(log[k], w)[a] \in Nat
               /\ Aged(log[k], w)[a] = IF a \in 1..(w - 1) THEN log[k][a - 1] ELSE 0
    BY <2>1 DEF Logs, Aged
  <2>3. Aged(log[k], w) \in Logs(m)
    BY <2>1, <2>2 DEF Logs, Aged
  <2>4. \A a \in 1..(w - 1) : a - 1 \in 0..(m - 1)
    OBVIOUS
  <2> QED
    BY <2>2, <2>3, <2>4 DEF NoEntry
<1> QED
  BY <1>1, <1>2 DEF new

\* A failed attempt: it is counted, and an eviction spares the lockouts.
LEMMA FailureStep ==
    ASSUME AuthInv, NEW m, m.source \in Sources, RegisterFailure(m)
    PROVE  /\ AuthInv'
           /\ \A e \in auth : isEntryBlocked(e) /\ e.source \notin FailedSources(auth')
                  => auth' \subseteq auth \/ \A f \in auth' : isEntryBlocked(f)
<1> DEFINE q == m.source
           before == Live(auth)
           c == Counted(before, q)
           others == {f \in before : f.source # q}
           all == others \cup {c}
           log == LogAfter(c, guesses[q])
<1>1. /\ IsFiniteSet(auth) /\ Cardinality(auth) <= AuthMaxEntries
      /\ guesses \in [Sources -> Logs(AuthWindow)] /\ AuthWindow \in Nat /\ AuthMaxEntries \in Nat
      /\ Cardinality(auth) \in Nat
  BY AuthLimiterAssumption, FS_CardinalityType DEF AuthInv
<1>2. c.source = q /\ log \in Logs(AuthWindow) /\ AuthTracked(c, log)
  BY CountedTracked
<1>3. PICK b \in pruneExpiredEntries(auth) :
        \E after \in pruneExpiredEntries({f \in b : f.source # q} \cup {Counted(b, q)}) :
            /\ auth' = after
            /\ guesses' = Forget(IF Counted(b, q).count >= Threshold THEN guesses
                                 ELSE [guesses EXCEPT ![q][0] = @ + 1], FailedSources(auth'))
  <2> DEFINE outcomes(b) == {[blocked |-> Counted(b, q).count >= Threshold, entries |-> after] :
                       after \in pruneExpiredEntries({f \in b : f.source # q} \cup {Counted(b, q)})}
  <2>1. registerFailure(auth, q) = UNION {outcomes(b) : b \in pruneExpiredEntries(auth)}
    BY DEF registerFailure
  <2>2. PICK outcome \in registerFailure(auth, q) :
            /\ auth' = outcome.entries
            /\ guesses' = Forget(IF outcome.blocked THEN guesses
                                 ELSE [guesses EXCEPT ![q][0] = @ + 1], FailedSources(auth'))
    BY DEF RegisterFailure
  <2>3. PICK b \in pruneExpiredEntries(auth) : outcome \in outcomes(b)
    <3> HIDE DEF outcomes
    <3> QED
      BY <2>1, <2>2
  <2>4. PICK after \in pruneExpiredEntries({f \in b : f.source # q} \cup {Counted(b, q)}) :
            outcome = [blocked |-> Counted(b, q).count >= Threshold, entries |-> after]
    BY <2>3
  <2>5. outcome.blocked = (Counted(b, q).count >= Threshold) /\ outcome.entries = after
    BY <2>4
  <2> HIDE DEF outcomes
  <2> QED
    BY <2>2, <2>4, <2>5
<1>4. b = before
  <2>1. Cardinality(auth) <= AuthMaxEntries + 1
    BY <1>1
  <2> QED
    BY <1>1, <2>1, PruneAuth
<1>5. /\ auth' \in pruneExpiredEntries(all)
      /\ guesses' = Forget(IF c.count >= Threshold THEN guesses
                           ELSE [guesses EXCEPT ![q][0] = @ + 1], FailedSources(auth'))
  BY <1>3, <1>4
<1>6. before \subseteq auth
  BY DEF Live
<1> HIDE DEF before, c, q
<1>7. IsFiniteSet(all) /\ Cardinality(all) <= AuthMaxEntries + 1
  <2>1. others \subseteq auth
    BY <1>6
  <2> HIDE DEF others
  <2>2. IsFiniteSet(others) /\ Cardinality(others) <= Cardinality(auth) /\ Cardinality(others) \in Nat
    BY <1>1, <2>1, FS_Subset, FS_CardinalityType
  <2>3. Cardinality(all) = Cardinality(others) \/ Cardinality(all) = Cardinality(others) + 1
    BY <2>2, FS_AddElement
  <2>4. IsFiniteSet(all)
    BY <2>2, FS_AddElement
  <2> QED
    BY <1>1, <2>2, <2>3, <2>4
<1>8. /\ auth' \subseteq all /\ IsFiniteSet(auth') /\ Cardinality(auth') <= AuthMaxEntries
      /\ \A e \in all : e \notin auth' /\ isEntryBlocked(e) => \A f \in auth' : isEntryBlocked(f)
  <2> HIDE DEF all
  <2> QED
    BY <1>5, <1>7, PruneAuth
<1>9. q \in Sources
  BY DEF q
<1> DEFINE new == [guesses EXCEPT ![q] = log]
<1>10. guesses' = Forget(new, FailedSources(auth'))
  <2>1. (IF c.count >= Threshold THEN guesses ELSE [guesses EXCEPT ![q][0] = @ + 1]) = new
    BY <1>1, <1>9 DEF LogAfter
  <2> QED
    BY <1>5, <2>1
<1> HIDE DEF log
<1>11. new \in [Sources -> Logs(AuthWindow)] /\ new[q] = log /\ \A k \in Sources : k # q => new[k] = guesses[k]
  BY <1>1, <1>2, <1>9
<1> HIDE DEF new
<1>12. /\ guesses' \in [Sources -> Logs(AuthWindow)]
       /\ \A k \in Sources \cap FailedSources(auth') : guesses'[k] = new[k]
       /\ \A k \in Sources \ FailedSources(auth') : NoEntry(guesses'[k], AuthWindow)
  <2> DEFINE kept == FailedSources(auth')
  <2>1. guesses' = Forget(new, kept)
    BY <1>10
  <2> HIDE DEF kept
  <2>2. /\ Forget(new, kept) \in [Sources -> Logs(AuthWindow)]
        /\ \A k \in Sources \cap kept : Forget(new, kept)[k] = new[k]
        /\ \A k \in Sources \ kept : NoEntry(Forget(new, kept)[k], AuthWindow)
    BY <1>1, <1>11, Forgotten
  <2>3. /\ guesses' \in [Sources -> Logs(AuthWindow)]
        /\ \A k \in Sources \cap kept : guesses'[k] = new[k]
        /\ \A k \in Sources \ kept : NoEntry(guesses'[k], AuthWindow)
    BY <2>1, <2>2
  <2> QED
    BY <2>3 DEF kept
<1>13. ASSUME NEW e \in auth' PROVE AuthTracked(e, guesses'[e.source])
  <2>1. e.source \in FailedSources(auth')
    BY DEF FailedSources
  <2>2. CASE e = c
    BY <1>2, <1>9, <1>11, <1>12, <2>1, <2>2
  <2>3. CASE e \in others
    <3>1. e \in auth /\ e.source # q
      BY <1>6, <2>3
    <3>2. AuthTracked(e, guesses[e.source]) /\ e.source \in Sources
      BY <3>1 DEF AuthInv, AuthTracked
    <3> QED
      BY <1>11, <1>12, <2>1, <3>1, <3>2
  <2> QED
    BY <1>8, <2>2, <2>3
<1>14. AuthInv'
  BY <1>8, <1>12, <1>13 DEF AuthInv
<1>15. ASSUME NEW e \in auth, isEntryBlocked(e), e.source \notin FailedSources(auth')
       PROVE  auth' \subseteq auth \/ \A f \in auth' : isEntryBlocked(f)
  <2>1. e \in before /\ \A f \in auth' : f.source # e.source
    BY <1>15 DEF before, Live, FailedSources
  <2>2. CASE e.source = q
    <3>1. c \notin auth'
      BY <1>2, <2>1, <2>2
    <3> QED
      BY <1>6, <1>8, <3>1
  <2>3. CASE e.source # q
    BY <1>8, <1>15, <2>1, <2>3
  <2> QED
    BY <2>2, <2>3
<1> QED
  BY <1>14, <1>15

\* A right token forgets the failures of its source, and of no other.
LEMMA ResetStep ==
    ASSUME AuthInv, NEW m, ResetFailures(m)
    PROVE  AuthInv' /\ auth' \subseteq auth
<1> DEFINE kept == FailedSources(auth')
<1>1. auth' \subseteq auth /\ guesses' = Forget(guesses, kept)
  BY DEF ResetFailures, reset
<1>2. /\ IsFiniteSet(auth) /\ Cardinality(auth) <= AuthMaxEntries /\ Cardinality(auth) \in Nat
      /\ guesses \in [Sources -> Logs(AuthWindow)] /\ AuthWindow \in Nat /\ AuthMaxEntries \in Nat
  BY AuthLimiterAssumption, FS_CardinalityType DEF AuthInv
<1>3. IsFiniteSet(auth') /\ Cardinality(auth') <= AuthMaxEntries
  <2>1. IsFiniteSet(auth') /\ Cardinality(auth') <= Cardinality(auth) /\ Cardinality(auth') \in Nat
    BY <1>1, <1>2, FS_Subset, FS_CardinalityType
  <2> QED
    BY <1>2, <2>1
<1>4. \A e \in auth' : e \in auth /\ e.source \in kept
  BY <1>1 DEF FailedSources
<1> HIDE DEF kept
<1>5. /\ Forget(guesses, kept) \in [Sources -> Logs(AuthWindow)]
      /\ \A k \in Sources \cap kept : Forget(guesses, kept)[k] = guesses[k]
      /\ \A k \in Sources \ kept : NoEntry(Forget(guesses, kept)[k], AuthWindow)
  BY <1>2, Forgotten
<1>6. ASSUME NEW e \in auth' PROVE AuthTracked(e, guesses'[e.source])
  <2>1. AuthTracked(e, guesses[e.source]) /\ e.source \in Sources
    BY <1>4 DEF AuthInv, AuthTracked
  <2> QED
    BY <1>1, <1>4, <1>5, <2>1
<1>7. \A k \in Sources \ kept : NoEntry(guesses'[k], AuthWindow)
  BY <1>1, <1>5
<1>8. guesses' \in [Sources -> Logs(AuthWindow)]
  BY <1>1, <1>5
<1> QED
  BY <1>1, <1>3, <1>6, <1>7, <1>8 DEF AuthInv, kept

\* An entry of the failed-auth Map, an instant later.
Older(e) ==
    [source  |-> e.source,
     age     |-> IF e.age < AuthWindow THEN e.age + 1 ELSE e.age,
     count   |-> e.count,
     idle    |-> IF e.idle <= AuthWindow THEN e.idle + 1 ELSE e.idle,
     blocked |-> IF e.blocked > 0 THEN e.blocked - 1 ELSE 0]

\* Time passes for the failed-auth Map and its history alike.
LEMMA AuthAges ==
    ASSUME AuthInv, Tick
    PROVE  AuthInv' /\ FailedSources(auth') = FailedSources(auth)
<1> DEFINE f == [e \in auth |-> Older(e)]
<1>1. auth' = {Older(e) : e \in auth} /\ guesses' = AgeLog(guesses, AuthWindow)
  BY DEF Tick, AgeAuth, Older
<1>2. /\ IsFiniteSet(auth) /\ Cardinality(auth) <= AuthMaxEntries /\ Cardinality(auth) \in Nat
      /\ guesses \in [Sources -> Logs(AuthWindow)] /\ AuthWindow \in Nat \ {0} /\ AuthMaxEntries \in Nat
      /\ AuthWindow \in 1..AuthWindow
  BY AuthLimiterAssumption, FS_CardinalityType DEF AuthInv
<1>3. f \in Surjection(auth, auth')
  BY <1>1 DEF Surjection
<1>4. IsFiniteSet(auth') /\ Cardinality(auth') <= AuthMaxEntries
  <2>1. IsFiniteSet(auth') /\ Cardinality(auth') <= Cardinality(auth) /\ Cardinality(auth') \in Nat
    <3> HIDE DEF f
    <3> QED
      BY <1>2, <1>3, FS_Surjection, FS_CardinalityType
  <2> QED
    BY <1>2, <2>1
<1>5. FailedSources(auth') = FailedSources(auth)
  <2>1. \A e : Older(e).source = e.source
    BY DEF Older
  <2> QED
    BY <1>1, <2>1 DEF FailedSources
<1>6. /\ guesses' \in [Sources -> Logs(AuthWindow)]
      /\ \A k \in Sources : guesses'[k] = Aged(guesses[k], AuthWindow)
      /\ \A k \in Sources : NoEntry(guesses[k], AuthWindow) => NoEntry(guesses'[k], AuthWindow)
  BY <1>1, <1>2, AgedLogs, SMTT(30)
<1>7. ASSUME NEW e \in auth PROVE AuthTracked(Older(e), guesses'[e.source])
  <2> DEFINE log == guesses[e.source]
             new == Aged(log, AuthWindow)
             o == Older(e)
  <2>1. AuthTracked(e, log) /\ e.source \in Sources
    BY DEF AuthInv, AuthTracked
  <2>2. log \in Logs(AuthWindow) /\ guesses'[e.source] = new
    BY <1>2, <1>6, <2>1
  <2>3. /\ o.source = e.source /\ o.count = e.count
        /\ o.age = (IF e.age < AuthWindow THEN e.age + 1 ELSE e.age)
        /\ o.idle = IF e.idle <= AuthWindow THEN e.idle + 1 ELSE e.idle
    BY DEF Older
  <2> HIDE DEF o, new, log
  <2>4. /\ e.age \in 0..AuthWindow /\ e.idle \in Nat /\ e.count \in Nat \ {0}
        /\ e.age < AuthWindow => e.idle <= e.age
    BY <2>1 DEF AuthTracked
  <2>5. /\ o.age \in 0..AuthWindow /\ o.idle \in Nat /\ o.count \in Nat \ {0}
        /\ o.age < AuthWindow => o.idle <= o.age
    BY <1>2, <2>3, <2>4
  <2>6. ASSUME Threshold >= 2
        PROVE  /\ Paced(o.age, new, AuthWindow, Threshold - 1)
               /\ o.age < AuthWindow =>
                    Sum(new, o.age + 1) = IF o.count < Threshold THEN o.count ELSE Threshold - 1
    <3> DEFINE b == Threshold - 1
    <3>1. b \in Nat \ {0}
      BY <2>6, AuthLimiterAssumption
    <3>2. Paced(e.age, log, AuthWindow, b)
      BY <2>1, <2>6 DEF AuthTracked
    <3> HIDE DEF b
    <3>3. /\ Paced(o.age, new, AuthWindow, b)
          /\ e.age + 1 < AuthWindow => Sum(new, e.age + 2) = Sum(log, e.age + 1)
      BY <1>2, <2>2, <2>3, <3>1, <3>2, PacedAged DEF new
    <3>4. ASSUME o.age < AuthWindow
          PROVE  Sum(new, o.age + 1) = IF o.count < Threshold THEN o.count ELSE Threshold - 1
      <4>1. e.age < AuthWindow /\ e.age + 1 < AuthWindow /\ o.age + 1 = e.age + 2
        BY <1>2, <2>3, <2>4, <3>4
      <4>2. Sum(log, e.age + 1) = IF e.count < Threshold THEN e.count ELSE Threshold - 1
        BY <2>1, <2>6, <4>1 DEF AuthTracked
      <4> QED
        BY <2>3, <3>3, <4>1, <4>2
    <3> QED
      BY <3>3, <3>4 DEF b
  <2>7. AuthTracked(o, new)
    BY <2>1, <2>3, <2>5, <2>6 DEF AuthTracked
  <2> QED
    BY <2>2, <2>7 DEF o
<1>8. ASSUME NEW e \in auth' PROVE AuthTracked(e, guesses'[e.source])
  <2>1. PICK x \in auth : e = Older(x)
    BY <1>1
  <2>2. e.source = x.source
    BY <2>1 DEF Older
  <2> QED
    BY <1>7, <2>1, <2>2
<1>9. \A k \in Sources \ FailedSources(auth') : NoEntry(guesses'[k], AuthWindow)
  BY <1>5, <1>6 DEF AuthInv
<1> QED
  BY <1>4, <1>5, <1>6, <1>8, <1>9 DEF AuthInv

-----------------------------------------------------------------------------
\* The behaviour's workload and the active configuration are among those that
\* the constants name.
Configured == workload \in DOMAIN Workload /\ config \in DOMAIN Config

\* A reload takes a configuration of the workload.
LEMMA StaysConfigured ==
    /\ Init => Configured
    /\ Configured /\ [Next]_vars => Configured'
<1>1. Init => Configured
  BY RequestPathAssumption DEF Init, Configured
<1>2. ASSUME Configured, [Next]_vars PROVE Configured'
  <2>1. ASSUME NEW name, Arrival(name) PROVE workload' = workload /\ config' = config
    BY <2>1 DEF Arrival, HealthProbe, FailedAuth, NotFound, RateLimited, RuntimeConfigRead,
       RuntimeInspectRead, DataPlaneRequest, Admits
  <2>2. ASSUME NEW r \in Slots, Progress(r) PROVE workload' = workload /\ config' = config
    BY <2>2 DEF Progress, ReadFails, BodyRejected, StreamRefused, ProxyRefused, Forward,
       LookupAnswers, FetchFails, FetchResponds, BufferEnds, Deliver
  <2>3. ASSUME Tick \/ PruneTimerFires \/ (\E h \in Hostnames : CacheEntryExpires(h)) \/ UNCHANGED vars
        PROVE  workload' = workload /\ config' = config
    BY <2>3 DEF Tick, PruneTimerFires, CacheEntryExpires, vars
  <2>4. ASSUME Reload PROVE Configured'
    BY <1>2, <2>4, RequestPathAssumption DEF Reload, Configured
  <2> QED
    BY <1>2, <2>1, <2>2, <2>3, <2>4 DEF Next, Configured
<1> QED
  BY <1>1, <1>2

\* What a step may do to the lockouts.
LockoutsKept ==
    \A e \in auth : isEntryBlocked(e) /\ e.source \notin FailedSources(auth')
        => auth' \subseteq auth \/ \A f \in auth' : isEntryBlocked(f)

\* Every step keeps the failed-auth Map and its history together, and the
\* lockouts in the Map.
LEMMA AuthStep ==
    ASSUME Configured, AuthInv, [Next]_vars
    PROVE  AuthInv' /\ LockoutsKept
<1>1. ASSUME auth' = auth, guesses' = guesses PROVE AuthInv' /\ LockoutsKept
  BY <1>1 DEF AuthInv, LockoutsKept, AuthTracked, FailedSources
<1>2. ASSUME NEW m, ResetFailures(m) PROVE AuthInv' /\ LockoutsKept
  BY <1>2, ResetStep DEF LockoutsKept
<1>3. ASSUME NEW name \in Workload[workload].messages, Arrival(name) PROVE AuthInv' /\ LockoutsKept
  <2> DEFINE m == Message[name]
  <2>1. m.source \in Sources
    BY RequestPathAssumption DEF Configured
  <2>2. RegisterFailure(m) \/ ResetFailures(m)
    BY <1>3 DEF Arrival, HealthProbe, FailedAuth, NotFound, RateLimited, RuntimeConfigRead,
       RuntimeInspectRead, DataPlaneRequest, Admits
  <2> HIDE DEF m
  <2>3. CASE RegisterFailure(m)
    BY <2>1, <2>3, FailureStep DEF LockoutsKept
  <2> QED
    BY <1>2, <2>2, <2>3
<1>4. ASSUME NEW r \in Slots, Progress(r) PROVE AuthInv' /\ LockoutsKept
  <2>1. auth' = auth /\ guesses' = guesses
    BY <1>4 DEF Progress, ReadFails, BodyRejected, StreamRefused, ProxyRefused, Forward,
       LookupAnswers, FetchFails, FetchResponds, BufferEnds, Deliver, limiterVars
  <2> QED
    BY <1>1, <2>1
<1>5. CASE Tick
  <2>1. AuthInv' /\ FailedSources(auth') = FailedSources(auth)
    BY <1>5, AuthAges
  <2> QED
    BY <2>1 DEF LockoutsKept, FailedSources
<1>6. CASE PruneTimerFires \/ Reload \/ (\E h \in Hostnames : CacheEntryExpires(h)) \/ UNCHANGED vars
  <2>1. auth' = auth /\ guesses' = guesses
    BY <1>6 DEF PruneTimerFires, Reload, CacheEntryExpires, vars, limiterVars
  <2> QED
    BY <1>1, <2>1
<1> QED
  BY <1>3, <1>4, <1>5, <1>6 DEF Next

\* Nobody has failed yet.
LEMMA AuthInit == Init => AuthInv
<1> SUFFICES ASSUME Init PROVE AuthInv
  OBVIOUS
<1>1. auth = {} /\ guesses = [s \in Sources |-> [a \in 0..(AuthWindow - 1) |-> 0]]
  BY DEF Init, NoGuesses
<1>2. IsFiniteSet({}) /\ Cardinality({}) = 0 /\ AuthMaxEntries \in Nat
  BY FS_EmptySet, AuthLimiterAssumption
<1>3. guesses \in [Sources -> Logs(AuthWindow)] /\ \A q \in Sources : NoEntry(guesses[q], AuthWindow)
  BY <1>1 DEF Logs, NoEntry
<1>4. IsFiniteSet(auth) /\ Cardinality(auth) <= AuthMaxEntries /\ \A e \in auth : FALSE
  BY <1>1, <1>2
<1> QED
  BY <1>3, <1>4 DEF AuthInv

\* The history of a source is within twice the guesses of a window.
LEMMA AuthBudget == AuthInv => GuessBudget
<1> SUFFICES ASSUME AuthInv, Threshold >= 2, NEW s \in Sources
             PROVE  Sum(guesses[s], AuthWindow) <= 2 * Threshold - 3
  BY DEF GuessBudget
<1>1. /\ AuthWindow \in Nat /\ AuthWindow \in 1..AuthWindow /\ AuthWindow \in 0..AuthWindow
      /\ Threshold \in Nat
  BY AuthLimiterAssumption
<1>2. guesses[s] \in Logs(AuthWindow)
  BY DEF AuthInv
<1>3. CASE s \in FailedSources(auth)
  <2> DEFINE b == Threshold - 1
             log == guesses[s]
  <2>1. PICK e \in auth : e.source = s
    BY <1>3 DEF FailedSources
  <2>2. Paced(e.age, log, AuthWindow, b)
    BY <2>1 DEF AuthInv, AuthTracked
  <2>3. b \in Nat \ {0} /\ 2 * b - 1 = 2 * Threshold - 3
    BY <1>1
  <2> HIDE DEF b, log
  <2>4. Sum(log, AuthWindow) <= 2 * b - 1
    BY <1>1, <1>2, <2>2, <2>3, PacedBound DEF log
  <2> QED
    BY <2>3, <2>4 DEF log
<1>4. CASE s \notin FailedSources(auth)
  <2>1. NoEntry(guesses[s], AuthWindow)
    BY <1>4 DEF AuthInv
  <2>2. Sum(guesses[s], AuthWindow) = 0
    BY <1>1, <1>2, <2>1, SumZero DEF NoEntry
  <2> QED
    BY <1>1, <2>2
<1> QED
  BY <1>3, <1>4

\* Within any window's length a source is told of a wrong token at most one
\* time less than twice the failures below the threshold, whatever other
\* sources, successes and evictions come between.
THEOREM GuessesBounded == Spec => []GuessBudget
<1>1. Configured /\ AuthInv /\ [Next]_vars => Configured' /\ AuthInv'
  BY AuthStep, StaysConfigured
<1> QED
  BY <1>1, AuthInit, AuthBudget, StaysConfigured, PTL DEF Spec

\* A source that is locked out leaves the failed-auth Map only with its own
\* next failure or right token, or when every source that stays is locked out
\* as well: failures of other sources never push out a lockout before an entry
\* that is not one.
THEOREM LockoutsLast == Spec => LockoutsEvictedLast
<1>1. Configured /\ AuthInv /\ [Next]_vars => Configured' /\ AuthInv'
  BY AuthStep, StaysConfigured
<1>2. Configured /\ AuthInv /\ [Next]_vars =>
          [\A e \in auth : isEntryBlocked(e) /\ e.source \notin FailedSources(auth')
               => auth' \subseteq auth \/ \A f \in auth' : isEntryBlocked(f)]_vars
  BY AuthStep DEF LockoutsKept
<1> QED
  BY <1>1, <1>2, AuthInit, StaysConfigured, PTL DEF Spec, LockoutsEvictedLast

-----------------------------------------------------------------------------
(***************************************************************************)
(* The rate limiter                                                        *)
(***************************************************************************)
RateEntries == [key : RateKeys, age : Nat, count : Nat, idle : Nat]

\* A Map has one entry per key.
OnePerKey(entries) == \A i, j \in 1..Len(entries) : entries[i].key = entries[j].key => i = j

\* The entries of t are entries of s.
Within(t, s) == \A j \in 1..Len(t) : \E i \in 1..Len(s) : t[j] = s[i]

\* The later entries of a Map are a Map.
LEMMA TailEntries ==
    ASSUME NEW s \in Seq(RateEntries), OnePerKey(s), NEW a \in 1..(Len(s) + 1)
    PROVE  LET t == SubSeq(s, a, Len(s))
           IN  t \in Seq(RateEntries) /\ OnePerKey(t) /\ Within(t, s)
<1> DEFINE t == SubSeq(s, a, Len(s))
<1>1. Len(s) \in Nat /\ Len(t) = Len(s) - a + 1
  OBVIOUS
<1>2. \A j \in 1..Len(t) : a + j - 1 \in 1..Len(s) /\ t[j] = s[a + j - 1]
  BY <1>1
<1>3. t \in Seq(RateEntries)
  OBVIOUS
<1> HIDE DEF t
<1>4. OnePerKey(t)
  <2> SUFFICES ASSUME NEW i \in 1..Len(t), NEW j \in 1..Len(t), t[i].key = t[j].key PROVE i = j
    BY DEF OnePerKey
  <2>1. a + i - 1 = a + j - 1
    BY <1>2 DEF OnePerKey
  <2> QED
    BY <2>1
<1>5. Within(t, s)
  BY <1>2 DEF Within
<1> QED
  BY <1>3, <1>4, <1>5 DEF t

\* entries.delete(key) leaves the entries of the other keys.
LEMMA DeleteEntries ==
    ASSUME NEW s \in Seq(RateEntries), OnePerKey(s), NEW key
    PROVE  LET t == Delete(s, key)
           IN  /\ t \in Seq(RateEntries) /\ OnePerKey(t) /\ Within(t, s)
               /\ \A j \in 1..Len(t) : t[j].key # key
<1> DEFINE t == Delete(s, key)
<1>1. Len(s) \in Nat /\ DOMAIN s = 1..Len(s)
  OBVIOUS
<1>2. CASE Places(s, key) = {}
  <2>1. t = s
    BY <1>2 DEF Delete
  <2>2. \A j \in 1..Len(s) : s[j].key # key
    BY <1>1, <1>2 DEF Places
  <2> QED
    BY <2>1, <2>2 DEF Within
<1>3. CASE Places(s, key) # {}
  <2> DEFINE p == CHOOSE i \in Places(s, key) : TRUE
             a == SubSeq(s, 1, p - 1)
             b == SubSeq(s, p + 1, Len(s))
  <2>1. p \in 1..Len(s) /\ s[p].key = key
    BY <1>1, <1>3 DEF Places
  <2>2. t = a \o b
    BY <1>3 DEF Delete, RemoveAt
  <2> HIDE DEF p, t
  <2>3. /\ a \in Seq(RateEntries) /\ Len(a) = p - 1 /\ \A j \in 1..(p - 1) : a[j] = s[j]
    BY <1>1, <2>1
  <2>4. /\ b \in Seq(RateEntries) /\ Len(b) = Len(s) - p
        /\ \A j \in 1..(Len(s) - p) : b[j] = s[p + j]
    <3>1. p + 1 \in 1..(Len(s) + 1)
      BY <1>1, <2>1
    <3>2. Len(b) = Len(s) - (p + 1) + 1 /\ \A j \in 1..Len(b) : b[j] = s[(p + 1) + j - 1]
      BY <1>1, <3>1
    <3>3. b \in Seq(RateEntries)
      BY <1>1, <3>1
    <3> HIDE DEF b
    <3> QED
      BY <1>1, <2>1, <3>2, <3>3
  <2> HIDE DEF a, b
  <2>5. /\ t \in Seq(RateEntries) /\ Len(t) = Len(s) - 1
        /\ \A j \in 1..(Len(s) - 1) : t[j] = IF j < p THEN s[j] ELSE s[j + 1]
    <3>1. t \in Seq(RateEntries) /\ Len(t) = Len(s) - 1
      <4>1. a \in Seq(RateEntries) /\ b \in Seq(RateEntries)
        BY <2>3, <2>4
      <4>2. t \in Seq(RateEntries) /\ Len(t) = Len(a) + Len(b)
        BY <2>2, <4>1, ConcatProperties
      <4> QED
        BY <1>1, <2>1, <2>3, <2>4, <4>2
    <3>2. ASSUME NEW j \in 1..(Len(s) - 1) PROVE t[j] = IF j < p THEN s[j] ELSE s[j + 1]
      <4>1. t[j] = IF j <= p - 1 THEN a[j] ELSE b[j - (p - 1)]
        BY <1>1, <2>1, <2>2, <2>3, <2>4
      <4>2. CASE j < p
        BY <1>1, <2>1, <2>3, <4>1, <4>2
      <4>3. CASE ~(j < p)
        <5>1. j - (p - 1) \in 1..(Len(s) - p) /\ p + (j - (p - 1)) = j + 1 /\ ~(j <= p - 1)
          BY <1>1, <2>1, <4>3
        <5>2. b[j - (p - 1)] = s[j + 1]
          BY <2>4, <5>1
        <5> QED
          BY <4>1, <4>3, <5>1, <5>2
      <4> QED
        BY <4>2, <4>3
    <3> QED
      BY <3>1, <3>2
  <2> DEFINE at(j) == IF j < p THEN j ELSE j + 1
  <2>6. ASSUME NEW j \in 1..Len(t) PROVE at(j) \in 1..Len(s) /\ at(j) # p /\ t[j] = s[at(j)]
    BY <1>1, <2>1, <2>5
  <2>7. \A j \in 1..Len(t) : t[j].key # key
    BY <2>1, <2>6 DEF OnePerKey
  <2>8. ASSUME NEW i \in 1..Len(t), NEW j \in 1..Len(t), t[i].key = t[j].key PROVE i = j
    <3>1. at(i) = at(j)
      BY <2>6, <2>8 DEF OnePerKey
    <3> QED
      BY <2>1, <2>5, <3>1
  <2>9. Within(t, s)
    BY <2>6 DEF Within
  <2> QED
    BY <2>5, <2>7, <2>8, <2>9 DEF OnePerKey, t
<1> QED
  BY <1>2, <1>3

\* The entry check works with: a fresh one, or the caller's own.
LEMMA Advanced ==
    ASSUME NEW c, c.window \in Nat \ {0}, NEW s \in Seq(RateEntries), NEW key \in RateKeys
    PROVE  LET next == AdvancedEntry(c, s, key)
           IN  /\ next \in RateEntries /\ next.key = key
               /\ \/ /\ next.age = 0 /\ next.count = 0
                     /\ \/ \A i \in 1..Len(s) : s[i].key # key
                        \/ \E i \in 1..Len(s) : s[i].key = key /\ s[i].age >= c.window
                  \/ \E i \in 1..Len(s) : /\ s[i].key = key /\ s[i].age < c.window
                                          /\ next.age = s[i].age /\ next.count = s[i].count
<1> DEFINE next == AdvancedEntry(c, s, key)
           fresh == [key |-> key, age |-> 0, count |-> 0, idle |-> 0]
           mine  == {s[i] : i \in Places(s, key)}
<1>1. DOMAIN s = 1..Len(s)
  OBVIOUS
<1>2. fresh \in RateEntries /\ fresh.key = key /\ fresh.age = 0 /\ fresh.count = 0
  BY DEF RateEntries
<1>3. CASE mine = {}
  <2>1. next = fresh
    BY <1>3 DEF AdvancedEntry
  <2>2. \A i \in 1..Len(s) : s[i].key # key
    BY <1>1, <1>3 DEF Places
  <2> HIDE DEF fresh, mine
  <2> QED
    BY <1>2, <2>1, <2>2
<1>4. CASE mine # {}
  <2> DEFINE e == CHOOSE x \in mine : TRUE
  <2>1. next = [advanceWindow(e, c.window, fresh) EXCEPT !.idle = 0]
    BY <1>4 DEF AdvancedEntry
  <2>2. PICK i \in 1..Len(s) : s[i].key = key /\ e = s[i]
    <3>1. e \in mine
      BY <1>4
    <3> HIDE DEF e
    <3> QED
      BY <1>1, <3>1 DEF Places
  <2> HIDE DEF e, mine, next, fresh
  <2>3. e \in RateEntries
    BY <2>2
  <2>4. e.age \in Nat
    BY <2>3 DEF RateEntries
  <2>5. CASE e.age >= c.window
    <3>1. next = [fresh EXCEPT !.idle = 0]
      BY <2>1, <2>5 DEF advanceWindow
    <3>2. next \in RateEntries /\ next.key = key /\ next.age = 0 /\ next.count = 0
      BY <3>1, <1>2 DEF RateEntries
    <3> QED
      BY <2>2, <2>5, <3>2 DEF next
  <2>6. CASE e.age < c.window
    <3>1. next = [e EXCEPT !.idle = 0]
      BY <2>1, <2>4, <2>6 DEF advanceWindow
    <3>2. next \in RateEntries /\ next.key = e.key /\ next.age = e.age /\ next.count = e.count
      BY <3>1, <2>3 DEF RateEntries
    <3> QED
      BY <2>2, <2>6, <3>2 DEF next
  <2> QED
    BY <2>4, <2>5, <2>6
<1> QED
  BY <1>3, <1>4

\* What check leaves in the Map: the caller's entry, counted if it is allowed,
\* and entries of others; and who is allowed.
LEMMA CheckEntries ==
    ASSUME NEW c, ValidRateLimitConfig(c), c.ttl = 0, NEW s \in Seq(RateEntries), OnePerKey(s),
           NEW key \in RateKeys
    PROVE  LET d    == check(c, s, key)
               next == AdvancedEntry(c, s, key)
               n    == IF next.count < c.requests THEN next.count + 1 ELSE next.count
           IN  /\ d.allowed = (next.count < c.requests)
               /\ d.entries \in Seq(RateEntries) /\ OnePerKey(d.entries)
               /\ \A j \in 1..Len(d.entries) :
                      \/ /\ d.entries[j].key = key
                         /\ d.entries[j].age = next.age /\ d.entries[j].count = n
                      \/ \E i \in 1..Len(s) : d.entries[j] = s[i] /\ s[i].key # key
<1> DEFINE next == AdvancedEntry(c, s, key)
           n == IF next.count < c.requests THEN next.count + 1 ELSE next.count
           new == [next EXCEPT !.count = n]
           rest == Delete(s, key)
           moved == Append(rest, new)
           out == IF Len(moved) > c.maxEntries THEN EvictToMaxEntries(c, moved) ELSE moved
           d == check(c, s, key)
<1> SUFFICES /\ d.allowed = (next.count < c.requests)
             /\ d.entries \in Seq(RateEntries) /\ OnePerKey(d.entries)
             /\ \A j \in 1..Len(d.entries) :
                    \/ /\ d.entries[j].key = key
                       /\ d.entries[j].age = next.age /\ d.entries[j].count = n
                    \/ \E i \in 1..Len(s) : d.entries[j] = s[i] /\ s[i].key # key
  OBVIOUS
<1>1. c.maxEntries \in Nat \ {0} /\ c.window \in Nat \ {0} /\ c.requests \in Nat
  BY DEF ValidRateLimitConfig
<1>2. next \in RateEntries /\ next.key = key
  BY <1>1, Advanced
<1>3. d.allowed = (next.count < c.requests) /\ d.entries = out
  <2>1. [next EXCEPT !.count = IF next.count < c.requests THEN @ + 1 ELSE @] = new
    BY <1>2 DEF RateEntries
  <2> QED
    BY <2>1 DEF check, evictRateLimitEntriesOlderThan
<1> HIDE DEF next, d
<1>4. new \in RateEntries /\ new.key = key /\ new.age = next.age /\ new.count = n
  BY <1>2 DEF RateEntries
<1>5. /\ rest \in Seq(RateEntries) /\ OnePerKey(rest) /\ Within(rest, s)
      /\ \A j \in 1..Len(rest) : rest[j].key # key
  BY DeleteEntries
<1> HIDE DEF new, rest
<1>6. /\ moved \in Seq(RateEntries) /\ Len(moved) = Len(rest) + 1 /\ Len(rest) \in Nat
      /\ moved[Len(rest) + 1] = new /\ \A j \in 1..Len(rest) : moved[j] = rest[j]
  BY <1>4, <1>5
<1> HIDE DEF moved
<1>7. OnePerKey(moved)
  <2> SUFFICES ASSUME NEW i \in 1..Len(moved), NEW j \in 1..Len(moved), moved[i].key = moved[j].key
               PROVE  i = j
    BY DEF OnePerKey
  <2>1. i \in 1..Len(rest) \/ i = Len(rest) + 1
    BY <1>6
  <2>2. j \in 1..Len(rest) \/ j = Len(rest) + 1
    BY <1>6
  <2>3. CASE i \in 1..Len(rest) /\ j \in 1..Len(rest)
    BY <1>5, <1>6, <2>3 DEF OnePerKey
  <2> QED
    BY <1>4, <1>5, <1>6, <2>1, <2>2, <2>3
<1>8. out \in Seq(RateEntries) /\ OnePerKey(out) /\ Within(out, moved)
  <2>1. CASE Len(moved) > c.maxEntries
    <3>1. Len(moved) - c.maxEntries + 1 \in 1..(Len(moved) + 1)
      BY <1>1, <1>6, <2>1
    <3>2. out = SubSeq(moved, Len(moved) - c.maxEntries + 1, Len(moved))
      BY <2>1 DEF EvictToMaxEntries
    <3> HIDE DEF out
    <3> QED
      BY <1>6, <1>7, <3>1, <3>2, TailEntries
  <2>2. CASE ~(Len(moved) > c.maxEntries)
    BY <1>6, <1>7, <2>2 DEF Within
  <2> QED
    BY <2>1, <2>2
<1> HIDE DEF out
<1>9. ASSUME NEW j \in 1..Len(out)
      PROVE  out[j] = new \/ \E i \in 1..Len(s) : out[j] = s[i] /\ s[i].key # key
  <2>1. PICK k \in 1..Len(moved) : out[j] = moved[k]
    BY <1>8 DEF Within
  <2>2. CASE k = Len(rest) + 1
    BY <1>6, <2>1, <2>2
  <2>3. CASE k \in 1..Len(rest)
    <3>1. PICK i \in 1..Len(s) : rest[k] = s[i]
      BY <1>5, <2>3 DEF Within
    <3>2. out[j] = s[i] /\ s[i].key # key
      BY <1>5, <1>6, <2>1, <2>3, <3>1
    <3> QED
      BY <3>2
  <2> QED
    BY <1>6, <2>2, <2>3
<1> HIDE DEF n
<1> QED
  BY <1>3, <1>4, <1>8, <1>9

\* How an entry and the requests its caller was granted belong together.
RateTracked(c, e, log) ==
    /\ Paced(e.age, log, c.window, c.requests)
    /\ e.age < c.window => e.count = Sum(log, e.age + 1)

RateInv ==
    /\ rate \in Seq(RateEntries) /\ OnePerKey(rate)
    /\ grants \in [RateKeys -> Logs(MaxWindow)]
    /\ \A i \in 1..Len(rate) : RateTracked(Active.rateLimit, rate[i], grants[rate[i].key])
    /\ \A k \in RateKeys \ LimitedKeys(rate) : NoEntry(grants[k], MaxWindow)

\* The active limiter is one its constructor accepts.
LEMMA ActiveLimit ==
    ASSUME Configured
    PROVE  /\ ValidRateLimitConfig(Active.rateLimit) /\ Active.rateLimit.ttl = 0
           /\ Active.rateLimit.window \in 1..MaxWindow /\ MaxWindow \in Nat
           /\ Active.rateLimit.requests \in Nat \ {0}
<1>1. /\ ValidRateLimitConfig(Active.rateLimit) /\ Active.rateLimit.ttl = 0
      /\ Active.rateLimit.window <= MaxWindow /\ MaxWindow \in Nat
  BY RequestPathAssumption DEF Configured, Active
<1> QED
  BY <1>1 DEF ValidRateLimitConfig

\* The entry after the check fits the caller's log after it.
LEMMA CheckTracked ==
    ASSUME Configured, RateInv, NEW key \in RateKeys, NEW e,
           LET next == AdvancedEntry(Active.rateLimit, rate, key)
           IN  /\ e.age = next.age
               /\ e.count = IF next.count < Active.rateLimit.requests THEN next.count + 1 ELSE next.count
    PROVE  LET next == AdvancedEntry(Active.rateLimit, rate, key)
               log  == IF next.count < Active.rateLimit.requests
                       THEN [grants[key] EXCEPT ![0] = @ + 1] ELSE grants[key]
           IN  log \in Logs(MaxWindow) /\ RateTracked(Active.rateLimit, e, log)
<1> DEFINE W == Active.rateLimit.window
           R == Active.rateLimit.requests
           next == AdvancedEntry(Active.rateLimit, rate, key)
           old == grants[key]
           more == [old EXCEPT ![0] = @ + 1]
           log == IF next.count < R THEN more ELSE old
<1> SUFFICES log \in Logs(MaxWindow) /\ RateTracked(Active.rateLimit, e, log)
  OBVIOUS
<1>1. /\ ValidRateLimitConfig(Active.rateLimit) /\ W \in 1..MaxWindow /\ MaxWindow \in Nat
      /\ R \in Nat \ {0} /\ W \in Nat \ {0}
  BY ActiveLimit
<1>2. old \in Logs(MaxWindow) /\ rate \in Seq(RateEntries)
  BY DEF RateInv
<1>3. /\ next \in RateEntries /\ e.age = next.age
      /\ e.count = IF next.count < R THEN next.count + 1 ELSE next.count
      /\ \/ /\ next.age = 0 /\ next.count = 0
            /\ \/ \A i \in 1..Len(rate) : rate[i].key # key
               \/ \E i \in 1..Len(rate) : rate[i].key = key /\ rate[i].age >= W
         \/ \E i \in 1..Len(rate) : /\ rate[i].key = key /\ rate[i].age < W
                                    /\ next.age = rate[i].age /\ next.count = rate[i].count
  BY <1>1, <1>2, Advanced
<1>4. next.count \in Nat /\ next.age \in Nat
  BY <1>3 DEF RateEntries
<1>5. \A i \in 1..Len(rate) : rate[i].key = key => RateTracked(Active.rateLimit, rate[i], old)
  BY DEF RateInv
<1>6. more \in Logs(MaxWindow)
  <2>1. MaxWindow \in 1..MaxWindow
    BY <1>1
  <2> QED
    BY <1>1, <1>2, <2>1, SumIncrement
<1>7. \A x, l : RateTracked(Active.rateLimit, x, l) <=>
          Paced(x.age, l, W, R) /\ (x.age < W => x.count = Sum(l, x.age + 1))
  BY DEF RateTracked
<1> HIDE DEF W, R, next, old
<1>8. ASSUME NEW i \in 1..Len(rate), rate[i].key = key, rate[i].age < W,
             next.age = rate[i].age, next.count = rate[i].count
      PROVE  log \in Logs(MaxWindow) /\ RateTracked(Active.rateLimit, e, log)
  <2>1. Paced(next.age, old, W, R) /\ next.count = Sum(old, next.age + 1) /\ next.age < W
    BY <1>5, <1>7, <1>8
  <2>2. CASE next.count < R
    <3>1. Paced(next.age, more, W, R) /\ Sum(more, next.age + 1) = next.count + 1
      BY <1>1, <1>2, <2>1, <2>2, PacedGrant
    <3> HIDE DEF more
    <3> QED
      BY <1>3, <1>6, <1>7, <2>2, <3>1
  <2>3. CASE ~(next.count < R)
    BY <1>2, <1>3, <1>7, <2>1, <2>3
  <2> QED
    BY <2>2, <2>3
<1>9. ASSUME next.age = 0, next.count = 0, old[0] = 0, Sum(old, W) <= R - 1
      PROVE  log \in Logs(MaxWindow) /\ RateTracked(Active.rateLimit, e, log)
  <2>1. Paced(0, more, W, R) /\ Sum(more, 1) = 1
    BY <1>1, <1>2, <1>9, PacedFresh
  <2>2. next.count < R /\ e.age = 0 /\ e.count = 1
    BY <1>1, <1>3, <1>9
  <2> HIDE DEF more
  <2> QED
    BY <1>6, <1>7, <2>1, <2>2
<1>10. ASSUME \A i \in 1..Len(rate) : rate[i].key # key PROVE old[0] = 0 /\ Sum(old, W) <= R - 1
  <2>1. key \notin LimitedKeys(rate)
    BY <1>10 DEF LimitedKeys
  <2>2. NoEntry(old, MaxWindow)
    BY <2>1 DEF RateInv, old
  <2>3. Sum(old, W) = 0
    BY <1>1, <1>2, <2>2, SumZero DEF NoEntry
  <2> QED
    BY <1>1, <2>2, <2>3 DEF NoEntry
<1>11. ASSUME NEW i \in 1..Len(rate), rate[i].key = key, rate[i].age >= W
       PROVE  old[0] = 0 /\ Sum(old, W) <= R - 1
  <2>1. Paced(rate[i].age, old, W, R)
    BY <1>5, <1>7, <1>11
  <2>2. rate[i].age = W
    BY <1>1, <1>11, <2>1 DEF Paced
  <2> QED
    BY <1>1, <2>1, <2>2 DEF Paced
<1> HIDE DEF log, more
<1> QED
  BY <1>3, <1>8, <1>9, <1>10, <1>11

\* A caller is checked: the Map and its history stay together.
LEMMA CheckStep ==
    ASSUME Configured, RateInv, NEW m, gatewayRateLimitKey(m) \in RateKeys,
           NEW allowed \in BOOLEAN, CheckRate(m, allowed), config' = config
    PROVE  RateInv'
<1> DEFINE c == Active.rateLimit
           key == gatewayRateLimitKey(m)
           d == check(c, rate, key)
           next == AdvancedEntry(c, rate, key)
           granted == next.count < c.requests
           n == IF granted THEN next.count + 1 ELSE next.count
           log == IF granted THEN [grants[key] EXCEPT ![0] = @ + 1] ELSE grants[key]
           new == [grants EXCEPT ![key] = log]
           kept == LimitedKeys(rate')
<1>1. /\ rate \in Seq(RateEntries) /\ OnePerKey(rate) /\ grants \in [RateKeys -> Logs(MaxWindow)]
      /\ ValidRateLimitConfig(c) /\ c.ttl = 0 /\ MaxWindow \in Nat /\ key \in RateKeys
  BY ActiveLimit DEF RateInv
<1>2. /\ d.allowed = granted
      /\ d.entries \in Seq(RateEntries) /\ OnePerKey(d.entries)
      /\ \A j \in 1..Len(d.entries) :
             \/ d.entries[j].key = key /\ d.entries[j].age = next.age /\ d.entries[j].count = n
             \/ \E i \in 1..Len(rate) : d.entries[j] = rate[i] /\ rate[i].key # key
  <2> HIDE DEF c, key
  <2> QED
    BY <1>1, CheckEntries
<1>3. /\ d.allowed = allowed /\ rate' = d.entries
      /\ grants' = Forget(IF allowed THEN [grants EXCEPT ![key][0] = @ + 1] ELSE grants, kept)
  BY DEF CheckRate
<1>4. c' = c
  BY DEF Active
<1>5. ASSUME NEW e, e.age = next.age, e.count = n
      PROVE  log \in Logs(MaxWindow) /\ RateTracked(c, e, log)
  <2> HIDE DEF key
  <2> QED
    BY <1>1, <1>5, CheckTracked
<1>6. log \in Logs(MaxWindow)
  <2> DEFINE e == [age |-> next.age, count |-> n]
  <2>1. e.age = next.age /\ e.count = n
    OBVIOUS
  <2> HIDE DEF e, n, log, next
  <2> QED
    BY <1>5, <2>1
<1> HIDE DEF c, key, d, next
<1>7. (IF allowed THEN [grants EXCEPT ![key][0] = @ + 1] ELSE grants) = new
  <2>1. allowed = granted
    BY <1>2, <1>3
  <2>2. [grants EXCEPT ![key] = grants[key]] = grants
    BY <1>1
  <2> HIDE DEF granted
  <2> QED
    BY <2>1, <2>2
<1>8. grants' = Forget(new, kept)
  BY <1>3, <1>7
<1> HIDE DEF log, n
<1>9. /\ new \in [RateKeys -> Logs(MaxWindow)] /\ new[key] = log
      /\ \A k \in RateKeys : k # key => new[k] = grants[k]
  BY <1>1, <1>6
<1>10. \A j \in 1..Len(rate') : rate'[j].key \in kept
  BY DEF LimitedKeys
<1> HIDE DEF new, kept
<1>11. /\ Forget(new, kept) \in [RateKeys -> Logs(MaxWindow)]
       /\ \A k \in RateKeys \cap kept : Forget(new, kept)[k] = new[k]
       /\ \A k \in RateKeys \ kept : NoEntry(Forget(new, kept)[k], MaxWindow)
  BY <1>1, <1>9, Forgotten
<1>12. ASSUME NEW j \in 1..Len(rate') PROVE RateTracked(c, rate'[j], grants'[rate'[j].key])
  <2> DEFINE e == rate'[j]
  <2>1. /\ e.key \in kept
        /\ \/ e.key = key /\ e.age = next.age /\ e.count = n
           \/ \E i \in 1..Len(rate) : e = rate[i] /\ rate[i].key # key
    BY <1>2, <1>3, <1>10
  <2>2. e.key \in RateKeys
    <3>1. e \in RateEntries
      BY <1>2, <1>3
    <3> HIDE DEF e
    <3> QED
      BY <3>1 DEF RateEntries
  <2> HIDE DEF e
  <2>3. grants'[e.key] = new[e.key]
    BY <1>8, <1>11, <2>1, <2>2
  <2>4. CASE e.key = key /\ e.age = next.age /\ e.count = n
    <3>1. RateTracked(c, e, log)
      BY <1>5, <2>4
    <3> QED
      BY <1>9, <2>3, <2>4, <3>1 DEF e
  <2>5. ASSUME NEW i \in 1..Len(rate), e = rate[i], rate[i].key # key
        PROVE  RateTracked(c, e, grants'[e.key])
    <3>1. RateTracked(c, e, grants[e.key])
      BY <2>5 DEF RateInv, c
    <3> QED
      BY <1>9, <2>2, <2>3, <2>5, <3>1
  <2>6. RateTracked(c, e, grants'[e.key])
    BY <2>1, <2>4, <2>5 DEF e
  <2> QED
    BY <2>6 DEF e
<1>13. \A j \in 1..Len(rate') : RateTracked(c', rate'[j], grants'[rate'[j].key])
  BY <1>4, <1>12
<1>14. /\ grants' \in [RateKeys -> Logs(MaxWindow)]
       /\ \A k \in RateKeys \ kept : NoEntry(grants'[k], MaxWindow)
  BY <1>8, <1>11
<1>15. rate' \in Seq(RateEntries) /\ OnePerKey(rate')
  BY <1>2, <1>3
<1> QED
  BY <1>13, <1>14, <1>15 DEF RateInv, c, kept

\* Time passes for the rate limiter and its history alike.
LEMMA RateAges ==
    ASSUME Configured, RateInv, Tick
    PROVE  RateInv'
<1> DEFINE c == Active.rateLimit
<1>1. /\ rate \in Seq(RateEntries) /\ OnePerKey(rate) /\ grants \in [RateKeys -> Logs(MaxWindow)]
      /\ c.window \in 1..MaxWindow /\ c.ttl = 0 /\ c.requests \in Nat \ {0} /\ MaxWindow \in Nat
      /\ ValidRateLimitConfig(c)
  BY ActiveLimit DEF RateInv
<1>2. c' = c
  BY DEF Tick, Active
<1> DEFINE a(e) == IF e.age < c.window THEN e.age + 1 ELSE e.age
           b(e) == IF c.ttl > 0 /\ e.idle <= c.ttl THEN e.idle + 1 ELSE e.idle
           older(e) == [e EXCEPT !.age = a(e), !.idle = b(e)]
<1>3. rate' = [i \in 1..Len(rate) |-> older(rate[i])] /\ grants' = AgeLog(grants, c.window)
  BY DEF Tick, AgeRateLimit
<1>4. ASSUME NEW i \in 1..Len(rate)
      PROVE  /\ rate'[i] \in RateEntries /\ rate'[i].key = rate[i].key
             /\ rate'[i].count = rate[i].count /\ rate[i].age \in Nat /\ rate[i].key \in RateKeys
             /\ rate'[i].age = IF rate[i].age < c.window THEN rate[i].age + 1 ELSE rate[i].age
  <2> DEFINE e == rate[i]
  <2>1. e \in RateEntries /\ e.age \in Nat /\ e.idle \in Nat /\ e.key \in RateKeys
    <3>1. e \in RateEntries
      BY <1>1
    <3> HIDE DEF e
    <3> QED
      BY <3>1 DEF RateEntries
  <2>2. rate'[i] = [e EXCEPT !.age = a(e), !.idle = b(e)]
    BY <1>3
  <2>3. c.ttl \in Nat /\ c.window \in Nat
    BY <1>1
  <2> HIDE DEF e, c
  <2>4. a(e) \in Nat /\ b(e) \in Nat
    BY <2>1, <2>3
  <2> HIDE DEF a, b
  <2>5. /\ rate'[i] \in RateEntries /\ rate'[i].key = e.key /\ rate'[i].count = e.count
        /\ rate'[i].age = a(e)
    BY <2>1, <2>2, <2>4 DEF RateEntries
  <2> QED
    BY <2>1, <2>5 DEF e, a
<1> HIDE DEF older
<1>5. rate' \in Seq(RateEntries) /\ Len(rate') = Len(rate)
  <2>1. Len(rate) \in Nat /\ rate' = [i \in 1..Len(rate) |-> rate'[i]]
    BY <1>1, <1>3
  <2>2. \A i \in 1..Len(rate) : rate'[i] \in RateEntries
    BY <1>4
  <2>3. rate' \in [1..Len(rate) -> RateEntries]
    BY <2>1, <2>2
  <2> HIDE DEF c
  <2> QED
    BY <2>1, <2>3
<1> HIDE DEF c
<1>6. OnePerKey(rate') /\ LimitedKeys(rate') = LimitedKeys(rate)
  <2>1. OnePerKey(rate')
    BY <1>1, <1>4, <1>5 DEF OnePerKey
  <2>2. LimitedKeys(rate') = LimitedKeys(rate)
    BY <1>4, <1>5 DEF LimitedKeys
  <2> QED
    BY <2>1, <2>2
<1>7. /\ grants' \in [RateKeys -> Logs(MaxWindow)]
      /\ \A k \in RateKeys : grants'[k] = Aged(grants[k], c.window)
      /\ \A k \in RateKeys : NoEntry(grants[k], MaxWindow) => NoEntry(grants'[k], MaxWindow)
  <2>1. /\ AgeLog(grants, c.window) \in [RateKeys -> Logs(MaxWindow)]
        /\ \A k \in RateKeys : AgeLog(grants, c.window)[k] = Aged(grants[k], c.window)
        /\ \A k \in RateKeys :
               NoEntry(grants[k], MaxWindow) => NoEntry(AgeLog(grants, c.window)[k], MaxWindow)
    <3>1. grants \in [RateKeys -> Logs(MaxWindow)] /\ c.window \in 1..MaxWindow /\ MaxWindow \in Nat
      BY <1>1
    <3> QED
      BY <3>1, AgedLogs
  <2>2. grants' = AgeLog(grants, c.window)
    BY <1>3
  <2> QED
    BY <2>1, <2>2
<1>8. ASSUME NEW i \in 1..Len(rate') PROVE RateTracked(c, rate'[i], grants'[rate'[i].key])
  <2> DEFINE e == rate[i]
             o == rate'[i]
             old == grants[e.key]
             log == Aged(old, c.window)
  <2>1. /\ o.key = e.key /\ o.count = e.count /\ e.age \in Nat /\ e.key \in RateKeys
        /\ o.age = IF e.age < c.window THEN e.age + 1 ELSE e.age
    BY <1>4, <1>5
  <2>2. Paced(e.age, old, c.window, c.requests) /\ (e.age < c.window => e.count = Sum(old, e.age + 1))
    BY <1>5 DEF RateInv, RateTracked, c
  <2>3. old \in Logs(MaxWindow) /\ grants'[o.key] = log
    BY <1>1, <1>7, <2>1
  <2> HIDE DEF e, o, old
  <2>4. /\ Paced(o.age, log, c.window, c.requests)
        /\ e.age + 1 < c.window => Sum(log, e.age + 2) = Sum(old, e.age + 1)
    BY <1>1, <2>1, <2>2, <2>3, PacedAged
  <2> HIDE DEF log
  <2>5. ASSUME o.age < c.window PROVE o.count = Sum(log, o.age + 1)
    <3>1. e.age < c.window /\ e.age + 1 < c.window /\ o.age + 1 = e.age + 2
      BY <1>1, <2>1, <2>5
    <3> QED
      BY <2>1, <2>2, <2>4, <3>1
  <2>6. RateTracked(c, o, grants'[o.key])
    BY <2>3, <2>4, <2>5 DEF RateTracked
  <2> QED
    BY <2>6 DEF o
<1>9. \A k \in RateKeys \ LimitedKeys(rate') : NoEntry(grants'[k], MaxWindow)
  BY <1>6, <1>7 DEF RateInv
<1>10. \A i \in 1..Len(rate') : RateTracked(c', rate'[i], grants'[rate'[i].key])
  BY <1>2, <1>8
<1> QED
  BY <1>5, <1>6, <1>7, <1>9, <1>10 DEF RateInv, c

\* The requests that are counted have a key of their own.
LEMMA KeyOfCounted ==
    ASSUME NEW m, m.source \in Sources,
           classifyRuntimeRoute(m.method, m.path) \in {"data_plane", "runtime_config", "runtime_inspect"}
    PROVE  gatewayRateLimitKey(m) \in RateKeys
<1>1. trustClass(classifyRuntimeRoute(m.method, m.path)) \in Classes
  <2> DEFINE route == classifyRuntimeRoute(m.method, m.path)
  <2> HIDE DEF route
  <2>1. route \in {"data_plane", "runtime_config", "runtime_inspect"} => trustClass(route) \in Classes
    BY DEF trustClass, Classes
  <2> QED
    BY <2>1 DEF route
<1> QED
  BY <1>1 DEF gatewayRateLimitKey, RateKeys

\* Nobody was granted anything yet: at the start, and after a reload.
LEMMA NoneGranted ==
    ASSUME NEW log, log = NoGrants
    PROVE  /\ log \in [RateKeys -> Logs(MaxWindow)]
           /\ \A k \in RateKeys : NoEntry(log[k], MaxWindow)
BY DEF NoGrants, Logs, NoEntry

\* Every step keeps the rate limiter and its history together.
LEMMA RateStep ==
    ASSUME Configured, RateInv, [Next]_vars
    PROVE  RateInv'
<1>1. ASSUME rate' = rate, grants' = grants, config' = config PROVE RateInv'
  <2>1. Active' = Active
    BY <1>1 DEF Active
  <2> QED
    BY <1>1, <2>1 DEF RateInv, OnePerKey, LimitedKeys
<1>2. ASSUME NEW name \in Workload[workload].messages, Arrival(name) PROVE RateInv'
  <2> DEFINE m == Message[name]
  <2>1. m.source \in Sources
    BY RequestPathAssumption DEF Configured
  <2>2. ASSUME NEW route \in {"data_plane", "runtime_config", "runtime_inspect"}, Admits(m, route),
               NEW allowed \in BOOLEAN, CheckRate(m, allowed)
        PROVE  RateInv'
    <3>1. classifyRuntimeRoute(m.method, m.path) = route /\ config' = config
      BY <2>2 DEF Admits
    <3> HIDE DEF m
    <3>2. gatewayRateLimitKey(m) \in RateKeys
      BY <2>1, <3>1, KeyOfCounted
    <3> QED
      BY <2>2, <3>1, <3>2, CheckStep
  <2>3. CASE HealthProbe(m) \/ FailedAuth(m) \/ NotFound(m)
    <3>1. rate' = rate /\ grants' = grants /\ config' = config
      BY <2>3 DEF HealthProbe, FailedAuth, NotFound, Admits
    <3> QED
      BY <1>1, <3>1
  <2>4. CASE RateLimited(m)
    BY <2>2, <2>4 DEF RateLimited
  <2>5. CASE RuntimeConfigRead(m)
    BY <2>2, <2>5 DEF RuntimeConfigRead
  <2>6. CASE RuntimeInspectRead(m)
    BY <2>2, <2>6 DEF RuntimeInspectRead
  <2>7. ASSUME NEW r \in Slots, DataPlaneRequest(name, r) PROVE RateInv'
    <3>1. Admits(m, "data_plane") /\ CheckRate(m, TRUE)
      BY <2>7 DEF DataPlaneRequest
    <3> QED
      BY <2>2, <3>1
  <2> QED
    BY <1>2, <2>3, <2>4, <2>5, <2>6, <2>7 DEF Arrival
<1>3. ASSUME NEW r \in Slots, Progress(r) PROVE RateInv'
  <2>1. rate' = rate /\ grants' = grants /\ config' = config
    BY <1>3 DEF Progress, ReadFails, BodyRejected, StreamRefused, ProxyRefused, Forward,
       LookupAnswers, FetchFails, FetchResponds, BufferEnds, Deliver, limiterVars
  <2> QED
    BY <1>1, <2>1
<1>4. CASE Tick
  BY <1>4, RateAges
<1>5. CASE Reload
  <2>1. rate' = <<>> /\ grants' = NoGrants
    BY <1>5 DEF Reload
  <2>2. /\ grants' \in [RateKeys -> Logs(MaxWindow)]
        /\ \A k \in RateKeys : NoEntry(grants'[k], MaxWindow)
    BY <2>1, NoneGranted
  <2>3. rate' \in Seq(RateEntries) /\ Len(rate') = 0
    BY <2>1
  <2> QED
    BY <2>2, <2>3 DEF RateInv, OnePerKey
<1>6. CASE PruneTimerFires \/ (\E h \in Hostnames : CacheEntryExpires(h)) \/ UNCHANGED vars
  <2>1. rate' = rate /\ grants' = grants /\ config' = config
    BY <1>6 DEF PruneTimerFires, CacheEntryExpires, vars, limiterVars
  <2> QED
    BY <1>1, <2>1
<1> QED
  BY <1>2, <1>3, <1>4, <1>5, <1>6 DEF Next

\* The rate limiter starts empty.
LEMMA RateInit == Init => RateInv
<1> SUFFICES ASSUME Init PROVE RateInv
  OBVIOUS
<1>1. rate = <<>> /\ grants = NoGrants
  BY DEF Init
<1>2. grants \in [RateKeys -> Logs(MaxWindow)] /\ \A k \in RateKeys : NoEntry(grants[k], MaxWindow)
  BY <1>1, NoneGranted
<1>3. rate \in Seq(RateEntries) /\ Len(rate) = 0
  BY <1>1
<1> QED
  BY <1>2, <1>3 DEF RateInv, OnePerKey

\* The history of a caller is within twice its budget.
LEMMA RateBudget == Configured /\ RateInv => SlidingBudget
<1> SUFFICES ASSUME Configured, RateInv, NEW k \in RateKeys
             PROVE  Sum(grants[k], Active.rateLimit.window) <= 2 * Active.rateLimit.requests - 1
  BY DEF SlidingBudget
<1> DEFINE W == Active.rateLimit.window
           R == Active.rateLimit.requests
           log == grants[k]
<1>1. MaxWindow \in Nat /\ W \in 1..MaxWindow /\ R \in Nat \ {0}
  BY ActiveLimit
<1>2. log \in Logs(MaxWindow)
  BY DEF RateInv
<1>3. CASE k \in LimitedKeys(rate)
  <2>1. PICK i \in 1..Len(rate) : rate[i].key = k
    BY <1>3 DEF LimitedKeys
  <2>2. Paced(rate[i].age, log, W, R)
    BY <2>1 DEF RateInv, RateTracked
  <2> HIDE DEF W, R, log
  <2>3. Sum(log, W) <= 2 * R - 1
    BY <1>1, <1>2, <2>2, PacedBound
  <2> QED
    BY <2>3 DEF W, R, log
<1>4. CASE k \notin LimitedKeys(rate)
  <2>1. NoEntry(log, MaxWindow)
    BY <1>4 DEF RateInv
  <2> HIDE DEF W, R, log
  <2>2. Sum(log, W) = 0
    BY <1>1, <1>2, <2>1, SumZero DEF NoEntry
  <2>3. Sum(log, W) <= 2 * R - 1
    BY <1>1, <2>2
  <2> QED
    BY <2>3 DEF W, R, log
<1> QED
  BY <1>3, <1>4

\* Within any window's length a caller is granted at most one request less
\* than two budgets of the active configuration, whatever other callers and
\* evictions come between, and a reload starts the count again.
THEOREM GrantsBounded == Spec => []SlidingBudget
<1>1. Configured /\ RateInv /\ [Next]_vars => Configured' /\ RateInv'
  BY RateStep, StaysConfigured
<1> QED
  BY <1>1, RateInit, RateBudget, StaysConfigured, PTL DEF Spec
=============================================================================
