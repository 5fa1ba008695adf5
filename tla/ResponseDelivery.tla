-------------------------- MODULE ResponseDelivery --------------------------
(***************************************************************************)
(* handleUpstreamResponseForOpenAiClient, ...ForAnthropicClient and the    *)
(* two streaming loops: how an upstream response reaches the client.       *)
(*                                                                         *)
(* req[r] is the request in slot r:                                        *)
(*   pc        where its handler waits                                     *)
(*   upstream  the upstream body: "none", "open", "released", or           *)
(*             "abandoned" (neither read to its end nor cancelled)         *)
(*   pinned    the class of the address the transport was pinned to, or    *)
(*             "no" when fetch resolved the host itself                    *)
(*   response  the client's response: "open", "ended" (end was called),    *)
(*             "finished", "closed" (the client left) or "destroyed"       *)
(*   sent      response.headersSent                                        *)
(*   body      how much of the upstream body the response was given        *)
(*   aborted   the reason of the abort controller, or "no"                 *)
(*   done      the terminal [DONE] chunk was written                       *)
(*   failed    the upstream status is 400 or more                          *)
(* and the message, the configuration and the capture it works with.       *)
(*                                                                         *)
(* Timers of a stream are armed exactly while it is not aborted and the    *)
(* upstream is open, so they need no state of their own.  Everything a     *)
(* callback does, up to the next await that really waits, is one step: a   *)
(* nextTick or a promise job runs before any other event.                  *)
(***************************************************************************)
EXTENDS Naturals

CONSTANTS Slots,  \* bound: requests in progress at a time
          None

VARIABLE req

deliveryVars == <<req>>

StreamPcs == {"piping", "translating", "blocked", "closing"}

In(r, pc) == req[r].pc = pc

Idle == [pc |-> "idle", upstream |-> "none", pinned |-> "no", response |-> "finished",
         sent |-> FALSE, body |-> "none", aborted |-> "no", done |-> FALSE,
         failed |-> FALSE, capture |-> None, msg |-> None, config |-> None]

\* Of a request that is over only how it ended is kept.
Settled(d) ==
    IF d.pc = "done"
    THEN [Idle EXCEPT !.pc = "done", !.upstream = d.upstream, !.response = d.response,
                      !.body = d.body, !.aborted = d.aborted]
    ELSE d

Set(r, d) == req' = [req EXCEPT ![r] = Settled(d)]

Released(d) == [d EXCEPT !.upstream = IF @ = "open" THEN "released" ELSE @]

\* response.end() on a response whose client is gone does nothing.
End(d) == [d EXCEPT !.response = IF @ = "open" THEN "ended" ELSE @, !.sent = TRUE]

sendJsonError(d) == [End(d) EXCEPT !.pc = "done"]

sendJsonErrorIfWritable(d) ==
    IF d.sent \/ d.response = "ended"
    THEN [d EXCEPT !.response = IF @ = "closed" THEN @ ELSE "destroyed", !.pc = "done"]
    ELSE sendJsonError(d)

\* Mutant: the reader is left as it is.
UndeliveredUncancelled(d) == sendJsonErrorIfWritable(d)

\* handleResponse threw and executeProxyRequest caught it.
Undelivered(d) == sendJsonErrorIfWritable(Released(d))

Given(d, amount) == [d EXCEPT !.body = amount, !.sent = TRUE]

-----------------------------------------------------------------------------
(* bufferResponseWithinLimit and sendBufferedResponse.                     *)

\* A response whose declared length is over the limit is refused before a
\* reader is taken: its body is left as it is.
BufferDeclaredTooLarge(d) ==
    sendJsonErrorIfWritable([d EXCEPT !.upstream = "abandoned"])

sendBufferedResponse(d) ==
    [End(Given(Released(d), "whole")) EXCEPT !.pc = "done"]

\* The reader met the limit or an error; it is cancelled all the same.
BufferFails(r) ==
    /\ In(r, "buffering")
    /\ Set(r, Undelivered(req[r]))

\* The signal that timed the request out also fails the body, but only when
\* fetch itself made the request: the pinned transport stops listening to it
\* once the headers are there.
BufferTimesOut(r) ==
    /\ In(r, "buffering")
    /\ req[r].pinned = "no"
    /\ Set(r, Undelivered(req[r]))

-----------------------------------------------------------------------------
(* pipeOpenAiStreamingResponse.                                            *)

\* abortStream and its onAbort: the timers stop and the stream is destroyed
\* without an error.
abortStream(d, reason) ==
    IF d.aborted = "no" THEN [Released(d) EXCEPT !.aborted = reason] ELSE d

\* Mutant: the limit ends the response the way the idle timeout does.
ExceedAndEnd(d) == End(abortStream(d, "limit"))

\* The stream is destroyed by the abort, so destroying it with the error does
\* nothing any more and no error event follows.
exceedStreamLimit(d) == abortStream(d, "limit")

\* A response whose client left before the stream began has emitted its close
\* event already: no listener hears of it, nothing written to it is finished,
\* and nothing that happens to the stream can end the wait.
Orphaned(r) == In(r, "piping") /\ req[r].response = "closed"

PipeData(r) ==
    /\ In(r, "piping") /\ req[r].upstream = "open"
    /\ Set(r, Given(req[r], "part"))

\* The chunk that exceeds streamMaxTotalBytes is still written.
PipeOversized(r) ==
    /\ In(r, "piping") /\ req[r].upstream = "open"
    /\ Set(r, exceedStreamLimit(Given(req[r], "part")))

PipeLimit(r) ==
    /\ In(r, "piping") /\ req[r].upstream = "open"
    /\ Set(r, exceedStreamLimit(req[r]))

PipeIdle(r) ==
    /\ In(r, "piping") /\ req[r].upstream = "open"
    /\ Set(r, End(abortStream(req[r], "idle")))

PipeEnd(r) ==
    /\ In(r, "piping") /\ req[r].upstream = "open"
    /\ Set(r, End(Released(Given(req[r], "whole"))))

PipeError(r) ==
    /\ In(r, "piping") /\ req[r].upstream = "open"
    /\ Set(r, Undelivered(req[r]))

PipeFinish(r) ==
    /\ In(r, "piping") /\ req[r].response = "ended"
    /\ Set(r, [req[r] EXCEPT !.response = "finished", !.pc = "done"])

-----------------------------------------------------------------------------
(* pipeAnthropicStreamingToOpenAi.  It waits for the reader                *)
(* ("translating"), for the client to take a chunk ("blocked"), or for the *)
(* client to take the final [DONE] ("closing").                            *)

\* The loop is left with an aborted controller; the reader is cancelled.
TranslationAborted(d) ==
    IF d.aborted = "limit" THEN sendJsonErrorIfWritable(d)
    ELSE [d EXCEPT !.pc = "done"]

\* The events of a chunk are translated and written; an event that is not
\* complete yet writes nothing, and neither does one for a client that left.
TranslateChunk(r) ==
    /\ In(r, "translating")
    /\ req[r].response = "open"
    /\ \E last \in BOOLEAN, blocks \in BOOLEAN :
           Set(r, [Given(req[r], "part") EXCEPT !.done = @ \/ last,
                                                !.pc = IF blocks THEN "blocked" ELSE @])

\* The chunk is over streamMaxTotalBytes or streamMaxEventBytes, it holds an
\* event that cannot be translated, or the reader fails.
TranslateFails(r) ==
    /\ In(r, "translating")
    /\ Set(r, Undelivered(req[r]))

TranslateLimit(r) ==
    /\ In(r, "translating")
    /\ Set(r, TranslationAborted(abortStream(req[r], "limit")))

TranslateIdle(r) ==
    /\ In(r, "translating")
    /\ Set(r, TranslationAborted(End(abortStream(req[r], "idle"))))

\* Mutant: what is left in the buffer is ignored.
TranslateEndUnchecked(r) ==
    /\ In(r, "translating")
    /\ \E complete \in BOOLEAN :
           Set(r, [End(Released(Given(req[r], IF complete THEN "whole" ELSE "part")))
                       EXCEPT !.pc = "done"])

\* The upstream ended.  Nothing more is done for a client that left.  Else an
\* incomplete event is left in the buffer, or [DONE] is written, unless it
\* was, and the response ends.
TranslateEnd(r) ==
    LET whole == Released(Given(req[r], "whole"))
    IN  /\ In(r, "translating")
        /\ IF req[r].response # "open" THEN Set(r, [Released(req[r]) EXCEPT !.pc = "done"])
           ELSE \/ Set(r, Undelivered(req[r]))
                \/ Set(r, [End(whole) EXCEPT !.pc = "done"])
                \/ ~req[r].done /\ Set(r, [whole EXCEPT !.done = TRUE, !.pc = "closing"])

\* Timers fire while a write waits for the client; only the client's side
\* can end the wait.
BlockedLimit(r) ==
    /\ In(r, "blocked") /\ req[r].aborted = "no"
    /\ Set(r, abortStream(req[r], "limit"))

BlockedIdle(r) ==
    /\ In(r, "blocked") /\ req[r].aborted = "no"
    /\ Set(r, End(abortStream(req[r], "idle")))

\* drain, or finish when the response was ended meanwhile.
Drained(r) ==
    \/ /\ In(r, "blocked") /\ req[r].aborted = "no"
       /\ Set(r, [req[r] EXCEPT !.pc = "translating"])
    \/ /\ In(r, "blocked") /\ req[r].aborted # "no" /\ req[r].response # "closed"
       /\ Set(r, TranslationAborted(
                     [req[r] EXCEPT !.response = IF @ = "ended" THEN "finished" ELSE @]))
    \/ /\ In(r, "closing")
       /\ Set(r, [End(req[r]) EXCEPT !.pc = "done"])

-----------------------------------------------------------------------------
\* Mutant: a write that waits for the client listens for drain only.
ClientLeavesUnheard(r) ==
    /\ req[r].response \in {"open", "ended"}
    /\ LET gone    == [req[r] EXCEPT !.response = "closed"]
           aborted == abortStream(gone, "client")
       IN  \/ req[r].pc \in {"piping", "translating"} /\ Set(r, [aborted EXCEPT !.pc = "done"])
           \/ req[r].pc \in {"blocked", "closing"} /\ Set(r, aborted)
           \/ req[r].pc \in {"resolving", "fetching", "buffering"} /\ Set(r, gone)

\* The client closes the connection.  Only a stream listens for it; a
\* request in another place goes on for nobody.
ClientLeaves(r) ==
    /\ req[r].response \in {"open", "ended"}
    /\ LET gone    == [req[r] EXCEPT !.response = "closed"]
           aborted == abortStream(gone, "client")
       IN  \/ req[r].pc \in {"piping", "translating"} /\ Set(r, [aborted EXCEPT !.pc = "done"])
           \/ In(r, "blocked") /\ Set(r, TranslationAborted(aborted))
           \/ In(r, "closing") /\ Set(r, [gone EXCEPT !.pc = "done"])
           \/ req[r].pc \in {"resolving", "fetching", "buffering"} /\ Set(r, gone)

\* The steps of a response that touch nothing but the request itself.
DeliveryStep(r) ==
    \/ BufferFails(r) \/ BufferTimesOut(r)
    \/ PipeData(r) \/ PipeOversized(r) \/ PipeLimit(r) \/ PipeIdle(r)
    \/ PipeEnd(r) \/ PipeError(r) \/ PipeFinish(r)
    \/ TranslateChunk(r) \/ TranslateFails(r) \/ TranslateLimit(r)
    \/ TranslateIdle(r) \/ TranslateEnd(r)
    \/ BlockedLimit(r) \/ BlockedIdle(r) \/ Drained(r)
    \/ ClientLeaves(r)
=============================================================================
