---------------------- MODULE ObservationPipelineProofs ----------------------
(***************************************************************************)
(* The safety of ObservationPipeline for every batch size and limit, any   *)
(* number of observations and worker threads, and every order of events,   *)
(* timeouts, crashes and shutdown.                                         *)
(*                                                                         *)
(* None of its invariants is inductive.  What they rest on is that the     *)
(* gateway never has a second worker thread: whatever resets the handle    *)
(* has also ended persistence or the shutdown.  From that follows whose    *)
(* events are heard, which write a message is about, and that no           *)
(* observation is in two places.                                           *)
(***************************************************************************)
EXTENDS ObservationPipeline, FiniteSetTheorems, SequenceTheorems, TLAPS

Obs == Buffer!Observation

Message == [type : {"init", "write_batch", "close", "ready", "batch_written", "closed", "fatal",
                    "error", "exit"},
            seq : Nat, batch : SUBSET Obs]

Thread == [state : {"none", "alive", "dead"}, gen : Nat, listening : BOOLEAN,
           inbox : Seq(Message), outbox : Seq(Message),
           storeOpen : BOOLEAN, closeRequested : BOOLEAN, inFlight : SUBSET Message]

Flush == [pc : {"none", "awaitReady", "awaitWrite"}, batch : SUBSET Obs, seq : Nat]

Disposal == [pc : {"none", "awaitClose", "awaitOther", "terminating", "done"}, target : 0 .. MaxWorkers]

\* The types of the variables, as far as the safety of the pipeline depends on them.
TypeOK ==
    /\ queue \subseteq Obs /\ arrivals \in Nat
    /\ flush \in Flush /\ failed \in BOOLEAN
    /\ worker \in 0 .. MaxWorkers /\ generation \in Nat
    /\ sequence \in Nat /\ pending \subseteq Nat
    /\ thread \in [Workers -> Thread]
    /\ dispose \in [Disposer -> Disposal]

-----------------------------------------------------------------------------
\* What holds of a thread by itself: one that was never spawned has no messages, a
\* write is under way only with the store open, and "exit" is the last it says.
Sound(t) ==
    /\ t.state = "none" => t.inbox = << >> /\ t.outbox = << >> /\ t.inFlight = {} /\ ~t.listening
    /\ t.inFlight # {} => t.storeOpen
    /\ \A i \in 1 .. Len(t.outbox) :
           t.outbox[i].type = "exit" => i = Len(t.outbox) /\ t.state = "dead"

\* The event loop hears a thread, or may hear it later.
Heard(t) == t.listening /\ (t.state = "alive" \/ t.outbox # << >>)

Spawned(w)  == thread[w].state # "none"
Disposing(c) == dispose[c].pc \in {"awaitClose", "terminating"}

\* There is never a second thread, and it is the one the handle refers to as long as
\* it can be heard.
OneWorker ==
    /\ \A v, w \in Workers : Spawned(v) /\ Spawned(w) => v = w
    /\ worker # None => Spawned(worker) /\ thread[worker].gen = generation
    /\ \A w \in Workers : Spawned(w) /\ worker = None => failed \/ dispose["shutdown"].pc = "done"
    /\ \A w \in Workers : Heard(thread[w]) => worker = w

\* A disposal has a thread to dispose of, and does not listen to it while it is being
\* terminated; that of an error comes after the failure, that of the shutdown last.
Disposals ==
    /\ \A c \in Disposer : Disposing(c) => dispose[c].target # None /\ Spawned(dispose[c].target)
    /\ \A c \in Disposer : dispose[c].pc = "terminating" => ~thread[dispose[c].target].listening
    /\ dispose["error"].pc # "none" => failed
    /\ dispose["shutdown"].pc # "none" => phase \in {"dispose", "exited"}

\* Whoever has asked the worker to close has said so.
CloseIsFlagged == close # "none" => closing

\* What a flush waits for; one that has failed waits for nothing.
Flushes ==
    /\ failed => flush.pc = "none"
    /\ flush.pc = "awaitWrite" => flush.seq \in pending /\ worker # None
    /\ flush.pc = "awaitReady" => ready = "pending" \/ dispose["shutdown"].pc = "done"
    /\ phase # "exited" => \A s \in pending : flush.pc = "awaitWrite" /\ s = flush.seq

-----------------------------------------------------------------------------
Processed(b, sk, rs) == \A x \in b : x \in sk \/ \E r \in rs : r.obs = x.arrival

\* The places of inbox at which a batch is.
Writes(inbox) == {i \in 1 .. Len(inbox) : inbox[i].type = "write_batch"}

\* The writes thread t knows of, and those it has answered, have a number below n.
Below(t, n) ==
    /\ \A i \in Writes(t.inbox) : t.inbox[i].seq < n
    /\ \A m \in t.inFlight : m.seq < n
    /\ \A i \in 1 .. Len(t.outbox) : t.outbox[i].type = "batch_written" => t.outbox[i].seq < n

\* In thread t, the write numbered n is that of batch b: where it is still to be
\* done it has that batch, and where it is answered the batch is processed.
Carries(t, n, b, sk, rs) ==
    /\ \A i \in Writes(t.inbox) : t.inbox[i].seq = n => t.inbox[i].batch = b
    /\ \A m \in t.inFlight : m.seq = n => m.batch = b
    /\ \A i \in 1 .. Len(t.outbox) :
           t.outbox[i].type = "batch_written" /\ t.outbox[i].seq = n => Processed(b, sk, rs)

Numbered ==
    /\ worker # None => \A w \in Workers : Below(thread[w], sequence)
    /\ flush.pc = "awaitWrite" =>
           \A w \in Workers : Carries(thread[w], flush.seq, flush.batch, skipped, rows)

-----------------------------------------------------------------------------
\* The arrivals whose write has begun, and may be over.
Begun == {r.obs : r \in rows} \cup {x.arrival : x \in skipped}
         \cup {x.arrival : x \in UNION {m.batch : m \in UNION {thread[w].inFlight : w \in Workers}}}

Held == IF flush.pc = "awaitReady" THEN flush.batch ELSE {}

Apart(a, b) == \A x \in a, y \in b : x.arrival # y.arrival

Fresh(b) == \A x \in b : x.arrival < arrivals /\ x.arrival \notin Begun

\* An observation is in one place: the queue, the batch that waits for a worker, one
\* message, or written.
OnePlace ==
    /\ \A x, y \in queue : x.arrival = y.arrival => x = y
    /\ \A n \in Begun : n \in Nat /\ n < arrivals
    /\ Fresh(queue) /\ Fresh(Held) /\ Apart(queue, Held)
    /\ \A w \in Workers : \A i \in Writes(thread[w].inbox) :
          LET b == thread[w].inbox[i].batch
          IN  /\ Fresh(b) /\ Apart(queue, b) /\ Apart(Held, b)
              /\ \A j \in Writes(thread[w].inbox) : j # i => Apart(b, thread[w].inbox[j].batch)

Inv ==
    /\ TypeOK /\ \A w \in Workers : Sound(thread[w])
    /\ OneWorker /\ Disposals /\ NoOrphanWorker /\ CloseIsFlagged /\ Flushes
    /\ Numbered /\ AckMeansProcessed /\ OnePlace

-----------------------------------------------------------------------------
(***************************************************************************)
(* How one thread changes                                                  *)
(***************************************************************************)
\* Whatever happens to thread t but its spawning: it is as sound as it was, no
\* less dead and no easier to hear.
Base(t, t2) ==
    /\ t2 \in Thread /\ Sound(t2) /\ t2.gen = t.gen
    /\ t2.state = "none" <=> t.state = "none"
    /\ t2.state = "alive" => t.state = "alive"
    /\ t2.listening => t.listening
    /\ Heard(t2) => Heard(t)

\* Every answer to a write that t2 has to deliver is one of t, or answers a write
\* that t had under way and that is processed.
Answers(t, t2, sk, rs) ==
    \A i \in 1 .. Len(t2.outbox) : t2.outbox[i].type = "batch_written" =>
        \/ \E j \in 1 .. Len(t.outbox) : t.outbox[j] = t2.outbox[i]
        \/ \E m \in t.inFlight : m.seq = t2.outbox[i].seq /\ Processed(m.batch, sk, rs)

\* A thread that is sent no write.
Follows(t, t2, sk, rs) ==
    /\ Base(t, t2) /\ Answers(t, t2, sk, rs)
    /\ \E d \in {0, 1} : \A i \in Writes(t2.inbox) :
          i + d \in Writes(t.inbox) /\ t.inbox[i + d] = t2.inbox[i]
    /\ \A m \in t2.inFlight : m \in t.inFlight \/ \E i \in Writes(t.inbox) : m = t.inbox[i]

\* What the event loop does to a thread it sends no write to.
Mild(t, t2) ==
    /\ Base(t, t2) /\ t2.state = t.state /\ t2.inFlight = t.inFlight
    /\ \A i \in Writes(t2.inbox) : i \in Writes(t.inbox) /\ t.inbox[i] = t2.inbox[i]
    /\ \A i \in 1 .. Len(t2.outbox) : \E j \in 1 .. Len(t.outbox) : t.outbox[j] = t2.outbox[i]

\* The same, and m is put into its inbox.
Sends(t, t2, m) ==
    /\ Base(t, t2) /\ t2.state = t.state /\ t2.inFlight = t.inFlight
    /\ t2.inbox = Append(t.inbox, m)
    /\ \A i \in 1 .. Len(t2.outbox) : \E j \in 1 .. Len(t.outbox) : t.outbox[j] = t2.outbox[i]

\* A thread that is left alone.
LEMMA MildSame ==
    ASSUME NEW t \in Thread, Sound(t)
    PROVE  Mild(t, t)
BY DEF Mild, Base

\* One thing after the other.
LEMMA MildTrans ==
    ASSUME NEW t, NEW t1, NEW t2, Mild(t, t1), Mild(t1, t2)
    PROVE  Mild(t, t2)
BY DEF Mild, Base

\* An event is taken from the outbox.
LEMMA MildTaken ==
    ASSUME NEW t \in Thread, Sound(t), t.outbox # << >>,
           NEW t2, t2 = [t EXCEPT !.outbox = Tail(@)]
    PROVE  Mild(t, t2) /\ t2.outbox = Tail(t.outbox) /\ t2.inbox = t.inbox /\ t2.listening = t.listening
<1>1. /\ t.outbox \in Seq(Message) /\ Tail(t.outbox) \in Seq(Message) /\ Len(t.outbox) \in Nat \ {0}
      /\ Len(Tail(t.outbox)) = Len(t.outbox) - 1
      /\ \A i \in 1 .. Len(Tail(t.outbox)) : Tail(t.outbox)[i] = t.outbox[i + 1]
  BY DEF Thread
<1>2. t2 \in Thread
  BY <1>1 DEF Thread
<1>3. /\ t2.outbox = Tail(t.outbox) /\ t2.inbox = t.inbox /\ t2.listening = t.listening
      /\ t2.state = t.state /\ t2.gen = t.gen /\ t2.inFlight = t.inFlight /\ t2.storeOpen = t.storeOpen
  BY DEF Thread
<1>4. Sound(t2)
  BY <1>1, <1>3 DEF Sound
<1>5. \A i \in 1 .. Len(t2.outbox) : i + 1 \in 1 .. Len(t.outbox) /\ t.outbox[i + 1] = t2.outbox[i]
  BY <1>1, <1>3
<1>6. QED
  BY <1>2, <1>3, <1>4, <1>5 DEF Mild, Base, Heard

\* A message is put into the inbox.
LEMMA Posted ==
    ASSUME NEW t \in Thread, Sound(t), t.state # "none", NEW m \in Message,
           NEW t2, t2 = [t EXCEPT !.inbox = Append(@, m)]
    PROVE  /\ Sends(t, t2, m) /\ t2.outbox = t.outbox /\ t2.listening = t.listening
           /\ m.type # "write_batch" => Mild(t, t2)
<1>1. /\ t.inbox \in Seq(Message) /\ Append(t.inbox, m) \in Seq(Message) /\ Len(t.inbox) \in Nat
      /\ Len(Append(t.inbox, m)) = Len(t.inbox) + 1
      /\ \A i \in 1 .. Len(t.inbox) : Append(t.inbox, m)[i] = t.inbox[i]
      /\ Append(t.inbox, m)[Len(t.inbox) + 1] = m
  BY DEF Thread
<1>2. t2 \in Thread
  BY <1>1 DEF Thread
<1>3. /\ t2.inbox = Append(t.inbox, m) /\ t2.outbox = t.outbox /\ t2.listening = t.listening
      /\ t2.state = t.state /\ t2.gen = t.gen /\ t2.inFlight = t.inFlight /\ t2.storeOpen = t.storeOpen
  BY DEF Thread
<1>4. Sound(t2)
  BY <1>3 DEF Sound
<1>5. Base(t, t2)
  BY <1>2, <1>3, <1>4 DEF Base, Heard
<1>6. m.type # "write_batch" => \A i \in Writes(t2.inbox) : i \in Writes(t.inbox) /\ t.inbox[i] = t2.inbox[i]
  BY <1>1, <1>3 DEF Writes
<1>7. QED
  BY <1>3, <1>5, <1>6 DEF Mild, Sends

\* Its listeners are removed.
LEMMA MildUnlistened ==
    ASSUME NEW t \in Thread, Sound(t), NEW t2, t2 = [t EXCEPT !.listening = FALSE]
    PROVE  Mild(t, t2) /\ ~t2.listening /\ t2.outbox = t.outbox
<1>1. t2 \in Thread
  BY DEF Thread
<1>2. /\ t2.inbox = t.inbox /\ t2.outbox = t.outbox /\ t2.listening = FALSE
      /\ t2.state = t.state /\ t2.gen = t.gen /\ t2.inFlight = t.inFlight /\ t2.storeOpen = t.storeOpen
  BY DEF Thread
<1>3. QED
  BY <1>1, <1>2 DEF Mild, Base, Heard, Sound

\* A thread that is sent no write by the event loop follows itself.
LEMMA MildFollows ==
    ASSUME NEW t, NEW t2, NEW sk, NEW rs, Mild(t, t2)
    PROVE  Follows(t, t2, sk, rs)
<1>1. \A i \in Writes(t2.inbox) : i + 0 \in Writes(t.inbox) /\ t.inbox[i + 0] = t2.inbox[i]
  BY DEF Mild, Writes
<1>2. QED
  BY <1>1 DEF Mild, Follows, Answers

\* The outbox of a thread that lives has no "exit" in it.
LEMMA AliveNoExit ==
    ASSUME NEW t \in Thread, Sound(t), t.state = "alive"
    PROVE  \A i \in 1 .. Len(t.outbox) : t.outbox[i].type # "exit"
BY DEF Sound

\* What is appended to a sequence comes after what was in it.
LEMMA ConcatPlaces ==
    ASSUME NEW S, NEW a \in Seq(S), NEW b \in Seq(S), NEW c, c = a \o b
    PROVE  /\ c \in Seq(S) /\ Len(c) = Len(a) + Len(b)
           /\ \A i \in 1 .. Len(c) : \/ i \in 1 .. Len(a) /\ c[i] = a[i]
                                     \/ i - Len(a) \in 1 .. Len(b) /\ c[i] = b[i - Len(a)]
<1>1. Len(a) \in Nat /\ Len(b) \in Nat
  OBVIOUS
<1>2. /\ c \in Seq(S) /\ Len(c) = Len(a) + Len(b)
      /\ \A i \in 1 .. Len(a) + Len(b) : c[i] = IF i <= Len(a) THEN a[i] ELSE b[i - Len(a)]
  BY ConcatProperties, Zenon
<1>3. ASSUME NEW i \in 1 .. Len(c)
      PROVE  \/ i \in 1 .. Len(a) /\ c[i] = a[i]
             \/ i - Len(a) \in 1 .. Len(b) /\ c[i] = b[i - Len(a)]
  BY <1>1, <1>2
<1>4. QED
  BY <1>2, <1>3, Zenon

\* A message of the event loop is handled: t becomes f, the message leaves the inbox
\* and replies follow.
LEMMA WriterFollows ==
    ASSUME NEW t \in Thread, Sound(t), t.state = "alive", t.inbox # << >>, NEW sk, NEW rs,
           NEW f \in Thread, f.state = "alive", f.gen = t.gen, f.listening = t.listening,
           f.inbox = t.inbox, f.inFlight # {} => f.storeOpen,
           \A m \in f.inFlight : m \in t.inFlight \/ (m = Head(t.inbox) /\ m.type = "write_batch"),
           \A i \in 1 .. Len(f.outbox) : f.outbox[i].type \in {"exit", "batch_written"} =>
               \E j \in 1 .. Len(t.outbox) : t.outbox[j] = f.outbox[i],
           NEW replies \in Seq(Message),
           \A i \in 1 .. Len(replies) : replies[i].type \notin {"exit", "batch_written"},
           NEW t2 \in Thread, t2.inbox = Tail(t.inbox), t2.outbox = f.outbox \o replies,
           t2.listening = t.listening, t2.state = "alive", t2.gen = t.gen,
           t2.inFlight = f.inFlight, t2.storeOpen = f.storeOpen
    PROVE  Follows(t, t2, sk, rs)
<1>1. /\ t.inbox \in Seq(Message) /\ Tail(t.inbox) \in Seq(Message) /\ Len(t.inbox) \in Nat \ {0}
      /\ Len(Tail(t.inbox)) = Len(t.inbox) - 1
      /\ \A i \in 1 .. Len(Tail(t.inbox)) : Tail(t.inbox)[i] = t.inbox[i + 1]
      /\ Head(t.inbox) = t.inbox[1]
  BY DEF Thread
<1>2. f.outbox \in Seq(Message) /\ Len(f.outbox) \in Nat /\ Len(replies) \in Nat
  BY DEF Thread
<1>3. \A i \in 1 .. Len(t2.outbox) :
         \/ i \in 1 .. Len(f.outbox) /\ t2.outbox[i] = f.outbox[i]
         \/ i - Len(f.outbox) \in 1 .. Len(replies) /\ t2.outbox[i] = replies[i - Len(f.outbox)]
  BY <1>2, ConcatPlaces
<1>6. \A i \in 1 .. Len(t2.outbox) : t2.outbox[i].type \in {"exit", "batch_written"} =>
         \E j \in 1 .. Len(t.outbox) : t.outbox[j] = t2.outbox[i]
  BY <1>3
<1>7. Sound(t2)
  <2>1. \A i \in 1 .. Len(t2.outbox) : t2.outbox[i].type # "exit"
    BY <1>6, AliveNoExit
  <2>2. QED
    BY <2>1 DEF Sound
<1>8. Base(t, t2) /\ Answers(t, t2, sk, rs)
  BY <1>6, <1>7 DEF Base, Heard, Answers
<1>9. \A i \in Writes(t2.inbox) : i + 1 \in Writes(t.inbox) /\ t.inbox[i + 1] = t2.inbox[i]
  BY <1>1 DEF Writes
<1>10. \A m \in t2.inFlight : m \in t.inFlight \/ \E i \in Writes(t.inbox) : m = t.inbox[i]
  BY <1>1 DEF Writes
<1>11. QED
  BY <1>8, <1>9, <1>10 DEF Follows

\* closeWorkerStoreIfIdle changes the store and says "closed".
LEMMA ClosedThread ==
    ASSUME NEW t \in Thread, NEW t2, t2 = Closed(t)
    PROVE  /\ t2 \in Thread /\ t2.state = t.state /\ t2.gen = t.gen /\ t2.listening = t.listening
           /\ t2.inbox = t.inbox /\ t2.inFlight = t.inFlight
           /\ t2.outbox = Append(t.outbox, Msg("closed"))
           /\ \A i \in 1 .. Len(t2.outbox) : t2.outbox[i].type \in {"exit", "batch_written"} =>
                 i \in 1 .. Len(t.outbox) /\ t.outbox[i] = t2.outbox[i]
<1>1. Msg("closed") \in Message /\ Msg("closed").type = "closed"
  BY DEF Msg, Message
<1>2. t.outbox \in Seq(Message) /\ Append(t.outbox, Msg("closed")) \in Seq(Message)
  BY <1>1 DEF Thread
<1>3. t2 \in Thread
  BY <1>2 DEF Thread, Closed
<1>4. /\ t2.state = t.state /\ t2.gen = t.gen /\ t2.listening = t.listening
      /\ t2.inbox = t.inbox /\ t2.inFlight = t.inFlight
      /\ t2.outbox = Append(t.outbox, Msg("closed"))
  BY DEF Thread, Closed
<1>5. \A i \in 1 .. Len(t2.outbox) : \/ i \in 1 .. Len(t.outbox) /\ t2.outbox[i] = t.outbox[i]
                                    \/ t2.outbox[i] = Msg("closed")
  BY <1>1, <1>2, <1>4
<1>6. QED
  BY <1>1, <1>3, <1>4, <1>5

\* A batch is done: its write leaves the thread and is answered.
LEMMA FinishFollows ==
    ASSUME NEW t \in Thread, Sound(t), t.state = "alive", NEW msg \in t.inFlight, NEW sk, NEW rs,
           Processed(msg.batch, sk, rs), NEW reply \in Message, reply.type = "batch_written",
           reply.seq = msg.seq,
           NEW t2 \in Thread, t2.inbox = t.inbox, t2.listening = t.listening, t2.state = "alive",
           t2.gen = t.gen, t2.inFlight = t.inFlight \ {msg}, t2.inFlight # {} => t2.storeOpen,
           \A i \in 1 .. Len(t2.outbox) : t2.outbox[i].type \in {"exit", "batch_written"} =>
               t2.outbox[i] = reply \/ \E j \in 1 .. Len(t.outbox) : t.outbox[j] = t2.outbox[i]
    PROVE  Follows(t, t2, sk, rs)
<1>1. \A i \in 1 .. Len(t2.outbox) : t2.outbox[i].type # "exit"
  BY AliveNoExit
<1>2. Sound(t2)
  BY <1>1 DEF Sound
<1>3. Base(t, t2)
  BY <1>2 DEF Base, Heard
<1>4. Answers(t, t2, sk, rs)
  BY DEF Answers
<1>5. \A i \in Writes(t2.inbox) : i + 0 \in Writes(t.inbox) /\ t.inbox[i + 0] = t2.inbox[i]
  BY DEF Writes
<1>6. QED
  BY <1>3, <1>4, <1>5 DEF Follows

\* A thread stops where it is.
LEMMA StopFollows ==
    ASSUME NEW t \in Thread, Sound(t), t.state # "none", NEW sk, NEW rs,
           NEW ev \in Seq(Message), ev # << >> => t.state = "alive",
           \A i \in 1 .. Len(ev) : ev[i].type # "batch_written" /\ (ev[i].type = "exit" => i = Len(ev)),
           NEW t2 \in Thread, t2.outbox = t.outbox \o ev, t2.gen = t.gen, t2.listening = t.listening,
           t2.state = "dead", t2.inbox = << >>, t2.inFlight = {}
    PROVE  Follows(t, t2, sk, rs)
<1>1. t.outbox \in Seq(Message) /\ Len(t.outbox) \in Nat /\ Len(ev) \in Nat
  BY DEF Thread
<1>2. /\ Len(t2.outbox) = Len(t.outbox) + Len(ev)
      /\ \A i \in 1 .. Len(t2.outbox) :
            \/ i \in 1 .. Len(t.outbox) /\ t2.outbox[i] = t.outbox[i]
            \/ i - Len(t.outbox) \in 1 .. Len(ev) /\ t2.outbox[i] = ev[i - Len(t.outbox)]
  BY <1>1, ConcatPlaces
<1>6. \A i \in 1 .. Len(t2.outbox) : t2.outbox[i].type = "exit" => i = Len(t2.outbox)
  <2>1. CASE t.state = "alive"
    <3>1. \A i \in 1 .. Len(t.outbox) : t.outbox[i].type # "exit"
      BY <2>1, AliveNoExit
    <3>2. ASSUME NEW i \in 1 .. Len(t2.outbox), t2.outbox[i].type = "exit" PROVE i = Len(t2.outbox)
      <4>1. i - Len(t.outbox) \in 1 .. Len(ev) /\ t2.outbox[i] = ev[i - Len(t.outbox)]
        BY <1>2, <3>1, <3>2
      <4>2. i - Len(t.outbox) = Len(ev)
        BY <3>2, <4>1
      <4>3. QED
        BY <1>1, <1>2, <4>2
    <3>3. QED
      BY <3>2
  <2>2. CASE t.state # "alive"
    <3>1. ev = << >> /\ Len(ev) = 0
      BY <2>2
    <3>2. QED
      BY <1>1, <1>2, <3>1 DEF Sound
  <2>3. QED
    BY <2>1, <2>2
<1>7. Sound(t2)
  BY <1>6 DEF Sound
<1>8. Heard(t2) => Heard(t)
  <2>1. CASE t.state = "alive"
    BY <2>1 DEF Heard
  <2>2. CASE t.state # "alive"
    <3>1. ev = << >>
      BY <2>2
    <3>2. t2.outbox = t.outbox
      BY <1>1, <3>1
    <3>3. QED
      BY <3>2 DEF Heard
  <2>3. QED
    BY <2>1, <2>2
<1>9. Base(t, t2)
  BY <1>7, <1>8 DEF Base
<1>10. Answers(t, t2, sk, rs)
  BY <1>2 DEF Answers
<1>11. Writes(t2.inbox) = {}
  BY DEF Writes
<1>12. QED
  BY <1>9, <1>10, <1>11 DEF Follows

-----------------------------------------------------------------------------
(***************************************************************************)
(* What a step keeps, given what it does to the threads                    *)
(***************************************************************************)

\* A step that keeps the handle and makes no thread easier to hear.
LEMMA OneWorkerKept ==
    ASSUME Inv, \A v \in Workers : Base(thread[v], thread'[v]),
           worker' = worker, generation' = generation, failed => failed',
           dispose["shutdown"].pc = "done" => dispose'["shutdown"].pc = "done"
    PROVE  OneWorker'
<1>1. worker # None => worker \in Workers
  BY DEF Inv, TypeOK, None, Workers
<1>2. /\ \A v, w \in Workers : Spawned(v) /\ Spawned(w) => v = w
      /\ worker # None => Spawned(worker) /\ thread[worker].gen = generation
      /\ \A w \in Workers : Spawned(w) /\ worker = None => failed \/ dispose["shutdown"].pc = "done"
      /\ \A w \in Workers : Heard(thread[w]) => worker = w
  BY DEF Inv, OneWorker
<1>3. /\ \A v, w \in Workers : thread'[v].state # "none" /\ thread'[w].state # "none" => v = w
      /\ worker' # None => thread'[worker'].state # "none" /\ thread'[worker'].gen = generation'
      /\ \A w \in Workers : thread'[w].state # "none" /\ worker' = None =>
            failed' \/ dispose'["shutdown"].pc = "done"
      /\ \A w \in Workers : Heard(thread'[w]) => worker' = w
  BY <1>1, <1>2 DEF Base, Spawned
<1>4. QED
  BY <1>3 DEF OneWorker, Spawned, None, Heard

\* A step that resets the handle, when nothing can be heard any more and nothing
\* will start another thread.
LEMMA OneWorkerReset ==
    ASSUME Inv, \A v \in Workers : Base(thread[v], thread'[v]) /\ ~Heard(thread'[v]),
           worker' = None, failed' \/ dispose'["shutdown"].pc = "done"
    PROVE  OneWorker'
<1>1. \A v, w \in Workers : Spawned(v) /\ Spawned(w) => v = w
  BY DEF Inv, OneWorker
<1>2. \A v, w \in Workers : thread'[v].state # "none" /\ thread'[w].state # "none" => v = w
  BY <1>1 DEF Base, Spawned
<1>3. QED
  BY <1>2 DEF OneWorker, Spawned, None, Heard

\* A thread that follows knows of no other writes.
LEMMA BelowKept ==
    ASSUME NEW t, NEW t2, NEW sk, NEW rs, Follows(t, t2, sk, rs), NEW n, Below(t, n)
    PROVE  Below(t2, n)
BY DEF Below, Follows, Answers

\* What is processed stays processed.
LEMMA ProcessedKept ==
    ASSUME NEW b, NEW sk, NEW rs, NEW sk2, NEW rs2, sk \subseteq sk2, rs \subseteq rs2, Processed(b, sk, rs)
    PROVE  Processed(b, sk2, rs2)
BY DEF Processed

\* A thread that follows carries the same batch.
LEMMA CarriesKept ==
    ASSUME NEW t, NEW t2, NEW sk, NEW rs, NEW sk2, NEW rs2, NEW n, NEW b,
           sk \subseteq sk2, rs \subseteq rs2,
           Follows(t, t2, sk2, rs2), Carries(t, n, b, sk, rs)
    PROVE  Carries(t2, n, b, sk2, rs2)
<1>1. \A i \in Writes(t2.inbox) : t2.inbox[i].seq = n => t2.inbox[i].batch = b
  BY DEF Carries, Follows
<1>2. \A m \in t2.inFlight : m.seq = n => m.batch = b
  BY DEF Carries, Follows
<1>3. ASSUME NEW i \in 1 .. Len(t2.outbox), t2.outbox[i].type = "batch_written", t2.outbox[i].seq = n
      PROVE  Processed(b, sk2, rs2)
  <2>1. CASE \E j \in 1 .. Len(t.outbox) : t.outbox[j] = t2.outbox[i]
    <3>1. Processed(b, sk, rs)
      BY <1>3, <2>1 DEF Carries
    <3>2. QED
      BY <3>1, ProcessedKept
  <2>2. CASE \E m \in t.inFlight : m.seq = t2.outbox[i].seq /\ Processed(m.batch, sk2, rs2)
    BY <1>3, <2>2 DEF Carries
  <2>3. QED
    BY <1>3, <2>1, <2>2 DEF Follows, Answers
<1>4. QED
  BY <1>1, <1>2, <1>3 DEF Carries

\* A step that sends no write keeps the numbers.
LEMMA NumberedKept ==
    ASSUME Inv, \A v \in Workers : Follows(thread[v], thread'[v], skipped', rows'),
           rows \subseteq rows', skipped \subseteq skipped',
           flush' = flush \/ flush'.pc # "awaitWrite",
           (worker' = worker /\ sequence' = sequence) \/ worker' = None
    PROVE  Numbered'
<1>1. worker' # None => \A w \in Workers : Below(thread'[w], sequence')
  BY BelowKept DEF Inv, Numbered
<1>2. ASSUME flush'.pc = "awaitWrite", NEW w \in Workers
      PROVE  Carries(thread'[w], flush'.seq, flush'.batch, skipped', rows')
  <2>1. Carries(thread[w], flush.seq, flush.batch, skipped, rows) /\ flush' = flush
    BY <1>2 DEF Inv, Numbered
  <2>2. QED
    BY <2>1, CarriesKept
<1>3. QED
  BY <1>1, <1>2 DEF Numbered, None

\* What is under way and what is stored is what was.
LEMMA BegunSame ==
    ASSUME \A v \in Workers : thread'[v].inFlight = thread[v].inFlight, UNCHANGED storeVars
    PROVE  Begun' = Begun
<1>1. {thread'[w].inFlight : w \in Workers} = {thread[w].inFlight : w \in Workers}
  OBVIOUS
<1>2. QED
  BY <1>1 DEF Begun, storeVars

\* An observation stays in one place when nothing is put anywhere.
LEMMA PlacesKept ==
    ASSUME Inv, \A v \in Workers : Follows(thread[v], thread'[v], skipped', rows'),
           Begun' \subseteq Begun, queue' \subseteq queue, arrivals' = arrivals, Held' \subseteq Held
    PROVE  OnePlace'
<1>1. OnePlace
  BY DEF Inv
<1>2. /\ \A x, y \in queue' : x.arrival = y.arrival => x = y
      /\ \A n \in Begun' : n \in Nat /\ n < arrivals'
  BY <1>1 DEF OnePlace
<1>3. ASSUME NEW b, Fresh(b), NEW b2, b2 \subseteq b PROVE Fresh(b2)'
  BY <1>3 DEF Fresh
<1>4. Fresh(queue)' /\ Fresh(Held)'
  BY <1>1 DEF OnePlace, Fresh
<1>5. Apart(queue', Held')
  BY <1>1 DEF OnePlace, Apart
<1>6. ASSUME NEW w \in Workers, NEW i \in Writes(thread'[w].inbox)
      PROVE  /\ \A x \in thread'[w].inbox[i].batch : x.arrival < arrivals' /\ x.arrival \notin Begun'
             /\ Apart(queue', thread'[w].inbox[i].batch) /\ Apart(Held', thread'[w].inbox[i].batch)
             /\ \A j \in Writes(thread'[w].inbox) : j # i =>
                   Apart(thread'[w].inbox[i].batch, thread'[w].inbox[j].batch)
  <2>1. PICK d \in {0, 1} : \A k \in Writes(thread'[w].inbox) :
           k + d \in Writes(thread[w].inbox) /\ thread[w].inbox[k + d] = thread'[w].inbox[k]
    BY DEF Follows
  <2>2. /\ \A x \in thread[w].inbox[i + d].batch : x.arrival < arrivals /\ x.arrival \notin Begun
        /\ Apart(queue, thread[w].inbox[i + d].batch) /\ Apart(Held, thread[w].inbox[i + d].batch)
        /\ \A j \in Writes(thread[w].inbox) : j # i + d =>
              Apart(thread[w].inbox[i + d].batch, thread[w].inbox[j].batch)
    BY <1>1, <2>1 DEF OnePlace, Fresh
  <2>3. \A j \in Writes(thread'[w].inbox) : j # i => j + d # i + d
    BY <1>6 DEF Writes
  <2>4. \A j \in Writes(thread'[w].inbox) : j # i =>
           Apart(thread'[w].inbox[i].batch, thread'[w].inbox[j].batch)
    BY <2>1, <2>2, <2>3
  <2>5. Apart(queue', thread'[w].inbox[i].batch) /\ Apart(Held', thread'[w].inbox[i].batch)
    BY <2>1, <2>2 DEF Apart
  <2>6. \A x \in thread'[w].inbox[i].batch : x.arrival < arrivals' /\ x.arrival \notin Begun'
    BY <2>1, <2>2
  <2>7. QED
    BY <2>4, <2>5, <2>6
<1>7. QED
  BY <1>2, <1>4, <1>5, <1>6 DEF OnePlace, Fresh, Apart, Writes

\* What was acknowledged stays processed, and a flush is told so only of what is.
LEMMA AckedKept ==
    ASSUME Inv, rows \subseteq rows', skipped \subseteq skipped',
           acked' = acked \/ (acked' = acked \cup flush.batch /\ Processed(flush.batch, skipped', rows'))
    PROVE  AckMeansProcessed'
<1>1. Processed(acked, skipped, rows)
  BY DEF Inv, AckMeansProcessed, Processed
<1>2. Processed(acked, skipped', rows')
  BY <1>1, ProcessedKept
<1>3. Processed(acked', skipped', rows')
  BY <1>2 DEF Processed
<1>4. QED
  BY <1>3 DEF AckMeansProcessed, Processed

\* A step that starts no write, sends none and records nothing keeps the invariant, as
\* far as the handle, the disposals and the flush allow.
LEMMA StepKeeps ==
    ASSUME Inv, \A v \in Workers : Follows(thread[v], thread'[v], skipped', rows'),
           TypeOK', OneWorker', Disposals', NoOrphanWorker', CloseIsFlagged', Flushes',
           Begun' \subseteq Begun, rows \subseteq rows', skipped \subseteq skipped',
           queue' \subseteq queue, arrivals' = arrivals,
           flush' = flush \/ flush'.pc = "none",
           (worker' = worker /\ sequence' = sequence) \/ worker' = None,
           acked' = acked \/ (acked' = acked \cup flush.batch /\ Processed(flush.batch, skipped', rows'))
    PROVE  Inv'
<1>1. Numbered'
  BY NumberedKept
<1>2. Held' \subseteq Held
  BY DEF Held
<1>3. OnePlace'
  BY <1>2, PlacesKept
<1>4. AckMeansProcessed'
  BY AckedKept
<1>5. \A w \in Workers : Sound(thread'[w])
  BY DEF Follows, Base
<1>6. QED
  BY <1>1, <1>3, <1>4, <1>5 DEF Inv

\* A step of the event loop that keeps the handle.
LEMMA LoopKeeps ==
    ASSUME Inv, \A v \in Workers : Mild(thread[v], thread'[v]), UNCHANGED storeVars,
           thread' = [v \in Workers |-> thread'[v]],
           dispose' \in [Disposer -> Disposal], failed' \in BOOLEAN, failed => failed',
           worker' = worker, generation' = generation, sequence' = sequence, pending' \subseteq pending,
           dispose["shutdown"].pc = "done" => dispose'["shutdown"].pc = "done",
           Disposals', NoOrphanWorker', CloseIsFlagged', Flushes',
           queue' \subseteq queue, arrivals' = arrivals,
           flush' = flush \/ flush' = NoFlush,
           acked' = acked \/ (acked' = acked \cup flush.batch /\ Processed(flush.batch, skipped, rows))
    PROVE  Inv'
<1>1. \A v \in Workers : Base(thread[v], thread'[v]) /\ thread'[v].inFlight = thread[v].inFlight
  BY DEF Mild
<1>2. \A v \in Workers : thread'[v] \in Thread
  BY <1>1 DEF Base
<1>3. thread' \in [Workers -> Thread]
  BY <1>2, Zenon
<1>4. flush' \in Flush
  BY DEF Inv, TypeOK, Flush, NoFlush
<1>5. TypeOK'
  BY <1>3, <1>4 DEF Inv, TypeOK, Workers, Disposer, Thread, Message, Flush, Disposal, Obs
<1>6. OneWorker'
  BY <1>1, OneWorkerKept
<1>7. Begun' = Begun
  BY <1>1, BegunSame
<1>8. \A v \in Workers : Follows(thread[v], thread'[v], skipped', rows')
  BY MildFollows
<1>9. rows' = rows /\ skipped' = skipped
  BY DEF storeVars
<1>10. flush' = flush \/ flush'.pc = "none"
  BY DEF NoFlush
<1>11. QED
  BY <1>5, <1>6, <1>7, <1>8, <1>9, <1>10, StepKeeps

-----------------------------------------------------------------------------
(***************************************************************************)
(* How the threads and the disposals change                                *)
(***************************************************************************)

\* An event of thread w is handled.
LEMMA TakenMild ==
    ASSUME Inv, NEW w \in Workers, thread[w].outbox # << >>, NEW t, t = Taken(w)
    PROVE  /\ t \in [Workers -> Thread] /\ \A v \in Workers : Mild(thread[v], t[v])
           /\ t[w].outbox = Tail(thread[w].outbox) /\ t[w].inbox = thread[w].inbox
           /\ \A v \in Workers : v # w => t[v] = thread[v]
<1>1. thread \in [Workers -> Thread] /\ \A v \in Workers : Sound(thread[v])
  BY DEF Inv, TypeOK
<1>2. /\ t = [v \in Workers |-> t[v]]
      /\ t[w] = [thread[w] EXCEPT !.outbox = Tail(@)]
      /\ \A v \in Workers : v # w => t[v] = thread[v]
  BY <1>1 DEF Taken
<1>3. thread[w] \in Thread /\ Sound(thread[w])
  BY <1>1
<1>4. Mild(thread[w], t[w]) /\ t[w].outbox = Tail(thread[w].outbox) /\ t[w].inbox = thread[w].inbox
  BY <1>2, <1>3, MildTaken
<1>5. \A v \in Workers : Mild(thread[v], t[v])
  BY <1>1, <1>2, <1>4, MildSame
<1>6. \A v \in Workers : t[v] \in Thread
  BY <1>5 DEF Mild, Base
<1>7. t \in [Workers -> Thread]
  BY <1>2, <1>6, Zenon
<1>8. QED
  BY <1>2, <1>4, <1>5, <1>7

\* Threads that are being terminated lose their listeners.
LEMMA UnlistenedMild ==
    ASSUME NEW t \in [Workers -> Thread], \A v \in Workers : Sound(t[v]),
           NEW d \in [Disposer -> Disposal], NEW t2, t2 = Unlistened(t, d)
    PROVE  /\ t2 = [v \in Workers |-> t2[v]] /\ \A v \in Workers : Mild(t[v], t2[v])
           /\ \A v \in Workers : t2[v].outbox = t[v].outbox
           /\ \A c \in Disposer : d[c].pc = "terminating" /\ d[c].target \in Workers =>
                                      ~t2[d[c].target].listening
<1>1. t2 = [v \in Workers |-> t2[v]]
  BY DEF Unlistened
<1>2. ASSUME NEW v \in Workers
      PROVE  /\ Mild(t[v], t2[v]) /\ t2[v].outbox = t[v].outbox
             /\ (\E c \in Disposer : d[c].pc = "terminating" /\ d[c].target = v) => ~t2[v].listening
  <2>1. CASE \E c \in Disposer : d[c].pc = "terminating" /\ d[c].target = v
    <3>1. t2[v] = [t[v] EXCEPT !.listening = FALSE]
      BY <2>1 DEF Unlistened
    <3>2. QED
      BY <3>1, MildUnlistened
  <2>2. CASE ~ \E c \in Disposer : d[c].pc = "terminating" /\ d[c].target = v
    <3>1. t2[v] = t[v]
      BY <2>2 DEF Unlistened
    <3>2. QED
      BY <2>2, <3>1, MildSame
  <2>3. QED
    BY <2>1, <2>2
<1>3. QED
  BY <1>1, <1>2

\* The two together: what an event that settles the close promise does to the threads.
LEMMA TakenUnlistened ==
    ASSUME Inv, NEW w \in Workers, thread[w].outbox # << >>,
           NEW d \in [Disposer -> Disposal], NEW t2, t2 = Unlistened(Taken(w), d)
    PROVE  /\ t2 = [v \in Workers |-> t2[v]] /\ \A v \in Workers : Mild(thread[v], t2[v])
           /\ t2[w].outbox = Tail(thread[w].outbox)
           /\ \A c \in Disposer : d[c].pc = "terminating" /\ d[c].target \in Workers =>
                                      ~t2[d[c].target].listening
<1> DEFINE t == Taken(w)
<1> HIDE DEF t
<1>1. /\ t \in [Workers -> Thread] /\ \A v \in Workers : Mild(thread[v], t[v])
      /\ t[w].outbox = Tail(thread[w].outbox)
  BY TakenMild DEF t
<1>2. \A v \in Workers : Sound(t[v])
  BY <1>1 DEF Mild, Base
<1>3. /\ t2 = [v \in Workers |-> t2[v]] /\ \A v \in Workers : Mild(t[v], t2[v])
      /\ \A v \in Workers : t2[v].outbox = t[v].outbox
      /\ \A c \in Disposer : d[c].pc = "terminating" /\ d[c].target \in Workers =>
                                 ~t2[d[c].target].listening
  BY <1>1, <1>2, UnlistenedMild DEF t
<1>4. \A v \in Workers : Mild(thread[v], t2[v])
  BY <1>1, <1>3, MildTrans
<1>5. QED
  BY <1>1, <1>3, <1>4

\* The threads once m is in the inbox of w.
PostTo(t, w, m) == [t EXCEPT ![w].inbox = Append(@, m)]

\* A message is posted to thread w.
LEMMA PostedOne ==
    ASSUME NEW t \in [Workers -> Thread], \A v \in Workers : Sound(t[v]),
           NEW w \in Workers, t[w].state # "none", NEW m \in Message,
           NEW t2, t2 = PostTo(t, w, m)
    PROVE  /\ t2 = [v \in Workers |-> t2[v]] /\ Sends(t[w], t2[w], m)
           /\ t2[w].outbox = t[w].outbox
           /\ \A v \in Workers : v # w => t2[v] = t[v]
           /\ m.type # "write_batch" => \A v \in Workers : Mild(t[v], t2[v])
<1>1. t2[w] = [t[w] EXCEPT !.inbox = Append(@, m)] /\ \A v \in Workers : v # w => t2[v] = t[v]
  BY DEF PostTo
<1>2. t2 = [v \in Workers |-> t2[v]]
  BY DEF PostTo
<1>3. t[w] \in Thread /\ Sound(t[w])
  OBVIOUS
<1>4. Sends(t[w], t2[w], m) /\ t2[w].outbox = t[w].outbox /\ (m.type # "write_batch" => Mild(t[w], t2[w]))
  BY <1>1, <1>3, Posted
<1>5. QED
  BY <1>1, <1>2, <1>4, MildSame

\* Those who wait for the close promise go on, and nobody else.
LEMMA ClosesGoOn ==
    ASSUME NEW d \in [Disposer -> Disposal], NEW d2, d2 = AfterClose(d) \/ d2 = d
    PROVE  /\ d2 \in [Disposer -> Disposal]
           /\ \A c \in Disposer :
                 /\ d2[c].target = d[c].target
                 /\ d2[c].pc \in {"awaitClose", "terminating"} <=> d[c].pc \in {"awaitClose", "terminating"}
                 /\ d2[c].pc = "none" <=> d[c].pc = "none"
                 /\ d[c].pc = "done" => d2[c].pc = "done"
                 /\ d[c].pc = "terminating" => d2[c].pc = "terminating"
<1>1. CASE d2 = d
  BY <1>1
<1>2. CASE d2 = AfterClose(d)
  <2>1. ASSUME NEW c \in Disposer
        PROVE  d2[c] = CASE d[c].pc = "awaitClose" -> [d[c] EXCEPT !.pc = "terminating"]
                          [] d[c].pc = "awaitOther" -> [d[c] EXCEPT !.pc = "done"]
                          [] OTHER -> d[c]
    BY <1>2 DEF AfterClose
  <2>2. ASSUME NEW c \in Disposer
        PROVE  /\ d2[c] \in Disposal /\ d2[c].target = d[c].target
               /\ d2[c].pc \in {"awaitClose", "terminating"} <=> d[c].pc \in {"awaitClose", "terminating"}
               /\ d2[c].pc = "none" <=> d[c].pc = "none"
               /\ d[c].pc = "done" => d2[c].pc = "done"
               /\ d[c].pc = "terminating" => d2[c].pc = "terminating"
    <3>1. d[c] \in Disposal
      OBVIOUS
    <3>2. CASE d[c].pc = "awaitClose"
      <4>1. d2[c] = [d[c] EXCEPT !.pc = "terminating"]
        BY <2>1, <3>2
      <4>2. QED
        BY <3>1, <3>2, <4>1 DEF Disposal
    <3>3. CASE d[c].pc = "awaitOther"
      <4>1. d2[c] = [d[c] EXCEPT !.pc = "done"]
        BY <2>1, <3>3
      <4>2. QED
        BY <3>1, <3>3, <4>1 DEF Disposal
    <3>4. CASE d[c].pc \notin {"awaitClose", "awaitOther"}
      BY <2>1, <3>1, <3>4
    <3>5. QED
      BY <3>2, <3>3, <3>4
  <2>3. d2 = [c \in Disposer |-> d2[c]]
    BY <1>2 DEF AfterClose
  <2>4. d2 \in [Disposer -> Disposal]
    BY <2>2, <2>3, Zenon
  <2>5. QED
    BY <2>2, <2>4
<1>3. QED
  BY <1>1, <1>2

\* The disposals under way stay under way, whatever they have come to.
LEMMA DisposalsKept ==
    ASSUME Inv, \A v \in Workers : Base(thread[v], thread'[v]), failed => failed',
           \A c \in Disposer :
              /\ dispose'[c].target = dispose[c].target
              /\ dispose'[c].pc \in {"awaitClose", "terminating"} <=> dispose[c].pc \in {"awaitClose", "terminating"}
              /\ dispose'[c].pc = "none" <=> dispose[c].pc = "none"
              /\ dispose'[c].pc = "terminating" /\ dispose'[c].target \in Workers =>
                     ~thread'[dispose'[c].target].listening,
           phase' = phase \/ phase \notin {"dispose", "exited"} \/ phase' = "exited"
    PROVE  /\ Disposals'
           /\ worker' = worker => NoOrphanWorker'
<1>1. /\ \A c \in Disposer : Disposing(c) => dispose[c].target # None /\ Spawned(dispose[c].target)
      /\ dispose["error"].pc # "none" => failed
      /\ dispose["shutdown"].pc # "none" => phase \in {"dispose", "exited"}
  BY DEF Inv, Disposals
<1>2. \A c \in Disposer : dispose[c].target # None => dispose[c].target \in Workers
  BY DEF Inv, TypeOK, Disposal, None, Workers
<1>3. ASSUME NEW c \in Disposer, dispose'[c].pc \in {"awaitClose", "terminating"}
      PROVE  /\ dispose'[c].target # 0 /\ thread'[dispose'[c].target].state # "none"
             /\ dispose'[c].pc = "terminating" => ~thread'[dispose'[c].target].listening
  BY <1>1, <1>2, <1>3 DEF Base, Disposing, None, Spawned
<1>4. /\ dispose'["error"].pc # "none" => failed'
      /\ dispose'["shutdown"].pc # "none" => phase' \in {"dispose", "exited"}
  BY <1>1 DEF Disposer
<1>5. Disposals'
  BY <1>3, <1>4 DEF Disposals, Disposing, Spawned, None
<1>6. ASSUME worker' = worker PROVE NoOrphanWorker'
  BY <1>6 DEF Inv, NoOrphanWorker, Base
<1>7. QED
  BY <1>5, <1>6

\* The same, when no disposal has moved.
LEMMA DisposalsSame ==
    ASSUME Inv, \A v \in Workers : Base(thread[v], thread'[v]), failed => failed', dispose' = dispose,
           phase' = phase \/ phase \notin {"dispose", "exited"} \/ phase' = "exited"
    PROVE  /\ Disposals'
           /\ worker' = worker => NoOrphanWorker'
<1>1. \A c \in Disposer : dispose[c].pc = "terminating" => ~thread[dispose[c].target].listening
  BY DEF Inv, Disposals
<1>2. \A c \in Disposer : dispose'[c].pc = "terminating" /\ dispose'[c].target \in Workers =>
          ~thread'[dispose'[c].target].listening
  BY <1>1 DEF Base
<1>3. QED
  BY <1>2, DisposalsKept

-----------------------------------------------------------------------------
(***************************************************************************)
(* The events of the worker thread                                         *)
(***************************************************************************)

\* An event that is heard comes from the thread the handle refers to.
LEMMA EventFacts ==
    ASSUME Inv, NEW w \in Workers, NEW type, Event(w, type)
    PROVE  /\ worker = w /\ worker # None /\ thread[w].state # "none" /\ thread[w].outbox # << >>
           /\ thread[w].outbox \in Seq(Message) /\ Len(thread[w].outbox) \in Nat \ {0}
           /\ Head(thread[w].outbox) = thread[w].outbox[1] /\ thread[w].outbox[1].type = type
           /\ phase \notin {"loop", "exited"} /\ dispose["shutdown"].pc # "done"
<1>1. /\ phase \notin {"loop", "exited"} /\ dispose["shutdown"].pc # "done"
      /\ thread[w].listening /\ thread[w].outbox # << >> /\ Head(thread[w].outbox).type = type
  BY DEF Event, Quiet
<1>2. worker = w
  BY <1>1 DEF Inv, OneWorker, Heard
<1>3. thread[w].state # "none"
  BY <1>1 DEF Inv, Sound
<1>4. thread[w].outbox \in Seq(Message)
  BY DEF Inv, TypeOK, Thread
<1>5. Len(thread[w].outbox) \in Nat \ {0} /\ Head(thread[w].outbox) = thread[w].outbox[1]
  BY <1>1, <1>4
<1>6. QED
  BY <1>1, <1>2, <1>3, <1>4, <1>5 DEF Workers, None

\* While the process lives and the shutdown has its worker, at most the write of the
\* flush is pending; without such a flush nothing is.
LEMMA PendingIsOfFlush ==
    ASSUME Inv, phase # "exited"
    PROVE  /\ pending \subseteq {flush.seq}
           /\ flush.pc # "awaitWrite" => pending = {}
           /\ flush.pc = "awaitWrite" => pending = {flush.seq}
BY DEF Inv, Flushes

\* What the end of a flush changes, and what it leaves.
LEMMA FlushEndsFacts ==
    ASSUME NEW ok \in BOOLEAN, FlushEnds(ok)
    PROVE  /\ flush' = NoFlush /\ flush'.pc = "none" /\ queue' = queue /\ arrivals' = arrivals
           /\ phase' = phase \/ phase \notin {"dispose", "exited"} \/ phase' = "exited"
           /\ acked' = IF ok THEN acked \cup flush.batch ELSE acked
BY DEF FlushEnds, NoFlush

\* A flush that goes on leaves the queue alone too.
LEMMA FlushGoesOnFacts ==
    ASSUME FlushGoesOn
    PROVE  flush' = flush /\ queue' = queue /\ arrivals' = arrivals /\ acked' = acked /\ phase' = phase
BY DEF FlushGoesOn, queueVars

\* What the loop does to the queue and the flush when an event ends the flush or
\* leaves it waiting.
LEMMA EventStep ==
    ASSUME Inv, \A v \in Workers : Mild(thread[v], thread'[v]), UNCHANGED storeVars,
           thread' = [v \in Workers |-> thread'[v]], phase # "exited",
           failed' \in BOOLEAN, failed => failed',
           worker' = worker, generation' = generation, sequence' = sequence, pending' \subseteq pending,
           dispose' \in [Disposer -> Disposal],
           dispose["shutdown"].pc = "done" => dispose'["shutdown"].pc = "done",
           Disposals', NoOrphanWorker', CloseIsFlagged',
           queue' \subseteq queue, arrivals' = arrivals,
           \/ flush' = NoFlush /\ pending' = {}
           \/ /\ flush' = flush /\ (failed' => flush.pc = "none")
              /\ pending' = pending
              /\ flush.pc = "awaitReady" => ready' = "pending" \/ dispose'["shutdown"].pc = "done",
           acked' = acked \/ (acked' = acked \cup flush.batch /\ Processed(flush.batch, skipped, rows))
    PROVE  Inv'
<1>1. flush' = flush \/ flush' = NoFlush
  OBVIOUS
<1>2. Flushes'
  <2>1. CASE flush' = NoFlush /\ pending' = {}
    BY <2>1 DEF Flushes, NoFlush, None
  <2>2. CASE /\ flush' = flush /\ (failed' => flush.pc = "none")
             /\ pending' = pending
             /\ flush.pc = "awaitReady" => ready' = "pending" \/ dispose'["shutdown"].pc = "done"
    BY <2>2 DEF Inv, Flushes, None
  <2>3. QED
    BY <2>1, <2>2
<1>3. QED
  BY <1>1, <1>2, LoopKeeps

\* The answer to a pending write is about the batch of the flush, and true.
LEMMA AnswerIsTrue ==
    ASSUME Inv, NEW w \in Workers, Event(w, "batch_written"), Head(thread[w].outbox).seq \in pending
    PROVE  /\ flush.pc = "awaitWrite" /\ pending = {Head(thread[w].outbox).seq}
           /\ Processed(flush.batch, skipped, rows)
<1>1. /\ Len(thread[w].outbox) \in Nat \ {0} /\ phase # "exited"
      /\ Head(thread[w].outbox) = thread[w].outbox[1] /\ thread[w].outbox[1].type = "batch_written"
  BY EventFacts
<1>2. /\ flush.pc = "awaitWrite" /\ flush.seq = Head(thread[w].outbox).seq
      /\ pending = {Head(thread[w].outbox).seq}
  BY <1>1, PendingIsOfFlush DEF Inv, Flushes
<1>3. Carries(thread[w], flush.seq, flush.batch, skipped, rows)
  BY <1>2 DEF Inv, Numbered
<1>4. Processed(flush.batch, skipped, rows)
  BY <1>1, <1>2, <1>3 DEF Carries
<1>5. QED
  BY <1>2, <1>4

\* "batch_written" ends the flush it is about, or nothing.
LEMMA StepBatchWritten ==
    ASSUME Inv, NEW w \in Workers, HandleBatchWritten(w)
    PROVE  Inv'
<1> DEFINE seq == Head(thread[w].outbox).seq
<1>1. /\ Event(w, "batch_written") /\ thread' = Taken(w) /\ pending' = pending \ {seq}
      /\ IF seq \in pending THEN FlushEnds(TRUE) ELSE FlushGoesOn
      /\ UNCHANGED <<failed, worker, generation, ready, close, closing, sequence, dispose, storeVars>>
  BY DEF HandleBatchWritten
<1>2. thread[w].outbox # << >> /\ phase # "exited"
  BY <1>1, EventFacts
<1>3. thread' \in [Workers -> Thread] /\ \A v \in Workers : Mild(thread[v], thread'[v])
  BY <1>1, <1>2, TakenMild
<1>4. thread' = [v \in Workers |-> thread'[v]]
  BY <1>3
<1>5. seq \in pending => /\ flush.pc = "awaitWrite" /\ pending = {seq}
                         /\ Processed(flush.batch, skipped, rows)
  BY <1>1, AnswerIsTrue
<1> HIDE DEF seq
<1>6. /\ phase' = phase \/ phase \notin {"dispose", "exited"} \/ phase' = "exited"
      /\ queue' = queue /\ arrivals' = arrivals
      /\ \/ flush' = NoFlush /\ pending' = {} /\ acked' = acked \cup flush.batch
            /\ Processed(flush.batch, skipped, rows)
         \/ flush' = flush /\ pending' = pending /\ acked' = acked
  <2>1. CASE seq \in pending
    BY <1>1, <1>5, <2>1, FlushEndsFacts
  <2>2. CASE seq \notin pending
    BY <1>1, <2>2, FlushGoesOnFacts
  <2>3. QED
    BY <2>1, <2>2
<1>7. \A v \in Workers : Base(thread[v], thread'[v])
  BY <1>3 DEF Mild
<1>8. Disposals' /\ NoOrphanWorker'
  BY <1>1, <1>6, <1>7, DisposalsSame
<1>9. CloseIsFlagged'
  BY <1>1 DEF Inv, CloseIsFlagged
<1>10. /\ failed' \in BOOLEAN /\ dispose' \in [Disposer -> Disposal]
       /\ failed => flush.pc = "none"
       /\ flush.pc = "awaitReady" => ready' = "pending" \/ dispose'["shutdown"].pc = "done"
  BY <1>1 DEF Inv, TypeOK, Flushes
<1>11. QED
  BY <1>1, <1>2, <1>3, <1>4, <1>6, <1>8, <1>9, <1>10, EventStep DEF storeVars

\* A write that times out fails its flush.
LEMMA StepWriteTimesOut ==
    ASSUME Inv, WriteTimesOut
    PROVE  Inv'
<1>1. /\ phase # "exited" /\ flush.pc = "awaitWrite" /\ flush.seq \in pending
      /\ pending' = pending \ {flush.seq}
      /\ FlushEnds(FALSE) /\ failed' = TRUE
      /\ UNCHANGED <<worker, generation, ready, close, closing, sequence, thread, dispose, storeVars>>
  BY DEF WriteTimesOut, Quiet
<1>2. pending' = {}
  BY <1>1, PendingIsOfFlush
<1>3. /\ phase' = phase \/ phase \notin {"dispose", "exited"} \/ phase' = "exited"
      /\ queue' = queue /\ arrivals' = arrivals /\ flush' = NoFlush /\ acked' = acked
  BY <1>1, FlushEndsFacts
<1>4. /\ thread' = [v \in Workers |-> thread'[v]] /\ dispose' \in [Disposer -> Disposal]
      /\ \A v \in Workers : thread[v] \in Thread /\ Sound(thread[v]) /\ thread'[v] = thread[v]
  BY <1>1 DEF Inv, TypeOK
<1>5. \A v \in Workers : Mild(thread[v], thread'[v])
  BY <1>4, MildSame
<1>6. \A v \in Workers : Base(thread[v], thread'[v])
  BY <1>5 DEF Mild
<1>7. Disposals' /\ NoOrphanWorker'
  BY <1>1, <1>3, <1>6, DisposalsSame
<1>8. CloseIsFlagged'
  BY <1>1 DEF Inv, CloseIsFlagged
<1>9. QED
  BY <1>1, <1>2, <1>3, <1>4, <1>5, <1>7, <1>8, EventStep DEF storeVars

\* The disposal of an event loop that has waited long enough goes on.
LEMMA StepCloseTimesOut ==
    ASSUME Inv, NEW c \in Disposer, CloseTimesOut(c)
    PROVE  Inv'
<1>1. /\ phase # "exited" /\ dispose[c].pc = "awaitClose"
      /\ dispose' = [dispose EXCEPT ![c].pc = "terminating"]
      /\ thread' = Unlistened(thread, dispose')
      /\ UNCHANGED <<queueVars, timerVars, flush, failed, workerVars, phase, storeVars, acked>>
  BY DEF CloseTimesOut, Quiet
<1>2. /\ thread \in [Workers -> Thread] /\ \A v \in Workers : Sound(thread[v])
      /\ dispose \in [Disposer -> Disposal]
  BY DEF Inv, TypeOK
<1>3. dispose' \in [Disposer -> Disposal]
  BY <1>1, <1>2 DEF Disposal
<1>a. thread' = Unlistened(thread, dispose')
  BY <1>1
<1>4. /\ thread' = [v \in Workers |-> thread'[v]] /\ \A v \in Workers : Mild(thread[v], thread'[v])
      /\ \A k \in Disposer : dispose'[k].pc = "terminating" /\ dispose'[k].target \in Workers =>
                                 ~thread'[dispose'[k].target].listening
  BY <1>2, <1>3, <1>a, UnlistenedMild
<1>5. \A v \in Workers : Base(thread[v], thread'[v])
  BY <1>4 DEF Mild
<1>6. \A k \in Disposer :
         /\ dispose'[k].target = dispose[k].target
         /\ dispose'[k].pc = IF k = c THEN "terminating" ELSE dispose[k].pc
  BY <1>1, <1>2 DEF Disposal
<1>b. \A k \in Disposer :
         /\ dispose'[k].target = dispose[k].target
         /\ dispose'[k].pc \in {"awaitClose", "terminating"} <=> dispose[k].pc \in {"awaitClose", "terminating"}
         /\ dispose'[k].pc = "none" <=> dispose[k].pc = "none"
  BY <1>1, <1>6
<1>c. phase' = phase /\ failed' = failed /\ worker' = worker
  BY <1>1 DEF workerVars
<1>7. Disposals' /\ NoOrphanWorker'
  BY <1>4, <1>5, <1>b, <1>c, DisposalsKept
<1>8. CloseIsFlagged'
  BY <1>1 DEF Inv, CloseIsFlagged, workerVars
<1>9. /\ dispose["shutdown"].pc = "done" => dispose'["shutdown"].pc = "done"
      /\ failed \in BOOLEAN /\ (failed => flush.pc = "none")
      /\ flush.pc = "awaitReady" => ready' = "pending" \/ dispose'["shutdown"].pc = "done"
  BY <1>1, <1>6 DEF Inv, Flushes, Disposer, workerVars, TypeOK
<1>10. QED
  BY <1>1, <1>3, <1>4, <1>7, <1>8, <1>9, EventStep DEF workerVars, queueVars, storeVars

\* An event that settles the close promise, if there is one.
LEMMA ClosesStep ==
    ASSUME Inv, NEW w \in Workers, thread[w].outbox # << >>,
           dispose' = AfterClose(dispose) \/ dispose' = dispose,
           thread' = Unlistened(Taken(w), dispose'), failed => failed',
           phase' = phase \/ phase \notin {"dispose", "exited"} \/ phase' = "exited"
    PROVE  /\ dispose' \in [Disposer -> Disposal] /\ thread' = [v \in Workers |-> thread'[v]]
           /\ \A v \in Workers : Mild(thread[v], thread'[v])
           /\ thread'[w].outbox = Tail(thread[w].outbox)
           /\ Disposals' /\ (worker' = worker => NoOrphanWorker')
           /\ dispose["shutdown"].pc = "done" => dispose'["shutdown"].pc = "done"
<1>1. dispose \in [Disposer -> Disposal]
  BY DEF Inv, TypeOK
<1>2. /\ dispose' \in [Disposer -> Disposal]
      /\ \A c \in Disposer :
            /\ dispose'[c].target = dispose[c].target
            /\ dispose'[c].pc \in {"awaitClose", "terminating"} <=> dispose[c].pc \in {"awaitClose", "terminating"}
            /\ dispose'[c].pc = "none" <=> dispose[c].pc = "none"
            /\ dispose[c].pc = "done" => dispose'[c].pc = "done"
  BY <1>1, ClosesGoOn
<1>3. /\ thread' = [v \in Workers |-> thread'[v]] /\ \A v \in Workers : Mild(thread[v], thread'[v])
      /\ thread'[w].outbox = Tail(thread[w].outbox)
      /\ \A c \in Disposer : dispose'[c].pc = "terminating" /\ dispose'[c].target \in Workers =>
                                 ~thread'[dispose'[c].target].listening
  BY <1>2, TakenUnlistened
<1>4. \A v \in Workers : Base(thread[v], thread'[v])
  BY <1>3 DEF Mild
<1>5. Disposals' /\ (worker' = worker => NoOrphanWorker')
  BY <1>2, <1>3, <1>4, DisposalsKept
<1>6. QED
  BY <1>2, <1>3, <1>5 DEF Disposer

\* "closed" tells the disposals and nobody else.
LEMMA StepClosed ==
    ASSUME Inv, NEW w \in Workers, HandleClosed(w)
    PROVE  Inv'
<1>1. /\ Event(w, "closed")
      /\ close' = IF close = "pending" THEN "settled" ELSE close
      /\ dispose' = AfterClose(dispose) \/ dispose' = dispose
      /\ thread' = Unlistened(Taken(w), dispose')
      /\ flush' = flush /\ queue' = queue /\ arrivals' = arrivals /\ acked' = acked /\ phase' = phase
      /\ UNCHANGED <<failed, worker, generation, ready, closing, sequence, pending, storeVars>>
  BY FlushGoesOnFacts DEF HandleClosed
<1>2. thread[w].outbox # << >> /\ phase # "exited"
  BY <1>1, EventFacts
<1>3. /\ dispose' \in [Disposer -> Disposal] /\ thread' = [v \in Workers |-> thread'[v]]
      /\ \A v \in Workers : Mild(thread[v], thread'[v])
      /\ Disposals' /\ NoOrphanWorker'
      /\ dispose["shutdown"].pc = "done" => dispose'["shutdown"].pc = "done"
  BY <1>1, <1>2, ClosesStep
<1>4. CloseIsFlagged'
  BY <1>1 DEF Inv, CloseIsFlagged
<1>5. /\ failed' \in BOOLEAN
      /\ failed => flush.pc = "none"
      /\ flush.pc = "awaitReady" => ready' = "pending" \/ dispose'["shutdown"].pc = "done"
  BY <1>1, <1>3 DEF Inv, TypeOK, Flushes
<1>6. QED
  BY <1>1, <1>2, <1>3, <1>4, <1>5, EventStep DEF storeVars

\* When everything is rejected, no flush is left waiting.
LEMMA NoFlushLeft ==
    ASSUME Inv, RejectEverything, phase # "exited", dispose["shutdown"].pc # "done"
    PROVE  /\ \/ flush' = NoFlush
              \/ flush' = flush /\ flush.pc = "none" /\ pending' = pending
           /\ pending' = {} /\ flush'.pc = "none"
           /\ queue' = queue /\ arrivals' = arrivals /\ acked' = acked
           /\ phase' = phase \/ phase \notin {"dispose", "exited"} \/ phase' = "exited"
<1>1. /\ pending' = {}
      /\ IF FlushIsRejected THEN FlushEnds(FALSE) ELSE FlushGoesOn
  BY DEF RejectEverything
<1>2. CASE FlushIsRejected
  BY <1>1, <1>2, FlushEndsFacts
<1>3. CASE ~FlushIsRejected
  <2>1. flush.pc = "none"
    BY <1>3 DEF Inv, Flushes, FlushIsRejected, TypeOK, Flush
  <2>2. pending = {}
    BY <2>1, PendingIsOfFlush
  <2>3. QED
    BY <1>1, <1>3, <2>1, <2>2, FlushGoesOnFacts
<1>4. QED
  BY <1>2, <1>3

\* "fatal" rejects the flush and the close promise, and leaves the worker.
LEMMA StepFatal ==
    ASSUME Inv, NEW w \in Workers, HandleFatal(w)
    PROVE  Inv'
<1>1. /\ Event(w, "fatal") /\ RejectEverything
      /\ failed' = (failed \/ FlushIsRejected)
      /\ close' = IF close = "pending" THEN "settled" ELSE close
      /\ dispose' = AfterClose(dispose) \/ dispose' = dispose
      /\ thread' = Unlistened(Taken(w), dispose')
      /\ UNCHANGED <<worker, generation, closing, sequence, storeVars>>
  BY DEF HandleFatal
<1>2. thread[w].outbox # << >> /\ phase # "exited" /\ dispose["shutdown"].pc # "done"
  BY <1>1, EventFacts
<1>3. /\ \/ flush' = NoFlush
         \/ flush' = flush /\ flush.pc = "none" /\ pending' = pending
      /\ pending' = {}
      /\ queue' = queue /\ arrivals' = arrivals /\ acked' = acked
      /\ phase' = phase \/ phase \notin {"dispose", "exited"} \/ phase' = "exited"
  BY <1>1, <1>2, NoFlushLeft
<1>4. failed => failed'
  BY <1>1
<1>5. failed' \in BOOLEAN
  <2>1. failed' = (failed \/ FlushIsRejected)
    BY <1>1
  <2>2. QED
    BY <2>1, Zenon
<1>6. /\ dispose' \in [Disposer -> Disposal] /\ thread' = [v \in Workers |-> thread'[v]]
      /\ \A v \in Workers : Mild(thread[v], thread'[v])
      /\ Disposals' /\ NoOrphanWorker'
  BY <1>1, <1>2, <1>3, <1>4, ClosesStep
<1>7. CloseIsFlagged'
  BY <1>1 DEF Inv, CloseIsFlagged
<1>8. QED
  BY <1>1, <1>2, <1>3, <1>4, <1>5, <1>6, <1>7, EventStep DEF storeVars

\* "error" does the same, and starts a disposal unless one is under way.
LEMMA StepError ==
    ASSUME Inv, NEW w \in Workers, HandleError(w)
    PROVE  Inv'
<1> DEFINE rejected == IF close = "pending" THEN AfterClose(dispose) ELSE dispose
<1>1. /\ Event(w, "error") /\ RejectEverything /\ failed' = TRUE
      /\ IF closing /\ close # "none"
         THEN /\ close' = "settled" /\ dispose' = rejected
              /\ thread' = Unlistened(Taken(w), dispose') /\ UNCHANGED closing
         ELSE /\ close' = "pending" /\ closing' = TRUE
              /\ dispose' = [rejected EXCEPT !["error"] = [pc |-> "awaitClose", target |-> w]]
              /\ thread' = [Taken(w) EXCEPT ![w].inbox = Append(@, Msg("close"))]
      /\ UNCHANGED <<worker, generation, sequence, storeVars>>
  BY DEF HandleError
<1>2. /\ thread[w].outbox # << >> /\ phase # "exited" /\ dispose["shutdown"].pc # "done"
      /\ worker = w /\ thread[w].state # "none"
  BY <1>1, EventFacts
<1>a. RejectEverything
  BY <1>1
<1>3. /\ \/ flush' = NoFlush
         \/ flush' = flush /\ flush.pc = "none" /\ pending' = pending
      /\ pending' = {}
      /\ queue' = queue /\ arrivals' = arrivals /\ acked' = acked
      /\ phase' = phase \/ phase \notin {"dispose", "exited"} \/ phase' = "exited"
  BY <1>2, <1>a, NoFlushLeft
<1>4. /\ dispose' \in [Disposer -> Disposal] /\ thread' = [v \in Workers |-> thread'[v]]
      /\ \A v \in Workers : Mild(thread[v], thread'[v])
      /\ Disposals' /\ NoOrphanWorker' /\ CloseIsFlagged'
  <2>1. CASE closing /\ close # "none"
    <3>1. /\ dispose' = AfterClose(dispose) \/ dispose' = dispose
          /\ thread' = Unlistened(Taken(w), dispose') /\ closing' = closing /\ failed' = TRUE
      BY <1>1, <2>1
    <3>2. /\ dispose' \in [Disposer -> Disposal] /\ thread' = [v \in Workers |-> thread'[v]]
          /\ \A v \in Workers : Mild(thread[v], thread'[v])
          /\ Disposals' /\ NoOrphanWorker'
      BY <1>1, <1>2, <1>3, <3>1, ClosesStep
    <3>3. QED
      BY <2>1, <3>1, <3>2 DEF CloseIsFlagged
  <2>2. CASE ~(closing /\ close # "none")
    <3>1. close = "none"
      BY <2>2 DEF Inv, CloseIsFlagged
    <3>2. /\ dispose' = [dispose EXCEPT !["error"] = [pc |-> "awaitClose", target |-> w]]
          /\ closing' = TRUE /\ thread' = [Taken(w) EXCEPT ![w].inbox = Append(@, Msg("close"))]
      BY <1>1, <2>2, <3>1
    <3> DEFINE t == Taken(w)
               m == Msg("close")
    <3> HIDE DEF t, m
    <3>3. t \in [Workers -> Thread] /\ \A v \in Workers : Mild(thread[v], t[v])
      BY <1>2, TakenMild DEF t
    <3>4. (\A v \in Workers : Sound(t[v])) /\ t[w].state # "none"
      BY <1>2, <3>3 DEF Mild, Base
    <3>5. m \in Message /\ m.type # "write_batch"
      BY DEF Msg, Message, m
    <3>6. thread' = PostTo(t, w, m)
      BY <3>2 DEF t, m, PostTo
    <3>7. thread' = [v \in Workers |-> thread'[v]] /\ \A v \in Workers : Mild(t[v], thread'[v])
      BY <3>3, <3>4, <3>5, <3>6, PostedOne
    <3>8. \A v \in Workers : Mild(thread[v], thread'[v])
      BY <3>3, <3>7, MildTrans
    <3>9. \A v \in Workers : Base(thread[v], thread'[v])
      BY <3>8 DEF Mild
    <3>10. dispose \in [Disposer -> Disposal] /\ w \in 1 .. MaxWorkers
      BY DEF Inv, TypeOK, Workers
    <3>11. /\ dispose' \in [Disposer -> Disposal]
           /\ dispose'["error"].pc = "awaitClose" /\ dispose'["error"].target = w
           /\ dispose'["shutdown"] = dispose["shutdown"]
      BY <3>2, <3>10, PipelineAssumption DEF Disposal, Disposer
    <3>12. Disposals'
      <4>1. /\ \A c \in Disposer : Disposing(c) => dispose[c].target # None /\ Spawned(dispose[c].target)
            /\ \A c \in Disposer : dispose[c].pc = "terminating" => ~thread[dispose[c].target].listening
            /\ dispose["shutdown"].pc # "none" => phase \in {"dispose", "exited"}
        BY DEF Inv, Disposals
      <4>2. dispose["shutdown"].target # None => dispose["shutdown"].target \in Workers
        BY <3>10 DEF Disposal, Disposer, None, Workers
      <4>3. /\ dispose'["shutdown"].pc \in {"awaitClose", "terminating"} =>
                  /\ dispose'["shutdown"].target # 0
                  /\ thread'[dispose'["shutdown"].target].state # "none"
            /\ dispose'["shutdown"].pc = "terminating" => ~thread'[dispose'["shutdown"].target].listening
        BY <3>9, <3>11, <4>1, <4>2 DEF Disposing, Spawned, Base, None, Disposer
      <4>4. w # 0 /\ thread'[w].state # "none"
        BY <1>2, <3>9, <3>10 DEF Base
      <4>5. QED
        BY <1>1, <1>3, <3>11, <4>1, <4>3, <4>4 DEF Disposals, Disposing, Spawned, None, Disposer
    <3>13. NoOrphanWorker'
      <4>1. \A v \in Workers : thread'[v].state = "alive" => v = w
        BY <1>2, <3>9 DEF Inv, OneWorker, Spawned, Base
      <4>2. worker' = w
        BY <1>1, <1>2
      <4>3. QED
        BY <4>1, <4>2 DEF NoOrphanWorker
    <3>14. QED
      BY <3>2, <3>7, <3>8, <3>11, <3>12, <3>13 DEF CloseIsFlagged
  <2>3. QED
    BY <2>1, <2>2
<1>5. QED
  BY <1>1, <1>2, <1>3, <1>4, EventStep DEF storeVars

\* The handle is reset when no thread is heard and no other will be started.
LEMMA ResetKeeps ==
    ASSUME Inv, \A v \in Workers : Follows(thread[v], thread'[v], skipped', rows') /\ ~Heard(thread'[v]),
           thread' = [v \in Workers |-> thread'[v]], ResetWorkerState, pending' = {},
           dispose' \in [Disposer -> Disposal], failed' \in BOOLEAN,
           failed' \/ dispose'["shutdown"].pc = "done",
           Disposals', NoOrphanWorker',
           flush' = NoFlush \/ (flush' = flush /\ flush.pc # "awaitWrite"),
           failed' => flush'.pc = "none",
           Begun' \subseteq Begun, rows \subseteq rows', skipped \subseteq skipped',
           queue' \subseteq queue, arrivals' = arrivals, acked' = acked
    PROVE  Inv'
<1>1. \A v \in Workers : Base(thread[v], thread'[v])
  BY DEF Follows
<1>2. /\ worker' = None /\ close' = "none" /\ closing' = FALSE /\ sequence' = 0
      /\ generation' = generation + 1
  BY DEF ResetWorkerState
<1>3. OneWorker'
  BY <1>1, <1>2, OneWorkerReset
<1>4. CloseIsFlagged'
  BY <1>2 DEF CloseIsFlagged
<1>5. flush' \in Flush /\ flush'.pc # "awaitWrite" /\ (flush' = flush \/ flush'.pc = "none")
  BY DEF Inv, TypeOK, Flush, NoFlush
<1>6. Flushes'
  BY <1>5 DEF Flushes
<1>7. \A v \in Workers : thread'[v] \in Thread
  BY <1>1 DEF Base
<1>8. thread' \in [Workers -> Thread]
  BY <1>7, Zenon
<1>9. queue' \subseteq Obs /\ arrivals' \in Nat /\ generation' \in Nat /\ sequence' \in Nat
      /\ worker' \in 0 .. MaxWorkers /\ pending' \subseteq Nat
  BY <1>2, PipelineAssumption DEF Inv, TypeOK, None
<1>10. TypeOK'
  BY <1>5, <1>8, <1>9 DEF TypeOK, Workers, Disposer, Thread, Message, Flush, Disposal, Obs
<1>11. QED
  BY <1>2, <1>3, <1>4, <1>5, <1>6, <1>10, StepKeeps

\* "exit" is the last event of the thread, which is dead: the handle is free.
LEMMA StepExit ==
    ASSUME Inv, NEW w \in Workers, HandleExit(w)
    PROVE  Inv'
<1>1. /\ Event(w, "exit") /\ RejectEverything /\ failed' = TRUE
      /\ dispose' = AfterClose(dispose) \/ dispose' = dispose
      /\ thread' = Unlistened(Taken(w), dispose') /\ ResetWorkerState /\ UNCHANGED storeVars
  BY DEF HandleExit
<1>2. /\ thread[w].outbox # << >> /\ phase # "exited" /\ dispose["shutdown"].pc # "done"
      /\ worker = w /\ thread[w].state # "none"
      /\ thread[w].outbox \in Seq(Message) /\ Len(thread[w].outbox) \in Nat \ {0}
      /\ thread[w].outbox[1].type = "exit"
  BY <1>1, EventFacts
<1>3. /\ flush' = NoFlush \/ (flush' = flush /\ flush.pc = "none")
      /\ pending' = {} /\ flush'.pc = "none"
      /\ queue' = queue /\ arrivals' = arrivals /\ acked' = acked
      /\ phase' = phase \/ phase \notin {"dispose", "exited"} \/ phase' = "exited"
  BY <1>1, <1>2, NoFlushLeft
<1>4. /\ dispose' \in [Disposer -> Disposal] /\ thread' = [v \in Workers |-> thread'[v]]
      /\ \A v \in Workers : Mild(thread[v], thread'[v])
      /\ thread'[w].outbox = Tail(thread[w].outbox)
      /\ Disposals'
  BY <1>1, <1>2, <1>3, ClosesStep
<1>5. thread[w].state = "dead" /\ Len(thread[w].outbox) = 1
  <2>1. Sound(thread[w]) /\ 1 \in 1 .. Len(thread[w].outbox)
    BY <1>2 DEF Inv
  <2>2. QED
    BY <1>2, <2>1 DEF Sound
<1>6. thread'[w].state = "dead" /\ thread'[w].outbox = << >>
  <2>1. Tail(thread[w].outbox) = << >>
    <3>1. Tail(thread[w].outbox) \in Seq(Message) /\ Len(Tail(thread[w].outbox)) = 0
      BY <1>2, <1>5
    <3>2. QED
      BY <3>1, EmptySeq
  <2>2. QED
    BY <1>4, <1>5, <2>1 DEF Mild
<1>7. \A v \in Workers : Base(thread[v], thread'[v])
  BY <1>4 DEF Mild
<1>8. \A v \in Workers : ~Heard(thread'[v])
  <2>1. ~Heard(thread'[w])
    BY <1>6 DEF Heard
  <2>2. \A v \in Workers : v # w => ~Heard(thread[v])
    BY <1>2 DEF Inv, OneWorker
  <2>3. QED
    BY <1>7, <2>1, <2>2 DEF Base
<1>9. NoOrphanWorker'
  <2>1. \A v \in Workers : thread'[v].state # "alive"
    BY <1>2, <1>6, <1>7 DEF Inv, OneWorker, Spawned, Base
  <2>2. QED
    BY <2>1 DEF NoOrphanWorker
<1>10. \A v \in Workers : Follows(thread[v], thread'[v], skipped', rows')
  BY <1>4, MildFollows
<1>11. Begun' = Begun
  <2>1. \A v \in Workers : thread'[v].inFlight = thread[v].inFlight
    BY <1>4 DEF Mild
  <2>2. QED
    BY <1>1, <2>1, BegunSame
<1>12. rows' = rows /\ skipped' = skipped
  BY <1>1 DEF storeVars
<1>13. flush' = NoFlush \/ (flush' = flush /\ flush.pc # "awaitWrite")
  BY <1>3
<1>14. QED
  BY <1>1, <1>3, <1>4, <1>8, <1>9, <1>10, <1>11, <1>12, <1>13, ResetKeeps

-----------------------------------------------------------------------------
(***************************************************************************)
(* The disposal of the worker thread                                       *)
(***************************************************************************)

\* What a stopped thread wrote had begun.
LEMMA StoppedBegan ==
    ASSUME NEW w \in Workers, NEW Stored, Stored \subseteq UNION {m.batch : m \in thread[w].inFlight},
           rows' = rows \cup {[obs |-> x.arrival, worker |-> w] : x \in Stored},
           skipped' = skipped, \A v \in Workers : thread'[v].inFlight \subseteq thread[v].inFlight
    PROVE  Begun' \subseteq Begun /\ rows \subseteq rows'
<1>1. {r.obs : r \in rows'} \subseteq Begun
  BY DEF Begun
<1>2. UNION {m.batch : m \in UNION {thread'[v].inFlight : v \in Workers}} \subseteq
          UNION {m.batch : m \in UNION {thread[v].inFlight : v \in Workers}}
  OBVIOUS
<1>3. QED
  BY <1>1, <1>2 DEF Begun

\* The thread that is terminated was the only one, and is not heard.
LEMMA StepTerminated ==
    ASSUME Inv, NEW c \in Disposer, Terminated(c)
    PROVE  Inv'
<1> DEFINE w == dispose[c].target
<1>1. /\ phase # "exited" /\ dispose["shutdown"].pc # "done" /\ dispose[c].pc = "terminating"
      /\ ResetWorkerState /\ pending' = {}
      /\ dispose' = [dispose EXCEPT ![c].pc = "done"] /\ skipped' = skipped
      /\ IF flush.pc = "awaitWrite" /\ flush.seq \in pending
         THEN FlushEnds(FALSE) /\ failed' = TRUE
         ELSE FlushGoesOn /\ UNCHANGED failed
  BY DEF Terminated, Quiet
<1>2. PICK Stored \in SUBSET UNION {m.batch : m \in thread[w].inFlight} : StopThread(thread, w, Stored)
  BY DEF Terminated
<1> HIDE DEF w
<1>3. /\ rows' = rows \cup {[obs |-> x.arrival, worker |-> w] : x \in Stored}
      /\ thread' = [thread EXCEPT ![w].state = "dead", ![w].inbox = << >>, ![w].inFlight = {},
                                  ![w].storeOpen = FALSE]
  BY <1>2 DEF StopThread
<1>4. thread \in [Workers -> Thread] /\ dispose \in [Disposer -> Disposal]
  BY DEF Inv, TypeOK
<1>5. w \in Workers /\ Spawned(w) /\ ~thread[w].listening
  <2>1. w # None /\ Spawned(w) /\ ~thread[w].listening
    BY <1>1 DEF w, Inv, Disposals, Disposing
  <2>2. w \in 0 .. MaxWorkers
    BY <1>4 DEF w, Disposal
  <2>3. QED
    BY <2>1, <2>2, PipelineAssumption DEF Workers, None
<1> DEFINE t2 == thread'[w]
<1>6. /\ thread' = [v \in Workers |-> thread'[v]] /\ \A v \in Workers : v # w => thread'[v] = thread[v]
      /\ t2 = [thread[w] EXCEPT !.state = "dead", !.inbox = << >>, !.inFlight = {}, !.storeOpen = FALSE]
  BY <1>3, <1>4, <1>5
<1>7. /\ t2 \in Thread /\ t2.outbox = thread[w].outbox /\ t2.gen = thread[w].gen
      /\ t2.listening = thread[w].listening /\ t2.state = "dead" /\ t2.inbox = << >> /\ t2.inFlight = {}
  <2>1. thread[w] \in Thread /\ << >> \in Seq(Message)
    BY <1>4, <1>5
  <2>2. QED
    BY <1>6, <2>1 DEF Thread
<1> HIDE DEF t2
<1>8. Follows(thread[w], t2, skipped', rows')
  <2>1. thread[w] \in Thread /\ Sound(thread[w]) /\ thread[w].state # "none" /\ thread[w].outbox \in Seq(Message)
    BY <1>4, <1>5 DEF Inv, Spawned, Thread
  <2> DEFINE ev == << >>
  <2>2. /\ ev \in Seq(Message) /\ ev = << >> /\ Len(ev) = 0
        /\ t2.outbox = thread[w].outbox \o ev
    BY <1>7, <2>1
  <2> HIDE DEF ev
  <2>3. \A i \in 1 .. Len(ev) : ev[i].type # "batch_written" /\ (ev[i].type = "exit" => i = Len(ev))
    BY <2>2
  <2>4. QED
    BY <1>7, <2>1, <2>2, <2>3, StopFollows
<1>9. ASSUME NEW v \in Workers, v # w
      PROVE  thread'[v] = thread[v] /\ thread[v].state = "none" /\ ~thread[v].listening
  BY <1>5, <1>6, <1>9 DEF Inv, OneWorker, Spawned, Sound
<1>10. \A v \in Workers : Follows(thread[v], thread'[v], skipped', rows') /\ ~Heard(thread'[v])
  <2>1. \A v \in Workers : thread[v] \in Thread /\ Sound(thread[v])
    BY <1>4 DEF Inv
  <2>2. ASSUME NEW v \in Workers, v # w
        PROVE  Follows(thread[v], thread'[v], skipped', rows') /\ ~Heard(thread'[v])
    BY <1>9, <2>1, <2>2, MildSame, MildFollows DEF Heard
  <2>3. ~Heard(thread'[w])
    BY <1>5, <1>7 DEF Heard, t2
  <2>4. QED
    BY <1>8, <2>2, <2>3 DEF t2
<1>11. Begun' \subseteq Begun /\ rows \subseteq rows'
  <2>1. \A v \in Workers : thread'[v].inFlight \subseteq thread[v].inFlight
    BY <1>7, <1>9 DEF t2
  <2>2. QED
    BY <1>1, <1>2, <1>3, <1>5, <2>1, StoppedBegan
<1>12. /\ \/ flush' = NoFlush /\ failed' = TRUE
          \/ flush' = flush /\ flush.pc # "awaitWrite" /\ failed' = failed
       /\ queue' = queue /\ arrivals' = arrivals /\ acked' = acked
       /\ phase' = phase \/ phase \notin {"dispose", "exited"} \/ phase' = "exited"
  <2>1. CASE flush.pc = "awaitWrite" /\ flush.seq \in pending
    <3>1. FlushEnds(FALSE) /\ failed' = TRUE
      BY <1>1, <2>1
    <3>2. QED
      BY <3>1, FlushEndsFacts
  <2>2. CASE ~(flush.pc = "awaitWrite" /\ flush.seq \in pending)
    BY <1>1, <2>2, FlushGoesOnFacts DEF Inv, Flushes
  <2>3. QED
    BY <2>1, <2>2
<1>13. /\ failed' \in BOOLEAN /\ (failed => failed')
       /\ failed' => flush'.pc = "none"
  <2>1. failed \in BOOLEAN /\ (failed => flush.pc = "none")
    BY DEF Inv, TypeOK, Flushes
  <2>2. CASE flush' = NoFlush /\ failed' = TRUE
    BY <2>2 DEF NoFlush
  <2>3. CASE flush' = flush /\ failed' = failed
    BY <2>1, <2>3
  <2>4. QED
    BY <1>12, <2>2, <2>3
<1>14. /\ dispose' \in [Disposer -> Disposal]
       /\ \A k \in Disposer : k # c => dispose'[k] = dispose[k]
       /\ dispose'[c].pc = "done" /\ dispose'[c].target = w
  BY <1>1, <1>4 DEF Disposal, w
<1>15. failed' \/ dispose'["shutdown"].pc = "done"
  <2>1. CASE c = "shutdown"
    BY <1>14, <2>1
  <2>2. CASE c = "error"
    BY <1>1, <1>13, <2>2 DEF Inv, Disposals
  <2>3. QED
    BY <2>1, <2>2 DEF Disposer
<1>16. NoOrphanWorker'
  BY <1>7, <1>9 DEF NoOrphanWorker, t2
<1>17. Disposals'
  <2>1. /\ \A k \in Disposer : Disposing(k) => dispose[k].target # None /\ Spawned(dispose[k].target)
        /\ \A k \in Disposer : dispose[k].pc = "terminating" => ~thread[dispose[k].target].listening
        /\ dispose["error"].pc # "none" => failed
        /\ dispose["shutdown"].pc # "none" => phase \in {"dispose", "exited"}
    BY DEF Inv, Disposals
  <2>2. ASSUME NEW k \in Disposer, dispose'[k].pc \in {"awaitClose", "terminating"}
        PROVE  /\ dispose'[k].target # 0 /\ thread'[dispose'[k].target].state # "none"
               /\ ~thread'[dispose'[k].target].listening
    <3>1. k # c /\ dispose'[k] = dispose[k]
      BY <1>14, <2>2
    <3>2. dispose[k].target # None /\ Spawned(dispose[k].target)
      BY <2>1, <2>2, <3>1 DEF Disposing
    <3>3. dispose[k].target \in Workers
      BY <1>4, <3>2 DEF Disposal, Workers, None
    <3>4. dispose[k].target = w
      BY <1>5, <3>2, <3>3 DEF Inv, OneWorker
    <3>5. QED
      BY <1>5, <1>7, <3>1, <3>2, <3>4 DEF t2, None
  <2>3. /\ dispose'["error"].pc # "none" => failed'
        /\ dispose'["shutdown"].pc # "none" => phase' \in {"dispose", "exited"}
    BY <1>1, <1>12, <1>13, <1>14, <2>1 DEF Disposer
  <2>4. QED
    BY <2>2, <2>3 DEF Disposals, Disposing, Spawned, None
<1>18. ResetWorkerState /\ pending' = {} /\ skipped \subseteq skipped'
  BY <1>1
<1>19. flush' = NoFlush \/ (flush' = flush /\ flush.pc # "awaitWrite")
  BY <1>12
<1>20. /\ thread' = [v \in Workers |-> thread'[v]] /\ dispose' \in [Disposer -> Disposal]
       /\ queue' \subseteq queue /\ arrivals' = arrivals /\ acked' = acked
  BY <1>6, <1>12, <1>14
<1>21. failed' \in BOOLEAN /\ (failed' => flush'.pc = "none")
  BY <1>13
<1>22. QED
  BY <1>10, <1>11, <1>15, <1>16, <1>17, <1>18, <1>19, <1>20, <1>21, ResetKeeps

\* The shutdown joins the disposals.
LEMMA ShutdownJoins ==
    ASSUME Inv, \A v \in Workers : Base(thread[v], thread'[v]), failed' = failed, phase' = "dispose",
           dispose["shutdown"].pc = "none", dispose'["error"] = dispose["error"],
           dispose'["shutdown"].pc # "terminating",
           dispose'["shutdown"].pc = "awaitClose" =>
               dispose'["shutdown"].target \in Workers /\ Spawned(dispose'["shutdown"].target),
           worker' = worker \/ worker = None
    PROVE  Disposals' /\ NoOrphanWorker'
<1>1. /\ \A c \in Disposer : Disposing(c) => dispose[c].target # None /\ Spawned(dispose[c].target)
      /\ \A c \in Disposer : dispose[c].pc = "terminating" => ~thread[dispose[c].target].listening
      /\ dispose["error"].pc # "none" => failed
  BY DEF Inv, Disposals
<1>2. \A c \in Disposer : dispose[c].target # None => dispose[c].target \in Workers
  BY DEF Inv, TypeOK, Disposal, None, Workers
<1>3. dispose'["error"].pc \in {"awaitClose", "terminating"} =>
          /\ dispose'["error"].target # 0 /\ thread'[dispose'["error"].target].state # "none"
          /\ dispose'["error"].pc = "terminating" => ~thread'[dispose'["error"].target].listening
  BY <1>1, <1>2 DEF Disposing, Spawned, Base, None, Disposer
<1>4. dispose'["shutdown"].pc = "awaitClose" =>
          dispose'["shutdown"].target # 0 /\ thread'[dispose'["shutdown"].target].state # "none"
  BY DEF Spawned, Base, Workers
<1>5. Disposals'
  BY <1>1, <1>3, <1>4 DEF Disposals, Disposing, Spawned, None, Disposer
<1>6. ASSUME NEW w \in Workers, thread'[w].state = "alive"
      PROVE  \/ worker' = w
             \/ dispose'["error"].target = w /\ dispose'["error"].pc \in {"awaitClose", "terminating"}
  <2>1. thread[w].state = "alive" /\ w # None
    BY <1>6 DEF Base, Workers, None
  <2>2. \/ worker = w
        \/ dispose["error"].target = w /\ dispose["error"].pc \in {"awaitClose", "terminating"}
    BY <2>1 DEF Inv, NoOrphanWorker, Disposer
  <2>3. QED
    BY <2>1, <2>2
<1>7. NoOrphanWorker'
  BY <1>6 DEF NoOrphanWorker, Disposer
<1>8. QED
  BY <1>5, <1>7

\* disposeGatewayObservationWorker, called by the shutdown.
LEMMA DisposeStep ==
    ASSUME Inv, StartDispose, phase \notin {"dispose", "exited"}, phase' = "dispose",
           flush' = flush, failed' = failed, UNCHANGED storeVars, queue' \subseteq queue,
           arrivals' = arrivals, acked' = acked
    PROVE  Inv'
<1>1. dispose["shutdown"].pc = "none"
  BY DEF Inv, Disposals
<1>2. /\ thread \in [Workers -> Thread] /\ \A v \in Workers : Sound(thread[v])
      /\ dispose \in [Disposer -> Disposal] /\ failed \in BOOLEAN
      /\ failed => flush.pc = "none"
      /\ flush.pc = "awaitWrite" => worker # None
      /\ flush.pc = "awaitReady" => ready = "pending"
  BY <1>1 DEF Inv, TypeOK, Flushes
<1>3. rows' = rows /\ skipped' = skipped
  BY DEF storeVars
<1>4. thread' = thread => /\ thread' = [v \in Workers |-> thread'[v]]
                          /\ \A v \in Workers : Mild(thread[v], thread'[v])
                          /\ \A v \in Workers : Base(thread[v], thread'[v])
                          /\ Begun' = Begun
  <2> SUFFICES ASSUME thread' = thread
               PROVE  /\ thread' = [v \in Workers |-> thread'[v]]
                      /\ \A v \in Workers : Mild(thread[v], thread'[v])
                      /\ \A v \in Workers : Base(thread[v], thread'[v])
                      /\ Begun' = Begun
    OBVIOUS
  <2>1. thread' = [v \in Workers |-> thread'[v]]
    BY <1>2
  <2>2. \A v \in Workers : Mild(thread[v], thread'[v])
    BY <1>2, MildSame
  <2>3. \A v \in Workers : Base(thread[v], thread'[v])
    BY <2>2 DEF Mild
  <2>4. Begun' = Begun
    BY BegunSame
  <2>5. QED
    BY <2>1, <2>2, <2>3, <2>4
<1>5. CASE worker = None
  <2>1. /\ ResetWorkerState /\ pending' = {} /\ thread' = thread
        /\ dispose' = [dispose EXCEPT !["shutdown"] = [pc |-> "done", target |-> None]]
    BY <1>5 DEF StartDispose
  <2>2. /\ dispose' \in [Disposer -> Disposal] /\ dispose'["error"] = dispose["error"]
        /\ dispose'["shutdown"].pc = "done"
    BY <1>2, <2>1, PipelineAssumption DEF Disposal, Disposer, None
  <2>3. Disposals' /\ NoOrphanWorker'
    BY <1>1, <1>4, <1>5, <2>1, <2>2, ShutdownJoins
  <2>4. \A v \in Workers : ~Heard(thread'[v])
    BY <1>5, <2>1 DEF Inv, OneWorker, Workers, None
  <2>5. \A v \in Workers : Follows(thread[v], thread'[v], skipped', rows')
    BY <1>4, <2>1, MildFollows
  <2>6. flush' = flush /\ flush.pc # "awaitWrite" /\ (failed' => flush'.pc = "none")
    BY <1>2, <1>5
  <2>7. QED
    BY <1>2, <1>3, <1>4, <2>1, <2>2, <2>3, <2>4, <2>5, <2>6, ResetKeeps
<1>6. CASE worker # None /\ closing /\ close # "none"
  <2>1. /\ dispose' = [dispose EXCEPT !["shutdown"] =
              [pc |-> IF close = "settled" THEN "done" ELSE "awaitOther", target |-> None]]
        /\ UNCHANGED <<workerVars, thread>>
    BY <1>6 DEF StartDispose
  <2>2. /\ dispose' \in [Disposer -> Disposal] /\ dispose'["error"] = dispose["error"]
        /\ dispose'["shutdown"].pc \in {"done", "awaitOther"}
    BY <1>2, <2>1, PipelineAssumption DEF Disposal, Disposer, None
  <2>3. /\ worker' = worker /\ generation' = generation /\ sequence' = sequence /\ pending' = pending
        /\ ready' = ready /\ close' = close /\ closing' = closing /\ thread' = thread
    BY <2>1 DEF workerVars
  <2>4. Disposals' /\ NoOrphanWorker'
    BY <1>1, <1>4, <2>2, <2>3, ShutdownJoins
  <2>5. CloseIsFlagged'
    BY <1>6, <2>3 DEF CloseIsFlagged
  <2>6. /\ flush' = flush /\ (failed' => flush.pc = "none") /\ pending' = pending
        /\ flush.pc = "awaitReady" => ready' = "pending" \/ dispose'["shutdown"].pc = "done"
    BY <1>2, <2>3
  <2>7. QED
    BY <1>1, <1>2, <1>4, <2>2, <2>3, <2>4, <2>5, <2>6, EventStep
<1>7. CASE worker # None /\ ~(closing /\ close # "none")
  <2>1. /\ closing' = TRUE /\ close' = "pending"
        /\ dispose' = [dispose EXCEPT !["shutdown"] = [pc |-> "awaitClose", target |-> worker]]
        /\ thread' = Post(worker, Msg("close"))
        /\ worker' = worker /\ generation' = generation /\ sequence' = sequence /\ pending' = pending
        /\ ready' = ready
    BY <1>7 DEF StartDispose
  <2>2. worker \in Workers /\ worker \in 0 .. MaxWorkers /\ Spawned(worker)
    BY <1>7 DEF Inv, TypeOK, OneWorker, None, Workers
  <2>3. /\ dispose' \in [Disposer -> Disposal] /\ dispose'["error"] = dispose["error"]
        /\ dispose'["shutdown"].pc = "awaitClose" /\ dispose'["shutdown"].target = worker
    BY <1>2, <2>1, <2>2 DEF Disposal, Disposer
  <2> DEFINE m == Msg("close")
  <2> HIDE DEF m
  <2>4. m \in Message /\ m.type # "write_batch"
    BY DEF Msg, Message, m
  <2>5. thread' = PostTo(thread, worker, m)
    BY <2>1 DEF PostTo, Post, m
  <2>6. thread' = [v \in Workers |-> thread'[v]] /\ \A v \in Workers : Mild(thread[v], thread'[v])
    BY <1>2, <2>2, <2>4, <2>5, PostedOne DEF Spawned
  <2>7. \A v \in Workers : Base(thread[v], thread'[v])
    BY <2>6 DEF Mild
  <2>8. Disposals' /\ NoOrphanWorker'
    BY <1>1, <2>1, <2>2, <2>3, <2>7, ShutdownJoins
  <2>9. CloseIsFlagged'
    BY <2>1 DEF CloseIsFlagged
  <2>10. /\ flush' = flush /\ (failed' => flush.pc = "none") /\ pending' = pending
         /\ flush.pc = "awaitReady" => ready' = "pending" \/ dispose'["shutdown"].pc = "done"
    BY <1>2, <2>1
  <2>11. /\ worker' = worker /\ generation' = generation /\ sequence' = sequence
    BY <2>1
  <2>12. QED
    BY <1>1, <1>2, <2>3, <2>6, <2>8, <2>9, <2>10, <2>11, EventStep
<1>8. QED
  BY <1>5, <1>6, <1>7

\* The beginning of the shutdown, and the end of its drain.
LEMMA StepShutdown ==
    ASSUME Inv, shutdownGatewayObservability, queue = {} /\ flush.pc = "none"
    PROVE  Inv'
BY DisposeStep DEF shutdownGatewayObservability, queueVars

\* What is left in the queue is given up.
LEMMA StepDrainEnds ==
    ASSUME Inv, DrainEnds, phase \notin {"dispose", "exited"}
    PROVE  Inv'
BY DisposeStep DEF DrainEnds

\* A step that only changes timers, or the phase of the shutdown.
LEMMA IdleStep ==
    ASSUME Inv, UNCHANGED <<queue, arrivals, flush, failed, workerVars, thread, dispose, storeVars, acked>>,
           phase' = phase \/ phase \notin {"dispose", "exited"} \/ phase' = "exited",
           phase' # "exited" => phase # "exited"
    PROVE  Inv'
<1>1. /\ queue' = queue /\ arrivals' = arrivals /\ flush' = flush /\ failed' = failed /\ acked' = acked
      /\ thread' = thread /\ dispose' = dispose /\ rows' = rows /\ skipped' = skipped
      /\ worker' = worker /\ generation' = generation /\ ready' = ready /\ close' = close
      /\ closing' = closing /\ sequence' = sequence /\ pending' = pending
  BY DEF workerVars, storeVars
<1>2. /\ \A v \in Workers : thread[v] \in Thread /\ Sound(thread[v])
      /\ thread' = [v \in Workers |-> thread'[v]]
      /\ dispose' \in [Disposer -> Disposal] /\ failed' \in BOOLEAN
  BY <1>1 DEF Inv, TypeOK
<1>3. \A v \in Workers : Mild(thread[v], thread'[v])
  BY <1>1, <1>2, MildSame
<1>4. \A v \in Workers : Base(thread[v], thread'[v])
  BY <1>3 DEF Mild
<1>5. Disposals' /\ NoOrphanWorker'
  BY <1>1, <1>4, DisposalsSame
<1>6. CloseIsFlagged'
  BY <1>1 DEF Inv, CloseIsFlagged
<1>7. Flushes'
  BY <1>1 DEF Inv, Flushes, None
<1>8. QED
  BY <1>1, <1>2, <1>3, <1>5, <1>6, <1>7, LoopKeeps DEF storeVars

\* The process ends: what was queued and flushed is gone.
LEMMA StepFinish ==
    ASSUME Inv, FinishShutdown
    PROVE  Inv'
<1>1. /\ phase = "dispose" /\ phase' = "exited" /\ queue' = {} /\ flush' = NoFlush
      /\ arrivals' = arrivals /\ failed' = failed /\ acked' = acked
      /\ thread' = thread /\ dispose' = dispose /\ rows' = rows /\ skipped' = skipped
      /\ worker' = worker /\ generation' = generation /\ ready' = ready /\ close' = close
      /\ closing' = closing /\ sequence' = sequence /\ pending' = pending
  BY DEF FinishShutdown, workerVars, storeVars
<1>2. /\ \A v \in Workers : thread[v] \in Thread /\ Sound(thread[v])
      /\ thread' = [v \in Workers |-> thread'[v]]
      /\ dispose' \in [Disposer -> Disposal] /\ failed' \in BOOLEAN
  BY <1>1 DEF Inv, TypeOK
<1>3. \A v \in Workers : Mild(thread[v], thread'[v])
  BY <1>1, <1>2, MildSame
<1>4. \A v \in Workers : Base(thread[v], thread'[v])
  BY <1>3 DEF Mild
<1>5. Disposals' /\ NoOrphanWorker'
  BY <1>1, <1>4, DisposalsSame
<1>6. CloseIsFlagged'
  BY <1>1 DEF Inv, CloseIsFlagged
<1>7. Flushes'
  BY <1>1 DEF Flushes, NoFlush
<1>8. QED
  BY <1>1, <1>2, <1>3, <1>5, <1>6, <1>7, LoopKeeps DEF storeVars

-----------------------------------------------------------------------------
(***************************************************************************)
(* A batch goes to the worker                                              *)
(***************************************************************************)

\* The writes of an inbox that got one more message.
LEMMA AppendWrites ==
    ASSUME NEW a \in Seq(Message), NEW m, NEW c, Len(c) = Len(a) + 1, c[Len(a) + 1] = m,
           \A i \in 1 .. Len(a) : c[i] = a[i]
    PROVE  \A i \in Writes(c) : \/ i \in Writes(a) /\ c[i] = a[i]
                                \/ i = Len(a) + 1 /\ c[i] = m
<1>1. Len(a) \in Nat
  OBVIOUS
<1>2. ASSUME NEW i \in Writes(c)
      PROVE  (i \in Writes(a) /\ c[i] = a[i]) \/ (i = Len(a) + 1 /\ c[i] = m)
  <2>1. i \in 1 .. Len(c) /\ c[i].type = "write_batch"
    BY DEF Writes
  <2>2. i \in 1 .. Len(a) \/ i = Len(a) + 1
    BY <1>1, <2>1
  <2>3. QED
    BY <1>1, <2>1, <2>2 DEF Writes
<1>3. QED
  BY <1>2

\* The writes a thread has once it was sent m.
LEMMA SendWrites ==
    ASSUME NEW t, NEW t2, NEW m, t.inbox \in Seq(Message), Sends(t, t2, m)
    PROVE  \A i \in Writes(t2.inbox) :
              \/ i \in Writes(t.inbox) /\ t2.inbox[i] = t.inbox[i]
              \/ i = Len(t.inbox) + 1 /\ t2.inbox[i] = m
<1> DEFINE a == t.inbox
           c == t2.inbox
<1>1. /\ Len(c) = Len(a) + 1 /\ c[Len(a) + 1] = m /\ a \in Seq(Message)
      /\ \A i \in 1 .. Len(a) : c[i] = a[i]
  BY DEF Sends
<1> HIDE DEF a, c
<1>2. \A i \in Writes(c) : (i \in Writes(a) /\ c[i] = a[i]) \/ (i = Len(a) + 1 /\ c[i] = m)
  BY <1>1, AppendWrites
<1>3. QED
  BY <1>2 DEF a, c

\* A write is sent in the turn of the loop that handled an event of the thread.
LEMMA SendsAfter ==
    ASSUME NEW t, NEW t1, NEW t2, NEW m, Mild(t, t1), t1.inbox = t.inbox, Sends(t1, t2, m)
    PROVE  Sends(t, t2, m)
<1>1. Base(t, t2)
  BY DEF Mild, Sends, Base
<1>2. \A i \in 1 .. Len(t2.outbox) : \E j \in 1 .. Len(t.outbox) : t.outbox[j] = t2.outbox[i]
  BY DEF Mild, Sends
<1>3. QED
  BY <1>1, <1>2 DEF Mild, Sends

\* A write that carries the next number is the only one with that number.
LEMMA SendNumbers ==
    ASSUME NEW t, NEW t2, NEW m \in Message, t.inbox \in Seq(Message), Sends(t, t2, m),
           NEW n \in Nat, m.seq = n, Below(t, n), NEW sk, NEW rs,
           \A i \in 1 .. Len(t.outbox) : t.outbox[i] \in Message,
           \A i \in 1 .. Len(t.inbox) : t.inbox[i] \in Message, t.inFlight \subseteq Message
    PROVE  Below(t2, n + 1) /\ Carries(t2, n, m.batch, sk, rs)
<1>1. \A x \in Message : x.seq \in Nat
  BY DEF Message
<1>2. \A i \in Writes(t2.inbox) : \/ i \in Writes(t.inbox) /\ t2.inbox[i] = t.inbox[i]
                                  \/ t2.inbox[i] = m
  BY SendWrites
<1>3. \A i \in Writes(t2.inbox) : \/ t2.inbox[i].seq \in Nat /\ t2.inbox[i].seq < n
                                  \/ t2.inbox[i] = m
  BY <1>1, <1>2 DEF Below, Writes
<1>4. \A x \in t2.inFlight : x.seq \in Nat /\ x.seq < n
  BY <1>1 DEF Below, Sends
<1>5. \A i \in 1 .. Len(t2.outbox) : t2.outbox[i].type = "batch_written" =>
         t2.outbox[i].seq \in Nat /\ t2.outbox[i].seq < n
  BY <1>1 DEF Below, Sends
<1>6. Below(t2, n + 1)
  BY <1>3, <1>4, <1>5 DEF Below
<1>7. Carries(t2, n, m.batch, sk, rs)
  BY <1>3, <1>4, <1>5 DEF Carries
<1>8. QED
  BY <1>6, <1>7

\* A batch that is nowhere else is put into an inbox.
LEMMA SendPlaces ==
    ASSUME Inv, NEW w \in Workers, NEW m \in Message, Sends(thread[w], thread'[w], m),
           \A v \in Workers : v # w => thread'[v] = thread[v],
           UNCHANGED storeVars, arrivals' = arrivals, queue' \subseteq queue, Held' = {},
           Fresh(m.batch), Apart(queue', m.batch),
           \A i \in Writes(thread[w].inbox) : Apart(m.batch, thread[w].inbox[i].batch)
    PROVE  OnePlace'
<1>1. OnePlace /\ thread[w].inbox \in Seq(Message)
  BY DEF Inv, TypeOK, Thread
<1>2. Begun' = Begun
  <2>1. \A v \in Workers : thread'[v].inFlight = thread[v].inFlight
    BY DEF Sends
  <2>2. QED
    BY <2>1, BegunSame
<1>3. /\ \A x, y \in queue' : x.arrival = y.arrival => x = y
      /\ \A n \in Begun' : n \in Nat /\ n < arrivals'
  BY <1>1, <1>2 DEF OnePlace
<1>4. /\ \A x \in queue' : x.arrival < arrivals' /\ x.arrival \notin Begun'
      /\ \A x \in Held' : x.arrival < arrivals' /\ x.arrival \notin Begun'
      /\ Apart(queue', Held')
  BY <1>1, <1>2 DEF OnePlace, Fresh, Apart
<1>5. \A v \in Workers : \A i \in Writes(thread[v].inbox) :
         /\ \A x \in thread[v].inbox[i].batch : x.arrival < arrivals' /\ x.arrival \notin Begun'
         /\ Apart(queue', thread[v].inbox[i].batch)
         /\ \A j \in Writes(thread[v].inbox) : j # i => Apart(thread[v].inbox[i].batch, thread[v].inbox[j].batch)
  BY <1>1, <1>2 DEF OnePlace, Fresh, Apart
<1>6. \A v \in Workers : \A i \in Writes(thread'[v].inbox) :
         /\ \A x \in thread'[v].inbox[i].batch : x.arrival < arrivals' /\ x.arrival \notin Begun'
         /\ Apart(queue', thread'[v].inbox[i].batch)
         /\ \A j \in Writes(thread'[v].inbox) : j # i => Apart(thread'[v].inbox[i].batch, thread'[v].inbox[j].batch)
  <2>1. \A i \in Writes(thread'[w].inbox) :
           \/ i \in Writes(thread[w].inbox) /\ thread'[w].inbox[i] = thread[w].inbox[i]
           \/ i = Len(thread[w].inbox) + 1 /\ thread'[w].inbox[i] = m
    <3> DEFINE t  == thread[w]
               t2 == thread'[w]
    <3>1. t.inbox \in Seq(Message) /\ Sends(t, t2, m)
      BY <1>1
    <3> HIDE DEF t, t2
    <3>2. \A i \in Writes(t2.inbox) : \/ i \in Writes(t.inbox) /\ t2.inbox[i] = t.inbox[i]
                                      \/ i = Len(t.inbox) + 1 /\ t2.inbox[i] = m
      BY <3>1, SendWrites
    <3>3. QED
      BY <3>2, Zenon DEF t, t2
  <2>2. \A i \in Writes(thread[w].inbox) : Apart(thread[w].inbox[i].batch, m.batch)
    BY DEF Apart
  <2>3. ASSUME NEW i \in Writes(thread'[w].inbox)
        PROVE  /\ \A x \in thread'[w].inbox[i].batch : x.arrival < arrivals' /\ x.arrival \notin Begun'
               /\ Apart(queue', thread'[w].inbox[i].batch)
               /\ \A j \in Writes(thread'[w].inbox) : j # i =>
                     Apart(thread'[w].inbox[i].batch, thread'[w].inbox[j].batch)
    <3>1. CASE i \in Writes(thread[w].inbox) /\ thread'[w].inbox[i] = thread[w].inbox[i]
      BY <1>5, <2>1, <2>2, <3>1
    <3>2. CASE i = Len(thread[w].inbox) + 1 /\ thread'[w].inbox[i] = m
      <4>1. \A j \in Writes(thread'[w].inbox) : j # i =>
               j \in Writes(thread[w].inbox) /\ thread'[w].inbox[j] = thread[w].inbox[j]
        BY <2>1, <3>2
      <4>2. QED
        BY <1>2, <3>2, <4>1 DEF Fresh
    <3>3. QED
      BY <2>1, <3>1, <3>2
  <2>4. ASSUME NEW v \in Workers, v # w, NEW i \in Writes(thread'[v].inbox)
        PROVE  /\ \A x \in thread'[v].inbox[i].batch : x.arrival < arrivals' /\ x.arrival \notin Begun'
               /\ Apart(queue', thread'[v].inbox[i].batch)
               /\ \A j \in Writes(thread'[v].inbox) : j # i =>
                     Apart(thread'[v].inbox[i].batch, thread'[v].inbox[j].batch)
    BY <1>5, <2>4
  <2>5. QED
    BY <2>3, <2>4
<1>7. \A b : Apart(Held', b)
  BY DEF Apart
<1>8. QED
  BY <1>3, <1>4, <1>6, <1>7 DEF OnePlace, Fresh, Apart, Writes

\* The flush sends its batch to the worker.
LEMMA SendKeeps ==
    ASSUME Inv, worker # None, phase # "exited", ~failed, flush.pc # "awaitWrite",
           NEW m \in Message, m.seq = sequence, m.type = "write_batch",
           Sends(thread[worker], thread'[worker], m),
           \A v \in Workers : v # worker => thread'[v] = thread[v],
           thread' = [v \in Workers |-> thread'[v]],
           flush' = [pc |-> "awaitWrite", batch |-> m.batch, seq |-> sequence],
           pending' = pending \cup {sequence}, sequence' = sequence + 1,
           worker' = worker, generation' = generation, close' = close, closing' = closing,
           failed' = failed, dispose' = dispose, UNCHANGED storeVars, acked' = acked,
           phase' = phase \/ phase \notin {"dispose", "exited"},
           arrivals' = arrivals, queue' \subseteq queue,
           Fresh(m.batch), Apart(queue', m.batch),
           \A i \in Writes(thread[worker].inbox) : Apart(m.batch, thread[worker].inbox[i].batch)
    PROVE  Inv'
<1>1. worker \in Workers /\ sequence \in Nat /\ pending = {}
  BY PendingIsOfFlush DEF Inv, TypeOK, Workers, None
<1>2. \A v \in Workers : thread[v] \in Thread /\ Sound(thread[v])
  BY DEF Inv, TypeOK
<1>3. \A v \in Workers : v # worker => Mild(thread[v], thread'[v])
  BY <1>2, MildSame
<1>4. \A v \in Workers : Base(thread[v], thread'[v])
  BY <1>1, <1>3 DEF Mild, Sends
<1>5. OneWorker'
  BY <1>4, OneWorkerKept
<1>6. Disposals' /\ NoOrphanWorker'
  BY <1>4, DisposalsSame
<1>7. CloseIsFlagged'
  BY DEF Inv, CloseIsFlagged
<1>8. /\ flush' \in Flush /\ flush'.pc = "awaitWrite" /\ flush'.seq = sequence
      /\ flush'.batch = m.batch
  BY <1>1 DEF Flush, Message
<1>9. Flushes'
  BY <1>1, <1>8 DEF Flushes, None
<1>10. Numbered'
  <2>1. \A v \in Workers : Below(thread[v], sequence)
    BY DEF Inv, Numbered
  <2>2. Below(thread'[worker], sequence + 1) /\ Carries(thread'[worker], sequence, m.batch, skipped', rows')
    <3>1. thread[worker] \in Thread
      BY <1>1, <1>2
    <3>2. /\ thread[worker].inbox \in Seq(Message)
          /\ \A i \in 1 .. Len(thread[worker].outbox) : thread[worker].outbox[i] \in Message
          /\ \A i \in 1 .. Len(thread[worker].inbox) : thread[worker].inbox[i] \in Message
          /\ thread[worker].inFlight \subseteq Message
      BY <3>1 DEF Thread
    <3>3. QED
      BY <1>1, <2>1, <3>2, SendNumbers
  <2>3. ASSUME NEW v \in Workers, v # worker
        PROVE  Below(thread[v], sequence + 1) /\ Carries(thread[v], sequence, m.batch, skipped', rows')
    <3>1. thread[v].state = "none"
      BY <1>1, <2>3 DEF Inv, OneWorker, Spawned
    <3>2. thread[v].inbox = << >> /\ thread[v].outbox = << >> /\ thread[v].inFlight = {}
      BY <1>2, <3>1 DEF Sound
    <3>3. QED
      BY <3>2 DEF Below, Carries, Writes
  <2>4. \A v \in Workers : /\ Below(thread'[v], sequence')
                           /\ Carries(thread'[v], flush'.seq, flush'.batch, skipped', rows')
    BY <1>8, <2>2, <2>3
  <2>5. QED
    BY <2>4 DEF Numbered
<1>11. OnePlace'
  <2>1. Held' = {}
    BY <1>8 DEF Held
  <2>2. QED
    BY <1>1, <2>1, SendPlaces
<1>12. AckMeansProcessed'
  BY AckedKept DEF storeVars
<1>13. TypeOK'
  <2>1. \A v \in Workers : thread'[v] \in Thread
    BY <1>4 DEF Base
  <2>2. thread' \in [Workers -> Thread]
    BY <2>1, Zenon
  <2>3. /\ queue' \subseteq Obs /\ arrivals' \in Nat /\ failed' \in BOOLEAN
        /\ worker' \in 0 .. MaxWorkers /\ generation' \in Nat /\ dispose' \in [Disposer -> Disposal]
    BY DEF Inv, TypeOK
  <2>4. sequence' \in Nat /\ pending' \subseteq Nat
    BY <1>1
  <2>5. QED
    BY <1>8, <2>2, <2>3, <2>4 DEF TypeOK, Workers, Disposer, Thread, Message, Flush, Disposal, Obs
<1>14. \A v \in Workers : Sound(thread'[v])
  BY <1>4 DEF Base
<1>15. QED
  BY <1>5, <1>6, <1>7, <1>9, <1>10, <1>11, <1>12, <1>13, <1>14 DEF Inv

\* "ready": the flush that waits for it sends its batch, unless the worker is closing.
LEMMA StepReady ==
    ASSUME Inv, NEW w \in Workers, HandleReady(w)
    PROVE  Inv'
<1>1. /\ Event(w, "ready") /\ ready' = "ok"
      /\ IF flush.pc = "awaitReady" /\ ready = "pending"
         THEN IF closing
              THEN /\ FlushEnds(FALSE) /\ failed' = TRUE
                   /\ thread' = Taken(w)
                   /\ UNCHANGED <<sequence, pending>>
              ELSE /\ flush' = [flush EXCEPT !.pc = "awaitWrite", !.seq = sequence]
                   /\ pending' = pending \cup {sequence}
                   /\ sequence' = sequence + 1
                   /\ thread' = [Taken(w) EXCEPT ![w].inbox =
                          Append(@, [type |-> "write_batch", seq |-> sequence, batch |-> flush.batch])]
                   /\ UNCHANGED <<queueVars, timerVars, failed, phase, acked>>
         ELSE /\ thread' = Taken(w)
              /\ FlushGoesOn
              /\ UNCHANGED <<failed, sequence, pending>>
      /\ UNCHANGED <<worker, generation, close, closing, dispose, storeVars>>
  BY DEF HandleReady
<1>2. /\ thread[w].outbox # << >> /\ phase # "exited" /\ dispose["shutdown"].pc # "done"
      /\ worker = w /\ worker # None /\ thread[w].state # "none"
  BY <1>1, EventFacts
<1>3. /\ worker' = worker /\ generation' = generation /\ close' = close /\ closing' = closing
      /\ dispose' = dispose /\ rows' = rows /\ skipped' = skipped
  BY <1>1 DEF storeVars
<1>4. CloseIsFlagged'
  BY <1>3 DEF Inv, CloseIsFlagged
<1>5. /\ failed \in BOOLEAN /\ dispose \in [Disposer -> Disposal] /\ (failed => flush.pc = "none")
      /\ flush.pc = "awaitReady" => ready = "pending"
  BY <1>2 DEF Inv, TypeOK, Flushes
<1>6. CASE ~(flush.pc = "awaitReady" /\ ready = "pending" /\ ~closing)
  <2>1. /\ thread' = Taken(w) /\ sequence' = sequence /\ pending' = pending
        /\ queue' = queue /\ arrivals' = arrivals /\ acked' = acked
        /\ phase' = phase \/ phase \notin {"dispose", "exited"} \/ phase' = "exited"
        /\ \/ flush' = NoFlush /\ failed' = TRUE /\ pending' = {}
           \/ flush' = flush /\ failed' = failed /\ flush.pc # "awaitReady"
    <3>1. CASE flush.pc = "awaitReady" /\ ready = "pending" /\ closing
      <4>1. FlushEnds(FALSE) /\ failed' = TRUE /\ thread' = Taken(w) /\ sequence' = sequence /\ pending' = pending
        BY <1>1, <3>1
      <4>2. pending = {}
        BY <1>2, <3>1, PendingIsOfFlush
      <4>3. QED
        BY <4>1, <4>2, FlushEndsFacts
    <3>2. CASE ~(flush.pc = "awaitReady" /\ ready = "pending")
      <4>1. FlushGoesOn /\ failed' = failed /\ thread' = Taken(w) /\ sequence' = sequence /\ pending' = pending
        BY <1>1, <3>2
      <4>2. QED
        BY <1>5, <3>2, <4>1, FlushGoesOnFacts
    <3>3. QED
      BY <1>6, <3>1, <3>2
  <2>2. thread' \in [Workers -> Thread] /\ \A v \in Workers : Mild(thread[v], thread'[v])
    BY <1>2, <2>1, TakenMild
  <2>3. thread' = [v \in Workers |-> thread'[v]]
    BY <2>2
  <2>4. \A v \in Workers : Base(thread[v], thread'[v])
    BY <2>2 DEF Mild
  <2>5. failed' \in BOOLEAN /\ (failed => failed')
    <3>1. failed' = TRUE \/ failed' = failed
      BY <2>1
    <3>2. QED
      BY <1>5, <3>1
  <2>6. Disposals' /\ NoOrphanWorker'
    BY <1>3, <2>1, <2>4, <2>5, DisposalsSame
  <2>7. \/ flush' = NoFlush /\ pending' = {}
        \/ /\ flush' = flush /\ (failed' => flush.pc = "none") /\ pending' = pending
           /\ flush.pc = "awaitReady" => ready' = "pending" \/ dispose'["shutdown"].pc = "done"
    BY <1>5, <2>1
  <2>8. /\ sequence' = sequence /\ pending' \subseteq pending /\ queue' \subseteq queue
        /\ arrivals' = arrivals /\ acked' = acked
    BY <2>1
  <2>9. QED
    BY <1>2, <1>3, <1>4, <1>5, <2>2, <2>3, <2>5, <2>6, <2>7, <2>8, EventStep DEF storeVars
<1>7. CASE flush.pc = "awaitReady" /\ ready = "pending" /\ ~closing
  <2> DEFINE m == [type |-> "write_batch", seq |-> sequence, batch |-> flush.batch]
             t == Taken(w)
  <2>1. /\ flush' = [flush EXCEPT !.pc = "awaitWrite", !.seq = sequence]
        /\ pending' = pending \cup {sequence} /\ sequence' = sequence + 1
        /\ thread' = PostTo(t, w, m)
        /\ queue' = queue /\ arrivals' = arrivals /\ failed' = failed /\ phase' = phase /\ acked' = acked
    BY <1>1, <1>7 DEF queueVars, PostTo
  <2>2. /\ m \in Message /\ m.seq = sequence /\ m.type = "write_batch" /\ m.batch = flush.batch
        /\ flush' = [pc |-> "awaitWrite", batch |-> m.batch, seq |-> sequence]
    <3>1. flush \in Flush /\ sequence \in Nat
      BY DEF Inv, TypeOK
    <3>2. QED
      BY <2>1, <3>1 DEF Message, Flush
  <2> HIDE DEF m, t
  <2>3. /\ t \in [Workers -> Thread] /\ \A v \in Workers : Mild(thread[v], t[v])
        /\ t[w].inbox = thread[w].inbox /\ \A v \in Workers : v # w => t[v] = thread[v]
    BY <1>2, TakenMild DEF t
  <2>4. (\A v \in Workers : Sound(t[v])) /\ t[w].state # "none"
    BY <1>2, <2>3 DEF Mild, Base
  <2>5. /\ thread' = [v \in Workers |-> thread'[v]] /\ Sends(t[w], thread'[w], m)
        /\ \A v \in Workers : v # w => thread'[v] = t[v]
    BY <2>1, <2>2, <2>3, <2>4, PostedOne
  <2>6. Sends(thread[w], thread'[w], m)
    BY <2>3, <2>5, SendsAfter
  <2>7. \A v \in Workers : v # w => thread'[v] = thread[v]
    BY <2>3, <2>5
  <2>8. ~failed /\ flush.pc # "awaitWrite" /\ Held = flush.batch
    BY <1>5, <1>7 DEF Held
  <2>9. /\ Fresh(m.batch) /\ Apart(queue', m.batch)
        /\ \A i \in Writes(thread[w].inbox) : Apart(m.batch, thread[w].inbox[i].batch)
    BY <2>1, <2>2, <2>8 DEF Inv, OnePlace
  <2>10. UNCHANGED storeVars
    BY <1>3 DEF storeVars
  <2>11. /\ pending' = pending \cup {sequence} /\ sequence' = sequence + 1
         /\ queue' \subseteq queue /\ arrivals' = arrivals /\ failed' = failed /\ phase' = phase /\ acked' = acked
    BY <2>1
  <2>12. QED
    BY <1>2, <1>3, <2>2, <2>5, <2>6, <2>7, <2>8, <2>9, <2>10, <2>11, SendKeeps
<1>8. QED
  BY <1>6, <1>7

-----------------------------------------------------------------------------
(***************************************************************************)
(* A flush begins                                                          *)
(***************************************************************************)

\* A batch leaves the queue and waits for the worker.
LEMMA HoldPlaces ==
    ASSUME Inv, NEW b, b \subseteq queue, queue' = queue \ b, Held' = b, Begun' = Begun,
           arrivals' = arrivals,
           \A v \in Workers : \A i \in Writes(thread'[v].inbox) :
               i \in Writes(thread[v].inbox) /\ thread'[v].inbox[i] = thread[v].inbox[i]
    PROVE  OnePlace'
<1>1. OnePlace
  BY DEF Inv
<1>2. /\ \A x, y \in queue' : x.arrival = y.arrival => x = y
      /\ \A n \in Begun' : n \in Nat /\ n < arrivals'
  BY <1>1 DEF OnePlace
<1>3. /\ \A x \in queue' : x.arrival < arrivals' /\ x.arrival \notin Begun'
      /\ \A x \in Held' : x.arrival < arrivals' /\ x.arrival \notin Begun'
  BY <1>1 DEF OnePlace, Fresh
<1>4. Apart(queue', Held')
  BY <1>1 DEF OnePlace, Apart
<1>5. \A v \in Workers : \A i \in Writes(thread'[v].inbox) :
         /\ \A x \in thread'[v].inbox[i].batch : x.arrival < arrivals' /\ x.arrival \notin Begun'
         /\ Apart(queue', thread'[v].inbox[i].batch) /\ Apart(Held', thread'[v].inbox[i].batch)
         /\ \A j \in Writes(thread'[v].inbox) : j # i => Apart(thread'[v].inbox[i].batch, thread'[v].inbox[j].batch)
  <2>1. \A v \in Workers : \A i \in Writes(thread[v].inbox) :
         /\ \A x \in thread[v].inbox[i].batch : x.arrival < arrivals' /\ x.arrival \notin Begun'
         /\ Apart(queue, thread[v].inbox[i].batch)
         /\ \A j \in Writes(thread[v].inbox) : j # i => Apart(thread[v].inbox[i].batch, thread[v].inbox[j].batch)
    BY <1>1 DEF OnePlace, Fresh
  <2>2. \A c : Apart(queue, c) => Apart(queue', c) /\ Apart(Held', c)
    BY DEF Apart
  <2>3. QED
    BY <2>1, <2>2
<1>6. QED
  BY <1>2, <1>3, <1>4, <1>5 DEF OnePlace, Fresh, Apart, Writes

\* The batch of a flush is part of the queue, and nowhere else.
LEMMA BatchPlaces ==
    ASSUME Inv, NEW b, b = Buffer!Batch(queue, BatchSize)
    PROVE  /\ b \subseteq queue /\ b \subseteq Obs /\ Fresh(b) /\ Apart(queue \ b, b)
           /\ \A w \in Workers : \A i \in Writes(thread[w].inbox) : Apart(b, thread[w].inbox[i].batch)
<1>1. b \subseteq queue
  BY DEF Buffer!Batch
<1>2. OnePlace /\ queue \subseteq Obs
  BY DEF Inv, TypeOK
<1>3. Fresh(b) /\ Apart(queue \ b, b)
  BY <1>1, <1>2 DEF OnePlace, Fresh, Apart
<1>4. \A w \in Workers : \A i \in Writes(thread[w].inbox) : Apart(b, thread[w].inbox[i].batch)
  BY <1>1, <1>2 DEF OnePlace, Apart
<1>5. QED
  BY <1>1, <1>2, <1>3, <1>4

\* A new thread, as ensureGatewayObservationWorker makes it.
Started(g) == [NoThread EXCEPT !.state = "alive", !.gen = g, !.listening = TRUE, !.inbox = <<Msg("init")>>]

\* It has nothing to say, and no write to do.
LEMMA NewThread ==
    ASSUME NEW g \in Nat, NEW t, t = Started(g)
    PROVE  /\ t \in Thread /\ Sound(t) /\ t.state = "alive" /\ t.gen = g /\ t.inFlight = {}
           /\ t.outbox = << >> /\ Writes(t.inbox) = {}
<1>1. Msg("init") \in Message /\ Msg("init").type = "init"
  BY DEF Msg, Message
<1> DEFINE in  == <<Msg("init")>>
           out == << >>
<1>2. t = [state |-> "alive", gen |-> g, listening |-> TRUE, inbox |-> in, outbox |-> out,
           storeOpen |-> FALSE, closeRequested |-> FALSE, inFlight |-> {}]
  BY DEF Started, NoThread
<1>3. in \in Seq(Message) /\ out \in Seq(Message) /\ Writes(in) = {}
  BY <1>1 DEF Writes
<1>a. out = << >>
  OBVIOUS
<1> HIDE DEF in, out
<1>4. t \in Thread
  BY <1>2, <1>3 DEF Thread
<1>5. /\ t.state = "alive" /\ t.gen = g /\ t.inFlight = {} /\ t.outbox = << >> /\ t.inbox = in
  BY <1>2, <1>a
<1>6. Writes(t.inbox) = {}
  BY <1>3, <1>5
<1>7. Sound(t)
  BY <1>5 DEF Sound
<1>8. QED
  BY <1>4, <1>5, <1>6, <1>7

\* The first flush starts the only worker thread there will be.
LEMMA SpawnKeeps ==
    ASSUME Inv, worker = None, phase # "exited", ~failed, dispose["shutdown"].pc # "done",
           NEW w \in Workers, NEW b, b = Buffer!Batch(queue, BatchSize), NEW t,
           t = Started(generation + 2), thread' = [thread EXCEPT ![w] = t], worker' = w, generation' = generation + 2,
           ready' = "pending", sequence' = 0, pending' = {}, close' = close, closing' = closing,
           flush' = [pc |-> "awaitReady", batch |-> b, seq |-> 0],
           failed' = failed, dispose' = dispose, UNCHANGED storeVars, acked' = acked,
           phase' = phase \/ phase \notin {"dispose", "exited"},
           arrivals' = arrivals, queue' = queue \ b
    PROVE  Inv'
<1>1. /\ generation \in Nat /\ thread \in [Workers -> Thread] /\ dispose \in [Disposer -> Disposal]
      /\ \A v \in Workers : Sound(thread[v])
  BY DEF Inv, TypeOK
<1>2. \A v \in Workers : thread[v].state = "none"
  BY DEF Inv, OneWorker, Spawned
<1>3. \A v \in Workers : /\ thread[v].inbox = << >> /\ thread[v].outbox = << >>
                         /\ thread[v].inFlight = {} /\ ~thread[v].listening
  BY <1>1, <1>2 DEF Sound
<1>4. generation + 2 \in Nat
  BY <1>1
<1>5. /\ t \in Thread /\ Sound(t) /\ t.state = "alive" /\ t.gen = generation + 2 /\ t.inFlight = {}
      /\ t.outbox = << >> /\ Writes(t.inbox) = {}
  BY <1>4, NewThread
<1>6. /\ thread'[w] = t /\ \A v \in Workers : v # w => thread'[v] = thread[v]
      /\ thread' \in [Workers -> Thread]
  BY <1>1, <1>5
<1>7. \A v \in Workers : /\ Writes(thread'[v].inbox) = {} /\ thread'[v].outbox = << >>
                         /\ thread'[v].inFlight = {} /\ Sound(thread'[v])
  BY <1>1, <1>3, <1>5, <1>6 DEF Writes
<1>8. \A v \in Workers : v # w => thread'[v].state = "none" /\ ~thread'[v].listening
  BY <1>2, <1>3, <1>6
<1>9. flush' \in Flush /\ flush'.pc = "awaitReady" /\ flush'.batch = b
  BY BatchPlaces DEF Flush
<1>10. TypeOK'
  <2>1. /\ queue' \subseteq Obs /\ arrivals' \in Nat /\ failed' \in BOOLEAN
        /\ dispose' \in [Disposer -> Disposal] /\ worker' \in 0 .. MaxWorkers
    BY PipelineAssumption DEF Inv, TypeOK, Workers
  <2>2. QED
    BY <1>4, <1>6, <1>9, <2>1 DEF TypeOK, Workers, Disposer, Thread, Message, Flush, Disposal, Obs
<1>11. OneWorker'
  <2>1. w # None
    BY DEF Workers, None
  <2>2. /\ \A u, v \in Workers : thread'[u].state # "none" /\ thread'[v].state # "none" => u = v
        /\ thread'[w].state # "none" /\ thread'[w].gen = generation'
        /\ \A v \in Workers : Heard(thread'[v]) => w = v
    BY <1>5, <1>6, <1>8 DEF Heard
  <2>3. QED
    BY <2>1, <2>2 DEF OneWorker, Spawned, Heard, None
<1>12. Disposals'
  <2>1. \A c \in Disposer : ~Disposing(c)
    <3>1. \A c \in Disposer : Disposing(c) => dispose[c].target # None /\ Spawned(dispose[c].target)
      BY DEF Inv, Disposals
    <3>2. \A c \in Disposer : dispose[c].target # None => dispose[c].target \in Workers
      BY <1>1 DEF Disposal, None, Workers
    <3>3. QED
      BY <1>2, <3>1, <3>2 DEF Spawned
  <2>2. /\ dispose["error"].pc # "none" => failed
        /\ dispose["shutdown"].pc # "none" => phase \in {"dispose", "exited"}
    BY DEF Inv, Disposals
  <2>3. QED
    BY <2>1, <2>2 DEF Disposals, Disposing
<1>13. NoOrphanWorker'
  BY <1>8 DEF NoOrphanWorker
<1>14. CloseIsFlagged'
  BY DEF Inv, CloseIsFlagged
<1>15. Flushes'
  BY <1>9 DEF Flushes
<1>16. Numbered'
  BY <1>7, <1>9 DEF Numbered, Below
<1>17. AckMeansProcessed'
  BY AckedKept DEF storeVars
<1>18. OnePlace'
  <2>1. \A v \in Workers : thread'[v].inFlight = thread[v].inFlight
    BY <1>3, <1>7
  <2>2. Begun' = Begun
    BY <2>1, BegunSame
  <2>3. Held' = b
    BY <1>9 DEF Held
  <2>4. b \subseteq queue
    BY BatchPlaces
  <2>5. QED
    BY <1>7, <2>2, <2>3, <2>4, HoldPlaces
<1>19. QED
  BY <1>7, <1>10, <1>11, <1>12, <1>13, <1>14, <1>15, <1>16, <1>17, <1>18 DEF Inv

\* flushGatewayObservationQueueNow, whichever way it goes.
LEMMA FlushStep ==
    ASSUME Inv, CanFlush, StartFlush, phase # "exited", dispose["shutdown"].pc # "done",
           phase' = phase \/ phase \notin {"dispose", "exited"}
    PROVE  Inv'
<1> DEFINE b == Buffer!Batch(queue, BatchSize)
<1>1. flush.pc = "none" /\ ~failed
  BY DEF CanFlush
<1>2. /\ queue' = queue \ b /\ arrivals' = arrivals /\ close' = close /\ closing' = closing
      /\ acked' = acked /\ dispose' = dispose /\ UNCHANGED storeVars
  BY DEF StartFlush, queueVars
<1>3. /\ b \subseteq queue /\ b \subseteq Obs /\ Fresh(b) /\ Apart(queue \ b, b)
      /\ \A w \in Workers : \A i \in Writes(thread[w].inbox) : Apart(b, thread[w].inbox[i].batch)
  BY BatchPlaces
<1>4. /\ thread \in [Workers -> Thread] /\ \A v \in Workers : Sound(thread[v])
      /\ dispose \in [Disposer -> Disposal] /\ failed \in BOOLEAN /\ sequence \in Nat
      /\ worker # None => worker \in Workers /\ Spawned(worker)
  BY DEF Inv, TypeOK, OneWorker, None, Workers
<1>5. CASE /\ worker = None
           /\ \E w \in Workers :
                  /\ thread[w].state = "none"
                  /\ \A v \in Workers : v < w => thread[v].state # "none"
                  /\ worker' = w
                  /\ thread' = [thread EXCEPT ![w] =
                         [NoThread EXCEPT !.state = "alive", !.gen = generation + 2,
                                          !.listening = TRUE, !.inbox = <<Msg("init")>>]]
           /\ generation' = generation + 2
           /\ ready' = "pending" /\ sequence' = 0 /\ pending' = {}
           /\ flush' = [pc |-> "awaitReady", batch |-> b, seq |-> 0]
           /\ failed' = failed
  <2>1. PICK w \in Workers : worker' = w /\ thread' = [thread EXCEPT ![w] = Started(generation + 2)]
    BY <1>5 DEF Started
  <2>2. /\ worker = None /\ generation' = generation + 2 /\ ready' = "pending" /\ sequence' = 0
        /\ pending' = {} /\ flush' = [pc |-> "awaitReady", batch |-> b, seq |-> 0] /\ failed' = failed
    BY <1>5
  <2> DEFINE t == Started(generation + 2)
  <2> HIDE DEF b, t
  <2>3. b = Buffer!Batch(queue, BatchSize) /\ t = Started(generation + 2) /\ thread' = [thread EXCEPT ![w] = t]
    BY <2>1 DEF b, t
  <2>4. QED
    BY <1>1, <1>2, <2>1, <2>2, <2>3, SpawnKeeps
<1>6. CASE /\ worker # None /\ ready = "pending"
           /\ flush' = [pc |-> "awaitReady", batch |-> b, seq |-> 0]
           /\ UNCHANGED <<workerVars, thread, failed>>
  <2> HIDE DEF b
  <2>1. /\ worker' = worker /\ generation' = generation /\ sequence' = sequence /\ pending' = pending
        /\ ready' = ready /\ thread' = thread /\ failed' = failed
        /\ flush' = [pc |-> "awaitReady", batch |-> b, seq |-> 0]
    BY <1>6 DEF workerVars
  <2>2. flush' \in Flush /\ flush'.pc = "awaitReady" /\ flush'.batch = b
    BY <1>3, <2>1 DEF Flush
  <2>3. \A v \in Workers : Mild(thread[v], thread'[v])
    BY <1>4, <2>1, MildSame
  <2>4. \A v \in Workers : Base(thread[v], thread'[v])
    BY <2>3 DEF Mild
  <2>5. OneWorker'
    BY <1>2, <2>1, <2>4, OneWorkerKept
  <2>6. Disposals' /\ NoOrphanWorker'
    BY <1>2, <2>1, <2>4, DisposalsSame
  <2>7. CloseIsFlagged'
    BY <1>2 DEF Inv, CloseIsFlagged
  <2>8. pending = {}
    BY <1>1, PendingIsOfFlush
  <2>9. Flushes'
    BY <1>1, <1>6, <2>1, <2>2, <2>8 DEF Flushes
  <2>10. \A v \in Workers : Follows(thread[v], thread'[v], skipped', rows')
    BY <2>3, MildFollows
  <2>11. rows' = rows /\ skipped' = skipped
    BY <1>2 DEF storeVars
  <2>12. Numbered'
    BY <2>1, <2>2, <2>10, <2>11, NumberedKept
  <2>13. AckMeansProcessed'
    BY <1>2, <2>11, AckedKept
  <2>14. Begun' = Begun /\ Held' = b
    BY <1>2, <2>1, <2>2, BegunSame DEF Held
  <2>15. OnePlace'
    BY <1>2, <1>3, <2>1, <2>14, HoldPlaces
  <2>16. TypeOK'
    <3>1. /\ queue' \subseteq Obs /\ arrivals' \in Nat /\ failed' \in BOOLEAN
          /\ worker' \in 0 .. MaxWorkers /\ generation' \in Nat /\ dispose' \in [Disposer -> Disposal]
          /\ sequence' \in Nat /\ pending' \subseteq Nat /\ thread' \in [Workers -> Thread]
      BY <1>2, <2>1 DEF Inv, TypeOK
    <3>2. QED
      BY <2>2, <3>1 DEF TypeOK, Workers, Disposer, Thread, Message, Flush, Disposal, Obs
  <2>17. QED
    BY <1>4, <2>1, <2>5, <2>6, <2>7, <2>9, <2>12, <2>13, <2>15, <2>16 DEF Inv
<1>7. CASE /\ worker # None /\ ready = "ok" /\ ~closing
           /\ flush' = [pc |-> "awaitWrite", batch |-> b, seq |-> sequence]
           /\ pending' = pending \cup {sequence}
           /\ sequence' = sequence + 1
           /\ thread' = Post(worker, [type |-> "write_batch", seq |-> sequence, batch |-> b])
           /\ UNCHANGED <<worker, generation, ready, failed>>
  <2> HIDE DEF b
  <2> DEFINE m == [type |-> "write_batch", seq |-> sequence, batch |-> b]
  <2>1. thread' = PostTo(thread, worker, m)
    BY <1>7 DEF PostTo, Post
  <2>2. /\ m \in Message /\ m.seq = sequence /\ m.type = "write_batch" /\ m.batch = b
        /\ flush' = [pc |-> "awaitWrite", batch |-> m.batch, seq |-> sequence]
    BY <1>3, <1>4, <1>7 DEF Message
  <2> HIDE DEF m
  <2>3. worker \in Workers /\ thread[worker].state # "none"
    BY <1>4, <1>7 DEF Spawned
  <2>4. /\ thread' = [v \in Workers |-> thread'[v]] /\ Sends(thread[worker], thread'[worker], m)
        /\ \A v \in Workers : v # worker => thread'[v] = thread[v]
    BY <1>4, <2>1, <2>2, <2>3, PostedOne
  <2>5. /\ Fresh(m.batch) /\ Apart(queue', m.batch)
        /\ \A i \in Writes(thread[worker].inbox) : Apart(m.batch, thread[worker].inbox[i].batch)
    BY <1>2, <1>3, <2>2, <2>3
  <2>6. /\ worker # None /\ worker' = worker /\ generation' = generation /\ failed' = failed
        /\ pending' = pending \cup {sequence} /\ sequence' = sequence + 1
    BY <1>7
  <2>7. flush.pc # "awaitWrite" /\ queue' \subseteq queue
    BY <1>1, <1>2
  <2>8. QED
    BY <1>1, <1>2, <2>2, <2>4, <2>5, <2>6, <2>7, SendKeeps
<1>8. CASE failed' = TRUE /\ UNCHANGED <<workerVars, thread, flush>>
  <2>1. /\ worker' = worker /\ generation' = generation /\ sequence' = sequence /\ pending' = pending
        /\ ready' = ready /\ thread' = thread /\ flush' = flush /\ failed' = TRUE
    BY <1>8 DEF workerVars
  <2>2. \A v \in Workers : Mild(thread[v], thread'[v])
    BY <1>4, <2>1, MildSame
  <2>3. \A v \in Workers : Base(thread[v], thread'[v])
    BY <2>2 DEF Mild
  <2>4. Disposals' /\ NoOrphanWorker'
    BY <1>2, <2>1, <2>3, DisposalsSame
  <2>5. CloseIsFlagged'
    BY <1>2 DEF Inv, CloseIsFlagged
  <2>6. thread' = [v \in Workers |-> thread'[v]] /\ dispose' \in [Disposer -> Disposal]
    BY <1>2, <1>4, <2>1
  <2>7. QED
    BY <1>1, <1>2, <2>1, <2>2, <2>4, <2>5, <2>6, EventStep
<1>9. QED
  BY <1>5, <1>6, <1>7, <1>8 DEF StartFlush

\* An observation is recorded: it is new, and the queue may drop others for it.
LEMMA StepRecord ==
    ASSUME Inv, NEW p \in Priorities, recordGatewayObservation(p)
    PROVE  Inv'
<1> DEFINE item == [arrival |-> arrivals, priority |-> p, observedAt |-> 0, sizeBytes |-> 1]
<1>1. /\ queue' \subseteq queue \cup {item} /\ arrivals' = arrivals + 1
      /\ UNCHANGED <<flush, failed, workerVars, thread, dispose, phase, storeVars, acked>>
  BY DEF recordGatewayObservation, Buffer!enqueueGatewayObservation, Buffer!Kept
<1>2. /\ flush' = flush /\ failed' = failed /\ acked' = acked /\ phase' = phase
      /\ thread' = thread /\ dispose' = dispose /\ rows' = rows /\ skipped' = skipped
      /\ worker' = worker /\ generation' = generation /\ ready' = ready /\ close' = close
      /\ closing' = closing /\ sequence' = sequence /\ pending' = pending
  BY <1>1 DEF workerVars, storeVars
<1>3. /\ thread \in [Workers -> Thread] /\ (\A v \in Workers : Sound(thread[v]))
      /\ arrivals \in Nat /\ queue \subseteq Obs /\ flush \in Flush
  BY DEF Inv, TypeOK
<1>4. item \in Obs /\ item.arrival = arrivals
  BY <1>3, PipelineAssumption DEF Obs, Buffer!Observation, Buffer!Priority
<1> HIDE DEF item
<1>5. \A v \in Workers : Mild(thread[v], thread'[v])
  BY <1>2, <1>3, MildSame
<1>6. \A v \in Workers : Base(thread[v], thread'[v])
  BY <1>5 DEF Mild
<1>7. OneWorker' /\ Disposals' /\ NoOrphanWorker' /\ CloseIsFlagged'
  <2>1. OneWorker'
    BY <1>2, <1>6, OneWorkerKept
  <2>2. Disposals' /\ NoOrphanWorker'
    BY <1>2, <1>6, DisposalsSame
  <2>3. CloseIsFlagged'
    BY <1>2 DEF Inv, CloseIsFlagged
  <2>4. QED
    BY <2>1, <2>2, <2>3
<1>8. Flushes'
  BY <1>2 DEF Inv, Flushes, None
<1>9. Numbered'
  <2>1. \A v \in Workers : Follows(thread[v], thread'[v], skipped', rows')
    BY <1>5, MildFollows
  <2>2. QED
    BY <1>2, <2>1, NumberedKept
<1>10. AckMeansProcessed'
  BY <1>2, AckedKept
<1>11. OnePlace'
  <2>1. OnePlace
    BY DEF Inv
  <2>2. Begun' = Begun /\ Held' = Held
    BY <1>2, BegunSame DEF Held, storeVars
  <2>3. \A b : (\A x \in b : x.arrival \in Nat /\ x.arrival < arrivals) => Apart({item}, b)
    BY <1>3, <1>4 DEF Apart
  <2>4. /\ \A x \in queue : x.arrival \in Nat /\ x.arrival < arrivals /\ x.arrival \notin Begun
        /\ \A x \in Held : x.arrival \in Nat /\ x.arrival < arrivals /\ x.arrival \notin Begun
        /\ \A x, y \in queue : x.arrival = y.arrival => x = y
        /\ \A n \in Begun : n \in Nat /\ n < arrivals
        /\ Apart(queue, Held)
    BY <1>3, <2>1 DEF OnePlace, Fresh, Held, Flush, Obs, Buffer!Observation
  <2>5. \A v \in Workers : \A i \in Writes(thread[v].inbox) :
           /\ \A x \in thread[v].inbox[i].batch : x.arrival \in Nat /\ x.arrival < arrivals /\ x.arrival \notin Begun
           /\ Apart(queue, thread[v].inbox[i].batch) /\ Apart(Held, thread[v].inbox[i].batch)
           /\ \A j \in Writes(thread[v].inbox) : j # i => Apart(thread[v].inbox[i].batch, thread[v].inbox[j].batch)
    <3>1. ASSUME NEW v \in Workers, NEW i \in Writes(thread[v].inbox)
          PROVE  \A x \in thread[v].inbox[i].batch : x.arrival \in Nat
      <4>1. thread[v].inbox \in Seq(Message) /\ i \in 1 .. Len(thread[v].inbox)
        BY <1>3 DEF Thread, Writes
      <4>2. thread[v].inbox[i] \in Message
        BY <4>1
      <4>3. QED
        BY <4>2 DEF Message, Obs, Buffer!Observation
    <3>2. QED
      BY <2>1, <3>1 DEF OnePlace, Fresh
  <2>6. /\ \A x, y \in queue' : x.arrival = y.arrival => x = y
        /\ \A x \in queue' : x.arrival < arrivals' /\ x.arrival \notin Begun'
    BY <1>1, <1>3, <1>4, <2>2, <2>4
  <2>7. /\ \A n \in Begun' : n \in Nat /\ n < arrivals'
        /\ \A x \in Held' : x.arrival < arrivals' /\ x.arrival \notin Begun'
    BY <1>1, <1>3, <2>2, <2>4
  <2>8. \A b : (\A x \in b : x.arrival \in Nat /\ x.arrival < arrivals) /\ Apart(queue, b) => Apart(queue', b)
    BY <1>1, <2>3 DEF Apart
  <2>9. Apart(queue', Held')
    BY <2>2, <2>4, <2>8
  <2>10. \A v \in Workers : \A i \in Writes(thread'[v].inbox) :
           /\ \A x \in thread'[v].inbox[i].batch : x.arrival < arrivals' /\ x.arrival \notin Begun'
           /\ Apart(queue', thread'[v].inbox[i].batch) /\ Apart(Held', thread'[v].inbox[i].batch)
           /\ \A j \in Writes(thread'[v].inbox) : j # i => Apart(thread'[v].inbox[i].batch, thread'[v].inbox[j].batch)
    <3>1. ASSUME NEW v \in Workers, NEW i \in Writes(thread[v].inbox)
          PROVE  /\ \A x \in thread[v].inbox[i].batch : x.arrival < arrivals' /\ x.arrival \notin Begun'
                 /\ Apart(queue', thread[v].inbox[i].batch) /\ Apart(Held', thread[v].inbox[i].batch)
      BY <1>1, <1>3, <2>2, <2>5, <2>8
    <3>2. QED
      BY <1>2, <2>5, <3>1
  <2>11. QED
    BY <2>6, <2>7, <2>9, <2>10 DEF OnePlace, Fresh, Apart, Writes
<1>12. TypeOK'
  <2>1. queue' \subseteq Obs /\ arrivals' \in Nat
    BY <1>1, <1>3, <1>4
  <2>2. QED
    BY <1>2, <2>1 DEF Inv, TypeOK, Workers, Disposer, Thread, Message, Flush, Disposal, Obs
<1>13. QED
  BY <1>2, <1>3, <1>7, <1>8, <1>9, <1>10, <1>11, <1>12 DEF Inv

-----------------------------------------------------------------------------
(***************************************************************************)
(* The writer thread                                                       *)
(***************************************************************************)

\* A step of one thread that leaves the event loop alone.
LEMMA WriterKeeps ==
    ASSUME Inv, NEW w \in Workers, Follows(thread[w], thread'[w], skipped', rows'),
           \A v \in Workers : v # w => thread'[v] = thread[v],
           thread' = [v \in Workers |-> thread'[v]],
           UNCHANGED <<queueVars, timerVars, flush, failed, workerVars, dispose, phase, acked>>,
           rows \subseteq rows', skipped \subseteq skipped',
           OnePlace' \/ Begun' \subseteq Begun
    PROVE  Inv'
<1>1. /\ flush' = flush /\ failed' = failed /\ acked' = acked /\ phase' = phase
      /\ queue' = queue /\ arrivals' = arrivals /\ dispose' = dispose
      /\ worker' = worker /\ generation' = generation /\ ready' = ready /\ close' = close
      /\ closing' = closing /\ sequence' = sequence /\ pending' = pending
  BY DEF workerVars, queueVars
<1>2. \A v \in Workers : thread[v] \in Thread /\ Sound(thread[v])
  BY DEF Inv, TypeOK
<1>3. \A v \in Workers : Follows(thread[v], thread'[v], skipped', rows')
  BY <1>2, MildSame, MildFollows
<1>4. \A v \in Workers : Base(thread[v], thread'[v])
  BY <1>3 DEF Follows
<1>5. OneWorker'
  BY <1>1, <1>4, OneWorkerKept
<1>6. Disposals' /\ NoOrphanWorker'
  BY <1>1, <1>4, DisposalsSame
<1>7. CloseIsFlagged' /\ Flushes'
  BY <1>1 DEF Inv, CloseIsFlagged, Flushes, None
<1>8. Numbered'
  BY <1>1, <1>3, NumberedKept
<1>9. AckMeansProcessed'
  BY <1>1, AckedKept
<1>10. OnePlace'
  <2>1. Held' = Held
    BY <1>1 DEF Held
  <2>2. ASSUME Begun' \subseteq Begun PROVE OnePlace'
    BY <1>1, <1>3, <2>1, <2>2, PlacesKept
  <2>3. QED
    BY <2>2
<1>11. \A v \in Workers : thread'[v] \in Thread /\ Sound(thread'[v])
  BY <1>4 DEF Base
<1>12. thread' \in [Workers -> Thread]
  BY <1>11, Zenon
<1>13. TypeOK'
  BY <1>1, <1>12 DEF Inv, TypeOK, Workers, Disposer, Thread, Message, Flush, Disposal, Obs
<1>14. QED
  BY <1>5, <1>6, <1>7, <1>8, <1>9, <1>10, <1>11, <1>13 DEF Inv

\* What a handled message leaves of the thread.
Replied(f, replies) == [f EXCEPT !.inbox = Tail(@), !.outbox = @ \o replies]

\* The fields of that thread.
LEMMA RepliedThread ==
    ASSUME NEW f \in Thread, f.inbox # << >>, NEW replies \in Seq(Message), NEW t2, t2 = Replied(f, replies)
    PROVE  /\ t2 \in Thread /\ t2.inbox = Tail(f.inbox) /\ t2.outbox = f.outbox \o replies
           /\ t2.listening = f.listening /\ t2.state = f.state /\ t2.gen = f.gen
           /\ t2.inFlight = f.inFlight /\ t2.storeOpen = f.storeOpen
<1> DEFINE in  == Tail(f.inbox)
           out == f.outbox \o replies
<1>1. f.inbox \in Seq(Message) /\ f.outbox \in Seq(Message)
  BY DEF Thread
<1>2. in \in Seq(Message) /\ out \in Seq(Message)
  BY <1>1
<1>3. t2 = [f EXCEPT !.inbox = in, !.outbox = out]
  BY DEF Replied
<1> HIDE DEF in, out
<1>4. t2 \in Thread
  BY <1>2, <1>3 DEF Thread
<1>5. /\ t2.inbox = in /\ t2.outbox = out
      /\ t2.listening = f.listening /\ t2.state = f.state /\ t2.gen = f.gen
      /\ t2.inFlight = f.inFlight /\ t2.storeOpen = f.storeOpen
  BY <1>3 DEF Thread
<1>6. QED
  BY <1>4, <1>5 DEF in, out

\* A message is handled, and the thread becomes f.
LEMMA HandlesMessage ==
    ASSUME Inv, NEW w \in Workers, thread[w].state = "alive", thread[w].inbox # << >>,
           NEW f \in Thread, f.state = "alive", f.gen = thread[w].gen, f.listening = thread[w].listening,
           f.inbox = thread[w].inbox, f.inFlight # {} => f.storeOpen,
           \A m \in f.inFlight : m \in thread[w].inFlight \/ (m = Head(thread[w].inbox) /\ m.type = "write_batch"),
           \A i \in 1 .. Len(f.outbox) : f.outbox[i].type \in {"exit", "batch_written"} =>
               \E j \in 1 .. Len(thread[w].outbox) : thread[w].outbox[j] = f.outbox[i],
           NEW replies \in Seq(Message),
           \A i \in 1 .. Len(replies) : replies[i].type \notin {"exit", "batch_written"},
           Writer(w, f, replies)
    PROVE  /\ Follows(thread[w], thread'[w], skipped', rows')
           /\ \A v \in Workers : v # w => thread'[v] = thread[v]
           /\ thread' = [v \in Workers |-> thread'[v]]
           /\ UNCHANGED <<queueVars, timerVars, flush, failed, workerVars, dispose, phase, acked>>
           /\ rows' = rows /\ skipped' = skipped
           /\ thread'[w].inFlight = f.inFlight /\ thread'[w].inbox = Tail(thread[w].inbox)
<1>1. thread \in [Workers -> Thread] /\ thread[w] \in Thread /\ Sound(thread[w])
  BY DEF Inv, TypeOK
<1>2. /\ thread' = [thread EXCEPT ![w] = Replied(f, replies)]
      /\ UNCHANGED <<queueVars, timerVars, flush, failed, workerVars, dispose, phase, storeVars, acked>>
  BY DEF Writer, Replied
<1>3. /\ thread'[w] = Replied(f, replies) /\ \A v \in Workers : v # w => thread'[v] = thread[v]
      /\ thread' = [v \in Workers |-> thread'[v]]
  BY <1>1, <1>2
<1> DEFINE t2 == Replied(f, replies)
<1> HIDE DEF t2
<1>4. /\ t2 \in Thread /\ t2.inbox = Tail(thread[w].inbox) /\ t2.outbox = f.outbox \o replies
      /\ t2.listening = thread[w].listening /\ t2.state = "alive" /\ t2.gen = thread[w].gen
      /\ t2.inFlight = f.inFlight /\ t2.storeOpen = f.storeOpen
  BY RepliedThread DEF t2
<1>5. Follows(thread[w], t2, skipped', rows')
  BY <1>1, <1>4, WriterFollows
<1>6. QED
  BY <1>2, <1>3, <1>4, <1>5 DEF t2, storeVars

\* One reply that is no answer to a write and not the end.
LEMMA OneReply ==
    ASSUME NEW type \in {"ready", "fatal"}
    PROVE  /\ <<Msg(type)>> \in Seq(Message)
           /\ \A i \in 1 .. Len(<<Msg(type)>>) : <<Msg(type)>>[i].type \notin {"exit", "batch_written"}
<1>1. Msg(type) \in Message /\ Msg(type).type = type
  BY DEF Msg, Message
<1> DEFINE m == Msg(type)
<1> HIDE DEF m
<1>2. m \in Message /\ m.type \notin {"exit", "batch_written"}
  BY <1>1 DEF m
<1>3. /\ <<m>> \in Seq(Message)
      /\ \A i \in 1 .. Len(<<m>>) : <<m>>[i].type \notin {"exit", "batch_written"}
  BY <1>2
<1>4. QED
  BY <1>3 DEF m

\* What the writer knows when it receives a message.
LEMMA ReceivesFacts ==
    ASSUME Inv, NEW w \in Workers, NEW type, Receives(w, type)
    PROVE  /\ thread[w] \in Thread /\ Sound(thread[w]) /\ thread[w].state = "alive"
           /\ thread[w].inbox # << >> /\ thread[w].inbox \in Seq(Message)
           /\ Head(thread[w].inbox).type = type /\ Head(thread[w].inbox) \in Message
           /\ thread[w].inFlight # {} => thread[w].storeOpen
<1>1. /\ thread[w] \in Thread /\ Sound(thread[w]) /\ thread[w].state = "alive"
      /\ thread[w].inbox # << >> /\ Head(thread[w].inbox).type = type
  BY DEF Inv, TypeOK, Receives
<1>2. thread[w].inbox \in Seq(Message)
  BY <1>1 DEF Thread
<1>3. QED
  BY <1>1, <1>2 DEF Sound

\* "init" opens the store, or is answered "fatal".
LEMMA StepInit ==
    ASSUME Inv, NEW w \in Workers, WriterInit(w)
    PROVE  Inv'
<1>1. /\ thread[w] \in Thread /\ Sound(thread[w]) /\ thread[w].state = "alive"
      /\ thread[w].inbox # << >> /\ (thread[w].inFlight # {} => thread[w].storeOpen)
  BY ReceivesFacts DEF WriterInit
<1>2. ASSUME NEW f, f = thread[w] \/ f = [thread[w] EXCEPT !.storeOpen = TRUE],
             NEW type \in {"ready", "fatal"}, Writer(w, f, <<Msg(type)>>)
      PROVE  Inv'
  <2>1. /\ f \in Thread /\ f.state = thread[w].state /\ f.gen = thread[w].gen
        /\ f.listening = thread[w].listening /\ f.inbox = thread[w].inbox
        /\ f.outbox = thread[w].outbox /\ f.inFlight = thread[w].inFlight
        /\ f.storeOpen = thread[w].storeOpen \/ f.storeOpen = TRUE
    BY <1>1, <1>2 DEF Thread
  <2> DEFINE replies == <<Msg(type)>>
  <2>2. /\ replies \in Seq(Message)
        /\ \A i \in 1 .. Len(replies) : replies[i].type \notin {"exit", "batch_written"}
    BY OneReply
  <2>3. Writer(w, f, replies)
    BY <1>2
  <2> HIDE DEF replies
  <2>4. f.inFlight # {} => f.storeOpen
    BY <1>1, <2>1
  <2>5. /\ Follows(thread[w], thread'[w], skipped', rows')
        /\ \A v \in Workers : v # w => thread'[v] = thread[v]
        /\ thread' = [v \in Workers |-> thread'[v]]
        /\ UNCHANGED <<queueVars, timerVars, flush, failed, workerVars, dispose, phase, acked>>
        /\ rows' = rows /\ skipped' = skipped
        /\ thread'[w].inFlight = thread[w].inFlight
    BY <1>1, <2>1, <2>2, <2>3, <2>4, HandlesMessage
  <2>6. \A v \in Workers : thread'[v].inFlight = thread[v].inFlight
    BY <2>5
  <2>7. Begun' = Begun
    BY <2>5, <2>6, BegunSame DEF storeVars
  <2>8. QED
    BY <2>5, <2>7, WriterKeeps
<1>3. QED
  BY <1>2 DEF WriterInit

\* "close" closes the store if no write is under way.
LEMMA StepReceivesClose ==
    ASSUME Inv, NEW w \in Workers, WriterReceivesClose(w)
    PROVE  Inv'
<1> DEFINE a == [thread[w] EXCEPT !.closeRequested = TRUE]
           f == IF a.inFlight = {} THEN Closed(a) ELSE a
           replies == << >>
<1>1. /\ thread[w] \in Thread /\ Sound(thread[w]) /\ thread[w].state = "alive"
      /\ thread[w].inbox # << >> /\ (thread[w].inFlight # {} => thread[w].storeOpen)
  BY ReceivesFacts DEF WriterReceivesClose
<1>2. Writer(w, f, replies)
  BY DEF WriterReceivesClose
<1>3. /\ a \in Thread /\ a.state = thread[w].state /\ a.gen = thread[w].gen
      /\ a.listening = thread[w].listening /\ a.inbox = thread[w].inbox
      /\ a.outbox = thread[w].outbox /\ a.inFlight = thread[w].inFlight
      /\ a.storeOpen = thread[w].storeOpen
  BY <1>1 DEF Thread
<1>4. replies \in Seq(Message) /\ Len(replies) = 0
  OBVIOUS
<1> HIDE DEF a, replies
<1>5. /\ f \in Thread /\ f.state = thread[w].state /\ f.gen = thread[w].gen
      /\ f.listening = thread[w].listening /\ f.inbox = thread[w].inbox /\ f.inFlight = thread[w].inFlight
      /\ f.inFlight # {} => f.storeOpen
      /\ \A i \in 1 .. Len(f.outbox) : f.outbox[i].type \in {"exit", "batch_written"} =>
             \E j \in 1 .. Len(thread[w].outbox) : thread[w].outbox[j] = f.outbox[i]
  <2>1. CASE a.inFlight = {}
    <3> DEFINE c == Closed(a)
    <3>1. /\ c \in Thread /\ c.state = a.state /\ c.gen = a.gen /\ c.listening = a.listening
          /\ c.inbox = a.inbox /\ c.inFlight = a.inFlight
          /\ \A i \in 1 .. Len(c.outbox) : c.outbox[i].type \in {"exit", "batch_written"} =>
                 i \in 1 .. Len(a.outbox) /\ a.outbox[i] = c.outbox[i]
      BY <1>3, ClosedThread
    <3>2. f = c
      BY <2>1
    <3> HIDE DEF f, c
    <3>3. QED
      BY <1>3, <2>1, <3>1, <3>2
  <2>2. CASE a.inFlight # {}
    <3>1. f = a
      BY <2>2
    <3> HIDE DEF f
    <3>2. QED
      BY <1>1, <1>3, <3>1
  <2>3. QED
    BY <2>1, <2>2
<1> HIDE DEF f
<1>6. /\ Follows(thread[w], thread'[w], skipped', rows')
      /\ \A v \in Workers : v # w => thread'[v] = thread[v]
      /\ thread' = [v \in Workers |-> thread'[v]]
      /\ UNCHANGED <<queueVars, timerVars, flush, failed, workerVars, dispose, phase, acked>>
      /\ rows' = rows /\ skipped' = skipped
      /\ thread'[w].inFlight = thread[w].inFlight
  <2>1. \A i \in 1 .. Len(replies) : replies[i].type \notin {"exit", "batch_written"}
    BY <1>4
  <2>2. \A m \in f.inFlight : m \in thread[w].inFlight
    BY <1>5
  <2>3. f.state = "alive"
    BY <1>1, <1>5
  <2>4. QED
    BY <1>1, <1>2, <1>4, <1>5, <2>1, <2>2, <2>3, HandlesMessage
<1>7. \A v \in Workers : thread'[v].inFlight = thread[v].inFlight
  BY <1>6
<1>8. Begun' = Begun
  BY <1>6, <1>7, BegunSame DEF storeVars
<1>9. QED
  BY <1>6, <1>8, WriterKeeps

\* A write that begins was only in the inbox.
LEMMA BeginPlaces ==
    ASSUME Inv, NEW w \in Workers, Receives(w, "write_batch"),
           thread'[w].inFlight \subseteq thread[w].inFlight \cup {Head(thread[w].inbox)},
           thread'[w].inbox = Tail(thread[w].inbox),
           \A v \in Workers : v # w => thread'[v] = thread[v],
           queue' = queue, arrivals' = arrivals, flush' = flush, rows' = rows, skipped' = skipped
    PROVE  OnePlace'
<1> DEFINE a == thread[w].inbox
           b == Head(a).batch
<1>1. /\ a \in Seq(Message) /\ a # << >> /\ Head(a).type = "write_batch" /\ Head(a) \in Message
      /\ thread[w].state = "alive"
  BY ReceivesFacts
<1>2. /\ 1 \in Writes(a) /\ Head(a) = a[1]
      /\ \A i \in Writes(Tail(a)) : i + 1 \in Writes(a) /\ i + 1 # 1 /\ Tail(a)[i] = a[i + 1]
      /\ \A i \in Writes(Tail(a)) : \A j \in Writes(Tail(a)) : i # j => i + 1 # j + 1
  <2> HIDE DEF a
  <2>1. /\ Len(a) \in Nat \ {0} /\ Head(a) = a[1] /\ Len(Tail(a)) = Len(a) - 1
        /\ \A i \in 1 .. Len(Tail(a)) : Tail(a)[i] = a[i + 1]
    BY <1>1
  <2>2. QED
    BY <1>1, <2>1 DEF Writes
<1>3. OnePlace
  BY DEF Inv
<1>4. /\ \A x \in b : x.arrival < arrivals /\ x.arrival \notin Begun
      /\ Apart(queue, b) /\ Apart(Held, b)
      /\ \A j \in Writes(a) : j # 1 => Apart(b, a[j].batch)
  BY <1>2, <1>3 DEF OnePlace, Fresh
<1>5. \A i \in Writes(a) :
         /\ \A x \in a[i].batch : x.arrival < arrivals /\ x.arrival \notin Begun
         /\ Apart(queue, a[i].batch) /\ Apart(Held, a[i].batch)
         /\ \A j \in Writes(a) : j # i => Apart(a[i].batch, a[j].batch)
  BY <1>3 DEF OnePlace, Fresh
<1>6. \A x \in b : x.arrival \in Nat
  BY <1>1 DEF Message, Obs, Buffer!Observation
<1>7. Begun' \subseteq Begun \cup {x.arrival : x \in b}
  <2> DEFINE h == Head(a)
             M == UNION {thread[v].inFlight : v \in Workers}
             N == UNION {thread'[v].inFlight : v \in Workers}
  <2>1. \A v \in Workers : \A m \in thread'[v].inFlight : m \in thread[v].inFlight \/ m = h
    OBVIOUS
  <2> HIDE DEF h
  <2>2. \A m \in N : m \in M \/ m = h
    BY <2>1
  <2> HIDE DEF M, N
  <2>3. \A x \in UNION {m.batch : m \in N} : x \in UNION {m.batch : m \in M} \/ x \in h.batch
    BY <2>2
  <2>4. b = h.batch
    BY DEF h
  <2> HIDE DEF b
  <2>5. {x.arrival : x \in UNION {m.batch : m \in N}} \subseteq
            {x.arrival : x \in UNION {m.batch : m \in M}} \cup {x.arrival : x \in b}
    BY <2>3, <2>4
  <2>6. QED
    BY <2>5 DEF Begun, M, N
<1>8. Held' = Held
  BY DEF Held
<1>9. \A v \in Workers : v # w => Writes(thread[v].inbox) = {}
  <2>1. \A v \in Workers : v # w => thread[v].inbox = << >>
    BY <1>1 DEF Inv, OneWorker, Spawned, Sound
  <2>2. QED
    BY <2>1 DEF Writes
<1> HIDE DEF a, b
<1>10. ASSUME NEW c, \A x \in c : x.arrival < arrivals /\ x.arrival \notin Begun, Apart(c, b)
       PROVE  \A x \in c : x.arrival < arrivals' /\ x.arrival \notin Begun'
  BY <1>7, <1>10 DEF Apart
<1>11. /\ \A x, y \in queue' : x.arrival = y.arrival => x = y
       /\ \A n \in Begun' : n \in Nat /\ n < arrivals'
  BY <1>3, <1>4, <1>6, <1>7 DEF OnePlace
<1>12. /\ \A x \in queue' : x.arrival < arrivals' /\ x.arrival \notin Begun'
       /\ \A x \in Held' : x.arrival < arrivals' /\ x.arrival \notin Begun'
       /\ Apart(queue', Held')
  BY <1>3, <1>4, <1>8, <1>10 DEF OnePlace, Fresh
<1>13. \A i \in Writes(Tail(a)) :
          /\ \A x \in Tail(a)[i].batch : x.arrival < arrivals' /\ x.arrival \notin Begun'
          /\ Apart(queue', Tail(a)[i].batch) /\ Apart(Held', Tail(a)[i].batch)
          /\ \A j \in Writes(Tail(a)) : j # i => Apart(Tail(a)[i].batch, Tail(a)[j].batch)
  <2>1. ASSUME NEW i \in Writes(a), i # 1
        PROVE  \A x \in a[i].batch : x.arrival < arrivals' /\ x.arrival \notin Begun'
    <3>1. Apart(a[i].batch, b)
      BY <1>4, <2>1 DEF Apart
    <3>2. QED
      BY <1>5, <1>10, <3>1
  <2>2. QED
    BY <1>2, <1>5, <1>8, <2>1
<1>14. \A v \in Workers : \A i \in Writes(thread'[v].inbox) :
          /\ \A x \in thread'[v].inbox[i].batch : x.arrival < arrivals' /\ x.arrival \notin Begun'
          /\ Apart(queue', thread'[v].inbox[i].batch) /\ Apart(Held', thread'[v].inbox[i].batch)
          /\ \A j \in Writes(thread'[v].inbox) : j # i => Apart(thread'[v].inbox[i].batch, thread'[v].inbox[j].batch)
  <2>1. thread'[w].inbox = Tail(a)
    BY DEF a
  <2>2. QED
    BY <1>9, <1>13, <2>1
<1>15. QED
  BY <1>11, <1>12, <1>14 DEF OnePlace, Fresh, Apart, Writes

\* A batch arrives: its write begins, or is refused.
LEMMA StepReceivesBatch ==
    ASSUME Inv, NEW w \in Workers, WriterReceivesBatch(w)
    PROVE  Inv'
<1> DEFINE msg == Head(thread[w].inbox)
<1>1. /\ thread[w] \in Thread /\ Sound(thread[w]) /\ thread[w].state = "alive"
      /\ thread[w].inbox # << >> /\ msg.type = "write_batch" /\ msg \in Message
      /\ (thread[w].inFlight # {} => thread[w].storeOpen) /\ Receives(w, "write_batch")
  BY ReceivesFacts DEF WriterReceivesBatch
<1>2. ASSUME NEW f, NEW replies, Writer(w, f, replies), replies \in Seq(Message),
             \A i \in 1 .. Len(replies) : replies[i].type \notin {"exit", "batch_written"},
             f \in Thread, f.state = "alive", f.gen = thread[w].gen, f.listening = thread[w].listening,
             f.inbox = thread[w].inbox, f.outbox = thread[w].outbox, f.inFlight # {} => f.storeOpen,
             f.inFlight \subseteq thread[w].inFlight \cup {msg}
      PROVE  Inv'
  <2>1. \A m \in f.inFlight : m \in thread[w].inFlight \/ (m = msg /\ m.type = "write_batch")
    BY <1>1, <1>2
  <2>2. \A i \in 1 .. Len(f.outbox) : f.outbox[i].type \in {"exit", "batch_written"} =>
            \E j \in 1 .. Len(thread[w].outbox) : thread[w].outbox[j] = f.outbox[i]
    BY <1>2
  <2>3. /\ Follows(thread[w], thread'[w], skipped', rows')
        /\ \A v \in Workers : v # w => thread'[v] = thread[v]
        /\ thread' = [v \in Workers |-> thread'[v]]
        /\ UNCHANGED <<queueVars, timerVars, flush, failed, workerVars, dispose, phase, acked>>
        /\ rows' = rows /\ skipped' = skipped
        /\ thread'[w].inFlight = f.inFlight /\ thread'[w].inbox = Tail(thread[w].inbox)
    BY <1>1, <1>2, <2>1, <2>2, HandlesMessage
  <2>4. queue' = queue /\ arrivals' = arrivals /\ flush' = flush
    BY <2>3 DEF queueVars
  <2>5. OnePlace'
    BY <1>1, <1>2, <2>3, <2>4, BeginPlaces
  <2>6. QED
    BY <2>3, <2>5, WriterKeeps
<1>3. CASE thread[w].closeRequested \/ ~thread[w].storeOpen
  <2> DEFINE replies == <<Msg("fatal")>>
  <2>1. Writer(w, thread[w], replies)
    BY <1>3 DEF WriterReceivesBatch
  <2>2. /\ replies \in Seq(Message)
        /\ \A i \in 1 .. Len(replies) : replies[i].type \notin {"exit", "batch_written"}
    BY OneReply
  <2> HIDE DEF replies
  <2>3. QED
    BY <1>1, <1>2, <2>1, <2>2
<1>4. CASE ~(thread[w].closeRequested \/ ~thread[w].storeOpen)
  <2> DEFINE replies == << >>
             f == [thread[w] EXCEPT !.inFlight = @ \cup {msg}]
  <2>1. Writer(w, f, replies)
    BY <1>4 DEF WriterReceivesBatch
  <2>2. replies \in Seq(Message) /\ Len(replies) = 0
    OBVIOUS
  <2>3. /\ f \in Thread /\ f.state = "alive" /\ f.gen = thread[w].gen /\ f.listening = thread[w].listening
        /\ f.inbox = thread[w].inbox /\ f.outbox = thread[w].outbox /\ f.storeOpen = thread[w].storeOpen
        /\ f.inFlight \subseteq thread[w].inFlight \cup {msg}
    <3>1. msg \in Message /\ thread[w] \in Thread /\ thread[w].state = "alive"
      BY <1>1
    <3> HIDE DEF msg
    <3>2. QED
      BY <3>1 DEF Thread
  <2> HIDE DEF replies, f
  <2>4. \A i \in 1 .. Len(replies) : replies[i].type \notin {"exit", "batch_written"}
    BY <2>2
  <2>5. f.inFlight # {} => f.storeOpen
    BY <1>4, <2>3
  <2>6. QED
    BY <1>2, <2>1, <2>2, <2>3, <2>4, <2>5
<1>5. QED
  BY <1>3, <1>4

\* What a finished write stored or skipped was under way.
LEMMA FinishedBegan ==
    ASSUME NEW w \in Workers, NEW msg \in thread[w].inFlight, NEW Stored, Stored \subseteq msg.batch,
           rows' = rows \cup {[obs |-> x.arrival, worker |-> w] : x \in Stored},
           skipped' = skipped \cup (msg.batch \ Stored),
           \A v \in Workers : thread'[v].inFlight \subseteq thread[v].inFlight
    PROVE  /\ Begun' \subseteq Begun /\ rows \subseteq rows' /\ skipped \subseteq skipped'
           /\ Processed(msg.batch, skipped', rows')
<1> DEFINE Under == UNION {m.batch : m \in UNION {thread[v].inFlight : v \in Workers}}
<1>1. msg.batch \subseteq Under
  OBVIOUS
<1>2. UNION {m.batch : m \in UNION {thread'[v].inFlight : v \in Workers}} \subseteq Under
  OBVIOUS
<1>3. Begun = {r.obs : r \in rows} \cup {x.arrival : x \in skipped} \cup {x.arrival : x \in Under}
  BY DEF Begun
<1> HIDE DEF Under
<1>4. {r.obs : r \in rows'} \subseteq Begun
  BY <1>1, <1>3
<1>5. {x.arrival : x \in skipped'} \subseteq Begun
  BY <1>1, <1>3
<1>6. Begun' \subseteq Begun
  BY <1>2, <1>3, <1>4, <1>5 DEF Begun
<1>7. ASSUME NEW x \in msg.batch PROVE x \in skipped' \/ \E r \in rows' : r.obs = x.arrival
  <2>1. CASE x \in Stored
    <3>1. [obs |-> x.arrival, worker |-> w] \in rows'
      BY <2>1
    <3>2. QED
      BY <3>1
  <2>2. CASE x \notin Stored
    BY <2>2
  <2>3. QED
    BY <2>1, <2>2
<1>8. QED
  BY <1>6, <1>7 DEF Processed

\* What an answered write leaves of the thread.
Answered(t, msg, reply) == [t EXCEPT !.inFlight = @ \ {msg}, !.outbox = Append(@, reply)]

\* The fields of that thread.
LEMMA AnsweredThread ==
    ASSUME NEW t \in Thread, NEW msg, NEW reply \in Message, NEW t2, t2 = Answered(t, msg, reply)
    PROVE  /\ t2 \in Thread /\ t2.inbox = t.inbox /\ t2.listening = t.listening
           /\ t2.state = t.state /\ t2.gen = t.gen /\ t2.storeOpen = t.storeOpen
           /\ t2.inFlight = t.inFlight \ {msg} /\ t2.outbox \in Seq(Message)
           /\ \A i \in 1 .. Len(t2.outbox) :
                 t2.outbox[i] = reply \/ \E j \in 1 .. Len(t.outbox) : t.outbox[j] = t2.outbox[i]
<1> DEFINE out == Append(t.outbox, reply)
           fl  == t.inFlight \ {msg}
<1>1. t.outbox \in Seq(Message) /\ t.inFlight \subseteq Message
  BY DEF Thread
<1>2. /\ out \in Seq(Message) /\ Len(out) = Len(t.outbox) + 1 /\ Len(t.outbox) \in Nat
      /\ \A i \in 1 .. Len(t.outbox) : out[i] = t.outbox[i]
      /\ out[Len(t.outbox) + 1] = reply
  BY <1>1
<1>3. fl \subseteq Message
  BY <1>1
<1>4. t2 = [t EXCEPT !.inFlight = fl, !.outbox = out]
  BY DEF Answered
<1> HIDE DEF out, fl
<1>5. t2 \in Thread
  BY <1>2, <1>3, <1>4 DEF Thread
<1>6. /\ t2.inbox = t.inbox /\ t2.listening = t.listening
      /\ t2.state = t.state /\ t2.gen = t.gen /\ t2.storeOpen = t.storeOpen
      /\ t2.inFlight = fl /\ t2.outbox = out
  BY <1>4 DEF Thread
<1>7. \A i \in 1 .. Len(out) : out[i] = reply \/ \E j \in 1 .. Len(t.outbox) : t.outbox[j] = out[i]
  BY <1>2
<1>8. QED
  BY <1>2, <1>5, <1>6, <1>7 DEF fl

\* A write is done: what it stored or skipped was under way, and its answer is true.
LEMMA StepFinishesBatch ==
    ASSUME Inv, NEW w \in Workers, WriterFinishesBatch(w)
    PROVE  Inv'
<1>1. /\ thread \in [Workers -> Thread] /\ thread[w] \in Thread /\ Sound(thread[w])
      /\ thread[w].state = "alive" /\ (thread[w].inFlight # {} => thread[w].storeOpen)
  BY DEF Inv, TypeOK, WriterFinishesBatch, Sound
<1>2. PICK msg \in thread[w].inFlight, Stored \in SUBSET UNION {m.batch : m \in thread[w].inFlight} :
         /\ Stored \subseteq msg.batch
         /\ rows' = rows \cup {[obs |-> x.arrival, worker |-> w] : x \in Stored}
         /\ skipped' = skipped \cup (msg.batch \ Stored)
         /\ LET reply == [type |-> "batch_written", seq |-> msg.seq, batch |-> {}]
                after == Answered(thread[w], msg, reply)
            IN  thread' = [thread EXCEPT ![w] =
                      IF after.closeRequested /\ after.inFlight = {} THEN Closed(after) ELSE after]
  BY DEF WriterFinishesBatch, Answered
<1> DEFINE reply == [type |-> "batch_written", seq |-> msg.seq, batch |-> {}]
           after == Answered(thread[w], msg, reply)
           t2    == IF after.closeRequested /\ after.inFlight = {} THEN Closed(after) ELSE after
<1>3. UNCHANGED <<queueVars, timerVars, flush, failed, workerVars, dispose, phase, acked>>
  BY DEF WriterFinishesBatch
<1>4. msg \in Message
  BY <1>1 DEF Thread
<1>5. reply \in Message /\ reply.type = "batch_written" /\ reply.seq = msg.seq
  BY <1>4 DEF Message
<1>6. /\ after \in Thread /\ after.inbox = thread[w].inbox /\ after.listening = thread[w].listening
      /\ after.state = "alive" /\ after.gen = thread[w].gen /\ after.storeOpen = thread[w].storeOpen
      /\ after.inFlight = thread[w].inFlight \ {msg} /\ after.outbox \in Seq(Message)
      /\ \A i \in 1 .. Len(after.outbox) :
            after.outbox[i] = reply \/ \E j \in 1 .. Len(thread[w].outbox) : thread[w].outbox[j] = after.outbox[i]
  <2> HIDE DEF reply
  <2>1. QED
    BY <1>1, <1>5, AnsweredThread
<1>7. /\ thread'[w] = t2 /\ \A v \in Workers : v # w => thread'[v] = thread[v]
      /\ thread' = [v \in Workers |-> thread'[v]]
  <2>1. thread' = [thread EXCEPT ![w] = t2]
    BY <1>2
  <2> HIDE DEF t2
  <2>2. QED
    BY <1>1, <2>1
<1> HIDE DEF reply, after
<1>8. /\ t2 \in Thread /\ t2.inbox = thread[w].inbox /\ t2.listening = thread[w].listening
      /\ t2.state = "alive" /\ t2.gen = thread[w].gen /\ t2.inFlight = thread[w].inFlight \ {msg}
      /\ t2.inFlight # {} => t2.storeOpen
      /\ \A i \in 1 .. Len(t2.outbox) : t2.outbox[i].type \in {"exit", "batch_written"} =>
            t2.outbox[i] = reply \/ \E j \in 1 .. Len(thread[w].outbox) : thread[w].outbox[j] = t2.outbox[i]
  <2>1. CASE after.closeRequested /\ after.inFlight = {}
    <3> DEFINE c == Closed(after)
    <3>1. /\ c \in Thread /\ c.state = after.state /\ c.gen = after.gen /\ c.listening = after.listening
          /\ c.inbox = after.inbox /\ c.inFlight = after.inFlight
          /\ \A i \in 1 .. Len(c.outbox) : c.outbox[i].type \in {"exit", "batch_written"} =>
                i \in 1 .. Len(after.outbox) /\ after.outbox[i] = c.outbox[i]
      BY <1>6, ClosedThread
    <3>2. t2 = c
      BY <2>1
    <3> HIDE DEF t2, c
    <3>3. QED
      BY <1>6, <2>1, <3>1, <3>2
  <2>2. CASE ~(after.closeRequested /\ after.inFlight = {})
    <3>1. t2 = after
      BY <2>2
    <3> HIDE DEF t2
    <3>2. QED
      BY <1>1, <1>6, <3>1
  <2>3. QED
    BY <2>1, <2>2
<1> HIDE DEF t2
<1>9. \A v \in Workers : thread'[v].inFlight \subseteq thread[v].inFlight
  BY <1>7, <1>8
<1>10. /\ Begun' \subseteq Begun /\ rows \subseteq rows' /\ skipped \subseteq skipped'
       /\ Processed(msg.batch, skipped', rows')
  BY <1>2, <1>9, FinishedBegan
<1>11. Follows(thread[w], t2, skipped', rows')
  BY <1>1, <1>5, <1>8, <1>10, FinishFollows
<1>12. QED
  BY <1>3, <1>7, <1>10, <1>11, WriterKeeps

\* The events of a thread that dies: "exit" is the last, and none answers a write.
LEMMA CrashEvents ==
    ASSUME NEW ev, ev \in {<<Msg("error"), Msg("exit")>>, <<Msg("exit")>>}
    PROVE  /\ ev \in Seq(Message)
           /\ \A i \in 1 .. Len(ev) : ev[i].type # "batch_written" /\ (ev[i].type = "exit" => i = Len(ev))
<1> DEFINE e == Msg("error")
           x == Msg("exit")
<1>1. e \in Message /\ x \in Message /\ e.type = "error" /\ x.type = "exit"
  BY DEF Msg, Message
<1> HIDE DEF e, x
<1>2. CASE ev = <<e, x>>
  BY <1>1, <1>2
<1>3. CASE ev = <<x>>
  BY <1>1, <1>3
<1>4. QED
  BY <1>2, <1>3 DEF e, x

\* What a crash leaves of the thread.
Crashed(t, ev) ==
    [t EXCEPT !.outbox = @ \o ev, !.state = "dead", !.inbox = << >>, !.inFlight = {}, !.storeOpen = FALSE]

\* The fields of that thread.
LEMMA CrashedThread ==
    ASSUME NEW t \in Thread, NEW ev \in Seq(Message), NEW t2, t2 = Crashed(t, ev)
    PROVE  /\ t2 \in Thread /\ t2.outbox = t.outbox \o ev /\ t2.gen = t.gen /\ t2.listening = t.listening
           /\ t2.state = "dead" /\ t2.inbox = << >> /\ t2.inFlight = {}
<1> DEFINE out == t.outbox \o ev
<1>1. t.outbox \in Seq(Message) /\ << >> \in Seq(Message)
  BY DEF Thread
<1>2. out \in Seq(Message)
  BY <1>1
<1>3. t2 = [t EXCEPT !.outbox = out, !.state = "dead", !.inbox = << >>, !.inFlight = {}, !.storeOpen = FALSE]
  BY DEF Crashed
<1> HIDE DEF out
<1>4. t2 \in Thread
  BY <1>1, <1>2, <1>3 DEF Thread
<1>5. /\ t2.outbox = out /\ t2.gen = t.gen /\ t2.listening = t.listening
      /\ t2.state = "dead" /\ t2.inbox = << >> /\ t2.inFlight = {}
  BY <1>3 DEF Thread
<1>6. QED
  BY <1>4, <1>5 DEF out

\* The thread dies.
LEMMA StepCrashes ==
    ASSUME Inv, NEW w \in Workers, WriterCrashes(w)
    PROVE  Inv'
<1>1. /\ thread \in [Workers -> Thread] /\ thread[w] \in Thread /\ Sound(thread[w])
      /\ thread[w].state = "alive" /\ thread[w].state # "none" /\ skipped' = skipped
      /\ UNCHANGED <<queueVars, timerVars, flush, failed, workerVars, dispose, phase, acked>>
  BY DEF Inv, TypeOK, WriterCrashes
<1>2. PICK ev \in {<<Msg("error"), Msg("exit")>>, <<Msg("exit")>>},
           Stored \in SUBSET UNION {m.batch : m \in thread[w].inFlight} :
         StopThread([thread EXCEPT ![w].outbox = @ \o ev], w, Stored)
  BY DEF WriterCrashes
<1>3. /\ ev \in Seq(Message)
      /\ \A i \in 1 .. Len(ev) : ev[i].type # "batch_written" /\ (ev[i].type = "exit" => i = Len(ev))
  BY <1>2, CrashEvents
<1>4. /\ rows' = rows \cup {[obs |-> x.arrival, worker |-> w] : x \in Stored}
      /\ thread' = [[thread EXCEPT ![w].outbox = @ \o ev] EXCEPT
                       ![w].state = "dead", ![w].inbox = << >>, ![w].inFlight = {}, ![w].storeOpen = FALSE]
  BY <1>2 DEF StopThread
<1>5. /\ thread'[w] = Crashed(thread[w], ev) /\ \A v \in Workers : v # w => thread'[v] = thread[v]
      /\ thread' = [v \in Workers |-> thread'[v]]
  BY <1>1, <1>4 DEF Crashed
<1> DEFINE t2 == Crashed(thread[w], ev)
<1> HIDE DEF t2
<1>6. /\ t2 \in Thread /\ t2.outbox = thread[w].outbox \o ev /\ t2.gen = thread[w].gen
      /\ t2.listening = thread[w].listening /\ t2.state = "dead" /\ t2.inbox = << >> /\ t2.inFlight = {}
  BY <1>1, <1>3, CrashedThread DEF t2
<1>7. Follows(thread[w], t2, skipped', rows')
  BY <1>1, <1>3, <1>6, StopFollows
<1>8. \A v \in Workers : thread'[v].inFlight \subseteq thread[v].inFlight
  BY <1>5, <1>6 DEF t2
<1>9. Begun' \subseteq Begun /\ rows \subseteq rows'
  BY <1>1, <1>2, <1>4, <1>8, StoppedBegan
<1>10. QED
  BY <1>1, <1>5, <1>7, <1>9, WriterKeeps DEF t2

-----------------------------------------------------------------------------
(***************************************************************************)
(* The invariant                                                           *)
(***************************************************************************)

\* A timer or the drain handle fires, with or without something to flush.
LEMMA StepTimers ==
    ASSUME Inv, FlushTimerFires \/ DrainHandleFires
    PROVE  Inv'
<1>1. phase # "exited" /\ dispose["shutdown"].pc # "done"
  BY DEF FlushTimerFires, DrainHandleFires, Quiet
<1>2. CASE CanFlush
  <2>1. StartFlush /\ phase' = phase
    BY <1>2 DEF FlushTimerFires, DrainHandleFires
  <2>2. QED
    BY <1>1, <1>2, <2>1, FlushStep
<1>3. CASE ~CanFlush
  <2>1. /\ UNCHANGED <<queueVars, flush, failed, workerVars, thread, dispose, storeVars, acked>>
        /\ phase' = phase
    BY <1>3 DEF FlushTimerFires, DrainHandleFires
  <2>2. UNCHANGED <<queue, arrivals, flush, failed, workerVars, thread, dispose, storeVars, acked>>
    BY <2>1 DEF queueVars
  <2>3. QED
    BY <1>1, <2>1, <2>2, IdleStep
<1>4. QED
  BY <1>2, <1>3

\* A step of the shutdown that is not its disposal.
LEMMA StepDrains ==
    ASSUME Inv, shutdownGatewayObservability \/ ShutdownDrainLoop \/ DrainTimesOut \/ ForcedExit \/ Exited
    PROVE  Inv'
<1>1. CASE shutdownGatewayObservability
  <2>1. CASE queue = {} /\ flush.pc = "none"
    BY <1>1, <2>1, StepShutdown
  <2>2. CASE ~(queue = {} /\ flush.pc = "none")
    <3>1. /\ UNCHANGED <<queueVars, flush, failed, workerVars, thread, dispose, storeVars, acked>>
          /\ phase = "running" /\ phase' = "loop"
      BY <1>1, <2>2 DEF shutdownGatewayObservability
    <3>2. UNCHANGED <<queue, arrivals, flush, failed, workerVars, thread, dispose, storeVars, acked>>
      BY <3>1 DEF queueVars
    <3>3. QED
      BY <3>1, <3>2, IdleStep
  <2>3. QED
    BY <2>1, <2>2
<1>2. CASE ShutdownDrainLoop
  <2>1. phase = "loop" /\ phase \notin {"dispose", "exited"} /\ dispose["shutdown"].pc # "done"
    BY <1>2 DEF ShutdownDrainLoop, Inv, Disposals
  <2>2. CASE DrainEnds
    BY <2>1, <2>2, StepDrainEnds
  <2>3. CASE CanFlush /\ StartFlush
    BY <2>1, <2>3, FlushStep
  <2>4. CASE /\ phase' = "awaitFlush"
             /\ UNCHANGED <<queueVars, timerVars, flush, failed, workerVars, thread, dispose, storeVars, acked>>
    <3>1. UNCHANGED <<queue, arrivals, flush, failed, workerVars, thread, dispose, storeVars, acked>>
      BY <2>4 DEF queueVars
    <3>2. QED
      BY <2>1, <2>4, <3>1, IdleStep
  <2>5. QED
    BY <1>2, <2>2, <2>3, <2>4 DEF ShutdownDrainLoop
<1>3. CASE DrainTimesOut
  BY <1>3, StepDrainEnds DEF DrainTimesOut
<1>4. CASE ForcedExit
  <2>1. /\ UNCHANGED <<queueVars, flush, failed, workerVars, thread, dispose, storeVars, acked>>
        /\ phase' = "exited"
    BY <1>4 DEF ForcedExit
  <2>2. UNCHANGED <<queue, arrivals, flush, failed, workerVars, thread, dispose, storeVars, acked>>
    BY <2>1 DEF queueVars
  <2>3. QED
    BY <2>1, <2>2, IdleStep
<1>5. CASE Exited
  <2>1. UNCHANGED <<queue, arrivals, flush, failed, workerVars, thread, dispose, storeVars, acked>>
    BY <1>5 DEF Exited, vars, queueVars
  <2>2. phase' = phase
    BY <1>5 DEF Exited, vars
  <2>3. QED
    BY <2>1, <2>2, IdleStep
<1>6. QED
  BY <1>1, <1>2, <1>3, <1>4, <1>5

\* Every step keeps the invariant.
LEMMA NextStep ==
    ASSUME Inv, [Next]_vars
    PROVE  Inv'
<1>1. ASSUME NEW p \in Priorities, recordGatewayObservation(p) PROVE Inv'
  BY <1>1, StepRecord
<1>2. CASE FlushTimerFires \/ DrainHandleFires
  BY <1>2, StepTimers
<1>3. ASSUME NEW w \in Workers, HandleEvent(w) PROVE Inv'
  BY <1>3, StepReady, StepBatchWritten, StepClosed, StepFatal, StepError, StepExit DEF HandleEvent
<1>4. ASSUME NEW w \in Workers, WriterStep(w) PROVE Inv'
  BY <1>4, StepInit, StepReceivesBatch, StepFinishesBatch, StepReceivesClose DEF WriterStep
<1>5. ASSUME NEW w \in Workers, WriterCrashes(w) PROVE Inv'
  BY <1>5, StepCrashes
<1>6. CASE WriteTimesOut
  BY <1>6, StepWriteTimesOut
<1>7. ASSUME NEW c \in Disposer, CloseTimesOut(c) \/ Terminated(c) PROVE Inv'
  BY <1>7, StepCloseTimesOut, StepTerminated
<1>8. CASE shutdownGatewayObservability \/ ShutdownDrainLoop \/ DrainTimesOut \/ ForcedExit \/ Exited
  BY <1>8, StepDrains
<1>9. CASE FinishShutdown
  BY <1>9, StepFinish
<1>10. CASE UNCHANGED vars
  <2>1. UNCHANGED <<queue, arrivals, flush, failed, workerVars, thread, dispose, storeVars, acked>>
    BY <1>10 DEF vars, queueVars
  <2>2. phase' = phase
    BY <1>10 DEF vars
  <2>3. QED
    BY <2>1, <2>2, IdleStep
<1>11. QED
  BY <1>1, <1>2, <1>3, <1>4, <1>5, <1>6, <1>7, <1>8, <1>9, <1>10 DEF Next

\* Nothing is recorded and no thread is spawned when the gateway starts.
LEMMA InitInv ==
    ASSUME Init
    PROVE  Inv
<1>1. /\ queue = {} /\ arrivals = 0 /\ flush = NoFlush /\ failed \in BOOLEAN /\ worker = None
      /\ generation = 0 /\ ready = "none" /\ close = "none" /\ closing = FALSE /\ sequence = 0
      /\ pending = {} /\ thread = [w \in Workers |-> NoThread]
      /\ dispose = [c \in Disposer |-> NotDisposing]
      /\ phase = "running" /\ rows = {} /\ skipped = {} /\ acked = {}
  BY DEF Init, Buffer!Init
<1>2. /\ NoThread \in Thread /\ Sound(NoThread) /\ NoThread.state = "none" /\ ~NoThread.listening
      /\ NoThread.inbox = << >> /\ NoThread.outbox = << >> /\ NoThread.inFlight = {}
  BY DEF NoThread, Thread, Sound
<1>3. NoFlush \in Flush /\ NoFlush.pc = "none"
  BY DEF NoFlush, Flush
<1>4. NotDisposing \in Disposal /\ NotDisposing.pc = "none"
  BY PipelineAssumption DEF NotDisposing, Disposal, None
<1>5. /\ thread \in [Workers -> Thread] /\ \A w \in Workers : thread[w] = NoThread
      /\ dispose \in [Disposer -> Disposal] /\ \A c \in Disposer : dispose[c] = NotDisposing
  BY <1>1, <1>2, <1>4
<1>6. TypeOK
  BY <1>1, <1>3, <1>5, PipelineAssumption DEF TypeOK, None
<1>7. OneWorker
  BY <1>1, <1>2, <1>5 DEF OneWorker, Spawned, Heard
<1>8. Disposals /\ NoOrphanWorker
  BY <1>2, <1>4, <1>5 DEF Disposals, Disposing, NoOrphanWorker, Disposer
<1>9. CloseIsFlagged /\ Flushes
  BY <1>1, <1>3 DEF CloseIsFlagged, Flushes
<1>10. Numbered /\ AckMeansProcessed
  BY <1>1, <1>3 DEF Numbered, AckMeansProcessed
<1>11. Begun = {} /\ Held = {}
  <2>1. UNION {m.batch : m \in UNION {thread[w].inFlight : w \in Workers}} = {}
    BY <1>2, <1>5
  <2>2. QED
    BY <1>1, <1>3, <2>1 DEF Begun, Held
<1>12. \A w \in Workers : Writes(thread[w].inbox) = {}
  BY <1>2, <1>5 DEF Writes
<1>13. OnePlace
  BY <1>1, <1>11, <1>12 DEF OnePlace, Fresh, Apart
<1>14. QED
  BY <1>2, <1>5, <1>6, <1>7, <1>8, <1>9, <1>10, <1>13 DEF Inv

\* The invariant holds in every state.
LEMMA AlwaysInv == Spec => []Inv
<1>1. Init => Inv
  BY InitInv
<1>2. Inv /\ [Next]_vars => Inv'
  BY NextStep
<1>3. QED
  BY <1>1, <1>2, PTL DEF Spec

-----------------------------------------------------------------------------
(***************************************************************************)
(* Nothing is written twice                                                *)
(***************************************************************************)

\* A message that is posted is not a write that has begun.
LEMMA PostCalm ==
    ASSUME NEW t \in [Workers -> Thread], NEW w, NEW m, NEW t2, t2 = PostTo(t, w, m)
    PROVE  \A v \in Workers : t2[v].inFlight = t[v].inFlight
<1>1. ASSUME NEW v \in Workers PROVE t2[v].inFlight = t[v].inFlight
  <2>1. CASE v = w
    <3>1. t2[v] = [t[v] EXCEPT !.inbox = Append(@, m)] /\ t[v] \in Thread
      BY <2>1 DEF PostTo
    <3>2. QED
      BY <3>1 DEF Thread
  <2>2. CASE v # w
    BY <2>2 DEF PostTo
  <2>3. QED
    BY <2>1, <2>2
<1>2. QED
  BY <1>1

\* What the gateway does to the threads begins no write.
LEMMA FlushCalm ==
    ASSUME Inv, StartFlush
    PROVE  \A v \in Workers : thread'[v].inFlight \subseteq thread[v].inFlight
<1>1. thread \in [Workers -> Thread]
  BY DEF Inv, TypeOK
<1>2. ASSUME NEW w \in Workers, thread[w].state = "none", thread' = [thread EXCEPT ![w] = Started(generation + 2)]
      PROVE  \A v \in Workers : thread'[v].inFlight \subseteq thread[v].inFlight
  <2>1. Started(generation + 2).inFlight = {}
    BY NewThread DEF Inv, TypeOK
  <2>2. QED
    BY <1>1, <1>2, <2>1
<1>3. ASSUME NEW m, thread' = PostTo(thread, worker, m)
      PROVE  \A v \in Workers : thread'[v].inFlight \subseteq thread[v].inFlight
  BY <1>1, <1>3, PostCalm
<1>4. \/ \E w \in Workers : thread[w].state = "none" /\ thread' = [thread EXCEPT ![w] = Started(generation + 2)]
      \/ thread' = thread
      \/ thread' = PostTo(thread, worker, [type |-> "write_batch", seq |-> sequence,
                                           batch |-> Buffer!Batch(queue, BatchSize)])
  BY DEF StartFlush, Post, PostTo, Started
<1>5. QED
  BY <1>2, <1>3, <1>4

\* Neither does a disposal.
LEMMA DisposeCalm ==
    ASSUME Inv, StartDispose
    PROVE  \A v \in Workers : thread'[v].inFlight \subseteq thread[v].inFlight
<1>1. thread \in [Workers -> Thread]
  BY DEF Inv, TypeOK
<1>2. thread' = thread \/ thread' = PostTo(thread, worker, Msg("close"))
  BY DEF StartDispose, Post, PostTo
<1>3. QED
  BY <1>1, <1>2, PostCalm

\* Neither does an event.
LEMMA EventCalm ==
    ASSUME Inv, NEW w \in Workers, HandleEvent(w)
    PROVE  \A v \in Workers : thread'[v].inFlight \subseteq thread[v].inFlight
<1>1. thread[w].outbox # << >> /\ dispose \in [Disposer -> Disposal]
  BY DEF HandleEvent, HandleReady, HandleBatchWritten, HandleClosed, HandleFatal, HandleError,
         HandleExit, Event, Inv, TypeOK
<1>2. ASSUME thread' = Taken(w) PROVE \A v \in Workers : thread'[v].inFlight \subseteq thread[v].inFlight
  BY <1>1, <1>2, TakenMild DEF Mild
<1>3. ASSUME NEW m, thread' = PostTo(Taken(w), w, m)
      PROVE  \A v \in Workers : thread'[v].inFlight \subseteq thread[v].inFlight
  <2> DEFINE t == Taken(w)
  <2> HIDE DEF t
  <2>1. t \in [Workers -> Thread] /\ \A v \in Workers : t[v].inFlight = thread[v].inFlight
    BY <1>1, TakenMild DEF Mild, t
  <2>2. thread' = PostTo(t, w, m)
    BY <1>3 DEF t
  <2>3. QED
    BY <2>1, <2>2, PostCalm
<1>4. ASSUME NEW d, thread' = Unlistened(Taken(w), d)
      PROVE  \A v \in Workers : thread'[v].inFlight \subseteq thread[v].inFlight
  <2> DEFINE t == Taken(w)
  <2> HIDE DEF t
  <2>1. t \in [Workers -> Thread] /\ \A v \in Workers : t[v].inFlight = thread[v].inFlight
    BY <1>1, TakenMild DEF Mild, t
  <2>2. \A v \in Workers : thread'[v] = t[v] \/ thread'[v] = [t[v] EXCEPT !.listening = FALSE]
    BY <1>4 DEF t, Unlistened
  <2>3. ASSUME NEW u \in Thread PROVE [u EXCEPT !.listening = FALSE].inFlight = u.inFlight
    BY DEF Thread
  <2>4. QED
    BY <2>1, <2>2, <2>3
<1>5. CASE HandleReady(w)
  <2>1. \/ thread' = Taken(w)
        \/ thread' = PostTo(Taken(w), w, [type |-> "write_batch", seq |-> sequence, batch |-> flush.batch])
    BY <1>5 DEF HandleReady, PostTo
  <2>2. QED
    BY <1>2, <1>3, <2>1
<1>6. CASE HandleBatchWritten(w)
  BY <1>2, <1>6 DEF HandleBatchWritten
<1>7. CASE HandleClosed(w) \/ HandleFatal(w) \/ HandleExit(w)
  <2>1. thread' = Unlistened(Taken(w), dispose')
    BY <1>7 DEF HandleClosed, HandleFatal, HandleExit
  <2>2. QED
    BY <1>4, <2>1
<1>8. CASE HandleError(w)
  <2>1. thread' = Unlistened(Taken(w), dispose') \/ thread' = PostTo(Taken(w), w, Msg("close"))
    BY <1>8 DEF HandleError, PostTo
  <2>2. QED
    BY <1>3, <1>4, <2>1
<1>9. QED
  BY <1>5, <1>6, <1>7, <1>8 DEF HandleEvent

\* Nor the end of a disposal.
LEMMA CloseCalm ==
    ASSUME Inv, NEW c \in Disposer, CloseTimesOut(c) \/ Terminated(c)
    PROVE  \A v \in Workers : thread'[v].inFlight \subseteq thread[v].inFlight
<1>1. thread \in [Workers -> Thread]
  BY DEF Inv, TypeOK
<1>2. CASE CloseTimesOut(c)
  <2>1. \A v \in Workers : thread'[v] = thread[v] \/ thread'[v] = [thread[v] EXCEPT !.listening = FALSE]
    BY <1>2 DEF CloseTimesOut, Unlistened
  <2>2. ASSUME NEW u \in Thread PROVE [u EXCEPT !.listening = FALSE].inFlight = u.inFlight
    BY DEF Thread
  <2>3. QED
    BY <1>1, <2>1, <2>2
<1>3. CASE Terminated(c)
  <2> DEFINE w == dispose[c].target
  <2>1. thread' = [thread EXCEPT ![w].state = "dead", ![w].inbox = << >>, ![w].inFlight = {},
                                 ![w].storeOpen = FALSE]
    BY <1>3 DEF Terminated, StopThread
  <2> HIDE DEF w
  <2>2. ASSUME NEW v \in Workers PROVE thread'[v].inFlight \subseteq thread[v].inFlight
    <3>1. CASE v = w
      <4>1. /\ thread[v] \in Thread
            /\ thread'[v] = [thread[v] EXCEPT !.state = "dead", !.inbox = << >>, !.inFlight = {},
                                              !.storeOpen = FALSE]
        BY <1>1, <2>1, <3>1
      <4>2. thread'[v].inFlight = {}
        BY <4>1 DEF Thread
      <4>3. QED
        BY <4>2
    <3>2. CASE v # w
      BY <1>1, <2>1, <3>2
    <3>3. QED
      BY <3>1, <3>2
  <2>3. QED
    BY <2>2
<1>4. QED
  BY <1>2, <1>3

\* Nor the writer, but when it receives a batch.
LEMMA WriterCalm ==
    ASSUME Inv, NEW w \in Workers,
           WriterInit(w) \/ WriterFinishesBatch(w) \/ WriterReceivesClose(w) \/ WriterCrashes(w)
    PROVE  \A v \in Workers : thread'[v].inFlight \subseteq thread[v].inFlight
<1>1. thread \in [Workers -> Thread] /\ thread[w] \in Thread
  BY DEF Inv, TypeOK
<1>2. ASSUME NEW t, thread' = [thread EXCEPT ![w] = t], t.inFlight \subseteq thread[w].inFlight
      PROVE  \A v \in Workers : thread'[v].inFlight \subseteq thread[v].inFlight
  BY <1>1, <1>2
<1>3. ASSUME NEW f \in Thread, NEW replies, Writer(w, f, replies), f.inFlight = thread[w].inFlight
      PROVE  \A v \in Workers : thread'[v].inFlight \subseteq thread[v].inFlight
  <2>1. Replied(f, replies).inFlight = f.inFlight
    BY <1>3 DEF Replied, Thread
  <2>2. thread' = [thread EXCEPT ![w] = Replied(f, replies)]
    BY <1>3 DEF Writer, Replied
  <2>3. QED
    BY <1>2, <1>3, <2>1, <2>2
<1>4. CASE WriterInit(w)
  <2> DEFINE f == [thread[w] EXCEPT !.storeOpen = TRUE]
  <2>1. f \in Thread /\ f.inFlight = thread[w].inFlight
    BY <1>1 DEF Thread
  <2>2. Writer(w, f, <<Msg("ready")>>) \/ Writer(w, thread[w], <<Msg("fatal")>>)
    BY <1>4 DEF WriterInit
  <2> HIDE DEF f
  <2>3. QED
    BY <1>1, <1>3, <2>1, <2>2
<1>5. CASE WriterReceivesClose(w)
  <2> DEFINE a == [thread[w] EXCEPT !.closeRequested = TRUE]
             c == Closed(a)
  <2>1. a \in Thread /\ a.inFlight = thread[w].inFlight
    BY <1>1 DEF Thread
  <2>2. Writer(w, c, << >>) \/ Writer(w, a, << >>)
    BY <1>5 DEF WriterReceivesClose
  <2> HIDE DEF a
  <2>3. c \in Thread /\ c.inFlight = a.inFlight
    BY <2>1, ClosedThread
  <2> HIDE DEF c
  <2>4. QED
    BY <1>3, <2>1, <2>2, <2>3
<1>6. CASE WriterFinishesBatch(w)
  <2>1. PICK msg \in thread[w].inFlight :
           LET reply == [type |-> "batch_written", seq |-> msg.seq, batch |-> {}]
               after == Answered(thread[w], msg, reply)
           IN  thread' = [thread EXCEPT ![w] =
                     IF after.closeRequested /\ after.inFlight = {} THEN Closed(after) ELSE after]
    BY <1>6 DEF WriterFinishesBatch, Answered
  <2> DEFINE reply == [type |-> "batch_written", seq |-> msg.seq, batch |-> {}]
             a == Answered(thread[w], msg, reply)
             c == Closed(a)
  <2>2. thread' = [thread EXCEPT ![w] = c] \/ thread' = [thread EXCEPT ![w] = a]
    BY <2>1
  <2>3. msg \in Message
    BY <1>1, <2>1 DEF Thread
  <2>4. reply \in Message
    BY <2>3 DEF Message
  <2> HIDE DEF reply
  <2>5. a \in Thread /\ a.inFlight = thread[w].inFlight \ {msg}
    BY <1>1, <2>4, AnsweredThread
  <2> HIDE DEF a
  <2>6. c.inFlight = a.inFlight
    BY <2>5, ClosedThread
  <2> HIDE DEF c
  <2>7. QED
    BY <1>2, <2>2, <2>5, <2>6
<1>7. CASE WriterCrashes(w)
  <2>1. PICK ev \in {<<Msg("error"), Msg("exit")>>, <<Msg("exit")>>} :
           thread' = [[thread EXCEPT ![w].outbox = @ \o ev] EXCEPT
                         ![w].state = "dead", ![w].inbox = << >>, ![w].inFlight = {}, ![w].storeOpen = FALSE]
    BY <1>7 DEF WriterCrashes, StopThread
  <2>2. thread' = [thread EXCEPT ![w] = Crashed(thread[w], ev)]
    BY <1>1, <2>1 DEF Crashed
  <2>3. ev \in Seq(Message)
    BY <2>1, CrashEvents
  <2>4. Crashed(thread[w], ev).inFlight = {}
    BY <1>1, <2>3, CrashedThread
  <2>5. QED
    BY <1>2, <2>2, <2>4
<1>8. QED
  BY <1>4, <1>5, <1>6, <1>7

\* What no write has been begun for.
Unwritten(b) ==
    /\ \A x \in b : x \notin skipped /\ ~ \E r \in rows : r.obs = x.arrival
    /\ \A v \in Workers : \A n \in thread[v].inFlight : n.batch \cap b = {}

\* A write that begins is of observations no other write ever was of.
LEMMA BeginsOnce ==
    ASSUME Inv, NEW w \in Workers, WriterReceivesBatch(w), NEW u \in Workers,
           NEW m \in thread'[u].inFlight \ thread[u].inFlight
    PROVE  Unwritten(m.batch)
<1> DEFINE msg == Head(thread[w].inbox)
<1>1. /\ thread \in [Workers -> Thread] /\ thread[w] \in Thread /\ thread[w].inbox # << >>
      /\ thread[w].inbox \in Seq(Message) /\ msg.type = "write_batch"
  BY ReceivesFacts DEF WriterReceivesBatch, Inv, TypeOK
<1>2. m = msg
  <2> DEFINE f == [thread[w] EXCEPT !.inFlight = @ \cup {msg}]
  <2>1. \/ Writer(w, thread[w], <<Msg("fatal")>>)
        \/ Writer(w, f, << >>)
    BY DEF WriterReceivesBatch
  <2>2. f \in Thread /\ f.inFlight = thread[w].inFlight \cup {msg}
    <3>1. msg \in Message
      BY <1>1
    <3> HIDE DEF msg
    <3>2. QED
      BY <1>1, <3>1 DEF Thread
  <2> HIDE DEF f, msg
  <2>3. ASSUME NEW g \in Thread, NEW replies, Writer(w, g, replies),
               g.inFlight \subseteq thread[w].inFlight \cup {msg}
        PROVE  m = msg
    <3>1. Replied(g, replies).inFlight = g.inFlight
      BY <2>3 DEF Replied, Thread
    <3>2. thread' = [thread EXCEPT ![w] = Replied(g, replies)]
      BY <2>3 DEF Writer, Replied
    <3>3. QED
      BY <1>1, <2>3, <3>1, <3>2
  <2>4. QED
    BY <1>1, <2>1, <2>2, <2>3
<1>3. 1 \in Writes(thread[w].inbox) /\ thread[w].inbox[1] = msg
  BY <1>1 DEF Writes
<1> HIDE DEF msg
<1>4. \A x \in m.batch : x.arrival \notin Begun
  BY <1>2, <1>3 DEF Inv, OnePlace, Fresh
<1>5. ASSUME NEW x \in m.batch PROVE x \notin skipped /\ ~ \E r \in rows : r.obs = x.arrival
  BY <1>4 DEF Begun
<1>6. ASSUME NEW v \in Workers, NEW n \in thread[v].inFlight, NEW x \in n.batch PROVE x \notin m.batch
  <2>1. x \in UNION {k.batch : k \in UNION {thread[y].inFlight : y \in Workers}}
    OBVIOUS
  <2>2. x.arrival \in Begun
    BY <2>1 DEF Begun
  <2>3. QED
    BY <1>4, <2>2
<1>7. \A v \in Workers : \A n \in thread[v].inFlight : n.batch \cap m.batch = {}
  BY <1>6
<1>8. QED
  BY <1>5, <1>7 DEF Unwritten

\* So it is for every step.
LEMMA NextBeginsOnce ==
    ASSUME Inv, Next, NEW u \in Workers, NEW m \in thread'[u].inFlight \ thread[u].inFlight
    PROVE  Unwritten(m.batch)
<1> DEFINE Calm == \A v \in Workers : thread'[v].inFlight \subseteq thread[v].inFlight
<1>1. ASSUME NEW p \in Priorities, recordGatewayObservation(p) PROVE Calm
  BY <1>1 DEF recordGatewayObservation
<1>2. ASSUME FlushTimerFires \/ DrainHandleFires PROVE Calm
  <2>1. StartFlush \/ thread' = thread
    BY <1>2 DEF FlushTimerFires, DrainHandleFires
  <2>2. QED
    BY <2>1, FlushCalm
<1>3. ASSUME NEW w \in Workers, HandleEvent(w) PROVE Calm
  BY <1>3, EventCalm
<1>4. ASSUME NEW w \in Workers,
             WriterInit(w) \/ WriterFinishesBatch(w) \/ WriterReceivesClose(w) \/ WriterCrashes(w)
      PROVE  Calm
  BY <1>4, WriterCalm
<1>5. ASSUME WriteTimesOut \/ FinishShutdown \/ ForcedExit \/ Exited PROVE Calm
  <2>1. thread' = thread
    BY <1>5 DEF WriteTimesOut, FinishShutdown, ForcedExit, Exited, vars
  <2>2. QED
    BY <2>1
<1>6. ASSUME NEW c \in Disposer, CloseTimesOut(c) \/ Terminated(c) PROVE Calm
  BY <1>6, CloseCalm
<1>7. ASSUME shutdownGatewayObservability \/ ShutdownDrainLoop \/ DrainTimesOut PROVE Calm
  <2>1. StartDispose \/ StartFlush \/ thread' = thread
    BY <1>7 DEF shutdownGatewayObservability, ShutdownDrainLoop, DrainTimesOut, DrainEnds
  <2>2. QED
    BY <2>1, FlushCalm, DisposeCalm
<1>8. ASSUME NEW w \in Workers, WriterReceivesBatch(w) PROVE Unwritten(m.batch)
  BY <1>8, BeginsOnce
<1>9. ~Calm
  OBVIOUS
<1> HIDE DEF Calm
<1>10. QED
  BY <1>1, <1>2, <1>3, <1>4, <1>5, <1>6, <1>7, <1>8, <1>9 DEF Next, WriterStep

-----------------------------------------------------------------------------
(***************************************************************************)
(* The theorems                                                            *)
(***************************************************************************)

\* The conjuncts of the invariant say what the properties say.
LEMMA InvMeans ==
    ASSUME Inv
    PROVE  NoStrandedFlush /\ AckMeansProcessed /\ NoOrphanWorker /\ EventsAreCurrent /\ NoWriteToClosedStore
<1>1. NoStrandedFlush
  BY DEF Inv, Flushes, NoStrandedFlush
<1>2. AckMeansProcessed /\ NoOrphanWorker
  BY DEF Inv
<1>3. EventsAreCurrent
  <2>1. ASSUME NEW w \in Workers, thread[w].listening, thread[w].outbox # << >>
        PROVE  thread[w].gen = generation
    <3>1. worker = w /\ w # None
      BY <2>1 DEF Inv, OneWorker, Heard, Workers, None
    <3>2. QED
      BY <3>1 DEF Inv, OneWorker
  <2>2. QED
    BY <2>1 DEF EventsAreCurrent
<1>4. NoWriteToClosedStore
  BY DEF Inv, Sound, NoWriteToClosedStore
<1>5. QED
  BY <1>1, <1>2, <1>3, <1>4

(***************************************************************************)
(* flushGatewayObservationQueueNow never awaits a promise that nothing can *)
(* settle: whichever of the timeout, the answer, the rejections of the     *)
(* worker's events and the reset of a disposal comes first, the write it   *)
(* waits for is in pendingGatewayObservationWorkerWrites as long as it     *)
(* waits, and the worker it waits for is still to report.                  *)
(***************************************************************************)
THEOREM FlushIsNeverStranded == Spec => []NoStrandedFlush
<1>1. Inv => NoStrandedFlush
  BY InvMeans
<1>2. QED
  BY <1>1, AlwaysInv, PTL

(***************************************************************************)
(* A flush that resolves was written: writeGatewayObservationBatch         *)
(* resolves only with the "batch_written" of its own number, of the worker *)
(* that was given its batch, after that batch was stored or skipped with a *)
(* warning.                                                                *)
(***************************************************************************)
THEOREM AcknowledgedIsProcessed == Spec => []AckMeansProcessed
<1>1. Inv => AckMeansProcessed
  BY InvMeans
<1>2. QED
  BY <1>1, AlwaysInv, PTL

(***************************************************************************)
(* No reset of the worker handle, neither by a disposal nor by an "exit",  *)
(* lets go of a thread that lives.                                         *)
(***************************************************************************)
THEOREM WorkersAreOwned == Spec => []NoOrphanWorker
<1>1. Inv => NoOrphanWorker
  BY InvMeans
<1>2. QED
  BY <1>1, AlwaysInv, PTL

(***************************************************************************)
(* The generation check of the listeners never has anything to discard:    *)
(* what is still heard comes from the worker of the current generation.    *)
(***************************************************************************)
THEOREM HeardIsCurrent == Spec => []EventsAreCurrent
<1>1. Inv => EventsAreCurrent
  BY InvMeans
<1>2. QED
  BY <1>1, AlwaysInv, PTL

(***************************************************************************)
(* closeWorkerStoreIfIdle never closes the store under a write.            *)
(***************************************************************************)
THEOREM StoreOutlivesWrites == Spec => []NoWriteToClosedStore
<1>1. Inv => NoWriteToClosedStore
  BY InvMeans
<1>2. QED
  BY <1>1, AlwaysInv, PTL

(***************************************************************************)
(* No observation is written twice: when writeBatch takes up a batch, none *)
(* of its observations was ever stored, skipped or part of a write still   *)
(* under way, in whatever order flushes fail, time out and shut down.      *)
(***************************************************************************)
THEOREM WrittenOnce == Spec => WrittenAtMostOnce
<1>1. Inv /\ [Next]_vars =>
          [\A w \in Workers : \A m \in thread'[w].inFlight \ thread[w].inFlight :
              /\ \A x \in m.batch : x \notin skipped /\ ~ \E r \in rows : r.obs = x.arrival
              /\ \A v \in Workers : \A n \in thread[v].inFlight : n.batch \cap m.batch = {}]_vars
  <2>1. ASSUME Inv, Next, NEW w \in Workers, NEW m \in thread'[w].inFlight \ thread[w].inFlight
        PROVE  /\ \A x \in m.batch : x \notin skipped /\ ~ \E r \in rows : r.obs = x.arrival
               /\ \A v \in Workers : \A n \in thread[v].inFlight : n.batch \cap m.batch = {}
    BY <2>1, NextBeginsOnce DEF Unwritten
  <2>2. QED
    BY <2>1
<1>2. QED
  BY <1>1, AlwaysInv, PTL DEF Spec, WrittenAtMostOnce

-----------------------------------------------------------------------------
\* A gateway process spawns one worker thread at most.
OneThread == \A v, w \in Workers : thread[v].state # "none" /\ thread[w].state # "none" => v = w

(***************************************************************************)
(* ensureGatewayObservationWorker spawns at most once in the life of a     *)
(* process.  Every way the handle is reset (an "exit", a disposal) goes    *)
(* with bootstrapFailed or with the end of the shutdown, after which no    *)
(* flush starts: a worker that is lost is never replaced, and the          *)
(* generations tell nothing apart that the listeners do not.               *)
(***************************************************************************)
THEOREM SpawnsOnce == Spec => []OneThread
<1>1. Inv => OneThread
  BY DEF Inv, OneWorker, Spawned, OneThread
<1>2. QED
  BY <1>1, AlwaysInv, PTL

=============================================================================
