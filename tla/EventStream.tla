---------------------------- MODULE EventStream ----------------------------
(***************************************************************************)
(* class EventStream (ai/src/utils/event-stream.ts): a producer pushes     *)
(* events; each consumer iterates with for-await.  An event goes to the    *)
(* consumer that has waited longest, or into the queue.                    *)
(*                                                                         *)
(* A waiter's promise is resolved in one step and its consumer goes on in  *)
(* a later one; other consumers and the producer may run in between.       *)
(* Events are numbered in the order in which they are pushed.              *)
(***************************************************************************)
EXTENDS Naturals, Sequences, SequencesExt

CONSTANTS
    Consumers,   \* the iterations of the stream
    MaxEvents    \* bound: events pushed

ASSUME EventsAssumption == MaxEvents \in Nat

Events == 1 .. MaxEvents
Nothing == 0             \* a promise that is not resolved
Over == MaxEvents + 1    \* a promise resolved with done: true

VARIABLES
    sent,       \* events pushed while the stream was open (history)
    queue,      \* queue
    waiting,    \* the consumers in waiting, longest first
    done,       \* done
    result,     \* finalResultPromise is resolved
    ended,      \* end was called (history)
    pc,         \* pc[c]: "ready" for another event, "waiting" or "stopped"
    promise,    \* promise[c]: what c's promise was resolved with
    got         \* got[c]: the events c received (history)

stream == <<sent, queue, waiting, done, result, ended>>
vars == <<stream, pc, promise, got>>

Init ==
    /\ sent = 0 /\ queue = <<>> /\ waiting = <<>>
    /\ done = FALSE /\ result = FALSE /\ ended = FALSE
    /\ pc = [c \in Consumers |-> "ready"]
    /\ promise = [c \in Consumers |-> Nothing]
    /\ got = [c \in Consumers |-> <<>>]

-----------------------------------------------------------------------------
(* The producer.                                                            *)

\* Mutant: the waiter that is served stays in the list.
Mut_DeliverPeek(e) ==
    IF waiting # <<>>
    THEN promise' = [promise EXCEPT ![Head(waiting)] = e] /\ UNCHANGED <<queue, waiting>>
    ELSE queue' = Append(queue, e) /\ UNCHANGED <<promise, waiting>>

\* Mutant: the event is put into the queue as well.
Mut_DeliverTwice(e) ==
    /\ queue' = Append(queue, e)
    /\ IF waiting # <<>>
       THEN promise' = [promise EXCEPT ![Head(waiting)] = e] /\ waiting' = Tail(waiting)
       ELSE UNCHANGED <<promise, waiting>>

\* An event for the first waiter, or for whoever comes next.
Deliver(e) ==
    IF waiting # <<>>
    THEN /\ promise' = [promise EXCEPT ![Head(waiting)] = e]
         /\ waiting' = Tail(waiting)
         /\ UNCHANGED queue
    ELSE queue' = Append(queue, e) /\ UNCHANGED <<promise, waiting>>

\* push(event); complete: isComplete(event).  Once done it does nothing.
Push(complete) ==
    /\ ~done /\ sent < MaxEvents
    /\ sent' = sent + 1
    /\ done' = complete
    /\ result' = (result \/ complete)
    /\ Deliver(sent + 1)
    /\ UNCHANGED <<ended, pc, got>>

\* Mutant: only one waiter is told.
Mut_End(withResult) ==
    /\ done' = TRUE /\ ended' = TRUE
    /\ result' = (result \/ withResult)
    /\ IF waiting = <<>> THEN UNCHANGED <<promise, waiting>>
       ELSE promise' = [promise EXCEPT ![Head(waiting)] = Over] /\ waiting' = Tail(waiting)
    /\ UNCHANGED <<sent, queue, pc, got>>

\* end(result); withResult: result # undefined.
End(withResult) ==
    /\ done' = TRUE /\ ended' = TRUE
    /\ result' = (result \/ withResult)
    /\ promise' = [c \in Consumers |-> IF c \in ToSet(waiting) THEN Over ELSE promise[c]]
    /\ waiting' = <<>>
    /\ UNCHANGED <<sent, queue, pc, got>>

-----------------------------------------------------------------------------
(* A consumer: asyncIterator.                                               *)

Receive(c, e) == got' = [got EXCEPT ![c] = Append(@, e)]

Take(c) ==
    /\ pc[c] = "ready" /\ queue # <<>>
    /\ Receive(c, Head(queue))
    /\ queue' = Tail(queue)
    /\ UNCHANGED <<sent, waiting, done, result, ended, pc, promise>>

Stop(c) ==
    /\ pc[c] = "ready" /\ queue = <<>> /\ done
    /\ pc' = [pc EXCEPT ![c] = "stopped"]
    /\ UNCHANGED <<stream, promise, got>>

Wait(c) ==
    /\ pc[c] = "ready" /\ queue = <<>> /\ ~done
    /\ pc' = [pc EXCEPT ![c] = "waiting"]
    /\ waiting' = Append(waiting, c)
    /\ UNCHANGED <<sent, queue, done, result, ended, promise, got>>

\* The consumer goes on after its promise was resolved.
Resume(c) ==
    /\ pc[c] = "waiting" /\ promise[c] # Nothing
    /\ IF promise[c] = Over
       THEN pc' = [pc EXCEPT ![c] = "stopped"] /\ UNCHANGED got
       ELSE pc' = [pc EXCEPT ![c] = "ready"] /\ Receive(c, promise[c])
    /\ promise' = [promise EXCEPT ![c] = Nothing]
    /\ UNCHANGED stream

Consume(c) == Take(c) \/ Stop(c) \/ Wait(c) \/ Resume(c)

Next ==
    \/ \E b \in BOOLEAN : Push(b) \/ End(b)
    \/ \E c \in Consumers : Consume(c)

Spec == Init /\ [][Next]_vars

\* Every consumer asks for its next event as soon as it has handled the last.
FairSpec == Spec /\ \A c \in Consumers : WF_vars(Consume(c))

-----------------------------------------------------------------------------
DataTypes ==
    /\ sent \in 0 .. MaxEvents
    /\ queue \in Seq(Events)
    /\ waiting \in Seq(Consumers)
    /\ pc \in [Consumers -> {"ready", "waiting", "stopped"}]
    /\ promise \in [Consumers -> {Nothing, Over} \cup Events]
    /\ got \in [Consumers -> Seq(Events)]

FlagTypes == done \in BOOLEAN /\ result \in BOOLEAN /\ ended \in BOOLEAN

WaitingIsListed ==
    \A c \in Consumers :
        /\ (pc[c] = "waiting") <=> (c \in ToSet(waiting) \/ promise[c] # Nothing)
        /\ promise[c] # Nothing => c \notin ToSet(waiting)

\* Every variable keeps its type; a consumer waits exactly as long as it is in
\* the list or has a promise that was resolved.
TypeOK == DataTypes /\ FlagTypes /\ WaitingIsListed

\* No consumer waits in vain, and no event waits behind one that came later:
\* the queue holds something only if nobody is waiting.
NobodyWaitsBesideAQueue == queue = <<>> \/ waiting = <<>>

\* What consumer c has received or is promised.
Held(c) == ToSet(got[c]) \cup ({promise[c]} \cap Events)

\* Every event pushed while the stream was open is queued or held by somebody.
NoneIsLost == \A e \in 1 .. sent : e \in ToSet(queue) \/ \E c \in Consumers : e \in Held(c)

\* What one consumer holds no other gets.
NoneIsShared ==
    \A c \in Consumers :
        /\ Held(c) \cap ToSet(queue) = {}
        /\ \A d \in Consumers : c # d => Held(c) \cap Held(d) = {}

\* Each consumer sees its events in the order in which they were pushed, the
\* one already promised to it and those still queued included.
InOrder ==
    \A c \in Consumers :
        LET seen == got[c] \o (IF promise[c] \in Events THEN <<promise[c]>> ELSE <<>>) \o queue
        IN  \A i, j \in DOMAIN seen : i < j => seen[i] < seen[j]

\* Every event goes to one consumer, once, and in its turn.
OnceInOrder == NoneIsLost /\ NoneIsShared /\ InOrder

\* "Notify all waiting consumers that we're done": after end every consumer
\* leaves its loop, and every event has been received by then.
EndReleasesAll ==
    ended ~> /\ \A c \in Consumers : pc[c] = "stopped"
             /\ queue = <<>>

\* A completing event is enough for one consumer, the only one that callers
\* have: although nobody calls end, everything is received and somebody leaves
\* the loop.  (A second consumer may wait for ever.)
CompletionReleases == done ~> (queue = <<>> /\ \E c \in Consumers : pc[c] = "stopped")

\* However a producer completes, with end or without, no event stays behind, no
\* consumer that somebody relies on stays in its loop, and meanwhile none waits
\* beside a queued event.
ConsumersAreReleased == []NobodyWaitsBesideAQueue /\ EndReleasesAll /\ CompletionReleases

=============================================================================
