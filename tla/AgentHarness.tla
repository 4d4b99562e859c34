---------------------------- MODULE AgentHarness ----------------------------
(***************************************************************************)
(* class AgentHarness (agent/src/harness/agent-harness.ts): one operation  *)
(* at a time, a prompt, a compaction or a navigation, over a session that  *)
(* is written asynchronously.  Session writes that are requested while it  *)
(* is busy wait in pendingSessionWrites until the operation flushes them.  *)
(*                                                                         *)
(* Each call is a thread that stops at its awaits; listeners and hooks run *)
(* there, may queue writes and messages, and may throw.  The run of the    *)
(* agent is that of runAgentLoop, seen by the handler of its events.       *)
(***************************************************************************)
EXTENDS Naturals, Sequences, FiniteSets, SequencesExt

CONSTANTS
    MaxCalls,     \* bound: calls of prompt, skill, promptFromTemplate, compact, navigateTree
    MaxInputs,    \* bound: calls of appendMessage, setModel, setThinkingLevel, setTools, ...,
                  \* of steer, followUp and nextTurn, and of abort
    MaxFaults,    \* bound: hooks, listeners and disk writes that fail
    MaxEvents,    \* bound: the last two together
    MaxReplies,   \* bound: beyond it the provider ends its turn
    Overlap       \* TRUE: callers do not wait for what they have called before

ASSUME HarnessAssumption ==
    /\ {MaxCalls, MaxInputs, MaxFaults, MaxEvents, MaxReplies} \subseteq Nat
    /\ Overlap \in BOOLEAN

\* Calls, writes and messages, numbered in the order in which they are made.
Calls == {"call"} \X (1 .. MaxCalls)
Writes == {"write"} \X (1 .. MaxInputs)
Texts == {"text"} \X (1 .. MaxInputs)
Aborts == 1 .. MaxInputs
None == <<"none", 0>>

Queues == {"steer", "followUp", "nextTurn"}
Root == 0

VARIABLES
    log,         \* the session's entries: what, the parent, the leaf it leaves behind
    leaf,        \* currentLeafId
    phase,
    pending,     \* pendingSessionWrites
    queue,       \* steerQueue, followUpQueue, nextTurnQueue
    op,          \* where each call stands
    appending,   \* the entry that each call and each write has built and is saving
    controller,  \* runAbortController: whose run it aborts
    aborted,     \* the calls whose run was aborted
    runPromise,  \* the call whose end waitForIdle awaits
    aborting,    \* where each call of abort stands, and for whom it waits
    writes,      \* session writes requested so far
    texts,       \* messages queued so far
    replies,     \* replies of the provider so far
    faults,      \* failures so far
    asked,       \* the writes that were queued, in order (history)
    dropped,     \* messages cleared by an abort, or in the hands of what failed (history)
    stranded     \* writes may be left in pending by an operation that does not flush (history)

session == <<log, leaf, appending>>
inputs == <<pending, queue, writes, asked, texts, dropped>>
signals == <<controller, aborted, runPromise>>
vars == <<session, phase, inputs, op, signals, aborting, replies, faults, stranded>>

\* What a call knows: the messages still to be said and what comes then; the
\* queue they came from; hasMoreToolCalls; whether the run ends with this turn;
\* eventError; whether it is emitRunFailure that runs; how many of the session's
\* entries its context stands for; and where a navigation goes.
Fresh == [at |-> "ready", todo |-> <<>>, then |-> "ready", from |-> "gone", more |-> TRUE,
          ending |-> FALSE, error |-> FALSE, failing |-> FALSE, seen |-> 0, target |-> Root]
Done == [Fresh EXCEPT !.at = "done"]

NoEntry == [what |-> None, parent |-> Root, leaf |-> Root]
Threads == Calls \cup Writes

Init ==
    /\ log = <<>> /\ leaf = Root /\ appending = [t \in Threads |-> NoEntry]
    /\ phase = "idle"
    /\ pending = <<>> /\ queue = [q \in Queues |-> <<>>]
    /\ op = [c \in Calls |-> Fresh]
    /\ controller = None /\ aborted = {} /\ runPromise = None
    /\ aborting = [a \in Aborts |-> [at |-> "ready", for |-> None]]
    /\ writes = 0 /\ texts = 0 /\ replies = 0 /\ faults = 0
    /\ asked = <<>> /\ dropped = {} /\ stranded = FALSE

At(c, stage) == op[c].at = stage
Go(c, stage) == op' = [op EXCEPT ![c].at = stage]

Saved == \A t \in Threads : appending[t] = NoEntry
Quiet == Saved /\ \A c \in Calls : op[c].at \in {"ready", "done"}

\* A call begins.  Unless calls overlap, nothing else goes on.
Begin(c) ==
    /\ At(c, "ready") /\ phase = "idle"
    /\ Overlap \/ Quiet
    /\ \A d \in Calls : d[2] < c[2] => ~At(d, "ready")

\* A listener that writes to the session waits for it.
ListenersWait == Overlap \/ \A w \in Writes : appending[w] = NoEntry

\* One more input may come; one more thing fails.
Inputs == writes + texts + Cardinality({a \in Aborts : aborting[a].at # "ready"})
Input == Inputs < MaxInputs /\ Inputs + faults < MaxEvents
Faulty == faults < MaxFaults /\ Inputs + faults < MaxEvents /\ faults' = faults + 1

-----------------------------------------------------------------------------
(* The session: an entry is built on the leaf, then written, then counts.   *)

Build(t, what) ==
    /\ appending[t] = NoEntry
    /\ appending' = [appending EXCEPT ![t] = [what |-> what, parent |-> leaf, leaf |-> Root]]
    /\ UNCHANGED <<log, leaf>>

IsLeaf(e) == e.what = <<"leaf", 0>>

Land(t) ==
    /\ appending[t] # NoEntry
    /\ LET e == appending[t]
       IN  /\ leaf' = IF IsLeaf(e) THEN e.leaf ELSE Len(log) + 1
           /\ log' = Append(log, [e EXCEPT !.leaf = leaf'])
    /\ appending' = [appending EXCEPT ![t] = NoEntry]

Miss(t) ==
    /\ appending[t] # NoEntry
    /\ appending' = [appending EXCEPT ![t] = NoEntry]
    /\ UNCHANGED <<log, leaf>>

-----------------------------------------------------------------------------
(* prompt, skill, promptFromTemplate, up to the run.                        *)

Prompt(c) ==
    /\ Begin(c)
    /\ phase' = "turn" /\ runPromise' = c
    /\ Go(c, "snapshot")
    /\ UNCHANGED <<session, inputs, controller, aborted, aborting, replies, faults, stranded>>

\* createTurnState is done; executeTurn takes the messages for the next turn.
Snapshot(c) ==
    /\ At(c, "snapshot")
    /\ op' = [op EXCEPT ![c].at = IF queue["nextTurn"] = <<>> THEN "hook" ELSE "announce",
                        ![c].todo = Append(queue["nextTurn"], c), ![c].seen = Len(log)]
    /\ queue' = [queue EXCEPT !["nextTurn"] = <<>>]
    /\ UNCHANGED <<session, phase, pending, writes, asked, texts, dropped, signals, aborting,
                   replies, faults, stranded>>

Announced(c) ==
    /\ At(c, "announce")
    /\ Go(c, "hook")
    /\ UNCHANGED <<session, phase, inputs, signals, aborting, replies, faults, stranded>>

\* before_agent_start is done: the run begins.
Start(c) ==
    /\ At(c, "hook")
    /\ op' = [op EXCEPT ![c].at = "say", ![c].then = "poll"]
    /\ controller' = c
    /\ UNCHANGED <<session, phase, inputs, aborted, runPromise, aborting, replies, faults,
                   stranded>>

InHand(c) == ToSet(op[c].todo) \cap Texts

\* Mutant: the phase is not reset when a call fails.
Mut_End(c, error) == op' = [op EXCEPT ![c] = Done] /\ UNCHANGED phase /\ runPromise' = None

\* The call ends; startRunPromise's finish.
End(c, error) ==
    /\ op' = [op EXCEPT ![c] = Done]
    /\ phase' = IF error THEN "idle" ELSE phase
    /\ runPromise' = None

\* createTurnState, the listeners or the hook throw before there is a run.
StartFails(c) ==
    /\ op[c].at \in {"snapshot", "announce", "hook"} /\ Faulty
    /\ IF At(c, "announce")
       THEN queue' = [queue EXCEPT !["nextTurn"] = Front(op[c].todo) \o @] /\ UNCHANGED dropped
       ELSE dropped' = dropped \cup InHand(c) /\ UNCHANGED queue
    /\ End(c, TRUE)
    /\ stranded' = (stranded \/ pending # <<>>)
    /\ UNCHANGED <<session, pending, writes, asked, texts, controller, aborted, aborting, replies>>

-----------------------------------------------------------------------------
(* The run: runAgentLoop with handleAgentEvent.                             *)

\* Stages in which a listener or a hook is awaited, or the session is read.
Listening == {"said", "drained", "turnEnd", "savePoint", "nextTurn", "agentEnd"}
Flushing == {"turnFlush", "nextFlush", "endFlush", "cleanFlush"}

\* Mutant: the listeners hear of the message while it is being saved.
Mut_Say(c) ==
    /\ At(c, "say")
    /\ Build(c, Head(op[c].todo))
    /\ op' = [op EXCEPT ![c].at = "said", ![c].todo = Tail(@)]
    /\ UNCHANGED <<phase, inputs, signals, aborting, replies, faults, stranded>>

\* message_end: the session is written before the listeners hear of it.
Say(c) ==
    /\ At(c, "say")
    /\ Build(c, Head(op[c].todo))
    /\ UNCHANGED <<phase, inputs, op, signals, aborting, replies, faults, stranded>>

Said(c) ==
    /\ At(c, "say")
    /\ Land(c)
    /\ op' = [op EXCEPT ![c].at = "said", ![c].todo = Tail(@), ![c].seen = @ + 1]
    /\ UNCHANGED <<phase, inputs, signals, aborting, replies, faults, stranded>>

\* drainQueuedMessages of q, in mode "one-at-a-time".
Drain(c, q, empty) ==
    IF queue[q] = <<>> THEN Go(c, empty) /\ UNCHANGED queue
    ELSE /\ queue' = [queue EXCEPT ![q] = Tail(@)]
         /\ op' = [op EXCEPT ![c].at = "drained", ![c].todo = <<Head(queue[q])>>,
                             ![c].from = q, ![c].then = "stream"]

Poll(c) ==
    /\ \/ At(c, "poll") /\ Drain(c, "steer", IF op[c].more THEN "stream" ELSE "pollLast")
       \/ At(c, "pollLast") /\ Drain(c, "followUp", "endFlush")
    /\ UNCHANGED <<session, phase, pending, writes, asked, texts, dropped, signals, aborting,
                   replies, faults, stranded>>

Reply == <<"reply", 0>>
Result == <<"result", 0>>

\* The provider's reply; an abort ends it.
Stream(c, what) ==
    /\ At(c, "stream") /\ what \in {"answer", "calls", "failed"}
    /\ c \in aborted => what = "failed"
    /\ replies >= MaxReplies => what # "calls"
    /\ replies' = IF replies < MaxReplies THEN replies + 1 ELSE replies
    /\ op' = [op EXCEPT ![c].at = "say", ![c].todo = <<Reply>>, ![c].more = FALSE,
                        ![c].then = IF what = "calls" THEN "batch" ELSE "turnEnd",
                        ![c].ending = what = "failed"]
    /\ UNCHANGED <<session, phase, inputs, signals, aborting, faults, stranded>>

\* The calls are executed; a tool may end the run.
Execute(c, more) ==
    /\ At(c, "batch")
    /\ op' = [op EXCEPT ![c].at = "say", ![c].todo = <<Result>>, ![c].then = "turnEnd",
                        ![c].more = more]
    /\ UNCHANGED <<session, phase, inputs, signals, aborting, replies, faults, stranded>>

\* What comes when the listeners have heard, or the session was read.
AfterListening(c) ==
    CASE At(c, "said") -> IF op[c].todo = <<>> THEN op[c].then ELSE "say"
      [] At(c, "drained") -> "say"
      [] At(c, "turnEnd") -> "turnFlush"
      [] At(c, "savePoint") -> IF op[c].ending THEN "endFlush" ELSE "nextFlush"
      [] At(c, "nextTurn") -> "poll"
      [] At(c, "agentEnd") -> "cleanFlush"

Heard(c) ==
    /\ op[c].at \in Listening /\ ListenersWait
    /\ op' = [op EXCEPT ![c].at = AfterListening(c), ![c].from = "gone",
                        ![c].then = IF At(c, "said") /\ op[c].todo = <<>> THEN "ready" ELSE @,
                        ![c].seen = IF At(c, "nextTurn") THEN Len(log) ELSE @]
    /\ UNCHANGED <<session, phase, inputs, signals, aborting, replies, faults, stranded>>

-----------------------------------------------------------------------------
(* flushPendingSessionWrites, and the failures of a run.                    *)

Flush(c) ==
    /\ op[c].at \in Flushing /\ pending # <<>>
    /\ Build(c, Head(pending))
    /\ UNCHANGED <<phase, inputs, op, signals, aborting, replies, faults, stranded>>

\* The head is taken off when it is written, whatever it is by then.
Flushed(c) ==
    /\ op[c].at \in Flushing
    /\ Land(c)
    /\ pending' = IF pending = <<>> THEN pending ELSE Tail(pending)
    /\ UNCHANGED <<phase, queue, writes, asked, texts, dropped, op, signals, aborting, replies,
                   faults, stranded>>

\* A run that fails says so, once.
Throw(c) ==
    /\ op' = [op EXCEPT ![c] =
              IF op[c].failing THEN [Fresh EXCEPT !.at = "cleanFlush", !.error = TRUE]
              ELSE [Fresh EXCEPT !.at = "say", !.todo = <<Reply>>, !.then = "turnEnd",
                                 !.ending = TRUE, !.failing = TRUE]]

AfterFlush(c) ==
    /\ \/ /\ \/ At(c, "turnFlush") /\ op[c].error /\ Throw(c)
             \/ At(c, "turnFlush") /\ ~op[c].error /\ Go(c, "savePoint")
             \/ At(c, "nextFlush") /\ Go(c, "nextTurn")
          /\ UNCHANGED <<phase, controller, runPromise>>
       \/ At(c, "endFlush") /\ Go(c, "agentEnd") /\ phase' = "idle"
          /\ UNCHANGED <<controller, runPromise>>
       \/ At(c, "cleanFlush") /\ End(c, op[c].error) /\ controller' = None
    /\ stranded' = FALSE
    /\ UNCHANGED <<session, inputs, aborted, aborting, replies, faults>>

\* Mutant: prompt does not flush what its failure left behind.
Mut_FlushEnds(c) ==
    /\ op[c].at \in Flushing /\ appending[c] = NoEntry
    /\ pending = <<>> \/ At(c, "cleanFlush")
    /\ AfterFlush(c)

\* Nothing is left to flush.
FlushEnds(c) ==
    /\ op[c].at \in Flushing /\ appending[c] = NoEntry
    /\ pending = <<>>
    /\ AfterFlush(c)

\* Mutant: a message that nobody could be told of is not put back.
Mut_ListenerThrows(c) ==
    /\ op[c].at \in Listening \cup {"say", "stream", "batch"} /\ appending[c] = NoEntry
    /\ ListenersWait /\ Faulty
    /\ IF At(c, "turnEnd")
       THEN op' = [op EXCEPT ![c].at = "turnFlush", ![c].error = TRUE] /\ UNCHANGED dropped
       ELSE /\ Throw(c)
            /\ dropped' = IF At(c, "drained") THEN dropped ELSE dropped \cup InHand(c)
    /\ UNCHANGED <<session, phase, pending, queue, writes, asked, texts, signals, aborting,
                   replies, stranded>>

\* Listeners, hooks and the provider's setup throw; at turn_end that waits for
\* the flush.  What was drained goes back if nobody could be told.
ListenerThrows(c) ==
    /\ op[c].at \in Listening \cup {"say", "stream", "batch"} /\ appending[c] = NoEntry
    /\ ListenersWait /\ Faulty
    /\ IF At(c, "turnEnd")
       THEN /\ op' = [op EXCEPT ![c].at = "turnFlush", ![c].error = TRUE]
            /\ UNCHANGED <<queue, dropped>>
       ELSE /\ Throw(c)
            /\ IF At(c, "drained") /\ op[c].from # "gone"
               THEN queue' = [queue EXCEPT ![op[c].from] = op[c].todo \o @] /\ UNCHANGED dropped
               ELSE dropped' = dropped \cup InHand(c) /\ UNCHANGED queue
    /\ UNCHANGED <<session, phase, pending, writes, asked, texts, signals, aborting, replies,
                   stranded>>

\* An entry is not written.
WriteFails(c) ==
    /\ op[c].at \in Flushing \cup {"say"} /\ Faulty /\ Miss(c)
    /\ dropped' = dropped \cup InHand(c)
    /\ IF At(c, "cleanFlush")
       THEN End(c, TRUE) /\ controller' = None /\ stranded' = TRUE
       ELSE Throw(c) /\ UNCHANGED <<phase, controller, runPromise, stranded>>
    /\ UNCHANGED <<pending, queue, writes, asked, texts, aborted, aborting, replies>>

PromptStep(c) ==
    \/ Snapshot(c) \/ Announced(c) \/ Start(c)
    \/ Say(c) \/ Said(c) \/ Poll(c) \/ Heard(c)
    \/ \E what \in {"answer", "calls", "failed"} : Stream(c, what)
    \/ \E more \in BOOLEAN : Execute(c, more)
    \/ Flush(c) \/ Flushed(c) \/ FlushEnds(c)

PromptFails(c) == StartFails(c) \/ ListenerThrows(c) \/ WriteFails(c)

-----------------------------------------------------------------------------
(* compact and navigateTree.                                                *)

Move(c, kind) ==
    /\ Begin(c)
    /\ phase' = kind /\ Go(c, kind)
    /\ UNCHANGED <<session, inputs, signals, aborting, replies, faults, stranded>>

\* compact has its summary.
Summarize(c) ==
    /\ At(c, "compaction")
    /\ Build(c, <<"summary", 0>>)
    /\ Go(c, "summarized")
    /\ UNCHANGED <<phase, inputs, signals, aborting, replies, faults, stranded>>

\* moveTo: the leaf is an entry of its own, and the summary follows where it points.
SetLeaf(c, target) ==
    /\ At(c, "branch_summary")
    /\ appending' = [appending EXCEPT ![c] =
                     [what |-> <<"leaf", 0>>, parent |-> leaf, leaf |-> target]]
    /\ op' = [op EXCEPT ![c].at = "moving", ![c].target = target]
    /\ UNCHANGED <<log, leaf, phase, inputs, signals, aborting, replies, faults, stranded>>

SummarizeBranch(c) ==
    /\ At(c, "moved")
    /\ appending' = [appending EXCEPT ![c] =
                     [what |-> <<"summary", 0>>, parent |-> op[c].target, leaf |-> Root]]
    /\ Go(c, "summarized")
    /\ UNCHANGED <<log, leaf, phase, inputs, signals, aborting, replies, faults, stranded>>

MoveLands(c) ==
    /\ op[c].at \in {"moving", "summarized"}
    /\ Land(c)
    /\ Go(c, IF At(c, "moving") THEN "moved" ELSE "told")
    /\ UNCHANGED <<phase, inputs, signals, aborting, replies, faults, stranded>>

\* The finally: cancelled, in vain, or the listeners have heard or thrown.
MoveEnds(c) ==
    /\ op[c].at \in {"compaction", "branch_summary", "moved", "told"}
    /\ op' = [op EXCEPT ![c] = Done] /\ phase' = "idle"
    /\ stranded' = (stranded \/ pending # <<>>)
    /\ UNCHANGED <<session, inputs, signals, aborting, replies, faults>>

MoveFails(c) ==
    /\ op[c].at \in {"moving", "summarized"} /\ Faulty /\ Miss(c)
    /\ op' = [op EXCEPT ![c] = Done] /\ phase' = "idle"
    /\ stranded' = (stranded \/ pending # <<>>)
    /\ UNCHANGED <<inputs, signals, aborting, replies>>

MoveStep(c) ==
    \/ Summarize(c) \/ SummarizeBranch(c) \/ MoveLands(c) \/ MoveEnds(c)
    \/ \E target \in 0 .. Len(log) : SetLeaf(c, target)

-----------------------------------------------------------------------------
(* What the host, listeners, hooks and tools call.                          *)

NextWrite == <<"write", writes + 1>>
NextText == <<"text", texts + 1>>

\* appendMessage, setModel, setThinkingLevel, setTools, setActiveTools.
QueueWrite ==
    /\ Input /\ phase # "idle"
    /\ writes' = writes + 1
    /\ pending' = Append(pending, NextWrite) /\ asked' = Append(asked, NextWrite)
    /\ UNCHANGED <<session, phase, queue, texts, dropped, op, signals, aborting, replies, faults,
                   stranded>>

\* Nobody else writes, unless calls overlap: agent_end's listeners are told
\* when the harness is idle already.
Undisturbed ==
    Overlap \/ (Saved /\ \A c \in Calls : op[c].at \in {"ready", "done", "agentEnd"})

\* Mutant: the session is written at once, although a run goes on.
Mut_WriteNow ==
    /\ Input /\ Saved
    /\ writes' = writes + 1
    /\ Build(NextWrite, NextWrite)
    /\ UNCHANGED <<phase, pending, queue, asked, texts, dropped, op, signals, aborting, replies,
                   faults, stranded>>

WriteNow ==
    /\ Input /\ phase = "idle" /\ Undisturbed
    /\ writes' = writes + 1
    /\ Build(NextWrite, NextWrite)
    /\ UNCHANGED <<phase, pending, queue, asked, texts, dropped, op, signals, aborting, replies,
                   faults, stranded>>

Written(w) ==
    /\ \/ Land(w) /\ UNCHANGED faults
       \/ Miss(w) /\ Faulty
    /\ UNCHANGED <<phase, inputs, op, signals, aborting, replies, stranded>>

\* steer, followUp and nextTurn.
Send(q) ==
    /\ Input /\ (q # "nextTurn" => phase # "idle")
    /\ texts' = texts + 1
    /\ queue' = [queue EXCEPT ![q] = Append(@, NextText)]
    /\ UNCHANGED <<session, phase, pending, writes, asked, dropped, op, signals, aborting,
                   replies, faults, stranded>>

\* The queues are replaced: what is being announced has nowhere to return to.
Abort(a) ==
    /\ Input /\ aborting[a].at = "ready" /\ \A b \in 1 .. a - 1 : aborting[b].at # "ready"
    /\ dropped' = dropped \cup ToSet(queue["steer"]) \cup ToSet(queue["followUp"])
    /\ queue' = [queue EXCEPT !["steer"] = <<>>, !["followUp"] = <<>>]
    /\ op' = [c \in Calls |-> [op[c] EXCEPT !.from = "gone"]]
    /\ aborted' = IF controller = None THEN aborted ELSE aborted \cup {controller}
    /\ aborting' = [aborting EXCEPT ![a].at = "notify"]
    /\ UNCHANGED <<session, phase, pending, writes, asked, texts, controller, runPromise, replies,
                   faults, stranded>>

\* Everybody knows; then waitForIdle.
AbortWaits(a) ==
    /\ aborting[a].at = "notify"
    /\ aborting' = [aborting EXCEPT ![a] =
                    IF runPromise = None THEN [at |-> "done", for |-> None]
                    ELSE [at |-> "waiting", for |-> runPromise]]
    /\ UNCHANGED <<session, phase, inputs, op, signals, replies, faults, stranded>>

AbortEnds(a) ==
    /\ aborting[a].at = "waiting" /\ At(aborting[a].for, "done")
    /\ aborting' = [aborting EXCEPT ![a] = [at |-> "done", for |-> None]]
    /\ UNCHANGED <<session, phase, inputs, op, signals, replies, faults, stranded>>

Next ==
    \/ \E c \in Calls :
        \/ Prompt(c) \/ PromptStep(c) \/ PromptFails(c)
        \/ \E kind \in {"compaction", "branch_summary"} : Move(c, kind)
        \/ MoveStep(c) \/ MoveFails(c)
    \/ QueueWrite \/ WriteNow \/ \E w \in Writes : Written(w)
    \/ \E q \in Queues : Send(q)
    \/ \E a \in Aborts : Abort(a) \/ AbortWaits(a) \/ AbortEnds(a)

Spec == Init /\ [][Next]_vars

\* What was begun goes on: the provider, the tools, the listeners and the disk answer.
Proceed ==
    \/ \E c \in Calls : PromptStep(c) \/ MoveStep(c)
    \/ \E w \in Writes : Written(w)
    \/ \E a \in Aborts : AbortWaits(a) \/ AbortEnds(a)

FairSpec == Spec /\ WF_vars(Proceed)

-----------------------------------------------------------------------------
Stages == Listening \cup Flushing \cup {"ready", "snapshot", "announce", "hook", "say", "poll",
          "pollLast", "stream", "batch", "compaction", "branch_summary", "moving", "moved",
          "summarized", "told", "done"}
Whats == Calls \cup Writes \cup Texts \cup {Reply, Result, <<"summary", 0>>, <<"leaf", 0>>}
Entries == [what : Whats \cup {None}, parent : Nat, leaf : Nat]
Standings == [at : Stages, todo : Seq(Whats), then : Stages, from : Queues \cup {"gone"},
              more : BOOLEAN, ending : BOOLEAN, error : BOOLEAN, failing : BOOLEAN,
              seen : Nat, target : Nat]

Types ==
    /\ log \in Seq(Entries) /\ leaf \in 0 .. Len(log)
    /\ appending \in [Threads -> Entries]
    /\ phase \in {"idle", "turn", "compaction", "branch_summary"}
    /\ pending \in Seq(Writes) /\ asked \in Seq(Writes)
    /\ queue \in [Queues -> Seq(Texts)] /\ dropped \subseteq Texts
    /\ op \in [Calls -> Standings]
    /\ controller \in Calls \cup {None} /\ runPromise \in Calls \cup {None}
    /\ aborted \subseteq Calls
    /\ aborting \in [Aborts -> [at : {"ready", "notify", "waiting", "done"},
                                for : Calls \cup {None}]]
    /\ writes \in 0 .. MaxInputs /\ texts \in 0 .. MaxInputs
    /\ replies \in 0 .. MaxReplies /\ faults \in 0 .. MaxFaults /\ stranded \in BOOLEAN

\* Every variable keeps its type, and a call that has ended or awaits listeners
\* leaves no entry half written.
TypeOK ==
    /\ Types
    /\ \A c \in Calls : op[c].at \in Listening \cup {"ready", "done"} => appending[c] = NoEntry

\* "Pending session writes are always persisted": they are written in the order
\* in which they were queued, each once, and when all calls have returned none is
\* left, unless an operation ended that does not flush them or the disk failed.
WritesPersistInOrder ==
    LET n == Len(asked) - Len(pending)
        SavedAt(k) == {i \in DOMAIN log : log[i].what = asked[k]}
    IN  /\ n \in Nat /\ pending = SubSeq(asked, n + 1, Len(asked))
        /\ \A k \in DOMAIN asked : SavedAt(k) # {} <=> k <= n
        /\ \A k, l \in DOMAIN asked : \A i \in SavedAt(k), j \in SavedAt(l) : i < j => k < l
        /\ Quiet /\ phase = "idle" /\ ~stranded => pending = <<>>

\* Where message m is: queued, in the hands of a run, or in the session.
Places(m) ==
    {<<"queue", q>> : q \in {r \in Queues : Contains(queue[r], m)}}
      \cup {<<"run", c>> : c \in {d \in Calls : Contains(op[d].todo, m)}}
      \cup {<<"log", i>> : i \in {j \in DOMAIN log : log[j].what = m}}

\* A message that was queued is in exactly one of these places, whichever queue it
\* took; in none only when an abort cleared it, or what had drained it failed.
MessagesKept ==
    \A m \in Texts : Cardinality(Places(m)) = IF m[2] > texts \/ m \in dropped THEN 0 ELSE 1

\* Nothing that was saved falls off the branch: each entry follows the leaf that
\* the entry before it left behind.
BranchIsWhole == \A i \in 2 .. Len(log) : log[i].parent = log[i - 1].leaf

\* Nothing is saved behind the back of a run: until its turn ends, and from the
\* next one on, the context that it works with stands for all of the session.
ContextIsSession ==
    \A c \in Calls :
        /\ op[c].at \in {"say", "said", "poll", "pollLast", "drained", "stream", "batch", "turnEnd"}
        /\ ~op[c].failing
        => op[c].seen = Len(log)

\* Calls that interleave at their awaits write to the session one at a time.
SessionIsSerial == BranchIsWhole /\ ContextIsSession

\* Every operation and every abort returns: again and again none is under way and
\* the harness is idle.
OperationsReturn ==
    []<>(/\ Quiet /\ phase = "idle"
         /\ \A a \in Aborts : aborting[a].at \in {"ready", "done"})

=============================================================================
