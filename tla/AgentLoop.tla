----------------------------- MODULE AgentLoop -----------------------------
(***************************************************************************)
(* The agent runtime: class Agent (agent/src/agent.ts) around the loop of  *)
(* agent/src/agent-loop.ts.                                                *)
(*                                                                         *)
(* The runtime is single threaded.  An action is what the code does from   *)
(* one await to the next; at every await the host may steer, queue a       *)
(* follow-up, abort or clear, tools may settle, and whatever is awaited    *)
(* may throw.  An emission is one action: the reducer of processEvents     *)
(* changes the state, then the listeners run until the next action of the  *)
(* loop.                                                                   *)
(*                                                                         *)
(* User messages are numbered in the order the host hands them over.  The  *)
(* tool calls of the b-th assistant message that has any are <<b, 1>>,     *)
(* <<b, 2>>, ...                                                           *)
(***************************************************************************)
EXTENDS Naturals, Sequences, FiniteSets

CONSTANTS
    MaxMsgs,        \* bound: user messages the host sends
    MaxRuns,        \* bound: runs the host starts
    MaxBatches,     \* bound: assistant messages with tool calls
    MaxCalls,       \* bound: tool calls in one assistant message
    SteeringMode,   \* "all" or "one-at-a-time"
    FollowUpMode,   \* "all" or "one-at-a-time"
    ListenersFail   \* TRUE: an awaited listener or hook may throw

ASSUME BoundAssumption ==
    /\ MaxMsgs \in Nat /\ MaxRuns \in Nat /\ MaxBatches \in Nat /\ MaxCalls \in Nat
    /\ SteeringMode \in {"all", "one-at-a-time"}
    /\ FollowUpMode \in {"all", "one-at-a-time"}
    /\ ListenersFail \in BOOLEAN

Msgs == 1 .. MaxMsgs
Batches == 1 .. MaxBatches
Calls == Batches \X (1 .. MaxCalls)

VARIABLES
    pc,          \* where the active run is, or "idle" when there is none (activeRun)
    transcript,  \* _state.messages
    context,     \* currentContext.messages of the loop
    steering,    \* steeringQueue
    followUps,   \* followUpQueue
    todo,        \* messages of the run still to be emitted: prompts, pendingMessages
    aborted,     \* the abort signal of the active run
    skipPoll,    \* skipInitialSteeringPoll
    batch,       \* number of assistant messages with tool calls so far
    size,        \* tool calls of the current batch
    call,        \* the call of the batch the loop is at
    more,        \* hasMoreToolCalls
    tool,        \* tool[c]: how far call c has come
    pending,     \* _state.pendingToolCalls
    sent,        \* sent[m]: how the host handed m over, or "no" (history)
    gone,        \* messages cleared, or in flight when a run failed (history)
    runs,        \* runs started (history)
    base,        \* value of batch when the active run started (history)
    ended,       \* agent_end was emitted in the active run (history)
    late         \* an event was delivered after agent_end of its run (history)

queueVars == <<steering, followUps, sent>>
batchVars == <<batch, size, call, more>>
vars == <<pc, transcript, context, steering, followUps, todo, aborted, skipPoll, batch, size,
          call, more, tool, pending, sent, gone, runs, base, ended, late>>

User(m) == [role |-> "user", msg |-> m]
Assistant(stop, b, n) == [role |-> "assistant", stop |-> stop, batch |-> b, calls |-> n]
Result(c) == [role |-> "toolResult", call |-> c]

Stops == {"stop", "toolUse", "length", "error", "aborted"}

LastOf(s) == s[Len(s)]

Init ==
    /\ pc = "idle"
    /\ transcript = <<>> /\ context = <<>>
    /\ steering = <<>> /\ followUps = <<>> /\ todo = <<>>
    /\ aborted = FALSE /\ skipPoll = FALSE
    /\ batch = 0 /\ size = 0 /\ call = 0 /\ more = FALSE
    /\ tool = [c \in Calls |-> "none"]
    /\ pending = {}
    /\ sent = [m \in Msgs |-> "no"]
    /\ gone = {} /\ runs = 0 /\ base = 0
    /\ ended = FALSE /\ late = FALSE

-----------------------------------------------------------------------------
(* The queues and the host.                                                 *)

\* PendingMessageQueue.drain: the messages handed out, and those that stay.
Drained(mode, q) == IF mode = "all" \/ q = <<>> THEN q ELSE <<Head(q)>>
Rest(mode, q) == IF mode = "all" \/ q = <<>> THEN <<>> ELSE Tail(q)

\* The next message the host hands over.
Fresh(m) == sent[m] = "no" /\ \A k \in 1 .. m - 1 : sent[k] # "no"

\* steer(message): at any time, whether or not a run is active.
Steer(m) ==
    /\ Fresh(m)
    /\ steering' = Append(steering, m)
    /\ sent' = [sent EXCEPT ![m] = "steer"]
    /\ UNCHANGED <<pc, transcript, context, followUps, todo, aborted, skipPoll, batchVars,
                   tool, pending, gone, runs, base, ended, late>>

\* followUp(message).
FollowUp(m) ==
    /\ Fresh(m)
    /\ followUps' = Append(followUps, m)
    /\ sent' = [sent EXCEPT ![m] = "followUp"]
    /\ UNCHANGED <<pc, transcript, context, steering, todo, aborted, skipPoll, batchVars,
                   tool, pending, gone, runs, base, ended, late>>

Elements(s) == {s[i] : i \in DOMAIN s}

\* clearSteeringQueue, clearFollowUpQueue and clearAllQueues.
ClearQueues ==
    /\ steering \o followUps # <<>>
    /\ steering' \in {steering, <<>>}
    /\ followUps' \in {followUps, <<>>}
    /\ gone' = gone \cup ((Elements(steering) \cup Elements(followUps))
                            \ (Elements(steering') \cup Elements(followUps')))
    /\ UNCHANGED <<pc, transcript, context, todo, aborted, skipPoll, batchVars, tool, pending,
                   sent, runs, base, ended, late>>

\* abort(): the signal of the active run.
Abort ==
    /\ pc # "idle" /\ ~aborted
    /\ aborted' = TRUE
    /\ UNCHANGED <<pc, transcript, context, queueVars, todo, skipPoll, batchVars, tool, pending,
                   gone, runs, base, ended, late>>

\* reset(), called between runs.
Reset ==
    /\ pc = "idle"
    /\ transcript' = <<>> /\ steering' = <<>> /\ followUps' = <<>> /\ pending' = {}
    /\ gone' = {m \in Msgs : sent[m] # "no"}
    /\ UNCHANGED <<pc, context, todo, aborted, skipPoll, batchVars, tool, sent, runs, base, ended,
                   late>>

\* The host takes a failed reply off state.messages, to retry with continue().
DropFailedReply ==
    /\ pc = "idle" /\ transcript # <<>>
    /\ LastOf(transcript).role = "assistant" /\ LastOf(transcript).stop = "error"
    /\ transcript' = SubSeq(transcript, 1, Len(transcript) - 1)
    /\ UNCHANGED <<pc, context, queueVars, todo, aborted, skipPoll, batchVars, tool, pending,
                   gone, runs, base, ended, late>>

\* runWithLifecycle up to its executor: a new active run that emits msgs first.
StartRun(msgs, skip) ==
    /\ pc = "idle" /\ runs < MaxRuns
    /\ pc' = "prompts"
    /\ runs' = runs + 1 /\ base' = batch
    /\ todo' = msgs
    /\ context' = transcript \o [i \in DOMAIN msgs |-> User(msgs[i])]
    /\ skipPoll' = skip
    /\ aborted' = FALSE /\ ended' = FALSE
    /\ more' = FALSE
    /\ UNCHANGED <<transcript, batch, size, call, tool, pending, gone, late>>

\* prompt(message); it throws while a run is active.
Prompt(m) ==
    /\ Fresh(m)
    /\ StartRun(<<m>>, FALSE)
    /\ sent' = [sent EXCEPT ![m] = "prompt"]
    /\ UNCHANGED <<steering, followUps>>

\* continue() after a user message or a tool result.
ContinueTurn ==
    /\ transcript # <<>> /\ LastOf(transcript).role # "assistant"
    /\ StartRun(<<>>, FALSE)
    /\ UNCHANGED queueVars

\* continue() after an assistant message: queued steering first, otherwise
\* queued follow-ups, otherwise it throws.
ContinueQueued ==
    /\ transcript # <<>> /\ LastOf(transcript).role = "assistant"
    /\ \/ /\ steering # <<>>
          /\ StartRun(Drained(SteeringMode, steering), TRUE)
          /\ steering' = Rest(SteeringMode, steering)
          /\ UNCHANGED followUps
       \/ /\ steering = <<>> /\ followUps # <<>>
          /\ StartRun(Drained(FollowUpMode, followUps), FALSE)
          /\ followUps' = Rest(FollowUpMode, followUps)
          /\ UNCHANGED steering
    /\ UNCHANGED sent

Host ==
    \/ \E m \in Msgs : Steer(m) \/ FollowUp(m) \/ Prompt(m)
    \/ ClearQueues \/ Abort \/ Reset \/ DropFailedReply
    \/ ContinueTurn \/ ContinueQueued

-----------------------------------------------------------------------------
(* Turns.                                                                   *)

\* processEvents for the message_end of entry: the reducer appends it.
EmitMessage(entry) ==
    /\ transcript' = Append(transcript, entry)
    /\ late' = (late \/ ended)

\* processEvents for an event that changes nothing the model keeps.
EmitEvent == late' = (late \/ ended)

\* runAgentLoop emits the prompts, which its context already holds.
EmitPrompt ==
    /\ pc = "prompts" /\ todo # <<>>
    /\ EmitMessage(User(Head(todo)))
    /\ todo' = Tail(todo)
    /\ UNCHANGED <<pc, context, queueVars, aborted, skipPoll, batchVars, tool, pending, gone,
                   runs, base, ended>>

\* runLoop starts: what the user typed meanwhile is pending at once.
InitialPoll ==
    /\ pc = "prompts" /\ todo = <<>>
    /\ pc' = "inject"
    /\ IF skipPoll
       THEN UNCHANGED <<todo, steering>>
       ELSE /\ todo' = Drained(SteeringMode, steering)
            /\ steering' = Rest(SteeringMode, steering)
    /\ skipPoll' = FALSE
    /\ UNCHANGED <<transcript, context, followUps, sent, aborted, batchVars, tool, pending, gone,
                   runs, base, ended, late>>

\* A pending message is injected before the next reply.
Inject ==
    /\ pc = "inject" /\ todo # <<>>
    /\ EmitMessage(User(Head(todo)))
    /\ context' = Append(context, User(Head(todo)))
    /\ todo' = Tail(todo)
    /\ UNCHANGED <<pc, queueVars, aborted, skipPoll, batchVars, tool, pending, gone, runs, base,
                   ended>>

\* streamAssistantResponse sends the context to the provider.
Request ==
    /\ pc = "inject" /\ todo = <<>>
    /\ pc' = "stream"
    /\ UNCHANGED <<transcript, context, queueVars, todo, aborted, skipPoll, batchVars, tool,
                   pending, gone, runs, base, ended, late>>

\* The provider's reply is complete: stop reason stop, n tool calls.  A reply
\* that fails is "aborted" if the signal is raised and "error" otherwise; one
\* that is complete may still arrive under a raised signal.
Reply(stop, n) ==
    /\ pc = "stream"
    /\ stop = "aborted" => aborted
    /\ stop = "error" => ~aborted
    /\ stop = "toolUse" => n > 0
    /\ stop = "stop" => n = 0
    /\ n > 0 => batch < MaxBatches
    /\ batch' = IF n > 0 THEN batch + 1 ELSE batch
    /\ size' = n /\ call' = 0 /\ more' = FALSE
    /\ LET entry == Assistant(stop, IF n > 0 THEN batch' ELSE 0, n)
       IN  EmitMessage(entry) /\ context' = Append(context, entry)
    /\ pc' \in IF stop \in {"error", "aborted"} THEN {"failedTurn"}
              ELSE IF n = 0 THEN {"turn"}
              ELSE IF stop = "length" THEN {"truncated"}
              ELSE {"sequential", "parallel"}
    /\ UNCHANGED <<queueVars, todo, aborted, skipPoll, tool, pending, gone, runs, base, ended>>

\* turn_end; after a failed reply the run only has agent_end left.
TurnEnd ==
    /\ pc \in {"turn", "failedTurn"}
    /\ pc' = IF pc = "turn" THEN "afterTurn" ELSE "stop"
    /\ EmitEvent
    /\ UNCHANGED <<transcript, context, queueVars, todo, aborted, skipPoll, batchVars, tool,
                   pending, gone, runs, base, ended>>

\* shouldStopAfterTurn is false: poll the steering queue, and go on with
\* another turn if tool results or steering messages call for one.
PollSteering ==
    /\ pc = "afterTurn"
    /\ todo' = Drained(SteeringMode, steering)
    /\ steering' = Rest(SteeringMode, steering)
    /\ pc' = IF more \/ todo' # <<>> THEN "inject" ELSE "pollFollowUps"
    /\ UNCHANGED <<transcript, context, followUps, sent, aborted, skipPoll, batchVars, tool,
                   pending, gone, runs, base, ended, late>>

\* The run would stop here: poll the follow-up queue.
PollFollowUps ==
    /\ pc = "pollFollowUps"
    /\ todo' = Drained(FollowUpMode, followUps)
    /\ followUps' = Rest(FollowUpMode, followUps)
    /\ pc' = IF todo' # <<>> THEN "inject" ELSE "stop"
    /\ UNCHANGED <<transcript, context, steering, sent, aborted, skipPoll, batchVars, tool,
                   pending, gone, runs, base, ended, late>>

\* agent_end: nothing is left, the reply failed, or shouldStopAfterTurn.
AgentEnd ==
    /\ pc \in {"stop", "afterTurn"}
    /\ pc' = "agentEnd"
    /\ ended' = TRUE
    /\ EmitEvent
    /\ UNCHANGED <<transcript, context, queueVars, todo, aborted, skipPoll, batchVars, tool,
                   pending, gone, runs, base>>

\* finishRun, once the listeners of agent_end are done, or in the finally of
\* runWithLifecycle when a listener throws while a failure is reported.
FinishRun ==
    /\ \/ pc \in {"agentEnd", "failEnd"}
       \/ ListenersFail /\ pc \in {"failing", "failMessage"}
    /\ pc' = "idle"
    /\ pending' = {}
    /\ context' = <<>> /\ aborted' = FALSE /\ ended' = FALSE
    /\ UNCHANGED <<transcript, queueVars, todo, skipPoll, batchVars, tool, gone, runs, base, late>>

-----------------------------------------------------------------------------
(* Tool batches.                                                            *)

Current == <<batch, call>>
InBatch(c) == c[1] = batch

\* Mutant: a prepared call does not let the loop go on to the next one.
Mut_BetweenCallsEnded ==
    call > 0 => tool[Current] \in IF pc = "parallel" THEN {"ended"} ELSE {"reported"}

\* The loop over the calls is between two of them.
BetweenCalls ==
    call > 0 => tool[Current] \in IF pc = "parallel" THEN {"prepared", "ended"} ELSE {"reported"}

\* if (signal?.aborted) break, after a call of either kind of batch.
Broken == aborted /\ call > 0 /\ pc # "truncated"

\* Mutant: one call too many.
Mut_StartCallPastEnd ==
    /\ pc \in {"sequential", "parallel", "truncated"}
    /\ BetweenCalls /\ ~Broken /\ call <= size
    /\ call' = call + 1
    /\ tool' = [tool EXCEPT ![<<batch, call + 1>>] = "started"]
    /\ pending' = pending \cup {<<batch, call + 1>>}
    /\ EmitEvent
    /\ UNCHANGED <<pc, transcript, context, queueVars, todo, aborted, skipPoll, batch, size, more,
                   gone, runs, base, ended>>

\* tool_execution_start of the next call.
StartCall ==
    /\ pc \in {"sequential", "parallel", "truncated"}
    /\ BetweenCalls /\ ~Broken /\ call < size
    /\ call' = call + 1
    /\ tool' = [tool EXCEPT ![<<batch, call + 1>>] = "started"]
    /\ pending' = pending \cup {<<batch, call + 1>>}
    /\ EmitEvent
    /\ UNCHANGED <<pc, transcript, context, queueVars, todo, aborted, skipPoll, batch, size, more,
                   gone, runs, base, ended>>

\* prepareToolCall: an unknown tool, invalid arguments, a hook that blocks or
\* throws, or a raised signal give a result at once; otherwise the call is
\* executed (sequential) or kept for later (parallel).
PrepareCall ==
    /\ pc \in {"sequential", "parallel"} /\ call > 0
    /\ tool[Current] = "started"
    /\ \/ /\ tool' = [tool EXCEPT ![Current] = "settled"]
          /\ more' = TRUE
       \/ /\ ~aborted
          /\ tool' = [tool EXCEPT ![Current] =
                        IF pc = "sequential" THEN "executing" ELSE "prepared"]
          /\ UNCHANGED more
    /\ UNCHANGED <<pc, transcript, context, queueVars, todo, aborted, skipPoll, batch, size, call,
                   pending, gone, runs, base, ended, late>>

\* failToolCallsFromTruncatedMessage: an error result, the call never runs.
FailTruncatedCall ==
    /\ pc = "truncated" /\ call > 0
    /\ tool[Current] = "started"
    /\ tool' = [tool EXCEPT ![Current] = "ended"]
    /\ pending' = pending \ {Current}
    /\ more' = TRUE
    /\ EmitEvent
    /\ UNCHANGED <<pc, transcript, context, queueVars, todo, aborted, skipPoll, batch, size, call,
                   gone, runs, base, ended>>

\* Mutant: the calls are started and not awaited.
Mut_LaunchWithoutAwait ==
    /\ pc = "parallel" /\ call > 0
    /\ BetweenCalls /\ (Broken \/ call = size)
    /\ pc' = "turn"
    /\ tool' = [c \in Calls |->
                   IF InBatch(c) /\ tool[c] = "prepared" THEN "executing" ELSE tool[c]]
    /\ UNCHANGED <<transcript, context, queueVars, todo, aborted, skipPoll, batchVars, pending,
                   gone, runs, base, ended, late>>

\* The prepared calls of a parallel batch all start executing.  Calls that had
\* their result at once are "refused" from here on.
Launch ==
    /\ pc = "parallel" /\ call > 0
    /\ BetweenCalls /\ (Broken \/ call = size)
    /\ pc' = "awaiting"
    /\ tool' = [c \in Calls |->
                   IF InBatch(c) /\ tool[c] = "prepared" THEN "executing"
                   ELSE IF InBatch(c) /\ tool[c] = "ended" THEN "refused"
                   ELSE tool[c]]
    /\ UNCHANGED <<transcript, context, queueVars, todo, aborted, skipPoll, batchVars, pending,
                   gone, runs, base, ended, late>>

\* The run is still waiting for the call: it has not failed meanwhile.
Awaited(c) == pc \in {"sequential", "awaiting"} /\ InBatch(c)

\* tool.execute and afterToolCall settle, with or without the terminate hint.
SettleCall(c) ==
    /\ tool[c] = "executing"
    /\ tool' = [tool EXCEPT ![c] = "settled"]
    /\ \/ UNCHANGED more
       \/ more' = (more \/ Awaited(c))
    /\ UNCHANGED <<pc, transcript, context, queueVars, todo, aborted, skipPoll, batch, size, call,
                   pending, gone, runs, base, ended, late>>

\* Mutant: the result message is emitted with the end event, in completion order.
Mut_EndCallReports(c) ==
    /\ tool[c] = "settled"
    /\ tool' = [tool EXCEPT ![c] = "ended"]
    /\ pending' = pending \ {c}
    /\ IF pc # "idle" THEN EmitMessage(Result(c)) ELSE UNCHANGED <<transcript, late>>
    /\ UNCHANGED <<pc, context, queueVars, todo, aborted, skipPoll, batchVars, gone, runs, base,
                   ended>>

\* tool_execution_end.  Without an active run processEvents throws after the
\* reducer: no listener sees the event.
EndCall(c) ==
    /\ tool[c] = "settled"
    /\ tool' = [tool EXCEPT ![c] = "ended"]
    /\ pending' = pending \ {c}
    /\ late' = (late \/ (pc # "idle" /\ (ended \/ c[1] <= base)))
    /\ UNCHANGED <<pc, transcript, context, queueVars, todo, aborted, skipPoll, batchVars, gone,
                   runs, base, ended>>

\* The result message of a sequential or truncated call.
ReportCall ==
    /\ pc \in {"sequential", "truncated"} /\ call > 0
    /\ tool[Current] = "ended"
    /\ tool' = [tool EXCEPT ![Current] = "reported"]
    /\ EmitMessage(Result(Current))
    /\ UNCHANGED <<pc, context, queueVars, todo, aborted, skipPoll, batchVars, pending, gone, runs,
                   base, ended>>

\* Promise.all has resolved: the result messages of a parallel batch, in
\* source order.
ReportInOrder(i) ==
    /\ pc = "awaiting"
    /\ i <= call /\ tool[<<batch, i>>] # "reported"
    /\ \A c \in Calls : InBatch(c) => tool[c] \notin {"executing", "settled"}
    /\ \A k \in 1 .. i - 1 : tool[<<batch, k>>] = "reported"
    /\ tool' = [tool EXCEPT ![<<batch, i>>] = "reported"]
    /\ EmitMessage(Result(<<batch, i>>))
    /\ UNCHANGED <<pc, context, queueVars, todo, aborted, skipPoll, batchVars, pending, gone, runs,
                   base, ended>>

\* Mutant: a parallel batch returns with its first result (Promise.race).
Mut_FinishBatchFirst ==
    /\ call > 0
    /\ \/ pc \in {"sequential", "truncated"} /\ BetweenCalls /\ (Broken \/ call = size)
       \/ pc = "awaiting" /\ \E i \in 1 .. call : tool[<<batch, i>>] = "reported"
    /\ pc' = "turn"
    /\ context' = context \o [i \in 1 .. call |-> Result(<<batch, i>>)]
    /\ UNCHANGED <<transcript, queueVars, todo, aborted, skipPoll, batchVars, tool, pending, gone,
                   runs, base, ended, late>>

\* The batch returns its messages, which runLoop adds to its context.
FinishBatch ==
    /\ call > 0
    /\ \/ pc \in {"sequential", "truncated"} /\ BetweenCalls /\ (Broken \/ call = size)
       \/ pc = "awaiting" /\ \A i \in 1 .. call : tool[<<batch, i>>] = "reported"
    /\ pc' = "turn"
    /\ context' = context \o [i \in 1 .. call |-> Result(<<batch, i>>)]
    /\ UNCHANGED <<transcript, queueVars, todo, aborted, skipPoll, batchVars, tool, pending, gone,
                   runs, base, ended, late>>

-----------------------------------------------------------------------------
(* Failures.                                                                *)

\* Where something the run awaits may throw: the request at any time, listeners
\* and hooks when they may fail.  While a sequential call executes its failure
\* is caught; a parallel batch rejects with the first call that does.
MayThrow ==
    \/ pc = "stream"
    \/ ListenersFail /\ pc \in {"prompts", "inject", "turn", "failedTurn", "afterTurn", "stop",
                                  "agentEnd", "parallel", "truncated"}
    \/ ListenersFail /\ pc = "sequential" /\ (call > 0 => tool[Current] # "executing")
    \/ /\ ListenersFail /\ pc = "awaiting"
       /\ \/ \E c \in Calls : InBatch(c) /\ tool[c] \in {"settled", "ended", "reported"}
          \/ \A c \in Calls : InBatch(c) => tool[c] # "executing"

\* Mutant: the messages in the failed run's hands are kept for the next one.
Mut_FailKeepsTodo ==
    /\ MayThrow
    /\ pc' = "failing"
    /\ gone' = gone \cup Elements(todo)
    /\ skipPoll' = FALSE
    /\ tool' = [c \in Calls |-> IF InBatch(c) /\ tool[c] = "settled" THEN "dropped" ELSE tool[c]]
    /\ UNCHANGED <<transcript, context, queueVars, todo, aborted, batchVars, pending, runs, base,
                   ended, late>>

\* The run's executor rejects.  Messages taken off a queue and not yet emitted
\* are lost; a result at hand is dropped, except that the other calls of a
\* launched parallel batch go on by themselves.
Fail ==
    /\ MayThrow
    /\ pc' = "failing"
    /\ todo' = <<>>
    /\ gone' = gone \cup Elements(todo)
    /\ skipPoll' = FALSE
    /\ tool' = IF pc \in {"sequential", "parallel", "truncated"}
               THEN [c \in Calls |->
                       IF InBatch(c) /\ tool[c] = "settled" THEN "dropped" ELSE tool[c]]
               ELSE tool
    /\ UNCHANGED <<transcript, context, queueVars, aborted, batchVars, pending, runs, base, ended,
                   late>>

\* handleRunFailure: a failure message, ...
FailMessage ==
    /\ pc = "failing"
    /\ pc' = "failMessage"
    /\ EmitMessage(Assistant(IF aborted THEN "aborted" ELSE "error", 0, 0))
    /\ UNCHANGED <<context, queueVars, todo, aborted, skipPoll, batchVars, tool, pending, gone,
                   runs, base, ended>>

\* ... then turn_end and agent_end.
FailEnd ==
    /\ pc = "failMessage"
    /\ pc' = "failEnd"
    /\ ended' = TRUE
    /\ EmitEvent
    /\ UNCHANGED <<transcript, context, queueVars, todo, aborted, skipPoll, batchVars, tool,
                   pending, gone, runs, base>>

Turn ==
    \/ EmitPrompt \/ InitialPoll \/ Inject \/ Request
    \/ \E stop \in Stops, n \in 0 .. MaxCalls : Reply(stop, n)
    \/ TurnEnd \/ PollSteering \/ PollFollowUps \/ AgentEnd \/ FinishRun

Batch ==
    \/ StartCall \/ PrepareCall \/ FailTruncatedCall \/ Launch \/ ReportCall \/ FinishBatch
    \/ \E i \in 1 .. MaxCalls : ReportInOrder(i)

Failure == Fail \/ FailMessage \/ FailEnd

ToolStep(c) == SettleCall(c) \/ EndCall(c)

Next == Host \/ Turn \/ Batch \/ Failure \/ \E c \in Calls : ToolStep(c)

\* Continuations always run, and providers, tools, hooks and listeners settle;
\* nothing has to fail.
Fairness ==
    /\ WF_vars(Turn \/ Batch \/ FailMessage \/ FailEnd)
    /\ \A c \in Calls : WF_vars(ToolStep(c))

Spec == Init /\ [][Next]_vars /\ Fairness

-----------------------------------------------------------------------------
Statuses == {"none", "started", "prepared", "executing", "settled", "ended", "refused", "reported",
             "dropped"}

Entries ==
    [role : {"user"}, msg : Msgs]
      \cup [role : {"assistant"}, stop : Stops, batch : 0 .. MaxBatches, calls : 0 .. MaxCalls]
      \cup [role : {"toolResult"}, call : Calls]

DataTypes ==
    /\ pc \in {"idle", "prompts", "inject", "stream", "turn", "failedTurn", "afterTurn",
               "pollFollowUps", "stop", "agentEnd", "sequential", "parallel", "truncated",
               "awaiting", "failing", "failMessage", "failEnd"}
    /\ transcript \in Seq(Entries) /\ context \in Seq(Entries)
    /\ steering \in Seq(Msgs) /\ followUps \in Seq(Msgs) /\ todo \in Seq(Msgs)
    /\ sent \in [Msgs -> {"no", "prompt", "steer", "followUp"}]
    /\ gone \subseteq Msgs
    /\ batch \in 0 .. MaxBatches /\ base \in 0 .. MaxBatches
    /\ size \in 0 .. MaxCalls /\ call \in 0 .. MaxCalls
    /\ tool \in [Calls -> Statuses]
    /\ pending \subseteq Calls
    /\ runs \in 0 .. MaxRuns

FlagTypes ==
    /\ aborted \in BOOLEAN /\ skipPoll \in BOOLEAN /\ more \in BOOLEAN
    /\ ended \in BOOLEAN /\ late \in BOOLEAN

\* Every variable keeps its type.
TypeOK == DataTypes /\ FlagTypes

\* How often message m occurs in the transcript, and in a queue.
InTranscript(m) == Cardinality({i \in DOMAIN transcript : transcript[i] = User(m)})
InQueue(m, q) == Cardinality({i \in DOMAIN q : q[i] = m})

\* A message the host handed over is in exactly one place: a queue, the run's
\* hands or the transcript.  It is in none only after a clear or reset, or when
\* the run that had drained it failed before emitting it.
MessagesConserved ==
    \A m \in Msgs :
        LET n == InTranscript(m) + InQueue(m, steering) + InQueue(m, followUps) + InQueue(m, todo)
        IN  IF sent[m] = "no" \/ m \in gone THEN n = 0 ELSE n = 1

\* Messages of one queue enter the transcript in the order they were queued.
QueueOrder ==
    \A i, j \in DOMAIN transcript :
        /\ i < j
        /\ transcript[i].role = "user" /\ transcript[j].role = "user"
        /\ sent[transcript[i].msg] = sent[transcript[j].msg]
        => transcript[i].msg < transcript[j].msg

\* The result at j has the message that made its call, and in between only
\* the results of that message's earlier calls.
Answers(t, j) ==
    LET c == t[j].call
        i == j - c[2]
    IN  /\ i \in DOMAIN t
        /\ t[i].role = "assistant" /\ t[i].batch = c[1] /\ c[2] <= t[i].calls
        /\ \A k \in i + 1 .. j : t[k] = Result(<<c[1], k - i>>)

ResultsFollow(t) == \A j \in DOMAIN t : t[j].role = "toolResult" => Answers(t, j)

\* A tool result stands behind the message that made the call, separated from
\* it only by the results of earlier calls of that message: neither the order
\* of completion nor steering, an abort or a failure can tear a batch apart.
ResultsFollowTheirCall == ResultsFollow(transcript)

\* The loop keeps its own copy of the conversation and the agent another: each
\* request is made from a context that equals the agent's transcript.
ContextIsTranscript == pc = "stream" => context = transcript

\* Within a run every request is made from the agent's transcript, and none is
\* made while a tool call of an earlier reply lacks its result, unless the run
\* was aborted.
RequestsAreAnswered ==
    /\ ContextIsTranscript
    /\ pc = "stream" /\ ~aborted =>
           \A i \in DOMAIN transcript :
               transcript[i].role = "assistant" /\ transcript[i].batch > base =>
                   \A k \in 1 .. transcript[i].calls :
                       Result(<<transcript[i].batch, k>>) \in Elements(transcript)

\* What a provider is asked is the conversation as it was meant: no answer is
\* missing, and no queued message has overtaken another.
RequestsAreFaithful == RequestsAreAnswered /\ QueueOrder

\* "agent_end is the final emitted event for a run": no listener hears of a run
\* after its agent_end.
AgentEndIsFinal == ~late

\* Without an active run no tool is executing: waitForIdle waits for the tools.
QuietWhenIdle == pc = "idle" => \A c \in Calls : tool[c] \notin {"executing", "settled"}

\* A run ends once and leaves nothing behind: neither an event after its
\* agent_end nor a tool that executes.
RunsEndCleanly == AgentEndIsFinal /\ QuietWhenIdle

\* A run settles, whatever is queued, aborted or fails meanwhile.
RunsSettle == pc # "idle" ~> pc = "idle"

=============================================================================
