---------------------------- MODULE AgentSession ----------------------------
(***************************************************************************)
(* class AgentSession (coding-agent/src/core/agent-session.ts): what goes  *)
(* on around the runs of the agent.  prompt checks, compacts if need be    *)
(* and starts a run; after the run it retries, compacts or continues until *)
(* nothing is left to do and then reports that the session has settled.    *)
(* Meanwhile the host queues messages, aborts, compacts by hand and runs   *)
(* bash commands.                                                          *)
(*                                                                         *)
(* The agent is seen from outside: its run starts with some messages, asks *)
(* the provider, executes batches and polls the queues (AgentLoop has the  *)
(* details).  Messages are numbered in the order in which they end.        *)
(***************************************************************************)
EXTENDS Naturals, Sequences, SequencesExt, FiniteSetsExt

CONSTANTS
    Prompts,      \* calls of prompt, and of sendCustomMessage with triggerTurn
    Triggers,     \* the latter
    Texts,        \* messages queued by steer and followUp
    Customs,      \* messages of extensions (sendCustomMessage)
    Aborts,       \* calls of abort
    Answers,      \* the ways in which the provider may end a message
    MaxRetries,   \* maxRetries
    MaxHost,      \* bound: calls of the host and of extensions besides Prompts
    MaxSaid,      \* bound: beyond it the provider ends its turn, nobody compacts
    Overlap       \* TRUE: prompts do not wait for each other or for a compaction

AllAnswers == {"answer", "calls", "failed", "fatal", "overflow", "length"}

ASSUME SessionAssumption ==
    /\ MaxRetries \in Nat /\ MaxHost \in Nat /\ MaxSaid \in Nat
    /\ Overlap \in BOOLEAN /\ Triggers \subseteq Prompts
    /\ Prompts \cap (Texts \cup Customs) = {} /\ Texts \cap Customs = {}
    /\ "answer" \in Answers /\ Answers \subseteq AllAnswers

VARIABLES
    said,           \* every message so far: its kind and what it refers to
    context,        \* agent.state.messages
    saved,          \* the branch of the session
    connected,      \* _unsubscribeAgent is set: events reach the session
    missed,         \* messages that ended while it was not (history)
    steering,       \* the agent's steering queue
    followUp,       \* the agent's follow-up queue
    shown,          \* [steer: _steeringMessages, follow: _followUpMessages]
    run,            \* the agent's run: where it stands, its prompt, its abort signal
    injecting,      \* pendingMessages of the loop
    active,         \* _isAgentRunActive
    lastAssistant,  \* _lastAssistantMessage, 0 if undefined
    retries,        \* _retryAttempt
    overflowTried,  \* _overflowRecoveryAttempted
    pc,             \* where each prompt stands
    work,           \* what each prompt works on: a message, a compaction
    sleeper,        \* the prompts whose sleep _retryAbortController aborts
    compactor,      \* the prompts whose summary _autoCompactionAbortController aborts
    cancelled,      \* the prompts whose sleep or summary was aborted
    manual,         \* compact(): where it stands, what it keeps, whether aborted
    aborting,       \* where each call of abort stands
    sent,           \* messages sent so far (history)
    late,           \* messages queued when nobody looked for them any more (history)
    pendingBash,    \* number of _pendingBashMessages
    hostCalls       \* calls of the host so far (bound)

messages == <<said, context, saved, missed>>
queues == <<steering, followUp, shown, sent, late>>
control == <<lastAssistant, retries, overflowTried>>
stages == <<pc, work, sleeper, compactor, cancelled>>
calls == <<manual, aborting>>
vars == <<messages, connected, queues, run, injecting, active, control, stages, calls,
          pendingBash, hostCalls>>

Assistant == AllAnswers \cup {"aborted"}
Errors == {"failed", "fatal", "overflow"}    \* stopReason "error"
Message(kind, ref) == [kind |-> kind, ref |-> ref]
NoWork == [msg |-> 0, kept |-> 0, retry |-> FALSE]
NoRun == [at |-> "idle", aborted |-> FALSE]

Init ==
    /\ said = <<>> /\ context = <<>> /\ saved = <<>> /\ missed = {}
    /\ connected = TRUE
    /\ steering = <<>> /\ followUp = <<>> /\ sent = {} /\ late = {}
    /\ shown = [steer |-> <<>>, follow |-> <<>>]
    /\ run = NoRun /\ injecting = <<>>
    /\ active = FALSE
    /\ lastAssistant = 0 /\ retries = 0 /\ overflowTried = FALSE
    /\ pc = [p \in Prompts |-> "ready"]
    /\ work = [p \in Prompts |-> NoWork]
    /\ sleeper = {} /\ compactor = {} /\ cancelled = {}
    /\ manual = [at |-> "ready", kept |-> 0, aborted |-> FALSE]
    /\ aborting = [a \in Aborts |-> "ready"]
    /\ pendingBash = 0 /\ hostCalls = 0

-----------------------------------------------------------------------------
(* Messages.                                                                *)

Kind(i) == said[i].kind
EndsWith(list, kinds) == list # <<>> /\ Kind(Last(list)) \in kinds
HasQueued == steering # <<>> \/ followUp # <<>>

\* message_end: the agent adds the message to its state, the session saves it.
Say(kind, ref) ==
    LET id == Len(said) + 1
    IN  /\ said' = Append(said, Message(kind, ref))
        /\ context' = Append(context, id)
        /\ IF connected
           THEN saved' = Append(saved, id) /\ UNCHANGED missed
           ELSE missed' = missed \cup {id} /\ UNCHANGED saved

\* Messages that the session puts into the state and the file itself.
NewIds(n) == [i \in 1 .. n |-> Len(said) + i]
Record(kind, n) ==
    /\ said' = said \o [i \in 1 .. n |-> Message(kind, 0)]
    /\ context' = context \o NewIds(n)
    /\ saved' = saved \o NewIds(n)
    /\ UNCHANGED missed

-----------------------------------------------------------------------------
(* Compaction; SessionTree has its details.                                 *)

Summaries(log, list) == {i \in DOMAIN list : log[list[i]].kind = "summary"}
PlaceOf(list, id) == CHOOSE i \in DOMAIN list : list[i] = id

\* The messages that buildSessionContext makes of a branch: the latest summary,
\* what it keeps (an earlier summary included) and what came later.
Rebuilt(log, list) ==
    LET s == Max(Summaries(log, list))
        k == PlaceOf(list, log[list[s]].ref)
    IN  IF Summaries(log, list) = {} THEN list
        ELSE <<list[s]>> \o SubSeq(list, k, s - 1) \o SubSeq(list, s + 1, Len(list))

\* prepareCompaction: what a compaction may keep first, none if there is
\* nothing to summarize.
FirstKept ==
    LET summaries == Summaries(said, saved)
        boundary == IF summaries = {} THEN 1
                    ELSE PlaceOf(saved, said[saved[Max(summaries)]].ref)
        Kept(j) == /\ j >= boundary /\ Kind(saved[j]) \notin {"summary", "result"}
                   /\ \E i \in boundary .. j - 1 : Kind(saved[i]) # "summary"
    IN  IF EndsWith(saved, {"summary"}) \/ Len(said) >= MaxSaid THEN {}
        ELSE {saved[j] : j \in {i \in DOMAIN saved : Kept(i)}}

\* Mutant: the context stays as it was.
Mut_AppendCompaction(kept, retry) ==
    /\ said' = Append(said, Message("summary", kept))
    /\ saved' = Append(saved, Len(said) + 1)
    /\ UNCHANGED <<context, missed>>

\* appendCompaction; the context is built again, without a failure at its end
\* if the run is to be repeated.
AppendCompaction(kept, retry) ==
    LET id == Len(said) + 1
        log == Append(said, Message("summary", kept))
        rebuilt == Rebuilt(log, Append(saved, id))
    IN  /\ said' = log
        /\ saved' = Append(saved, id)
        /\ context' = IF retry /\ log[Last(rebuilt)].kind \in Errors THEN Front(rebuilt)
                      ELSE rebuilt
        /\ UNCHANGED missed

\* _checkCompaction: what to do about message m.  Anything may be over the
\* threshold; a message older than the latest compaction is not looked at.
CompactionPlans(m, skipAborted) ==
    IF \/ m = 0 \/ (skipAborted /\ Kind(m) = "aborted")
       \/ \E i \in Summaries(said, saved) : m < saved[i]
       \/ Kind(m) \in {"overflow", "length"} /\ overflowTried
    THEN {"none"}
    ELSE IF Kind(m) \in {"overflow", "length"} THEN {"retry"} ELSE {"none", "plain"}

WithoutReply == IF EndsWith(context, Assistant) THEN Front(context) ELSE context

\* _checkCompaction and the first part of _runAutoCompaction: p goes on with a
\* compaction or not.  kept = 0: there is nothing to summarize.
CheckCompaction(p, m, skipAborted, compacting, otherwise) ==
    \E plan \in CompactionPlans(m, skipAborted) :
        IF plan = "none"
        THEN /\ pc' = [pc EXCEPT ![p] = otherwise]
             /\ work' = [work EXCEPT ![p] = NoWork]
             /\ UNCHANGED <<context, overflowTried, compactor>>
        ELSE /\ pc' = [pc EXCEPT ![p] = compacting]
             /\ context' = IF plan = "retry" THEN WithoutReply ELSE context
             /\ overflowTried' = (overflowTried \/ plan = "retry")
             /\ compactor' = IF FirstKept = {} THEN compactor ELSE {p}
             /\ \E kept \in IF FirstKept = {} THEN {0} ELSE FirstKept :
                    work' = [work EXCEPT ![p] =
                             [msg |-> 0, kept |-> kept, retry |-> plan = "retry"]]

-----------------------------------------------------------------------------
(* The calls of prompt.                                                     *)

At(p, stage) == pc[p] = stage
Go(p, stage) == pc' = [pc EXCEPT ![p] = stage]

Resting == {"ready", "settling", "done"}
MayStart(p) ==
    \/ Overlap
    \/ /\ \A q \in Prompts \ {p} : pc[q] \in Resting
       /\ manual.at \in {"ready", "done"}

LastReply ==
    LET replies == {i \in DOMAIN context : Kind(context[i]) \in Assistant}
    IN  IF replies = {} THEN 0 ELSE context[Max(replies)]

\* prompt, up to the compaction it may need first.  Nothing is pending when no
\* run is active: Settle has flushed.
Prompt(p) ==
    /\ At(p, "ready") /\ p \notin Triggers /\ ~active /\ MayStart(p)
    /\ CheckCompaction(p, LastReply, FALSE, "preCompact", "checked")
    /\ UNCHANGED <<said, saved, missed, connected, queues, run, injecting, active,
                   lastAssistant, retries, sleeper, cancelled, calls, pendingBash, hostCalls>>

\* _runAgentPrompt up to its first await: Agent.prompt throws if it is busy.
RunAgentPrompt(p) ==
    /\ active' = TRUE
    /\ IF run.at = "idle"
       THEN /\ run' = [at |-> "prompting", aborted |-> FALSE]
            /\ injecting' = <<p>>
            /\ Go(p, "running")
       ELSE Go(p, "ending") /\ UNCHANGED <<run, injecting>>
    /\ UNCHANGED <<messages, connected, queues, control, work, sleeper, compactor,
                   cancelled, calls, pendingBash, hostCalls>>

StartRun(p) == At(p, "checked") /\ RunAgentPrompt(p)

\* sendCustomMessage with triggerTurn; during a run it is queued (Custom).
Trigger(p) ==
    /\ At(p, "ready") /\ p \in Triggers /\ ~active /\ MayStart(p)
    /\ RunAgentPrompt(p)

\* Mutant: the end of the run counts as the end of the work.
Mut_Finish(p) ==
    /\ At(p, "running") /\ run.at = "ended"
    /\ run' = NoRun /\ active' = FALSE
    /\ Go(p, "post")
    /\ UNCHANGED <<messages, connected, queues, injecting, control, work, sleeper, compactor,
                   cancelled, calls, pendingBash, hostCalls>>

\* The run has ended: Agent.prompt or Agent.continue returns.
Finish(p) ==
    /\ At(p, "running") /\ run.at = "ended"
    /\ run' = NoRun
    /\ Go(p, "post")
    /\ UNCHANGED <<messages, connected, queues, injecting, active, control, work, sleeper,
                   compactor, cancelled, calls, pendingBash, hostCalls>>

\* Mutant: nobody looks into the queues after a run.
Mut_AfterRun == "ending"

\* hasQueuedMessages decides whether there is another round.
AfterRun == IF HasQueued THEN "continuing" ELSE "ending"

WillRetry(m) == m # 0 /\ Kind(m) = "failed" /\ retries < MaxRetries

\* _handlePostAgentRun and the first part of _prepareRetry.
PostRun(p) ==
    /\ At(p, "post")
    /\ lastAssistant' = 0
    /\ IF WillRetry(lastAssistant)
       THEN /\ retries' = retries + 1
            /\ context' = WithoutReply
            /\ work' = [work EXCEPT ![p] = [NoWork EXCEPT !.msg = lastAssistant]]
            /\ sleeper' = {p}
            /\ Go(p, "sleeping")
            /\ UNCHANGED <<overflowTried, compactor>>
       ELSE /\ retries' = IF lastAssistant # 0 /\ Kind(lastAssistant) \in Errors THEN 0
                          ELSE retries
            /\ CheckCompaction(p, lastAssistant, TRUE, "postCompact",
                               IF lastAssistant = 0 THEN "ending" ELSE AfterRun)
            /\ UNCHANGED sleeper
    /\ UNCHANGED <<said, saved, missed, connected, queues, run, injecting, active, cancelled,
                   calls, pendingBash, hostCalls>>

\* The sleep of _prepareRetry is over or was aborted.
RetryWake(p) ==
    /\ At(p, "sleeping")
    /\ sleeper' = {} /\ cancelled' = cancelled \ {p}
    /\ IF p \in cancelled
       THEN /\ retries' = 0
            /\ CheckCompaction(p, work[p].msg, TRUE, "postCompact", AfterRun)
       ELSE /\ Go(p, "continuing")
            /\ work' = [work EXCEPT ![p] = NoWork]
            /\ UNCHANGED <<context, retries, overflowTried, compactor>>
    /\ UNCHANGED <<said, saved, missed, connected, queues, run, injecting, active,
                   lastAssistant, calls, pendingBash, hostCalls>>

\* The second part of _runAutoCompaction: the summary is there, or it failed
\* or was aborted.
EndCompaction(p, success) ==
    /\ pc[p] \in {"preCompact", "postCompact"}
    /\ success => work[p].kept # 0 /\ compactor # {} /\ compactor \cap cancelled = {}
    /\ IF success THEN AppendCompaction(work[p].kept, work[p].retry) ELSE UNCHANGED messages
    /\ compactor' = {} /\ cancelled' = cancelled \ {p}
    /\ work' = [work EXCEPT ![p] = NoWork]
    /\ Go(p, IF At(p, "preCompact") THEN "checked"
             ELSE IF success /\ work[p].retry THEN "continuing" ELSE AfterRun)
    /\ UNCHANGED <<connected, queues, run, injecting, active, control, sleeper, calls,
                   pendingBash, hostCalls>>

Drained(queue) == IF queue = <<>> THEN <<>> ELSE <<Head(queue)>>
Remaining(queue) == IF queue = <<>> THEN <<>> ELSE Tail(queue)

\* Agent.continue: from an answer it goes on only with queued messages.
Continue(p) ==
    /\ At(p, "continuing")
    /\ IF run.at # "idle" \/ context = <<>> \/ (EndsWith(context, Assistant) /\ ~HasQueued)
       THEN Go(p, "ending") /\ UNCHANGED <<run, injecting, steering, followUp>>
       ELSE /\ Go(p, "running")
            /\ CASE ~EndsWith(context, Assistant) ->
                        /\ run' = [at |-> "prompting", aborted |-> FALSE]
                        /\ injecting' = <<>>
                        /\ UNCHANGED <<steering, followUp>>
                 [] EndsWith(context, Assistant) /\ steering # <<>> ->
                        /\ run' = [at |-> "turn", aborted |-> FALSE]
                        /\ injecting' = Drained(steering)
                        /\ steering' = Remaining(steering)
                        /\ UNCHANGED followUp
                 [] OTHER ->
                        /\ run' = [at |-> "prompting", aborted |-> FALSE]
                        /\ injecting' = Drained(followUp)
                        /\ followUp' = Remaining(followUp)
                        /\ UNCHANGED steering
    /\ UNCHANGED <<messages, connected, shown, sent, late, active, control, work, sleeper,
                   compactor, cancelled, calls, pendingBash, hostCalls>>

\* Mutant: the bash results keep waiting.
Mut_Settle(p) ==
    /\ At(p, "ending")
    /\ active' = FALSE
    /\ Go(p, "settling")
    /\ UNCHANGED <<messages, connected, queues, run, injecting, control, work, sleeper,
                   compactor, cancelled, calls, pendingBash, hostCalls>>

\* The finally of _runAgentPrompt, up to the handlers of agent_settled.
Settle(p) ==
    /\ At(p, "ending")
    /\ Record("bash", pendingBash) /\ pendingBash' = 0
    /\ active' = FALSE
    /\ Go(p, "settling")
    /\ UNCHANGED <<connected, queues, run, injecting, control, work, sleeper, compactor,
                   cancelled, calls, hostCalls>>

\* Mutant: only those who called abort are released.
Mut_Settled(p) ==
    /\ At(p, "settling")
    /\ Go(p, "done")
    /\ aborting' = IF active THEN aborting ELSE [a \in Aborts |->
                       IF aborting[a] = "waiting" THEN "done" ELSE aborting[a]]
    /\ UNCHANGED <<messages, connected, queues, run, injecting, active, control, work,
                   sleeper, compactor, cancelled, manual, pendingBash, hostCalls>>

\* _resolveIdleWaitIfIdle.
Settled(p) ==
    /\ At(p, "settling")
    /\ Go(p, "done")
    /\ IF active THEN UNCHANGED calls
       ELSE /\ aborting' = [a \in Aborts |-> IF aborting[a] = "waiting" THEN "done"
                                             ELSE aborting[a]]
            /\ manual' = IF manual.at = "waiting" THEN [manual EXCEPT !.at = "preparing"]
                         ELSE manual
    /\ UNCHANGED <<messages, connected, queues, run, injecting, active, control, work,
                   sleeper, compactor, cancelled, pendingBash, hostCalls>>

PromptStep(p) ==
    \/ StartRun(p) \/ Finish(p) \/ PostRun(p) \/ RetryWake(p)
    \/ \E b \in BOOLEAN : EndCompaction(p, b)
    \/ Continue(p) \/ Settle(p) \/ Settled(p)

-----------------------------------------------------------------------------
(* The run of the agent.                                                    *)

RunAt(stage) == run' = [run EXCEPT !.at = stage]

\* A message is put into the context; the session's handler takes its text off
\* the list it shows.
Inject ==
    IF injecting = <<>>
    THEN UNCHANGED <<messages, shown, overflowTried>>
    ELSE LET m == Head(injecting)
             user == m \notin Customs \cup Triggers
         IN  /\ Say(IF user THEN "user" ELSE "custom", 0)
             /\ overflowTried' = (overflowTried /\ ~(connected /\ user))
             /\ shown' = IF ~connected \/ ~user THEN shown
                         ELSE IF Contains(shown.steer, m)
                              THEN [shown EXCEPT !.steer = RemoveFirst(@, m)]
                              ELSE [shown EXCEPT !.follow = RemoveFirst(@, m)]

\* The messages the run starts with, then the first poll.
BeginRun ==
    /\ run.at = "prompting"
    /\ Inject
    /\ injecting' = Drained(steering) /\ steering' = Remaining(steering)
    /\ RunAt("turn")
    /\ UNCHANGED <<connected, followUp, sent, late, active, lastAssistant, retries, stages, calls,
                   pendingBash, hostCalls>>

BeginTurn ==
    /\ run.at = "turn" /\ injecting # <<>>
    /\ Inject
    /\ injecting' = <<>>
    /\ UNCHANGED <<connected, steering, followUp, sent, late, run, active, lastAssistant, retries,
                   stages, calls, pendingBash, hostCalls>>

\* The provider ends a message, and _handleAgentEvent sees message_end.
Answer(kind) ==
    /\ run.at = "turn" /\ injecting = <<>>
    /\ run.aborted <=> kind = "aborted"
    /\ Len(said) >= MaxSaid => kind \in {"answer", "aborted"}
    /\ Say(kind, 0)
    /\ IF connected
       THEN /\ lastAssistant' = Len(said')
            /\ overflowTried' = (overflowTried /\ kind \in Errors)
            /\ retries' = IF kind \in Errors THEN retries ELSE 0
       ELSE UNCHANGED control
    /\ RunAt(CASE kind = "calls" -> "batch"
               [] kind \in {"answer", "length"} -> "answered"
               [] OTHER -> "ended")
    /\ UNCHANGED <<connected, queues, injecting, active, stages, calls, pendingBash, hostCalls>>

\* The calls are executed; next: the loop goes on, or the tools terminate it.
Execute(next) ==
    /\ run.at = "batch"
    /\ Say("result", Max({i \in DOMAIN said : Kind(i) = "calls"}))
    /\ RunAt(next)
    /\ UNCHANGED <<connected, queues, injecting, active, control, stages, calls, pendingBash,
                   hostCalls>>

\* The polls after a turn.
Poll ==
    /\ run.at \in {"called", "answered"}
    /\ IF steering # <<>> \/ run.at = "called"
       THEN /\ injecting' = Drained(steering) /\ steering' = Remaining(steering)
            /\ RunAt("turn")
            /\ UNCHANGED followUp
       ELSE /\ injecting' = Drained(followUp) /\ followUp' = Remaining(followUp)
            /\ RunAt(IF followUp = <<>> THEN "ended" ELSE "turn")
            /\ UNCHANGED steering
    /\ UNCHANGED <<messages, connected, shown, sent, late, active, control, stages, calls,
                   pendingBash, hostCalls>>

RunStep ==
    \/ BeginRun \/ BeginTurn \/ Poll
    \/ \E kind \in Answers \cup {"aborted"} : Answer(kind)
    \/ \E next \in {"called", "answered"} : Execute(next)

-----------------------------------------------------------------------------
(* What the host and the extensions do.                                     *)

\* m is sent for the first time, too late for the prompt that is active, if any?
Sent(m) ==
    /\ m \notin sent
    /\ sent' = sent \cup {m}
    /\ late' = IF active /\ \A p \in Prompts : ~At(p, "ending") THEN late ELSE late \cup {m}

\* steer, followUp, and prompt during a run: _queueSteer and _queueFollowUp.
Steer(m) ==
    /\ Sent(m)
    /\ shown' = [shown EXCEPT !.steer = Append(@, m)]
    /\ steering' = Append(steering, m)
    /\ UNCHANGED <<messages, connected, followUp, run, injecting, active, control, stages,
                   calls, pendingBash>>

FollowUp(m) ==
    /\ Sent(m)
    /\ shown' = [shown EXCEPT !.follow = Append(@, m)]
    /\ followUp' = Append(followUp, m)
    /\ UNCHANGED <<messages, connected, steering, run, injecting, active, control, stages,
                   calls, pendingBash>>

\* sendCustomMessage without triggerTurn.
Custom(m) ==
    /\ Sent(m)
    /\ IF active
       THEN steering' = Append(steering, m) /\ UNCHANGED messages
       ELSE Record("custom", 1) /\ UNCHANGED steering
    /\ UNCHANGED <<connected, followUp, shown, run, injecting, active, control, stages, calls,
                   pendingBash>>

\* Mutant: the session keeps showing the messages.
Mut_ClearQueue ==
    /\ HasQueued
    /\ steering' = <<>> /\ followUp' = <<>>
    /\ UNCHANGED <<messages, connected, shown, late, sent, run, injecting, active, control,
                   stages, calls, pendingBash>>

ClearQueue ==
    /\ HasQueued
    /\ steering' = <<>> /\ followUp' = <<>>
    /\ shown' = [steer |-> <<>>, follow |-> <<>>]
    /\ UNCHANGED <<messages, connected, late, sent, run, injecting, active, control, stages,
                   calls, pendingBash>>

\* abort: abortRetry and Agent.abort; the caller then waits for the session.
StopWork ==
    /\ cancelled' = cancelled \cup sleeper
    /\ run' = IF run.at = "idle" THEN run ELSE [run EXCEPT !.aborted = TRUE]
UntilIdle(otherwise) == IF active THEN "waiting" ELSE otherwise

Abort(a) ==
    /\ aborting[a] = "ready"
    /\ StopWork
    /\ aborting' = [aborting EXCEPT ![a] = UntilIdle("done")]
    /\ UNCHANGED <<messages, connected, queues, injecting, active, control, pc, work, sleeper,
                   compactor, manual, pendingBash>>

\* compact, up to the end of the abort in it.
Compact ==
    /\ manual.at = "ready"
    /\ Overlap \/ \A p \in Prompts : pc[p] \notin {"preCompact", "checked"}
    /\ connected' = FALSE
    /\ StopWork
    /\ manual' = [manual EXCEPT !.at = UntilIdle("preparing")]
    /\ UNCHANGED <<messages, queues, injecting, active, control, pc, work, sleeper, compactor,
                   aborting, pendingBash>>

PrepareManual ==
    /\ manual.at = "preparing"
    /\ \E kept \in FirstKept :
        manual' = [manual EXCEPT !.at = "summarizing", !.kept = kept]
    /\ UNCHANGED <<messages, connected, queues, run, injecting, active, control, stages,
                   aborting, pendingBash, hostCalls>>

\* The rest of compact; without a summary it throws.
EndManual(success) ==
    /\ manual.at \in {"preparing", "summarizing"}
    /\ success => manual.at = "summarizing" /\ ~manual.aborted
    /\ IF success THEN AppendCompaction(manual.kept, FALSE) ELSE UNCHANGED messages
    /\ manual' = [at |-> "done", kept |-> 0, aborted |-> FALSE]
    /\ connected' = TRUE
    /\ UNCHANGED <<queues, run, injecting, active, control, stages, aborting, pendingBash,
                   hostCalls>>

AbortCompaction ==
    /\ compactor # {} \/ manual.at \in {"preparing", "summarizing"}
    /\ cancelled' = cancelled \cup compactor
    /\ manual' = IF manual.at \in {"preparing", "summarizing"}
                 THEN [manual EXCEPT !.aborted = TRUE] ELSE manual
    /\ UNCHANGED <<messages, connected, queues, run, injecting, active, control, pc, work,
                   sleeper, compactor, aborting, pendingBash>>

\* Mutant: the result is recorded in the middle of the run.
Mut_RecordBashResult ==
    /\ Record("bash", 1)
    /\ UNCHANGED <<connected, queues, run, injecting, active, control, stages, calls,
                   pendingBash>>

RecordBashResult ==
    /\ IF active THEN pendingBash' = pendingBash + 1 /\ UNCHANGED messages
       ELSE Record("bash", 1) /\ UNCHANGED pendingBash
    /\ UNCHANGED <<connected, queues, run, injecting, active, control, stages, calls>>

ManualStep == PrepareManual \/ \E b \in BOOLEAN : EndManual(b)

Host ==
    /\ hostCalls < MaxHost /\ hostCalls' = hostCalls + 1
    /\ \/ \E m \in Texts : Steer(m) \/ FollowUp(m)
       \/ \E m \in Customs : Custom(m)
       \/ \E a \in Aborts : Abort(a)
       \/ ClearQueue \/ Compact \/ AbortCompaction \/ RecordBashResult

Next ==
    \/ \E p \in Prompts : Prompt(p) \/ Trigger(p) \/ PromptStep(p)
    \/ RunStep \/ ManualStep \/ Host

Spec == Init /\ [][Next]_vars

\* The provider, the tools and the timers come to an end, and what waits for
\* them goes on.  Nobody has to call anything.
FairSpec ==
    /\ Spec
    /\ \A p \in Prompts : WF_vars(PromptStep(p))
    /\ WF_vars(RunStep) /\ WF_vars(ManualStep)

-----------------------------------------------------------------------------
MessageKinds == Assistant \cup {"user", "custom", "bash", "result", "summary"}
Ids == 1 .. Len(said)
Queueable == Texts \cup Customs

DataTypes ==
    /\ said \in Seq([kind : MessageKinds, ref : Nat])
    /\ context \in Seq(Ids) /\ saved \in Seq(Ids) /\ missed \subseteq Ids
    /\ steering \in Seq(Queueable) /\ followUp \in Seq(Queueable)
    /\ shown \in [steer : Seq(Texts), follow : Seq(Texts)]
    /\ injecting \in Seq(Queueable \cup Prompts)
    /\ late \subseteq sent /\ sent \subseteq Queueable
    /\ lastAssistant \in 0 .. Len(said) /\ retries \in 0 .. MaxRetries
    /\ work \in [Prompts -> [msg : 0 .. Len(said), kept : 0 .. Len(said), retry : BOOLEAN]]
    /\ pendingBash \in 0 .. MaxHost /\ hostCalls \in 0 .. MaxHost

PromptStages == {"ready", "preCompact", "checked", "running", "post", "sleeping",
                 "postCompact", "continuing", "ending", "settling", "done"}
RunStages == {"idle", "prompting", "turn", "batch", "called", "answered", "ended"}

ControlTypes ==
    /\ pc \in [Prompts -> PromptStages]
    /\ run \in [at : RunStages, aborted : BOOLEAN]
    /\ manual \in [at : {"ready", "waiting", "preparing", "summarizing", "done"},
                   kept : 0 .. Len(said), aborted : BOOLEAN]
    /\ aborting \in [Aborts -> {"ready", "waiting", "done"}]
    /\ active \in BOOLEAN /\ connected \in BOOLEAN /\ overflowTried \in BOOLEAN
    /\ sleeper \subseteq Prompts /\ compactor \subseteq Prompts /\ cancelled \subseteq Prompts

\* Every variable keeps its type, and bash results wait only during a run.
TypeOK == DataTypes /\ ControlTypes /\ (~active => pendingBash = 0)

\* "Whether the session has no active agent run, retry, auto-compaction, or
\* queued continuation" (isIdle, and with it agent_settled).
Working == {"running", "post", "sleeping", "postCompact", "continuing", "ending"}
IdleMeansIdle == ~active => run.at = "idle" /\ \A p \in Prompts : pc[p] \notin Working

\* A message that was queued while a prompt was active and still going to look
\* is delivered before the session settles; a manual compaction may interfere.
NothingLeftBehind ==
    ~active /\ missed = {} => ToSet(steering) \cup ToSet(followUp) \subseteq late

\* The elements of s that are in T, in their order.
Selected(s, T) ==
    LET upTo[n \in 0 .. Len(s)] ==
            IF n = 0 THEN <<>>
            ELSE IF s[n] \in T THEN Append(upTo[n - 1], s[n]) ELSE upTo[n - 1]
    IN  upTo[Len(s)]

\* What a session must not lose: failed and truncated answers are dropped for a
\* repetition, and what ended unheard went unsaved.
Staying == {id \in Ids : Kind(id) \notin Errors \cup {"length"} /\ id \notin missed}

\* The context is what a reload would build from the file, up to failed and
\* truncated answers (dropped for a repetition) and what went unsaved.
ContextIsRebuilt == Selected(context, Staying) = Selected(Rebuilt(said, saved), Staying)

\* list is what waits in queue, behind what is about to be put into the context.
Shows(list, queue) ==
    \E n \in 0 .. Len(list) :
        /\ SubSeq(list, n + 1, Len(list)) = Selected(queue, Texts)
        /\ \A i \in 1 .. n : Contains(injecting, list[i])

\* The host sees the texts that wait, in their order: what the session shows
\* beyond the agent's queues is just about to be put into the context.
ShownIsQueued == missed = {} => Shows(shown.steer, steering) /\ Shows(shown.follow, followUp)

\* "defer adding to avoid breaking tool_use/tool_result ordering": results stand
\* directly behind their calls, in the file and in the context.
ResultsStayWithCalls ==
    \A list \in {saved, context} : \A i \in DOMAIN list :
        Kind(list[i]) = "result" => i > 1 /\ list[i - 1] = said[list[i]].ref

\* Every prompt and every abort returns, and the session settles.
CallsReturn ==
    /\ \A p \in Prompts : pc[p] # "ready" ~> pc[p] = "done"
    /\ \A a \in Aborts : aborting[a] = "waiting" ~> aborting[a] = "done"
    /\ manual.at = "waiting" ~> manual.at = "done"

=============================================================================
