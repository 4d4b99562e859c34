--------------------------- MODULE AgentLoopProofs --------------------------
(***************************************************************************)
(* Theorems of AgentLoop, for any number of messages, runs, batches and    *)
(* calls and any queue modes.                                              *)
(*                                                                         *)
(* IInv is the inductive invariant of the tool batches.  That the results  *)
(* of a batch stand in order behind its reply is not inductive by itself:  *)
(* BatchTail adds that while a batch is in progress the transcript ends    *)
(* with its reply and the results of exactly its first r calls, and        *)
(* NotBegun that a new batch starts from calls without a status.  CleanInv *)
(* adds, for listeners that never throw, what a run may still have to do.  *)
(*                                                                         *)
(* The second half is about messages and requests, whatever throws.        *)
(* MessageInv: the queues, the run's hands and the transcript share what   *)
(* was handed over and is not gone, as disjoint sets (Parted).             *)
(* OrderInv: each of them is sorted, and what is said precedes what is in  *)
(* hand, which precedes what is queued (Lined).                            *)
(* ContextInv: how the loop's context differs from the transcript at each  *)
(* pc.  AnswerInv: every reply before the current batch has its results.   *)
(*                                                                         *)
(* The last part is about ProviderRequests, what is sent of the context.   *)
(* LiveInv: no result answers a reply that failed.  Stands: after each     *)
(* message the second pass has sent whole batches (Sound) and holds open   *)
(* exactly what the last of them still owes (Opened).                      *)
(***************************************************************************)
EXTENDS ProviderRequests, SequenceTheorems, FiniteSetTheorems, WellFoundedInduction, TLAPS

\* A message of each kind is an entry of the transcript.
LEMMA EntryTypes ==
    /\ \A m \in Msgs : User(m) \in Entries
    /\ \A stop \in Stops, b \in 0 .. MaxBatches, n \in 0 .. MaxCalls :
          Assistant(stop, b, n) \in Entries
    /\ \A c \in Calls : Result(c) \in Entries
  BY DEF User, Assistant, Result, Entries

\* What a drain hands out and what it leaves are sequences of messages.
LEMMA DrainTypes ==
  ASSUME NEW q \in Seq(Msgs), NEW mode
  PROVE  Drained(mode, q) \in Seq(Msgs) /\ Rest(mode, q) \in Seq(Msgs)
  BY DEF Drained, Rest

\* The elements of a sequence belong to its set.
LEMMA ElementTypes == \A q \in Seq(Msgs) : Elements(q) \subseteq Msgs
  BY DEF Elements

\* The context of a new run is a sequence of entries.
LEMMA ContextType ==
  ASSUME NEW t \in Seq(Entries), NEW q \in Seq(Msgs)
  PROVE  t \o [i \in DOMAIN q |-> User(q[i])] \in Seq(Entries)
<1>1. [i \in DOMAIN q |-> User(q[i])] \in Seq(Entries)
  <2>1. \A i \in 1 .. Len(q) : User(q[i]) \in Entries
    BY EntryTypes, ElementOfSeq
  <2>2. Len(q) \in Nat /\ DOMAIN q = 1 .. Len(q)
    OBVIOUS
  <2> QED
    BY <2>1, <2>2
<1> QED
  BY <1>1

\* The results of a batch are a sequence of entries.
LEMMA ResultTypes ==
  ASSUME NEW b \in Batches, NEW n \in 0 .. MaxCalls
  PROVE  [i \in 1 .. n |-> Result(<<b, i>>)] \in Seq(Entries)
<1>1. \A i \in 1 .. n : <<b, i>> \in Calls
  BY BoundAssumption DEF Calls
<1>2. n \in Nat
  BY BoundAssumption
<1> QED
  BY <1>1, <1>2, EntryTypes

BatchPcs == {"sequential", "parallel", "truncated", "awaiting"}

\* While the run is in a tool batch the batch exists and the call is one of its.
BatchOpen == pc \in BatchPcs => batch > 0 /\ call <= size

\* The transcript ends with the reply of the current batch and r results.
TailIs(r) ==
    LET n == Len(transcript) - r
    IN  /\ n \in 1 .. Len(transcript)
        /\ transcript[n].role = "assistant"
        /\ transcript[n].batch = batch /\ transcript[n].calls = size
        /\ \A k \in n + 1 .. Len(transcript) : transcript[k] = Result(<<batch, k - n>>)

\* While the run is in a tool batch exactly the first r calls are reported.
BatchTail ==
    pc \in BatchPcs =>
        \E r \in 0 .. call :
            /\ TailIs(r)
            /\ \A k \in 1 .. call : tool[<<batch, k>>] = "reported" <=> k <= r

\* A sequential loop has reported every call before its current one.
SequentialReports ==
    pc \in {"sequential", "truncated"} =>
        \A k \in 1 .. call - 1 : tool[<<batch, k>>] = "reported"

\* Calls not begun have no status.
NotBegun ==
    \A c \in Calls :
        c[1] > batch \/ (pc \in BatchPcs /\ c[1] = batch /\ c[2] > call) => tool[c] = "none"

BatchInv ==
    /\ BatchOpen
    /\ BatchTail
    /\ SequentialReports
    /\ NotBegun
    /\ ResultsFollowTheirCall

IInv == TypeOK /\ BatchInv

\* Initial states are well typed.
LEMMA InitType == Init => TypeOK
<1> SUFFICES ASSUME Init PROVE TypeOK
  OBVIOUS
<1>1. DataTypes
  BY BoundAssumption DEF Init, DataTypes, Statuses
<1>2. FlagTypes
  BY DEF Init, FlagTypes
<1> QED
  BY <1>1, <1>2 DEF TypeOK

\* Steps preserve the types.
LEMMA NextType == TypeOK /\ BatchOpen /\ [Next]_vars => TypeOK'
<1> SUFFICES ASSUME TypeOK, BatchOpen, [Next]_vars PROVE TypeOK'
  OBVIOUS
<1> USE BoundAssumption DEF TypeOK, queueVars, batchVars
<1>1. ASSUME NEW m \in Msgs, Steer(m) PROVE TypeOK'
  <2>1. DataTypes'
    BY <1>1 DEF Steer, DataTypes
  <2>2. FlagTypes'
    BY <1>1 DEF Steer, FlagTypes
  <2> QED
    BY <2>1, <2>2
<1>2. ASSUME NEW m \in Msgs, FollowUp(m) PROVE TypeOK'
  <2>1. DataTypes'
    BY <1>2 DEF FollowUp, DataTypes
  <2>2. FlagTypes'
    BY <1>2 DEF FollowUp, FlagTypes
  <2> QED
    BY <2>1, <2>2
<1>3. ASSUME NEW m \in Msgs, Prompt(m) PROVE TypeOK'
  <2>1. DataTypes'
    <3>1. context' \in Seq(Entries) /\ todo' \in Seq(Msgs)
      <4>1. <<m>> \in Seq(Msgs)
        OBVIOUS
      <4> QED
        BY <4>1, <1>3, ContextType DEF Prompt, StartRun, DataTypes
    <3> QED
      BY <3>1, <1>3 DEF Prompt, StartRun, DataTypes
  <2>2. FlagTypes'
    BY <1>3 DEF Prompt, StartRun, FlagTypes
  <2> QED
    BY <2>1, <2>2
<1>4. ASSUME ClearQueues PROVE TypeOK'
  <2>1. DataTypes'
    <3>1. gone' \subseteq Msgs
      BY <1>4, ElementTypes DEF ClearQueues, DataTypes
    <3>2. steering' \in Seq(Msgs) /\ followUps' \in Seq(Msgs)
      <4>1. <<>> \in Seq(Msgs)
        OBVIOUS
      <4>2. steering \in Seq(Msgs) /\ followUps \in Seq(Msgs)
        BY DEF DataTypes
      <4>3. (steering' = steering \/ steering' = <<>>)
              /\ (followUps' = followUps \/ followUps' = <<>>)
        BY <1>4 DEF ClearQueues
      <4> QED
        BY <4>1, <4>2, <4>3
    <3> QED
      BY <3>1, <3>2, <1>4 DEF ClearQueues, DataTypes
  <2>2. FlagTypes'
    BY <1>4 DEF ClearQueues, FlagTypes
  <2> QED
    BY <2>1, <2>2
<1>5. ASSUME Abort PROVE TypeOK'
  <2>1. DataTypes'
    BY <1>5 DEF Abort, DataTypes
  <2>2. FlagTypes'
    BY <1>5 DEF Abort, FlagTypes
  <2> QED
    BY <2>1, <2>2
<1>6. ASSUME Reset PROVE TypeOK'
  <2>1. DataTypes'
    BY <1>6 DEF Reset, DataTypes
  <2>2. FlagTypes'
    BY <1>6 DEF Reset, FlagTypes
  <2> QED
    BY <2>1, <2>2
<1>7. ASSUME DropFailedReply PROVE TypeOK'
  <2>1. DataTypes'
    BY <1>7 DEF DropFailedReply, DataTypes
  <2>2. FlagTypes'
    BY <1>7 DEF DropFailedReply, FlagTypes
  <2> QED
    BY <2>1, <2>2
<1>8. ASSUME ContinueTurn PROVE TypeOK'
  <2>1. DataTypes'
    BY <1>8, ContextType DEF ContinueTurn, StartRun, DataTypes
  <2>2. FlagTypes'
    BY <1>8 DEF ContinueTurn, StartRun, FlagTypes
  <2> QED
    BY <2>1, <2>2
<1>9. ASSUME ContinueQueued PROVE TypeOK'
  <2>1. DataTypes'
    <3>1. CASE StartRun(Drained(SteeringMode, steering), TRUE)
      <4>1. context' \in Seq(Entries) /\ todo' \in Seq(Msgs)
        BY <3>1, ContextType, DrainTypes DEF StartRun, DataTypes
      <4>2. steering' \in Seq(Msgs) /\ followUps' \in Seq(Msgs)
        BY <1>9, DrainTypes DEF ContinueQueued, DataTypes
      <4>3. sent' = sent
        BY <1>9 DEF ContinueQueued
      <4> QED
        BY <4>1, <4>2, <4>3, <3>1 DEF StartRun, DataTypes
    <3>2. CASE StartRun(Drained(FollowUpMode, followUps), FALSE)
      <4>1. context' \in Seq(Entries) /\ todo' \in Seq(Msgs)
        BY <3>2, ContextType, DrainTypes DEF StartRun, DataTypes
      <4>2. steering' \in Seq(Msgs) /\ followUps' \in Seq(Msgs)
        BY <1>9, DrainTypes DEF ContinueQueued, DataTypes
      <4>3. sent' = sent
        BY <1>9 DEF ContinueQueued
      <4> QED
        BY <4>1, <4>2, <4>3, <3>2 DEF StartRun, DataTypes
    <3> QED
      BY <1>9, <3>1, <3>2 DEF ContinueQueued
  <2>2. FlagTypes'
    BY <1>9 DEF ContinueQueued, StartRun, FlagTypes
  <2> QED
    BY <2>1, <2>2
<1>10. ASSUME EmitPrompt PROVE TypeOK'
  <2>1. DataTypes'
    BY <1>10, EntryTypes DEF EmitPrompt, EmitMessage, DataTypes
  <2>2. FlagTypes'
    BY <1>10 DEF EmitPrompt, EmitMessage, FlagTypes
  <2> QED
    BY <2>1, <2>2
<1>11. ASSUME InitialPoll PROVE TypeOK'
  <2>1. DataTypes'
    BY <1>11, DrainTypes DEF InitialPoll, DataTypes
  <2>2. FlagTypes'
    BY <1>11 DEF InitialPoll, FlagTypes
  <2> QED
    BY <2>1, <2>2
<1>12. ASSUME Inject PROVE TypeOK'
  <2>1. DataTypes'
    BY <1>12, EntryTypes DEF Inject, EmitMessage, DataTypes
  <2>2. FlagTypes'
    BY <1>12 DEF Inject, EmitMessage, FlagTypes
  <2> QED
    BY <2>1, <2>2
<1>13. ASSUME Request PROVE TypeOK'
  <2>1. DataTypes'
    BY <1>13 DEF Request, DataTypes
  <2>2. FlagTypes'
    BY <1>13 DEF Request, FlagTypes
  <2> QED
    BY <2>1, <2>2
<1>14. ASSUME NEW stop \in Stops, NEW n \in 0 .. MaxCalls, Reply(stop, n) PROVE TypeOK'
  <2>1. DataTypes'
    BY <1>14, EntryTypes DEF Reply, EmitMessage, DataTypes
  <2>2. FlagTypes'
    BY <1>14 DEF Reply, EmitMessage, FlagTypes
  <2> QED
    BY <2>1, <2>2
<1>15. ASSUME TurnEnd PROVE TypeOK'
  <2>1. DataTypes'
    BY <1>15 DEF TurnEnd, EmitEvent, DataTypes
  <2>2. FlagTypes'
    BY <1>15 DEF TurnEnd, EmitEvent, FlagTypes
  <2> QED
    BY <2>1, <2>2
<1>16. ASSUME PollSteering PROVE TypeOK'
  <2>1. DataTypes'
    BY <1>16, DrainTypes DEF PollSteering, DataTypes
  <2>2. FlagTypes'
    BY <1>16 DEF PollSteering, FlagTypes
  <2> QED
    BY <2>1, <2>2
<1>17. ASSUME PollFollowUps PROVE TypeOK'
  <2>1. DataTypes'
    BY <1>17, DrainTypes DEF PollFollowUps, DataTypes
  <2>2. FlagTypes'
    BY <1>17 DEF PollFollowUps, FlagTypes
  <2> QED
    BY <2>1, <2>2
<1>18. ASSUME AgentEnd PROVE TypeOK'
  <2>1. DataTypes'
    BY <1>18 DEF AgentEnd, EmitEvent, DataTypes
  <2>2. FlagTypes'
    BY <1>18 DEF AgentEnd, EmitEvent, FlagTypes
  <2> QED
    BY <2>1, <2>2
<1>19. ASSUME FinishRun PROVE TypeOK'
  <2>1. DataTypes'
    BY <1>19 DEF FinishRun, DataTypes
  <2>2. FlagTypes'
    BY <1>19 DEF FinishRun, FlagTypes
  <2> QED
    BY <2>1, <2>2
<1>20. ASSUME StartCall PROVE TypeOK'
  <2>1. DataTypes'
    <3>1. <<batch, call + 1>> \in Calls /\ call + 1 \in 0 .. MaxCalls
      BY <1>20 DEF StartCall, DataTypes, Calls, Batches, BatchOpen, BatchPcs
    <3> QED
      BY <3>1, <1>20 DEF StartCall, EmitEvent, DataTypes, Statuses
  <2>2. FlagTypes'
    BY <1>20 DEF StartCall, EmitEvent, FlagTypes
  <2> QED
    BY <2>1, <2>2
<1>21. ASSUME PrepareCall PROVE TypeOK'
  <2>1. DataTypes'
    BY <1>21 DEF PrepareCall, Current, DataTypes, Statuses
  <2>2. FlagTypes'
    BY <1>21 DEF PrepareCall, Current, FlagTypes
  <2> QED
    BY <2>1, <2>2
<1>22. ASSUME FailTruncatedCall PROVE TypeOK'
  <2>1. DataTypes'
    BY <1>22 DEF FailTruncatedCall, EmitEvent, Current, DataTypes, Statuses
  <2>2. FlagTypes'
    BY <1>22 DEF FailTruncatedCall, EmitEvent, Current, FlagTypes
  <2> QED
    BY <2>1, <2>2
<1>23. ASSUME Launch PROVE TypeOK'
  <2>1. DataTypes'
    BY <1>23 DEF Launch, DataTypes, Statuses
  <2>2. FlagTypes'
    BY <1>23 DEF Launch, FlagTypes
  <2> QED
    BY <2>1, <2>2
<1>24. ASSUME NEW c \in Calls, SettleCall(c) PROVE TypeOK'
  <2>1. DataTypes'
    BY <1>24 DEF SettleCall, Awaited, InBatch, DataTypes, Statuses
  <2>2. FlagTypes'
    BY <1>24 DEF SettleCall, Awaited, InBatch, FlagTypes
  <2> QED
    BY <2>1, <2>2
<1>25. ASSUME NEW c \in Calls, EndCall(c) PROVE TypeOK'
  <2>1. DataTypes'
    BY <1>25 DEF EndCall, DataTypes, Statuses
  <2>2. FlagTypes'
    BY <1>25 DEF EndCall, FlagTypes
  <2> QED
    BY <2>1, <2>2
<1>26. ASSUME ReportCall PROVE TypeOK'
  <2>1. DataTypes'
    <3>1. Current \in Calls
      BY <1>26 DEF ReportCall, Current, DataTypes, Calls, Batches, BatchOpen, BatchPcs
    <3> QED
      BY <3>1, <1>26, EntryTypes DEF ReportCall, EmitMessage, DataTypes, Statuses
  <2>2. FlagTypes'
    BY <1>26 DEF ReportCall, EmitMessage, Current, FlagTypes
  <2> QED
    BY <2>1, <2>2
<1>27. ASSUME NEW i \in 1 .. MaxCalls, ReportInOrder(i) PROVE TypeOK'
  <2>1. DataTypes'
    <3>1. <<batch, i>> \in Calls
      BY <1>27 DEF ReportInOrder, DataTypes, Calls, Batches, BatchOpen, BatchPcs
    <3> QED
      BY <3>1, <1>27, EntryTypes DEF ReportInOrder, EmitMessage, DataTypes, Statuses
  <2>2. FlagTypes'
    BY <1>27 DEF ReportInOrder, EmitMessage, FlagTypes
  <2> QED
    BY <2>1, <2>2
<1>28. ASSUME FinishBatch PROVE TypeOK'
  <2>1. DataTypes'
    <3>1. batch \in Batches
      BY <1>28 DEF FinishBatch, DataTypes, Batches, BatchOpen, BatchPcs
    <3> DEFINE results == [i \in 1 .. call |-> Result(<<batch, i>>)]
    <3>2. context' \in Seq(Entries)
      <4>1. results \in Seq(Entries)
        BY <3>1, ResultTypes DEF DataTypes
      <4>2. context' = context \o results
        BY <1>28 DEF FinishBatch
      <4>3. context \in Seq(Entries)
        BY DEF DataTypes
      <4> HIDE DEF results
      <4> QED
        BY <4>1, <4>2, <4>3
    <3> QED
      BY <3>2, <1>28 DEF FinishBatch, DataTypes
  <2>2. FlagTypes'
    BY <1>28 DEF FinishBatch, FlagTypes
  <2> QED
    BY <2>1, <2>2
<1>29. ASSUME Fail PROVE TypeOK'
  <2>1. DataTypes'
    BY <1>29, ElementTypes DEF Fail, DataTypes, Statuses
  <2>2. FlagTypes'
    BY <1>29 DEF Fail, FlagTypes
  <2> QED
    BY <2>1, <2>2
<1>30. ASSUME FailMessage PROVE TypeOK'
  <2>1. DataTypes'
    BY <1>30, EntryTypes DEF FailMessage, EmitMessage, DataTypes, Stops
  <2>2. FlagTypes'
    BY <1>30 DEF FailMessage, EmitMessage, FlagTypes
  <2> QED
    BY <2>1, <2>2
<1>31. ASSUME FailEnd PROVE TypeOK'
  <2>1. DataTypes'
    BY <1>31 DEF FailEnd, EmitEvent, DataTypes
  <2>2. FlagTypes'
    BY <1>31 DEF FailEnd, EmitEvent, FlagTypes
  <2> QED
    BY <2>1, <2>2
<1>32. ASSUME UNCHANGED vars PROVE TypeOK'
  <2>1. DataTypes'
    BY <1>32 DEF vars, DataTypes
  <2>2. FlagTypes'
    BY <1>32 DEF vars, FlagTypes
  <2> QED
    BY <2>1, <2>2
<1> QED
  BY <1>1, <1>2, <1>3, <1>4, <1>5, <1>6, <1>7, <1>8, <1>9, <1>10, <1>11, <1>12, <1>13, <1>14,
     <1>15, <1>16, <1>17, <1>18, <1>19, <1>20, <1>21, <1>22, <1>23, <1>24, <1>25, <1>26, <1>27,
     <1>28, <1>29, <1>30, <1>31, <1>32
  DEF Next, Host, Turn, Batch, Failure, ToolStep

-----------------------------------------------------------------------------
(* What the transcript keeps when an entry joins or leaves it.              *)

\* A result's call number is a number.
LEMMA ResultCalls ==
  ASSUME NEW t \in Seq(Entries), NEW j \in 1 .. Len(t), t[j].role = "toolResult"
  PROVE  t[j].call[2] \in Nat
<1>1. \A x \in Entries : x.role = "toolResult" => x.call \in Calls
  BY DEF Entries
<1>2. t[j] \in Entries
  OBVIOUS
<1> QED
  BY <1>1, <1>2, BoundAssumption DEF Calls

\* What a result answers does not depend on what comes behind it.
LEMMA AnswersKept ==
  ASSUME NEW t, NEW u, NEW m \in Nat, NEW n \in Nat, DOMAIN t = 1 .. m, DOMAIN u = 1 .. n,
         NEW j \in 1 .. m, j <= n, t[j].call[2] \in Nat,
         \A k \in 1 .. j : u[k] = t[k],
         Answers(t, j)
  PROVE  Answers(u, j)
<1> DEFINE c == t[j].call
           i == j - c[2]
<1>1. /\ i \in 1 .. m
      /\ t[i].role = "assistant" /\ t[i].batch = c[1] /\ c[2] <= t[i].calls
      /\ \A k \in i + 1 .. j : t[k] = Result(<<c[1], k - i>>)
  BY DEF Answers
<1>2. i \in 1 .. j /\ i \in 1 .. n /\ c[2] \in Nat
  BY <1>1
<1>3. u[i] = t[i] /\ u[j].call = c
  BY <1>2
<1>4. ASSUME NEW k \in i + 1 .. j PROVE u[k] = Result(<<c[1], k - i>>)
  <2>1. k \in 1 .. j
    BY <1>2
  <2>2. t[k] = Result(<<c[1], k - i>>)
    BY <1>1
  <2> QED
    BY <2>1, <2>2
<1> HIDE DEF c
<1> QED
  BY <1>1, <1>2, <1>3, <1>4 DEF Answers

\* An entry that is no result keeps the batches whole.
LEMMA AppendOther ==
  ASSUME NEW t \in Seq(Entries), ResultsFollow(t), NEW e, e.role # "toolResult"
  PROVE  ResultsFollow(Append(t, e))
<1> DEFINE u == Append(t, e)
<1>1. /\ Len(t) \in Nat /\ DOMAIN t = 1 .. Len(t) /\ DOMAIN u = 1 .. Len(t) + 1
      /\ \A k \in 1 .. Len(t) : u[k] = t[k]
      /\ u[Len(t) + 1] = e
  OBVIOUS
<1> HIDE DEF u
<1>2. ASSUME NEW j \in DOMAIN u, u[j].role = "toolResult" PROVE Answers(u, j)
  <2>1. j \in 1 .. Len(t) /\ t[j].role = "toolResult"
    BY <1>1, <1>2
  <2>2. Answers(t, j) /\ t[j].call[2] \in Nat
    BY <1>1, <2>1, ResultCalls DEF ResultsFollow
  <2>3. /\ Len(t) + 1 \in Nat /\ j <= Len(t) + 1
        /\ \A k \in 1 .. j : u[k] = t[k]
    BY <1>1, <2>1
  <2> QED
    BY <1>1, <2>1, <2>2, <2>3, AnswersKept
<1> QED
  BY <1>2 DEF ResultsFollow, u

\* The next result of the batch at the end keeps the batches whole.
LEMMA AppendResult ==
  ASSUME NEW t \in Seq(Entries), ResultsFollow(t),
         NEW b, NEW i \in Nat \ {0}, NEW n \in 1 .. Len(t), n = Len(t) - (i - 1),
         t[n].role = "assistant", t[n].batch = b, i <= t[n].calls,
         \A k \in n + 1 .. Len(t) : t[k] = Result(<<b, k - n>>)
  PROVE  ResultsFollow(Append(t, Result(<<b, i>>)))
<1> DEFINE u == Append(t, Result(<<b, i>>))
<1>1. /\ Len(t) \in Nat /\ DOMAIN t = 1 .. Len(t) /\ DOMAIN u = 1 .. Len(t) + 1
      /\ \A k \in 1 .. Len(t) : u[k] = t[k]
      /\ u[Len(t) + 1] = Result(<<b, i>>)
  OBVIOUS
<1>2. Len(t) + 1 - i = n
  BY <1>1
<1> HIDE DEF u
<1>3. ASSUME NEW j \in DOMAIN u, u[j].role = "toolResult" PROVE Answers(u, j)
  <2>1. CASE j = Len(t) + 1
    <3> DEFINE c == u[j].call
    <3>1. c[1] = b /\ c[2] = i
      BY <1>1, <2>1 DEF Result
    <3>2. j - i = n /\ n \in DOMAIN u /\ u[n] = t[n]
      BY <1>1, <1>2, <2>1
    <3>3. ASSUME NEW k \in n + 1 .. j PROVE u[k] = Result(<<b, k - n>>)
      <4>1. CASE k = j
        <5>1. k - n = i
          BY <3>2, <4>1, <2>1, <1>1
        <5> QED
          BY <5>1, <4>1, <1>1, <2>1
      <4>2. CASE k \in n + 1 .. Len(t)
        <5>1. u[k] = t[k]
          BY <4>2, <1>1
        <5> QED
          BY <5>1, <4>2
      <4> QED
        BY <4>1, <4>2, <2>1, <1>1
    <3>4. u[n].role = "assistant" /\ u[n].batch = c[1] /\ i <= u[n].calls
      BY <3>1, <3>2
    <3>5. \A k \in n + 1 .. j : u[k] = Result(<<c[1], k - n>>)
      BY <3>1, <3>3
    <3> HIDE DEF c
    <3>6. /\ j - c[2] \in DOMAIN u
          /\ u[j - c[2]].role = "assistant" /\ u[j - c[2]].batch = c[1]
          /\ c[2] <= u[j - c[2]].calls
          /\ \A k \in (j - c[2]) + 1 .. j : u[k] = Result(<<c[1], k - (j - c[2])>>)
      BY <3>1, <3>2, <3>4, <3>5
    <3> QED
      BY <3>6 DEF Answers, c
  <2>2. CASE j \in 1 .. Len(t)
    <3>1. t[j].role = "toolResult"
      BY <1>1, <1>3, <2>2
    <3>2. Answers(t, j) /\ t[j].call[2] \in Nat
      BY <1>1, <2>2, <3>1, ResultCalls DEF ResultsFollow
    <3>3. /\ Len(t) + 1 \in Nat /\ j <= Len(t) + 1
          /\ \A k \in 1 .. j : u[k] = t[k]
      BY <1>1, <2>2
    <3> QED
      BY <1>1, <2>2, <3>2, <3>3, AnswersKept
  <2> QED
    BY <2>1, <2>2, <1>1
<1> QED
  BY <1>3 DEF ResultsFollow, u

\* Taking the last entry off keeps the batches whole.
LEMMA DropLast ==
  ASSUME NEW t \in Seq(Entries), t # <<>>, ResultsFollow(t)
  PROVE  ResultsFollow(SubSeq(t, 1, Len(t) - 1))
<1> DEFINE u == SubSeq(t, 1, Len(t) - 1)
<1>1. /\ Len(t) \in Nat \ {0} /\ DOMAIN t = 1 .. Len(t) /\ DOMAIN u = 1 .. Len(t) - 1
      /\ \A k \in 1 .. Len(t) - 1 : u[k] = t[k]
  OBVIOUS
<1> HIDE DEF u
<1>2. ASSUME NEW j \in DOMAIN u, u[j].role = "toolResult" PROVE Answers(u, j)
  <2>1. j \in 1 .. Len(t) /\ t[j].role = "toolResult"
    BY <1>1, <1>2
  <2>2. Answers(t, j) /\ t[j].call[2] \in Nat
    BY <1>1, <2>1, ResultCalls DEF ResultsFollow
  <2>3. /\ Len(t) - 1 \in Nat /\ j <= Len(t) - 1
        /\ \A k \in 1 .. j : u[k] = t[k]
    BY <1>1, <1>2
  <2> QED
    BY <1>1, <2>1, <2>2, <2>3, AnswersKept
<1> QED
  BY <1>2 DEF ResultsFollow, u

-----------------------------------------------------------------------------
(* The tool batches stay whole.                                             *)

\* A status that a step may not disturb.
ToolKept ==
    \A c \in Calls :
        /\ tool'[c] = "reported" <=> tool[c] = "reported"
        /\ tool[c] = "none" => tool'[c] = "none"

\* A call of the current batch that the loop has reached is a call.
LEMMA CurrentCalls ==
  ASSUME TypeOK, BatchOpen, pc \in BatchPcs
  PROVE  /\ \A k \in 1 .. size : <<batch, k>> \in Calls
         /\ \A k \in 1 .. call : k \in 1 .. size
  BY BoundAssumption DEF TypeOK, DataTypes, BatchOpen, Calls, Batches

\* A step that neither writes the transcript nor moves to another call.
LEMMA QuietStep ==
  ASSUME TypeOK, BatchInv, UNCHANGED <<transcript, batch, size, call>>, ToolKept,
         pc' \in BatchPcs => pc \in BatchPcs,
         pc' \in {"sequential", "truncated"} => pc \in {"sequential", "truncated"}
  PROVE  BatchInv'
<1>1. BatchOpen'
  BY DEF BatchInv, BatchOpen
<1>2. BatchTail'
  <2> SUFFICES ASSUME pc' \in BatchPcs
               PROVE  \E r \in 0 .. call :
                          /\ TailIs(r)'
                          /\ \A k \in 1 .. call : tool'[<<batch, k>>] = "reported" <=> k <= r
    BY DEF BatchTail
  <2>1. PICK r \in 0 .. call :
            TailIs(r) /\ \A k \in 1 .. call : tool[<<batch, k>>] = "reported" <=> k <= r
    BY DEF BatchInv, BatchTail
  <2>2. TailIs(r)'
    BY <2>1 DEF TailIs
  <2>3. \A k \in 1 .. call : <<batch, k>> \in Calls
    BY CurrentCalls DEF BatchInv
  <2> QED
    BY <2>1, <2>2, <2>3 DEF ToolKept
<1>3. SequentialReports'
  <2> SUFFICES ASSUME pc' \in {"sequential", "truncated"}, NEW k \in 1 .. call - 1
               PROVE  tool'[<<batch, k>>] = "reported"
    BY DEF SequentialReports
  <2>1. tool[<<batch, k>>] = "reported"
    BY DEF BatchInv, SequentialReports
  <2>2. <<batch, k>> \in Calls
    <3>1. k \in 1 .. call
      BY DEF TypeOK, DataTypes
    <3> QED
      BY <3>1, CurrentCalls DEF BatchInv, BatchPcs
  <2> QED
    BY <2>1, <2>2 DEF ToolKept
<1>4. NotBegun'
  BY DEF BatchInv, NotBegun, ToolKept
<1>5. ResultsFollowTheirCall'
  BY DEF BatchInv, ResultsFollowTheirCall, ResultsFollow, Answers
<1> QED
  BY <1>1, <1>2, <1>3, <1>4, <1>5 DEF BatchInv

\* A step that leaves the run outside a batch.
LEMMA OutsideStep ==
  ASSUME BatchInv, UNCHANGED <<batch, tool>>, pc' \notin BatchPcs, ResultsFollow(transcript')
  PROVE  BatchInv'
<1>1. BatchOpen' /\ BatchTail'
  BY DEF BatchOpen, BatchTail
<1>2. SequentialReports'
  BY DEF SequentialReports, BatchPcs
<1>3. NotBegun'
  BY DEF BatchInv, NotBegun
<1>4. ResultsFollowTheirCall'
  BY DEF ResultsFollowTheirCall, ResultsFollow, Answers
<1> QED
  BY <1>1, <1>2, <1>3, <1>4 DEF BatchInv

\* A reply with tool calls opens a batch none of whose calls has begun.
LEMMA ReplyStep ==
  ASSUME TypeOK, BatchInv, TypeOK', NEW stop \in Stops, NEW n \in 0 .. MaxCalls, Reply(stop, n)
  PROVE  BatchInv'
<1> DEFINE b == IF n > 0 THEN batch' ELSE 0
           entry == Assistant(stop, b, n)
<1>1. /\ transcript \in Seq(Entries) /\ batch \in Nat /\ n \in Nat
      /\ batch' = IF n > 0 THEN batch + 1 ELSE batch
      /\ size' = n /\ call' = 0 /\ tool' = tool /\ pc = "stream"
      /\ transcript' = Append(transcript, entry)
  BY BoundAssumption DEF Reply, EmitMessage, TypeOK, DataTypes
<1>2. /\ entry.role = "assistant" /\ entry.batch = b /\ entry.calls = n
  BY DEF Assistant
<1>3. pc' \in BatchPcs => n > 0
  BY DEF Reply, BatchPcs
<1> HIDE DEF entry
<1>4. ResultsFollowTheirCall'
  <2>1. ResultsFollow(transcript')
    BY <1>1, <1>2, AppendOther DEF BatchInv, ResultsFollowTheirCall
  <2> QED
    BY <2>1 DEF ResultsFollowTheirCall, ResultsFollow, Answers
<1>5. BatchOpen'
  BY <1>1, <1>3 DEF BatchOpen
<1>6. BatchTail'
  <2> SUFFICES ASSUME pc' \in BatchPcs PROVE TailIs(0)'
    BY <1>1 DEF BatchTail
  <2>1. /\ Len(transcript') = Len(transcript) + 1 /\ Len(transcript) \in Nat
        /\ transcript'[Len(transcript')] = entry
    BY <1>1
  <2>2. b = batch'
    BY <1>3
  <2> HIDE DEF b
  <2> QED
    BY <1>1, <1>2, <2>1, <2>2 DEF TailIs
<1>7. SequentialReports'
  BY <1>1 DEF SequentialReports
<1>8. NotBegun'
  <2> SUFFICES ASSUME NEW c \in Calls,
                      c[1] > batch' \/ (pc' \in BatchPcs /\ c[1] = batch')
               PROVE  tool[c] = "none"
    BY <1>1 DEF NotBegun
  <2>1. c[1] > batch
    BY <1>1, <1>3 DEF Calls, Batches
  <2> QED
    BY <2>1 DEF BatchInv, NotBegun
<1> QED
  BY <1>4, <1>5, <1>6, <1>7, <1>8 DEF BatchInv

\* The next call of a batch is not one of those reported.
LEMMA StartStep ==
  ASSUME TypeOK, BatchInv, StartCall
  PROVE  BatchInv'
<1>1. /\ pc \in BatchPcs /\ call \in Nat /\ size \in Nat /\ call < size
      /\ UNCHANGED <<pc, transcript, batch, size>> /\ call' = call + 1
      /\ tool' = [tool EXCEPT ![<<batch, call + 1>>] = "started"]
      /\ tool \in [Calls -> Statuses]
  BY BoundAssumption DEF StartCall, TypeOK, DataTypes, BatchPcs
<1>2. \A k \in 1 .. call + 1 : <<batch, k>> \in Calls
  BY <1>1, CurrentCalls DEF BatchInv
<1>3. PICK r \in 0 .. call :
          TailIs(r) /\ \A k \in 1 .. call : tool[<<batch, k>>] = "reported" <=> k <= r
  BY <1>1 DEF BatchInv, BatchTail
<1>4. BatchOpen'
  BY <1>1 DEF BatchInv, BatchOpen
<1>5. BatchTail'
  <2>1. TailIs(r)'
    BY <1>1, <1>3 DEF TailIs
  <2>2. \A k \in 1 .. call + 1 : tool'[<<batch, k>>] = "reported" <=> k <= r
    <3> TAKE k \in 1 .. call + 1
    <3>1. CASE k = call + 1
      BY <3>1, <1>1, <1>2
    <3>2. CASE k \in 1 .. call
      <4>1. <<batch, k>> # <<batch, call + 1>>
        BY <3>2, <1>1
      <4> QED
        BY <4>1, <3>2, <1>1, <1>2, <1>3
    <3> QED
      BY <3>1, <3>2, <1>1
  <2> QED
    BY <1>1, <2>1, <2>2 DEF BatchTail
<1>6. SequentialReports'
  <2> SUFFICES ASSUME pc \in {"sequential", "truncated"}, NEW k \in 1 .. call
               PROVE  tool'[<<batch, k>>] = "reported"
    BY <1>1 DEF SequentialReports
  <2>1. tool[<<batch, call>>] = "reported"
    BY <1>1 DEF StartCall, BetweenCalls, Current
  <2>2. tool[<<batch, k>>] = "reported"
    BY <2>1, <1>1 DEF BatchInv, SequentialReports
  <2>3. <<batch, k>> # <<batch, call + 1>>
    BY <1>1
  <2> QED
    BY <2>2, <2>3, <1>1, <1>2
<1>7. NotBegun'
  <2> SUFFICES ASSUME NEW c \in Calls, c[1] > batch \/ (c[1] = batch /\ c[2] > call + 1)
               PROVE  tool'[c] = "none"
    BY <1>1 DEF NotBegun
  <2>1. c[2] \in Nat /\ c # <<batch, call + 1>>
    BY <1>1, BoundAssumption DEF Calls, TypeOK, DataTypes
  <2>2. tool[c] = "none"
    BY <2>1, <1>1 DEF BatchInv, NotBegun
  <2> QED
    BY <2>1, <2>2, <1>1
<1>8. ResultsFollowTheirCall'
  BY <1>1 DEF BatchInv, ResultsFollowTheirCall, ResultsFollow, Answers
<1> QED
  BY <1>4, <1>5, <1>6, <1>7, <1>8 DEF BatchInv

\* The first call without a result gets it.
LEMMA ReportStep ==
  ASSUME TypeOK, BatchInv, pc \in BatchPcs, UNCHANGED <<pc, batch, size, call>>,
         NEW i \in 1 .. call,
         tool[<<batch, i>>] # "reported",
         \A k \in 1 .. i - 1 : tool[<<batch, k>>] = "reported",
         tool' = [tool EXCEPT ![<<batch, i>>] = "reported"],
         transcript' = Append(transcript, Result(<<batch, i>>))
  PROVE  BatchInv'
<1>1. /\ call \in Nat /\ size \in Nat /\ call <= size
      /\ tool \in [Calls -> Statuses] /\ transcript \in Seq(Entries)
  BY BoundAssumption DEF TypeOK, DataTypes, BatchInv, BatchOpen
<1>2. \A k \in 1 .. call : <<batch, k>> \in Calls
  BY <1>1, CurrentCalls DEF BatchInv
<1>3. PICK r \in 0 .. call :
          TailIs(r) /\ \A k \in 1 .. call : tool[<<batch, k>>] = "reported" <=> k <= r
  BY <1>1 DEF BatchInv, BatchTail
<1>4. r = i - 1
  <2>1. ~(i <= r)
    BY <1>3
  <2>2. CASE i = 1
    BY <2>1, <2>2
  <2>3. CASE i > 1
    <3>1. i - 1 \in 1 .. call /\ tool[<<batch, i - 1>>] = "reported"
      BY <2>3, <1>1
    <3>2. i - 1 <= r
      BY <3>1, <1>3
    <3> QED
      BY <3>2, <2>1, <1>1
  <2> QED
    BY <2>2, <2>3
<1> DEFINE n == Len(transcript) - (i - 1)
<1>5. /\ n \in 1 .. Len(transcript)
      /\ transcript[n].role = "assistant"
      /\ transcript[n].batch = batch /\ transcript[n].calls = size
      /\ \A k \in n + 1 .. Len(transcript) : transcript[k] = Result(<<batch, k - n>>)
  BY <1>3, <1>4 DEF TailIs
<1>6. /\ Len(transcript') = Len(transcript) + 1 /\ Len(transcript) \in Nat
      /\ \A k \in 1 .. Len(transcript) : transcript'[k] = transcript[k]
      /\ transcript'[Len(transcript) + 1] = Result(<<batch, i>>)
  BY <1>1
<1>7. BatchTail'
  <2>1. TailIs(i)'
    <3>1. /\ Len(transcript') - i = n
          /\ n \in 1 .. Len(transcript')
          /\ transcript'[n] = transcript[n]
      BY <1>5, <1>6
    <3>2. ASSUME NEW k \in n + 1 .. Len(transcript')
          PROVE  transcript'[k] = Result(<<batch, k - n>>)
      <4>1. CASE k \in n + 1 .. Len(transcript)
        <5>1. transcript'[k] = transcript[k]
          BY <4>1, <1>5, <1>6
        <5> QED
          BY <5>1, <4>1, <1>5
      <4>2. CASE k = Len(transcript) + 1
        <5>1. k - n = i
          BY <4>2, <1>6
        <5> QED
          BY <5>1, <4>2, <1>6
      <4> QED
        BY <4>1, <4>2, <1>5, <1>6
    <3> QED
      BY <3>1, <3>2, <1>5 DEF TailIs
  <2>2. \A k \in 1 .. call : tool'[<<batch, k>>] = "reported" <=> k <= i
    <3> TAKE k \in 1 .. call
    <3>1. CASE k = i
      BY <3>1, <1>1, <1>2
    <3>2. CASE k # i
      <4>1. <<batch, k>> # <<batch, i>>
        BY <3>2
      <4>2. k <= r <=> k <= i
        BY <3>2, <1>4, <1>1
      <4> QED
        BY <4>1, <4>2, <1>1, <1>2, <1>3
    <3> QED
      BY <3>1, <3>2
  <2> QED
    BY <1>1, <2>1, <2>2 DEF BatchTail
<1>8. BatchOpen'
  BY DEF BatchInv, BatchOpen
<1>9. SequentialReports'
  <2> SUFFICES ASSUME pc \in {"sequential", "truncated"}, NEW k \in 1 .. call - 1
               PROVE  tool'[<<batch, k>>] = "reported"
    BY DEF SequentialReports
  <2>1. tool[<<batch, k>>] = "reported" /\ k \in 1 .. call
    BY <1>1 DEF BatchInv, SequentialReports
  <2> QED
    BY <2>1, <1>1, <1>2
<1>10. NotBegun'
  <2> SUFFICES ASSUME NEW c \in Calls, c[1] > batch \/ (c[1] = batch /\ c[2] > call)
               PROVE  tool'[c] = "none"
    BY DEF NotBegun
  <2>1. c[2] \in Nat /\ batch \in Nat /\ c # <<batch, i>>
    BY <1>1, BoundAssumption DEF Calls, TypeOK, DataTypes
  <2>2. tool[c] = "none"
    BY DEF BatchInv, NotBegun
  <2> QED
    BY <2>1, <2>2, <1>1
<1>11. ResultsFollowTheirCall'
  <2>1. ResultsFollow(transcript')
    <3>1. i \in Nat \ {0} /\ i <= transcript[n].calls /\ n = Len(transcript) - (i - 1)
      BY <1>1, <1>5
    <3>2. ResultsFollow(transcript)
      BY DEF BatchInv, ResultsFollowTheirCall
    <3> HIDE DEF n
    <3>3. ResultsFollow(Append(transcript, Result(<<batch, i>>)))
      BY <1>1, <1>5, <3>1, <3>2, AppendResult
    <3> QED
      BY <3>3
  <2> QED
    BY <2>1 DEF ResultsFollowTheirCall, ResultsFollow, Answers
<1> QED
  BY <1>7, <1>8, <1>9, <1>10, <1>11 DEF BatchInv

\* Initially there is no batch.
LEMMA InitBatches == Init => BatchInv
  BY BoundAssumption
  DEF Init, BatchInv, BatchOpen, BatchTail, SequentialReports, NotBegun, ResultsFollowTheirCall,
      ResultsFollow, BatchPcs

\* Every step keeps the batches whole.
LEMMA NextBatches == IInv /\ [Next]_vars => BatchInv'
<1> SUFFICES ASSUME IInv, [Next]_vars PROVE BatchInv'
  OBVIOUS
<1> USE DEF IInv, queueVars, batchVars
<1>1. TypeOK /\ BatchInv
  OBVIOUS
<1>2. TypeOK'
  BY NextType DEF BatchInv
<1>3. CASE Host
  <2>1. ASSUME NEW m \in Msgs, Steer(m) \/ FollowUp(m) PROVE BatchInv'
    BY <1>1, <2>1, QuietStep DEF Steer, FollowUp, ToolKept
  <2>2. ASSUME NEW m \in Msgs, Prompt(m) PROVE BatchInv'
    BY <1>1, <2>2, QuietStep DEF Prompt, StartRun, ToolKept, BatchPcs
  <2>3. CASE ClearQueues \/ Abort
    BY <1>1, <2>3, QuietStep DEF ClearQueues, Abort, ToolKept
  <2>4. CASE Reset
    <3>1. ResultsFollow(<<>>)
      BY DEF ResultsFollow
    <3> QED
      BY <1>1, <2>4, <3>1, OutsideStep DEF Reset, BatchPcs
  <2>5. CASE DropFailedReply
    BY <1>1, <2>5, DropLast, OutsideStep
    DEF DropFailedReply, BatchPcs, TypeOK, DataTypes, BatchInv, ResultsFollowTheirCall
  <2>6. CASE ContinueTurn
    BY <1>1, <2>6, QuietStep DEF ContinueTurn, StartRun, ToolKept, BatchPcs
  <2>7. CASE ContinueQueued
    BY <1>1, <2>7, QuietStep DEF ContinueQueued, StartRun, ToolKept, BatchPcs
  <2> QED
    BY <1>3, <2>1, <2>2, <2>3, <2>4, <2>5, <2>6, <2>7 DEF Host
<1>4. CASE Turn
  <2>1. ASSUME NEW m, pc' \notin BatchPcs, transcript' = Append(transcript, User(m)),
               UNCHANGED <<batch, tool>>
        PROVE  BatchInv'
    <3>1. User(m).role # "toolResult"
      BY DEF User
    <3>2. ResultsFollow(transcript')
      BY <1>1, <2>1, <3>1, AppendOther DEF TypeOK, DataTypes, BatchInv, ResultsFollowTheirCall
    <3> QED
      BY <1>1, <2>1, <3>2, OutsideStep
  <2>2. CASE EmitPrompt
    BY <2>1, <2>2 DEF EmitPrompt, EmitMessage, BatchPcs
  <2>3. CASE Inject
    BY <2>1, <2>3 DEF Inject, EmitMessage, BatchPcs
  <2>4. CASE InitialPoll \/ Request
    BY <1>1, <2>4, QuietStep DEF InitialPoll, Request, ToolKept, BatchPcs
  <2>5. ASSUME NEW stop \in Stops, NEW n \in 0 .. MaxCalls, Reply(stop, n) PROVE BatchInv'
    BY <1>1, <1>2, <2>5, ReplyStep
  <2>6. CASE TurnEnd
    BY <1>1, <2>6, QuietStep DEF TurnEnd, ToolKept, BatchPcs
  <2>7. CASE PollSteering
    BY <1>1, <2>7, QuietStep DEF PollSteering, ToolKept, BatchPcs
  <2>8. CASE PollFollowUps
    BY <1>1, <2>8, QuietStep DEF PollFollowUps, ToolKept, BatchPcs
  <2>9. CASE AgentEnd \/ FinishRun
    BY <1>1, <2>9, QuietStep DEF AgentEnd, FinishRun, ToolKept, BatchPcs
  <2> QED
    BY <1>4, <2>2, <2>3, <2>4, <2>5, <2>6, <2>7, <2>8, <2>9 DEF Turn
<1>5. CASE Batch
  <2>1. CASE StartCall
    BY <1>1, <2>1, StartStep
  <2>2. CASE PrepareCall \/ FailTruncatedCall
    <3>1. ToolKept
      BY <2>2 DEF PrepareCall, FailTruncatedCall, ToolKept, TypeOK, DataTypes
    <3> QED
      BY <1>1, <2>2, <3>1, QuietStep DEF PrepareCall, FailTruncatedCall
  <2>3. CASE Launch
    <3>1. ToolKept
      BY <2>3 DEF Launch, ToolKept, TypeOK, DataTypes
    <3> QED
      BY <1>1, <2>3, <3>1, QuietStep DEF Launch, BatchPcs
  <2>4. CASE ReportCall
    <3>1. call \in 1 .. call
      BY <2>4 DEF ReportCall, TypeOK, DataTypes
    <3>2. /\ pc \in BatchPcs /\ tool[<<batch, call>>] # "reported"
          /\ \A k \in 1 .. call - 1 : tool[<<batch, k>>] = "reported"
      BY <2>4 DEF ReportCall, Current, BatchPcs, BatchInv, SequentialReports
    <3> QED
      BY <1>1, <2>4, <3>1, <3>2, ReportStep DEF ReportCall, EmitMessage, Current
  <2>5. CASE FinishBatch
    BY <1>1, <2>5, QuietStep DEF FinishBatch, ToolKept, BatchPcs
  <2>6. ASSUME NEW i \in 1 .. MaxCalls, ReportInOrder(i) PROVE BatchInv'
    <3>1. i \in 1 .. call /\ pc \in BatchPcs
      BY <2>6 DEF ReportInOrder, TypeOK, DataTypes, BatchPcs
    <3> QED
      BY <1>1, <2>6, <3>1, ReportStep DEF ReportInOrder, EmitMessage
  <2> QED
    BY <1>5, <2>1, <2>2, <2>3, <2>4, <2>5, <2>6 DEF Batch
<1>6. CASE Failure
  <2>1. CASE Fail
    <3>1. ToolKept
      BY <2>1 DEF Fail, ToolKept, TypeOK, DataTypes
    <3> QED
      BY <1>1, <2>1, <3>1, QuietStep DEF Fail, BatchPcs
  <2>2. CASE FailMessage
    <3> DEFINE entry == Assistant(IF aborted THEN "aborted" ELSE "error", 0, 0)
    <3>1. entry.role # "toolResult"
      BY DEF Assistant
    <3> HIDE DEF entry
    <3>2. ResultsFollow(Append(transcript, entry))
      BY <1>1, <3>1, AppendOther DEF TypeOK, DataTypes, BatchInv, ResultsFollowTheirCall
    <3>3. transcript' = Append(transcript, entry)
      BY <2>2 DEF FailMessage, EmitMessage, entry
    <3> QED
      BY <1>1, <2>2, <3>2, <3>3, OutsideStep DEF FailMessage, BatchPcs
  <2>3. CASE FailEnd
    BY <1>1, <2>3, QuietStep DEF FailEnd, ToolKept, BatchPcs
  <2> QED
    BY <1>6, <2>1, <2>2, <2>3 DEF Failure
<1>7. ASSUME NEW c \in Calls, ToolStep(c) PROVE BatchInv'
  <2>1. ToolKept
    BY <1>7 DEF ToolStep, SettleCall, EndCall, ToolKept, TypeOK, DataTypes
  <2> QED
    BY <1>1, <1>7, <2>1, QuietStep DEF ToolStep, SettleCall, EndCall
<1>8. CASE UNCHANGED vars
  BY <1>1, <1>8, QuietStep DEF vars, ToolKept
<1> QED
  BY <1>3, <1>4, <1>5, <1>6, <1>7, <1>8 DEF Next

\* Every reachable state satisfies the invariant of types and batches.
LEMMA Invariance == Spec => []IInv
<1>1. Init => IInv
  BY InitType, InitBatches DEF IInv
<1>2. IInv /\ [Next]_vars => IInv'
  BY NextType, NextBatches DEF IInv, BatchInv
<1> QED
  BY <1>1, <1>2, PTL DEF Spec

\* Every variable of the runtime keeps its type.
THEOREM TypeCorrect == Spec => []TypeOK
<1>1. IInv => TypeOK
  BY DEF IInv
<1> QED
  BY <1>1, Invariance, PTL

\* However calls complete, and whatever is steered, aborted or thrown, a tool
\* result stands behind the message that made its call.
THEOREM BatchesStayWhole == Spec => []ResultsFollowTheirCall
<1>1. IInv => ResultsFollowTheirCall
  BY DEF IInv, BatchInv
<1> QED
  BY <1>1, Invariance, PTL

-----------------------------------------------------------------------------
(* When no listener throws, a run leaves nothing behind.                    *)

\* The agent_end of a run is the last thing it emits.
EndIsLast ==
    /\ ended => pc \in {"agentEnd", "failEnd"}
    /\ ~late

\* A batch in progress was made by the active run.
BatchOfRun == base <= batch /\ (pc \in BatchPcs => base < batch)

\* A call executes only while the run is at it, or waits for its whole batch.
ActiveCalls ==
    \A c \in Calls :
        tool[c] \in {"executing", "settled"} =>
            /\ pc \in {"sequential", "parallel", "awaiting"}
            /\ c[1] = batch /\ c[2] <= call
            /\ pc # "awaiting" => c[2] = call

CleanInv == EndIsLast /\ BatchOfRun /\ ActiveCalls

\* Initially there is nothing to leave behind.
LEMMA InitClean == Init => CleanInv
  BY BoundAssumption DEF Init, CleanInv, EndIsLast, BatchOfRun, ActiveCalls, BatchPcs

\* What is emitted before agent_end is not late.
LEMMA EmitEarly ==
  ASSUME EndIsLast, pc \notin {"agentEnd", "failEnd"}, late' = (late \/ ended) \/ late' = late,
         pc' \in {"agentEnd", "failEnd"} \/ ended' = ended
  PROVE  EndIsLast'
<1>1. ~ended /\ ~late
  BY DEF EndIsLast
<1>2. ~late'
  BY <1>1
<1>3. ended' => pc' \in {"agentEnd", "failEnd"}
  BY <1>1
<1> QED
  BY <1>2, <1>3 DEF EndIsLast

\* No step emits an event after agent_end.
LEMMA NextEndIsLast ==
  ASSUME ~ListenersFail, IInv, CleanInv, [Next]_vars
  PROVE  EndIsLast'
<1> USE DEF CleanInv, EndIsLast, queueVars, batchVars, BatchPcs
<1>1. CASE Host
  <2>1. ASSUME NEW m \in Msgs, Steer(m) \/ FollowUp(m) \/ Prompt(m) PROVE EndIsLast'
    BY <2>1 DEF Steer, FollowUp, Prompt, StartRun
  <2>2. CASE ClearQueues \/ Abort \/ Reset \/ DropFailedReply
    BY <2>2 DEF ClearQueues, Abort, Reset, DropFailedReply
  <2>3. CASE ContinueTurn \/ ContinueQueued
    BY <2>3 DEF ContinueTurn, ContinueQueued, StartRun
  <2> QED
    BY <1>1, <2>1, <2>2, <2>3 DEF Host
<1>2. CASE Turn
  <2>1. CASE EmitPrompt \/ InitialPoll \/ Inject \/ Request
    BY <2>1, EmitEarly DEF EmitPrompt, InitialPoll, Inject, Request, EmitMessage
  <2>2. ASSUME NEW stop \in Stops, NEW n \in 0 .. MaxCalls, Reply(stop, n) PROVE EndIsLast'
    BY <2>2, EmitEarly DEF Reply, EmitMessage
  <2>3. CASE TurnEnd \/ PollSteering \/ PollFollowUps
    BY <2>3, EmitEarly DEF TurnEnd, PollSteering, PollFollowUps, EmitEvent
  <2>4. CASE AgentEnd
    BY <2>4, EmitEarly DEF AgentEnd, EmitEvent
  <2>5. CASE FinishRun
    BY <2>5 DEF FinishRun
  <2> QED
    BY <1>2, <2>1, <2>2, <2>3, <2>4, <2>5 DEF Turn
<1>3. CASE Batch
  <2>1. CASE StartCall \/ PrepareCall \/ FailTruncatedCall \/ Launch
    BY <2>1, EmitEarly DEF StartCall, PrepareCall, FailTruncatedCall, Launch, EmitEvent
  <2>2. CASE ReportCall \/ FinishBatch
    BY <2>2, EmitEarly DEF ReportCall, FinishBatch, EmitMessage
  <2>3. ASSUME NEW i \in 1 .. MaxCalls, ReportInOrder(i) PROVE EndIsLast'
    BY <2>3, EmitEarly DEF ReportInOrder, EmitMessage
  <2> QED
    BY <1>3, <2>1, <2>2, <2>3 DEF Batch
<1>4. CASE Failure
  BY <1>4, EmitEarly DEF Failure, Fail, MayThrow, FailMessage, FailEnd, EmitMessage, EmitEvent
<1>5. ASSUME NEW c \in Calls, ToolStep(c) PROVE EndIsLast'
  <2>1. CASE SettleCall(c)
    BY <2>1 DEF SettleCall
  <2>2. CASE EndCall(c)
    <3>1. pc \in BatchPcs /\ ~(c[1] <= base)
      BY <2>2, BoundAssumption
      DEF EndCall, ActiveCalls, BatchOfRun, IInv, TypeOK, DataTypes, Calls, Batches
    <3>2. /\ late' = (late \/ (pc # "idle" /\ (ended \/ c[1] <= base)))
          /\ UNCHANGED <<pc, ended>>
      BY <2>2 DEF EndCall
    <3> QED
      BY <3>1, <3>2
  <2> QED
    BY <1>5, <2>1, <2>2 DEF ToolStep
<1>6. CASE UNCHANGED vars
  BY <1>6 DEF vars
<1> QED
  BY <1>1, <1>2, <1>3, <1>4, <1>5, <1>6 DEF Next

\* A batch is made within the active run.
LEMMA NextBatchOfRun ==
  ASSUME IInv, CleanInv, [Next]_vars
  PROVE  BatchOfRun'
<1> USE DEF CleanInv, BatchOfRun, queueVars, batchVars, BatchPcs
<1>1. batch \in Nat /\ base \in Nat
  BY BoundAssumption DEF IInv, TypeOK, DataTypes
<1>2. CASE Host
  <2>1. ASSUME NEW msgs, NEW skip, StartRun(msgs, skip) PROVE BatchOfRun'
    BY <1>1, <2>1 DEF StartRun
  <2>2. ASSUME UNCHANGED <<pc, batch, base>> PROVE BatchOfRun'
    BY <2>2
  <2> QED
    BY <1>2, <2>1, <2>2
    DEF Host, Steer, FollowUp, Prompt, ClearQueues, Abort, Reset, DropFailedReply, ContinueTurn,
        ContinueQueued
<1>3. CASE Turn
  <2>1. ASSUME NEW stop \in Stops, NEW n \in 0 .. MaxCalls, Reply(stop, n) PROVE BatchOfRun'
    BY <1>1, <2>1 DEF Reply
  <2> QED
    BY <1>1, <1>3, <2>1
    DEF Turn, EmitPrompt, InitialPoll, Inject, Request, TurnEnd, PollSteering, PollFollowUps,
        AgentEnd, FinishRun
<1>4. CASE Batch
  <2>1. UNCHANGED <<batch, base>>
    BY <1>4
    DEF Batch, StartCall, PrepareCall, FailTruncatedCall, Launch, ReportCall, FinishBatch,
        ReportInOrder
  <2>2. pc \in BatchPcs
    BY <1>4
    DEF Batch, StartCall, PrepareCall, FailTruncatedCall, Launch, ReportCall, FinishBatch,
        ReportInOrder
  <2> QED
    BY <2>1, <2>2
<1>5. CASE Failure
  BY <1>1, <1>5 DEF Failure, Fail, FailMessage, FailEnd
<1>6. ASSUME NEW c \in Calls, ToolStep(c) PROVE BatchOfRun'
  BY <1>1, <1>6 DEF ToolStep, SettleCall, EndCall
<1>7. CASE UNCHANGED vars
  BY <1>1, <1>7 DEF vars
<1> QED
  BY <1>2, <1>3, <1>4, <1>5, <1>6, <1>7 DEF Next

Active(c) == tool[c] \in {"executing", "settled"}

\* A step outside a batch, or one that activates no call and stays at its place.
LEMMA ActiveKept ==
  ASSUME ActiveCalls, \A c \in Calls : Active(c)' => Active(c),
         pc \notin {"sequential", "parallel", "awaiting"} \/ UNCHANGED <<pc, batch, call>>
  PROVE  ActiveCalls'
  BY DEF ActiveCalls, Active

\* No call goes on executing when its run leaves the batch.
LEMMA NextActive ==
  ASSUME ~ListenersFail, IInv, CleanInv, [Next]_vars
  PROVE  ActiveCalls'
<1> USE DEF CleanInv, queueVars, batchVars, Active
<1>1. /\ batch \in Nat /\ call \in Nat /\ size \in Nat /\ tool \in [Calls -> Statuses]
      /\ \A c \in Calls : c = <<c[1], c[2]>> /\ c[1] \in Nat /\ c[2] \in Nat \ {0}
  BY BoundAssumption DEF IInv, TypeOK, DataTypes, Calls, Batches
<1>2. CASE Host
  BY <1>2, ActiveKept
  DEF Host, Steer, FollowUp, Prompt, ClearQueues, Abort, Reset, DropFailedReply, ContinueTurn,
      ContinueQueued, StartRun
<1>3. CASE Turn
  <2>1. ASSUME NEW stop \in Stops, NEW n \in 0 .. MaxCalls, Reply(stop, n) PROVE ActiveCalls'
    BY <2>1, ActiveKept DEF Reply
  <2> QED
    BY <1>3, <2>1, ActiveKept
    DEF Turn, EmitPrompt, InitialPoll, Inject, Request, TurnEnd, PollSteering, PollFollowUps,
        AgentEnd, FinishRun
<1>4. CASE Batch
  <2>1. ASSUME pc \in {"sequential", "parallel"}, BetweenCalls, NEW c \in Calls, Active(c)
        PROVE  FALSE
    <3>1. c = Current /\ call > 0
      BY <1>1, <2>1 DEF ActiveCalls, Current
    <3> QED
      BY <2>1, <3>1 DEF BetweenCalls
  <2>2. CASE StartCall
    <3>1. \A c \in Calls : tool'[c] = tool[c] \/ tool'[c] = "started"
      BY <1>1, <2>2 DEF StartCall
    <3> QED
      BY <2>1, <2>2, <3>1 DEF StartCall, ActiveCalls
  <2>3. CASE PrepareCall
    <3>1. /\ UNCHANGED <<pc, batch, call>> /\ pc \in {"sequential", "parallel"}
          /\ \A c \in Calls : c # Current => tool'[c] = tool[c]
      BY <1>1, <2>3 DEF PrepareCall
    <3>2. ASSUME NEW c \in Calls, Active(c)'
          PROVE  c[1] = batch /\ c[2] = call
      BY <1>1, <3>1, <3>2 DEF ActiveCalls, Current
    <3> QED
      BY <1>1, <3>1, <3>2 DEF ActiveCalls
  <2>4. CASE FailTruncatedCall
    <3>1. \A c \in Calls : tool'[c] = tool[c] \/ tool'[c] = "ended"
      BY <1>1, <2>4 DEF FailTruncatedCall
    <3> QED
      BY <2>4, <3>1, ActiveKept DEF FailTruncatedCall
  <2>5. CASE Launch
    <3> SUFFICES ASSUME NEW c \in Calls, Active(c)'
                 PROVE  c[1] = batch /\ c[2] <= call
      BY <2>5 DEF Launch, ActiveCalls
    <3>1. InBatch(c) /\ tool[c] = "prepared"
      BY <2>1, <2>5, <1>1 DEF Launch
    <3>2. pc \in BatchPcs
      BY <2>5 DEF Launch, BatchPcs
    <3> QED
      BY <1>1, <3>1, <3>2 DEF InBatch, IInv, BatchInv, NotBegun
  <2>6. CASE ReportCall
    <3>1. \A c \in Calls : tool'[c] = tool[c] \/ tool'[c] = "reported"
      BY <1>1, <2>6 DEF ReportCall
    <3> QED
      BY <2>6, <3>1, ActiveKept DEF ReportCall
  <2>7. ASSUME NEW i \in 1 .. MaxCalls, ReportInOrder(i) PROVE ActiveCalls'
    <3>1. \A c \in Calls : tool'[c] = tool[c] \/ tool'[c] = "reported"
      BY <1>1, <2>7 DEF ReportInOrder
    <3> QED
      BY <2>7, <3>1, ActiveKept DEF ReportInOrder
  <2>8. CASE FinishBatch
    <3> SUFFICES ASSUME NEW c \in Calls, Active(c) PROVE FALSE
      BY <2>8 DEF FinishBatch, ActiveCalls
    <3>1. CASE pc = "awaiting"
      <4>1. c[2] \in 1 .. call /\ c = <<batch, c[2]>>
        BY <1>1, <3>1 DEF ActiveCalls
      <4> QED
        BY <2>8, <3>1, <4>1 DEF FinishBatch
    <3>2. CASE pc # "awaiting"
      BY <2>1, <2>8, <3>2 DEF FinishBatch, ActiveCalls
    <3> QED
      BY <3>1, <3>2
  <2> QED
    BY <1>4, <2>2, <2>3, <2>4, <2>5, <2>6, <2>7, <2>8 DEF Batch
<1>5. CASE Failure
  <2>1. CASE Fail
    <3>1. pc = "stream" /\ tool' = tool
      BY <2>1 DEF Fail, MayThrow
    <3> QED
      BY <3>1, ActiveKept
  <2>2. CASE FailMessage \/ FailEnd
    BY <2>2, ActiveKept DEF FailMessage, FailEnd
  <2> QED
    BY <1>5, <2>1, <2>2 DEF Failure
<1>6. ASSUME NEW c \in Calls, ToolStep(c) PROVE ActiveCalls'
  <2>1. \A d \in Calls : Active(d)' => Active(d)
    BY <1>1, <1>6 DEF ToolStep, SettleCall, EndCall
  <2> QED
    BY <1>6, <2>1, ActiveKept DEF ToolStep, SettleCall, EndCall
<1>7. CASE UNCHANGED vars
  BY <1>7, ActiveKept DEF vars
<1> QED
  BY <1>2, <1>3, <1>4, <1>5, <1>6, <1>7 DEF Next

\* When no listener throws, a run leaves nothing behind.
LEMMA CleanInvariance ==
  ASSUME ~ListenersFail
  PROVE  Spec => [](IInv /\ CleanInv)
<1>1. Init => CleanInv
  BY InitClean
<1>2. IInv /\ CleanInv /\ [Next]_vars => CleanInv'
  BY NextEndIsLast, NextBatchOfRun, NextActive DEF CleanInv
<1> QED
  BY <1>1, <1>2, Invariance, PTL DEF Spec

\* If no listener throws, a run's agent_end is the last that is heard of it and
\* no tool outlives it.
THEOREM RunsAreClean ==
  ASSUME ~ListenersFail
  PROVE  Spec => []RunsEndCleanly
<1>1. CleanInv => RunsEndCleanly
  BY DEF CleanInv, EndIsLast, ActiveCalls, RunsEndCleanly, AgentEndIsFinal, QuietWhenIdle
<1> QED
  BY <1>1, CleanInvariance, PTL

-----------------------------------------------------------------------------
(* Messages: where each of them is.                                         *)

Distinct(s) == \A i, j \in DOMAIN s : s[i] = s[j] => i = j

\* The messages in the transcript, and those that the host has handed over.
Spoken == {m \in Msgs : \E i \in DOMAIN transcript : transcript[i] = User(m)}
Handed == {m \in Msgs : sent[m] # "no"}

\* Four places share what was handed over and is not gone.
Parted(S, F, T, P, H, G) ==
    /\ S \cap F = {} /\ S \cap T = {} /\ S \cap P = {}
    /\ F \cap T = {} /\ F \cap P = {} /\ T \cap P = {}
    /\ S \cup F \cup T \cup P = H \ G
    /\ G \subseteq H

Kept == Parted(Elements(steering), Elements(followUps), Elements(todo), Spoken, Handed, gone)

\* No message is twice in one of them.
Once ==
    /\ Distinct(steering) /\ Distinct(followUps) /\ Distinct(todo)
    /\ \A i, j \in DOMAIN transcript :
          transcript[i].role = "user" /\ transcript[i] = transcript[j] => i = j

\* A run has messages in its hands only until it has said them.
HandsEmpty == pc \notin {"prompts", "inject"} => todo = <<>>

MessageInv == Kept /\ Once /\ HandsEmpty

LEMMA EmptyHolds == Elements(<<>>) = {} /\ Distinct(<<>>)
BY DEF Elements, Distinct

LEMMA SingleHolds ==
  ASSUME NEW m \in Msgs
  PROVE  Elements(<<m>>) = {m} /\ Distinct(<<m>>)
BY DEF Elements, Distinct

\* A sequence without its first element.
LEMMA TailHolds ==
  ASSUME NEW s \in Seq(Msgs), s # <<>>, Distinct(s)
  PROVE  /\ Distinct(Tail(s)) /\ Head(s) \in Elements(s)
         /\ Elements(Tail(s)) = Elements(s) \ {Head(s)}
<1>1. /\ Len(s) \in Nat /\ Len(s) > 0 /\ DOMAIN s = 1 .. Len(s) /\ Head(s) = s[1]
      /\ DOMAIN Tail(s) = 1 .. Len(s) - 1
      /\ \A i \in 1 .. Len(s) - 1 : Tail(s)[i] = s[i + 1]
  OBVIOUS
<1>2. \A i \in 1 .. Len(s) - 1 : i + 1 \in DOMAIN s /\ i + 1 # 1
  BY <1>1
<1>3. Distinct(Tail(s))
  BY <1>1, <1>2 DEF Distinct
<1>4. Head(s) \in Elements(s)
  BY <1>1 DEF Elements
<1>5. ASSUME NEW x \in Elements(Tail(s))
      PROVE  x \in Elements(s) /\ x # Head(s)
  <2>1. PICK i \in 1 .. Len(s) - 1 : x = s[i + 1]
    BY <1>1 DEF Elements
  <2> QED
    BY <1>1, <1>2, <2>1 DEF Elements, Distinct
<1>6. ASSUME NEW x \in Elements(s), x # Head(s)
      PROVE  x \in Elements(Tail(s))
  <2>1. PICK i \in DOMAIN s : x = s[i]
    BY DEF Elements
  <2>2. i - 1 \in 1 .. Len(s) - 1 /\ (i - 1) + 1 = i
    BY <1>1, <1>6, <2>1
  <2>3. Tail(s)[i - 1] = x
    BY <1>1, <2>1, <2>2
  <2> QED
    BY <1>1, <2>2, <2>3 DEF Elements
<1> QED
  BY <1>3, <1>4, <1>5, <1>6

LEMMA AppendHolds ==
  ASSUME NEW s \in Seq(Msgs), NEW m \in Msgs, Distinct(s), m \notin Elements(s)
  PROVE  Distinct(Append(s, m)) /\ Elements(Append(s, m)) = Elements(s) \cup {m}
<1>1. /\ Len(s) \in Nat /\ DOMAIN s = 1 .. Len(s) /\ DOMAIN Append(s, m) = 1 .. Len(s) + 1
      /\ \A i \in 1 .. Len(s) : Append(s, m)[i] = s[i]
      /\ Append(s, m)[Len(s) + 1] = m
  OBVIOUS
<1>2. \A i \in 1 .. Len(s) + 1 : i \in 1 .. Len(s) \/ i = Len(s) + 1
  BY <1>1
<1>3. Elements(Append(s, m)) = Elements(s) \cup {m}
  BY <1>1, <1>2 DEF Elements
<1>4. Distinct(Append(s, m))
  BY <1>1, <1>2 DEF Distinct, Elements
<1> QED
  BY <1>3, <1>4

\* A drain splits its queue.
LEMMA DrainSplits ==
  ASSUME NEW q \in Seq(Msgs), NEW mode, Distinct(q)
  PROVE  /\ Distinct(Drained(mode, q)) /\ Distinct(Rest(mode, q))
         /\ Elements(Drained(mode, q)) \cap Elements(Rest(mode, q)) = {}
         /\ Elements(Drained(mode, q)) \cup Elements(Rest(mode, q)) = Elements(q)
<1>1. CASE mode = "all" \/ q = <<>>
  <2>1. Drained(mode, q) = q /\ Rest(mode, q) = <<>>
    BY <1>1 DEF Drained, Rest
  <2> QED
    BY <2>1, EmptyHolds
<1>2. CASE ~(mode = "all" \/ q = <<>>)
  <2>1. Drained(mode, q) = <<Head(q)>> /\ Rest(mode, q) = Tail(q) /\ Head(q) \in Msgs
    BY <1>2 DEF Drained, Rest
  <2>2. Elements(<<Head(q)>>) = {Head(q)} /\ Distinct(<<Head(q)>>)
    BY <2>1, SingleHolds
  <2>3. Distinct(Tail(q)) /\ Elements(Tail(q)) = Elements(q) \ {Head(q)} /\ Head(q) \in Elements(q)
    BY <1>2, TailHolds
  <2> QED
    BY <2>1, <2>2, <2>3
<1> QED
  BY <1>1, <1>2

LEMMA UsersDiffer == \A m, n \in Msgs : User(m).role = "user" /\ (User(m) = User(n) => m = n)
BY DEF User

\* The transcript with one more entry.
LEMMA EntrySpoken ==
  ASSUME TypeOK, Once, NEW e, transcript' = Append(transcript, e)
  PROVE  /\ Spoken' = Spoken \cup {m \in Msgs : e = User(m)}
         /\ e.role # "user" \/ (\E m \in Msgs \ Spoken : e = User(m)) =>
              \A i, j \in DOMAIN transcript' :
                 transcript'[i].role = "user" /\ transcript'[i] = transcript'[j] => i = j
<1>1. transcript \in Seq(Entries)
  BY DEF TypeOK, DataTypes
<1>2. /\ Len(transcript) \in Nat /\ DOMAIN transcript = 1 .. Len(transcript)
      /\ DOMAIN transcript' = 1 .. Len(transcript) + 1
      /\ \A i \in 1 .. Len(transcript) : transcript'[i] = transcript[i]
      /\ transcript'[Len(transcript) + 1] = e
  BY <1>1
<1>3. \A i \in 1 .. Len(transcript) + 1 : i \in 1 .. Len(transcript) \/ i = Len(transcript) + 1
  BY <1>2
<1>4. Spoken' = Spoken \cup {m \in Msgs : e = User(m)}
  BY <1>2, <1>3 DEF Spoken
<1>5. ASSUME e.role # "user" \/ (\E m \in Msgs \ Spoken : e = User(m)),
             NEW i \in DOMAIN transcript', NEW j \in DOMAIN transcript',
             transcript'[i].role = "user", transcript'[i] = transcript'[j]
      PROVE  i = j
  <2>1. CASE i \in DOMAIN transcript /\ j \in DOMAIN transcript
    BY <1>2, <1>5, <2>1 DEF Once
  <2>2. CASE i = Len(transcript) + 1 /\ j = Len(transcript) + 1
    BY <2>2
  <2>3. CASE i \in DOMAIN transcript /\ j = Len(transcript) + 1
    BY <1>2, <1>5, <2>3 DEF Spoken
  <2>4. CASE i = Len(transcript) + 1 /\ j \in DOMAIN transcript
    BY <1>2, <1>5, <2>4 DEF Spoken
  <2> QED
    BY <1>2, <1>3, <2>1, <2>2, <2>3, <2>4
<1> QED
  BY <1>4, <1>5

\* Nothing moves.
LEMMA NothingSaid ==
  ASSUME Kept, Once, UNCHANGED <<transcript, steering, followUps, todo, sent, gone>>
  PROVE  Kept' /\ Once'
BY DEF Kept, Once, Spoken, Handed

\* Something is said that the host has not handed over.
LEMMA OtherSaid ==
  ASSUME TypeOK, Kept, Once, NEW e, e.role # "user", transcript' = Append(transcript, e),
         UNCHANGED <<steering, followUps, todo, sent, gone>>
  PROVE  Kept' /\ Once'
<1>1. Spoken' = Spoken
  <2>1. \A m \in Msgs : e # User(m)
    BY UsersDiffer
  <2>2. Spoken' = Spoken \cup {m \in Msgs : e = User(m)}
    BY EntrySpoken
  <2> QED
    BY <2>1, <2>2
<1>2. Handed' = Handed
  BY DEF Handed
<1>3. Kept'
  BY <1>1, <1>2 DEF Kept
<1> QED
  BY <1>3, EntrySpoken DEF Once

\* The first message in the run's hands is said.
LEMMA HeadSaid ==
  ASSUME TypeOK, Kept, Once, todo # <<>>, transcript' = Append(transcript, User(Head(todo))),
         todo' = Tail(todo), UNCHANGED <<steering, followUps, sent, gone>>
  PROVE  Kept' /\ Once'
<1> DEFINE m == Head(todo)
<1>1. todo \in Seq(Msgs) /\ m \in Msgs
  BY DEF TypeOK, DataTypes
<1>2. Distinct(todo') /\ m \in Elements(todo) /\ Elements(todo') = Elements(todo) \ {m}
  BY <1>1, TailHolds DEF Once
<1> HIDE DEF m
<1>3. m \notin Spoken
  BY <1>2 DEF Kept, Parted
<1>4. {n \in Msgs : User(m) = User(n)} = {m}
  BY <1>1, UsersDiffer
<1>5. Spoken' = Spoken \cup {m}
  BY <1>4, EntrySpoken DEF m
<1>6. Handed' = Handed
  BY DEF Handed
<1>7. Kept'
  BY <1>2, <1>5, <1>6 DEF Kept, Parted
<1>8. Once'
  <2>1. \E n \in Msgs \ Spoken : User(m) = User(n)
    BY <1>1, <1>3
  <2> QED
    BY <1>2, <2>1, EntrySpoken DEF Once, m
<1> QED
  BY <1>7, <1>8

\* A queue is drained into the run's hands.
LEMMA SteeringDrained ==
  ASSUME TypeOK, Kept, Once, todo = <<>>, NEW mode,
         todo' = Drained(mode, steering), steering' = Rest(mode, steering),
         UNCHANGED <<transcript, followUps, sent, gone>>
  PROVE  Kept' /\ Once'
<1>1. steering \in Seq(Msgs) /\ Elements(todo) = {}
  BY EmptyHolds DEF TypeOK, DataTypes
<1>2. /\ Distinct(todo') /\ Distinct(steering') /\ Elements(todo') \cap Elements(steering') = {}
      /\ Elements(todo') \cup Elements(steering') = Elements(steering)
  BY <1>1, DrainSplits DEF Once
<1>3. Spoken' = Spoken /\ Handed' = Handed
  BY DEF Spoken, Handed
<1>4. Kept'
  BY <1>1, <1>2, <1>3 DEF Kept, Parted
<1> QED
  BY <1>2, <1>4 DEF Once

LEMMA FollowUpsDrained ==
  ASSUME TypeOK, Kept, Once, todo = <<>>, NEW mode,
         todo' = Drained(mode, followUps), followUps' = Rest(mode, followUps),
         UNCHANGED <<transcript, steering, sent, gone>>
  PROVE  Kept' /\ Once'
<1>1. followUps \in Seq(Msgs) /\ Elements(todo) = {}
  BY EmptyHolds DEF TypeOK, DataTypes
<1>2. /\ Distinct(todo') /\ Distinct(followUps') /\ Elements(todo') \cap Elements(followUps') = {}
      /\ Elements(todo') \cup Elements(followUps') = Elements(followUps)
  BY <1>1, DrainSplits DEF Once
<1>3. Spoken' = Spoken /\ Handed' = Handed
  BY DEF Spoken, Handed
<1>4. Kept'
  BY <1>1, <1>2, <1>3 DEF Kept, Parted
<1> QED
  BY <1>2, <1>4 DEF Once

\* The host hands over one more.
LEMMA OneHanded ==
  ASSUME TypeOK, Kept, NEW m \in Msgs, Fresh(m), NEW how \in {"prompt", "steer", "followUp"},
         sent' = [sent EXCEPT ![m] = how]
  PROVE  /\ Handed' = Handed \cup {m}
         /\ m \notin Elements(steering) \cup Elements(followUps) \cup Elements(todo) \cup Spoken \cup gone
<1>1. m \notin Handed
  BY DEF Fresh, Handed
<1>2. Handed' = Handed \cup {m}
  BY DEF Handed, TypeOK, DataTypes
<1> QED
  BY <1>1, <1>2 DEF Kept, Parted

-----------------------------------------------------------------------------
(* The steps keep the messages.                                             *)

LEMMA SteerKeeps ==
  ASSUME TypeOK, MessageInv, NEW m \in Msgs, Steer(m)
  PROVE  MessageInv'
<1>1. Handed' = Handed \cup {m}
      /\ m \notin Elements(steering) \cup Elements(followUps) \cup Elements(todo) \cup Spoken \cup gone
  BY OneHanded DEF Steer, MessageInv
<1>2. Distinct(steering') /\ Elements(steering') = Elements(steering) \cup {m}
  BY <1>1, AppendHolds DEF Steer, TypeOK, DataTypes, MessageInv, Once
<1>3. UNCHANGED <<pc, transcript, followUps, todo, gone>> /\ Spoken' = Spoken
  BY DEF Steer, Spoken
<1>4. Kept'
  BY <1>1, <1>2, <1>3 DEF MessageInv, Kept, Parted
<1> QED
  BY <1>2, <1>3, <1>4 DEF MessageInv, Once, HandsEmpty

LEMMA FollowUpKeeps ==
  ASSUME TypeOK, MessageInv, NEW m \in Msgs, FollowUp(m)
  PROVE  MessageInv'
<1>1. Handed' = Handed \cup {m}
      /\ m \notin Elements(steering) \cup Elements(followUps) \cup Elements(todo) \cup Spoken \cup gone
  BY OneHanded DEF FollowUp, MessageInv
<1>2. Distinct(followUps') /\ Elements(followUps') = Elements(followUps) \cup {m}
  BY <1>1, AppendHolds DEF FollowUp, TypeOK, DataTypes, MessageInv, Once
<1>3. UNCHANGED <<pc, transcript, steering, todo, gone>> /\ Spoken' = Spoken
  BY DEF FollowUp, Spoken
<1>4. Kept'
  BY <1>1, <1>2, <1>3 DEF MessageInv, Kept, Parted
<1> QED
  BY <1>2, <1>3, <1>4 DEF MessageInv, Once, HandsEmpty

LEMMA PromptKeeps ==
  ASSUME TypeOK, MessageInv, NEW m \in Msgs, Prompt(m)
  PROVE  MessageInv'
<1>1. Handed' = Handed \cup {m}
      /\ m \notin Elements(steering) \cup Elements(followUps) \cup Elements(todo) \cup Spoken \cup gone
  BY OneHanded DEF Prompt, MessageInv
<1>2. Elements(todo) = {}
  BY EmptyHolds DEF MessageInv, HandsEmpty, Prompt, StartRun
<1>3. Distinct(todo') /\ Elements(todo') = {m}
  BY SingleHolds DEF Prompt, StartRun
<1>4. UNCHANGED <<transcript, steering, followUps, gone>> /\ Spoken' = Spoken /\ pc' = "prompts"
  BY DEF Prompt, StartRun, Spoken
<1>5. Kept'
  BY <1>1, <1>2, <1>3, <1>4 DEF MessageInv, Kept, Parted
<1> QED
  BY <1>3, <1>4, <1>5 DEF MessageInv, Once, HandsEmpty

LEMMA ContinueKeeps ==
  ASSUME TypeOK, MessageInv, ContinueTurn \/ ContinueQueued
  PROVE  MessageInv'
<1>1. todo = <<>> /\ pc' = "prompts" /\ UNCHANGED <<transcript, sent, gone>>
  BY DEF MessageInv, HandsEmpty, ContinueTurn, ContinueQueued, StartRun, queueVars
<1>2. CASE ContinueTurn
  BY <1>1, <1>2, NothingSaid DEF MessageInv, HandsEmpty, ContinueTurn, StartRun, queueVars
<1>3. CASE /\ todo' = Drained(SteeringMode, steering)
           /\ steering' = Rest(SteeringMode, steering)
           /\ UNCHANGED followUps
  BY <1>1, <1>3, SteeringDrained DEF MessageInv, HandsEmpty
<1>4. CASE /\ todo' = Drained(FollowUpMode, followUps)
           /\ followUps' = Rest(FollowUpMode, followUps)
           /\ UNCHANGED steering
  BY <1>1, <1>4, FollowUpsDrained DEF MessageInv, HandsEmpty
<1> QED
  BY <1>2, <1>3, <1>4 DEF ContinueQueued, StartRun

LEMMA ClearKeeps ==
  ASSUME TypeOK, MessageInv, ClearQueues
  PROVE  MessageInv'
<1> DEFINE S == Elements(steering)  F == Elements(followUps)
           SS == Elements(steering')  FF == Elements(followUps')
<1>1. UNCHANGED <<pc, transcript, todo>> /\ Spoken' = Spoken /\ Handed' = Handed
  BY DEF ClearQueues, Spoken, Handed
<1>2. (SS = S \/ SS = {}) /\ (FF = F \/ FF = {}) /\ gone' = gone \cup ((S \cup F) \ (SS \cup FF))
  BY EmptyHolds DEF ClearQueues
<1>3. Distinct(steering') /\ Distinct(followUps')
  BY EmptyHolds DEF ClearQueues, MessageInv, Once
<1>4. Parted(S, F, Elements(todo), Spoken, Handed, gone)
  BY DEF MessageInv, Kept
<1> HIDE DEF S, F, SS, FF
<1>5. Parted(SS, FF, Elements(todo), Spoken, Handed, gone')
  BY <1>2, <1>4 DEF Parted
<1>6. Kept'
  BY <1>1, <1>5 DEF Kept, SS, FF
<1> QED
  BY <1>1, <1>3, <1>6 DEF MessageInv, Once, HandsEmpty

LEMMA ResetKeeps ==
  ASSUME TypeOK, MessageInv, Reset
  PROVE  MessageInv'
<1>1. /\ todo' = <<>> /\ transcript' = <<>> /\ steering' = <<>> /\ followUps' = <<>>
      /\ gone' = Handed /\ UNCHANGED <<pc, sent>>
  BY DEF Reset, MessageInv, HandsEmpty, Handed
<1>2. Spoken' = {} /\ Handed' = Handed
  BY <1>1 DEF Spoken, Handed
<1>3. Kept'
  BY <1>1, <1>2, EmptyHolds DEF Kept, Parted
<1> QED
  BY <1>1, <1>3, EmptyHolds DEF MessageInv, Once, HandsEmpty

LEMMA DropKeeps ==
  ASSUME TypeOK, MessageInv, DropFailedReply
  PROVE  MessageInv'
<1>1. UNCHANGED <<pc, steering, followUps, todo, sent, gone>>
  BY DEF DropFailedReply, queueVars
<1>2. /\ transcript \in Seq(Entries) /\ Len(transcript) \in Nat /\ Len(transcript) > 0
      /\ DOMAIN transcript = 1 .. Len(transcript)
      /\ transcript[Len(transcript)].role # "user"
  BY DEF DropFailedReply, LastOf, TypeOK, DataTypes
<1>3. /\ DOMAIN transcript' = 1 .. Len(transcript) - 1
      /\ \A i \in 1 .. Len(transcript) - 1 : transcript'[i] = transcript[i]
  BY <1>2 DEF DropFailedReply
<1>4. Spoken' = Spoken
  <2>1. \A m \in Msgs : transcript[Len(transcript)] # User(m)
    BY <1>2, UsersDiffer
  <2>2. \A n \in Nat : \A i \in 1 .. n : i \in 1 .. n - 1 \/ i = n
    OBVIOUS
  <2>3. \A i \in 1 .. Len(transcript) - 1 : i \in 1 .. Len(transcript)
    BY <1>2
  <2> QED
    BY <1>2, <1>3, <2>1, <2>2, <2>3 DEF Spoken
<1>5. Handed' = Handed
  BY <1>1 DEF Handed
<1>6. Once'
  <2>1. \A i \in DOMAIN transcript' : i \in DOMAIN transcript /\ transcript'[i] = transcript[i]
    BY <1>2, <1>3
  <2> QED
    BY <1>1, <2>1 DEF MessageInv, Once
<1> QED
  BY <1>1, <1>4, <1>5, <1>6 DEF MessageInv, Kept, HandsEmpty

LEMMA PollKeeps ==
  ASSUME TypeOK, MessageInv, InitialPoll \/ PollSteering \/ PollFollowUps
  PROVE  MessageInv'
<1>1. todo = <<>> /\ UNCHANGED <<transcript, sent, gone>>
  BY DEF MessageInv, HandsEmpty, InitialPoll, PollSteering, PollFollowUps
<1>2. HandsEmpty'
  BY <1>1 DEF HandsEmpty, InitialPoll, PollSteering, PollFollowUps
<1>3. CASE UNCHANGED <<todo, steering, followUps>>
  BY <1>1, <1>2, <1>3, NothingSaid DEF MessageInv
<1>4. CASE /\ todo' = Drained(SteeringMode, steering)
           /\ steering' = Rest(SteeringMode, steering)
           /\ UNCHANGED followUps
  BY <1>1, <1>2, <1>4, SteeringDrained DEF MessageInv
<1>5. CASE /\ todo' = Drained(FollowUpMode, followUps)
           /\ followUps' = Rest(FollowUpMode, followUps)
           /\ UNCHANGED steering
  BY <1>1, <1>2, <1>5, FollowUpsDrained DEF MessageInv
<1> QED
  BY <1>3, <1>4, <1>5 DEF InitialPoll, PollSteering, PollFollowUps

LEMMA SayKeeps ==
  ASSUME TypeOK, MessageInv, EmitPrompt \/ Inject
  PROVE  MessageInv'
<1>1. /\ todo # <<>> /\ transcript' = Append(transcript, User(Head(todo))) /\ todo' = Tail(todo)
      /\ UNCHANGED <<pc, steering, followUps, sent, gone>> /\ pc \in {"prompts", "inject"}
  BY DEF EmitPrompt, Inject, EmitMessage, queueVars
<1>2. Kept' /\ Once'
  BY <1>1, HeadSaid DEF MessageInv
<1> QED
  BY <1>1, <1>2 DEF MessageInv, HandsEmpty

\* Replies, results and failure messages.
LEMMA AnswerKeeps ==
  ASSUME TypeOK, MessageInv, ReportCall \/ FailMessage \/ (\E i \in 1 .. MaxCalls : ReportInOrder(i))
           \/ \E stop \in Stops, n \in 0 .. MaxCalls : Reply(stop, n)
  PROVE  MessageInv'
<1>1. UNCHANGED <<steering, followUps, todo, sent, gone>> /\ pc \notin {"prompts", "inject"}
  BY DEF ReportCall, FailMessage, ReportInOrder, Reply, queueVars
<1>2. todo' = <<>>
  BY <1>1 DEF MessageInv, HandsEmpty
<1>3. \E e : e.role # "user" /\ transcript' = Append(transcript, e)
  BY DEF ReportCall, FailMessage, ReportInOrder, Reply, EmitMessage, Assistant, Result
<1>4. Kept' /\ Once'
  BY <1>1, <1>3, OtherSaid DEF MessageInv
<1> QED
  BY <1>2, <1>4 DEF MessageInv, HandsEmpty

\* What a run that fails has in its hands is gone.
LEMMA FailKeeps ==
  ASSUME TypeOK, MessageInv, Fail
  PROVE  MessageInv'
<1>1. /\ todo' = <<>> /\ gone' = gone \cup Elements(todo)
      /\ UNCHANGED <<transcript, steering, followUps, sent>>
  BY DEF Fail, queueVars
<1>2. Spoken' = Spoken /\ Handed' = Handed
  BY <1>1 DEF Spoken, Handed
<1>3. Kept'
  BY <1>1, <1>2, EmptyHolds DEF MessageInv, Kept, Parted
<1>4. Once'
  BY <1>1, EmptyHolds DEF MessageInv, Once
<1> QED
  BY <1>1, <1>3, <1>4 DEF MessageInv, HandsEmpty

\* The other steps say nothing and touch no queue.
LEMMA OthersKeep ==
  ASSUME MessageInv,
         \/ Abort \/ Request \/ TurnEnd \/ AgentEnd \/ FinishRun \/ FailEnd
         \/ StartCall \/ PrepareCall \/ FailTruncatedCall \/ Launch \/ FinishBatch
         \/ (\E c \in Calls : ToolStep(c)) \/ UNCHANGED vars
  PROVE  MessageInv'
<1>1. UNCHANGED <<transcript, steering, followUps, todo, sent, gone>>
  BY DEF Abort, Request, TurnEnd, AgentEnd, FinishRun, FailEnd, StartCall, PrepareCall,
         FailTruncatedCall, Launch, FinishBatch, ToolStep, SettleCall, EndCall, vars, queueVars
<1>2. HandsEmpty'
  BY DEF MessageInv, HandsEmpty, Abort, Request, TurnEnd, AgentEnd, FinishRun, FailEnd, StartCall,
         PrepareCall, FailTruncatedCall, Launch, FinishBatch, ToolStep, SettleCall, EndCall, vars
<1> QED
  BY <1>1, <1>2, NothingSaid DEF MessageInv

LEMMA InitMessages == Init => MessageInv
<1> SUFFICES ASSUME Init
             PROVE  MessageInv
  OBVIOUS
<1>1. /\ transcript = <<>> /\ steering = <<>> /\ followUps = <<>> /\ todo = <<>> /\ gone = {}
      /\ \A m \in Msgs : sent[m] = "no"
  BY DEF Init
<1>2. Spoken = {} /\ Handed = {}
  BY <1>1 DEF Spoken, Handed
<1> QED
  BY <1>1, <1>2, EmptyHolds DEF MessageInv, Kept, Parted, Once, HandsEmpty

LEMMA NextMessages == TypeOK /\ MessageInv /\ [Next]_vars => MessageInv'
<1> SUFFICES ASSUME TypeOK, MessageInv, [Next]_vars
             PROVE  MessageInv'
  OBVIOUS
<1>1. CASE Host
  BY <1>1, SteerKeeps, FollowUpKeeps, PromptKeeps, ClearKeeps, ResetKeeps, DropKeeps, ContinueKeeps,
     OthersKeep DEF Host
<1>2. CASE Turn
  BY <1>2, SayKeeps, PollKeeps, AnswerKeeps, OthersKeep DEF Turn
<1>3. CASE Batch
  BY <1>3, AnswerKeeps, OthersKeep DEF Batch
<1>4. CASE Failure
  BY <1>4, FailKeeps, AnswerKeeps, OthersKeep DEF Failure
<1>5. CASE (\E c \in Calls : ToolStep(c)) \/ UNCHANGED vars
  BY <1>5, OthersKeep
<1> QED
  BY <1>1, <1>2, <1>3, <1>4, <1>5 DEF Next

\* How often a message occurs where it is at most once.
LEMMA CountQueue ==
  ASSUME NEW q, Distinct(q), NEW m
  PROVE  InQueue(m, q) = IF m \in Elements(q) THEN 1 ELSE 0
<1> DEFINE I == {i \in DOMAIN q : q[i] = m}
<1>1. CASE m \in Elements(q)
  <2>1. PICK i \in DOMAIN q : q[i] = m
    BY <1>1 DEF Elements
  <2>2. I = {i}
    BY <2>1 DEF Distinct
  <2> QED
    BY <1>1, <2>2, FS_Singleton DEF InQueue
<1>2. CASE m \notin Elements(q)
  <2>1. I = {}
    BY <1>2 DEF Elements
  <2> QED
    BY <1>2, <2>1, FS_EmptySet DEF InQueue
<1> QED
  BY <1>1, <1>2

LEMMA CountTranscript ==
  ASSUME Once, NEW m \in Msgs
  PROVE  InTranscript(m) = IF m \in Spoken THEN 1 ELSE 0
<1> DEFINE I == {i \in DOMAIN transcript : transcript[i] = User(m)}
<1>1. CASE m \in Spoken
  <2>1. PICK i \in DOMAIN transcript : transcript[i] = User(m)
    BY <1>1 DEF Spoken
  <2>2. I = {i}
    BY <2>1, UsersDiffer DEF Once
  <2> QED
    BY <1>1, <2>2, FS_Singleton DEF InTranscript
<1>2. CASE m \notin Spoken
  <2>1. I = {}
    BY <1>2 DEF Spoken
  <2> QED
    BY <1>2, <2>1, FS_EmptySet DEF InTranscript
<1> QED
  BY <1>1, <1>2

\* A message that the host handed over is in exactly one place: a queue, the run's
\* hands or the transcript; in none only after a clear, a reset or the failure of the
\* run that had drained it (agent.ts:139, :294, :324, agent-loop.ts:183), whatever throws.
THEOREM MessagesAreConserved == Spec => []MessagesConserved
<1>1. MessageInv => MessagesConserved
  <2> SUFFICES ASSUME MessageInv, NEW m \in Msgs
               PROVE  LET n == InTranscript(m) + InQueue(m, steering) + InQueue(m, followUps)
                                 + InQueue(m, todo)
                      IN  IF sent[m] = "no" \/ m \in gone THEN n = 0 ELSE n = 1
    BY DEF MessagesConserved
  <2>1. /\ InTranscript(m) = IF m \in Spoken THEN 1 ELSE 0
        /\ InQueue(m, steering) = IF m \in Elements(steering) THEN 1 ELSE 0
        /\ InQueue(m, followUps) = IF m \in Elements(followUps) THEN 1 ELSE 0
        /\ InQueue(m, todo) = IF m \in Elements(todo) THEN 1 ELSE 0
    BY CountQueue, CountTranscript DEF MessageInv, Once
  <2>2. sent[m] = "no" <=> m \notin Handed
    BY DEF Handed
  <2>3. Parted(Elements(steering), Elements(followUps), Elements(todo), Spoken, Handed, gone)
    BY DEF MessageInv, Kept
  <2>4. CASE sent[m] = "no" \/ m \in gone
    <3>1. /\ m \notin Spoken /\ m \notin Elements(steering) /\ m \notin Elements(followUps)
          /\ m \notin Elements(todo)
      BY <2>2, <2>3, <2>4 DEF Parted
    <3> QED
      BY <2>1, <2>4, <3>1
  <2>5. CASE ~(sent[m] = "no" \/ m \in gone)
    <3>1. \/ m \in Spoken \/ m \in Elements(steering) \/ m \in Elements(followUps)
          \/ m \in Elements(todo)
      BY <2>2, <2>3, <2>5 DEF Parted
    <3>2. /\ m \in Spoken => m \notin Elements(steering) \cup Elements(followUps) \cup Elements(todo)
          /\ m \in Elements(steering) => m \notin Elements(followUps) \cup Elements(todo)
          /\ m \in Elements(followUps) => m \notin Elements(todo)
      BY <2>3 DEF Parted
    <3> QED
      BY <2>1, <2>5, <3>1, <3>2
  <2> QED
    BY <2>4, <2>5
<1>2. Spec => []TypeOK
  BY TypeCorrect
<1> QED
  BY <1>1, <1>2, InitMessages, NextMessages, PTL DEF Spec

-----------------------------------------------------------------------------
(* Order: messages of one queue are said in the order in which they came.   *)

Sorted(kind, s) == \A i, j \in DOMAIN s : i < j /\ kind[s[i]] = kind[s[j]] => s[i] < s[j]
Earlier(kind, A, B) == \A a \in A, b \in B : kind[a] = kind[b] => a < b

\* Messages are handed over one after the other.
InTurn == \A m \in Msgs : \A k \in 1 .. m - 1 : sent[m] # "no" => sent[k] # "no"

Kinds ==
    /\ \A m \in Elements(steering) : sent[m] = "steer"
    /\ \A m \in Elements(followUps) : sent[m] = "followUp"

\* In the steering queue, in the follow-ups and in the run's hands, and behind what was said.
Lined(kind, st, fo, to, said) ==
    /\ Sorted(kind, st) /\ Sorted(kind, fo) /\ Sorted(kind, to)
    /\ Earlier(kind, said, Elements(to))
    /\ Earlier(kind, said \cup Elements(to), Elements(st))
    /\ Earlier(kind, said \cup Elements(to), Elements(fo))

Lines == Lined(sent, steering, followUps, todo, Spoken)

OrderInv == InTurn /\ Kinds /\ Lines /\ QueueOrder

LEMMA NoneSorted == \A kind : Sorted(kind, <<>>) /\ \A m : Sorted(kind, <<m>>)
BY DEF Sorted

\* What a drain hands out is before what it leaves.
LEMMA DrainSorted ==
  ASSUME NEW kind, NEW q \in Seq(Msgs), NEW mode, Sorted(kind, q)
  PROVE  /\ Sorted(kind, Drained(mode, q)) /\ Sorted(kind, Rest(mode, q))
         /\ Earlier(kind, Elements(Drained(mode, q)), Elements(Rest(mode, q)))
<1>1. CASE mode = "all" \/ q = <<>>
  <2>1. Drained(mode, q) = q /\ Rest(mode, q) = <<>>
    BY <1>1 DEF Drained, Rest
  <2> QED
    BY <2>1, EmptyHolds, NoneSorted DEF Earlier
<1>2. CASE ~(mode = "all" \/ q = <<>>)
  <2>1. Drained(mode, q) = <<Head(q)>> /\ Rest(mode, q) = Tail(q) /\ Head(q) \in Msgs
    BY <1>2 DEF Drained, Rest
  <2>2. /\ Len(q) \in Nat /\ Len(q) > 0 /\ DOMAIN q = 1 .. Len(q) /\ Head(q) = q[1]
        /\ DOMAIN Tail(q) = 1 .. Len(q) - 1
        /\ \A i \in 1 .. Len(q) - 1 : Tail(q)[i] = q[i + 1]
    BY <1>2
  <2>3. \A i \in 1 .. Len(q) - 1 : i + 1 \in DOMAIN q /\ 1 < i + 1 /\ 1 \in DOMAIN q
    BY <2>2
  <2>4. Sorted(kind, Tail(q))
    <3> SUFFICES ASSUME NEW i \in 1 .. Len(q) - 1, NEW j \in 1 .. Len(q) - 1, i < j,
                        kind[Tail(q)[i]] = kind[Tail(q)[j]]
                 PROVE  Tail(q)[i] < Tail(q)[j]
      BY <2>2 DEF Sorted
    <3>1. i + 1 < j + 1
      BY <2>2
    <3> QED
      BY <2>2, <2>3, <3>1 DEF Sorted
  <2>5. Earlier(kind, {Head(q)}, Elements(Tail(q)))
    <3> SUFFICES ASSUME NEW i \in 1 .. Len(q) - 1, kind[Head(q)] = kind[Tail(q)[i]]
                 PROVE  Head(q) < Tail(q)[i]
      BY <2>2 DEF Earlier, Elements
    <3> QED
      BY <2>2, <2>3 DEF Sorted
  <2>6. Elements(<<Head(q)>>) = {Head(q)}
    BY <2>1, SingleHolds
  <2> QED
    BY <2>1, <2>4, <2>5, <2>6, NoneSorted
<1> QED
  BY <1>1, <1>2

\* The same for the message that is said next.
LEMMA HeadSorted ==
  ASSUME NEW kind, NEW q \in Seq(Msgs), q # <<>>, Sorted(kind, q)
  PROVE  Sorted(kind, Tail(q)) /\ Earlier(kind, {Head(q)}, Elements(Tail(q)))
<1>1. Drained("one-at-a-time", q) = <<Head(q)>> /\ Rest("one-at-a-time", q) = Tail(q) /\ Head(q) \in Msgs
  BY DEF Drained, Rest
<1>2. Elements(<<Head(q)>>) = {Head(q)}
  BY <1>1, SingleHolds
<1>3. /\ Sorted(kind, Rest("one-at-a-time", q))
      /\ Earlier(kind, Elements(Drained("one-at-a-time", q)), Elements(Rest("one-at-a-time", q)))
  BY DrainSorted
<1> QED
  BY <1>1, <1>2, <1>3

\* A message with nothing of its queue behind it.
LEMMA LastSorted ==
  ASSUME NEW kind, NEW s \in Seq(Msgs), NEW m \in Msgs, Sorted(kind, s), \A k \in Elements(s) : k < m
  PROVE  Sorted(kind, Append(s, m))
<1>1. /\ Len(s) \in Nat /\ DOMAIN s = 1 .. Len(s) /\ DOMAIN Append(s, m) = 1 .. Len(s) + 1
      /\ \A i \in 1 .. Len(s) : Append(s, m)[i] = s[i]
      /\ Append(s, m)[Len(s) + 1] = m
  OBVIOUS
<1> SUFFICES ASSUME NEW i \in 1 .. Len(s) + 1, NEW j \in 1 .. Len(s) + 1, i < j,
                    kind[Append(s, m)[i]] = kind[Append(s, m)[j]]
             PROVE  Append(s, m)[i] < Append(s, m)[j]
  BY <1>1 DEF Sorted
<1>2. i \in DOMAIN s
  BY <1>1
<1>3. CASE j \in DOMAIN s
  BY <1>1, <1>2, <1>3 DEF Sorted
<1>4. CASE j = Len(s) + 1
  BY <1>1, <1>2, <1>4 DEF Elements
<1> QED
  BY <1>1, <1>3, <1>4

LEMMA UserEntry ==
  ASSUME TypeOK, NEW i \in DOMAIN transcript, transcript[i].role = "user"
  PROVE  transcript[i] = User(transcript[i].msg) /\ transcript[i].msg \in Spoken
<1>1. transcript[i] \in Entries
  BY DEF TypeOK, DataTypes
<1>2. transcript[i] = User(transcript[i].msg) /\ transcript[i].msg \in Msgs
  BY <1>1 DEF Entries, User
<1> QED
  BY <1>2 DEF Spoken

\* The host hands over the next message: all that were handed over are before it.
LEMMA NextHanded ==
  ASSUME TypeOK, MessageInv, OrderInv, NEW m \in Msgs, Fresh(m),
         NEW how \in {"prompt", "steer", "followUp"}, sent' = [sent EXCEPT ![m] = how]
  PROVE  /\ InTurn'
         /\ \A k \in Elements(steering) \cup Elements(followUps) \cup Elements(todo) \cup Spoken :
               k < m /\ sent'[k] = sent[k]
         /\ sent'[m] = how
<1>1. /\ sent'[m] = how /\ \A k \in Msgs \ {m} : sent'[k] = sent[k]
  BY DEF TypeOK, DataTypes
<1>2. InTurn'
  <2> SUFFICES ASSUME NEW n \in Msgs, NEW k \in 1 .. n - 1, sent'[n] # "no"
               PROVE  sent'[k] # "no"
    BY DEF InTurn
  <2>1. k \in Msgs
    BY BoundAssumption DEF Msgs
  <2>2. CASE n = m
    BY <1>1, <2>1, <2>2 DEF Fresh
  <2>3. CASE n # m
    BY <1>1, <2>1, <2>3 DEF OrderInv, InTurn
  <2> QED
    BY <2>2, <2>3
<1>3. ASSUME NEW k \in Handed
      PROVE  k < m /\ k # m
  <2>1. sent[k] # "no" /\ k \in Nat /\ m \in Nat /\ k # m /\ sent[m] = "no"
    BY BoundAssumption DEF Handed, Fresh, Msgs
  <2>2. ~(m \in 1 .. k - 1)
    BY <2>1 DEF OrderInv, InTurn, Handed
  <2> QED
    BY <2>1, <2>2, BoundAssumption DEF Msgs
<1>4. Elements(steering) \cup Elements(followUps) \cup Elements(todo) \cup Spoken \subseteq Handed
  BY DEF MessageInv, Kept, Parted
<1> QED
  BY <1>1, <1>2, <1>3, <1>4 DEF Handed

\* The order is that of the kinds that the messages in question have.
LEMMA KindsKept ==
  ASSUME NEW kind, NEW new, NEW st, NEW fo, NEW to, NEW said, Lined(kind, st, fo, to, said),
         \A k \in Elements(st) \cup Elements(fo) \cup Elements(to) \cup said : new[k] = kind[k]
  PROVE  Lined(new, st, fo, to, said)
<1>1. ASSUME NEW s, Sorted(kind, s), \A k \in Elements(s) : new[k] = kind[k]
      PROVE  Sorted(new, s)
  BY <1>1 DEF Sorted, Elements
<1>2. ASSUME NEW A, NEW B, Earlier(kind, A, B), \A k \in A \cup B : new[k] = kind[k]
      PROVE  Earlier(new, A, B)
  BY <1>2 DEF Earlier
<1>3. Sorted(new, st) /\ Sorted(new, fo) /\ Sorted(new, to)
  BY <1>1 DEF Lined
<1>4. Earlier(new, said, Elements(to))
  BY <1>2 DEF Lined
<1>5. Earlier(new, said \cup Elements(to), Elements(st))
  BY <1>2 DEF Lined
<1>6. Earlier(new, said \cup Elements(to), Elements(fo))
  BY <1>2 DEF Lined
<1> QED
  BY <1>3, <1>4, <1>5, <1>6 DEF Lined

\* A message is queued behind all others.
LEMMA Queued ==
  ASSUME NEW kind, NEW st \in Seq(Msgs), NEW fo \in Seq(Msgs), NEW to \in Seq(Msgs), NEW said,
         NEW m \in Msgs, Lined(kind, st, fo, to, said), Distinct(st), Distinct(fo),
         \A k \in Elements(st) \cup Elements(fo) \cup Elements(to) \cup said : k < m,
         m \notin Elements(st), m \notin Elements(fo)
  PROVE  /\ Lined(kind, Append(st, m), fo, to, said)
         /\ Lined(kind, st, Append(fo, m), to, said)
         /\ to = <<>> /\ (\A k \in Elements(st) \cup Elements(fo) : kind[k] # kind[m]) =>
               Lined(kind, st, fo, <<m>>, said)
<1>1. /\ Elements(Append(st, m)) = Elements(st) \cup {m}
      /\ Elements(Append(fo, m)) = Elements(fo) \cup {m}
      /\ Elements(<<m>>) = {m}
  BY AppendHolds, SingleHolds
<1>2. Sorted(kind, Append(st, m)) /\ Sorted(kind, Append(fo, m)) /\ Sorted(kind, <<m>>)
  BY LastSorted, NoneSorted DEF Lined
<1>3. Lined(kind, Append(st, m), fo, to, said)
  BY <1>1, <1>2 DEF Lined, Earlier
<1>4. Lined(kind, st, Append(fo, m), to, said)
  BY <1>1, <1>2 DEF Lined, Earlier
<1>5. ASSUME to = <<>>, \A k \in Elements(st) \cup Elements(fo) : kind[k] # kind[m]
      PROVE  Lined(kind, st, fo, <<m>>, said)
  BY <1>1, <1>2, <1>5 DEF Lined, Earlier
<1> QED
  BY <1>3, <1>4, <1>5

\* A queue is drained into empty hands; the other queue is of another kind.
LEMMA DrainLined ==
  ASSUME NEW kind, NEW st \in Seq(Msgs), NEW fo \in Seq(Msgs), NEW said, NEW mode,
         Lined(kind, st, fo, <<>>, said), Distinct(st), Distinct(fo),
         \A j \in Elements(st), k \in Elements(fo) : kind[j] # kind[k]
  PROVE  /\ Lined(kind, Rest(mode, st), fo, Drained(mode, st), said)
         /\ Lined(kind, st, Rest(mode, fo), Drained(mode, fo), said)
<1>1. /\ Elements(Drained(mode, st)) \cup Elements(Rest(mode, st)) = Elements(st)
      /\ Elements(Drained(mode, fo)) \cup Elements(Rest(mode, fo)) = Elements(fo)
  BY DrainSplits
<1>2. /\ Sorted(kind, Drained(mode, st)) /\ Sorted(kind, Rest(mode, st))
      /\ Earlier(kind, Elements(Drained(mode, st)), Elements(Rest(mode, st)))
      /\ Sorted(kind, Drained(mode, fo)) /\ Sorted(kind, Rest(mode, fo))
      /\ Earlier(kind, Elements(Drained(mode, fo)), Elements(Rest(mode, fo)))
  BY DrainSorted DEF Lined
<1>3. Lined(kind, Rest(mode, st), fo, Drained(mode, st), said)
  BY <1>1, <1>2 DEF Lined, Earlier
<1>4. Lined(kind, st, Rest(mode, fo), Drained(mode, fo), said)
  BY <1>1, <1>2 DEF Lined, Earlier
<1> QED
  BY <1>3, <1>4

\* The first message in the hands is said.
LEMMA HeadLined ==
  ASSUME NEW kind, NEW st, NEW fo, NEW to \in Seq(Msgs), NEW said,
         to # <<>>, Distinct(to), Lined(kind, st, fo, to, said)
  PROVE  Lined(kind, st, fo, Tail(to), said \cup {Head(to)})
<1>1. Elements(Tail(to)) = Elements(to) \ {Head(to)} /\ Head(to) \in Elements(to)
  BY TailHolds
<1>2. Sorted(kind, Tail(to)) /\ Earlier(kind, {Head(to)}, Elements(Tail(to)))
  BY HeadSorted DEF Lined
<1> QED
  BY <1>1, <1>2 DEF Lined, Earlier

\* Less is in order as well.
LEMMA LessLined ==
  ASSUME NEW kind, NEW st, NEW fo, NEW to, NEW said, Lined(kind, st, fo, to, said),
         NEW st2 \in {st, <<>>}, NEW fo2 \in {fo, <<>>}, NEW to2 \in {to, <<>>}, NEW said2 \in SUBSET said
  PROVE  Lined(kind, st2, fo2, to2, said2)
<1>1. /\ Elements(st2) \subseteq Elements(st) /\ Elements(fo2) \subseteq Elements(fo)
      /\ Elements(to2) \subseteq Elements(to)
  BY EmptyHolds
<1>2. Sorted(kind, st2) /\ Sorted(kind, fo2) /\ Sorted(kind, to2)
  BY NoneSorted DEF Lined
<1> QED
  BY <1>1, <1>2 DEF Lined, Earlier

\* What was said stays in order.
LEMMA OrderKept ==
  ASSUME TypeOK, QueueOrder, UNCHANGED transcript, \A k \in Spoken : sent'[k] = sent[k]
  PROVE  QueueOrder'
BY UserEntry DEF QueueOrder

LEMMA HandedOrdered ==
  ASSUME TypeOK, MessageInv, OrderInv, NEW m \in Msgs, Steer(m) \/ FollowUp(m) \/ Prompt(m)
  PROVE  OrderInv'
<1> DEFINE how == IF Steer(m) THEN "steer" ELSE IF FollowUp(m) THEN "followUp" ELSE "prompt"
<1>1. Fresh(m) /\ how \in {"prompt", "steer", "followUp"} /\ sent' = [sent EXCEPT ![m] = how]
  BY DEF Steer, FollowUp, Prompt
<1> HIDE DEF how
<1>2. /\ InTurn' /\ sent'[m] = how
      /\ \A k \in Elements(steering) \cup Elements(followUps) \cup Elements(todo) \cup Spoken :
            k < m /\ sent'[k] = sent[k]
  BY <1>1, NextHanded
<1>3. UNCHANGED transcript /\ Spoken' = Spoken
  BY DEF Steer, FollowUp, Prompt, StartRun, Spoken
<1>4. QueueOrder'
  BY <1>2, <1>3, OrderKept DEF OrderInv
<1>5. /\ steering \in Seq(Msgs) /\ followUps \in Seq(Msgs) /\ todo \in Seq(Msgs)
      /\ Distinct(steering) /\ Distinct(followUps)
      /\ m \notin Elements(steering) /\ m \notin Elements(followUps)
  <2>1. m \notin Handed
    BY <1>1 DEF Fresh, Handed
  <2> QED
    BY <2>1 DEF TypeOK, DataTypes, MessageInv, Once, Kept, Parted
<1>6. Lined(sent', steering, followUps, todo, Spoken)
  BY <1>2, KindsKept DEF OrderInv, Lines
<1>7. /\ \A k \in Elements(steering) : sent'[k] = "steer"
      /\ \A k \in Elements(followUps) : sent'[k] = "followUp"
  BY <1>2 DEF OrderInv, Kinds
<1>8. CASE Steer(m)
  <2>1. steering' = Append(steering, m) /\ UNCHANGED <<followUps, todo>> /\ how = "steer"
    BY <1>8 DEF Steer, how
  <2>2. Lines'
    BY <1>2, <1>3, <1>5, <1>6, <2>1, Queued DEF Lines
  <2>3. Elements(steering') = Elements(steering) \cup {m}
    BY <1>5, <2>1, AppendHolds
  <2>4. Kinds'
    BY <1>2, <1>7, <2>1, <2>3 DEF Kinds
  <2> QED
    BY <1>2, <1>4, <2>2, <2>4 DEF OrderInv
<1>9. CASE ~Steer(m) /\ FollowUp(m)
  <2>1. followUps' = Append(followUps, m) /\ UNCHANGED <<steering, todo>> /\ how = "followUp"
    BY <1>9 DEF FollowUp, how
  <2>2. Lines'
    BY <1>2, <1>3, <1>5, <1>6, <2>1, Queued DEF Lines
  <2>3. Elements(followUps') = Elements(followUps) \cup {m}
    BY <1>5, <2>1, AppendHolds
  <2>4. Kinds'
    BY <1>2, <1>7, <2>1, <2>3 DEF Kinds
  <2> QED
    BY <1>2, <1>4, <2>2, <2>4 DEF OrderInv
<1>10. CASE ~Steer(m) /\ ~FollowUp(m) /\ Prompt(m)
  <2>1. todo' = <<m>> /\ UNCHANGED <<steering, followUps>> /\ todo = <<>> /\ how = "prompt"
    BY <1>10 DEF Prompt, StartRun, MessageInv, HandsEmpty, how
  <2>2. Lined(sent', steering, followUps, <<m>>, Spoken)
    BY <1>2, <1>5, <1>6, <1>7, <2>1, Queued
  <2>3. Lines' /\ Kinds'
    BY <1>3, <1>7, <2>1, <2>2 DEF Lines, Kinds
  <2> QED
    BY <1>2, <1>4, <2>3 DEF OrderInv
<1> QED
  BY <1>8, <1>9, <1>10

\* The run takes from a queue.
LEMMA DrainOrdered ==
  ASSUME TypeOK, MessageInv, OrderInv, todo = <<>>, NEW mode, UNCHANGED <<transcript, sent>>,
         \/ todo' = Drained(mode, steering) /\ steering' = Rest(mode, steering) /\ UNCHANGED followUps
         \/ todo' = Drained(mode, followUps) /\ followUps' = Rest(mode, followUps) /\ UNCHANGED steering
  PROVE  OrderInv'
<1>1. /\ steering \in Seq(Msgs) /\ followUps \in Seq(Msgs)
      /\ Distinct(steering) /\ Distinct(followUps)
      /\ Lined(sent, steering, followUps, <<>>, Spoken)
      /\ \A j \in Elements(steering), k \in Elements(followUps) : sent[j] # sent[k]
  BY DEF TypeOK, DataTypes, MessageInv, Once, OrderInv, Kinds, Lines
<1>2. /\ Lined(sent, Rest(mode, steering), followUps, Drained(mode, steering), Spoken)
      /\ Lined(sent, steering, Rest(mode, followUps), Drained(mode, followUps), Spoken)
  BY <1>1, DrainLined
<1>3. Spoken' = Spoken /\ InTurn'
  BY DEF Spoken, InTurn, OrderInv
<1>4. Lines'
  BY <1>2, <1>3 DEF Lines
<1>5. Elements(steering') \subseteq Elements(steering) /\ Elements(followUps') \subseteq Elements(followUps)
  BY <1>1, DrainSplits
<1>6. Kinds' /\ QueueOrder'
  BY <1>5, OrderKept DEF OrderInv, Kinds
<1> QED
  BY <1>3, <1>4, <1>6 DEF OrderInv

\* The run says the first message that it has in its hands.
LEMMA SayOrdered ==
  ASSUME TypeOK, MessageInv, OrderInv, todo # <<>>, transcript' = Append(transcript, User(Head(todo))),
         todo' = Tail(todo), UNCHANGED <<steering, followUps, sent>>
  PROVE  OrderInv'
<1> DEFINE m == Head(todo)
<1>1. /\ todo \in Seq(Msgs) /\ m \in Msgs /\ Distinct(todo) /\ transcript \in Seq(Entries)
      /\ m \in Elements(todo)
  BY TailHolds DEF TypeOK, DataTypes, MessageInv, Once
<1>2. Lined(sent, steering, followUps, Tail(todo), Spoken \cup {m})
  BY <1>1, HeadLined DEF OrderInv, Lines
<1> HIDE DEF m
<1>3. Spoken' = Spoken \cup {m}
  <2>1. {n \in Msgs : User(m) = User(n)} = {m}
    BY <1>1, UsersDiffer
  <2> QED
    BY <2>1, EntrySpoken DEF MessageInv, m
<1>4. Lines' /\ Kinds' /\ InTurn'
  BY <1>2, <1>3 DEF OrderInv, Lines, Kinds, InTurn
<1>5. QueueOrder'
  <2>1. /\ Len(transcript) \in Nat /\ DOMAIN transcript = 1 .. Len(transcript)
        /\ DOMAIN transcript' = 1 .. Len(transcript) + 1
        /\ \A i \in 1 .. Len(transcript) : transcript'[i] = transcript[i]
        /\ transcript'[Len(transcript) + 1] = User(m)
    BY <1>1 DEF m
  <2> SUFFICES ASSUME NEW i \in 1 .. Len(transcript) + 1, NEW j \in 1 .. Len(transcript) + 1, i < j,
                      transcript'[i].role = "user", transcript'[j].role = "user",
                      sent[transcript'[i].msg] = sent[transcript'[j].msg]
               PROVE  transcript'[i].msg < transcript'[j].msg
    BY <2>1 DEF QueueOrder
  <2>2. i \in DOMAIN transcript
    BY <2>1
  <2>3. CASE j \in DOMAIN transcript
    BY <2>1, <2>2, <2>3 DEF OrderInv, QueueOrder
  <2>4. CASE j = Len(transcript) + 1
    <3>1. transcript'[j].msg = m /\ transcript'[i] = transcript[i]
      BY <2>1, <2>2, <2>4 DEF User
    <3>2. transcript[i].msg \in Spoken
      BY <2>2, <3>1, UserEntry
    <3>3. Earlier(sent, Spoken, Elements(todo))
      BY DEF OrderInv, Lines, Lined
    <3> QED
      BY <1>1, <3>1, <3>2, <3>3 DEF Earlier
  <2> QED
    BY <2>1, <2>3, <2>4, SMTT(30)
<1> QED
  BY <1>4, <1>5 DEF OrderInv

\* Answers are said, or nothing.
LEMMA AnswerOrdered ==
  ASSUME TypeOK, MessageInv, OrderInv, UNCHANGED <<steering, followUps, todo, sent>>,
         \/ UNCHANGED transcript
         \/ \E e : e.role # "user" /\ transcript' = Append(transcript, e)
  PROVE  OrderInv'
<1>1. CASE UNCHANGED transcript
  <2>1. Spoken' = Spoken
    BY <1>1 DEF Spoken
  <2> QED
    BY <1>1, <2>1, OrderKept DEF OrderInv, InTurn, Kinds, Lines
<1>2. CASE \E e : e.role # "user" /\ transcript' = Append(transcript, e)
  <2>1. PICK e : e.role # "user" /\ transcript' = Append(transcript, e)
    BY <1>2
  <2>2. \A m \in Msgs : e # User(m)
    BY <2>1, UsersDiffer
  <2>3. Spoken' = Spoken \cup {m \in Msgs : e = User(m)}
    BY <2>1, EntrySpoken DEF MessageInv
  <2>4. Spoken' = Spoken
    BY <2>2, <2>3
  <2>5. /\ transcript \in Seq(Entries) /\ Len(transcript) \in Nat /\ DOMAIN transcript = 1 .. Len(transcript)
        /\ DOMAIN transcript' = 1 .. Len(transcript) + 1
        /\ \A i \in 1 .. Len(transcript) : transcript'[i] = transcript[i]
        /\ transcript'[Len(transcript) + 1] = e
    BY <2>1 DEF TypeOK, DataTypes
  <2>6. \A i \in DOMAIN transcript' : transcript'[i].role = "user" => i \in DOMAIN transcript
    <3>1. \A n \in Nat : \A i \in 1 .. n + 1 : i \in 1 .. n \/ i = n + 1
      OBVIOUS
    <3> QED
      BY <2>1, <2>5, <3>1
  <2>7. QueueOrder'
    BY <2>5, <2>6 DEF OrderInv, QueueOrder
  <2> QED
    BY <2>4, <2>7 DEF OrderInv, InTurn, Kinds, Lines
<1> QED
  BY <1>1, <1>2

\* Something is cleared, dropped or taken off the end.
LEMMA LessOrdered ==
  ASSUME TypeOK, OrderInv, UNCHANGED sent, steering' \in {steering, <<>>},
         followUps' \in {followUps, <<>>}, todo' \in {todo, <<>>},
         \A i \in DOMAIN transcript' : i \in DOMAIN transcript /\ transcript'[i] = transcript[i]
  PROVE  OrderInv'
<1>1. Spoken' \in SUBSET Spoken
  BY DEF Spoken
<1>2. Lines'
  BY <1>1, LessLined DEF OrderInv, Lines
<1>3. Kinds'
  BY EmptyHolds DEF OrderInv, Kinds
<1> QED
  BY <1>2, <1>3 DEF OrderInv, InTurn, QueueOrder

LEMMA InitOrdered == Init => OrderInv
<1> SUFFICES ASSUME Init
             PROVE  OrderInv
  OBVIOUS
<1>1. /\ transcript = <<>> /\ steering = <<>> /\ followUps = <<>> /\ todo = <<>>
      /\ \A m \in Msgs : sent[m] = "no"
  BY DEF Init
<1>2. Spoken = {}
  BY <1>1 DEF Spoken
<1>3. Lines /\ Kinds
  BY <1>1, <1>2, EmptyHolds, NoneSorted DEF Lines, Lined, Earlier, Kinds
<1> QED
  BY <1>1, <1>3 DEF OrderInv, InTurn, QueueOrder

LEMMA NextOrdered == TypeOK /\ MessageInv /\ OrderInv /\ [Next]_vars => OrderInv'
<1> SUFFICES ASSUME TypeOK, MessageInv, OrderInv, [Next]_vars
             PROVE  OrderInv'
  OBVIOUS
<1>1. CASE \E m \in Msgs : Steer(m) \/ FollowUp(m) \/ Prompt(m)
  BY <1>1, HandedOrdered
<1>2. CASE ContinueTurn \/ ContinueQueued \/ InitialPoll \/ PollSteering \/ PollFollowUps
  <2>1. todo = <<>> /\ UNCHANGED <<transcript, sent>>
    BY <1>2 DEF MessageInv, HandsEmpty, ContinueTurn, ContinueQueued, StartRun, InitialPoll,
                PollSteering, PollFollowUps, queueVars
  <2>2. CASE UNCHANGED <<todo, steering, followUps>>
    BY <2>1, <2>2, AnswerOrdered
  <2>3. CASE /\ todo' = Drained(SteeringMode, steering)
             /\ steering' = Rest(SteeringMode, steering)
             /\ UNCHANGED followUps
    BY <2>1, <2>3, DrainOrdered
  <2>4. CASE /\ todo' = Drained(FollowUpMode, followUps)
             /\ followUps' = Rest(FollowUpMode, followUps)
             /\ UNCHANGED steering
    BY <2>1, <2>4, DrainOrdered
  <2> QED
    BY <1>2, <2>1, <2>2, <2>3, <2>4
    DEF ContinueTurn, ContinueQueued, StartRun, InitialPoll, PollSteering, PollFollowUps, queueVars
<1>3. CASE EmitPrompt \/ Inject
  BY <1>3, SayOrdered DEF EmitPrompt, Inject, EmitMessage, queueVars
<1>4. CASE ClearQueues \/ Reset \/ DropFailedReply \/ Fail
  <2>1. UNCHANGED sent /\ steering' \in {steering, <<>>} /\ followUps' \in {followUps, <<>>}
        /\ todo' \in {todo, <<>>}
    BY <1>4 DEF ClearQueues, Reset, DropFailedReply, Fail, queueVars
  <2>2. \A i \in DOMAIN transcript' : i \in DOMAIN transcript /\ transcript'[i] = transcript[i]
    <3>1. CASE UNCHANGED transcript \/ transcript' = <<>>
      BY <3>1
    <3>2. CASE DropFailedReply
      <4>1. transcript \in Seq(Entries) /\ Len(transcript) \in Nat /\ Len(transcript) > 0
        BY <3>2 DEF DropFailedReply, TypeOK, DataTypes
      <4>2. transcript' = SubSeq(transcript, 1, Len(transcript) - 1)
        BY <3>2 DEF DropFailedReply
      <4> QED
        BY <4>1, <4>2
    <3> QED
      BY <1>4, <3>1, <3>2 DEF ClearQueues, Reset, Fail
  <2> QED
    BY <2>1, <2>2, LessOrdered
<1>5. CASE ReportCall \/ FailMessage \/ (\E i \in 1 .. MaxCalls : ReportInOrder(i))
           \/ \E stop \in Stops, n \in 0 .. MaxCalls : Reply(stop, n)
  <2>1. UNCHANGED <<steering, followUps, todo, sent>>
    BY <1>5 DEF ReportCall, FailMessage, ReportInOrder, Reply, queueVars
  <2>2. \E e : e.role # "user" /\ transcript' = Append(transcript, e)
    BY <1>5 DEF ReportCall, FailMessage, ReportInOrder, Reply, EmitMessage, Assistant, Result
  <2> QED
    BY <2>1, <2>2, AnswerOrdered
<1>6. CASE \/ Abort \/ Request \/ TurnEnd \/ AgentEnd \/ FinishRun \/ FailEnd
           \/ StartCall \/ PrepareCall \/ FailTruncatedCall \/ Launch \/ FinishBatch
           \/ (\E c \in Calls : ToolStep(c)) \/ UNCHANGED vars
  <2>1. UNCHANGED <<transcript, steering, followUps, todo, sent>>
    BY <1>6 DEF Abort, Request, TurnEnd, AgentEnd, FinishRun, FailEnd, StartCall, PrepareCall,
         FailTruncatedCall, Launch, FinishBatch, ToolStep, SettleCall, EndCall, vars, queueVars
  <2> QED
    BY <2>1, AnswerOrdered
<1> QED
  BY <1>1, <1>2, <1>3, <1>4, <1>5, <1>6 DEF Next, Host, Turn, Batch, Failure

-----------------------------------------------------------------------------
(* Requests: the context is the transcript, and every call has its result.  *)

\* Between the batches of a run; in a run that has not failed or ended.
Plain == {"inject", "stream", "turn", "afterTurn", "pollFollowUps"}
Live == {"prompts"} \cup Plain \cup BatchPcs

Users(q) == [i \in DOMAIN q |-> User(q[i])]

\* In a batch the context ends with the reply, behind which only results stand.
BehindReply ==
    LET n == Len(context)
    IN  /\ n \in 1 .. Len(transcript)
        /\ transcript[n].role = "assistant"
        /\ \A k \in 1 .. n : context[k] = transcript[k]
        /\ \A k \in n + 1 .. Len(transcript) : transcript[k].role = "toolResult"

ContextInv ==
    /\ pc = "prompts" => context = transcript \o Users(todo)
    /\ pc \in Plain => context = transcript
    /\ pc \in BatchPcs => BehindReply

\* A reply's batch, and what it asks for if that is the current one.
RepliesKnown ==
    \A i \in DOMAIN transcript : transcript[i].role = "assistant" =>
        /\ transcript[i].batch <= batch
        /\ pc \in BatchPcs /\ transcript[i].batch = batch => transcript[i].calls = size

Answered(t, i) == \A k \in 1 .. t[i].calls : Result(<<t[i].batch, k>>) \in Elements(t)

\* Unless the run was aborted, its replies before the current batch are answered.
RepliesAnswered ==
    ~aborted /\ pc \in Live =>
        \A i \in DOMAIN transcript :
            /\ transcript[i].role = "assistant" /\ transcript[i].batch > base
            /\ ~(pc \in BatchPcs /\ transcript[i].batch = batch)
            => Answered(transcript, i)

\* Unless the run was aborted, a parallel batch starts all its calls before it waits.
AwaitsAll == pc = "awaiting" /\ ~aborted => call = size

AnswerInv == RepliesKnown /\ RepliesAnswered /\ AwaitsAll

\* One more entry: the others stay, and nothing loses its answer.
LEMMA OneMore ==
  ASSUME TypeOK, NEW e, transcript' = Append(transcript, e)
  PROVE  /\ Len(transcript) \in Nat /\ DOMAIN transcript = 1 .. Len(transcript)
         /\ Len(transcript') = Len(transcript) + 1
         /\ DOMAIN transcript' = 1 .. Len(transcript) + 1
         /\ \A i \in 1 .. Len(transcript) : transcript'[i] = transcript[i]
         /\ transcript'[Len(transcript) + 1] = e
         /\ \A i \in DOMAIN transcript' : i \in DOMAIN transcript \/ i = Len(transcript) + 1
         /\ \A i \in DOMAIN transcript : i \in DOMAIN transcript'
         /\ \A i \in DOMAIN transcript : Answered(transcript, i) => Answered(transcript', i)
<1>1. transcript \in Seq(Entries)
  BY DEF TypeOK, DataTypes
<1>2. /\ Len(transcript) \in Nat /\ DOMAIN transcript = 1 .. Len(transcript)
      /\ Len(transcript') = Len(transcript) + 1
      /\ DOMAIN transcript' = 1 .. Len(transcript) + 1
      /\ \A i \in 1 .. Len(transcript) : transcript'[i] = transcript[i]
      /\ transcript'[Len(transcript) + 1] = e
  BY <1>1
<1>3. \A n \in Nat : \A i \in 1 .. n + 1 : i \in 1 .. n \/ i = n + 1
  OBVIOUS
<1>4. \A n \in Nat : \A i \in 1 .. n : i \in 1 .. n + 1
  OBVIOUS
<1>5. Elements(transcript) \subseteq Elements(transcript')
  BY <1>2, <1>4 DEF Elements
<1>6. ASSUME NEW i \in DOMAIN transcript, Answered(transcript, i)
      PROVE  Answered(transcript', i)
  <2>1. transcript'[i] = transcript[i]
    BY <1>2
  <2> QED
    BY <1>5, <1>6, <2>1 DEF Answered
<1> QED
  BY <1>2, <1>3, <1>4, <1>6

\* The steps that change neither the transcript nor the context.
LEMMA QuietContext ==
  ASSUME ContextInv, UNCHANGED <<transcript, context>>,
         pc' = "prompts" => pc = "prompts" /\ UNCHANGED todo,
         pc' \in Plain => pc \in Plain, pc' \in BatchPcs => pc \in BatchPcs
  PROVE  ContextInv'
BY DEF ContextInv, BehindReply

LEMMA QuietAnswers ==
  ASSUME AnswerInv, UNCHANGED <<transcript, batch, size, base>>,
         aborted' = aborted \/ aborted' = TRUE \/ pc' \notin Live,
         pc' \in Live => pc \in Live, pc' \in BatchPcs <=> pc \in BatchPcs, AwaitsAll'
  PROVE  AnswerInv'
<1>1. RepliesKnown'
  BY DEF AnswerInv, RepliesKnown
<1>2. RepliesAnswered'
  BY DEF AnswerInv, RepliesAnswered
<1> QED
  BY <1>1, <1>2 DEF AnswerInv

\* A run that fails or ends leaves the replies as they are.
LEMMA EndedAnswers ==
  ASSUME AnswerInv, UNCHANGED batch, pc' \notin Live,
         \A i \in DOMAIN transcript' : i \in DOMAIN transcript /\ transcript'[i] = transcript[i]
  PROVE  AnswerInv'
BY DEF AnswerInv, RepliesKnown, RepliesAnswered, AwaitsAll, Live, BatchPcs

\* The prompts of a run are in its context before they are said.
LEMMA PromptContext ==
  ASSUME TypeOK, ContextInv, EmitPrompt
  PROVE  ContextInv'
<1>1. /\ transcript \in Seq(Entries) /\ todo \in Seq(Msgs) /\ todo # <<>>
      /\ context = transcript \o Users(todo)
      /\ transcript' = Append(transcript, User(Head(todo))) /\ todo' = Tail(todo)
      /\ context' = context /\ pc' = "prompts"
  BY DEF EmitPrompt, EmitMessage, ContextInv, TypeOK, DataTypes
<1>2. /\ Users(todo) \in Seq(Entries) /\ Len(Users(todo)) = Len(todo)
      /\ \A i \in 1 .. Len(todo) : Users(todo)[i] = User(todo[i])
  <2>1. \A i \in 1 .. Len(todo) : User(todo[i]) \in Entries
    BY <1>1, EntryTypes, ElementOfSeq
  <2>2. Len(todo) \in Nat /\ DOMAIN todo = 1 .. Len(todo)
    BY <1>1
  <2> QED
    BY <2>1, <2>2 DEF Users
<1>3. /\ Len(Tail(todo)) = Len(todo) - 1 /\ Len(todo) \in Nat \ {0} /\ Head(todo) = todo[1]
      /\ Tail(todo) \in Seq(Msgs) /\ DOMAIN Tail(todo) = 1 .. Len(todo) - 1
      /\ \A i \in 1 .. Len(todo) - 1 : Tail(todo)[i] = todo[i + 1]
  BY <1>1
<1>4. Users(Tail(todo)) = Tail(Users(todo)) /\ Head(Users(todo)) = User(Head(todo))
  <2> DEFINE u == Users(todo)
             v == Users(Tail(todo))
  <2>1. u \in Seq(Entries) /\ Len(u) = Len(todo) /\ \A i \in 1 .. Len(todo) : u[i] = User(todo[i])
    BY <1>2
  <2>2. v = [i \in 1 .. Len(todo) - 1 |-> User(todo[i + 1])]
    BY <1>3 DEF Users
  <2>3. \A i \in 1 .. Len(todo) - 1 : i + 1 \in 1 .. Len(todo) /\ User(todo[i + 1]) \in Entries
    <3>1. \A i \in 1 .. Len(todo) - 1 : i + 1 \in 1 .. Len(todo)
      BY <1>3
    <3> QED
      BY <3>1, <1>1, EntryTypes, ElementOfSeq
  <2>4. Len(todo) - 1 \in Nat
    BY <1>3
  <2>5. v \in Seq(Entries) /\ Len(v) = Len(todo) - 1
    BY <2>2, <2>3, <2>4
  <2> HIDE DEF u
  <2>6. u # <<>>
    BY <2>1, <1>3
  <2>7. /\ Tail(u) \in Seq(Entries) /\ Len(Tail(u)) = Len(todo) - 1
        /\ \A i \in 1 .. Len(todo) - 1 : Tail(u)[i] = u[i + 1]
    BY <2>1, <2>6, HeadTailProperties
  <2>8. \A i \in 1 .. Len(todo) - 1 : v[i] = Tail(u)[i]
    BY <2>1, <2>2, <2>3, <2>7
  <2> HIDE DEF v
  <2>9. v = Tail(u)
    BY <2>5, <2>7, <2>8, SeqEqual
  <2>10. Head(u) = u[1] /\ 1 \in 1 .. Len(todo)
    BY <2>1, <2>6, <1>3
  <2> QED
    BY <1>3, <2>1, <2>9, <2>10 DEF u, v
<1>5. context = Append(transcript, User(Head(todo))) \o Users(Tail(todo))
  <2> DEFINE u == Users(todo)
  <2>1. u \in Seq(Entries) /\ u # <<>>
    BY <1>2, <1>3
  <2> HIDE DEF u
  <2>2. transcript \o u = Append(transcript, Head(u)) \o Tail(u)
    BY <1>1, <2>1
  <2> QED
    BY <1>1, <1>4, <2>2 DEF u
<1> QED
  BY <1>1, <1>5 DEF ContextInv, Plain, BatchPcs

\* A run starts with its prompts in the context.
LEMMA StartContext ==
  ASSUME NEW msgs, NEW skip, StartRun(msgs, skip)
  PROVE  ContextInv'
BY DEF StartRun, ContextInv, Users, Plain, BatchPcs

LEMMA PollContext ==
  ASSUME TypeOK, ContextInv, InitialPoll
  PROVE  ContextInv'
<1>1. /\ transcript \in Seq(Entries) /\ todo = <<>> /\ context = transcript \o Users(todo)
      /\ UNCHANGED <<transcript, context>> /\ pc' = "inject"
  BY DEF InitialPoll, ContextInv, TypeOK, DataTypes
<1>2. Users(todo) = <<>>
  BY <1>1 DEF Users
<1>3. context = transcript
  BY <1>1, <1>2, ConcatEmptySeq
<1> QED
  BY <1>1, <1>3 DEF ContextInv, Plain, BatchPcs

\* What is added to the transcript outside a batch is added to the context.
LEMMA BothContext ==
  ASSUME TypeOK, ContextInv, pc \in Plain, NEW e,
         transcript' = Append(transcript, e), context' = Append(context, e),
         pc' \in Plain \/ pc' = "failedTurn" \/ (pc' \in BatchPcs /\ e.role = "assistant")
  PROVE  ContextInv'
<1>1. context' = transcript'
  BY DEF ContextInv
<1>2. CASE pc' \in BatchPcs /\ e.role = "assistant"
  <2>1. /\ Len(transcript') = Len(transcript) + 1 /\ Len(transcript) \in Nat
        /\ transcript'[Len(transcript) + 1] = e
    BY OneMore
  <2>2. BehindReply'
    BY <1>1, <1>2, <2>1 DEF BehindReply
  <2> QED
    BY <1>2, <2>2 DEF ContextInv, Plain, BatchPcs
<1> QED
  BY <1>1, <1>2 DEF ContextInv, Plain, BatchPcs

\* A result is put behind the reply the context ends with.
LEMMA ReportContext ==
  ASSUME TypeOK, ContextInv, pc \in BatchPcs, UNCHANGED <<pc, context>>, NEW c,
         transcript' = Append(transcript, Result(c))
  PROVE  ContextInv'
<1>1. /\ Len(transcript) \in Nat /\ Len(transcript') = Len(transcript) + 1
      /\ \A i \in 1 .. Len(transcript) : transcript'[i] = transcript[i]
      /\ transcript'[Len(transcript) + 1] = Result(c)
  BY OneMore
<1> DEFINE n == Len(context)
<1>2. /\ n \in 1 .. Len(transcript)
      /\ transcript[n].role = "assistant"
      /\ \A k \in 1 .. n : context[k] = transcript[k]
      /\ \A k \in n + 1 .. Len(transcript) : transcript[k].role = "toolResult"
  BY DEF ContextInv, BehindReply
<1>3. Result(c).role = "toolResult"
  BY DEF Result
<1> HIDE DEF n
<1>4. /\ n \in 1 .. Len(transcript')
      /\ transcript'[n].role = "assistant"
      /\ \A k \in 1 .. n : context[k] = transcript'[k]
  BY <1>1, <1>2
<1>5. ASSUME NEW k \in n + 1 .. Len(transcript')
      PROVE  transcript'[k].role = "toolResult"
  <2>1. CASE k = Len(transcript) + 1
    BY <2>1, <1>1, <1>3
  <2>2. CASE k \in n + 1 .. Len(transcript)
    <3>1. k \in 1 .. Len(transcript)
      BY <2>2, <1>1, <1>2
    <3> QED
      BY <2>2, <3>1, <1>1, <1>2
  <2> QED
    BY <2>1, <2>2, <1>1, <1>2
<1>6. BehindReply'
  BY <1>4, <1>5 DEF BehindReply, n
<1> QED
  BY <1>6 DEF ContextInv, Plain, BatchPcs

\* When a batch returns, its reply is followed by the results of its call calls.
LEMMA AllReported ==
  ASSUME TypeOK, BatchInv, FinishBatch
  PROVE  call \in Nat \ {0} /\ call <= size /\ TailIs(call)
<1>1. call \in Nat \ {0} /\ pc \in BatchPcs /\ call <= size
  BY BoundAssumption DEF FinishBatch, BatchPcs, BatchInv, BatchOpen, TypeOK, DataTypes
<1>2. PICK r \in 0 .. call :
          TailIs(r) /\ \A k \in 1 .. call : tool[<<batch, k>>] = "reported" <=> k <= r
  BY <1>1 DEF BatchInv, BatchTail
<1>3. call \in 1 .. call
  BY <1>1
<1>4. tool[<<batch, call>>] = "reported"
  BY <1>1, <1>3 DEF FinishBatch, BetweenCalls, Current
<1>5. r = call
  BY <1>1, <1>2, <1>3, <1>4
<1> QED
  BY <1>1, <1>2, <1>5

\* So the results it returns are those the transcript has behind the context.
LEMMA FinishContext ==
  ASSUME TypeOK, BatchInv, ContextInv, FinishBatch
  PROVE  ContextInv'
<1>1. call \in Nat \ {0} /\ TailIs(call) /\ pc \in BatchPcs /\ transcript \in Seq(Entries)
      /\ context \in Seq(Entries) /\ Len(transcript) \in Nat
  BY AllReported DEF FinishBatch, BatchPcs, TypeOK, DataTypes
<1> DEFINE n == Len(context)
           m == Len(transcript) - call
           results == [i \in 1 .. call |-> Result(<<batch, i>>)]
<1>2. /\ m \in 1 .. Len(transcript) /\ transcript[m].role = "assistant"
      /\ \A k \in m + 1 .. Len(transcript) : transcript[k] = Result(<<batch, k - m>>)
  BY <1>1 DEF TailIs
<1>3. /\ n \in 1 .. Len(transcript) /\ transcript[n].role = "assistant"
      /\ \A k \in 1 .. n : context[k] = transcript[k]
      /\ \A k \in n + 1 .. Len(transcript) : transcript[k].role = "toolResult"
  BY <1>1 DEF ContextInv, BehindReply
<1>4. \A c : Result(c).role = "toolResult"
  BY DEF Result
<1>5. n = m
  <2>1. ~(n < m)
    <3> SUFFICES ASSUME n < m PROVE FALSE
      OBVIOUS
    <3>1. m \in n + 1 .. Len(transcript)
      BY <1>1, <1>2, <1>3
    <3> QED
      BY <3>1, <1>2, <1>3
  <2>2. ~(m < n)
    <3> SUFFICES ASSUME m < n PROVE FALSE
      OBVIOUS
    <3>1. n \in m + 1 .. Len(transcript)
      BY <1>1, <1>2, <1>3
    <3> QED
      BY <3>1, <1>2, <1>3, <1>4
  <2> QED
    BY <1>1, <1>2, <1>3, <2>1, <2>2
<1>6. results \in Seq(Entries) /\ Len(results) = call
  <2>1. batch \in Batches /\ call \in 0 .. MaxCalls
    BY <1>1, BoundAssumption DEF TypeOK, DataTypes, BatchInv, BatchOpen, Batches
  <2> QED
    BY <2>1, <1>1, ResultTypes
<1>7. \A i \in 1 .. call : results[i] = Result(<<batch, i>>)
  OBVIOUS
<1> HIDE DEF results
<1>8. /\ context \o results \in Seq(Entries)
      /\ Len(context \o results) = n + call
      /\ \A i \in 1 .. n + call :
             (context \o results)[i] = IF i <= n THEN context[i] ELSE results[i - n]
  BY <1>1, <1>6, ConcatProperties
<1> HIDE DEF n
<1>9. n + call = Len(transcript)
  BY <1>1, <1>5
<1>10. ASSUME NEW i \in 1 .. Len(transcript)
       PROVE  (context \o results)[i] = transcript[i]
  <2>1. CASE i <= n
    <3>1. i \in 1 .. n
      BY <2>1, <1>3
    <3> QED
      BY <2>1, <3>1, <1>3, <1>8, <1>9
  <2>2. CASE ~(i <= n)
    <3>1. i \in n + 1 .. Len(transcript) /\ i - n \in 1 .. call
      BY <2>2, <1>1, <1>3, <1>9
    <3>2. transcript[i] = Result(<<batch, i - n>>)
      BY <3>1, <1>2, <1>5
    <3> QED
      BY <2>2, <3>1, <3>2, <1>7, <1>8, <1>9
  <2> QED
    BY <2>1, <2>2
<1>11. context \o results = transcript
  BY <1>1, <1>8, <1>9, <1>10, SeqEqual
<1>12. context' = context \o results /\ transcript' = transcript /\ pc' = "turn"
  BY DEF FinishBatch, results
<1> QED
  BY <1>11, <1>12 DEF ContextInv, Plain, BatchPcs

LEMMA NextContext == IInv /\ ContextInv /\ [Next]_vars => ContextInv'
<1> SUFFICES ASSUME TypeOK, BatchInv, ContextInv, [Next]_vars
             PROVE  ContextInv'
  BY DEF IInv
<1>1. CASE \/ \E m \in Msgs : Steer(m) \/ FollowUp(m)
           \/ ClearQueues \/ Abort \/ FailEnd \/ (\E c \in Calls : ToolStep(c)) \/ UNCHANGED vars
           \/ Request \/ TurnEnd \/ PollSteering \/ PollFollowUps \/ AgentEnd \/ Fail
           \/ StartCall \/ PrepareCall \/ FailTruncatedCall \/ Launch
  BY <1>1, QuietContext
  DEF Steer, FollowUp, ClearQueues, Abort, FailEnd, ToolStep, SettleCall, EndCall, vars, Request,
      TurnEnd, PollSteering, PollFollowUps, AgentEnd, Fail, StartCall, PrepareCall,
      FailTruncatedCall, Launch, Plain, BatchPcs
<1>2. CASE (\E m \in Msgs : Prompt(m)) \/ ContinueTurn \/ ContinueQueued
  BY <1>2, StartContext DEF Prompt, ContinueTurn, ContinueQueued
<1>3. CASE Reset \/ DropFailedReply \/ FinishRun \/ FailMessage
  BY <1>3 DEF Reset, DropFailedReply, FinishRun, FailMessage, ContextInv, Plain, BatchPcs
<1>4. CASE EmitPrompt \/ InitialPoll \/ FinishBatch
  BY <1>4, PromptContext, PollContext, FinishContext
<1>5. CASE Inject
  BY <1>5, BothContext DEF Inject, EmitMessage, Plain
<1>6. ASSUME NEW stop \in Stops, NEW n \in 0 .. MaxCalls, Reply(stop, n)
      PROVE  ContextInv'
  <2>1. \E e : e.role = "assistant" /\ transcript' = Append(transcript, e)
                 /\ context' = Append(context, e)
    BY <1>6 DEF Reply, EmitMessage, Assistant
  <2>2. pc \in Plain /\ pc' \in {"turn", "failedTurn"} \cup BatchPcs
    BY <1>6 DEF Reply, Plain, BatchPcs
  <2>3. pc' \in Plain \/ pc' = "failedTurn" \/ pc' \in BatchPcs
    BY <2>2 DEF Plain
  <2> QED
    BY <2>1, <2>2, <2>3, BothContext
<1>7. CASE ReportCall \/ \E i \in 1 .. MaxCalls : ReportInOrder(i)
  <2>1. /\ pc \in BatchPcs /\ UNCHANGED <<pc, context>>
        /\ \E c : transcript' = Append(transcript, Result(c))
    BY <1>7 DEF ReportCall, ReportInOrder, EmitMessage, BatchPcs
  <2> QED
    BY <2>1, ReportContext
<1> QED
  BY <1>1, <1>2, <1>3, <1>4, <1>5, <1>6, <1>7 DEF Next, Host, Turn, Batch, Failure

\* A message that is no reply, within or outside a batch.
LEMMA SaidAnswers ==
  ASSUME TypeOK, AnswerInv, NEW e, e.role # "assistant", transcript' = Append(transcript, e),
         UNCHANGED <<pc, batch, size, call, base, aborted>>
  PROVE  AnswerInv'
<1>1. /\ \A i \in DOMAIN transcript' : i \in DOMAIN transcript \/ i = Len(transcript) + 1
      /\ \A i \in DOMAIN transcript : transcript'[i] = transcript[i]
      /\ transcript'[Len(transcript) + 1] = e
      /\ \A i \in DOMAIN transcript : Answered(transcript, i) => Answered(transcript', i)
  BY OneMore
<1>2. RepliesKnown'
  BY <1>1 DEF AnswerInv, RepliesKnown
<1>3. RepliesAnswered'
  BY <1>1 DEF AnswerInv, RepliesAnswered
<1> QED
  BY <1>2, <1>3 DEF AnswerInv, AwaitsAll

\* A new run has no replies yet.
LEMMA StartAnswers ==
  ASSUME TypeOK, AnswerInv, NEW msgs, NEW skip, StartRun(msgs, skip)
  PROVE  AnswerInv'
<1>1. UNCHANGED <<transcript, batch, size>> /\ base' = batch /\ pc' = "prompts"
  BY DEF StartRun
<1>2. RepliesKnown' /\ AwaitsAll'
  BY <1>1 DEF AnswerInv, RepliesKnown, AwaitsAll, BatchPcs
<1>3. \A i \in DOMAIN transcript : transcript[i].role = "assistant" =>
          transcript[i].batch \in Nat /\ transcript[i].batch <= batch
  <2>1. \A i \in DOMAIN transcript : transcript[i].role = "assistant" => transcript[i].batch \in Nat
    <3>1. \A e \in Entries : e.role = "assistant" => e.batch \in Nat
      BY BoundAssumption DEF Entries
    <3> QED
      BY <3>1 DEF TypeOK, DataTypes
  <2> QED
    BY <2>1 DEF AnswerInv, RepliesKnown
<1>4. \A i \in DOMAIN transcript : ~(transcript[i].role = "assistant" /\ transcript[i].batch > batch)
  BY <1>3, BoundAssumption DEF TypeOK, DataTypes
<1>5. RepliesAnswered'
  BY <1>1, <1>4 DEF RepliesAnswered
<1> QED
  BY <1>2, <1>5 DEF AnswerInv

\* A reply with calls opens a batch, one without has nothing to be answered.
LEMMA ReplyAnswers ==
  ASSUME TypeOK, AnswerInv, NEW stop \in Stops, NEW n \in 0 .. MaxCalls, Reply(stop, n)
  PROVE  AnswerInv'
<1> DEFINE b == IF n > 0 THEN batch' ELSE 0
           entry == Assistant(stop, b, n)
<1>1. /\ batch \in Nat /\ n \in Nat /\ pc = "stream"
      /\ batch' = (IF n > 0 THEN batch + 1 ELSE batch) /\ size' = n
      /\ transcript' = Append(transcript, entry) /\ UNCHANGED <<base, aborted>>
      /\ n > 0 => pc' \in {"failedTurn"} \cup (BatchPcs \ {"awaiting"})
      /\ n = 0 => pc' \in {"failedTurn", "turn"}
  BY BoundAssumption DEF Reply, EmitMessage, TypeOK, DataTypes, BatchPcs
<1>2. entry.role = "assistant" /\ entry.batch = b /\ entry.calls = n
  BY DEF Assistant
<1>3. b <= batch' /\ (n > 0 => b = batch') /\ batch <= batch' /\ (n > 0 => batch < batch')
  BY <1>1
<1> HIDE DEF b, entry
<1>4. /\ \A i \in DOMAIN transcript' : i \in DOMAIN transcript \/ i = Len(transcript) + 1
      /\ \A i \in DOMAIN transcript : transcript'[i] = transcript[i]
      /\ transcript'[Len(transcript) + 1] = entry
      /\ \A i \in DOMAIN transcript : Answered(transcript, i) => Answered(transcript', i)
  BY <1>1, OneMore
<1>5. \A i \in DOMAIN transcript : transcript[i].role = "assistant" =>
          transcript[i].batch \in Nat /\ transcript[i].batch <= batch
  <2>1. \A e \in Entries : e.role = "assistant" => e.batch \in Nat
    BY BoundAssumption DEF Entries
  <2> QED
    BY <2>1 DEF AnswerInv, RepliesKnown, TypeOK, DataTypes
<1>6. \A i \in DOMAIN transcript : transcript[i].role = "assistant" =>
          transcript[i].batch <= batch' /\ (n > 0 => transcript[i].batch # batch')
  BY <1>1, <1>5
<1>7. AwaitsAll'
  BY <1>1 DEF AwaitsAll
<1>8. RepliesKnown'
  <2>1. pc' \in BatchPcs => n > 0
    BY <1>1 DEF BatchPcs
  <2> QED
    BY <1>1, <1>2, <1>3, <1>4, <1>6, <2>1 DEF RepliesKnown
<1>9. RepliesAnswered'
  <2> SUFFICES ASSUME ~aborted, pc' \in Live, NEW i \in DOMAIN transcript',
                      transcript'[i].role = "assistant", transcript'[i].batch > base,
                      ~(pc' \in BatchPcs /\ transcript'[i].batch = batch')
               PROVE  Answered(transcript', i)
    BY <1>1 DEF RepliesAnswered
  <2>1. CASE i \in DOMAIN transcript
    <3>1. pc \in Live /\ pc \notin BatchPcs
      BY <1>1 DEF Live, Plain, BatchPcs
    <3> QED
      BY <2>1, <3>1, <1>4 DEF AnswerInv, RepliesAnswered
  <2>2. CASE i = Len(transcript) + 1
    <3>1. n = 0
      BY <2>2, <1>1, <1>2, <1>3, <1>4 DEF Live, Plain, BatchPcs
    <3> QED
      BY <2>2, <3>1, <1>2, <1>4 DEF Answered
  <2> QED
    BY <2>1, <2>2, <1>4
<1> QED
  BY <1>7, <1>8, <1>9 DEF AnswerInv

\* A batch that returns has answered its reply, unless it was cut short.
LEMMA FinishAnswers ==
  ASSUME TypeOK, BatchInv, AnswerInv, FinishBatch
  PROVE  AnswerInv'
<1>1. /\ pc \in BatchPcs /\ pc' = "turn"
      /\ UNCHANGED <<transcript, batch, size, call, base, aborted>>
  BY DEF FinishBatch, BatchPcs, batchVars
<1>2. RepliesKnown' /\ AwaitsAll'
  BY <1>1 DEF AnswerInv, RepliesKnown, AwaitsAll, BatchPcs
<1>3. call \in Nat \ {0} /\ TailIs(call) /\ transcript \in Seq(Entries)
  BY AllReported DEF TypeOK, DataTypes
<1>4. ~aborted => call = size
  BY DEF FinishBatch, Broken, AnswerInv, AwaitsAll
<1>5. \A k \in 1 .. call : Result(<<batch, k>>) \in Elements(transcript)
  <2> TAKE k \in 1 .. call
  <2> DEFINE m == Len(transcript) - call
  <2>1. /\ m \in 1 .. Len(transcript) /\ Len(transcript) \in Nat
        /\ \A j \in m + 1 .. Len(transcript) : transcript[j] = Result(<<batch, j - m>>)
    BY <1>3 DEF TailIs
  <2>2. m + k \in m + 1 .. Len(transcript) /\ (m + k) - m = k /\ m + k \in DOMAIN transcript
    BY <1>3, <2>1
  <2>3. transcript[m + k] = Result(<<batch, k>>)
    BY <2>1, <2>2
  <2> QED
    BY <2>2, <2>3 DEF Elements
<1>6. RepliesAnswered'
  <2> SUFFICES ASSUME ~aborted, NEW i \in DOMAIN transcript,
                      transcript[i].role = "assistant", transcript[i].batch > base
               PROVE  Answered(transcript, i)
    BY <1>1 DEF RepliesAnswered
  <2>1. CASE transcript[i].batch = batch
    <3>1. transcript[i].calls = call
      BY <2>1, <1>1, <1>4 DEF AnswerInv, RepliesKnown
    <3> QED
      BY <2>1, <3>1, <1>5 DEF Answered
  <2>2. CASE transcript[i].batch # batch
    BY <2>2, <1>1 DEF AnswerInv, RepliesAnswered, Live
  <2> QED
    BY <2>1, <2>2
<1> QED
  BY <1>2, <1>6 DEF AnswerInv

LEMMA NextAnswers == IInv /\ AnswerInv /\ [Next]_vars => AnswerInv'
<1> SUFFICES ASSUME TypeOK, BatchInv, AnswerInv, [Next]_vars
             PROVE  AnswerInv'
  BY DEF IInv
<1>1. CASE \/ \E m \in Msgs : Steer(m) \/ FollowUp(m)
           \/ ClearQueues \/ Abort \/ (\E c \in Calls : ToolStep(c)) \/ UNCHANGED vars
           \/ InitialPoll \/ Request \/ PollSteering \/ PollFollowUps
           \/ PrepareCall \/ FailTruncatedCall
  BY <1>1, QuietAnswers
  DEF Steer, FollowUp, ClearQueues, Abort, ToolStep, SettleCall, EndCall, vars, InitialPoll,
      Request, PollSteering, PollFollowUps, PrepareCall, FailTruncatedCall,
      AnswerInv, AwaitsAll, batchVars, Live, Plain, BatchPcs
<1>2. CASE StartCall \/ Launch \/ TurnEnd
  <2>1. AwaitsAll'
    BY <1>2 DEF StartCall, Launch, TurnEnd, Broken, AwaitsAll, batchVars
  <2> QED
    BY <1>2, <2>1, QuietAnswers DEF StartCall, Launch, TurnEnd, batchVars, Live, Plain, BatchPcs
<1>3. CASE (\E m \in Msgs : Prompt(m)) \/ ContinueTurn \/ ContinueQueued
  BY <1>3, StartAnswers DEF Prompt, ContinueTurn, ContinueQueued
<1>4. CASE Reset \/ DropFailedReply \/ AgentEnd \/ FinishRun \/ Fail \/ FailEnd
  <2>1. UNCHANGED batch /\ pc' \notin Live
    BY <1>4 DEF Reset, DropFailedReply, AgentEnd, FinishRun, Fail, FailEnd, batchVars, Live, Plain, BatchPcs
  <2>2. \A i \in DOMAIN transcript' : i \in DOMAIN transcript /\ transcript'[i] = transcript[i]
    <3>1. CASE UNCHANGED transcript \/ transcript' = <<>>
      BY <3>1
    <3>2. CASE DropFailedReply
      <4>1. transcript \in Seq(Entries) /\ Len(transcript) \in Nat /\ Len(transcript) > 0
        BY <3>2 DEF DropFailedReply, TypeOK, DataTypes
      <4>2. transcript' = SubSeq(transcript, 1, Len(transcript) - 1)
        BY <3>2 DEF DropFailedReply
      <4> QED
        BY <4>1, <4>2
    <3> QED
      BY <1>4, <3>1, <3>2 DEF Reset, AgentEnd, FinishRun, Fail, FailEnd
  <2> QED
    BY <2>1, <2>2, EndedAnswers
<1>5. CASE EmitPrompt \/ Inject \/ ReportCall \/ \E i \in 1 .. MaxCalls : ReportInOrder(i)
  <2>1. \E e : e.role # "assistant" /\ transcript' = Append(transcript, e)
    BY <1>5 DEF EmitPrompt, Inject, ReportCall, ReportInOrder, EmitMessage, User, Result
  <2> QED
    BY <1>5, <2>1, SaidAnswers DEF EmitPrompt, Inject, ReportCall, ReportInOrder, batchVars
<1>6. CASE FailMessage
  <2> DEFINE e == Assistant(IF aborted THEN "aborted" ELSE "error", 0, 0)
  <2>1. transcript' = Append(transcript, e) /\ UNCHANGED <<batch, size>> /\ pc' = "failMessage"
    BY <1>6 DEF FailMessage, EmitMessage, batchVars
  <2>2. e.role = "assistant" /\ e.batch = 0
    BY DEF Assistant
  <2> HIDE DEF e
  <2>3. /\ \A i \in DOMAIN transcript' : i \in DOMAIN transcript \/ i = Len(transcript) + 1
        /\ \A i \in DOMAIN transcript : transcript'[i] = transcript[i]
        /\ transcript'[Len(transcript) + 1] = e
    BY <2>1, OneMore
  <2>4. 0 <= batch
    BY BoundAssumption DEF TypeOK, DataTypes
  <2>5. RepliesKnown'
    BY <2>1, <2>2, <2>3, <2>4 DEF AnswerInv, RepliesKnown, BatchPcs
  <2> QED
    BY <2>1, <2>5 DEF AnswerInv, RepliesAnswered, AwaitsAll, Live, Plain, BatchPcs
<1>7. ASSUME NEW stop \in Stops, NEW n \in 0 .. MaxCalls, Reply(stop, n)
      PROVE  AnswerInv'
  BY <1>7, ReplyAnswers
<1>8. CASE FinishBatch
  BY <1>8, FinishAnswers
<1> QED
  BY <1>1, <1>2, <1>3, <1>4, <1>5, <1>6, <1>7, <1>8 DEF Next, Host, Turn, Batch, Failure

\* What the loop sends to the provider (agent-loop.ts:281) is the conversation: its
\* own context, which it extends at :186, :219 and with the reply, is the agent's transcript;
\* unless the run was aborted every call of its replies has its result in it; and
\* the messages of a queue stand in the order in which they were queued.
THEOREM RequestsFaithful == Spec => []RequestsAreFaithful
<1>1. Init => MessageInv /\ OrderInv /\ ContextInv /\ AnswerInv
  <2>1. Init => ContextInv /\ AnswerInv
    BY DEF Init, ContextInv, AnswerInv, RepliesKnown, RepliesAnswered, AwaitsAll, Live, Plain, BatchPcs
  <2> QED
    BY <2>1, InitMessages, InitOrdered
<1>2. IInv /\ MessageInv /\ OrderInv /\ ContextInv /\ AnswerInv /\ [Next]_vars
          => (MessageInv /\ OrderInv /\ ContextInv /\ AnswerInv)'
  BY NextMessages, NextOrdered, NextContext, NextAnswers DEF IInv
<1>3. OrderInv /\ ContextInv /\ AnswerInv => RequestsAreFaithful
  <2> SUFFICES ASSUME OrderInv, ContextInv, AnswerInv
               PROVE  RequestsAreFaithful
    OBVIOUS
  <2>1. ContextIsTranscript
    BY DEF ContextInv, ContextIsTranscript, Plain
  <2>2. ASSUME pc = "stream", ~aborted, NEW i \in DOMAIN transcript,
               transcript[i].role = "assistant", transcript[i].batch > base
        PROVE  Answered(transcript, i)
    BY <2>2 DEF AnswerInv, RepliesAnswered, Live, Plain, BatchPcs
  <2>3. RequestsAreAnswered
    BY <2>1, <2>2 DEF RequestsAreAnswered, Answered
  <2> QED
    BY <2>3 DEF RequestsAreFaithful, OrderInv
<1> QED
  BY <1>1, <1>2, <1>3, Invariance, PTL DEF Spec

-----------------------------------------------------------------------------
(* Requests: what the provider is sent is complete.                         *)

\* Induction over the natural numbers, for a set of them.
LEMMA NatLeast ==
  ASSUME NEW T \in SUBSET Nat, T # {}
  PROVE  \E n \in T : \A k \in T : n <= k
<1> DEFINE R == OpToRel(<, Nat)
<1>1. IsWellFoundedOn(R, Nat)
  BY NatLessThanWellFounded
<1>2. \A a, b \in Nat : a < b => <<a, b>> \in R
  BY DEF OpToRel
<1> HIDE DEF R
<1>3. PICK x \in T : \A y \in T : ~ (<<y, x>> \in R)
  BY <1>1, WFMin
<1>4. ASSUME NEW k \in T, ~ (x <= k) PROVE FALSE
  <2>1. k \in Nat /\ x \in Nat
    OBVIOUS
  <2>2. k < x
    BY <1>4, <2>1
  <2> QED
    BY <1>2, <1>3, <2>1, <2>2
<1> QED
  BY <1>4

LEMMA NatBelow ==
  ASSUME NEW S \in SUBSET Nat, 0 \in S, \A n \in S : n + 1 \in S
  PROVE  \A n \in Nat : n \in S
<1> SUFFICES ASSUME Nat \ S # {} PROVE FALSE
  OBVIOUS
<1>1. PICK n \in Nat \ S : \A k \in Nat \ S : n <= k
  BY NatLeast
<1>2. n # 0 /\ n - 1 \in Nat /\ n - 1 \in S
  BY <1>1
<1> QED
  BY <1>1, <1>2

\* The reply that made the call of a result has not failed.
ResultsLive(t) == \A j \in DOMAIN t : t[j].role = "toolResult" => ~ Failed(t[j - t[j].call[2]])

\* A reply behind which only results stand has not failed.
LastReplyLive(t) ==
    \A i \in DOMAIN t :
        t[i].role = "assistant" /\ (\A k \in i + 1 .. Len(t) : t[k].role = "toolResult")
            => ~ Failed(t[i])

LiveInv == ResultsLive(transcript) /\ (pc \in BatchPcs => LastReplyLive(transcript))

\* An entry that is no result comes behind the batches.
LEMMA LiveOther ==
  ASSUME NEW t \in Seq(Entries), ResultsFollow(t), ResultsLive(t), NEW e, e.role # "toolResult"
  PROVE  /\ ResultsLive(Append(t, e))
         /\ ~ Failed(e) => LastReplyLive(Append(t, e))
<1> DEFINE u == Append(t, e)
<1>1. /\ Len(t) \in Nat /\ DOMAIN t = 1 .. Len(t) /\ DOMAIN u = 1 .. Len(t) + 1
      /\ \A k \in 1 .. Len(t) : u[k] = t[k]
      /\ u[Len(t) + 1] = e /\ Len(u) = Len(t) + 1
  OBVIOUS
<1> HIDE DEF u
<1>2. ASSUME NEW j \in DOMAIN u, u[j].role = "toolResult" PROVE ~ Failed(u[j - u[j].call[2]])
  <2>1. j \in DOMAIN t /\ u[j] = t[j] /\ t[j].role = "toolResult"
    BY <1>1, <1>2
  <2>2. Answers(t, j) /\ ~ Failed(t[j - t[j].call[2]])
    BY <2>1 DEF ResultsFollow, ResultsLive
  <2>3. j - t[j].call[2] \in DOMAIN t
    BY <2>2 DEF Answers
  <2> QED
    BY <1>1, <2>1, <2>2, <2>3
<1>3. ASSUME NEW i \in DOMAIN u, \A k \in i + 1 .. Len(u) : u[k].role = "toolResult", ~ Failed(e)
      PROVE  ~ Failed(u[i])
  <2>1. ~ (i <= Len(t))
    BY <1>1, <1>3
  <2> QED
    BY <1>1, <1>3, <2>1
<1> QED
  BY <1>2, <1>3 DEF ResultsLive, LastReplyLive, u

\* A result is that of the last reply.
LEMMA LiveResult ==
  ASSUME NEW t \in Seq(Entries), ResultsFollow(t), ResultsLive(t), LastReplyLive(t),
         NEW e \in Entries, e.role = "toolResult", ResultsFollow(Append(t, e))
  PROVE  ResultsLive(Append(t, e)) /\ LastReplyLive(Append(t, e))
<1> DEFINE u == Append(t, e)
<1>1. /\ Len(t) \in Nat /\ DOMAIN t = 1 .. Len(t) /\ DOMAIN u = 1 .. Len(t) + 1
      /\ \A k \in 1 .. Len(t) : u[k] = t[k]
      /\ u[Len(t) + 1] = e /\ Len(u) = Len(t) + 1 /\ u \in Seq(Entries)
  OBVIOUS
<1>0. ResultsFollow(u)
  OBVIOUS
<1> HIDE DEF u
<1>2. ASSUME NEW i \in DOMAIN u, u[i].role = "assistant",
             \A k \in i + 1 .. Len(u) : u[k].role = "toolResult"
      PROVE  ~ Failed(u[i])
  <2>1. i # Len(t) + 1
    BY <1>1, <1>2
  <2>2. i \in DOMAIN t
    BY <1>1, <2>1
  <2>3. \A k \in i + 1 .. Len(t) : k \in i + 1 .. Len(u) /\ u[k] = t[k]
    BY <1>1, <2>2
  <2> QED
    BY <1>1, <1>2, <2>2, <2>3 DEF LastReplyLive
<1>3. ASSUME NEW j \in DOMAIN u, u[j].role = "toolResult" PROVE ~ Failed(u[j - u[j].call[2]])
  <2>1. CASE j \in DOMAIN t
    <3>1. u[j] = t[j] /\ t[j].role = "toolResult"
      BY <1>1, <1>3, <2>1
    <3>2. Answers(t, j) /\ ~ Failed(t[j - t[j].call[2]])
      BY <2>1, <3>1 DEF ResultsFollow, ResultsLive
    <3>3. j - t[j].call[2] \in DOMAIN t
      BY <3>2 DEF Answers
    <3> QED
      BY <1>1, <3>1, <3>2, <3>3
  <2>2. CASE j = Len(t) + 1
    <3> DEFINE i == j - u[j].call[2]
    <3>1. Answers(u, j)
      BY <1>0, <1>3 DEF ResultsFollow
    <3>2. /\ i \in DOMAIN u /\ u[i].role = "assistant"
          /\ \A k \in i + 1 .. j : u[k] = Result(<<u[j].call[1], k - i>>)
      BY <3>1 DEF Answers
    <3> HIDE DEF i
    <3>3. \A c : Result(c).role = "toolResult"
      BY DEF Result
    <3>4. \A k \in i + 1 .. Len(u) : u[k].role = "toolResult"
      <4>1. Len(u) = j
        BY <1>1, <2>2
      <4>2. \A k \in i + 1 .. j : u[k].role = "toolResult"
        BY <3>2, <3>3, Zenon
      <4> QED
        BY <4>1, <4>2
    <3> QED
      BY <1>2, <3>2, <3>4 DEF i
  <2> QED
    BY <1>1, <2>1, <2>2
<1> QED
  BY <1>2, <1>3 DEF ResultsLive, LastReplyLive, u

\* The last entry is taken off.
LEMMA LiveDrop ==
  ASSUME NEW t \in Seq(Entries), t # <<>>, ResultsFollow(t), ResultsLive(t)
  PROVE  ResultsLive(SubSeq(t, 1, Len(t) - 1))
<1> DEFINE u == SubSeq(t, 1, Len(t) - 1)
<1>1. /\ Len(t) \in Nat \ {0} /\ DOMAIN t = 1 .. Len(t) /\ DOMAIN u = 1 .. Len(t) - 1
      /\ \A k \in 1 .. Len(t) - 1 : u[k] = t[k]
  OBVIOUS
<1> HIDE DEF u
<1>2. ASSUME NEW j \in DOMAIN u, u[j].role = "toolResult" PROVE ~ Failed(u[j - u[j].call[2]])
  <2>1. j \in 1 .. Len(t) /\ j <= Len(t) - 1 /\ u[j] = t[j] /\ t[j].role = "toolResult"
    BY <1>1, <1>2
  <2>2. Answers(t, j) /\ ~ Failed(t[j - t[j].call[2]])
    BY <1>1, <2>1 DEF ResultsFollow, ResultsLive
  <2>3. j - t[j].call[2] \in DOMAIN t /\ t[j].call[2] \in Nat
    BY <1>1, <2>1, <2>2, ResultCalls DEF Answers
  <2>4. j - t[j].call[2] \in 1 .. Len(t) - 1
    BY <1>1, <2>1, <2>3
  <2> QED
    BY <1>1, <2>1, <2>2, <2>4
<1> QED
  BY <1>2 DEF ResultsLive, u

\* Steps that leave the transcript alone, or say something that is no result.
LEMMA LiveQuiet ==
  ASSUME LiveInv, UNCHANGED transcript, pc' \in BatchPcs => pc \in BatchPcs
  PROVE  LiveInv'
BY DEF LiveInv, ResultsLive, LastReplyLive

LEMMA LiveSaid ==
  ASSUME IInv, LiveInv, NEW e, e.role # "toolResult", transcript' = Append(transcript, e),
         pc' \in BatchPcs => ~ Failed(e)
  PROVE  LiveInv'
<1>1. transcript \in Seq(Entries) /\ ResultsFollow(transcript) /\ ResultsLive(transcript)
  BY DEF IInv, TypeOK, DataTypes, BatchInv, ResultsFollowTheirCall, LiveInv
<1>2. ResultsLive(transcript') /\ (pc' \in BatchPcs => LastReplyLive(transcript'))
  BY <1>1, LiveOther
<1> QED
  BY <1>2 DEF LiveInv, ResultsLive, LastReplyLive

LEMMA NextLive == IInv /\ LiveInv /\ [Next]_vars => LiveInv'
<1> SUFFICES ASSUME IInv, LiveInv, [Next]_vars PROVE LiveInv'
  OBVIOUS
<1> USE DEF queueVars, batchVars
<1>0. IInv' /\ transcript \in Seq(Entries) /\ transcript' \in Seq(Entries)
  BY NextType, NextBatches DEF IInv, BatchInv, TypeOK, DataTypes
<1>1. CASE Host
  <2>1. CASE \E m \in Msgs : Steer(m) \/ FollowUp(m)
    BY <2>1, LiveQuiet DEF Steer, FollowUp
  <2>2. CASE (\E m \in Msgs : Prompt(m)) \/ ContinueTurn \/ ContinueQueued
    BY <2>2, LiveQuiet DEF Prompt, ContinueTurn, ContinueQueued, StartRun, BatchPcs
  <2>3. CASE ClearQueues \/ Abort
    BY <2>3, LiveQuiet DEF ClearQueues, Abort
  <2>4. CASE Reset
    BY <2>4 DEF Reset, LiveInv, BatchPcs, ResultsLive
  <2>5. CASE DropFailedReply
    <3>1. /\ transcript # <<>> /\ pc' \notin BatchPcs
          /\ transcript' = SubSeq(transcript, 1, Len(transcript) - 1)
      BY <2>5 DEF DropFailedReply, BatchPcs
    <3>2. ResultsFollow(transcript) /\ ResultsLive(transcript)
      BY DEF IInv, BatchInv, ResultsFollowTheirCall, LiveInv
    <3>3. ResultsLive(transcript')
      BY <1>0, <3>1, <3>2, LiveDrop
    <3> QED
      BY <3>1, <3>3 DEF LiveInv, ResultsLive
  <2> QED
    BY <1>1, <2>1, <2>2, <2>3, <2>4, <2>5 DEF Host
<1>2. CASE Turn
  <2>1. \A m : User(m).role # "toolResult"
    BY DEF User
  <2>2. CASE EmitPrompt
    BY <2>1, <2>2, LiveSaid DEF EmitPrompt, EmitMessage, BatchPcs
  <2>3. CASE Inject
    BY <2>1, <2>3, LiveSaid DEF Inject, EmitMessage, BatchPcs
  <2>4. ASSUME NEW stop \in Stops, NEW n \in 0 .. MaxCalls, Reply(stop, n) PROVE LiveInv'
    <3> DEFINE e == Assistant(stop, IF n > 0 THEN batch' ELSE 0, n)
    <3>1. e.role # "toolResult" /\ e.stop = stop
      BY DEF Assistant
    <3>2. transcript' = Append(transcript, e)
      BY <2>4 DEF Reply, EmitMessage
    <3>3. pc' \in BatchPcs => stop \notin {"error", "aborted"}
      BY <2>4 DEF Reply, BatchPcs
    <3> HIDE DEF e
    <3> QED
      BY <3>1, <3>2, <3>3, LiveSaid DEF Failed
  <2>5. CASE InitialPoll \/ Request \/ TurnEnd \/ PollSteering \/ PollFollowUps \/ AgentEnd
               \/ FinishRun
    BY <2>5, LiveQuiet DEF InitialPoll, Request, TurnEnd, PollSteering, PollFollowUps, AgentEnd,
                           FinishRun, BatchPcs
  <2> QED
    BY <1>2, <2>2, <2>3, <2>4, <2>5 DEF Turn
<1>3. CASE Batch
  <2>1. ASSUME NEW c, pc \in BatchPcs, transcript' = Append(transcript, Result(c)) PROVE LiveInv'
    <3>1. /\ ResultsFollow(transcript) /\ ResultsLive(transcript) /\ LastReplyLive(transcript)
          /\ ResultsFollow(transcript')
      BY <1>0, <2>1 DEF IInv, BatchInv, ResultsFollowTheirCall, ResultsFollow, Answers, LiveInv
    <3>2. Result(c) \in Entries /\ Result(c).role = "toolResult"
      <4>1. transcript'[Len(transcript) + 1] = Result(c) /\ Len(transcript) + 1 \in DOMAIN transcript'
        BY <1>0, <2>1
      <4> QED
        BY <1>0, <4>1 DEF Result
    <3>3. ResultsLive(transcript') /\ LastReplyLive(transcript')
      BY <1>0, <2>1, <3>1, <3>2, LiveResult
    <3> QED
      BY <3>3 DEF LiveInv, ResultsLive, LastReplyLive
  <2>2. CASE ReportCall
    BY <2>1, <2>2 DEF ReportCall, EmitMessage, BatchPcs
  <2>3. CASE \E i \in 1 .. MaxCalls : ReportInOrder(i)
    BY <2>1, <2>3 DEF ReportInOrder, EmitMessage, BatchPcs
  <2>4. CASE StartCall \/ PrepareCall \/ FailTruncatedCall \/ Launch \/ FinishBatch
    BY <2>4, LiveQuiet DEF StartCall, PrepareCall, FailTruncatedCall, Launch, FinishBatch, BatchPcs
  <2> QED
    BY <1>3, <2>2, <2>3, <2>4 DEF Batch
<1>4. CASE Failure
  <2>1. CASE FailMessage
    <3> DEFINE e == Assistant(IF aborted THEN "aborted" ELSE "error", 0, 0)
    <3>1. e.role # "toolResult" /\ transcript' = Append(transcript, e) /\ pc' \notin BatchPcs
      BY <2>1 DEF FailMessage, EmitMessage, Assistant, BatchPcs
    <3> HIDE DEF e
    <3> QED
      BY <3>1, LiveSaid
  <2>2. CASE Fail \/ FailEnd
    BY <2>2, LiveQuiet DEF Fail, FailEnd, BatchPcs
  <2> QED
    BY <1>4, <2>1, <2>2 DEF Failure
<1>5. CASE \E c \in Calls : ToolStep(c)
  BY <1>5, LiveQuiet DEF ToolStep, SettleCall, EndCall
<1>6. CASE UNCHANGED vars
  BY <1>6, LiveQuiet DEF vars
<1> QED
  BY <1>1, <1>2, <1>3, <1>4, <1>5, <1>6 DEF Next

\* What a request may hold: entries, and results that were made up.
Sent == Entries \cup {Result(c) : c \in Nat \X Nat}

\* A sequence that may be sent.
Sound(q) == q \in Seq(Sent) /\ WholeBatches(q) /\ \A i \in DOMAIN q : ~ Failed(q[i])

\* r is q, the reply m and the results of its first k calls.
Partial(r, q, m, k) ==
    /\ Len(r) = Len(q) + 1 + k
    /\ \A i \in 1 .. Len(q) : r[i] = q[i]
    /\ r[Len(q) + 1] = m
    /\ \A i \in 1 .. k : r[Len(q) + 1 + i] = Result(<<m.batch, i>>)

LEMMA ResultRole == \A c : Result(c).role = "toolResult" /\ Result(c).call = c
BY DEF Result

LEMMA PartialMore ==
  ASSUME NEW q \in Seq(Sent), NEW r \in Seq(Sent), NEW m, m.batch \in Nat, NEW k \in Nat,
         Partial(r, q, m, k)
  PROVE  /\ Append(r, Result(<<m.batch, k + 1>>)) \in Seq(Sent)
         /\ Partial(Append(r, Result(<<m.batch, k + 1>>)), q, m, k + 1)
<1> DEFINE e == Result(<<m.batch, k + 1>>)
           u == Append(r, e)
<1>1. e \in Sent
  <2>1. <<m.batch, k + 1>> \in Nat \X Nat
    OBVIOUS
  <2> QED
    BY <2>1, Zenon DEF Sent
<1> HIDE DEF e
<1>2. /\ u \in Seq(Sent) /\ Len(r) \in Nat /\ Len(q) \in Nat /\ Len(u) = Len(r) + 1
      /\ \A i \in 1 .. Len(r) : u[i] = r[i]
      /\ u[Len(r) + 1] = e
  BY <1>1
<1> HIDE DEF u
<1>3. /\ Len(r) = Len(q) + 1 + k /\ \A i \in 1 .. Len(q) : r[i] = q[i]
      /\ r[Len(q) + 1] = m
      /\ \A i \in 1 .. k : r[Len(q) + 1 + i] = Result(<<m.batch, i>>)
  BY DEF Partial
<1>4. Len(u) = Len(q) + 1 + (k + 1) /\ u[Len(q) + 1] = m /\ \A i \in 1 .. Len(q) : u[i] = q[i]
  BY <1>2, <1>3
<1>5. ASSUME NEW i \in 1 .. k + 1 PROVE u[Len(q) + 1 + i] = Result(<<m.batch, i>>)
  <2>1. CASE i = k + 1
    BY <1>2, <1>3, <2>1 DEF e
  <2>2. CASE i \in 1 .. k
    <3>1. Len(q) + 1 + i \in 1 .. Len(r)
      BY <1>2, <1>3, <2>2
    <3> QED
      BY <1>2, <1>3, <2>2, <3>1
  <2> QED
    BY <2>1, <2>2
<1>6. Partial(u, q, m, k + 1)
  BY <1>4, <1>5 DEF Partial
<1> QED
  BY <1>2, <1>6 DEF u, e

\* A reply and the results of all its calls may follow what may be sent.
LEMMA SoundReply ==
  ASSUME NEW q, Sound(q), NEW r \in Seq(Sent), NEW m, m.role = "assistant", ~ Failed(m),
         m.calls \in Nat, Partial(r, q, m, m.calls)
  PROVE  Sound(r)
<1>1. /\ q \in Seq(Sent) /\ Len(q) \in Nat /\ Len(r) \in Nat /\ DOMAIN q = 1 .. Len(q)
      /\ DOMAIN r = 1 .. Len(r)
  BY DEF Sound
<1>2. /\ Len(r) = Len(q) + 1 + m.calls /\ \A i \in 1 .. Len(q) : r[i] = q[i]
      /\ r[Len(q) + 1] = m
      /\ \A i \in 1 .. m.calls : r[Len(q) + 1 + i] = Result(<<m.batch, i>>)
  BY DEF Partial
<1>3. ASSUME NEW i \in DOMAIN r, i > Len(q) + 1
      PROVE  \E k \in 1 .. m.calls : i = Len(q) + 1 + k /\ r[i] = Result(<<m.batch, k>>)
  <2>1. i - (Len(q) + 1) \in 1 .. m.calls /\ i = Len(q) + 1 + (i - (Len(q) + 1))
    BY <1>1, <1>2, <1>3
  <2> QED
    BY <1>2, <2>1
<1>4. \A i \in DOMAIN r : i \in 1 .. Len(q) \/ i = Len(q) + 1 \/ i > Len(q) + 1
  BY <1>1, <1>2
<1>5. ASSUME NEW i \in DOMAIN r, r[i].role = "assistant", NEW k \in 1 .. r[i].calls
      PROVE  i + k \in DOMAIN r /\ r[i + k] = Result(<<r[i].batch, k>>)
  <2>1. CASE i \in 1 .. Len(q)
    <3>1. i + k \in DOMAIN q /\ q[i + k] = Result(<<q[i].batch, k>>)
      BY <1>1, <1>2, <1>5, <2>1 DEF Sound, WholeBatches
    <3>2. i + k \in 1 .. Len(r)
      BY <1>1, <1>2, <3>1
    <3> QED
      BY <1>1, <1>2, <2>1, <3>1, <3>2
  <2>2. CASE i = Len(q) + 1
    <3>1. i + k \in 1 .. Len(r) /\ k \in 1 .. m.calls
      BY <1>1, <1>2, <2>2
    <3> QED
      BY <1>1, <1>2, <2>2, <3>1
  <2> QED
    BY <1>3, <1>4, <1>5, <2>1, <2>2, ResultRole
<1>6. ASSUME NEW j \in DOMAIN r, r[j].role = "toolResult"
      PROVE  \E i \in 1 .. j - 1 : r[i].role = "assistant" /\ j <= i + r[i].calls
  <2>1. CASE j \in 1 .. Len(q)
    <3>1. q[j].role = "toolResult" /\ j \in DOMAIN q
      BY <1>1, <1>2, <1>6, <2>1
    <3>2. PICK i \in 1 .. j - 1 : q[i].role = "assistant" /\ j <= i + q[i].calls
      BY <3>1 DEF Sound, WholeBatches
    <3>3. r[i] = q[i]
      BY <1>1, <1>2, <2>1
    <3> QED
      BY <3>2, <3>3
  <2>2. CASE j > Len(q) + 1
    <3>1. Len(q) + 1 \in 1 .. j - 1 /\ j <= Len(q) + 1 + m.calls
      BY <1>1, <1>2, <2>2
    <3> QED
      BY <1>2, <3>1
  <2> QED
    BY <1>2, <1>4, <1>6, <2>1, <2>2
<1>7. ASSUME NEW i \in DOMAIN r PROVE ~ Failed(r[i])
  <2>1. CASE i \in 1 .. Len(q)
    BY <1>1, <1>2, <2>1 DEF Sound
  <2>2. CASE i > Len(q) + 1
    BY <1>3, <2>2, ResultRole DEF Failed
  <2> QED
    BY <1>2, <1>4, <2>1, <2>2
<1>8. WholeBatches(r)
  BY <1>5, <1>6 DEF WholeBatches
<1> QED
  BY <1>7, <1>8 DEF Sound

\* So may a user message, or a reply without calls.
LEMMA SoundPlain ==
  ASSUME NEW q, Sound(q), NEW e \in Entries, e.role # "toolResult", ~ Failed(e),
         e.role = "assistant" => e.calls = 0
  PROVE  Sound(Append(q, e))
<1> DEFINE r == Append(q, e)
<1>0. q \in Seq(Sent) /\ e \in Sent
  BY DEF Sound, Sent
<1>1. /\ r \in Seq(Sent) /\ Len(q) \in Nat /\ DOMAIN q = 1 .. Len(q) /\ DOMAIN r = 1 .. Len(q) + 1
      /\ \A i \in 1 .. Len(q) : r[i] = q[i]
      /\ r[Len(q) + 1] = e
  BY <1>0
<1> HIDE DEF r
<1>2. ASSUME NEW i \in DOMAIN r, r[i].role = "assistant", NEW k \in 1 .. r[i].calls
      PROVE  i + k \in DOMAIN r /\ r[i + k] = Result(<<r[i].batch, k>>)
  <2>1. i # Len(q) + 1
    BY <1>1, <1>2
  <2>2. i \in DOMAIN q /\ r[i] = q[i]
    BY <1>1, <2>1
  <2>3. i + k \in DOMAIN q /\ q[i + k] = Result(<<q[i].batch, k>>)
    BY <1>2, <2>2 DEF Sound, WholeBatches
  <2> QED
    BY <1>1, <2>2, <2>3
<1>3. ASSUME NEW j \in DOMAIN r, r[j].role = "toolResult"
      PROVE  \E i \in 1 .. j - 1 : r[i].role = "assistant" /\ j <= i + r[i].calls
  <2>1. j \in DOMAIN q /\ r[j] = q[j]
    BY <1>1, <1>3
  <2>2. PICK i \in 1 .. j - 1 : q[i].role = "assistant" /\ j <= i + q[i].calls
    BY <1>3, <2>1 DEF Sound, WholeBatches
  <2>3. r[i] = q[i]
    BY <1>1, <2>1
  <2> QED
    BY <2>2, <2>3
<1>4. WholeBatches(r)
  BY <1>2, <1>3 DEF WholeBatches
<1>5. \A i \in DOMAIN r : ~ Failed(r[i])
  BY <1>1 DEF Sound
<1> QED
  BY <1>1, <1>4, <1>5 DEF Sound, r

\* One call in insertSyntheticToolResults, and the whole loop up to call n.
Give(s, prev, k) ==
    IF s.calls[k] \in s.answered THEN prev ELSE Append(prev, Result(s.calls[k]))

Gives(g, s, n) == g = [k \in 0 .. n |-> IF k = 0 THEN s.result ELSE Give(s, g[k - 1], k)]

LEMMA GivesExist == ASSUME NEW s PROVE \A n \in Nat : \E g : Gives(g, s, n)
<1> DEFINE N == {n \in Nat : \E g : Gives(g, s, n)}
<1>1. 0 \in N
  <2> DEFINE g == [k \in 0 .. 0 |-> s.result]
  <2>1. g = [k \in 0 .. 0 |-> IF k = 0 THEN s.result ELSE Give(s, g[k - 1], k)]
    OBVIOUS
  <2> QED
    BY <2>1 DEF Gives
<1>2. ASSUME NEW n \in N PROVE n + 1 \in N
  <2>1. PICK g : Gives(g, s, n)
    OBVIOUS
  <2>2. \A k \in 0 .. n : g[k] = IF k = 0 THEN s.result ELSE Give(s, g[k - 1], k)
    BY <2>1 DEF Gives
  <2> DEFINE h == [k \in 0 .. n + 1 |-> IF k = n + 1 THEN Give(s, g[n], k) ELSE g[k]]
  <2>3. ASSUME NEW k \in 0 .. n + 1
        PROVE  h[k] = IF k = 0 THEN s.result ELSE Give(s, h[k - 1], k)
    <3>1. CASE k = n + 1
      <4>1. k # 0 /\ k - 1 = n /\ n \in 0 .. n + 1 /\ n # n + 1
        BY <3>1
      <4>2. h[k] = Give(s, g[n], k) /\ h[k - 1] = g[n]
        BY <3>1, <4>1
      <4> QED
        BY <4>1, <4>2
    <3>2. CASE k \in 0 .. n
      <4>1. k # n + 1 /\ (k # 0 => k - 1 \in 0 .. n + 1 /\ k - 1 # n + 1)
        BY <3>2
      <4>2. h[k] = g[k] /\ (k # 0 => h[k - 1] = g[k - 1])
        BY <4>1
      <4> QED
        BY <2>2, <3>2, <4>2
    <3> QED
      BY <3>1, <3>2
  <2>4. h = [k \in 0 .. n + 1 |-> IF k = 0 THEN s.result ELSE Give(s, h[k - 1], k)]
    <3>1. h = [k \in 0 .. n + 1 |-> h[k]]
      OBVIOUS
    <3> HIDE DEF h
    <3> QED
      BY <2>3, <3>1
  <2> HIDE DEF h
  <2>5. Gives(h, s, n + 1)
    BY <2>4 DEF Gives
  <2> QED
    BY <2>5
<1>3. N \in SUBSET Nat
  OBVIOUS
<1> HIDE DEF N
<1>4. \A n \in Nat : n \in N
  BY <1>1, <1>2, <1>3, NatBelow
<1> QED
  BY <1>4 DEF N

LEMMA ClosedIs ==
  ASSUME NEW s, Len(s.calls) \in Nat, s.calls # <<>>
  PROVE  \E g : /\ Closed(s) = [result |-> g[Len(s.calls)], calls |-> <<>>, answered |-> {}]
                /\ g[0] = s.result
                /\ \A k \in 1 .. Len(s.calls) : g[k] = Give(s, g[k - 1], k)
<1> DEFINE n == Len(s.calls)
           Body(g) == [k \in 0 .. n |-> IF k = 0 THEN s.result ELSE Give(s, g[k - 1], k)]
           given == CHOOSE g : g = Body(g)
<1>1. Closed(s) = [result |-> given[n], calls |-> <<>>, answered |-> {}]
  BY DEF Closed, Begun, Give
<1>2. \E g : g = Body(g)
  <2>1. PICK g : Gives(g, s, n)
    BY GivesExist
  <2>2. g = Body(g)
    BY <2>1 DEF Gives
  <2> QED
    BY <2>2
<1>3. given = Body(given)
  <2> HIDE DEF Body
  <2> QED
    BY <1>2
<1> HIDE DEF given
<1>4. given[0] = s.result /\ \A k \in 1 .. n : given[k] = Give(s, given[k - 1], k)
  <2>1. n \in Nat /\ \A k \in 0 .. n : given[k] = IF k = 0 THEN s.result ELSE Give(s, given[k - 1], k)
    BY <1>3
  <2>2. 0 \in 0 .. n /\ \A k \in 1 .. n : k \in 0 .. n /\ k # 0
    BY <2>1
  <2> QED
    BY <2>1, <2>2
<1> QED
  BY <1>1, <1>4

\* The loop over the messages of the context, up to message n.
Passes(g, t, n) == g = [k \in 0 .. n |-> IF k = 0 THEN Begun ELSE Converted(g[k - 1], t[k])]

LEMMA PassesExist == ASSUME NEW t PROVE \A n \in Nat : \E g : Passes(g, t, n)
<1> DEFINE N == {n \in Nat : \E g : Passes(g, t, n)}
<1>1. 0 \in N
  <2> DEFINE g == [k \in 0 .. 0 |-> Begun]
  <2>1. g = [k \in 0 .. 0 |-> IF k = 0 THEN Begun ELSE Converted(g[k - 1], t[k])]
    OBVIOUS
  <2> QED
    BY <2>1 DEF Passes
<1>2. ASSUME NEW n \in N PROVE n + 1 \in N
  <2>1. PICK g : Passes(g, t, n)
    OBVIOUS
  <2>2. \A k \in 0 .. n : g[k] = IF k = 0 THEN Begun ELSE Converted(g[k - 1], t[k])
    BY <2>1 DEF Passes
  <2> DEFINE h == [k \in 0 .. n + 1 |-> IF k = n + 1 THEN Converted(g[n], t[k]) ELSE g[k]]
  <2>3. ASSUME NEW k \in 0 .. n + 1
        PROVE  h[k] = IF k = 0 THEN Begun ELSE Converted(h[k - 1], t[k])
    <3>1. CASE k = n + 1
      <4>1. k # 0 /\ k - 1 = n /\ n \in 0 .. n + 1 /\ n # n + 1
        BY <3>1
      <4>2. h[k] = Converted(g[n], t[k]) /\ h[k - 1] = g[n]
        BY <3>1, <4>1
      <4> QED
        BY <4>1, <4>2
    <3>2. CASE k \in 0 .. n
      <4>1. k # n + 1 /\ (k # 0 => k - 1 \in 0 .. n + 1 /\ k - 1 # n + 1)
        BY <3>2
      <4>2. h[k] = g[k] /\ (k # 0 => h[k - 1] = g[k - 1])
        BY <4>1
      <4> QED
        BY <2>2, <3>2, <4>2
    <3> QED
      BY <3>1, <3>2
  <2>4. h = [k \in 0 .. n + 1 |-> IF k = 0 THEN Begun ELSE Converted(h[k - 1], t[k])]
    <3>1. h = [k \in 0 .. n + 1 |-> h[k]]
      OBVIOUS
    <3> HIDE DEF h
    <3> QED
      BY <2>3, <3>1
  <2> HIDE DEF h
  <2>5. Passes(h, t, n + 1)
    BY <2>4 DEF Passes
  <2> QED
    BY <2>5
<1>3. N \in SUBSET Nat
  OBVIOUS
<1> HIDE DEF N
<1>4. \A n \in Nat : n \in N
  BY <1>1, <1>2, <1>3, NatBelow
<1> QED
  BY <1>4 DEF N

LEMMA TransformIs ==
  ASSUME NEW t, Len(t) \in Nat
  PROVE  \E pass : /\ transformMessages(t) = Closed(pass[Len(t)]).result
                   /\ pass[0] = Begun
                   /\ \A n \in 1 .. Len(t) : pass[n] = Converted(pass[n - 1], t[n])
<1> DEFINE Body(g) == [n \in 0 .. Len(t) |-> IF n = 0 THEN Begun ELSE Converted(g[n - 1], t[n])]
           pass == CHOOSE g : g = Body(g)
<1>1. transformMessages(t) = Closed(pass[Len(t)]).result
  BY DEF transformMessages
<1>2. \E g : g = Body(g)
  <2>1. PICK g : Passes(g, t, Len(t))
    BY PassesExist
  <2>2. g = Body(g)
    BY <2>1 DEF Passes
  <2> QED
    BY <2>2
<1>3. pass = Body(pass)
  <2> HIDE DEF Body
  <2> QED
    BY <1>2
<1> HIDE DEF pass
<1>4. pass[0] = Begun /\ \A n \in 1 .. Len(t) : pass[n] = Converted(pass[n - 1], t[n])
  <2>1. \A n \in 0 .. Len(t) : pass[n] = IF n = 0 THEN Begun ELSE Converted(pass[n - 1], t[n])
    BY <1>3
  <2>2. 0 \in 0 .. Len(t) /\ \A n \in 1 .. Len(t) : n \in 0 .. Len(t) /\ n # 0
    OBVIOUS
  <2> QED
    BY <2>1, <2>2
<1> QED
  BY <1>1, <1>4

Record(s) == s = [result |-> s.result, calls |-> s.calls, answered |-> s.answered]

LEMMA PushedIs ==
  ASSUME NEW s, Record(s), NEW e
  PROVE  Pushed(s, e) = [result |-> Append(s.result, e), calls |-> s.calls, answered |-> s.answered]
<1> DEFINE q == Append(s.result, e)
<1>1. Pushed(s, e) = [s EXCEPT !.result = q]
  BY DEF Pushed
<1> HIDE DEF q
<1>2. [s EXCEPT !.result = q] = [result |-> q, calls |-> s.calls, answered |-> s.answered]
  <2> DEFINE a == s.result
             b == s.calls
             c == s.answered
  <2>1. s = [result |-> a, calls |-> b, answered |-> c]
    BY DEF Record
  <2> HIDE DEF a, b, c
  <2>2. [[result |-> a, calls |-> b, answered |-> c] EXCEPT !.result = q]
            = [result |-> q, calls |-> b, answered |-> c]
    OBVIOUS
  <2> QED
    BY <2>1, <2>2 DEF b, c
<1> QED
  BY <1>1, <1>2 DEF q

FirstCalls(m, k) == {<<m.batch, i>> : i \in 1 .. k}

\* What an open batch owes is made up.
LEMMA ClosedPartial ==
  ASSUME NEW m, m.batch \in Nat, m.calls \in Nat \ {0}, NEW k \in 0 .. m.calls,
         NEW q \in Seq(Sent), NEW s, s.result \in Seq(Sent), Partial(s.result, q, m, k),
         s.calls = ToolCalls(m), s.answered = FirstCalls(m, k)
  PROVE  /\ Record(Closed(s)) /\ Closed(s).calls = <<>>
         /\ Closed(s).result \in Seq(Sent) /\ Partial(Closed(s).result, q, m, m.calls)
<1>1. Len(s.calls) = m.calls /\ s.calls # <<>> /\ \A j \in 1 .. m.calls : s.calls[j] = <<m.batch, j>>
  BY DEF ToolCalls
<1>2. PICK g : /\ Closed(s) = [result |-> g[m.calls], calls |-> <<>>, answered |-> {}]
               /\ g[0] = s.result
               /\ \A j \in 1 .. m.calls : g[j] = Give(s, g[j - 1], j)
  <2>1. Len(s.calls) \in Nat
    BY <1>1
  <2>2. PICK g : /\ Closed(s) = [result |-> g[Len(s.calls)], calls |-> <<>>, answered |-> {}]
                 /\ g[0] = s.result
                 /\ \A j \in 1 .. Len(s.calls) : g[j] = Give(s, g[j - 1], j)
    BY <1>1, <2>1, ClosedIs, Zenon
  <2> QED
    BY <1>1, <2>2, Zenon
<1>3. \A j \in 1 .. m.calls : s.calls[j] \in s.answered <=> j <= k
  <2> SUFFICES ASSUME NEW j \in 1 .. m.calls
               PROVE  <<m.batch, j>> \in FirstCalls(m, k) <=> j <= k
    BY <1>1
  <2>1. j <= k <=> j \in 1 .. k
    OBVIOUS
  <2>2. \A i : <<m.batch, j>> = <<m.batch, i>> => j = i
    OBVIOUS
  <2> QED
    BY <2>1, <2>2, Zenon DEF FirstCalls
<1>4. ASSUME NEW j \in 1 .. m.calls
      PROVE  g[j] = IF j <= k THEN g[j - 1] ELSE Append(g[j - 1], Result(<<m.batch, j>>))
  <2>1. g[j] = Give(s, g[j - 1], j)
    BY <1>2
  <2> QED
    BY <1>1, <1>3, <2>1 DEF Give
<1> DEFINE Fits(j) == /\ j <= k => g[j] = s.result
                      /\ j >= k => g[j] \in Seq(Sent) /\ Partial(g[j], q, m, j)
           N == {j \in Nat : j <= m.calls => Fits(j)}
<1>5. 0 \in N
  BY <1>2
<1>6. ASSUME NEW j \in N PROVE j + 1 \in N
  <2> SUFFICES ASSUME j + 1 <= m.calls PROVE Fits(j + 1)
    OBVIOUS
  <2>1. j + 1 \in 1 .. m.calls /\ j \in Nat /\ (j + 1) - 1 = j /\ Fits(j)
    OBVIOUS
  <2> HIDE DEF N
  <2>2. g[j + 1] = IF j + 1 <= k THEN g[j] ELSE Append(g[j], Result(<<m.batch, j + 1>>))
    BY <1>4, <2>1
  <2>3. CASE j + 1 <= k
    <3>1. g[j + 1] = s.result
      BY <2>1, <2>2, <2>3
    <3> QED
      BY <2>1, <2>3, <3>1
  <2>4. CASE ~ (j + 1 <= k)
    <3>1. j >= k /\ ~ (j + 1 <= k)
      BY <2>1, <2>4
    <3>2. g[j] \in Seq(Sent) /\ Partial(g[j], q, m, j)
      BY <2>1, <3>1
    <3>3. g[j + 1] \in Seq(Sent) /\ Partial(g[j + 1], q, m, j + 1)
      BY <2>1, <2>2, <3>1, <3>2, PartialMore
    <3> QED
      BY <3>1, <3>3
  <2> QED
    BY <2>3, <2>4
<1>7. N \in SUBSET Nat
  OBVIOUS
<1> HIDE DEF N
<1>8. \A j \in Nat : j \in N
  BY <1>5, <1>6, <1>7, NatBelow
<1>9. Fits(m.calls)
  BY <1>8 DEF N
<1>10. Closed(s).result = g[m.calls] /\ Closed(s).calls = <<>> /\ Record(Closed(s))
  BY <1>2 DEF Record
<1> QED
  BY <1>9, <1>10

\* Where the second pass stands after the first n messages: no call is open,
Ready(t, n, s) ==
    /\ Record(s) /\ s.calls = <<>> /\ Sound(s.result)
    /\ n > 0 => /\ t[n].role # "toolResult"
                /\ t[n].role = "assistant" => Failed(t[n]) \/ t[n].calls = 0

\* or k of the calls of the last reply that counts have their results.
Opened(t, n, s, k, q) ==
    LET m == t[n - k]
    IN  /\ k < n /\ m.role = "assistant" /\ ~ Failed(m) /\ m.calls > 0 /\ k <= m.calls
        /\ \A i \in 1 .. k : t[(n - k) + i].role = "toolResult"
        /\ Record(s) /\ s.calls = ToolCalls(m) /\ s.answered = FirstCalls(m, k)
        /\ Sound(q) /\ s.result \in Seq(Sent) /\ Partial(s.result, q, m, k)

Stands(t, n, s) == Ready(t, n, s) \/ \E k \in Nat, q \in Seq(Sent) : Opened(t, n, s, k, q)

LEMMA ReplyFields ==
  ASSUME NEW e \in Entries
  PROVE  /\ e.role \in {"user", "assistant", "toolResult"}
         /\ e.role = "assistant" => e.calls \in Nat /\ e.batch \in Nat
BY BoundAssumption DEF Entries

LEMMA ClosedSound ==
  ASSUME NEW t \in Seq(Entries), NEW n \in 0 .. Len(t), NEW s, Stands(t, n, s)
  PROVE  Record(Closed(s)) /\ Closed(s).calls = <<>> /\ Sound(Closed(s).result)
<1>1. CASE Ready(t, n, s)
  BY <1>1 DEF Ready, Closed
<1>2. ASSUME NEW k \in Nat, NEW q \in Seq(Sent), Opened(t, n, s, k, q)
      PROVE  Record(Closed(s)) /\ Closed(s).calls = <<>> /\ Sound(Closed(s).result)
  <2> DEFINE m == t[n - k]
  <2>1. /\ k < n /\ m.role = "assistant" /\ ~ Failed(m) /\ m.calls > 0 /\ k <= m.calls
        /\ s.calls = ToolCalls(m) /\ s.answered = FirstCalls(m, k)
        /\ Sound(q) /\ s.result \in Seq(Sent) /\ Partial(s.result, q, m, k)
    BY <1>2 DEF Opened
  <2>2. n - k \in 1 .. Len(t) /\ m \in Entries
    BY <2>1
  <2> HIDE DEF m
  <2>3. m.calls \in Nat \ {0} /\ m.batch \in Nat /\ k \in 0 .. m.calls
    BY <2>1, <2>2, ReplyFields
  <2>4. /\ Record(Closed(s)) /\ Closed(s).calls = <<>>
        /\ Closed(s).result \in Seq(Sent) /\ Partial(Closed(s).result, q, m, m.calls)
    BY <2>1, <2>3, ClosedPartial
  <2> HIDE <1>2
  <2>5. Sound(Closed(s).result)
    BY <2>1, <2>3, <2>4, SoundReply
  <2> QED
    BY <2>4, <2>5
<1> QED
  BY <1>1, <1>2 DEF Stands

\* A result stands behind the reply it answers, and that has not failed.
LEMMA ResultAt ==
  ASSUME NEW t \in Seq(Entries), ResultsFollow(t), ResultsLive(t),
         NEW p \in DOMAIN t, t[p].role = "toolResult"
  PROVE  \E i \in Nat :
            /\ 0 < i /\ i < p /\ t[i].role = "assistant" /\ ~ Failed(t[i]) /\ p - i <= t[i].calls
            /\ \A j \in i + 1 .. p : t[j] = Result(<<t[i].batch, j - i>>)
<1>1. Answers(t, p) /\ ~ Failed(t[p - t[p].call[2]])
  BY DEF ResultsFollow, ResultsLive
<1> DEFINE c == t[p].call
           i == p - c[2]
<1>2. /\ i \in DOMAIN t /\ t[i].role = "assistant" /\ t[i].batch = c[1] /\ c[2] <= t[i].calls
      /\ \A j \in i + 1 .. p : t[j] = Result(<<c[1], j - i>>)
  BY <1>1 DEF Answers
<1>3. c[2] \in Nat \ {0}
  <2>1. t[p] \in Entries
    OBVIOUS
  <2>2. \A x \in Entries : x.role = "toolResult" => x.call \in Calls
    BY DEF Entries
  <2>3. c \in Calls
    BY <2>1, <2>2
  <2> HIDE DEF c
  <2> QED
    BY <2>3, BoundAssumption DEF Calls
<1>4. p \in Nat /\ i \in Nat /\ 0 < i
  BY <1>2
<1>5. i < p /\ p - i = c[2]
  BY <1>3, <1>4
<1>6. ~ Failed(t[i])
  BY <1>1
<1> HIDE DEF i
<1>7. p - i <= t[i].calls /\ \A j \in i + 1 .. p : t[j] = Result(<<t[i].batch, j - i>>)
  BY <1>2, <1>5
<1> QED
  BY <1>2, <1>4, <1>5, <1>6, <1>7

\* It answers the next call of the open batch.
LEMMA ResultNext ==
  ASSUME NEW t \in Seq(Entries), ResultsFollow(t), ResultsLive(t),
         NEW n \in Nat, n + 1 \in 1 .. Len(t), t[n + 1].role = "toolResult",
         NEW s, Stands(t, n, s)
  PROVE  \E k \in Nat, q \in Seq(Sent) :
            /\ Opened(t, n, s, k, q) /\ k + 1 <= t[n - k].calls
            /\ t[n + 1] = Result(<<t[n - k].batch, k + 1>>)
<1>1. n + 1 \in DOMAIN t
  OBVIOUS
<1>2. PICK i \in Nat :
            /\ 0 < i /\ i < n + 1 /\ t[i].role = "assistant" /\ ~ Failed(t[i])
            /\ (n + 1) - i <= t[i].calls
            /\ \A j \in i + 1 .. n + 1 : t[j] = Result(<<t[i].batch, j - i>>)
  BY <1>1, ResultAt
<1>3. \A j \in i + 1 .. n + 1 : t[j].role = "toolResult"
  BY <1>2, ResultRole
<1>5. ~ Ready(t, n, s)
  <2> SUFFICES ASSUME Ready(t, n, s) PROVE FALSE
    OBVIOUS
  <2>1. n > 0 => t[n].role # "toolResult" /\ (t[n].role = "assistant" => Failed(t[n]) \/ t[n].calls = 0)
    BY DEF Ready
  <2>2. n > 0 /\ n <= n + 1 /\ (i < n => n \in i + 1 .. n + 1) /\ i <= n
    BY <1>2
  <2>3. i = n
    BY <1>3, <2>1, <2>2
  <2> QED
    BY <1>2, <2>1, <2>2, <2>3
<1>6. ASSUME NEW k \in Nat, NEW q \in Seq(Sent), Opened(t, n, s, k, q)
      PROVE  k + 1 <= t[n - k].calls /\ t[n + 1] = Result(<<t[n - k].batch, k + 1>>)
  <2>1. /\ k < n /\ t[n - k].role = "assistant"
        /\ \A j \in 1 .. k : t[(n - k) + j].role = "toolResult"
    BY <1>6 DEF Opened
  <2>2. ~ (i > n - k)
    <3> SUFFICES ASSUME i > n - k PROVE FALSE
      OBVIOUS
    <3>1. i - (n - k) \in 1 .. k /\ (n - k) + (i - (n - k)) = i
      BY <1>2, <2>1
    <3> QED
      BY <1>2, <2>1, <3>1
  <2>3. ~ (i < n - k)
    <3> SUFFICES ASSUME i < n - k PROVE FALSE
      OBVIOUS
    <3>1. n - k \in i + 1 .. n + 1
      BY <1>2, <2>1
    <3> QED
      BY <1>3, <2>1, <3>1
  <2>4. i = n - k /\ n + 1 \in i + 1 .. n + 1 /\ (n + 1) - i = k + 1
    BY <1>2, <2>1, <2>2, <2>3
  <2>6. t[n + 1] = Result(<<t[i].batch, (n + 1) - i>>)
    BY <1>2, <2>4
  <2> QED
    BY <1>2, <2>4, <2>6
<1> QED
  BY <1>5, <1>6 DEF Stands

\* The result of an open batch is passed on.
LEMMA StandsResult ==
  ASSUME NEW t \in Seq(Entries), ResultsFollow(t), ResultsLive(t),
         NEW n \in Nat, n + 1 \in 1 .. Len(t), t[n + 1].role = "toolResult",
         NEW s, Stands(t, n, s)
  PROVE  Stands(t, n + 1, Converted(s, t[n + 1]))
<1>1. PICK k \in Nat, q \in Seq(Sent) :
            /\ Opened(t, n, s, k, q) /\ k + 1 <= t[n - k].calls
            /\ t[n + 1] = Result(<<t[n - k].batch, k + 1>>)
  BY ResultNext
<1> DEFINE m == t[n - k]
           e == t[n + 1]
           u == Converted(s, e)
<1>2. /\ k < n /\ m.role = "assistant" /\ ~ Failed(m) /\ m.calls > 0 /\ k <= m.calls
      /\ \A i \in 1 .. k : t[(n - k) + i].role = "toolResult"
      /\ Record(s) /\ s.calls = ToolCalls(m) /\ s.answered = FirstCalls(m, k)
      /\ Sound(q) /\ s.result \in Seq(Sent) /\ Partial(s.result, q, m, k)
  BY <1>1 DEF Opened
<1>3. e = Result(<<m.batch, k + 1>>) /\ e.call = <<m.batch, k + 1>> /\ e.role = "toolResult"
  BY <1>1, ResultRole
<1>4. u = [result |-> Append(s.result, e), calls |-> s.calls, answered |-> s.answered \cup {e.call}]
  <2>1. u = [Pushed(s, e) EXCEPT !.answered = @ \cup {e.call}]
    BY <1>3 DEF Converted
  <2>2. s = [result |-> s.result, calls |-> s.calls, answered |-> s.answered]
    BY <1>2 DEF Record
  <2> HIDE DEF u, e
  <2> QED
    BY <2>1, <2>2 DEF Pushed
<1>5. n - k \in 1 .. Len(t) /\ m \in Entries
  BY <1>2
<1>6. m.batch \in Nat /\ m.calls \in Nat
  <2> HIDE DEF m
  <2> QED
    BY <1>2, <1>5, ReplyFields
<1>7. (n + 1) - (k + 1) = n - k /\ k + 1 \in Nat /\ k + 1 < n + 1
  BY <1>2
<1>8. \A i \in 1 .. k + 1 : t[(n - k) + i].role = "toolResult"
  <2> SUFFICES ASSUME NEW i \in 1 .. k + 1 PROVE t[(n - k) + i].role = "toolResult"
    OBVIOUS
  <2>1. CASE i = k + 1
    <3>1. (n - k) + i = n + 1
      BY <1>2, <2>1
    <3> QED
      BY <3>1
  <2>2. CASE i \in 1 .. k
    BY <1>2, <2>2
  <2> QED
    BY <2>1, <2>2
<1> HIDE DEF u
<1>9. Append(s.result, e) \in Seq(Sent) /\ Partial(Append(s.result, e), q, m, k + 1)
  <2> HIDE DEF m, e
  <2> QED
    BY <1>2, <1>3, <1>6, PartialMore
<1>10. s.answered \cup {e.call} = FirstCalls(m, k + 1)
  <2>1. 1 .. k + 1 = (1 .. k) \cup {k + 1}
    OBVIOUS
  <2>2. FirstCalls(m, k) \cup {<<m.batch, k + 1>>} = FirstCalls(m, k + 1)
    <3> HIDE DEF m
    <3> QED
      BY <2>1, Zenon DEF FirstCalls
  <2> HIDE DEF m, e
  <2> QED
    BY <1>2, <1>3, <2>2, Zenon
<1>11. /\ Record(u) /\ u.result = Append(s.result, e) /\ u.calls = s.calls
       /\ u.answered = s.answered \cup {e.call}
  <2> HIDE DEF e
  <2> QED
    BY <1>4 DEF Record
<1>12. Opened(t, n + 1, u, k + 1, q)
  <2> HIDE DEF e
  <2> QED
    BY <1>1, <1>2, <1>7, <1>8, <1>9, <1>10, <1>11 DEF Opened
<1> QED
  BY <1>7, <1>12 DEF Stands, u

\* Any other message closes the batch.
LEMMA StandsOther ==
  ASSUME NEW t \in Seq(Entries),
         NEW n \in Nat, n + 1 \in 1 .. Len(t), t[n + 1].role # "toolResult",
         NEW s, Stands(t, n, s)
  PROVE  Stands(t, n + 1, Converted(s, t[n + 1]))
<1> DEFINE e == t[n + 1]
           v == Closed(s)
           u == Converted(s, e)
<1>1. e \in Entries /\ n \in 0 .. Len(t)
  OBVIOUS
<1>2. Record(v) /\ v.calls = <<>> /\ Sound(v.result)
  BY <1>1, ClosedSound
<1>3. v = [result |-> v.result, calls |-> <<>>, answered |-> v.answered]
  BY <1>2 DEF Record
<1>4. n + 1 > 0 /\ e.role # "toolResult"
  OBVIOUS
<1>5. e.role = "user" \/ e.role = "assistant"
  <2> HIDE DEF e
  <2> QED
    BY <1>1, <1>4, ReplyFields
<1>6. CASE e.role = "assistant" /\ Failed(e)
  <2>1. u = v
    <3> HIDE DEF e, v
    <3> QED
      BY <1>6 DEF Converted, v
  <2>2. Ready(t, n + 1, v)
    <3> HIDE DEF v
    <3> QED
      BY <1>2, <1>4, <1>6 DEF Ready
  <2> QED
    BY <2>1, <2>2 DEF Stands
<1>7. CASE ~ Failed(e) /\ (e.role = "assistant" => e.calls = 0)
  <2>1. u = Pushed(v, e)
    <3> HIDE DEF e, v
    <3> QED
      BY <1>5, <1>7 DEF Converted, v
  <2> HIDE DEF u
  <2>2. u = [result |-> Append(v.result, e), calls |-> <<>>, answered |-> v.answered]
    <3> HIDE DEF e, v
    <3> QED
      BY <1>2, <2>1, PushedIs
  <2>3. Sound(Append(v.result, e))
    <3> HIDE DEF e, v
    <3> QED
      BY <1>1, <1>2, <1>4, <1>7, SoundPlain
  <2>4. Record(u) /\ u.calls = <<>> /\ Sound(u.result)
    <3> HIDE DEF e, v
    <3> QED
      BY <2>2, <2>3 DEF Record
  <2>5. Ready(t, n + 1, u)
    BY <1>4, <1>7, <2>4 DEF Ready
  <2> QED
    BY <2>5 DEF Stands, u
<1>8. CASE ~ Failed(e) /\ e.role = "assistant" /\ e.calls # 0
  <2>1. u = [Pushed(v, e) EXCEPT !.calls = ToolCalls(e), !.answered = {}]
    <3> HIDE DEF e, v
    <3> QED
      BY <1>8 DEF Converted, v
  <2> HIDE DEF u
  <2>2. u = [result |-> Append(v.result, e), calls |-> ToolCalls(e), answered |-> {}]
    <3> HIDE DEF e, v
    <3> QED
      <4>1. Pushed(v, e) = [result |-> Append(v.result, e), calls |-> v.calls, answered |-> v.answered]
        BY <1>2, PushedIs
      <4> DEFINE w == Pushed(v, e)
                 x == Append(v.result, e)
                 y == v.calls
                 z == v.answered
      <4>2. u = [w EXCEPT !.calls = ToolCalls(e), !.answered = {}]
        BY <2>1
      <4>3. w = [result |-> x, calls |-> y, answered |-> z]
        BY <4>1
      <4> HIDE DEF w, x, y, z
      <4>4. [[result |-> x, calls |-> y, answered |-> z] EXCEPT !.calls = ToolCalls(e), !.answered = {}]
                = [result |-> x, calls |-> ToolCalls(e), answered |-> {}]
        <5> DEFINE d == ToolCalls(e)
                   o == {}
                   f == [[result |-> x, calls |-> y, answered |-> z] EXCEPT !.calls = d]
        <5>1. f = [result |-> x, calls |-> d, answered |-> z]
          <6> HIDE DEF d
          <6> QED
            OBVIOUS
        <5>2. [f EXCEPT !.answered = o] = [result |-> x, calls |-> d, answered |-> o]
          <6> HIDE DEF d, o, f
          <6>1. [[result |-> x, calls |-> d, answered |-> z] EXCEPT !.answered = o]
                    = [result |-> x, calls |-> d, answered |-> o]
            OBVIOUS
          <6> QED
            BY <5>1, <6>1, Zenon
        <5> QED
          BY <5>2
      <4> QED
        BY <4>2, <4>3, <4>4 DEF x
  <2>3. e.calls \in Nat
    <3> HIDE DEF e
    <3> QED
      BY <1>1, <1>8, ReplyFields
  <2>4. Append(v.result, e) \in Seq(Sent) /\ Partial(Append(v.result, e), v.result, e, 0)
    <3>1. e \in Sent /\ v.result \in Seq(Sent)
      BY <1>1, <1>2 DEF Sent, Sound
    <3> HIDE DEF e, v
    <3> QED
      BY <3>1 DEF Partial
  <2>5. FirstCalls(e, 0) = {}
    BY DEF FirstCalls
  <2>6. /\ Record(u) /\ u.result = Append(v.result, e) /\ u.calls = ToolCalls(e)
        /\ u.answered = {}
    <3> HIDE DEF e, v
    <3> QED
      BY <2>2 DEF Record
  <2>7. (n + 1) - 0 = n + 1 /\ 0 < n + 1 /\ 1 .. 0 = {}
    OBVIOUS
  <2>8. Opened(t, n + 1, u, 0, v.result)
    <3> HIDE DEF v
    <3> QED
      BY <1>2, <1>8, <2>3, <2>4, <2>5, <2>6, <2>7 DEF Opened
  <2>9. v.result \in Seq(Sent)
    BY <1>2 DEF Sound
  <2> QED
    BY <2>8, <2>9 DEF Stands, u
<1> QED
  BY <1>5, <1>6, <1>7, <1>8 DEF Failed

LEMMA TransformSound ==
  ASSUME NEW t \in Seq(Entries), ResultsFollow(t), ResultsLive(t)
  PROVE  Sound(transformMessages(t))
<1>1. Len(t) \in Nat
  OBVIOUS
<1>2. PICK pass : /\ transformMessages(t) = Closed(pass[Len(t)]).result
                  /\ pass[0] = Begun
                  /\ \A n \in 1 .. Len(t) : pass[n] = Converted(pass[n - 1], t[n])
  BY <1>1, TransformIs
<1> DEFINE N == {n \in Nat : n <= Len(t) => Stands(t, n, pass[n])}
<1>3. 0 \in N
  <2>1. Sound(<<>>)
    BY DEF Sound, WholeBatches
  <2>2. Ready(t, 0, Begun)
    BY <2>1 DEF Ready, Record, Begun
  <2> QED
    BY <1>2, <2>2 DEF Stands
<1>4. ASSUME NEW n \in N PROVE n + 1 \in N
  <2> SUFFICES ASSUME n + 1 <= Len(t) PROVE Stands(t, n + 1, pass[n + 1])
    OBVIOUS
  <2>1. n \in Nat /\ n + 1 \in 1 .. Len(t) /\ (n + 1) - 1 = n /\ Stands(t, n, pass[n])
    BY <1>1
  <2>2. pass[n + 1] = Converted(pass[n], t[n + 1])
    BY <1>2, <2>1
  <2> HIDE DEF N
  <2> QED
    BY <2>1, <2>2, StandsResult, StandsOther
<1>5. N \in SUBSET Nat
  OBVIOUS
<1> HIDE DEF N
<1>6. \A n \in Nat : n \in N
  BY <1>3, <1>4, <1>5, NatBelow
<1>7. Stands(t, Len(t), pass[Len(t)]) /\ Len(t) \in 0 .. Len(t)
  BY <1>1, <1>6 DEF N
<1> QED
  BY <1>2, <1>7, ClosedSound

\* "satisfies API requirements" (transform-messages.ts:156): whatever was aborted,
\* steered or thrown, also in earlier runs, a request holds behind each reply the
\* results of all its calls, each once and in their order, no other results, and no reply
\* that failed; and it is made from the transcript.
THEOREM RequestsComplete == Spec => []RequestsAreComplete
<1>1. Init => LiveInv /\ ContextInv
  BY DEF Init, LiveInv, ResultsLive, LastReplyLive, ContextInv, BatchPcs, Plain
<1>2. IInv /\ LiveInv /\ [Next]_vars => LiveInv'
  BY NextLive
<1>3. IInv /\ ContextInv /\ [Next]_vars => ContextInv'
  BY NextContext DEF IInv
<1>4. IInv /\ LiveInv /\ ContextInv => RequestsAreComplete
  <2> SUFFICES ASSUME IInv, LiveInv, ContextInv, pc = "stream"
               PROVE  /\ ContextIsTranscript
                      /\ WholeBatches(transformMessages(context))
                      /\ \A m \in Elements(transformMessages(context)) : ~ Failed(m)
    BY DEF RequestsAreComplete
  <2>1. context = transcript /\ ContextIsTranscript
    BY DEF ContextInv, ContextIsTranscript, Plain
  <2>2. transcript \in Seq(Entries) /\ ResultsFollow(transcript) /\ ResultsLive(transcript)
    BY DEF IInv, TypeOK, DataTypes, BatchInv, ResultsFollowTheirCall, LiveInv
  <2>3. Sound(transformMessages(transcript))
    BY <2>2, TransformSound
  <2> QED
    BY <2>1, <2>3 DEF Sound, Elements
<1> QED
  BY <1>1, <1>2, <1>3, <1>4, Invariance, PTL DEF Spec

=============================================================================
