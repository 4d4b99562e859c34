------------------------- MODULE AgentHarnessProofs -------------------------
(***************************************************************************)
(* Theorems of AgentHarness, for any number of calls, writes, messages,    *)
(* replies and failures.                                                   *)
(*                                                                         *)
(* TypeOK needs to know which call may be saving an entry and what a call  *)
(* has in its hands where it is about to use it (Ready).  That writes are  *)
(* serial follows from SInv: one call at a time, and entries built on the  *)
(* leaf.  That the writes which wait are saved in their order follows from *)
(* PInv, if calls are serial: a flush saves the first that waits, the ones *)
(* before it are saved, and while something waits somebody is under way,   *)
(* unless it was left behind.  That messages are kept follows from KInv:   *)
(* each message has one holder, a queue, a call or the session, and steps  *)
(* move it between them.                                                   *)
(***************************************************************************)
EXTENDS AgentHarness, FiniteSetTheorems, TLAPS

Saving == {"say", "moving", "summarized"} \cup Flushing

\* What a call has where it is about to use it.
Ready(c) ==
    /\ op[c].at \in {"say", "drained"} => op[c].todo # <<>>
    /\ op[c].at \in {"say", "said", "drained"} =>
         op[c].then \in {"poll", "stream", "batch", "turnEnd"}
    /\ op[c].at \in {"announce", "hook"} => \E s \in Seq(Texts) : op[c].todo = Append(s, c)
    /\ op[c].at = "drained" => op[c].todo \in Seq(Texts)
    /\ appending[c] # NoEntry => op[c].at \in Saving

SessionTypes ==
    /\ log \in Seq(Entries) /\ leaf \in 0 .. Len(log)
    /\ appending \in [Threads -> Entries]
    /\ \A t \in Threads : appending[t].leaf \in 0 .. Len(log)

InputTypes ==
    /\ pending \in Seq(Writes) /\ asked \in Seq(Writes)
    /\ queue \in [Queues -> Seq(Texts)] /\ dropped \subseteq Texts
    /\ writes \in 0 .. MaxInputs /\ texts \in 0 .. MaxInputs

CallTypes == op \in [Calls -> Standings] /\ \A c \in Calls : Ready(c)

OtherTypes ==
    /\ phase \in {"idle", "turn", "compaction", "branch_summary"}
    /\ controller \in Calls \cup {None} /\ runPromise \in Calls \cup {None}
    /\ aborted \subseteq Calls
    /\ aborting \in [Aborts -> [at : {"ready", "notify", "waiting", "done"},
                                for : Calls \cup {None}]]
    /\ replies \in 0 .. MaxReplies /\ faults \in 0 .. MaxFaults /\ stranded \in BOOLEAN

TInv == SessionTypes /\ InputTypes /\ CallTypes /\ OtherTypes

-----------------------------------------------------------------------------
\* None is neither a call nor a write, and no thread is two.
LEMMA Names ==
  /\ Calls \cap Writes = {} /\ Calls \subseteq Whats /\ Writes \subseteq Whats
  /\ Texts \subseteq Whats /\ Reply \in Whats /\ Result \in Whats
  /\ <<"summary", 0>> \in Whats /\ <<"leaf", 0>> \in Whats
  /\ NoEntry \in Entries /\ NoEntry.leaf = 0
BY DEF Calls, Writes, Texts, Whats, Entries, NoEntry, None, Root

LEMMA FreshTypes ==
  Fresh \in Standings /\ Done \in Standings /\ Done.at = "done" /\ Fresh.at = "ready"
<1>1. <<>> \in Seq(Whats)
  OBVIOUS
<1>2. "ready" \in Stages /\ "done" \in Stages /\ Root \in Nat /\ "gone" \in Queues \cup {"gone"}
  BY DEF Stages, Root
<1>3. Fresh \in Standings /\ Fresh.at = "ready"
  BY <1>1, <1>2 DEF Fresh, Standings
<1>4. Done \in Standings /\ Done.at = "done"
  BY <1>2, <1>3 DEF Done, Standings
<1> QED
  BY <1>3, <1>4

\* An entry that is built is one.
LEMMA Built ==
  ASSUME SessionTypes, NEW t \in Threads, NEW e \in Entries, e.leaf \in 0 .. Len(log),
         appending' = [appending EXCEPT ![t] = e], UNCHANGED <<log, leaf>>
  PROVE  SessionTypes'
BY DEF SessionTypes

LEMMA BuildTypes ==
  ASSUME SessionTypes, NEW t \in Threads, NEW what \in Whats, Build(t, what)
  PROVE  SessionTypes' /\ appending' = [appending EXCEPT ![t] = appending'[t]]
<1> DEFINE e == [what |-> what, parent |-> leaf, leaf |-> Root]
<1>1. e \in Entries /\ e.leaf \in 0 .. Len(log)
  BY DEF SessionTypes, Entries, Root
<1>2. appending' = [appending EXCEPT ![t] = e] /\ UNCHANGED <<log, leaf>>
  BY DEF Build
<1> HIDE DEF e
<1>3. appending'[t] = e
  BY <1>2 DEF SessionTypes
<1> QED
  BY <1>1, <1>2, <1>3, Built

LEMMA LandTypes ==
  ASSUME SessionTypes, NEW t \in Threads, Land(t)
  PROVE  SessionTypes' /\ appending' = [appending EXCEPT ![t] = NoEntry]
<1>1. appending[t] \in Entries /\ appending[t].leaf \in 0 .. Len(log)
  BY DEF SessionTypes
<1>2. Len(log) \in Nat /\ leaf' \in 0 .. Len(log) + 1 /\ leaf' \in Nat
  BY <1>1 DEF Land, SessionTypes
<1>3. [appending[t] EXCEPT !.leaf = leaf'] \in Entries
  <2> DEFINE m == leaf'
  <2>1. m \in Nat
    BY <1>2
  <2> HIDE DEF m
  <2>2. [appending[t] EXCEPT !.leaf = m] \in Entries
    BY <1>1, <2>1 DEF Entries
  <2> QED
    BY <2>2 DEF m
<1>4. log' \in Seq(Entries) /\ Len(log') = Len(log) + 1
  BY <1>3 DEF Land, SessionTypes
<1>5. appending' = [appending EXCEPT ![t] = NoEntry]
  BY DEF Land
<1>6. \A u \in Threads : appending'[u] \in Entries /\ appending'[u].leaf \in 0 .. Len(log) + 1
  BY <1>5, Names DEF SessionTypes
<1> QED
  BY <1>2, <1>4, <1>5, <1>6, Names DEF SessionTypes

LEMMA MissTypes ==
  ASSUME SessionTypes, NEW t \in Threads, Miss(t)
  PROVE  SessionTypes' /\ appending' = [appending EXCEPT ![t] = NoEntry]
BY Built, Names DEF Miss, SessionTypes

\* A call that goes on and changes nothing of another's.
LEMMA CallMoves ==
  ASSUME CallTypes, NEW c \in Calls, NEW r \in Standings,
         op' = [op EXCEPT ![c] = r],
         \A d \in Calls \ {c} : appending'[d] = appending[d],
         r.at \in {"say", "drained"} => r.todo # <<>>,
         r.at \in {"say", "said", "drained"} => r.then \in {"poll", "stream", "batch", "turnEnd"},
         r.at \in {"announce", "hook"} => \E s \in Seq(Texts) : r.todo = Append(s, c),
         r.at = "drained" => r.todo \in Seq(Texts),
         appending'[c] # NoEntry => r.at \in Saving
  PROVE  CallTypes'
<1>1. op' \in [Calls -> Standings] /\ op'[c] = r /\ \A d \in Calls \ {c} : op'[d] = op[d]
  BY DEF CallTypes
<1>2. ASSUME NEW d \in Calls
      PROVE  Ready(d)'
  <2>1. CASE d = c
    BY <1>1, <2>1 DEF Ready
  <2>2. CASE d # c
    <3>1. op'[d] = op[d] /\ appending'[d] = appending[d] /\ Ready(d)
      BY <1>1, <2>2 DEF CallTypes
    <3> QED
      BY <3>1 DEF Ready
  <2> QED
    BY <2>1, <2>2
<1> QED
  BY <1>1, <1>2 DEF CallTypes

LEMMA GoMoves ==
  ASSUME CallTypes, NEW c \in Calls, NEW stage \in Stages, Go(c, stage),
         \A d \in Calls \ {c} : appending'[d] = appending[d],
         stage \notin {"say", "said", "drained", "announce", "hook"},
         appending'[c] # NoEntry => stage \in Saving
  PROVE  CallTypes'
<1> DEFINE r == [op[c] EXCEPT !.at = stage]
<1>1. r \in Standings /\ r.at = stage
  BY DEF CallTypes, Standings
<1>2. op' = [op EXCEPT ![c] = r]
  BY DEF Go, CallTypes
<1> HIDE DEF r
<1> QED
  BY <1>1, <1>2, CallMoves

LEMMA CallEnds ==
  ASSUME CallTypes, NEW c \in Calls, op' = [op EXCEPT ![c] = Done],
         \A d \in Calls \ {c} : appending'[d] = appending[d], appending'[c] = NoEntry
  PROVE  CallTypes'
BY FreshTypes, CallMoves

\* Calls stand where they stood.
LEMMA CallsStay ==
  ASSUME CallTypes, UNCHANGED op,
         \A c \in Calls : appending'[c] = appending[c] \/ appending'[c] = NoEntry \/ op[c].at \in Saving
  PROVE  CallTypes'
<1>1. ASSUME NEW c \in Calls
      PROVE  Ready(c)'
  BY DEF CallTypes, Ready
<1> QED
  BY <1>1 DEF CallTypes

\* What a run that fails goes on with.
LEMMA ThrowTypes ==
  ASSUME CallTypes, NEW c \in Calls, Throw(c),
         \A d \in Calls \ {c} : appending'[d] = appending[d], appending'[c] = NoEntry
  PROVE  CallTypes'
<1>1. CASE op[c].failing
  <2> DEFINE r == [Fresh EXCEPT !.at = "cleanFlush", !.error = TRUE]
  <2>1. r \in Standings /\ r.at = "cleanFlush"
    BY FreshTypes DEF Standings, Stages, Flushing
  <2>2. op' = [op EXCEPT ![c] = r]
    BY <1>1 DEF Throw
  <2> HIDE DEF r
  <2> QED
    BY <2>1, <2>2, CallMoves
<1>2. CASE ~op[c].failing
  <2> DEFINE r == [Fresh EXCEPT !.at = "say", !.todo = <<Reply>>, !.then = "turnEnd",
                                !.ending = TRUE, !.failing = TRUE]
  <2>1. <<Reply>> \in Seq(Whats) /\ <<Reply>> # <<>>
    BY Names
  <2>2. "say" \in Stages /\ "turnEnd" \in Stages
    BY DEF Stages, Listening
  <2>3. r \in Standings /\ r.at = "say" /\ r.todo # <<>> /\ r.then = "turnEnd"
    BY <2>1, <2>2, FreshTypes DEF Standings
  <2>4. op' = [op EXCEPT ![c] = r]
    BY <1>2 DEF Throw
  <2> HIDE DEF r
  <2> QED
    BY <2>3, <2>4, CallMoves
<1> QED
  BY <1>1, <1>2

\* One more input leaves room for its number.
LEMMA InputRoom ==
  ASSUME TInv, Input
  PROVE  writes < MaxInputs /\ texts < MaxInputs
<1>1. IsFiniteSet(Aborts)
  BY FS_Interval, HarnessAssumption DEF Aborts
<1>2. {a \in Aborts : aborting[a].at # "ready"} \subseteq Aborts
  OBVIOUS
<1>3. Cardinality({a \in Aborts : aborting[a].at # "ready"}) \in Nat
  BY <1>1, <1>2, FS_Subset, FS_CardinalityType
<1> QED
  BY <1>3, HarnessAssumption DEF Input, Inputs, TInv, InputTypes, OtherTypes

-----------------------------------------------------------------------------
(* The steps keep the types.                                                *)

LEMMA BeginTypes ==
  ASSUME TInv, NEW c \in Calls,
         Prompt(c) \/ \E kind \in {"compaction", "branch_summary"} : Move(c, kind)
  PROVE  TInv'
<1>1. UNCHANGED <<session, inputs>> /\ appending[c] = NoEntry
  BY DEF Prompt, Move, Begin, At, TInv, CallTypes, Ready, Saving, Flushing
<1>2. SessionTypes' /\ InputTypes'
  BY <1>1 DEF session, inputs, TInv, SessionTypes, InputTypes
<1>3. \E stage \in {"snapshot", "compaction", "branch_summary"} : Go(c, stage)
  BY DEF Prompt, Move
<1>4. CallTypes'
  BY <1>1, <1>3, GoMoves DEF session, TInv, Stages
<1>5. OtherTypes'
  BY DEF Prompt, Move, TInv, OtherTypes, signals
<1> QED
  BY <1>2, <1>4, <1>5 DEF TInv

LEMMA SnapshotTypes ==
  ASSUME TInv, NEW c \in Calls, Snapshot(c)
  PROVE  TInv'
<1>1. UNCHANGED <<session, pending, writes, asked, texts, dropped>> /\ appending[c] = NoEntry
  BY DEF Snapshot, At, TInv, CallTypes, Ready, Saving, Flushing
<1>2. SessionTypes' /\ OtherTypes'
  BY <1>1 DEF session, signals, TInv, SessionTypes, OtherTypes, Snapshot
<1>3. InputTypes'
  <2>1. queue' = [queue EXCEPT !["nextTurn"] = <<>>] /\ <<>> \in Seq(Texts)
    BY DEF Snapshot
  <2>2. queue' \in [Queues -> Seq(Texts)]
    BY <2>1 DEF TInv, InputTypes
  <2> QED
    BY <1>1, <2>2 DEF TInv, InputTypes
<1>4. CallTypes'
  <2> DEFINE s == queue["nextTurn"]
             stage == IF s = <<>> THEN "hook" ELSE "announce"
             r == [op[c] EXCEPT !.at = stage, !.todo = Append(s, c), !.seen = Len(log)]
  <2>1. s \in Seq(Texts) /\ Append(s, c) \in Seq(Whats) /\ Len(log) \in Nat
    BY Names DEF TInv, InputTypes, SessionTypes, Queues
  <2>2. stage \in Stages /\ stage \in {"hook", "announce"}
    BY DEF Stages
  <2>3. r \in Standings /\ r.at = stage /\ r.todo = Append(s, c)
    BY <2>1, <2>2 DEF TInv, CallTypes, Standings
  <2>4. op' = [op EXCEPT ![c] = r]
    BY DEF Snapshot, TInv, CallTypes
  <2> HIDE DEF r, stage, s
  <2> QED
    BY <1>1, <2>1, <2>2, <2>3, <2>4, CallMoves DEF session, TInv
<1> QED
  BY <1>2, <1>3, <1>4 DEF TInv

LEMMA AnnouncedTypes ==
  ASSUME TInv, NEW c \in Calls, Announced(c)
  PROVE  TInv'
<1>1. UNCHANGED <<session, inputs>> /\ appending[c] = NoEntry
  BY DEF Announced, At, TInv, CallTypes, Ready, Saving, Flushing
<1>2. SessionTypes' /\ InputTypes' /\ OtherTypes'
  BY <1>1 DEF session, inputs, signals, TInv, SessionTypes, InputTypes, OtherTypes, Announced
<1>3. CallTypes'
  <2> DEFINE r == [op[c] EXCEPT !.at = "hook"]
  <2>1. r \in Standings /\ r.at = "hook" /\ r.todo = op[c].todo
    <3>1. op[c] \in Standings
      BY DEF TInv, CallTypes
    <3> QED
      BY <3>1 DEF Standings, Stages
  <2>2. op' = [op EXCEPT ![c] = r]
    BY DEF Announced, Go, TInv, CallTypes
  <2>3. \E s \in Seq(Texts) : op[c].todo = Append(s, c)
    BY DEF Announced, At, TInv, CallTypes, Ready
  <2> HIDE DEF r
  <2> QED
    BY <1>1, <2>1, <2>2, <2>3, CallMoves DEF session, TInv
<1> QED
  BY <1>2, <1>3 DEF TInv

LEMMA StartTypes ==
  ASSUME TInv, NEW c \in Calls, Start(c)
  PROVE  TInv'
<1>1. UNCHANGED <<session, inputs>> /\ appending[c] = NoEntry
  BY DEF Start, At, TInv, CallTypes, Ready, Saving, Flushing
<1>2. SessionTypes' /\ InputTypes' /\ OtherTypes'
  BY <1>1 DEF session, inputs, TInv, SessionTypes, InputTypes, OtherTypes, Start
<1>3. CallTypes'
  <2> DEFINE r == [op[c] EXCEPT !.at = "say", !.then = "poll"]
  <2>1. r \in Standings /\ r.at = "say" /\ r.then = "poll" /\ r.todo = op[c].todo
    <3>1. op[c] \in Standings
      BY DEF TInv, CallTypes
    <3> QED
      BY <3>1 DEF Standings, Stages
  <2>2. op' = [op EXCEPT ![c] = r]
    BY DEF Start, TInv, CallTypes
  <2>3. PICK s \in Seq(Texts) : op[c].todo = Append(s, c)
    BY DEF Start, At, TInv, CallTypes, Ready
  <2>4. r.todo # <<>>
    BY <2>1, <2>3, Len(Append(s, c)) = Len(s) + 1, Len(<<>>) = 0
  <2> HIDE DEF r
  <2> QED
    BY <1>1, <2>1, <2>2, <2>4, CallMoves DEF session, TInv
<1> QED
  BY <1>2, <1>3 DEF TInv

LEMMA StartFailsTypes ==
  ASSUME TInv, NEW c \in Calls, StartFails(c)
  PROVE  TInv'
<1>1. UNCHANGED <<session, pending, writes, asked, texts>> /\ appending[c] = NoEntry
  BY DEF StartFails, At, TInv, CallTypes, Ready, Saving, Flushing
<1>2. SessionTypes'
  BY <1>1 DEF session, TInv, SessionTypes
<1>3. OtherTypes'
  BY HarnessAssumption DEF TInv, OtherTypes, InputTypes, StartFails, End, Faulty
<1>4. queue' \in [Queues -> Seq(Texts)] /\ dropped' \subseteq Texts
  <2>1. CASE At(c, "announce")
    <3>1. PICK s \in Seq(Texts) : op[c].todo = Append(s, c)
      BY <2>1 DEF At, TInv, CallTypes, Ready
    <3>2. Front(op[c].todo) \in Seq(Texts)
      BY <3>1 DEF Front
    <3>3. queue["nextTurn"] \in Seq(Texts)
      BY DEF TInv, InputTypes, Queues
    <3>4. Front(op[c].todo) \o queue["nextTurn"] \in Seq(Texts)
      BY <3>2, <3>3
    <3>5. queue' = [queue EXCEPT !["nextTurn"] = Front(op[c].todo) \o queue["nextTurn"]] /\ UNCHANGED dropped
      BY <2>1 DEF StartFails, TInv, InputTypes, Queues
    <3> QED
      BY <3>4, <3>5 DEF TInv, InputTypes
  <2>2. CASE ~At(c, "announce")
    BY <2>2 DEF StartFails, TInv, InputTypes, InHand
  <2> QED
    BY <2>1, <2>2
<1>5. InputTypes'
  BY <1>1, <1>4 DEF TInv, InputTypes
<1>6. CallTypes'
  BY <1>1, CallEnds DEF StartFails, End, session, TInv
<1> QED
  BY <1>2, <1>3, <1>5, <1>6 DEF TInv

LEMMA SayTypes ==
  ASSUME TInv, NEW c \in Calls, Say(c)
  PROVE  TInv'
<1>1. Head(op[c].todo) \in Whats
  <2>1. op[c].todo \in Seq(Whats) /\ op[c].todo # <<>>
    BY DEF Say, At, TInv, CallTypes, Ready, Standings
  <2> QED
    BY <2>1
<1>2. SessionTypes' /\ appending' = [appending EXCEPT ![c] = appending'[c]]
  BY <1>1, BuildTypes DEF Say, TInv, Threads
<1>3. InputTypes' /\ OtherTypes'
  BY DEF Say, inputs, signals, TInv, InputTypes, OtherTypes
<1>4. \A d \in Calls \ {c} : appending'[d] = appending[d]
  BY <1>2 DEF TInv, SessionTypes, Threads
<1>5. CallTypes'
  BY <1>4, CallsStay DEF Say, At, Saving, TInv
<1> QED
  BY <1>2, <1>3, <1>5 DEF TInv

LEMMA SaidTypes ==
  ASSUME TInv, NEW c \in Calls, Said(c)
  PROVE  TInv'
<1>1. SessionTypes' /\ appending' = [appending EXCEPT ![c] = NoEntry]
  BY LandTypes DEF Said, TInv, Threads
<1>2. InputTypes' /\ OtherTypes'
  BY DEF Said, inputs, signals, TInv, InputTypes, OtherTypes
<1>3. CallTypes'
  <2>1. op[c].todo \in Seq(Whats) /\ op[c].todo # <<>>
    BY DEF Said, At, TInv, CallTypes, Ready, Standings
  <2>2. Tail(op[c].todo) \in Seq(Whats)
    BY <2>1
  <2> DEFINE r == [op[c] EXCEPT !.at = "said", !.todo = Tail(op[c].todo), !.seen = op[c].seen + 1]
  <2>3. r \in Standings /\ r.at = "said" /\ r.then = op[c].then
    <3>1. "said" \in Stages
      BY DEF Stages, Listening
    <3>2. op[c].seen + 1 \in Nat
      BY DEF TInv, CallTypes, Standings
    <3> QED
      BY <2>2, <3>1, <3>2 DEF TInv, CallTypes, Standings
  <2>4. op' = [op EXCEPT ![c] = r]
    BY DEF Said, TInv, CallTypes
  <2>5. op[c].then \in {"poll", "stream", "batch", "turnEnd"}
    BY DEF Said, At, TInv, CallTypes, Ready
  <2>6. appending'[c] = NoEntry /\ \A d \in Calls \ {c} : appending'[d] = appending[d]
    BY <1>1 DEF TInv, SessionTypes, Threads
  <2> HIDE DEF r
  <2> QED
    BY <2>3, <2>4, <2>5, <2>6, CallMoves DEF TInv
<1> QED
  BY <1>1, <1>2, <1>3 DEF TInv

LEMMA DrainTypes ==
  ASSUME TInv, NEW c \in Calls, NEW q \in Queues, NEW empty \in {"stream", "pollLast", "endFlush"},
         appending[c] = NoEntry, UNCHANGED session, Drain(c, q, empty)
  PROVE  CallTypes' /\ queue' \in [Queues -> Seq(Texts)]
<1>1. queue[q] \in Seq(Texts) /\ \A d \in Calls : appending'[d] = appending[d]
  BY DEF TInv, InputTypes, session
<1>2. CASE queue[q] = <<>>
  <2>1. Go(c, empty) /\ UNCHANGED queue
    BY <1>2 DEF Drain
  <2>2. empty \in Stages /\ appending'[c] = NoEntry
    BY <1>1 DEF Stages, Flushing
  <2> QED
    BY <1>1, <2>1, <2>2, GoMoves DEF TInv, InputTypes
<1>3. CASE queue[q] # <<>>
  <2>1. Tail(queue[q]) \in Seq(Texts) /\ Head(queue[q]) \in Texts
    BY <1>1, <1>3
  <2>2. queue' = [queue EXCEPT ![q] = Tail(queue[q])]
    BY <1>3 DEF Drain, TInv, InputTypes
  <2>3. queue' \in [Queues -> Seq(Texts)]
    BY <2>1, <2>2 DEF TInv, InputTypes
  <2> DEFINE m == Head(queue[q])
             r == [op[c] EXCEPT !.at = "drained", !.todo = <<m>>, !.from = q, !.then = "stream"]
  <2>4. op' = [op EXCEPT ![c] = r]
    BY <1>3 DEF Drain, TInv, CallTypes
  <2>5. <<m>> \in Seq(Texts) /\ <<m>> \in Seq(Whats) /\ <<m>> # <<>>
    BY <2>1, Names
  <2>6. r \in Standings /\ r.at = "drained" /\ r.todo = <<m>> /\ r.then = "stream"
    <3>1. "drained" \in Stages /\ "stream" \in Stages
      BY DEF Stages, Listening
    <3> QED
      BY <2>5, <3>1 DEF TInv, CallTypes, Standings
  <2> HIDE DEF r, m
  <2> QED
    BY <1>1, <2>3, <2>4, <2>5, <2>6, CallMoves DEF TInv
<1> QED
  BY <1>2, <1>3

LEMMA PollTypes ==
  ASSUME TInv, NEW c \in Calls, Poll(c)
  PROVE  TInv'
<1>1. UNCHANGED <<session, pending, writes, asked, texts, dropped>> /\ appending[c] = NoEntry
  BY DEF Poll, At, TInv, CallTypes, Ready, Saving, Flushing
<1>2. SessionTypes' /\ OtherTypes'
  BY <1>1 DEF session, signals, TInv, SessionTypes, OtherTypes, Poll
<1>3. \E q \in Queues, empty \in {"stream", "pollLast", "endFlush"} : Drain(c, q, empty)
  <2>1. CASE At(c, "poll") /\ Drain(c, "steer", IF op[c].more THEN "stream" ELSE "pollLast")
    <3>1. CASE op[c].more
      BY <2>1, <3>1 DEF Queues
    <3>2. CASE ~op[c].more
      BY <2>1, <3>2 DEF Queues
    <3> QED
      BY <3>1, <3>2
  <2>2. CASE At(c, "pollLast") /\ Drain(c, "followUp", "endFlush")
    BY <2>2 DEF Queues
  <2> QED
    BY <2>1, <2>2 DEF Poll
<1>4. CallTypes' /\ queue' \in [Queues -> Seq(Texts)]
  BY <1>1, <1>3, DrainTypes
<1>5. InputTypes'
  BY <1>1, <1>4 DEF TInv, InputTypes
<1> QED
  BY <1>2, <1>4, <1>5 DEF TInv

LEMMA StreamTypes ==
  ASSUME TInv, NEW c \in Calls, NEW what \in {"answer", "calls", "failed"}, Stream(c, what)
  PROVE  TInv'
<1>1. UNCHANGED <<session, inputs>> /\ appending[c] = NoEntry
  BY DEF Stream, At, TInv, CallTypes, Ready, Saving, Flushing
<1>2. SessionTypes' /\ InputTypes'
  BY <1>1 DEF session, inputs, TInv, SessionTypes, InputTypes
<1>3. OtherTypes'
  BY HarnessAssumption DEF Stream, signals, TInv, OtherTypes
<1>4. CallTypes'
  <2> DEFINE next == IF what = "calls" THEN "batch" ELSE "turnEnd"
             failed == what = "failed"
             r == [op[c] EXCEPT !.at = "say", !.todo = <<Reply>>, !.more = FALSE, !.then = next,
                                !.ending = failed]
  <2>1. <<Reply>> \in Seq(Whats) /\ <<Reply>> # <<>>
    BY Names
  <2>2. next \in {"batch", "turnEnd"} /\ next \in Stages /\ "say" \in Stages /\ failed \in BOOLEAN
    BY DEF Stages, Listening
  <2>3. op' = [op EXCEPT ![c] = r]
    BY DEF Stream, TInv, CallTypes
  <2> HIDE DEF next, failed
  <2>4. r \in Standings /\ r.at = "say" /\ r.todo # <<>> /\ r.then = next
    BY <2>1, <2>2 DEF TInv, CallTypes, Standings
  <2> HIDE DEF r
  <2> QED
    BY <1>1, <2>2, <2>3, <2>4, CallMoves DEF session, TInv
<1> QED
  BY <1>2, <1>3, <1>4 DEF TInv

LEMMA ExecuteTypes ==
  ASSUME TInv, NEW c \in Calls, NEW more \in BOOLEAN, Execute(c, more)
  PROVE  TInv'
<1>1. UNCHANGED <<session, inputs>> /\ appending[c] = NoEntry
  BY DEF Execute, At, TInv, CallTypes, Ready, Saving, Flushing
<1>2. SessionTypes' /\ InputTypes' /\ OtherTypes'
  BY <1>1 DEF session, inputs, signals, TInv, SessionTypes, InputTypes, OtherTypes, Execute
<1>3. CallTypes'
  <2> DEFINE r == [op[c] EXCEPT !.at = "say", !.todo = <<Result>>, !.then = "turnEnd", !.more = more]
  <2>1. <<Result>> \in Seq(Whats) /\ <<Result>> # <<>>
    BY Names
  <2>2. op' = [op EXCEPT ![c] = r]
    BY DEF Execute, TInv, CallTypes
  <2>3. r \in Standings /\ r.at = "say" /\ r.todo # <<>> /\ r.then = "turnEnd"
    <3>1. "say" \in Stages /\ "turnEnd" \in Stages
      BY DEF Stages, Listening
    <3> QED
      BY <2>1, <3>1 DEF TInv, CallTypes, Standings
  <2> HIDE DEF r
  <2> QED
    BY <1>1, <2>2, <2>3, CallMoves DEF session, TInv
<1> QED
  BY <1>2, <1>3 DEF TInv

\* Where a call goes that need not wait for listeners any longer.
LEMMA StageAfterListening ==
  ASSUME CallTypes, NEW c \in Calls, op[c].at \in Listening
  PROVE  /\ AfterListening(c) \in {"poll", "stream", "batch", "turnEnd", "say", "turnFlush",
                                   "endFlush", "nextFlush", "cleanFlush"}
         /\ At(c, "said") /\ op[c].todo # <<>> => AfterListening(c) = "say"
         /\ At(c, "said") /\ op[c].todo = <<>> => AfterListening(c) = op[c].then
         /\ At(c, "drained") => AfterListening(c) = "say"
         /\ AfterListening(c) = "say" => op[c].todo # <<>> /\ op[c].at \in {"said", "drained"}
         /\ At(c, "nextTurn") <=> AfterListening(c) = "poll" /\ ~At(c, "said")
         /\ At(c, "turnEnd") => AfterListening(c) = "turnFlush"
         /\ At(c, "savePoint") => AfterListening(c) \in {"endFlush", "nextFlush"}
         /\ At(c, "agentEnd") => AfterListening(c) = "cleanFlush"
BY DEF CallTypes, Ready, Listening, At, AfterListening

LEMMA HeardTypes ==
  ASSUME TInv, NEW c \in Calls, Heard(c)
  PROVE  TInv'
<1>1. UNCHANGED <<session, inputs>> /\ appending[c] = NoEntry
  BY DEF Heard, Listening, TInv, CallTypes, Ready, Saving, Flushing
<1>2. SessionTypes' /\ InputTypes' /\ OtherTypes'
  BY <1>1 DEF session, inputs, signals, TInv, SessionTypes, InputTypes, OtherTypes, Heard
<1>3. CallTypes'
  <2> DEFINE stage == AfterListening(c)
             next == IF At(c, "said") /\ op[c].todo = <<>> THEN "ready" ELSE op[c].then
             seen == IF At(c, "nextTurn") THEN Len(log) ELSE op[c].seen
             r == [op[c] EXCEPT !.at = stage, !.from = "gone", !.then = next, !.seen = seen]
  <2>1. op' = [op EXCEPT ![c] = r]
    BY DEF Heard, TInv, CallTypes
  <2>2. stage \in {"poll", "stream", "batch", "turnEnd", "say", "turnFlush", "endFlush",
                   "nextFlush", "cleanFlush"}
    BY StageAfterListening DEF Heard, TInv
  <2>3. stage = "say" => op[c].todo # <<>> /\ next \in {"poll", "stream", "batch", "turnEnd"}
    BY StageAfterListening DEF Heard, TInv, CallTypes, Ready, At
  <2>4. next \in Stages /\ seen \in Nat /\ stage \in Stages
    <3>1. next \in Stages /\ seen \in Nat
      BY DEF TInv, CallTypes, SessionTypes, Standings, Stages
    <3>2. stage \in Stages
      BY <2>2 DEF Stages, Listening, Flushing
    <3> QED
      BY <3>1, <3>2
  <2> HIDE DEF stage, next, seen
  <2>5. r \in Standings /\ r.at = stage /\ r.todo = op[c].todo /\ r.then = next
    BY <2>4 DEF TInv, CallTypes, Standings
  <2> HIDE DEF r
  <2> QED
    BY <1>1, <2>1, <2>2, <2>3, <2>5, CallMoves DEF session, TInv
<1> QED
  BY <1>2, <1>3 DEF TInv

\* A call that flushes saves an entry, and the queues stay.
LEMMA FlushTypes ==
  ASSUME TInv, NEW c \in Calls, Flush(c) \/ Flushed(c)
  PROVE  TInv'
<1>1. SessionTypes' /\ \A d \in Calls \ {c} : appending'[d] = appending[d]
  <2>1. CASE Flush(c)
    <3>1. Head(pending) \in Whats
      BY <2>1, Names DEF Flush, TInv, InputTypes
    <3> QED
      BY <2>1, <3>1, BuildTypes DEF Flush, TInv, Threads, SessionTypes
  <2>2. CASE Flushed(c)
    BY <2>2, LandTypes DEF Flushed, TInv, Threads, SessionTypes
  <2> QED
    BY <2>1, <2>2
<1>2. pending' \in Seq(Writes)
  BY DEF Flush, Flushed, inputs, TInv, InputTypes
<1>3. InputTypes' /\ OtherTypes'
  BY <1>2 DEF Flush, Flushed, inputs, signals, TInv, InputTypes, OtherTypes
<1>4. CallTypes'
  BY <1>1, CallsStay DEF Flush, Flushed, Saving, TInv
<1> QED
  BY <1>1, <1>3, <1>4 DEF TInv

LEMMA FlushEndsTypes ==
  ASSUME TInv, NEW c \in Calls, FlushEnds(c)
  PROVE  TInv'
<1>1. UNCHANGED <<session, inputs>> /\ appending[c] = NoEntry
  BY DEF FlushEnds, AfterFlush
<1>2. SessionTypes' /\ InputTypes'
  BY <1>1 DEF session, inputs, TInv, SessionTypes, InputTypes
<1>3. OtherTypes'
  BY DEF FlushEnds, AfterFlush, End, TInv, OtherTypes
<1>4. \/ Throw(c)
      \/ \E stage \in {"savePoint", "nextTurn", "agentEnd"} : Go(c, stage)
      \/ End(c, op[c].error)
  BY DEF FlushEnds, AfterFlush
<1>5. CallTypes'
  <2>1. CASE Throw(c)
    BY <1>1, <2>1, ThrowTypes DEF session, TInv
  <2>2. CASE \E stage \in {"savePoint", "nextTurn", "agentEnd"} : Go(c, stage)
    BY <1>1, <2>2, GoMoves DEF session, TInv, Stages, Listening
  <2>3. CASE End(c, op[c].error)
    BY <1>1, <2>3, CallEnds DEF session, TInv, End
  <2> QED
    BY <1>4, <2>1, <2>2, <2>3
<1> QED
  BY <1>2, <1>3, <1>5 DEF TInv

LEMMA ListenerThrowsTypes ==
  ASSUME TInv, NEW c \in Calls, ListenerThrows(c)
  PROVE  TInv'
<1>1. /\ UNCHANGED <<session, pending, writes, asked, texts>>
      /\ appending[c] = NoEntry
  BY DEF ListenerThrows
<1>2. SessionTypes' /\ OtherTypes'
  <2>1. UNCHANGED <<phase, signals, aborting, replies, stranded>> /\ faults' \in 0 .. MaxFaults
    BY HarnessAssumption DEF ListenerThrows, Faulty, TInv, OtherTypes
  <2> QED
    BY <1>1, <2>1 DEF session, signals, TInv, SessionTypes, OtherTypes
<1>3. CASE At(c, "turnEnd")
  <2>1. UNCHANGED <<queue, dropped>>
    BY <1>3 DEF ListenerThrows
  <2>2. InputTypes'
    BY <1>1, <2>1 DEF TInv, InputTypes
  <2> DEFINE r == [op[c] EXCEPT !.at = "turnFlush", !.error = TRUE]
  <2>3. r \in Standings /\ r.at = "turnFlush"
    <3>1. "turnFlush" \in Stages
      BY DEF Stages, Flushing
    <3> QED
      BY <3>1 DEF TInv, CallTypes, Standings
  <2>4. op' = [op EXCEPT ![c] = r]
    BY <1>3 DEF ListenerThrows, TInv, CallTypes
  <2> HIDE DEF r
  <2>5. CallTypes'
    BY <1>1, <2>3, <2>4, CallMoves DEF session, TInv
  <2> QED
    BY <1>2, <2>2, <2>5 DEF TInv
<1>4. CASE ~At(c, "turnEnd")
  <2>1. Throw(c)
    BY <1>4 DEF ListenerThrows
  <2>2. CallTypes'
    BY <1>1, <2>1, ThrowTypes DEF session, TInv
  <2>3. queue' \in [Queues -> Seq(Texts)] /\ dropped' \subseteq Texts
    <3>1. CASE At(c, "drained") /\ op[c].from # "gone"
      <4> DEFINE q == op[c].from
      <4>1. q \in Queues /\ op[c].todo \in Seq(Texts)
        BY <3>1 DEF At, TInv, CallTypes, Ready, Standings
      <4>2. op[c].todo \o queue[q] \in Seq(Texts)
        BY <4>1 DEF TInv, InputTypes
      <4>3. queue' = [queue EXCEPT ![q] = op[c].todo \o queue[q]] /\ UNCHANGED dropped
        BY <1>4, <3>1, <4>1 DEF ListenerThrows, TInv, InputTypes
      <4> QED
        BY <4>2, <4>3 DEF TInv, InputTypes
    <3>2. CASE ~(At(c, "drained") /\ op[c].from # "gone")
      BY <1>4, <3>2 DEF ListenerThrows, TInv, InputTypes, InHand
    <3> QED
      BY <3>1, <3>2
  <2>4. InputTypes'
    BY <1>1, <2>3 DEF TInv, InputTypes
  <2> QED
    BY <1>2, <2>2, <2>4 DEF TInv
<1> QED
  BY <1>3, <1>4

LEMMA WriteFailsTypes ==
  ASSUME TInv, NEW c \in Calls, WriteFails(c)
  PROVE  TInv'
<1>1. SessionTypes' /\ appending' = [appending EXCEPT ![c] = NoEntry]
  BY MissTypes DEF WriteFails, TInv, Threads
<1>2. appending'[c] = NoEntry /\ \A d \in Calls \ {c} : appending'[d] = appending[d]
  BY <1>1 DEF TInv, SessionTypes, Threads
<1>3. InputTypes'
  BY DEF WriteFails, TInv, InputTypes, InHand
<1>4. OtherTypes'
  <2>1. faults' \in 0 .. MaxFaults /\ UNCHANGED <<aborted, aborting, replies>>
    BY HarnessAssumption DEF WriteFails, Faulty, TInv, OtherTypes
  <2>2. CASE At(c, "cleanFlush")
    <3>1. End(c, TRUE) /\ controller' = None /\ stranded' = TRUE
      BY <2>2 DEF WriteFails
    <3> QED
      BY <2>1, <3>1 DEF End, TInv, OtherTypes
  <2>3. CASE ~At(c, "cleanFlush")
    <3>1. UNCHANGED <<phase, controller, runPromise, stranded>>
      BY <2>3 DEF WriteFails
    <3> QED
      BY <2>1, <3>1 DEF TInv, OtherTypes
  <2> QED
    BY <2>2, <2>3
<1>5. Throw(c) \/ End(c, TRUE)
  BY DEF WriteFails
<1>6. CallTypes'
  BY <1>2, <1>5, ThrowTypes, CallEnds DEF End, TInv
<1> QED
  BY <1>1, <1>3, <1>4, <1>6 DEF TInv

-----------------------------------------------------------------------------
(* compact and navigateTree.                                                *)

LEMMA SummarizeTypes ==
  ASSUME TInv, NEW c \in Calls, Summarize(c)
  PROVE  TInv'
<1>1. SessionTypes' /\ appending' = [appending EXCEPT ![c] = appending'[c]]
  BY BuildTypes, Names DEF Summarize, TInv, Threads
<1>2. InputTypes' /\ OtherTypes'
  BY DEF Summarize, inputs, signals, TInv, InputTypes, OtherTypes
<1>3. \A d \in Calls \ {c} : appending'[d] = appending[d]
  BY <1>1 DEF TInv, SessionTypes, Threads
<1>4. CallTypes'
  BY <1>3, GoMoves DEF Summarize, TInv, Stages, Saving
<1> QED
  BY <1>1, <1>2, <1>4 DEF TInv

LEMMA SetLeafTypes ==
  ASSUME TInv, NEW c \in Calls, NEW target \in 0 .. Len(log), SetLeaf(c, target)
  PROVE  TInv'
<1> DEFINE e == [what |-> <<"leaf", 0>>, parent |-> leaf, leaf |-> target]
           r == [op[c] EXCEPT !.at = "moving", !.target = target]
<1>1. e \in Entries /\ e.leaf \in 0 .. Len(log) /\ target \in Nat
  BY Names DEF Entries, TInv, SessionTypes
<1>2. appending' = [appending EXCEPT ![c] = e] /\ UNCHANGED <<log, leaf>>
  BY DEF SetLeaf
<1>3. op' = [op EXCEPT ![c] = r]
  BY DEF SetLeaf, TInv, CallTypes
<1> HIDE DEF e
<1>4. SessionTypes' /\ \A d \in Calls \ {c} : appending'[d] = appending[d]
  BY <1>1, <1>2, Built DEF TInv, Threads, SessionTypes
<1>5. r \in Standings /\ r.at = "moving"
  <2>1. "moving" \in Stages
    BY DEF Stages
  <2> QED
    BY <1>1, <2>1 DEF TInv, CallTypes, Standings
<1> HIDE DEF r
<1>6. CallTypes'
  BY <1>3, <1>4, <1>5, CallMoves DEF TInv, Saving
<1>7. InputTypes' /\ OtherTypes'
  BY DEF SetLeaf, inputs, signals, TInv, InputTypes, OtherTypes
<1> QED
  BY <1>4, <1>6, <1>7 DEF TInv

LEMMA SummarizeBranchTypes ==
  ASSUME TInv, NEW c \in Calls, SummarizeBranch(c)
  PROVE  TInv'
<1> DEFINE e == [what |-> <<"summary", 0>>, parent |-> op[c].target, leaf |-> Root]
<1>1. e \in Entries /\ e.leaf \in 0 .. Len(log)
  BY Names DEF Entries, TInv, SessionTypes, CallTypes, Standings, Root
<1>2. appending' = [appending EXCEPT ![c] = e] /\ UNCHANGED <<log, leaf>>
  BY DEF SummarizeBranch
<1> HIDE DEF e
<1>3. SessionTypes' /\ \A d \in Calls \ {c} : appending'[d] = appending[d]
  BY <1>1, <1>2, Built DEF TInv, Threads, SessionTypes
<1>4. CallTypes'
  BY <1>3, GoMoves DEF SummarizeBranch, TInv, Stages, Saving
<1>5. InputTypes' /\ OtherTypes'
  BY DEF SummarizeBranch, inputs, signals, TInv, InputTypes, OtherTypes
<1> QED
  BY <1>3, <1>4, <1>5 DEF TInv

LEMMA MoveLandsTypes ==
  ASSUME TInv, NEW c \in Calls, MoveLands(c)
  PROVE  TInv'
<1>1. SessionTypes' /\ appending' = [appending EXCEPT ![c] = NoEntry]
  BY LandTypes DEF MoveLands, TInv, Threads
<1>2. appending'[c] = NoEntry /\ \A d \in Calls \ {c} : appending'[d] = appending[d]
  BY <1>1 DEF TInv, SessionTypes, Threads
<1>3. Go(c, "moved") \/ Go(c, "told")
  BY DEF MoveLands
<1>4. CallTypes'
  BY <1>2, <1>3, GoMoves DEF TInv, Stages
<1>5. InputTypes' /\ OtherTypes'
  BY DEF MoveLands, inputs, signals, TInv, InputTypes, OtherTypes
<1> QED
  BY <1>1, <1>4, <1>5 DEF TInv

LEMMA MoveEndsTypes ==
  ASSUME TInv, NEW c \in Calls, MoveEnds(c)
  PROVE  TInv'
<1>1. UNCHANGED <<session, inputs>> /\ appending[c] = NoEntry
  BY DEF MoveEnds, TInv, CallTypes, Ready, Saving, Flushing
<1>2. SessionTypes' /\ InputTypes' /\ OtherTypes'
  BY <1>1 DEF session, inputs, signals, TInv, SessionTypes, InputTypes, OtherTypes, MoveEnds
<1>3. CallTypes'
  BY <1>1, CallEnds DEF MoveEnds, session, TInv
<1> QED
  BY <1>2, <1>3 DEF TInv

LEMMA MoveFailsTypes ==
  ASSUME TInv, NEW c \in Calls, MoveFails(c)
  PROVE  TInv'
<1>1. SessionTypes' /\ appending' = [appending EXCEPT ![c] = NoEntry]
  BY MissTypes DEF MoveFails, TInv, Threads
<1>2. appending'[c] = NoEntry /\ \A d \in Calls \ {c} : appending'[d] = appending[d]
  BY <1>1 DEF TInv, SessionTypes, Threads
<1>3. CallTypes'
  BY <1>2, CallEnds DEF MoveFails, TInv
<1>4. InputTypes'
  BY DEF MoveFails, inputs, TInv, InputTypes
<1>5. OtherTypes'
  BY HarnessAssumption DEF MoveFails, Faulty, signals, TInv, OtherTypes
<1> QED
  BY <1>1, <1>3, <1>4, <1>5 DEF TInv

-----------------------------------------------------------------------------
(* What the host, listeners, hooks and tools call.                          *)

LEMMA QueueWriteTypes ==
  ASSUME TInv, QueueWrite
  PROVE  TInv'
<1>1. SessionTypes' /\ OtherTypes' /\ CallTypes'
  <2>1. SessionTypes' /\ OtherTypes'
    BY DEF QueueWrite, session, signals, TInv, SessionTypes, OtherTypes
  <2> QED
    BY <2>1, CallsStay DEF QueueWrite, session, TInv
<1>2. NextWrite \in Writes /\ writes' \in 0 .. MaxInputs
  BY InputRoom, HarnessAssumption DEF QueueWrite, NextWrite, Writes, TInv, InputTypes
<1>3. pending' \in Seq(Writes) /\ asked' \in Seq(Writes)
  BY <1>2 DEF QueueWrite, TInv, InputTypes
<1>4. InputTypes'
  BY <1>2, <1>3 DEF QueueWrite, TInv, InputTypes
<1> QED
  BY <1>1, <1>4 DEF TInv

LEMMA WriteNowTypes ==
  ASSUME TInv, WriteNow
  PROVE  TInv'
<1>1. NextWrite \in Writes /\ writes' \in 0 .. MaxInputs
  BY InputRoom, HarnessAssumption DEF WriteNow, NextWrite, Writes, TInv, InputTypes
<1>2. SessionTypes' /\ appending' = [appending EXCEPT ![NextWrite] = appending'[NextWrite]]
  BY <1>1, BuildTypes, Names DEF WriteNow, TInv, Threads
<1>3. \A c \in Calls : appending'[c] = appending[c]
  BY <1>1, <1>2, Names DEF TInv, SessionTypes, Threads
<1>4. InputTypes' /\ OtherTypes'
  BY <1>1 DEF WriteNow, signals, TInv, InputTypes, OtherTypes
<1>5. CallTypes'
  BY <1>3, CallsStay DEF WriteNow, TInv
<1> QED
  BY <1>2, <1>4, <1>5 DEF TInv

LEMMA WrittenTypes ==
  ASSUME TInv, NEW w \in Writes, Written(w)
  PROVE  TInv'
<1>1. SessionTypes' /\ appending' = [appending EXCEPT ![w] = NoEntry]
  BY LandTypes, MissTypes DEF Written, TInv, Threads
<1>2. \A c \in Calls : appending'[c] = appending[c]
  BY <1>1, Names DEF TInv, SessionTypes, Threads
<1>3. InputTypes'
  BY DEF Written, inputs, TInv, InputTypes
<1>4. OtherTypes'
  BY HarnessAssumption DEF Written, Faulty, signals, TInv, OtherTypes
<1>5. CallTypes'
  BY <1>2, CallsStay DEF Written, TInv
<1> QED
  BY <1>1, <1>3, <1>4, <1>5 DEF TInv

LEMMA SendTypes ==
  ASSUME TInv, NEW q \in Queues, Send(q)
  PROVE  TInv'
<1>1. SessionTypes' /\ OtherTypes'
  BY DEF Send, session, signals, TInv, SessionTypes, OtherTypes
<1>2. CallTypes'
  BY CallsStay DEF Send, session, TInv
<1>3. NextText \in Texts /\ texts' \in 0 .. MaxInputs
  BY InputRoom, HarnessAssumption DEF Send, NextText, Texts, TInv, InputTypes
<1>4. Append(queue[q], NextText) \in Seq(Texts)
  BY <1>3 DEF TInv, InputTypes
<1>5. queue' = [queue EXCEPT ![q] = Append(queue[q], NextText)]
  BY DEF Send, TInv, InputTypes
<1>6. queue' \in [Queues -> Seq(Texts)]
  BY <1>4, <1>5 DEF TInv, InputTypes
<1>7. InputTypes'
  BY <1>3, <1>6 DEF Send, TInv, InputTypes
<1> QED
  BY <1>1, <1>2, <1>7 DEF TInv

LEMMA AbortTypes ==
  ASSUME TInv, NEW a \in Aborts, Abort(a)
  PROVE  TInv'
<1>1. SessionTypes'
  BY DEF Abort, session, TInv, SessionTypes
<1>2. OtherTypes'
  BY DEF Abort, TInv, OtherTypes
<1>3. queue' \in [Queues -> Seq(Texts)]
  <2>1. <<>> \in Seq(Texts)
    OBVIOUS
  <2>2. queue' = [queue EXCEPT !["steer"] = <<>>, !["followUp"] = <<>>]
    BY DEF Abort
  <2> QED
    BY <2>1, <2>2 DEF TInv, InputTypes
<1>4. dropped' \subseteq Texts
  <2>1. queue["steer"] \in Seq(Texts) /\ queue["followUp"] \in Seq(Texts)
    BY DEF TInv, InputTypes, Queues
  <2>2. ToSet(queue["steer"]) \subseteq Texts /\ ToSet(queue["followUp"]) \subseteq Texts
    BY <2>1 DEF ToSet
  <2> QED
    BY <2>2 DEF Abort, TInv, InputTypes
<1>5. InputTypes'
  BY <1>3, <1>4 DEF Abort, TInv, InputTypes
<1>6. CallTypes'
  <2>1. ASSUME NEW c \in Calls
        PROVE  op'[c] \in Standings /\ Ready(c)'
    <3>1. op'[c] = [op[c] EXCEPT !.from = "gone"] /\ op[c] \in Standings
      BY DEF Abort, TInv, CallTypes
    <3>2. /\ op'[c] \in Standings
          /\ op'[c].at = op[c].at /\ op'[c].todo = op[c].todo /\ op'[c].then = op[c].then
      BY <3>1 DEF Standings
    <3>3. Ready(c)'
      BY <3>2 DEF Ready, Abort, session, TInv, CallTypes
    <3> QED
      BY <3>2, <3>3
  <2>2. op' \in [Calls -> Standings]
    BY <2>1 DEF Abort
  <2> QED
    BY <2>1, <2>2 DEF CallTypes
<1> QED
  BY <1>1, <1>2, <1>5, <1>6 DEF TInv

LEMMA AbortGoesOnTypes ==
  ASSUME TInv, NEW a \in Aborts, AbortWaits(a) \/ AbortEnds(a)
  PROVE  TInv'
<1>1. SessionTypes' /\ InputTypes'
  BY DEF AbortWaits, AbortEnds, session, inputs, TInv, SessionTypes, InputTypes
<1>2. CallTypes'
  BY CallsStay DEF AbortWaits, AbortEnds, session, TInv
<1>3. aborting' \in [Aborts -> [at : {"ready", "notify", "waiting", "done"}, for : Calls \cup {None}]]
  BY DEF AbortWaits, AbortEnds, TInv, OtherTypes
<1>4. OtherTypes'
  BY <1>3 DEF AbortWaits, AbortEnds, signals, TInv, OtherTypes
<1> QED
  BY <1>1, <1>2, <1>4 DEF TInv

-----------------------------------------------------------------------------

LEMMA TInvHolds ==
  Spec => []TInv
<1>1. Init => TInv
  <2> SUFFICES ASSUME Init
               PROVE  TInv
    OBVIOUS
  <2>1. SessionTypes
    BY Names DEF Init, SessionTypes, Root
  <2>2. InputTypes
    BY HarnessAssumption DEF Init, InputTypes
  <2>3. OtherTypes
    <3>1. aborting \in [Aborts -> [at : {"ready", "notify", "waiting", "done"},
                                  for : Calls \cup {None}]]
      BY DEF Init
    <3>2. replies \in 0 .. MaxReplies /\ faults \in 0 .. MaxFaults
      BY HarnessAssumption DEF Init
    <3> QED
      BY <3>1, <3>2 DEF Init, OtherTypes
  <2>4. CallTypes
    BY FreshTypes DEF Init, CallTypes, Ready, Threads
  <2> QED
    BY <2>1, <2>2, <2>3, <2>4 DEF TInv
<1>2. TInv /\ [Next]_vars => TInv'
  <2> SUFFICES ASSUME TInv, [Next]_vars
               PROVE  TInv'
    OBVIOUS
  <2>1. CASE UNCHANGED vars
    <3>1. SessionTypes' /\ InputTypes' /\ OtherTypes'
      BY <2>1 DEF vars, session, inputs, signals, TInv, SessionTypes, InputTypes, OtherTypes
    <3>2. CallTypes'
      BY <2>1, CallsStay DEF vars, session, TInv
    <3> QED
      BY <3>1, <3>2 DEF TInv
  <2>2. ASSUME NEW c \in Calls, Prompt(c) \/ \E kind \in {"compaction", "branch_summary"} : Move(c, kind)
        PROVE  TInv'
    BY <2>2, BeginTypes
  <2>3. ASSUME NEW c \in Calls, PromptStep(c)
        PROVE  TInv'
    BY <2>3, SnapshotTypes, AnnouncedTypes, StartTypes, SayTypes, SaidTypes, PollTypes, HeardTypes,
       StreamTypes, ExecuteTypes, FlushTypes, FlushEndsTypes DEF PromptStep
  <2>4. ASSUME NEW c \in Calls, PromptFails(c)
        PROVE  TInv'
    BY <2>4, StartFailsTypes, ListenerThrowsTypes, WriteFailsTypes DEF PromptFails
  <2>5. ASSUME NEW c \in Calls, MoveStep(c) \/ MoveFails(c)
        PROVE  TInv'
    BY <2>5, SummarizeTypes, SetLeafTypes, SummarizeBranchTypes, MoveLandsTypes, MoveEndsTypes,
       MoveFailsTypes DEF MoveStep
  <2>6. CASE QueueWrite \/ WriteNow \/ \E w \in Writes : Written(w)
    BY <2>6, QueueWriteTypes, WriteNowTypes, WrittenTypes
  <2>7. CASE \E q \in Queues : Send(q)
    BY <2>7, SendTypes
  <2>8. CASE \E a \in Aborts : Abort(a) \/ AbortWaits(a) \/ AbortEnds(a)
    BY <2>8, AbortTypes, AbortGoesOnTypes
  <2> QED
    BY <2>1, <2>2, <2>3, <2>4, <2>5, <2>6, <2>7, <2>8 DEF Next
<1> QED
  BY <1>1, <1>2, PTL DEF Spec

\* Type correctness, and that a call which has ended or awaits listeners (handleAgentEvent,
\* emitAny) leaves no entry half written: for any calls, overlapping or not, and any inputs
\* and failures.
THEOREM TypeCorrect ==
  Spec => []TypeOK
<1>1. TInv => TypeOK
  BY DEF TInv, SessionTypes, InputTypes, CallTypes, OtherTypes, Ready, Saving, Flushing, Listening,
     Types, TypeOK
<1> QED
  BY <1>1, TInvHolds, PTL

-----------------------------------------------------------------------------
(* Callers that wait: the session is written by one at a time.              *)

Resting(c) == op[c].at \in {"ready", "done"}

\* At most one call is under way, and while a write is being saved no call is,
\* except one whose listeners have been told that the harness is idle.
OneCall == \A c, d \in Calls : Resting(c) \/ Resting(d) \/ c = d
WritesWait ==
    \A w \in Writes : appending[w] # NoEntry =>
        \A c \in Calls : op[c].at \in {"ready", "done", "agentEnd"}
OneWrite == \A v, w \in Writes : appending[v] = NoEntry \/ appending[w] = NoEntry \/ v = w

InTurn == {"announce", "hook", "say", "said", "poll", "pollLast", "drained", "stream", "batch",
           "turnEnd"}

\* A navigation is where it was to go, and a run knows all that was saved.
Stands(c) ==
    /\ op[c].at = "moving" => IsLeaf(appending[c]) /\ appending[c].leaf = op[c].target
    /\ op[c].at = "moved" => op[c].target = leaf
    /\ op[c].at \in InTurn /\ ~op[c].failing => op[c].seen = Len(log)

CallsSerial == OneCall /\ WritesWait /\ \A c \in Calls : Stands(c)

\* Entries are built on the leaf, and the last entry has set it.
LastLeaf == log # <<>> => log[Len(log)].leaf = leaf
BuiltOnLeaf == \A t \in Threads : appending[t] # NoEntry => appending[t].parent = leaf

LogSerial == OneWrite /\ BranchIsWhole /\ LastLeaf /\ BuiltOnLeaf

SInv == TInv /\ CallsSerial /\ LogSerial

\* Who is under way is alone.
LEMMA Alone ==
  ASSUME SInv, NEW c \in Calls, ~Resting(c)
  PROVE  /\ \A d \in Calls \ {c} : Resting(d)
         /\ op[c].at # "agentEnd" => \A w \in Writes : appending[w] = NoEntry
         /\ \A t \in Threads : op[c].at # "agentEnd" /\ t # c => appending[t] = NoEntry
<1>1. \A d \in Calls \ {c} : Resting(d)
  BY DEF SInv, CallsSerial, OneCall
<1>2. op[c].at # "agentEnd" => \A w \in Writes : appending[w] = NoEntry
  BY DEF SInv, CallsSerial, WritesWait, Resting
<1>3. \A d \in Calls \ {c} : appending[d] = NoEntry
  BY <1>1 DEF SInv, TInv, CallTypes, Ready, Resting, Saving, Flushing
<1> QED
  BY <1>1, <1>2, <1>3 DEF Threads

\* Who saves an entry is the only one.
LEMMA OneSaves ==
  ASSUME SInv, NEW t \in Threads, appending[t] # NoEntry
  PROVE  \A u \in Threads : u # t => appending[u] = NoEntry
<1>1. CASE t \in Calls
  <2>1. op[t].at \in Saving
    BY <1>1 DEF SInv, TInv, CallTypes, Ready
  <2>2. ~Resting(t) /\ op[t].at # "agentEnd"
    BY <2>1 DEF Saving, Flushing, Resting
  <2> QED
    BY <1>1, <2>2, Alone
<1>2. CASE t \in Writes
  <2>1. \A c \in Calls : op[c].at \in {"ready", "done", "agentEnd"}
    BY <1>2 DEF SInv, CallsSerial, WritesWait
  <2>2. \A c \in Calls : appending[c] = NoEntry
    BY <2>1 DEF SInv, TInv, CallTypes, Ready, Saving, Flushing
  <2>3. \A w \in Writes : w # t => appending[w] = NoEntry
    BY <1>2 DEF SInv, LogSerial, OneWrite
  <2> QED
    BY <2>2, <2>3 DEF Threads
<1> QED
  BY <1>1, <1>2 DEF Threads

LEMMA CallSerial ==
  ASSUME SInv, NEW c \in Calls,
         \A d \in Calls \ {c} : op'[d] = op[d] /\ Resting(d),
         \A w \in Writes : appending'[w] = NoEntry,
         Stands(c)'
  PROVE  CallsSerial'
<1>1. \A d \in Calls \ {c} : Resting(d)' /\ Stands(d)'
  BY DEF Resting, Stands, InTurn
<1> QED
  BY <1>1 DEF CallsSerial, OneCall, WritesWait

LEMMA UnsavedSerial ==
  ASSUME SInv, UNCHANGED session
  PROVE  LogSerial'
BY DEF SInv, LogSerial, OneWrite, BranchIsWhole, LastLeaf, BuiltOnLeaf, session

LEMMA BuiltSerial ==
  ASSUME SInv, NEW t \in Threads, NEW e, e.parent = leaf,
         appending' = [appending EXCEPT ![t] = e], UNCHANGED <<log, leaf>>,
         \A u \in Threads : u # t => appending[u] = NoEntry
  PROVE  LogSerial'
<1>1. \A u \in Threads : appending'[u] = IF u = t THEN e ELSE NoEntry
  BY DEF SInv, TInv, SessionTypes
<1>2. OneWrite' /\ BuiltOnLeaf'
  BY <1>1 DEF OneWrite, BuiltOnLeaf, Threads
<1> QED
  BY <1>2 DEF SInv, LogSerial, BranchIsWhole, LastLeaf

LEMMA MissedSerial ==
  ASSUME SInv, NEW t \in Threads, Miss(t)
  PROVE  LogSerial'
BY DEF SInv, TInv, SessionTypes, LogSerial, OneWrite, BranchIsWhole, LastLeaf, BuiltOnLeaf, Miss, Threads

LEMMA LandedSerial ==
  ASSUME SInv, NEW t \in Threads, Land(t)
  PROVE  /\ LogSerial' /\ Len(log') = Len(log) + 1
         /\ IsLeaf(appending[t]) => leaf' = appending[t].leaf
<1> DEFINE e == [appending[t] EXCEPT !.leaf = leaf']
<1>1. appending[t] # NoEntry /\ appending[t] \in Entries /\ appending[t].parent = leaf
  BY DEF Land, SInv, TInv, SessionTypes, LogSerial, BuiltOnLeaf
<1>2. log' = Append(log, e) /\ e.parent = leaf /\ e.leaf = leaf'
  BY <1>1 DEF Land, Entries
<1>3. log \in Seq(Entries)
  BY DEF SInv, TInv, SessionTypes
<1> HIDE DEF e
<1>4. /\ Len(log') = Len(log) + 1 /\ log'[Len(log) + 1] = e
      /\ \A i \in 1 .. Len(log) : log'[i] = log[i]
  BY <1>2, <1>3
<1>5. LastLeaf'
  BY <1>2, <1>3, <1>4 DEF LastLeaf
<1>6. BranchIsWhole'
  <2> SUFFICES ASSUME NEW i \in 2 .. Len(log')
               PROVE  log'[i].parent = log'[i - 1].leaf
    BY DEF BranchIsWhole
  <2>1. CASE i = Len(log) + 1
    <3>1. log # <<>> /\ i - 1 = Len(log) /\ Len(log) \in 1 .. Len(log)
      BY <1>3, <2>1
    <3>2. log[Len(log)].leaf = leaf
      BY <3>1 DEF SInv, LogSerial, LastLeaf
    <3> QED
      BY <1>2, <1>4, <2>1, <3>1, <3>2
  <2>2. CASE i # Len(log) + 1
    <3>1. i \in 2 .. Len(log) /\ i \in 1 .. Len(log) /\ i - 1 \in 1 .. Len(log)
      BY <1>3, <1>4, <2>2
    <3> QED
      BY <1>4, <3>1 DEF SInv, LogSerial, BranchIsWhole
  <2> QED
    BY <2>1, <2>2
<1>7. \A u \in Threads : appending'[u] = NoEntry
  BY <1>1, OneSaves DEF Land, SInv, TInv, SessionTypes
<1>8. OneWrite' /\ BuiltOnLeaf'
  BY <1>7 DEF OneWrite, BuiltOnLeaf, Threads
<1> QED
  BY <1>4, <1>5, <1>6, <1>8 DEF LogSerial, Land

\* The steps of calls, first those that save nothing.

LEMMA BeginSerial ==
  ASSUME ~Overlap, SInv, NEW c \in Calls,
         Prompt(c) \/ \E kind \in {"compaction", "branch_summary"} : Move(c, kind)
  PROVE  CallsSerial' /\ LogSerial'
<1>1. Quiet /\ UNCHANGED session
  BY DEF Prompt, Move, Begin
<1>2. \E stage \in {"snapshot", "compaction", "branch_summary"} : Go(c, stage)
  BY DEF Prompt, Move
<1>3. \A d \in Calls \ {c} : op'[d] = op[d] /\ Resting(d)
  BY <1>1, <1>2 DEF Quiet, Resting, Go, SInv, TInv, CallTypes
<1>4. \A w \in Writes : appending'[w] = NoEntry
  BY <1>1 DEF Quiet, Saved, session, Threads
<1>5. op'[c].at \in {"snapshot", "compaction", "branch_summary"}
  BY <1>2 DEF Go, SInv, TInv, CallTypes, Standings
<1>6. Stands(c)'
  BY <1>5 DEF Stands, InTurn
<1> QED
  BY <1>1, <1>3, <1>4, <1>6, CallSerial, UnsavedSerial

\* A call that moves on, without saving, to where it knows what it must.
LEMMA UnsavedCall ==
  ASSUME SInv, NEW c \in Calls, ~Resting(c), UNCHANGED session,
         \A d \in Calls \ {c} : op'[d] = op[d],
         op[c].at = "agentEnd" => \A w \in Writes : appending[w] = NoEntry,
         Stands(c)'
  PROVE  CallsSerial' /\ LogSerial'
<1>1. \A w \in Writes : appending'[w] = NoEntry
  BY Alone DEF session
<1> QED
  BY <1>1, Alone, CallSerial, UnsavedSerial

LEMMA OthersStay ==
  ASSUME SInv, NEW c \in Calls, NEW r, op' = [op EXCEPT ![c] = r]
  PROVE  op'[c] = r /\ \A d \in Calls \ {c} : op'[d] = op[d]
BY DEF SInv, TInv, CallTypes

LEMMA GoStays ==
  ASSUME SInv, NEW c \in Calls, NEW stage, Go(c, stage)
  PROVE  /\ \A d \in Calls \ {c} : op'[d] = op[d]
         /\ op'[c].at = stage /\ op'[c].seen = op[c].seen /\ op'[c].failing = op[c].failing
         /\ op'[c].target = op[c].target
BY DEF SInv, TInv, CallTypes, Standings, Go

LEMMA ThrowStands ==
  ASSUME SInv, NEW c \in Calls, Throw(c)
  PROVE  Stands(c)' /\ \A d \in Calls \ {c} : op'[d] = op[d]
<1>1. CASE op[c].failing
  <2> DEFINE r == [Fresh EXCEPT !.at = "cleanFlush", !.error = TRUE]
  <2>1. op' = [op EXCEPT ![c] = r] /\ r.at = "cleanFlush"
    BY <1>1 DEF Throw, Fresh
  <2> HIDE DEF r
  <2>2. op'[c].at = "cleanFlush" /\ \A d \in Calls \ {c} : op'[d] = op[d]
    BY <2>1, OthersStay
  <2> QED
    BY <2>2 DEF Stands, InTurn
<1>2. CASE ~op[c].failing
  <2> DEFINE r == [Fresh EXCEPT !.at = "say", !.todo = <<Reply>>, !.then = "turnEnd",
                                !.ending = TRUE, !.failing = TRUE]
  <2>1. op' = [op EXCEPT ![c] = r] /\ r.at = "say" /\ r.failing
    BY <1>2 DEF Throw, Fresh
  <2> HIDE DEF r
  <2>2. op'[c].at = "say" /\ op'[c].failing /\ \A d \in Calls \ {c} : op'[d] = op[d]
    BY <2>1, OthersStay
  <2> QED
    BY <2>2 DEF Stands
<1> QED
  BY <1>1, <1>2

LEMMA EndStands ==
  ASSUME SInv, NEW c \in Calls, op' = [op EXCEPT ![c] = Done]
  PROVE  Stands(c)' /\ \A d \in Calls \ {c} : op'[d] = op[d]
<1>1. op'[c].at = "done" /\ \A d \in Calls \ {c} : op'[d] = op[d]
  BY OthersStay, FreshTypes
<1> QED
  BY <1>1 DEF Stands, InTurn

LEMMA SnapshotSerial ==
  ASSUME SInv, NEW c \in Calls, Snapshot(c)
  PROVE  CallsSerial' /\ LogSerial'
<1>1. ~Resting(c) /\ op[c].at # "agentEnd" /\ UNCHANGED session
  BY DEF Snapshot, At, Resting
<1>2. /\ op'[c].at \in {"hook", "announce"} /\ op'[c].seen = Len(log)
      /\ \A d \in Calls \ {c} : op'[d] = op[d]
  BY DEF Snapshot, SInv, TInv, CallTypes, Standings
<1>3. Stands(c)'
  BY <1>1, <1>2 DEF Stands, session
<1> QED
  BY <1>1, <1>2, <1>3, UnsavedCall

LEMMA AnnouncedSerial ==
  ASSUME SInv, NEW c \in Calls, Announced(c)
  PROVE  CallsSerial' /\ LogSerial'
<1>1. ~Resting(c) /\ op[c].at # "agentEnd" /\ UNCHANGED session /\ Go(c, "hook")
  BY DEF Announced, At, Resting
<1>2. Stands(c) /\ op[c].at = "announce"
  BY DEF Announced, At, SInv, CallsSerial
<1>3. Stands(c)'
  BY <1>1, <1>2, GoStays DEF Stands, session, InTurn
<1> QED
  BY <1>1, <1>3, GoStays, UnsavedCall

\* A run goes on and knows all that was saved.
LEMMA TurnSerial ==
  ASSUME SInv, NEW c \in Calls, op[c].at \in InTurn, UNCHANGED session,
         \A d \in Calls \ {c} : op'[d] = op[d],
         op'[c].seen = op[c].seen, op'[c].failing = op[c].failing,
         op'[c].at \notin {"moving", "moved"}
  PROVE  CallsSerial' /\ LogSerial'
<1>1. ~Resting(c) /\ op[c].at # "agentEnd"
  BY DEF InTurn, Resting
<1>2. Stands(c)'
  BY DEF SInv, CallsSerial, Stands, session
<1> QED
  BY <1>1, <1>2, UnsavedCall

LEMMA StartSerial ==
  ASSUME SInv, NEW c \in Calls, Start(c)
  PROVE  CallsSerial' /\ LogSerial'
<1>1. op[c].at \in InTurn /\ UNCHANGED session
  BY DEF Start, At, InTurn
<1>2. /\ op'[c].at = "say" /\ op'[c].seen = op[c].seen /\ op'[c].failing = op[c].failing
      /\ \A d \in Calls \ {c} : op'[d] = op[d]
  BY DEF Start, SInv, TInv, CallTypes, Standings
<1> QED
  BY <1>1, <1>2, TurnSerial

LEMMA StartFailsSerial ==
  ASSUME SInv, NEW c \in Calls, StartFails(c)
  PROVE  CallsSerial' /\ LogSerial'
<1>1. ~Resting(c) /\ op[c].at # "agentEnd" /\ UNCHANGED session /\ op' = [op EXCEPT ![c] = Done]
  BY DEF StartFails, End, Resting
<1> QED
  BY <1>1, EndStands, UnsavedCall

LEMMA PollSerial ==
  ASSUME SInv, NEW c \in Calls, Poll(c)
  PROVE  CallsSerial' /\ LogSerial'
<1>1. op[c].at \in InTurn /\ UNCHANGED session
  BY DEF Poll, At, InTurn
<1>2. \E q \in Queues, empty \in {"stream", "pollLast", "endFlush"} : Drain(c, q, empty)
  BY DEF Poll, Queues
<1>3. /\ op'[c].at \in {"stream", "pollLast", "endFlush", "drained"}
      /\ op'[c].seen = op[c].seen /\ op'[c].failing = op[c].failing
      /\ \A d \in Calls \ {c} : op'[d] = op[d]
  BY <1>2, GoStays DEF Drain, SInv, TInv, CallTypes, Standings
<1> QED
  BY <1>1, <1>3, TurnSerial

LEMMA StreamSerial ==
  ASSUME SInv, NEW c \in Calls, NEW what \in {"answer", "calls", "failed"}, Stream(c, what)
  PROVE  CallsSerial' /\ LogSerial'
<1>1. op[c].at \in InTurn /\ UNCHANGED session
  BY DEF Stream, At, InTurn
<1>2. /\ op'[c].at = "say" /\ op'[c].seen = op[c].seen /\ op'[c].failing = op[c].failing
      /\ \A d \in Calls \ {c} : op'[d] = op[d]
  BY DEF Stream, SInv, TInv, CallTypes, Standings
<1> QED
  BY <1>1, <1>2, TurnSerial

LEMMA ExecuteSerial ==
  ASSUME SInv, NEW c \in Calls, NEW more \in BOOLEAN, Execute(c, more)
  PROVE  CallsSerial' /\ LogSerial'
<1>1. op[c].at \in InTurn /\ UNCHANGED session
  BY DEF Execute, At, InTurn
<1>2. /\ op'[c].at = "say" /\ op'[c].seen = op[c].seen /\ op'[c].failing = op[c].failing
      /\ \A d \in Calls \ {c} : op'[d] = op[d]
  BY DEF Execute, SInv, TInv, CallTypes, Standings
<1> QED
  BY <1>1, <1>2, TurnSerial

LEMMA HeardSerial ==
  ASSUME ~Overlap, SInv, NEW c \in Calls, Heard(c)
  PROVE  CallsSerial' /\ LogSerial'
<1>1. /\ ~Resting(c) /\ UNCHANGED session /\ op[c].at \in Listening
      /\ \A w \in Writes : appending[w] = NoEntry
  BY DEF Heard, Listening, ListenersWait, Resting
<1>2. /\ op'[c].at = AfterListening(c) /\ op'[c].failing = op[c].failing
      /\ op'[c].seen = IF At(c, "nextTurn") THEN Len(log) ELSE op[c].seen
      /\ \A d \in Calls \ {c} : op'[d] = op[d]
  BY DEF Heard, SInv, TInv, CallTypes, Standings
<1>3. CASE op[c].at \in InTurn
  <2>1. op'[c].seen = op[c].seen
    BY <1>2, <1>3 DEF At, InTurn
  <2>2. op'[c].at \notin {"moving", "moved"}
    BY <1>1, <1>2, StageAfterListening DEF SInv, TInv
  <2> QED
    BY <1>1, <1>2, <1>3, <2>1, <2>2, TurnSerial
<1>4. CASE op[c].at \notin InTurn
  <2>1. op'[c].at \in {"poll", "endFlush", "nextFlush", "cleanFlush"}
    BY <1>1, <1>2, <1>4, StageAfterListening DEF Listening, InTurn, At, SInv, TInv
  <2>2. op'[c].at = "poll" => op'[c].seen = Len(log)
    BY <1>1, <1>2, <1>4, StageAfterListening DEF Listening, InTurn, At, SInv, TInv
  <2>3. Stands(c)'
    BY <1>1, <2>1, <2>2 DEF Stands, InTurn, session
  <2> QED
    BY <1>1, <1>2, <2>3, UnsavedCall
<1> QED
  BY <1>3, <1>4

LEMMA FlushEndsSerial ==
  ASSUME SInv, NEW c \in Calls, FlushEnds(c)
  PROVE  CallsSerial' /\ LogSerial'
<1>1. ~Resting(c) /\ op[c].at # "agentEnd" /\ UNCHANGED session
  BY DEF FlushEnds, AfterFlush, Flushing, Resting
<1>2. \/ Throw(c)
      \/ \E stage \in {"savePoint", "nextTurn", "agentEnd"} : Go(c, stage)
      \/ op' = [op EXCEPT ![c] = Done]
  BY DEF FlushEnds, AfterFlush, End
<1>3. Stands(c)' /\ \A d \in Calls \ {c} : op'[d] = op[d]
  <2>1. CASE \E stage \in {"savePoint", "nextTurn", "agentEnd"} : Go(c, stage)
    <3>1. op'[c].at \in {"savePoint", "nextTurn", "agentEnd"} /\ \A d \in Calls \ {c} : op'[d] = op[d]
      BY <2>1, GoStays
    <3> QED
      BY <3>1 DEF Stands, InTurn
  <2> QED
    BY <1>2, <2>1, ThrowStands, EndStands
<1> QED
  BY <1>1, <1>3, UnsavedCall

LEMMA ListenerThrowsSerial ==
  ASSUME ~Overlap, SInv, NEW c \in Calls, ListenerThrows(c)
  PROVE  CallsSerial' /\ LogSerial'
<1>1. ~Resting(c) /\ UNCHANGED session /\ \A w \in Writes : appending[w] = NoEntry
  BY DEF ListenerThrows, Listening, ListenersWait, Resting
<1>2. CASE At(c, "turnEnd")
  <2>1. op'[c].at = "turnFlush" /\ \A d \in Calls \ {c} : op'[d] = op[d]
    BY <1>2 DEF ListenerThrows, SInv, TInv, CallTypes, Standings
  <2>2. Stands(c)'
    BY <2>1 DEF Stands, InTurn
  <2> QED
    BY <1>1, <2>1, <2>2, UnsavedCall
<1>3. CASE ~At(c, "turnEnd")
  <2>1. Throw(c)
    BY <1>3 DEF ListenerThrows
  <2> QED
    BY <1>1, <2>1, ThrowStands, UnsavedCall
<1> QED
  BY <1>2, <1>3

LEMMA MoveEndsSerial ==
  ASSUME SInv, NEW c \in Calls, MoveEnds(c)
  PROVE  CallsSerial' /\ LogSerial'
<1>1. ~Resting(c) /\ op[c].at # "agentEnd" /\ UNCHANGED session /\ op' = [op EXCEPT ![c] = Done]
  BY DEF MoveEnds, Resting
<1> QED
  BY <1>1, EndStands, UnsavedCall

\* Those that save an entry: the other threads save none.

LEMMA SavingCall ==
  ASSUME SInv, NEW c \in Calls, ~Resting(c), op[c].at # "agentEnd", LogSerial',
         \A t \in Threads : t # c => appending'[t] = appending[t],
         \A d \in Calls \ {c} : op'[d] = op[d],
         Stands(c)'
  PROVE  CallsSerial' /\ LogSerial'
<1>1. \A w \in Writes : appending'[w] = NoEntry
  BY Alone, Names DEF Threads
<1> QED
  BY <1>1, Alone, CallSerial

LEMMA BuildSerial ==
  ASSUME SInv, NEW c \in Calls, NEW what, Build(c, what), ~Resting(c), op[c].at # "agentEnd"
  PROVE  LogSerial' /\ \A t \in Threads : t # c => appending'[t] = appending[t]
<1> DEFINE e == [what |-> what, parent |-> leaf, leaf |-> Root]
<1>1. e.parent = leaf /\ appending' = [appending EXCEPT ![c] = e] /\ UNCHANGED <<log, leaf>>
  BY DEF Build
<1> HIDE DEF e
<1>2. \A t \in Threads : t # c => appending[t] = NoEntry
  BY Alone
<1> QED
  BY <1>1, <1>2, BuiltSerial DEF SInv, TInv, SessionTypes, Threads

LEMMA SaySerial ==
  ASSUME SInv, NEW c \in Calls, Say(c)
  PROVE  CallsSerial' /\ LogSerial'
<1>1. op[c].at = "say" /\ UNCHANGED <<op, log>> /\ Build(c, Head(op[c].todo))
  BY DEF Say, At, Build
<1>2. ~Resting(c)
  BY <1>1 DEF Resting
<1>3. Stands(c)'
  BY <1>1 DEF Stands, SInv, CallsSerial
<1> QED
  BY <1>1, <1>2, <1>3, BuildSerial, SavingCall

LEMMA SaidSerial ==
  ASSUME SInv, NEW c \in Calls, Said(c)
  PROVE  CallsSerial' /\ LogSerial'
<1>1. op[c].at = "say" /\ Land(c) /\ ~Resting(c)
  BY DEF Said, At, Resting
<1>2. LogSerial' /\ Len(log') = Len(log) + 1 /\ \A t \in Threads : t # c => appending'[t] = appending[t]
  BY <1>1, LandedSerial DEF Land, SInv, TInv, SessionTypes, Threads
<1>3. /\ op'[c].at = "said" /\ op'[c].seen = op[c].seen + 1 /\ op'[c].failing = op[c].failing
      /\ \A d \in Calls \ {c} : op'[d] = op[d]
  BY DEF Said, SInv, TInv, CallTypes, Standings
<1>4. Stands(c)'
  BY <1>1, <1>2, <1>3 DEF Stands, InTurn, SInv, CallsSerial
<1> QED
  BY <1>1, <1>2, <1>3, <1>4, SavingCall

LEMMA FlushSerial ==
  ASSUME SInv, NEW c \in Calls, Flush(c) \/ Flushed(c)
  PROVE  CallsSerial' /\ LogSerial'
<1>1. op[c].at \in Flushing /\ UNCHANGED op /\ ~Resting(c) /\ op[c].at # "agentEnd"
  BY DEF Flush, Flushed, Flushing, Resting
<1>2. LogSerial' /\ \A t \in Threads : t # c => appending'[t] = appending[t]
  <2>1. CASE Flush(c)
    BY <1>1, <2>1, BuildSerial DEF Flush
  <2>2. CASE Flushed(c)
    BY <2>2, LandedSerial DEF Flushed, Land, SInv, TInv, SessionTypes, Threads
  <2> QED
    BY <2>1, <2>2
<1>3. Stands(c)'
  BY <1>1 DEF Stands, InTurn, Flushing
<1> QED
  BY <1>1, <1>2, <1>3, SavingCall

LEMMA FailsSerial ==
  ASSUME SInv, NEW c \in Calls, WriteFails(c) \/ MoveFails(c)
  PROVE  CallsSerial' /\ LogSerial'
<1>1. Miss(c) /\ ~Resting(c) /\ op[c].at # "agentEnd"
  BY DEF WriteFails, MoveFails, Flushing, Resting
<1>2. LogSerial' /\ \A t \in Threads : t # c => appending'[t] = appending[t]
  BY <1>1, MissedSerial DEF Miss, SInv, TInv, SessionTypes, Threads
<1>3. Throw(c) \/ op' = [op EXCEPT ![c] = Done]
  BY DEF WriteFails, MoveFails, End
<1> QED
  BY <1>1, <1>2, <1>3, ThrowStands, EndStands, SavingCall

LEMMA SummarizeSerial ==
  ASSUME SInv, NEW c \in Calls, Summarize(c)
  PROVE  CallsSerial' /\ LogSerial'
<1>1. ~Resting(c) /\ op[c].at # "agentEnd" /\ Build(c, <<"summary", 0>>) /\ Go(c, "summarized")
  BY DEF Summarize, At, Resting
<1>2. Stands(c)'
  BY <1>1, GoStays DEF Stands, InTurn
<1> QED
  BY <1>1, <1>2, BuildSerial, GoStays, SavingCall

LEMMA SetLeafSerial ==
  ASSUME SInv, NEW c \in Calls, NEW target \in 0 .. Len(log), SetLeaf(c, target)
  PROVE  CallsSerial' /\ LogSerial'
<1> DEFINE e == [what |-> <<"leaf", 0>>, parent |-> leaf, leaf |-> target]
<1>1. /\ e.parent = leaf /\ IsLeaf(e) /\ e.leaf = target
      /\ appending' = [appending EXCEPT ![c] = e] /\ UNCHANGED <<log, leaf>>
  BY DEF SetLeaf, IsLeaf
<1> HIDE DEF e
<1>2. ~Resting(c) /\ op[c].at # "agentEnd"
  BY DEF SetLeaf, At, Resting
<1>3. LogSerial' /\ appending'[c] = e /\ \A t \in Threads : t # c => appending'[t] = appending[t]
  BY <1>1, <1>2, Alone, BuiltSerial DEF SInv, TInv, SessionTypes, Threads
<1>4. op'[c].at = "moving" /\ op'[c].target = target /\ \A d \in Calls \ {c} : op'[d] = op[d]
  BY DEF SetLeaf, SInv, TInv, CallTypes, Standings
<1>5. Stands(c)'
  BY <1>1, <1>3, <1>4 DEF Stands, InTurn, IsLeaf
<1> QED
  BY <1>2, <1>3, <1>4, <1>5, SavingCall

LEMMA SummarizeBranchSerial ==
  ASSUME SInv, NEW c \in Calls, SummarizeBranch(c)
  PROVE  CallsSerial' /\ LogSerial'
<1> DEFINE e == [what |-> <<"summary", 0>>, parent |-> op[c].target, leaf |-> Root]
<1>1. ~Resting(c) /\ op[c].at # "agentEnd" /\ Go(c, "summarized") /\ op[c].target = leaf
  BY DEF SummarizeBranch, At, Resting, SInv, CallsSerial, Stands
<1>2. /\ e.parent = leaf
      /\ appending' = [appending EXCEPT ![c] = e] /\ UNCHANGED <<log, leaf>>
  BY <1>1 DEF SummarizeBranch
<1> HIDE DEF e
<1>3. LogSerial' /\ \A t \in Threads : t # c => appending'[t] = appending[t]
  BY <1>1, <1>2, Alone, BuiltSerial DEF SInv, TInv, SessionTypes, Threads
<1>4. Stands(c)'
  BY <1>1, GoStays DEF Stands, InTurn
<1> QED
  BY <1>1, <1>3, <1>4, GoStays, SavingCall

LEMMA MoveLandsSerial ==
  ASSUME SInv, NEW c \in Calls, MoveLands(c)
  PROVE  CallsSerial' /\ LogSerial'
<1>1. Land(c) /\ ~Resting(c) /\ op[c].at # "agentEnd" /\ op[c].at \in {"moving", "summarized"}
  BY DEF MoveLands, Resting
<1>2. LogSerial' /\ \A t \in Threads : t # c => appending'[t] = appending[t]
  BY <1>1, LandedSerial DEF Land, SInv, TInv, SessionTypes, Threads
<1>3. CASE op[c].at = "moving"
  <2>1. Go(c, "moved")
    BY <1>3 DEF MoveLands, At
  <2>2. IsLeaf(appending[c]) /\ appending[c].leaf = op[c].target
    BY <1>3 DEF SInv, CallsSerial, Stands
  <2>3. leaf' = op[c].target
    BY <1>1, <2>2, LandedSerial DEF Threads
  <2>4. Stands(c)'
    BY <2>1, <2>3, GoStays DEF Stands, InTurn
  <2> QED
    BY <1>1, <1>2, <2>1, <2>4, GoStays, SavingCall
<1>4. CASE op[c].at = "summarized"
  <2>1. Go(c, "told")
    BY <1>4 DEF MoveLands, At
  <2>2. Stands(c)'
    BY <2>1, GoStays DEF Stands, InTurn
  <2> QED
    BY <1>1, <1>2, <2>1, <2>2, GoStays, SavingCall
<1> QED
  BY <1>1, <1>3, <1>4

\* What the host does.

LEMMA HostSerial ==
  ASSUME SInv, UNCHANGED session,
         \A c \in Calls : /\ op'[c].at = op[c].at /\ op'[c].target = op[c].target
                          /\ op'[c].seen = op[c].seen /\ op'[c].failing = op[c].failing
  PROVE  CallsSerial' /\ LogSerial'
<1>1. \A c \in Calls : Stands(c)'
  BY DEF SInv, CallsSerial, Stands, session
<1>2. OneCall' /\ WritesWait'
  BY DEF SInv, CallsSerial, OneCall, Resting, WritesWait, session
<1> QED
  BY <1>1, <1>2, UnsavedSerial DEF CallsSerial

LEMMA WriteNowSerial ==
  ASSUME ~Overlap, SInv, WriteNow
  PROVE  CallsSerial' /\ LogSerial'
<1> DEFINE e == [what |-> NextWrite, parent |-> leaf, leaf |-> Root]
<1>1. NextWrite \in Writes
  BY InputRoom, HarnessAssumption DEF WriteNow, NextWrite, Writes, SInv, TInv, InputTypes
<1>2. /\ Saved /\ \A c \in Calls : op[c].at \in {"ready", "done", "agentEnd"}
      /\ UNCHANGED <<op, log, leaf>>
      /\ appending' = [appending EXCEPT ![NextWrite] = e] /\ e.parent = leaf
  BY DEF WriteNow, Undisturbed, Build
<1> HIDE DEF e
<1>3. LogSerial'
  BY <1>1, <1>2, BuiltSerial DEF Saved, Threads
<1>4. OneCall' /\ WritesWait'
  BY <1>2 DEF SInv, CallsSerial, OneCall, Resting, WritesWait
<1>5. \A c \in Calls : Stands(c)'
  BY <1>2 DEF Stands, InTurn
<1> QED
  BY <1>3, <1>4, <1>5 DEF CallsSerial

LEMMA WrittenSerial ==
  ASSUME SInv, NEW w \in Writes, Written(w)
  PROVE  CallsSerial' /\ LogSerial'
<1>1. UNCHANGED op /\ (Land(w) \/ Miss(w)) /\ appending[w] # NoEntry
  BY DEF Written, Land, Miss
<1>2. LogSerial'
  BY <1>1, LandedSerial, MissedSerial DEF Threads
<1>3. \A c \in Calls : op[c].at \in {"ready", "done", "agentEnd"}
  BY <1>1 DEF SInv, CallsSerial, WritesWait
<1>4. OneCall' /\ WritesWait'
  BY <1>1, <1>3 DEF SInv, CallsSerial, OneCall, Resting, WritesWait
<1>5. \A c \in Calls : Stands(c)'
  BY <1>1, <1>3 DEF Stands, InTurn
<1> QED
  BY <1>2, <1>4, <1>5 DEF CallsSerial

LEMMA AbortSerial ==
  ASSUME SInv, NEW a \in Aborts, Abort(a)
  PROVE  CallsSerial' /\ LogSerial'
<1>1. UNCHANGED session
  BY DEF Abort
<1>2. ASSUME NEW c \in Calls
      PROVE  /\ op'[c].at = op[c].at /\ op'[c].target = op[c].target
             /\ op'[c].seen = op[c].seen /\ op'[c].failing = op[c].failing
  <2>1. op'[c] = [op[c] EXCEPT !.from = "gone"] /\ op[c] \in Standings
    BY DEF Abort, SInv, TInv, CallTypes
  <2> QED
    BY <2>1 DEF Standings
<1> QED
  BY <1>1, <1>2, HostSerial

-----------------------------------------------------------------------------

LEMMA InitSerial ==
  Init => CallsSerial /\ LogSerial
<1> SUFFICES ASSUME Init
             PROVE  CallsSerial /\ LogSerial
  OBVIOUS
<1>1. \A c \in Calls : op[c].at = "ready"
  BY FreshTypes DEF Init
<1>2. CallsSerial
  BY <1>1 DEF Init, CallsSerial, OneCall, Resting, WritesWait, Stands, InTurn, Threads
<1>3. LogSerial
  BY DEF Init, LogSerial, OneWrite, BranchIsWhole, LastLeaf, BuiltOnLeaf, Threads
<1> QED
  BY <1>2, <1>3

LEMMA StepSerial ==
  ASSUME ~Overlap, SInv, [Next]_vars
  PROVE  CallsSerial' /\ LogSerial'
<1>1. CASE UNCHANGED vars \/ QueueWrite \/ \E q \in Queues : Send(q)
  BY <1>1, HostSerial DEF vars, QueueWrite, Send
<1>2. ASSUME NEW c \in Calls, Prompt(c) \/ \E kind \in {"compaction", "branch_summary"} : Move(c, kind)
      PROVE  CallsSerial' /\ LogSerial'
  BY <1>2, BeginSerial
<1>3. ASSUME NEW c \in Calls, PromptStep(c)
      PROVE  CallsSerial' /\ LogSerial'
  BY <1>3, SnapshotSerial, AnnouncedSerial, StartSerial, SaySerial, SaidSerial, PollSerial,
     HeardSerial, StreamSerial, ExecuteSerial, FlushSerial, FlushEndsSerial DEF PromptStep
<1>4. ASSUME NEW c \in Calls, PromptFails(c) \/ MoveFails(c)
      PROVE  CallsSerial' /\ LogSerial'
  BY <1>4, StartFailsSerial, ListenerThrowsSerial, FailsSerial DEF PromptFails
<1>5. ASSUME NEW c \in Calls, MoveStep(c)
      PROVE  CallsSerial' /\ LogSerial'
  BY <1>5, SummarizeSerial, SetLeafSerial, SummarizeBranchSerial, MoveLandsSerial, MoveEndsSerial
     DEF MoveStep
<1>6. CASE WriteNow \/ \E w \in Writes : Written(w)
  BY <1>6, WriteNowSerial, WrittenSerial
<1>7. CASE \E a \in Aborts : Abort(a)
  BY <1>7, AbortSerial
<1>8. CASE \E a \in Aborts : AbortWaits(a) \/ AbortEnds(a)
  BY <1>8, HostSerial DEF AbortWaits, AbortEnds
<1> QED
  BY <1>1, <1>2, <1>3, <1>4, <1>5, <1>6, <1>7, <1>8 DEF Next

\* If callers await what they call, the session is one branch that nobody writes to
\* behind the back of a run (agent-harness.ts:488, :676): each entry follows the leaf
\* that the one before it left, and the context of a run stands for all of them.
THEOREM WritesAreSerial == ASSUME ~Overlap PROVE Spec => []SessionIsSerial
<1>1. ~Overlap
  OBVIOUS
<1>2. TInv /\ CallsSerial /\ LogSerial /\ [Next]_vars => CallsSerial' /\ LogSerial'
  BY <1>1, StepSerial DEF SInv
<1>3. CallsSerial /\ LogSerial => SessionIsSerial
  BY DEF CallsSerial, LogSerial, Stands, InTurn, SessionIsSerial, ContextIsSession
<1> QED
  BY <1>2, <1>3, InitSerial, TInvHolds, PTL DEF Spec

-----------------------------------------------------------------------------
(* Writes that wait: they are saved once, in their order.                   *)

\* Writes are numbered as they are requested.
Numbered ==
    /\ \A k \in DOMAIN asked : asked[k][2] <= writes
    /\ \A k, l \in DOMAIN asked : k < l => asked[k][2] < asked[l][2]
    /\ \A i \in DOMAIN log : log[i].what \in Writes => log[i].what[2] <= writes

\* What waits are the last of the writes that were queued; the ones before them
\* are saved, in the order in which they were queued.
WaitsLast ==
    /\ Len(pending) <= Len(asked)
    /\ \A i \in DOMAIN pending : pending[i] = asked[Len(asked) - Len(pending) + i]
SavedFirst ==
    /\ \A k \in DOMAIN asked :
         (\E i \in DOMAIN log : log[i].what = asked[k]) <=> k <= Len(asked) - Len(pending)
    /\ \A k, l \in DOMAIN asked : \A i, j \in DOMAIN log :
         log[i].what = asked[k] /\ log[j].what = asked[l] /\ i < j => k < l

\* A call saves a write only when it flushes, and then the first that waits; a
\* write that is saved at once is one that was never queued.
SaysNoWrite(c) == \A i \in DOMAIN op[c].todo : op[c].todo[i] \notin Writes
SavesHead(c) ==
    appending[c] # NoEntry =>
        IF op[c].at \in Flushing THEN pending # <<>> /\ appending[c].what = pending[1]
        ELSE appending[c].what \notin Writes
SavesItself(w) ==
    appending[w] # NoEntry =>
        /\ appending[w].what = w /\ w[2] <= writes
        /\ \A k \in DOMAIN asked : asked[k] # w

\* Somebody is under way while the harness is busy and while something waits that
\* nobody has left behind; who ends without an error leaves the harness idle.
Tended ==
    /\ phase # "idle" \/ (pending # <<>> /\ ~stranded) => \E c \in Calls : ~Resting(c)
    /\ \A c \in Calls :
         op[c].at = "agentEnd" \/ (op[c].at = "cleanFlush" /\ ~op[c].error) => phase = "idle"

Record == Numbered /\ WaitsLast /\ SavedFirst
Savers == (\A c \in Calls : SaysNoWrite(c) /\ SavesHead(c)) /\ \A w \in Writes : SavesItself(w)

PInv == Record /\ Savers /\ Tended

LEMMA WritesAre ==
  ASSUME NEW w \in Writes
  PROVE  w = <<"write", w[2]>> /\ w[2] \in 1 .. MaxInputs
BY DEF Writes

\* What else is saved is not a write.
LEMMA OthersAreNot ==
  /\ \A c \in Calls : c \notin Writes
  /\ \A m \in Texts : m \notin Writes
  /\ Reply \notin Writes /\ Result \notin Writes
  /\ <<"summary", 0>> \notin Writes /\ <<"leaf", 0>> \notin Writes
BY DEF Calls, Texts, Writes, Reply, Result

LEMMA AskedApart ==
  ASSUME TInv, Numbered, NEW k \in DOMAIN asked, NEW l \in DOMAIN asked, asked[k] = asked[l]
  PROVE  k = l
<1>1. k \in Nat /\ l \in Nat /\ asked[k] \in Writes /\ asked[l] \in Writes
  BY DEF TInv, InputTypes
<1>2. asked[k][2] \in Nat
  BY <1>1, WritesAre, HarnessAssumption
<1>3. ~ (k < l) /\ ~ (l < k)
  BY <1>2 DEF Numbered
<1> QED
  BY <1>1, <1>3

-----------------------------------------------------------------------------
\* What an entry that is saved does to the record.

LEMMA LandsAs ==
  ASSUME TInv, NEW t \in Threads, Land(t)
  PROVE  /\ Len(log') = Len(log) + 1 /\ Len(log) \in Nat
         /\ DOMAIN log = 1 .. Len(log) /\ DOMAIN log' = 1 .. Len(log) + 1
         /\ \A i \in 1 .. Len(log) : log'[i] = log[i]
         /\ log'[Len(log) + 1].what = appending[t].what
<1> DEFINE e == [appending[t] EXCEPT !.leaf = leaf']
<1>1. log \in Seq(Entries) /\ appending[t] \in Entries
  BY DEF TInv, SessionTypes
<1>2. log' = Append(log, e) /\ e.what = appending[t].what
  BY <1>1 DEF Land, Entries
<1> HIDE DEF e
<1> QED
  BY <1>1, <1>2

\* It was not queued.
LEMMA LandsApart ==
  ASSUME TInv, Record, NEW t \in Threads, Land(t), UNCHANGED <<asked, pending, writes>>,
         \A k \in DOMAIN asked : asked[k] # appending[t].what,
         appending[t].what \in Writes => appending[t].what[2] <= writes
  PROVE  Record'
<1> DEFINE n == Len(log) + 1
<1>1. /\ Len(log) \in Nat /\ DOMAIN log = 1 .. Len(log) /\ DOMAIN log' = 1 .. n
      /\ \A i \in 1 .. Len(log) : log'[i] = log[i]
      /\ log'[n].what = appending[t].what
  BY LandsAs
<1>2. \A i \in 1 .. n : i \in 1 .. Len(log) \/ i = n
  BY <1>1
<1>3. 1 .. Len(log) \subseteq 1 .. n
  BY <1>1
<1> HIDE DEF n
<1>4. Numbered'
  BY <1>1, <1>2 DEF Record, Numbered
<1>5. WaitsLast'
  BY DEF Record, WaitsLast
<1>6. \A k \in DOMAIN asked : \A i \in DOMAIN log' :
        log'[i].what = asked[k] => i \in DOMAIN log /\ log[i].what = asked[k]
  BY <1>1, <1>2
<1>7. \A k \in DOMAIN asked : (\E i \in DOMAIN log' : log'[i].what = asked[k])
                         <=> \E i \in DOMAIN log : log[i].what = asked[k]
  BY <1>1, <1>3, <1>6
<1>8. SavedFirst'
  BY <1>6, <1>7 DEF Record, SavedFirst
<1> QED
  BY <1>4, <1>5, <1>8 DEF Record

\* It was the first that waited.
LEMMA LandsHead ==
  ASSUME TInv, Record, NEW t \in Threads, Land(t), UNCHANGED <<asked, writes>>,
         pending # <<>>, appending[t].what = pending[1], pending' = Tail(pending)
  PROVE  Record'
<1> DEFINE n == Len(log) + 1
           m == Len(asked) - Len(pending)
<1>1. /\ Len(log) \in Nat /\ DOMAIN log = 1 .. Len(log) /\ DOMAIN log' = 1 .. n
      /\ \A i \in 1 .. Len(log) : log'[i] = log[i]
      /\ log'[n].what = pending[1]
  BY LandsAs
<1>2. (\A i \in 1 .. n : i \in 1 .. Len(log) \/ i = n) /\ 1 .. Len(log) \subseteq 1 .. n
      /\ n \in 1 .. n /\ \A i \in 1 .. Len(log) : i < n
  BY <1>1
<1>3. /\ pending \in Seq(Writes) /\ asked \in Seq(Writes) /\ Len(pending) \in Nat \ {0}
      /\ Len(asked) \in Nat /\ DOMAIN asked = 1 .. Len(asked) /\ DOMAIN pending = 1 .. Len(pending)
  BY DEF TInv, InputTypes
<1>4. /\ Len(pending') = Len(pending) - 1 /\ DOMAIN pending' = 1 .. Len(pending) - 1
      /\ \A i \in 1 .. Len(pending) - 1 : pending'[i] = pending[i + 1]
  BY <1>3
<1>5. m \in Nat /\ m + 1 \in DOMAIN asked /\ Len(asked') - Len(pending') = m + 1
      /\ pending[1] = asked[m + 1] /\ pending[1] \in Writes /\ 1 \in DOMAIN pending
  BY <1>3, <1>4 DEF Record, WaitsLast
<1>6. Numbered'
  <2>1. pending[1][2] <= writes
    BY <1>5 DEF Record, Numbered
  <2> HIDE DEF n, m
  <2> QED
    BY <1>1, <1>2, <2>1 DEF Record, Numbered
<1>7. WaitsLast'
  <2>1. ASSUME NEW i \in 1 .. Len(pending) - 1 PROVE pending'[i] = asked[(m + 1) + i]
    <3>1. i + 1 \in DOMAIN pending /\ m + (i + 1) = (m + 1) + i
      BY <1>3, <1>5
    <3> QED
      BY <1>4, <3>1 DEF Record, WaitsLast
  <2> QED
    BY <1>3, <1>4, <1>5, <2>1 DEF Record, WaitsLast
<1>8. \A k \in DOMAIN asked : asked[k] = asked[m + 1] => k = m + 1
  BY <1>5, AskedApart DEF Record
<1>9. \A k \in DOMAIN asked : \A i \in DOMAIN log : log[i].what = asked[k] => k <= m
  BY DEF Record, SavedFirst
<1>10. \A k \in DOMAIN asked : k <= m + 1 <=> k <= m \/ k = m + 1
  BY <1>3, <1>5
<1>11. \A k \in DOMAIN asked : \A i \in DOMAIN log' :
         log'[i].what = asked[k] =>
             (i \in DOMAIN log /\ log[i].what = asked[k] /\ k <= m) \/ (i = n /\ k = m + 1)
  <2> HIDE DEF n, m
  <2> QED
    BY <1>1, <1>2, <1>5, <1>8, <1>9
<1>12. \A k \in DOMAIN asked :
         k <= m + 1 => \E i \in DOMAIN log' : log'[i].what = asked[k]
  <2>1. \A k \in DOMAIN asked : k <= m => \E i \in DOMAIN log : log[i].what = asked[k]
    BY DEF Record, SavedFirst
  <2> HIDE DEF n, m
  <2>2. ASSUME NEW k \in DOMAIN asked, k <= m PROVE \E i \in DOMAIN log' : log'[i].what = asked[k]
    <3>1. PICK i \in DOMAIN log : log[i].what = asked[k]
      BY <2>1, <2>2
    <3>2. i \in DOMAIN log' /\ log'[i].what = asked[k]
      BY <1>1, <1>2, <3>1
    <3> QED
      BY <3>2
  <2>3. n \in DOMAIN log' /\ log'[n].what = asked[m + 1]
    BY <1>1, <1>2, <1>5
  <2> QED
    BY <1>10, <2>2, <2>3
<1>13. SavedFirst'
  <2>1. \A k \in DOMAIN asked :
          (\E i \in DOMAIN log' : log'[i].what = asked[k]) <=> k <= m + 1
    <3> HIDE DEF n, m
    <3> QED
      BY <1>10, <1>11, <1>12
  <2>2. ASSUME NEW k \in DOMAIN asked, NEW l \in DOMAIN asked,
               NEW i \in DOMAIN log', NEW j \in DOMAIN log',
               log'[i].what = asked[k], log'[j].what = asked[l], i < j
        PROVE  k < l
    <3>1. i \in DOMAIN log /\ log[i].what = asked[k] /\ k <= m
      <4>1. i # n
        BY <1>1, <1>2, <2>2
      <4> QED
        BY <1>11, <2>2, <4>1
    <3>2. CASE j \in DOMAIN log /\ log[j].what = asked[l]
      BY <2>2, <3>1, <3>2 DEF Record, SavedFirst
    <3>3. CASE l = m + 1
      BY <1>3, <1>5, <3>1, <3>3
    <3> QED
      BY <1>11, <2>2, <3>2, <3>3
  <2> QED
    BY <1>5, <2>1, <2>2 DEF SavedFirst
<1> QED
  BY <1>6, <1>7, <1>13 DEF Record

\* A write is queued.
LEMMA AsksLast ==
  ASSUME TInv, Record, NEW w \in Writes, w[2] = writes + 1, writes' = writes + 1, UNCHANGED log,
         pending' = Append(pending, w), asked' = Append(asked, w)
  PROVE  Record'
<1> DEFINE a == Len(asked)
           p == Len(pending)
<1>1. /\ pending \in Seq(Writes) /\ asked \in Seq(Writes) /\ writes \in Nat
      /\ a \in Nat /\ p \in Nat /\ DOMAIN asked = 1 .. a /\ DOMAIN pending = 1 .. p
  BY HarnessAssumption DEF TInv, InputTypes
<1>2. /\ Len(asked') = a + 1 /\ DOMAIN asked' = 1 .. a + 1 /\ asked'[a + 1] = w
      /\ \A k \in 1 .. a : asked'[k] = asked[k]
  BY <1>1
<1>3. /\ Len(pending') = p + 1 /\ DOMAIN pending' = 1 .. p + 1 /\ pending'[p + 1] = w
      /\ \A k \in 1 .. p : pending'[k] = pending[k]
  BY <1>1
<1>4. /\ \A k \in 1 .. a + 1 : k \in 1 .. a \/ k = a + 1
      /\ \A k \in 1 .. p + 1 : k \in 1 .. p \/ k = p + 1
      /\ Len(asked') - Len(pending') = a - p
      /\ p <= a /\ p + 1 <= a + 1 /\ ~ (a + 1 <= a - p) /\ \A k \in 1 .. a : ~ (a + 1 < k)
  BY <1>1, <1>2, <1>3 DEF Record, WaitsLast
<1>5. \A i \in DOMAIN log : log[i].what # w
  BY <1>1 DEF Record, Numbered
<1>6. Numbered'
  <2>1. /\ \A k \in 1 .. a : asked[k][2] <= writes /\ asked[k] \in Writes
        /\ \A k, l \in 1 .. a : k < l => asked[k][2] < asked[l][2]
        /\ \A i \in DOMAIN log : log[i].what \in Writes => log[i].what[2] <= writes
    <3>1. Numbered
      BY DEF Record
    <3>2. \A k \in 1 .. a : asked[k] \in Writes
      BY <1>1
    <3> QED
      BY <1>1, <3>1, <3>2 DEF Numbered
  <2>2. \A v \in Writes : v[2] \in Nat
    BY WritesAre, HarnessAssumption
  <2>3. ASSUME NEW k \in 1 .. a + 1 PROVE asked'[k][2] <= writes + 1
    BY <1>1, <1>2, <1>4, <2>1, <2>2
  <2>4. ASSUME NEW k \in 1 .. a + 1, NEW l \in 1 .. a + 1, k < l
        PROVE  asked'[k][2] < asked'[l][2]
    <3>1. k \in 1 .. a
      BY <1>1, <2>4
    <3>2. CASE l = a + 1
      <4>1. asked'[k] = asked[k] /\ asked'[l] = w /\ asked[k][2] \in Nat /\ asked[k][2] <= writes
        BY <1>2, <2>1, <2>2, <3>1, <3>2
      <4> QED
        BY <1>1, <4>1
    <3>3. CASE l \in 1 .. a
      BY <1>2, <2>1, <2>4, <3>1, <3>3
    <3> QED
      BY <1>4, <3>2, <3>3
  <2>5. \A i \in DOMAIN log : log[i].what \in Writes => log[i].what[2] <= writes + 1
    BY <1>1, <2>1, <2>2
  <2> QED
    BY <1>2, <2>3, <2>4, <2>5 DEF Numbered
<1>7. WaitsLast'
  <2>1. ASSUME NEW i \in 1 .. p + 1 PROVE pending'[i] = asked'[(a - p) + i]
    <3>1. CASE i = p + 1
      BY <1>1, <1>2, <1>3, <3>1
    <3>2. CASE i \in 1 .. p
      <4>1. (a - p) + i \in 1 .. a
        BY <1>1, <1>4, <3>2
      <4> QED
        BY <1>1, <1>2, <1>3, <3>2, <4>1 DEF Record, WaitsLast
    <3> QED
      BY <1>4, <3>1, <3>2
  <2> QED
    BY <1>2, <1>3, <1>4, <2>1 DEF WaitsLast
<1>8. SavedFirst'
  <2>1. \A k \in 1 .. a + 1 : \A i \in DOMAIN log :
          log[i].what = asked'[k] => k \in 1 .. a /\ log[i].what = asked[k]
    BY <1>2, <1>4, <1>5
  <2>2. \A k \in 1 .. a : (\E i \in DOMAIN log : log[i].what = asked'[k]) <=> k <= a - p
    BY <1>1, <1>2 DEF Record, SavedFirst
  <2>3. \A k \in 1 .. a + 1 : (\E i \in DOMAIN log : log[i].what = asked'[k]) <=> k <= a - p
    BY <1>2, <1>4, <1>5, <2>2
  <2>4. \A k, l \in 1 .. a + 1 : \A i, j \in DOMAIN log :
          log[i].what = asked'[k] /\ log[j].what = asked'[l] /\ i < j => k < l
    BY <1>1, <2>1 DEF Record, SavedFirst
  <2> QED
    BY <1>2, <1>4, <2>3, <2>4, SMTT(30) DEF SavedFirst
<1> QED
  BY <1>6, <1>7, <1>8 DEF Record

-----------------------------------------------------------------------------
(* What keeps PInv.                                                         *)

LEMMA RecordStays ==
  ASSUME Record, UNCHANGED <<log, asked, pending, writes>>
  PROVE  Record'
BY DEF Record, Numbered, WaitsLast, SavedFirst

\* A call alone is under way, and goes on.
LEMMA CallRecords ==
  ASSUME SInv, PInv, NEW c \in Calls, \A d \in Calls \ {c} : Resting(d) /\ op'[d] = op[d],
         \A t \in Threads \ {c} : appending'[t] = appending[t],
         UNCHANGED <<asked, writes>>, Record', SaysNoWrite(c)', SavesHead(c)',
         op'[c].at = "agentEnd" \/ (op'[c].at = "cleanFlush" /\ ~op'[c].error) => phase' = "idle",
         phase' # "idle" \/ (pending' # <<>> /\ ~stranded') => ~Resting(c)'
  PROVE  PInv'
<1>1. ASSUME NEW d \in Calls \ {c}
      PROVE  SaysNoWrite(d)' /\ SavesHead(d)' /\ op'[d].at \notin {"agentEnd", "cleanFlush"}
  <2>1. op'[d] = op[d] /\ appending'[d] = NoEntry /\ op[d].at \in {"ready", "done"}
    BY DEF Threads, SInv, TInv, CallTypes, Ready, Resting, Saving, Flushing
  <2> QED
    BY <2>1 DEF PInv, Savers, SaysNoWrite, SavesHead
<1>2. ASSUME NEW w \in Writes PROVE SavesItself(w)'
  <2>1. w \in Threads \ {c}
    BY OthersAreNot DEF Threads
  <2> QED
    BY <2>1 DEF PInv, Savers, SavesItself
<1>3. Savers'
  BY <1>1, <1>2 DEF Savers
<1>4. Tended'
  BY <1>1 DEF Tended
<1> QED
  BY <1>3, <1>4 DEF PInv

\* It does not touch the session.
LEMMA UnsavedRecords ==
  ASSUME SInv, PInv, NEW c \in Calls, \A d \in Calls \ {c} : Resting(d) /\ op'[d] = op[d],
         UNCHANGED <<log, appending, asked, pending, writes>>, appending[c] = NoEntry,
         SaysNoWrite(c)',
         op'[c].at = "agentEnd" \/ (op'[c].at = "cleanFlush" /\ ~op'[c].error) => phase' = "idle",
         phase' # "idle" \/ (pending' # <<>> /\ ~stranded') => ~Resting(c)'
  PROVE  PInv'
<1>1. Record'
  BY RecordStays DEF PInv
<1>2. SavesHead(c)'
  BY DEF SavesHead
<1>3. \A t \in Threads \ {c} : appending'[t] = appending[t]
  OBVIOUS
<1> QED
  BY <1>1, <1>2, <1>3, CallRecords

\* A call that goes on to another stage, with what it has in its hands.
LEMMA SameHands ==
  ASSUME PInv, NEW c \in Calls, op'[c].todo = op[c].todo
  PROVE  SaysNoWrite(c)'
BY DEF PInv, Savers, SaysNoWrite

LEMMA NewHands ==
  ASSUME NEW c \in Calls, op'[c].todo \in {<<>>, <<Reply>>, <<Result>>} \cup Seq(Texts)
  PROVE  SaysNoWrite(c)'
<1>1. CASE op'[c].todo = <<>>
  BY <1>1 DEF SaysNoWrite
<1>2. CASE op'[c].todo = <<Reply>> \/ op'[c].todo = <<Result>>
  BY <1>2, OthersAreNot DEF SaysNoWrite
<1>3. CASE op'[c].todo \in Seq(Texts)
  BY <1>3, OthersAreNot DEF SaysNoWrite
<1> QED
  BY <1>1, <1>2, <1>3

LEMMA ThrowHands ==
  ASSUME SInv, NEW c \in Calls, Throw(c)
  PROVE  /\ SaysNoWrite(c)' /\ \A d \in Calls \ {c} : op'[d] = op[d]
         /\ op'[c].at \in {"say", "cleanFlush"} /\ (op'[c].at = "cleanFlush" => op'[c].error)
         /\ ~Resting(c)'
<1>1. CASE op[c].failing
  <2> DEFINE r == [Fresh EXCEPT !.at = "cleanFlush", !.error = TRUE]
  <2>1. op' = [op EXCEPT ![c] = r] /\ r.at = "cleanFlush" /\ r.error /\ r.todo = <<>>
    BY <1>1 DEF Throw, Fresh
  <2> HIDE DEF r
  <2>2. /\ op'[c].at = "cleanFlush" /\ op'[c].error /\ op'[c].todo = <<>>
        /\ \A d \in Calls \ {c} : op'[d] = op[d]
    BY <2>1, OthersStay
  <2> QED
    BY <2>2, NewHands DEF Resting
<1>2. CASE ~op[c].failing
  <2> DEFINE r == [Fresh EXCEPT !.at = "say", !.todo = <<Reply>>, !.then = "turnEnd",
                                !.ending = TRUE, !.failing = TRUE]
  <2>1. op' = [op EXCEPT ![c] = r] /\ r.at = "say" /\ r.todo = <<Reply>>
    BY <1>2 DEF Throw, Fresh
  <2> HIDE DEF r
  <2>2. op'[c].at = "say" /\ op'[c].todo = <<Reply>> /\ \A d \in Calls \ {c} : op'[d] = op[d]
    BY <2>1, OthersStay
  <2> QED
    BY <2>2, NewHands DEF Resting
<1> QED
  BY <1>1, <1>2

LEMMA DoneHands ==
  ASSUME SInv, NEW c \in Calls, op' = [op EXCEPT ![c] = Done]
  PROVE  SaysNoWrite(c)' /\ op'[c].at = "done" /\ \A d \in Calls \ {c} : op'[d] = op[d]
<1>1. Done.at = "done" /\ Done.todo = <<>>
  BY DEF Done, Fresh
<1>2. op'[c] = Done /\ \A d \in Calls \ {c} : op'[d] = op[d]
  BY OthersStay
<1> QED
  BY <1>1, <1>2, NewHands

LEMMA GoHands ==
  ASSUME SInv, PInv, NEW c \in Calls, NEW stage, Go(c, stage)
  PROVE  SaysNoWrite(c)' /\ op'[c].at = stage /\ \A d \in Calls \ {c} : op'[d] = op[d]
<1>1. op'[c].todo = op[c].todo /\ op'[c].at = stage /\ \A d \in Calls \ {c} : op'[d] = op[d]
  BY DEF SInv, TInv, CallTypes, Standings, Go
<1> QED
  BY <1>1, SameHands

\* A call that ends leaves the harness idle, and says so if it leaves writes behind.
LEMMA EndsRecord ==
  ASSUME SInv, PInv, NEW c \in Calls, ~Resting(c), op' = [op EXCEPT ![c] = Done],
         UNCHANGED <<log, asked, pending, writes>>, phase' = "idle",
         \A t \in Threads \ {c} : appending'[t] = appending[t], appending'[c] = NoEntry,
         stranded' \/ pending = <<>>
  PROVE  PInv'
<1>1. Record'
  BY RecordStays DEF PInv
<1>2. SavesHead(c)'
  BY DEF SavesHead
<1> QED
  BY <1>1, <1>2, Alone, DoneHands, CallRecords

\* A call that moves on inside its operation.
LEMMA MovesRecord ==
  ASSUME SInv, PInv, NEW c \in Calls, ~Resting(c), op[c].at \notin Saving,
         UNCHANGED <<session, pending, asked, writes, phase, stranded>>,
         \A d \in Calls \ {c} : op'[d] = op[d], SaysNoWrite(c)',
         op'[c].at \notin {"agentEnd", "cleanFlush", "ready", "done"}
  PROVE  PInv'
<1>1. appending[c] = NoEntry
  BY DEF SInv, TInv, CallTypes, Ready
<1>2. ~Resting(c)'
  BY DEF Resting
<1> QED
  BY <1>1, <1>2, Alone, UnsavedRecords DEF session

-----------------------------------------------------------------------------
(* The steps of calls.                                                      *)

LEMMA BeginRecords ==
  ASSUME ~Overlap, SInv, PInv, NEW c \in Calls,
         Prompt(c) \/ \E kind \in {"compaction", "branch_summary"} : Move(c, kind)
  PROVE  PInv'
<1>1. Quiet /\ UNCHANGED <<log, appending, asked, pending, writes>>
  BY DEF Prompt, Move, Begin, session, inputs
<1>2. PICK stage \in {"snapshot", "compaction", "branch_summary"} : Go(c, stage)
  BY DEF Prompt, Move
<1>3. SaysNoWrite(c)' /\ op'[c].at = stage /\ \A d \in Calls \ {c} : op'[d] = op[d]
  BY <1>2, GoHands
<1>4. appending[c] = NoEntry /\ \A d \in Calls : Resting(d)
  BY <1>1 DEF Quiet, Saved, Resting, Threads
<1>5. ~Resting(c)'
  BY <1>3 DEF Resting
<1> QED
  BY <1>1, <1>3, <1>4, <1>5, UnsavedRecords

LEMMA SnapshotRecords ==
  ASSUME SInv, PInv, NEW c \in Calls, Snapshot(c)
  PROVE  PInv'
<1>1. ~Resting(c) /\ op[c].at \notin Saving
      /\ UNCHANGED <<session, pending, asked, writes, phase, stranded>>
  BY DEF Snapshot, At, Resting, Saving, Flushing
<1>2. /\ op'[c].at \in {"hook", "announce"} /\ op'[c].todo = Append(queue["nextTurn"], c)
      /\ \A d \in Calls \ {c} : op'[d] = op[d]
  BY DEF Snapshot, SInv, TInv, CallTypes, Standings
<1>3. SaysNoWrite(c)'
  <2> DEFINE s == queue["nextTurn"]
  <2>1. s \in Seq(Texts)
    BY DEF SInv, TInv, InputTypes, Queues
  <2> HIDE DEF s
  <2>2. ASSUME NEW i \in DOMAIN Append(s, c) PROVE Append(s, c)[i] \notin Writes
    <3>1. Append(s, c)[i] = c \/ Append(s, c)[i] \in Texts
      BY <2>1
    <3> QED
      BY <3>1, OthersAreNot
  <2> QED
    BY <1>2, <2>2 DEF SaysNoWrite, s
<1> QED
  BY <1>1, <1>2, <1>3, MovesRecord

LEMMA AnnouncedRecords ==
  ASSUME SInv, PInv, NEW c \in Calls, Announced(c)
  PROVE  PInv'
<1>1. ~Resting(c) /\ op[c].at \notin Saving /\ Go(c, "hook")
      /\ UNCHANGED <<session, pending, asked, writes, phase, stranded>>
  BY DEF Announced, At, Resting, Saving, Flushing, inputs
<1> QED
  BY <1>1, GoHands, MovesRecord

LEMMA StartRecords ==
  ASSUME SInv, PInv, NEW c \in Calls, Start(c)
  PROVE  PInv'
<1>1. ~Resting(c) /\ op[c].at \notin Saving
      /\ UNCHANGED <<session, pending, asked, writes, phase, stranded>>
  BY DEF Start, At, Resting, Saving, Flushing, inputs
<1>2. /\ op'[c].at = "say" /\ op'[c].todo = op[c].todo /\ \A d \in Calls \ {c} : op'[d] = op[d]
  BY DEF Start, SInv, TInv, CallTypes, Standings
<1> QED
  BY <1>1, <1>2, SameHands, MovesRecord

LEMMA StartFailsRecords ==
  ASSUME SInv, PInv, NEW c \in Calls, StartFails(c)
  PROVE  PInv'
<1>1. /\ ~Resting(c) /\ appending[c] = NoEntry /\ op' = [op EXCEPT ![c] = Done]
      /\ UNCHANGED <<log, appending, asked, pending, writes>> /\ phase' = "idle"
      /\ stranded' = (stranded \/ pending # <<>>)
  BY DEF StartFails, End, Resting, session, SInv, TInv, CallTypes, Ready, Saving, Flushing
<1> QED
  BY <1>1, EndsRecord

LEMMA PollRecords ==
  ASSUME SInv, PInv, NEW c \in Calls, Poll(c)
  PROVE  PInv'
<1>1. ~Resting(c) /\ op[c].at \notin Saving
      /\ UNCHANGED <<session, pending, asked, writes, phase, stranded>>
  BY DEF Poll, At, Resting, Saving, Flushing
<1>2. PICK q \in Queues, empty \in {"stream", "pollLast", "endFlush"} : Drain(c, q, empty)
  BY DEF Poll, Queues
<1>3. CASE queue[q] = <<>>
  <2>1. Go(c, empty)
    BY <1>2, <1>3 DEF Drain
  <2> QED
    BY <1>1, <2>1, GoHands, MovesRecord
<1>4. CASE queue[q] # <<>>
  <2>1. /\ op'[c].at = "drained" /\ op'[c].todo = <<Head(queue[q])>>
        /\ \A d \in Calls \ {c} : op'[d] = op[d]
    BY <1>2, <1>4 DEF Drain, SInv, TInv, CallTypes, Standings
  <2>2. <<Head(queue[q])>> \in Seq(Texts)
    BY <1>4 DEF SInv, TInv, InputTypes
  <2> QED
    BY <1>1, <2>1, <2>2, NewHands, MovesRecord
<1> QED
  BY <1>3, <1>4

LEMMA StreamRecords ==
  ASSUME SInv, PInv, NEW c \in Calls, NEW what \in {"answer", "calls", "failed"}, Stream(c, what)
  PROVE  PInv'
<1>1. ~Resting(c) /\ op[c].at \notin Saving
      /\ UNCHANGED <<session, pending, asked, writes, phase, stranded>>
  BY DEF Stream, At, Resting, Saving, Flushing, inputs
<1>2. op'[c].at = "say" /\ op'[c].todo = <<Reply>> /\ \A d \in Calls \ {c} : op'[d] = op[d]
  BY DEF Stream, SInv, TInv, CallTypes, Standings
<1> QED
  BY <1>1, <1>2, NewHands, MovesRecord

LEMMA ExecuteRecords ==
  ASSUME SInv, PInv, NEW c \in Calls, NEW more \in BOOLEAN, Execute(c, more)
  PROVE  PInv'
<1>1. ~Resting(c) /\ op[c].at \notin Saving
      /\ UNCHANGED <<session, pending, asked, writes, phase, stranded>>
  BY DEF Execute, At, Resting, Saving, Flushing, inputs
<1>2. op'[c].at = "say" /\ op'[c].todo = <<Result>> /\ \A d \in Calls \ {c} : op'[d] = op[d]
  BY DEF Execute, SInv, TInv, CallTypes, Standings
<1> QED
  BY <1>1, <1>2, NewHands, MovesRecord

LEMMA HeardRecords ==
  ASSUME SInv, PInv, NEW c \in Calls, Heard(c)
  PROVE  PInv'
<1>1. /\ ~Resting(c) /\ op[c].at \notin Saving /\ op[c].at \in Listening
      /\ UNCHANGED <<session, pending, asked, writes, phase, stranded>>
  BY DEF Heard, Listening, Resting, Saving, Flushing, inputs
<1>2. /\ op'[c].at = AfterListening(c) /\ op'[c].todo = op[c].todo /\ op'[c].error = op[c].error
      /\ \A d \in Calls \ {c} : op'[d] = op[d]
  BY DEF Heard, SInv, TInv, CallTypes, Standings
<1>3. SaysNoWrite(c)'
  BY <1>2, SameHands
<1>4. CASE At(c, "agentEnd")
  <2>1. phase = "idle" /\ op'[c].at = "cleanFlush"
    BY <1>2, <1>4 DEF PInv, Tended, AfterListening, At
  <2>2. appending[c] = NoEntry
    BY <1>1 DEF SInv, TInv, CallTypes, Ready
  <2>3. ~Resting(c)'
    BY <2>1 DEF Resting
  <2> QED
    BY <1>1, <1>2, <1>3, <2>1, <2>2, <2>3, Alone, UnsavedRecords DEF session
<1>5. CASE ~At(c, "agentEnd")
  <2>1. op'[c].at \notin {"agentEnd", "cleanFlush", "ready", "done"}
    BY <1>1, <1>2, <1>5 DEF AfterListening, Listening, At, SInv, TInv, CallTypes, Ready
  <2> QED
    BY <1>1, <1>2, <1>3, <2>1, MovesRecord
<1> QED
  BY <1>4, <1>5

LEMMA FlushEndsRecords ==
  ASSUME SInv, PInv, NEW c \in Calls, FlushEnds(c)
  PROVE  PInv'
<1>1. /\ ~Resting(c) /\ op[c].at # "agentEnd" /\ appending[c] = NoEntry /\ pending = <<>>
      /\ UNCHANGED <<log, appending, asked, pending, writes>>
  BY DEF FlushEnds, AfterFlush, Flushing, Resting, session, inputs
<1>2. \A d \in Calls \ {c} : Resting(d)
  BY <1>1, Alone
<1>3. CASE Throw(c)
  BY <1>1, <1>2, <1>3, ThrowHands, UnsavedRecords
<1>4. CASE \E stage \in {"savePoint", "nextTurn"} : Go(c, stage)
  <2>1. /\ SaysNoWrite(c)' /\ op'[c].at \in {"savePoint", "nextTurn"}
        /\ \A d \in Calls \ {c} : op'[d] = op[d]
    BY <1>4, GoHands
  <2>2. ~Resting(c)'
    BY <2>1 DEF Resting
  <2> QED
    BY <1>1, <1>2, <2>1, <2>2, UnsavedRecords
<1>5. CASE Go(c, "agentEnd") /\ phase' = "idle"
  <2>1. SaysNoWrite(c)' /\ op'[c].at = "agentEnd" /\ \A d \in Calls \ {c} : op'[d] = op[d]
    BY <1>5, GoHands
  <2>2. ~Resting(c)'
    BY <2>1 DEF Resting
  <2> QED
    BY <1>1, <1>2, <1>5, <2>1, <2>2, UnsavedRecords
<1>6. CASE At(c, "cleanFlush") /\ End(c, op[c].error)
  <2>1. phase' = "idle" /\ op' = [op EXCEPT ![c] = Done]
    BY <1>6 DEF End, At, PInv, Tended
  <2> QED
    BY <1>1, <2>1, EndsRecord
<1> QED
  BY <1>3, <1>4, <1>5, <1>6 DEF FlushEnds, AfterFlush

LEMMA ListenerThrowsRecords ==
  ASSUME SInv, PInv, NEW c \in Calls, ListenerThrows(c)
  PROVE  PInv'
<1>1. /\ ~Resting(c) /\ appending[c] = NoEntry
      /\ UNCHANGED <<log, appending, asked, pending, writes, phase, stranded>>
  BY DEF ListenerThrows, Listening, Resting, session
<1>2. \A d \in Calls \ {c} : Resting(d)
  BY <1>1, Alone
<1>3. CASE At(c, "turnEnd")
  <2>1. /\ op'[c].at = "turnFlush" /\ op'[c].todo = op[c].todo
        /\ \A d \in Calls \ {c} : op'[d] = op[d]
    BY <1>3 DEF ListenerThrows, SInv, TInv, CallTypes, Standings
  <2>2. ~Resting(c)'
    BY <2>1 DEF Resting
  <2> QED
    BY <1>1, <1>2, <2>1, <2>2, SameHands, UnsavedRecords
<1>4. CASE Throw(c)
  BY <1>1, <1>2, <1>4, ThrowHands, UnsavedRecords
<1> QED
  BY <1>3, <1>4 DEF ListenerThrows

\* A call builds an entry: of what it says, of the head of what waits, of a summary.
LEMMA BuildsRecord ==
  ASSUME SInv, PInv, NEW c \in Calls, ~Resting(c), NEW e,
         appending' = [appending EXCEPT ![c] = e],
         UNCHANGED <<log, asked, pending, writes, phase, stranded>>,
         SaysNoWrite(c)', \A d \in Calls \ {c} : op'[d] = op[d],
         op'[c].at \in Flushing => op' = op /\ pending # <<>> /\ e.what = pending[1],
         op'[c].at \notin Flushing => e.what \notin Writes,
         op'[c].at \notin {"agentEnd", "ready", "done"}
  PROVE  PInv'
<1>1. Record'
  BY RecordStays DEF PInv
<1>2. appending'[c] = e /\ \A t \in Threads \ {c} : appending'[t] = appending[t]
  BY DEF SInv, TInv, SessionTypes, Threads
<1>3. SavesHead(c)'
  BY <1>2 DEF SavesHead
<1>4. ~Resting(c)'
  BY DEF Resting
<1>5. op'[c].at = "cleanFlush" /\ ~op'[c].error => phase' = "idle"
  BY DEF Flushing, PInv, Tended
<1> QED
  BY <1>1, <1>2, <1>3, <1>4, <1>5, Alone, CallRecords

LEMMA SayRecords ==
  ASSUME SInv, PInv, NEW c \in Calls, Say(c)
  PROVE  PInv'
<1> DEFINE e == [what |-> Head(op[c].todo), parent |-> leaf, leaf |-> Root]
<1>1. /\ op[c].at = "say" /\ ~Resting(c) /\ UNCHANGED op
      /\ appending' = [appending EXCEPT ![c] = e] /\ e.what = Head(op[c].todo)
      /\ UNCHANGED <<log, asked, pending, writes, phase, stranded>>
  BY DEF Say, Build, At, Resting, inputs
<1> HIDE DEF e
<1>2. op[c].todo \in Seq(Whats) /\ op[c].todo # <<>>
  BY <1>1 DEF SInv, TInv, CallTypes, Standings, Ready
<1>3. 1 \in DOMAIN op[c].todo /\ Head(op[c].todo) = op[c].todo[1]
  BY <1>2
<1>4. e.what \notin Writes
  BY <1>1, <1>3 DEF PInv, Savers, SaysNoWrite
<1>5. SaysNoWrite(c)'
  BY <1>1, SameHands
<1>6. "say" \notin Flushing
  BY DEF Flushing
<1> QED
  BY <1>1, <1>4, <1>5, <1>6, BuildsRecord

LEMMA FlushRecords ==
  ASSUME SInv, PInv, NEW c \in Calls, Flush(c)
  PROVE  PInv'
<1> DEFINE e == [what |-> Head(pending), parent |-> leaf, leaf |-> Root]
<1>1. /\ op[c].at \in Flushing /\ ~Resting(c) /\ UNCHANGED op /\ pending # <<>>
      /\ appending' = [appending EXCEPT ![c] = e] /\ e.what = Head(pending)
      /\ UNCHANGED <<log, asked, pending, writes, phase, stranded>>
  BY DEF Flush, Build, Flushing, Resting, inputs
<1> HIDE DEF e
<1>2. Head(pending) = pending[1]
  BY <1>1 DEF SInv, TInv, InputTypes
<1>3. SaysNoWrite(c)'
  BY <1>1, SameHands
<1>4. op[c].at \notin {"agentEnd", "ready", "done"}
  BY <1>1 DEF Flushing
<1> QED
  BY <1>1, <1>2, <1>3, <1>4, BuildsRecord

LEMMA MoveBuildsRecord ==
  ASSUME SInv, PInv, NEW c \in Calls,
         Summarize(c) \/ SummarizeBranch(c) \/ \E target \in 0 .. Len(log) : SetLeaf(c, target)
  PROVE  PInv'
<1>1. /\ ~Resting(c) /\ UNCHANGED <<log, asked, pending, writes, phase, stranded>>
  BY DEF Summarize, SummarizeBranch, SetLeaf, Build, At, Resting, inputs
<1>2. PICK e \in [what : {<<"summary", 0>>, <<"leaf", 0>>}, parent : {leaf, op[c].target},
                  leaf : {Root} \cup 0 .. Len(log)] :
         appending' = [appending EXCEPT ![c] = e]
  BY DEF Summarize, SummarizeBranch, SetLeaf, Build
<1>3. e.what \notin Writes
  BY <1>2, OthersAreNot
<1>4. /\ op'[c].at \in {"summarized", "moving"} /\ op'[c].todo = op[c].todo
      /\ \A d \in Calls \ {c} : op'[d] = op[d]
  BY DEF Summarize, SummarizeBranch, SetLeaf, Go, SInv, TInv, CallTypes, Standings
<1>5. op'[c].at \notin Flushing
  BY <1>4 DEF Flushing
<1> QED
  BY <1>1, <1>2, <1>3, <1>4, <1>5, SameHands, BuildsRecord

\* What a call has built lands.
LEMMA SaidRecords ==
  ASSUME SInv, PInv, NEW c \in Calls, Said(c) \/ MoveLands(c)
  PROVE  PInv'
<1>1. /\ op[c].at \in {"say", "moving", "summarized"} /\ Land(c) /\ ~Resting(c) /\ TInv
      /\ UNCHANGED <<asked, pending, writes, phase, stranded>>
  BY DEF Said, MoveLands, At, Resting, inputs, SInv
<1>2. appending[c] # NoEntry /\ appending[c].what \notin Writes
  BY <1>1 DEF Land, Flushing, PInv, Savers, SavesHead
<1>3. \A k \in DOMAIN asked : asked[k] # appending[c].what
  BY <1>1, <1>2 DEF TInv, InputTypes
<1>4. Record'
  BY <1>1, <1>2, <1>3, LandsApart DEF PInv, Threads
<1>5. appending'[c] = NoEntry /\ \A t \in Threads \ {c} : appending'[t] = appending[t]
  BY <1>1 DEF Land, TInv, SessionTypes, Threads
<1>6. /\ op'[c].at \in {"said", "moved", "told"} /\ op'[c].todo \in {op[c].todo, Tail(op[c].todo)}
      /\ \A d \in Calls \ {c} : op'[d] = op[d]
  BY <1>1 DEF Said, MoveLands, Go, TInv, CallTypes, Standings
<1>7. SaysNoWrite(c)'
  <2>1. CASE op'[c].todo = op[c].todo
    BY <2>1, SameHands
  <2>2. CASE op'[c].todo = Tail(op[c].todo) /\ op[c].todo # <<>>
    <3> DEFINE s == op[c].todo
    <3>1. s \in Seq(Whats) /\ s # <<>> /\ \A i \in DOMAIN s : s[i] \notin Writes
      BY <1>1, <2>2 DEF TInv, CallTypes, Standings, PInv, Savers, SaysNoWrite
    <3> HIDE DEF s
    <3>2. \A i \in DOMAIN Tail(s) : i + 1 \in DOMAIN s /\ Tail(s)[i] = s[i + 1]
      BY <3>1
    <3>3. \A i \in DOMAIN Tail(s) : Tail(s)[i] \notin Writes
      BY <3>1, <3>2
    <3> QED
      BY <2>2, <3>3 DEF SaysNoWrite, s
  <2>3. op'[c].todo = Tail(op[c].todo) => op[c].todo # <<>> \/ op'[c].todo = op[c].todo
    <3>1. CASE Said(c)
      BY <3>1 DEF Said, At, SInv, TInv, CallTypes, Ready
    <3>2. CASE MoveLands(c)
      BY <1>1, <3>2 DEF MoveLands, Go, TInv, CallTypes, Standings
    <3> QED
      BY <3>1, <3>2
  <2> QED
    BY <1>6, <2>1, <2>2, <2>3
<1>8. SavesHead(c)'
  BY <1>5 DEF SavesHead
<1>9. ~Resting(c)'
  BY <1>6 DEF Resting
<1> QED
  BY <1>1, <1>4, <1>5, <1>6, <1>7, <1>8, <1>9, Alone, CallRecords

LEMMA FlushedRecords ==
  ASSUME SInv, PInv, NEW c \in Calls, Flushed(c)
  PROVE  PInv'
<1>1. /\ op[c].at \in Flushing /\ Land(c) /\ ~Resting(c) /\ op[c].at # "agentEnd" /\ TInv
      /\ UNCHANGED <<asked, writes, op, phase, stranded>>
  BY DEF Flushed, Flushing, Resting, SInv
<1>2. pending # <<>> /\ appending[c].what = pending[1]
  BY <1>1 DEF Land, PInv, Savers, SavesHead
<1>3. pending' = Tail(pending)
  BY <1>2 DEF Flushed
<1>4. Record'
  BY <1>1, <1>2, <1>3, LandsHead DEF PInv, Threads
<1>5. appending'[c] = NoEntry /\ \A t \in Threads \ {c} : appending'[t] = appending[t]
  BY <1>1 DEF Land, TInv, SessionTypes, Threads
<1>6. SavesHead(c)' /\ SaysNoWrite(c)'
  BY <1>1, <1>5, SameHands DEF SavesHead
<1>7. ~Resting(c)' /\ (op'[c].at = "cleanFlush" /\ ~op'[c].error => phase' = "idle")
  BY <1>1 DEF Resting, PInv, Tended
<1> QED
  BY <1>1, <1>4, <1>5, <1>6, <1>7, Alone, CallRecords

LEMMA MoveEndsRecords ==
  ASSUME SInv, PInv, NEW c \in Calls, MoveEnds(c)
  PROVE  PInv'
<1>1. /\ ~Resting(c) /\ appending[c] = NoEntry /\ op' = [op EXCEPT ![c] = Done]
      /\ UNCHANGED <<log, appending, asked, pending, writes>> /\ phase' = "idle"
      /\ stranded' = (stranded \/ pending # <<>>)
  BY DEF MoveEnds, Resting, session, inputs, SInv, TInv, CallTypes, Ready, Saving, Flushing
<1> QED
  BY <1>1, EndsRecord

LEMMA FailsRecords ==
  ASSUME SInv, PInv, NEW c \in Calls, WriteFails(c) \/ MoveFails(c)
  PROVE  PInv'
<1>1. /\ Miss(c) /\ ~Resting(c) /\ op[c].at # "agentEnd"
      /\ UNCHANGED <<log, asked, pending, writes>>
  BY DEF WriteFails, MoveFails, Miss, Flushing, Resting, inputs
<1>2. appending'[c] = NoEntry /\ \A t \in Threads \ {c} : appending'[t] = appending[t]
  BY <1>1 DEF Miss, SInv, TInv, SessionTypes, Threads
<1>3. CASE op' = [op EXCEPT ![c] = Done] /\ phase' = "idle" /\ (stranded' \/ pending = <<>>)
  BY <1>1, <1>2, <1>3, EndsRecord
<1>4. CASE Throw(c) /\ phase' = phase
  <2>1. Record' /\ SavesHead(c)'
    BY <1>1, <1>2, RecordStays DEF PInv, SavesHead
  <2> QED
    BY <1>1, <1>2, <1>4, <2>1, Alone, ThrowHands, CallRecords
<1> QED
  BY <1>3, <1>4 DEF WriteFails, MoveFails, End

-----------------------------------------------------------------------------
(* What the host does.                                                      *)

\* Calls stand where they stood.
LEMMA HostRecords ==
  ASSUME SInv, PInv, Record', UNCHANGED <<phase, stranded>>,
         \A c \in Calls : /\ op'[c].at = op[c].at /\ op'[c].todo = op[c].todo
                          /\ op'[c].error = op[c].error
                          /\ appending'[c] = appending[c],
         pending' = pending \/ (/\ phase # "idle" /\ pending' # <<>>
                                /\ pending # <<>> => pending'[1] = pending[1]),
         \A w \in Writes : SavesItself(w)'
  PROVE  PInv'
<1>1. \A c \in Calls : SaysNoWrite(c)'
  BY DEF PInv, Savers, SaysNoWrite
<1>2. \A c \in Calls : SavesHead(c)'
  BY DEF PInv, Savers, SavesHead
<1>3. Tended'
  BY DEF PInv, Tended, Resting
<1> QED
  BY <1>1, <1>2, <1>3 DEF PInv, Savers

LEMMA SendRecords ==
  ASSUME SInv, PInv,
         UNCHANGED <<log, appending, pending, asked, writes, phase, stranded>>,
         \A c \in Calls : /\ op'[c].at = op[c].at /\ op'[c].todo = op[c].todo
                          /\ op'[c].error = op[c].error
  PROVE  PInv'
<1>1. Record'
  BY RecordStays DEF PInv
<1>2. \A w \in Writes : SavesItself(w)'
  BY DEF PInv, Savers, SavesItself
<1> QED
  BY <1>1, <1>2, HostRecords

LEMMA AbortRecords ==
  ASSUME SInv, PInv, NEW a \in Aborts, Abort(a)
  PROVE  PInv'
<1>1. UNCHANGED <<log, appending, pending, asked, writes, phase, stranded>>
  BY DEF Abort, session
<1>2. ASSUME NEW c \in Calls
      PROVE  op'[c].at = op[c].at /\ op'[c].todo = op[c].todo /\ op'[c].error = op[c].error
  <2>1. op'[c] = [op[c] EXCEPT !.from = "gone"] /\ op[c] \in Standings
    BY DEF Abort, SInv, TInv, CallTypes
  <2> QED
    BY <2>1 DEF Standings
<1> QED
  BY <1>1, <1>2, SendRecords

\* A write that is saved at once was never queued, nor will be.
LEMMA NextIsNew ==
  ASSUME TInv, Input
  PROVE  /\ NextWrite \in Writes /\ NextWrite[2] = writes + 1 /\ writes \in Nat
         /\ \A w \in Writes : w[2] <= writes => w[2] <= writes + 1 /\ w # NextWrite
BY InputRoom, WritesAre, HarnessAssumption DEF NextWrite, Writes, TInv, InputTypes

LEMMA QueueWriteRecords ==
  ASSUME SInv, PInv, QueueWrite
  PROVE  PInv'
<1>1. /\ writes' = writes + 1 /\ pending' = Append(pending, NextWrite)
      /\ asked' = Append(asked, NextWrite) /\ phase # "idle"
      /\ UNCHANGED <<log, appending, op, phase, stranded>>
  BY DEF QueueWrite, session
<1>2. /\ NextWrite \in Writes /\ NextWrite[2] = writes + 1 /\ writes \in Nat
      /\ \A w \in Writes : w[2] <= writes => w[2] <= writes + 1 /\ w # NextWrite
  BY NextIsNew DEF SInv, QueueWrite
<1> DEFINE v == NextWrite
<1> HIDE DEF v
<1>3. TInv /\ v \in Writes /\ v[2] = writes + 1 /\ pending' = Append(pending, v) /\ asked' = Append(asked, v)
  BY <1>1, <1>2 DEF v, SInv
<1>4. Record'
  BY <1>1, <1>3, AsksLast DEF PInv
<1>5. pending \in Seq(Writes) /\ asked \in Seq(Writes)
  BY DEF SInv, TInv, InputTypes
<1>6. pending' # <<>> /\ (pending # <<>> => pending'[1] = pending[1])
  BY <1>3, <1>5
<1>7. ASSUME NEW w \in Writes PROVE SavesItself(w)'
  <2>1. \A k \in DOMAIN asked' : (k \in DOMAIN asked /\ asked'[k] = asked[k]) \/ asked'[k] = v
    BY <1>3, <1>5
  <2> QED
    BY <1>1, <1>2, <2>1 DEF PInv, Savers, SavesItself, v
<1> QED
  BY <1>1, <1>4, <1>6, <1>7, HostRecords

LEMMA WriteNowRecords ==
  ASSUME SInv, PInv, WriteNow
  PROVE  PInv'
<1> DEFINE e == [what |-> NextWrite, parent |-> leaf, leaf |-> Root]
<1>1. /\ writes' = writes + 1 /\ e.what = NextWrite
      /\ appending' = [appending EXCEPT ![NextWrite] = e]
      /\ UNCHANGED <<log, pending, asked, op, phase, stranded>>
  BY DEF WriteNow, Build
<1> HIDE DEF e
<1>2. /\ NextWrite \in Writes /\ NextWrite[2] = writes + 1 /\ writes \in Nat
      /\ \A w \in Writes : w[2] <= writes => w[2] <= writes + 1 /\ w # NextWrite
  BY NextIsNew DEF SInv, WriteNow
<1>3. asked \in Seq(Writes) /\ \A k \in DOMAIN asked : asked[k] \in Writes /\ asked[k][2] <= writes
  BY DEF SInv, TInv, InputTypes, PInv, Record, Numbered
<1>4. /\ appending'[NextWrite] = e
      /\ \A t \in Threads : t # NextWrite => appending'[t] = appending[t]
  BY <1>1, <1>2 DEF SInv, TInv, SessionTypes, Threads
<1>5. Record'
  <2>1. \A i \in DOMAIN log : log[i].what \in Writes => log[i].what[2] <= writes + 1
    BY <1>2 DEF PInv, Record, Numbered
  <2>2. \A k \in DOMAIN asked : asked[k][2] <= writes + 1
    BY <1>2, <1>3
  <2>3. Numbered'
    BY <1>1, <2>1, <2>2 DEF PInv, Record, Numbered
  <2> QED
    BY <1>1, <2>3 DEF PInv, Record, WaitsLast, SavedFirst
<1>6. ASSUME NEW w \in Writes PROVE SavesItself(w)'
  <2>1. CASE w = NextWrite
    BY <1>1, <1>2, <1>3, <1>4, <2>1 DEF SavesItself
  <2>2. CASE w # NextWrite
    BY <1>1, <1>2, <1>4, <2>2 DEF PInv, Savers, SavesItself, Threads
  <2> QED
    BY <2>1, <2>2
<1>7. \A c \in Calls : appending'[c] = appending[c]
  BY <1>2, <1>4, OthersAreNot DEF Threads
<1> QED
  BY <1>1, <1>5, <1>6, <1>7, HostRecords

LEMMA WrittenRecords ==
  ASSUME SInv, PInv, NEW w \in Writes, Written(w)
  PROVE  PInv'
<1>1. /\ appending[w] # NoEntry /\ TInv /\ w \in Threads
      /\ UNCHANGED <<pending, asked, writes, op, phase, stranded>>
  BY DEF Written, Land, Miss, inputs, SInv, Threads
<1>2. appending'[w] = NoEntry /\ \A t \in Threads : t # w => appending'[t] = appending[t]
  BY <1>1 DEF Written, Land, Miss, TInv, SessionTypes
<1>3. Record'
  <2>1. CASE Land(w)
    <3>1. /\ appending[w].what = w /\ w[2] <= writes
          /\ \A k \in DOMAIN asked : asked[k] # w
      BY <1>1 DEF PInv, Savers, SavesItself
    <3> QED
      BY <1>1, <2>1, <3>1, LandsApart DEF PInv
  <2>2. CASE Miss(w)
    BY <1>1, <2>2, RecordStays DEF Miss, PInv
  <2> QED
    BY <2>1, <2>2 DEF Written
<1>4. ASSUME NEW v \in Writes PROVE SavesItself(v)'
  BY <1>1, <1>2 DEF PInv, Savers, SavesItself, Threads
<1>5. \A c \in Calls : appending'[c] = appending[c]
  BY <1>2, OthersAreNot DEF Threads
<1> QED
  BY <1>1, <1>3, <1>4, <1>5, HostRecords

-----------------------------------------------------------------------------

LEMMA InitRecord == Init => PInv
<1> SUFFICES ASSUME Init PROVE PInv
  OBVIOUS
<1>1. Fresh.at = "ready" /\ Fresh.todo = <<>>
  BY DEF Fresh
<1>2. Record
  <2>1. Len(<<>>) = 0 /\ DOMAIN <<>> = {}
    OBVIOUS
  <2> QED
    BY <2>1 DEF Init, Record, Numbered, WaitsLast, SavedFirst
<1>3. Savers
  BY <1>1 DEF Init, Savers, SaysNoWrite, SavesHead, SavesItself, Threads
<1>4. Tended
  BY <1>1 DEF Init, Tended
<1> QED
  BY <1>2, <1>3, <1>4 DEF PInv

LEMMA StepRecord ==
  ASSUME ~Overlap, SInv, PInv, [Next]_vars
  PROVE  PInv'
<1>1. CASE UNCHANGED vars \/ \E q \in Queues : Send(q)
  BY <1>1, SendRecords DEF vars, session, inputs, Send
<1>2. ASSUME NEW c \in Calls, Prompt(c) \/ \E kind \in {"compaction", "branch_summary"} : Move(c, kind)
      PROVE  PInv'
  BY <1>2, BeginRecords
<1>3. ASSUME NEW c \in Calls, PromptStep(c)
      PROVE  PInv'
  BY <1>3, SnapshotRecords, AnnouncedRecords, StartRecords, SayRecords, SaidRecords, PollRecords,
     HeardRecords, StreamRecords, ExecuteRecords, FlushRecords, FlushedRecords, FlushEndsRecords
     DEF PromptStep
<1>4. ASSUME NEW c \in Calls, PromptFails(c) \/ MoveFails(c)
      PROVE  PInv'
  BY <1>4, StartFailsRecords, ListenerThrowsRecords, FailsRecords DEF PromptFails
<1>5. ASSUME NEW c \in Calls, MoveStep(c)
      PROVE  PInv'
  BY <1>5, MoveBuildsRecord, SaidRecords, MoveEndsRecords DEF MoveStep
<1>6. CASE QueueWrite \/ WriteNow \/ \E w \in Writes : Written(w)
  BY <1>6, QueueWriteRecords, WriteNowRecords, WrittenRecords
<1>7. CASE \E a \in Aborts : Abort(a)
  BY <1>7, AbortRecords
<1>8. CASE \E a \in Aborts : AbortWaits(a) \/ AbortEnds(a)
  BY <1>8, SendRecords DEF AbortWaits, AbortEnds, session, inputs
<1> QED
  BY <1>1, <1>2, <1>3, <1>4, <1>5, <1>6, <1>7, <1>8 DEF Next

LEMMA RecordIsInOrder == TInv /\ PInv => WritesPersistInOrder
<1> SUFFICES ASSUME TInv, PInv PROVE WritesPersistInOrder
  OBVIOUS
<1> DEFINE n == Len(asked) - Len(pending)
           SavedAt(k) == {i \in DOMAIN log : log[i].what = asked[k]}
<1>1. /\ pending \in Seq(Writes) /\ asked \in Seq(Writes)
      /\ Len(pending) \in Nat /\ Len(asked) \in Nat
  BY DEF TInv, InputTypes
<1>2. n \in Nat /\ Len(asked) - n = Len(pending) /\ n + 1 \in 1 .. Len(asked) + 1
  BY <1>1 DEF PInv, Record, WaitsLast
<1>3. pending = SubSeq(asked, n + 1, Len(asked))
  <2> DEFINE t == SubSeq(asked, n + 1, Len(asked))
  <2>1. /\ t \in Seq(Writes) /\ Len(t) = Len(pending)
        /\ \A i \in 1 .. Len(pending) : t[i] = asked[n + i]
    BY <1>1, <1>2
  <2> HIDE DEF t
  <2>2. \A i \in 1 .. Len(pending) : t[i] = pending[i]
    <3>1. \A i \in DOMAIN pending : pending[i] = asked[n + i]
      BY DEF PInv, Record, WaitsLast
    <3>2. DOMAIN pending = 1 .. Len(pending)
      BY <1>1
    <3> HIDE DEF n
    <3> QED
      BY <2>1, <3>1, <3>2
  <2>3. t = pending
    BY <1>1, <2>1, <2>2, SMTT(30)
  <2> QED
    BY <2>3 DEF t
<1>4. \A k \in DOMAIN asked : SavedAt(k) # {} <=> k <= n
  BY DEF PInv, Record, SavedFirst
<1>5. \A k, l \in DOMAIN asked : \A i \in SavedAt(k), j \in SavedAt(l) : i < j => k < l
  BY DEF PInv, Record, SavedFirst
<1>6. Quiet /\ phase = "idle" /\ ~stranded => pending = <<>>
  BY DEF PInv, Tended, Quiet, Resting
<1> QED
  BY <1>2, <1>3, <1>4, <1>5, <1>6 DEF WritesPersistInOrder

\* Writes that are queued during an operation (agent-harness.ts:464) are saved in the
\* order in which they were queued, each once, and all of them by the time the calls
\* have returned, unless an operation ended that does not flush them or the disk
\* failed; if callers await what they call.
THEOREM WritesInOrder == ASSUME ~Overlap PROVE Spec => []WritesPersistInOrder
<1>1. ~Overlap
  OBVIOUS
<1>2. TInv /\ CallsSerial /\ LogSerial /\ [Next]_vars => CallsSerial' /\ LogSerial'
  BY <1>1, StepSerial DEF SInv
<1>3. TInv /\ CallsSerial /\ LogSerial /\ PInv /\ [Next]_vars => PInv'
  BY <1>1, StepRecord DEF SInv
<1> QED
  BY <1>2, <1>3, InitSerial, InitRecord, RecordIsInOrder, TInvHolds, PTL DEF Spec

-----------------------------------------------------------------------------
(* Messages: where each of them is.                                         *)

Holders == ({"queue"} \X Queues) \cup ({"run"} \X Calls) \cup {<<"log", Root>>}
Queue(q) == <<"queue", q>>
Run(c) == <<"run", c>>
Log == <<"log", Root>>

\* The messages in a queue, in the hands of a call, in the session.
Content(h) ==
    {m \in Texts : \/ \E q \in Queues : h = Queue(q) /\ m \in ToSet(queue[q])
                   \/ \E c \in Calls : h = Run(c) /\ m \in ToSet(op[c].todo)
                   \/ h = Log /\ \E i \in DOMAIN log : log[i].what = m}

\* No message is in two of them; in one are those that were sent and not dropped.
Apart == \A h, k \in Holders : h = k \/ Content(h) \cap Content(k) = {}
Known == \A m \in Texts : (\E h \in Holders : m \in Content(h)) <=> m[2] <= texts /\ m \notin dropped
Sent == \A m \in dropped : m[2] <= texts

Kept == Apart /\ Known /\ Sent

\* No message is twice in one of them.
Distinct(s) == \A i, j \in DOMAIN s : s[i] \in Texts /\ s[i] = s[j] => i = j
Once ==
    /\ \A q \in Queues : Distinct(queue[q])
    /\ \A c \in Calls : Distinct(op[c].todo)
    /\ \A i, j \in DOMAIN log : log[i].what \in Texts /\ log[i].what = log[j].what => i = j

\* A call has messages in its hands only until it has said them, and it is the first
\* of them that it saves; nobody else saves one.
Holding == {"announce", "hook", "say", "said", "drained"}
HandsEmpty == \A c \in Calls : op[c].at \notin Holding => Content(Run(c)) = {}
Saves ==
    /\ \A c \in Calls : appending[c].what \in Texts => op[c].at = "say"
    /\ \A c \in Calls : op[c].at = "say" /\ appending[c] # NoEntry =>
         appending[c].what = Head(op[c].todo)
    /\ \A w \in Writes : appending[w].what \notin Texts

KInv == Kept /\ Once /\ HandsEmpty /\ Saves

-----------------------------------------------------------------------------
LEMMA HoldersDiffer ==
  /\ \A q \in Queues : Queue(q) \in Holders /\ Queue(q) # Log
  /\ \A c \in Calls : Run(c) \in Holders /\ Run(c) # Log
  /\ Log \in Holders
  /\ \A q \in Queues, c \in Calls : Queue(q) # Run(c)
  /\ \A q, r \in Queues : Queue(q) = Queue(r) => q = r
  /\ \A c, d \in Calls : Run(c) = Run(d) => c = d
  /\ \A h \in Holders : \/ \E q \in Queues : h = Queue(q)
                        \/ \E c \in Calls : h = Run(c)
                        \/ h = Log
BY DEF Holders, Queue, Run, Log

LEMMA Contents ==
  /\ \A q \in Queues : Content(Queue(q)) = ToSet(queue[q]) \cap Texts
  /\ \A c \in Calls : Content(Run(c)) = ToSet(op[c].todo) \cap Texts
  /\ Content(Log) = {m \in Texts : \E i \in DOMAIN log : log[i].what = m}
BY HoldersDiffer DEF Content

LEMMA ContentsPrime ==
  /\ \A q \in Queues : Content(Queue(q))' = ToSet(queue'[q]) \cap Texts
  /\ \A c \in Calls : Content(Run(c))' = ToSet(op'[c].todo) \cap Texts
  /\ Content(Log)' = {m \in Texts : \E i \in DOMAIN log' : log'[i].what = m}
BY HoldersDiffer DEF Content

\* Messages stay where they are.
LEMMA NothingMoves ==
  ASSUME Kept, \A h \in Holders : Content(h)' = Content(h), UNCHANGED <<texts, dropped>>
  PROVE  Kept'
BY DEF Kept, Apart, Known, Sent

\* Some go from one to another.
LEMMA SomeMove ==
  ASSUME Kept, NEW h \in Holders, NEW k \in Holders, h # k, NEW X, X \subseteq Content(h),
         Content(h)' = Content(h) \ X, Content(k)' = Content(k) \cup X,
         \A j \in Holders \ {h, k} : Content(j)' = Content(j),
         UNCHANGED <<texts, dropped>>
  PROVE  Kept'
<1>1. Apart'
  <2> SUFFICES ASSUME NEW i \in Holders, NEW j \in Holders, i # j
               PROVE  Content(i)' \cap Content(j)' = {}
    BY DEF Apart
  <2>1. Content(i) \cap Content(j) = {} /\ Content(h) \cap Content(i) \subseteq (IF i = h THEN Content(h) ELSE {})
        /\ Content(h) \cap Content(j) \subseteq (IF j = h THEN Content(h) ELSE {})
    BY DEF Kept, Apart
  <2> QED
    BY <2>1
<1>2. Known'
  <2>1. \A m \in Texts : (\E j \in Holders : m \in Content(j)') <=> (\E j \in Holders : m \in Content(j))
    OBVIOUS
  <2> QED
    BY <2>1 DEF Kept, Known
<1> QED
  BY <1>1, <1>2 DEF Kept, Sent

\* Some are lost.
LEMMA SomeDropped ==
  ASSUME Kept, NEW X, UNCHANGED texts, dropped' = dropped \cup X,
         \A h \in Holders : Content(h)' = Content(h) \ X,
         \A m \in X : \E h \in Holders : m \in Content(h)
  PROVE  Kept'
<1>1. Apart' /\ Known'
  BY DEF Kept, Apart, Known
<1>2. \A m \in X : m \in Texts
  BY DEF Content
<1>3. Sent'
  BY <1>2 DEF Kept, Known, Sent
<1> QED
  BY <1>1, <1>3 DEF Kept

\* A sequence without its first element.
LEMMA TailHolds ==
  ASSUME NEW S, NEW s \in Seq(S), s # <<>>, Distinct(s)
  PROVE  /\ Distinct(Tail(s))
         /\ Head(s) \in Texts => ToSet(Tail(s)) \cap Texts = (ToSet(s) \cap Texts) \ {Head(s)}
         /\ Head(s) \notin Texts => ToSet(Tail(s)) \cap Texts = ToSet(s) \cap Texts
<1>1. /\ Len(s) \in Nat /\ Len(s) > 0 /\ DOMAIN s = 1 .. Len(s) /\ Head(s) = s[1]
      /\ DOMAIN Tail(s) = 1 .. Len(s) - 1
      /\ \A i \in 1 .. Len(s) - 1 : Tail(s)[i] = s[i + 1]
  OBVIOUS
<1>2. \A i \in 1 .. Len(s) - 1 : i + 1 \in DOMAIN s /\ i + 1 # 1
  BY <1>1
<1>3. Distinct(Tail(s))
  BY <1>1, <1>2 DEF Distinct
<1>4. \A x \in Texts : x \in ToSet(Tail(s)) <=> x \in ToSet(s) /\ x # Head(s)
  <2> SUFFICES ASSUME NEW x \in Texts
               PROVE  x \in ToSet(Tail(s)) <=> x \in ToSet(s) /\ x # Head(s)
    OBVIOUS
  <2>1. ASSUME x \in ToSet(Tail(s))
        PROVE  x \in ToSet(s) /\ x # Head(s)
    <3>1. PICK i \in 1 .. Len(s) - 1 : x = s[i + 1]
      BY <1>1, <2>1 DEF ToSet
    <3> QED
      BY <1>1, <1>2, <3>1 DEF ToSet, Distinct
  <2>2. ASSUME x \in ToSet(s), x # Head(s)
        PROVE  x \in ToSet(Tail(s))
    <3>1. PICK i \in DOMAIN s : x = s[i]
      BY <2>2 DEF ToSet
    <3>2. i - 1 \in 1 .. Len(s) - 1 /\ (i - 1) + 1 = i
      BY <1>1, <2>2, <3>1
    <3>3. Tail(s)[i - 1] = x
      BY <1>1, <3>1, <3>2
    <3> QED
      BY <1>1, <3>2, <3>3 DEF ToSet
  <2> QED
    BY <2>1, <2>2
<1> QED
  BY <1>3, <1>4

\* Two sequences, one behind the other.
LEMMA ConcatHolds ==
  ASSUME NEW S, NEW s \in Seq(S), NEW t \in Seq(S), Distinct(s), Distinct(t),
         ToSet(s) \cap ToSet(t) \cap Texts = {}
  PROVE  Distinct(s \o t) /\ ToSet(s \o t) = ToSet(s) \cup ToSet(t)
<1>1. /\ Len(s) \in Nat /\ Len(t) \in Nat /\ DOMAIN s = 1 .. Len(s) /\ DOMAIN t = 1 .. Len(t)
      /\ DOMAIN (s \o t) = 1 .. Len(s) + Len(t)
      /\ \A i \in 1 .. Len(s) : (s \o t)[i] = s[i]
      /\ \A i \in 1 .. Len(t) : (s \o t)[Len(s) + i] = t[i]
      /\ \A i \in 1 .. Len(s) + Len(t) : i > Len(s) => (s \o t)[i] = t[i - Len(s)]
  OBVIOUS
<1>2. ToSet(s \o t) = ToSet(s) \cup ToSet(t)
  <2>1. \A x \in ToSet(s \o t) : x \in ToSet(s) \/ x \in ToSet(t)
    BY <1>1 DEF ToSet
  <2>2. \A x \in ToSet(s) : x \in ToSet(s \o t)
    BY <1>1 DEF ToSet
  <2>3. ASSUME NEW x \in ToSet(t)
        PROVE  x \in ToSet(s \o t)
    <3>1. PICK i \in 1 .. Len(t) : x = t[i]
      BY <1>1 DEF ToSet
    <3>2. Len(s) + i \in 1 .. Len(s) + Len(t) /\ (s \o t)[Len(s) + i] = x
      BY <1>1, <3>1
    <3> QED
      BY <1>1, <3>2 DEF ToSet
  <2> QED
    BY <2>1, <2>2, <2>3
<1>3. Distinct(s \o t)
  <2> SUFFICES ASSUME NEW i \in 1 .. Len(s) + Len(t), NEW j \in 1 .. Len(s) + Len(t),
                      (s \o t)[i] \in Texts, (s \o t)[i] = (s \o t)[j]
               PROVE  i = j
    BY <1>1 DEF Distinct
  <2>1. CASE i <= Len(s) /\ j <= Len(s)
    BY <1>1, <2>1 DEF Distinct
  <2>2. CASE i > Len(s) /\ j > Len(s)
    <3>1. i - Len(s) \in DOMAIN t /\ j - Len(s) \in DOMAIN t
      BY <1>1, <2>2
    <3>2. t[i - Len(s)] = t[j - Len(s)] /\ t[i - Len(s)] \in Texts
      BY <1>1, <2>2
    <3>3. i - Len(s) = j - Len(s)
      BY <3>1, <3>2 DEF Distinct
    <3> QED
      BY <1>1, <3>3
  <2>3. CASE i <= Len(s) /\ j > Len(s)
    <3>1. i \in DOMAIN s /\ j - Len(s) \in DOMAIN t /\ s[i] = t[j - Len(s)] /\ s[i] \in Texts
      BY <1>1, <2>3
    <3> QED
      BY <3>1 DEF ToSet
  <2>4. CASE i > Len(s) /\ j <= Len(s)
    <3>1. j \in DOMAIN s /\ i - Len(s) \in DOMAIN t /\ s[j] = t[i - Len(s)] /\ s[j] \in Texts
      BY <1>1, <2>4
    <3> QED
      BY <3>1 DEF ToSet
  <2> QED
    BY <1>1, <2>1, <2>2, <2>3, <2>4
<1> QED
  BY <1>2, <1>3

LEMMA AppendHolds ==
  ASSUME NEW S, NEW s \in Seq(S), NEW x, Distinct(s), x \notin ToSet(s) \cap Texts
  PROVE  Distinct(Append(s, x)) /\ ToSet(Append(s, x)) = ToSet(s) \cup {x}
<1>1. /\ Len(s) \in Nat /\ DOMAIN s = 1 .. Len(s) /\ DOMAIN Append(s, x) = 1 .. Len(s) + 1
      /\ \A i \in 1 .. Len(s) : Append(s, x)[i] = s[i]
      /\ Append(s, x)[Len(s) + 1] = x
  OBVIOUS
<1>2. \A i \in 1 .. Len(s) + 1 : i \in 1 .. Len(s) \/ i = Len(s) + 1
  BY <1>1
<1>3. ToSet(Append(s, x)) = ToSet(s) \cup {x}
  BY <1>1, <1>2 DEF ToSet
<1>4. Distinct(Append(s, x))
  BY <1>1, <1>2 DEF Distinct, ToSet
<1> QED
  BY <1>3, <1>4

\* What a call that takes messages for the next turn puts back.
LEMMA FrontHolds ==
  ASSUME NEW s \in Seq(Texts), NEW c \in Calls
  PROVE  Front(Append(s, c)) = s /\ ToSet(Append(s, c)) \cap Texts = ToSet(s)
         /\ (Distinct(Append(s, c)) => Distinct(s))
<1>1. /\ Len(s) \in Nat /\ DOMAIN s = 1 .. Len(s) /\ DOMAIN Append(s, c) = 1 .. Len(s) + 1
      /\ \A i \in 1 .. Len(s) : Append(s, c)[i] = s[i]
      /\ Append(s, c)[Len(s) + 1] = c /\ Len(Append(s, c)) = Len(s) + 1
  OBVIOUS
<1>2. Front(Append(s, c)) = s
  <2>1. Front(Append(s, c)) = SubSeq(Append(s, c), 1, Len(s))
    BY <1>1 DEF Front
  <2>2. SubSeq(Append(s, c), 1, Len(s)) = s
    BY <1>1
  <2> QED
    BY <2>1, <2>2
<1>3. \A i \in 1 .. Len(s) + 1 : i \in 1 .. Len(s) \/ i = Len(s) + 1
  BY <1>1
<1>4. c \notin Texts /\ ToSet(s) \subseteq Texts
  BY DEF Calls, Texts, ToSet
<1>5. ToSet(Append(s, c)) = ToSet(s) \cup {c}
  BY <1>1, <1>3 DEF ToSet
<1>6. Distinct(Append(s, c)) => Distinct(s)
  BY <1>1 DEF Distinct
<1> QED
  BY <1>2, <1>4, <1>5, <1>6

\* The session with one more entry.
LEMMA LogHolds ==
  ASSUME TInv, KInv, NEW e, log' = Append(log, e)
  PROVE  /\ Content(Log)' = Content(Log) \cup ({e.what} \cap Texts)
         /\ e.what \notin Content(Log) =>
              \A i, j \in DOMAIN log' : log'[i].what \in Texts /\ log'[i].what = log'[j].what => i = j
<1>1. log \in Seq(Entries)
  BY DEF TInv, SessionTypes
<1>2. /\ Len(log) \in Nat /\ DOMAIN log = 1 .. Len(log) /\ DOMAIN log' = 1 .. Len(log) + 1
      /\ \A i \in 1 .. Len(log) : log'[i] = log[i]
      /\ log'[Len(log) + 1] = e
  BY <1>1
<1>3. \A i \in 1 .. Len(log) + 1 : i \in 1 .. Len(log) \/ i = Len(log) + 1
  BY <1>2
<1>4. Content(Log)' = Content(Log) \cup ({e.what} \cap Texts)
  BY <1>2, <1>3, Contents, ContentsPrime
<1>5. ASSUME e.what \notin Content(Log), NEW i \in DOMAIN log', NEW j \in DOMAIN log',
             log'[i].what \in Texts, log'[i].what = log'[j].what
      PROVE  i = j
  <2>1. CASE i \in DOMAIN log /\ j \in DOMAIN log
    BY <1>2, <1>5, <2>1 DEF KInv, Once
  <2>2. CASE i = Len(log) + 1 /\ j = Len(log) + 1
    BY <2>2
  <2>3. CASE i \in DOMAIN log /\ j = Len(log) + 1
    BY <1>2, <1>5, <2>3, Contents
  <2>4. CASE i = Len(log) + 1 /\ j \in DOMAIN log
    BY <1>2, <1>5, <2>4, Contents
  <2> QED
    BY <1>2, <1>3, <2>1, <2>2, <2>3, <2>4
<1> QED
  BY <1>4, <1>5

LEMMA NotTexts ==
  /\ NoEntry.what \notin Texts /\ Reply \notin Texts /\ Result \notin Texts
  /\ <<"summary", 0>> \notin Texts /\ <<"leaf", 0>> \notin Texts
  /\ Calls \cap Texts = {} /\ Writes \cap Texts = {}
BY DEF NoEntry, None, Reply, Result, Texts, Calls, Writes

LEMMA ShortHolds ==
  /\ ToSet(<<>>) = {} /\ Distinct(<<>>)
  /\ \A x : ToSet(<<x>>) = {x} /\ Distinct(<<x>>)
BY DEF ToSet, Distinct

LEMMA AnswersHold ==
  ASSUME NEW x \in {Reply, Result}
  PROVE  ToSet(<<x>>) \cap Texts = {} /\ Distinct(<<x>>)
<1>1. ToSet(<<x>>) = {x} /\ Distinct(<<x>>)
  BY DEF ToSet, Distinct
<1>2. x \notin Texts
  BY NotTexts
<1> QED
  BY <1>1, <1>2

\* The call that steps saves nothing afterwards.
LEMMA SavesNothing ==
  ASSUME KInv, NEW c \in Calls, \A d \in Calls \ {c} : op'[d] = op[d] /\ appending'[d] = appending[d],
         \A w \in Writes : appending'[w] = appending[w], appending'[c] = NoEntry
  PROVE  Saves'
BY NotTexts DEF KInv, Saves

\* A call steps, but no message does.
LEMMA CallKeeps ==
  ASSUME TInv, KInv, NEW c \in Calls, \A d \in Calls \ {c} : op'[d] = op[d],
         Content(Log)' = Content(Log),
         \A i, j \in DOMAIN log' : log'[i].what \in Texts /\ log'[i].what = log'[j].what => i = j,
         UNCHANGED <<queue, texts, dropped>>, Content(Run(c))' = Content(Run(c)),
         Distinct(op'[c].todo), op'[c].at \notin Holding => Content(Run(c)) = {}, Saves'
  PROVE  KInv'
<1>1. \A h \in Holders : Content(h)' = Content(h)
  <2>1. \A q \in Queues : Content(Queue(q))' = Content(Queue(q))
    BY Contents, ContentsPrime
  <2>2. ASSUME NEW d \in Calls, d # c
        PROVE  Content(Run(d))' = Content(Run(d))
    <3>1. op'[d] = op[d]
      BY <2>2
    <3>2. Content(Run(d))' = ToSet(op'[d].todo) \cap Texts
      BY ContentsPrime
    <3>3. Content(Run(d)) = ToSet(op[d].todo) \cap Texts
      BY Contents
    <3> QED
      BY <3>1, <3>2, <3>3
  <2> QED
    BY <2>1, <2>2, HoldersDiffer
<1>2. Kept'
  BY <1>1, NothingMoves DEF KInv
<1>3. Once'
  BY DEF KInv, Once
<1>4. HandsEmpty'
  <2> SUFFICES ASSUME NEW d \in Calls, op'[d].at \notin Holding
               PROVE  Content(Run(d))' = {}
    BY DEF HandsEmpty
  <2> QED
    BY <1>1, HoldersDiffer DEF KInv, HandsEmpty
<1> QED
  BY <1>2, <1>3, <1>4 DEF KInv

\* The same with the session and the call's entry as they were.
LEMMA UnsavedKeeps ==
  ASSUME TInv, KInv, NEW c \in Calls, \A d \in Calls \ {c} : op'[d] = op[d],
         UNCHANGED <<session, queue, texts, dropped>>, appending[c] = NoEntry,
         ToSet(op'[c].todo) \cap Texts = ToSet(op[c].todo) \cap Texts, Distinct(op'[c].todo),
         op'[c].at \notin Holding => ToSet(op[c].todo) \cap Texts = {}
  PROVE  KInv'
<1>1. Saves'
  BY SavesNothing DEF session, Threads
<1>2. Content(Log)' = Content(Log) /\ Content(Run(c))' = Content(Run(c))
  <2>1. Content(Run(c))' = ToSet(op'[c].todo) \cap Texts
    BY ContentsPrime
  <2>2. Content(Run(c)) = ToSet(op[c].todo) \cap Texts
    BY Contents
  <2>3. Content(Log)' = Content(Log)
    BY Contents, ContentsPrime DEF session
  <2> QED
    BY <2>1, <2>2, <2>3
<1>3. \A i, j \in DOMAIN log' : log'[i].what \in Texts /\ log'[i].what = log'[j].what => i = j
  BY DEF KInv, Once, session
<1> QED
  BY <1>1, <1>2, <1>3, Contents, CallKeeps

\* What else is to be shown of a call that steps.
LEMMA CallParts ==
  ASSUME KInv, NEW c \in Calls, \A d \in Calls \ {c} : op'[d] = op[d],
         \A i, j \in DOMAIN log' : log'[i].what \in Texts /\ log'[i].what = log'[j].what => i = j,
         \A q \in Queues : Distinct(queue'[q]), Distinct(op'[c].todo),
         op'[c].at \notin Holding => ToSet(op'[c].todo) \cap Texts = {}
  PROVE  Once' /\ HandsEmpty' /\ \A d \in Calls \ {c} : Content(Run(d))' = Content(Run(d))
<1>1. ASSUME NEW d \in Calls, d # c
      PROVE  Content(Run(d))' = Content(Run(d)) /\ Distinct(op'[d].todo)
  <2>1. op'[d] = op[d]
    BY <1>1
  <2>2. Content(Run(d))' = ToSet(op'[d].todo) \cap Texts
    BY ContentsPrime
  <2>3. Content(Run(d)) = ToSet(op[d].todo) \cap Texts
    BY Contents
  <2> QED
    BY <2>1, <2>2, <2>3 DEF KInv, Once
<1>2. Once'
  BY <1>1 DEF KInv, Once
<1>3. HandsEmpty'
  <2> SUFFICES ASSUME NEW d \in Calls, op'[d].at \notin Holding
               PROVE  Content(Run(d))' = {}
    BY DEF HandsEmpty
  <2>1. CASE d = c
    BY <2>1, ContentsPrime
  <2>2. CASE d # c
    BY <2>2, <1>1 DEF KInv, HandsEmpty
  <2> QED
    BY <2>1, <2>2
<1> QED
  BY <1>1, <1>2, <1>3

\* A call lets go of what it has in its hands.
LEMMA HandsDropped ==
  ASSUME TInv, KInv, NEW c \in Calls, \A d \in Calls \ {c} : op'[d] = op[d],
         \A d \in Threads \ {c} : appending'[d] = appending[d], appending'[c] = NoEntry,
         UNCHANGED <<log, queue, texts>>, dropped' = dropped \cup InHand(c),
         ToSet(op'[c].todo) \cap Texts = {}, Distinct(op'[c].todo)
  PROVE  KInv'
<1>1. Saves'
  BY SavesNothing DEF Threads, Calls, Writes
<1>2. Once' /\ HandsEmpty' /\ \A d \in Calls \ {c} : Content(Run(d))' = Content(Run(d))
  <2>1. \A i, j \in DOMAIN log' : log'[i].what \in Texts /\ log'[i].what = log'[j].what => i = j
    BY DEF KInv, Once
  <2>2. \A q \in Queues : Distinct(queue'[q])
    BY DEF KInv, Once
  <2> QED
    BY <2>1, <2>2, CallParts
<1>3. Kept'
  <2>1. Content(Run(c)) = InHand(c) /\ Content(Run(c))' = {}
    BY Contents, ContentsPrime DEF InHand
  <2>2. Content(Log)' = Content(Log) /\ \A q \in Queues : Content(Queue(q))' = Content(Queue(q))
    BY Contents, ContentsPrime, SMTT(30)
  <2>3. \A h \in Holders \ {Run(c)} : Content(h) \cap InHand(c) = {} /\ Content(h)' = Content(h)
    <3>1. Run(c) \in Holders
      BY HoldersDiffer
    <3>2. \A h \in Holders \ {Run(c)} : Content(h) \cap Content(Run(c)) = {}
      BY <3>1 DEF KInv, Kept, Apart
    <3> QED
      BY <1>2, <2>1, <2>2, <3>2, HoldersDiffer
  <2>4. \A h \in Holders : Content(h)' = Content(h) \ InHand(c)
    BY <2>1, <2>3
  <2>5. \A m \in InHand(c) : \E h \in Holders : m \in Content(h)
    BY <2>1, HoldersDiffer
  <2> QED
    BY <2>4, <2>5, SomeDropped DEF KInv
<1> QED
  BY <1>1, <1>2, <1>3 DEF KInv

\* A call goes on: what it has in its hands stays there, or there is nothing.
LEMMA MovesOn ==
  ASSUME TInv, KInv, NEW c \in Calls, NEW r, op' = [op EXCEPT ![c] = r], appending[c] = NoEntry,
         UNCHANGED <<session, queue, texts, dropped>>,
         \/ /\ r.todo = op[c].todo
            /\ r.at \in Holding \/ op[c].at \notin Holding \/ op[c].todo = <<>>
         \/ op[c].at \notin Holding /\ ToSet(r.todo) \cap Texts = {} /\ Distinct(r.todo)
  PROVE  KInv'
<1>1. op'[c] = r /\ \A d \in Calls \ {c} : op'[d] = op[d]
  BY DEF TInv, CallTypes
<1>2. op[c].at \notin Holding \/ op[c].todo = <<>> => ToSet(op[c].todo) \cap Texts = {}
  BY Contents, ShortHolds DEF KInv, HandsEmpty
<1>3. Distinct(op[c].todo)
  BY DEF KInv, Once
<1>4. ToSet(op'[c].todo) \cap Texts = ToSet(op[c].todo) \cap Texts /\ Distinct(op'[c].todo)
  BY <1>1, <1>2, <1>3
<1>5. op'[c].at \notin Holding => ToSet(op[c].todo) \cap Texts = {}
  BY <1>1, <1>2
<1> QED
  BY <1>1, <1>4, <1>5, UnsavedKeeps

LEMMA GoesOn ==
  ASSUME TInv, KInv, NEW c \in Calls, NEW stage, Go(c, stage), appending[c] = NoEntry,
         UNCHANGED <<session, queue, texts, dropped>>,
         stage \in Holding \/ op[c].at \notin Holding
  PROVE  KInv'
<1> DEFINE r == [op[c] EXCEPT !.at = stage]
<1>1. r.todo = op[c].todo /\ r.at = stage
  BY DEF TInv, CallTypes, Standings
<1>2. op' = [op EXCEPT ![c] = r]
  BY DEF Go, TInv, CallTypes
<1> HIDE DEF r
<1> QED
  BY <1>1, <1>2, MovesOn

LEMMA EndsEmpty ==
  ASSUME TInv, KInv, NEW c \in Calls, op' = [op EXCEPT ![c] = Done], appending[c] = NoEntry,
         UNCHANGED <<session, queue, texts, dropped>>, op[c].at \notin Holding
  PROVE  KInv'
<1>1. Done.todo = <<>>
  BY DEF Done, Fresh
<1> QED
  BY <1>1, MovesOn, ShortHolds

\* What a run that fails has in its hands is no message.
LEMMA ThrowEmpty ==
  ASSUME TInv, NEW c \in Calls, Throw(c)
  PROVE  /\ \A d \in Calls \ {c} : op'[d] = op[d]
         /\ ToSet(op'[c].todo) \cap Texts = {} /\ Distinct(op'[c].todo)
         /\ op' = [op EXCEPT ![c] = op'[c]]
<1>1. op[c].failing => op' = [op EXCEPT ![c] = [Fresh EXCEPT !.at = "cleanFlush", !.error = TRUE]]
  BY DEF Throw
<1>2. ~op[c].failing => op' = [op EXCEPT ![c] =
        [Fresh EXCEPT !.at = "say", !.todo = <<Reply>>, !.then = "turnEnd",
                      !.ending = TRUE, !.failing = TRUE]]
  BY DEF Throw
<1>3. op \in [Calls -> Standings]
  BY DEF TInv, CallTypes
<1>4. op'[c].todo = <<>> \/ op'[c].todo = <<Reply>>
  BY <1>1, <1>2, <1>3 DEF Fresh
<1>5. ToSet(op'[c].todo) \cap Texts = {} /\ Distinct(op'[c].todo)
  BY <1>4, ShortHolds, AnswersHold
<1>6. \A d \in Calls \ {c} : op'[d] = op[d]
  BY <1>1, <1>2, <1>3
<1>7. op' = [op EXCEPT ![c] = op'[c]]
  BY <1>1, <1>2, <1>3
<1> QED
  BY <1>5, <1>6, <1>7

-----------------------------------------------------------------------------
(* The steps keep the messages.                                             *)

LEMMA BeginKeeps ==
  ASSUME TInv, KInv, NEW c \in Calls,
         Prompt(c) \/ \E kind \in {"compaction", "branch_summary"} : Move(c, kind)
  PROVE  KInv'
<1>1. UNCHANGED <<session, inputs>> /\ At(c, "ready")
  BY DEF Prompt, Move, Begin
<1>2. appending[c] = NoEntry /\ op[c].at \notin Holding
  BY <1>1 DEF At, TInv, CallTypes, Ready, Saving, Flushing, Holding
<1>3. \E stage \in {"snapshot", "compaction", "branch_summary"} : Go(c, stage)
  BY DEF Prompt, Move
<1> QED
  BY <1>1, <1>2, <1>3, GoesOn DEF inputs

LEMMA AnnouncedKeeps ==
  ASSUME TInv, KInv, NEW c \in Calls, Announced(c)
  PROVE  KInv'
<1>1. appending[c] = NoEntry
  BY DEF Announced, At, TInv, CallTypes, Ready, Saving, Flushing
<1>2. Go(c, "hook") /\ "hook" \in Holding /\ UNCHANGED <<session, inputs>>
  BY DEF Announced, Holding
<1> QED
  BY <1>1, <1>2, GoesOn DEF inputs

LEMMA StartKeeps ==
  ASSUME TInv, KInv, NEW c \in Calls, Start(c)
  PROVE  KInv'
<1>1. appending[c] = NoEntry /\ UNCHANGED <<session, inputs>>
  BY DEF Start, At, TInv, CallTypes, Ready, Saving, Flushing
<1> DEFINE r == [op[c] EXCEPT !.at = "say", !.then = "poll"]
<1>2. r.todo = op[c].todo /\ r.at \in Holding
  BY DEF TInv, CallTypes, Standings, Holding
<1>3. op' = [op EXCEPT ![c] = r]
  BY DEF Start, TInv, CallTypes
<1> HIDE DEF r
<1> QED
  BY <1>1, <1>2, <1>3, MovesOn DEF inputs

LEMMA StreamKeeps ==
  ASSUME TInv, KInv, NEW c \in Calls, NEW what, Stream(c, what)
  PROVE  KInv'
<1>1. appending[c] = NoEntry /\ op[c].at \notin Holding /\ UNCHANGED <<session, inputs>>
  BY DEF Stream, At, TInv, CallTypes, Ready, Saving, Flushing, Holding
<1> DEFINE next == IF what = "calls" THEN "batch" ELSE "turnEnd"
           r == [op[c] EXCEPT !.at = "say", !.todo = <<Reply>>, !.more = FALSE,
                              !.then = next, !.ending = what = "failed"]
<1>2. r.todo = <<Reply>>
  BY DEF TInv, CallTypes, Standings
<1>3. op' = [op EXCEPT ![c] = r]
  BY DEF Stream, TInv, CallTypes
<1> HIDE DEF r
<1> QED
  BY <1>1, <1>2, <1>3, MovesOn, AnswersHold DEF inputs

LEMMA ExecuteKeeps ==
  ASSUME TInv, KInv, NEW c \in Calls, NEW more, Execute(c, more)
  PROVE  KInv'
<1>1. appending[c] = NoEntry /\ op[c].at \notin Holding /\ UNCHANGED <<session, inputs>>
  BY DEF Execute, At, TInv, CallTypes, Ready, Saving, Flushing, Holding
<1> DEFINE r == [op[c] EXCEPT !.at = "say", !.todo = <<Result>>, !.then = "turnEnd", !.more = more]
<1>2. r.todo = <<Result>>
  BY DEF TInv, CallTypes, Standings
<1>3. op' = [op EXCEPT ![c] = r]
  BY DEF Execute, TInv, CallTypes
<1> HIDE DEF r
<1> QED
  BY <1>1, <1>2, <1>3, MovesOn, AnswersHold DEF inputs

LEMMA HeardKeeps ==
  ASSUME TInv, KInv, NEW c \in Calls, Heard(c)
  PROVE  KInv'
<1>1. appending[c] = NoEntry /\ UNCHANGED <<session, inputs>>
  BY DEF Heard, TInv, CallTypes, Ready, Saving, Listening, Flushing
<1> DEFINE stage == AfterListening(c)
           next == IF At(c, "said") /\ op[c].todo = <<>> THEN "ready" ELSE op[c].then
           seen == IF At(c, "nextTurn") THEN Len(log) ELSE op[c].seen
           r == [op[c] EXCEPT !.at = stage, !.from = "gone", !.then = next, !.seen = seen]
<1>2. stage \in Holding \/ op[c].at \notin Holding \/ op[c].todo = <<>>
  <2>1. op[c].at = "said" /\ op[c].todo # <<>> => stage = "say"
    BY DEF AfterListening, At
  <2>2. op[c].at = "drained" => stage = "say"
    BY DEF AfterListening, At
  <2> QED
    BY <2>1, <2>2 DEF Holding, Heard, Listening
<1>3. r.todo = op[c].todo /\ r.at = stage
  BY DEF TInv, CallTypes, Standings
<1>4. op' = [op EXCEPT ![c] = r]
  BY DEF Heard, TInv, CallTypes
<1> HIDE DEF r, stage
<1> QED
  BY <1>1, <1>2, <1>3, <1>4, MovesOn DEF inputs

LEMMA FlushEndsKeeps ==
  ASSUME TInv, KInv, NEW c \in Calls, FlushEnds(c)
  PROVE  KInv'
<1>1. appending[c] = NoEntry /\ op[c].at \notin Holding /\ UNCHANGED <<session, inputs>>
  BY DEF FlushEnds, AfterFlush, Flushing, Holding
<1>2. CASE Throw(c)
  BY <1>1, <1>2, ThrowEmpty, MovesOn DEF inputs
<1>3. CASE \E stage \in {"savePoint", "nextTurn", "agentEnd"} : Go(c, stage)
  BY <1>1, <1>3, GoesOn DEF inputs
<1>4. CASE End(c, op[c].error)
  BY <1>1, <1>4, EndsEmpty DEF inputs, End
<1> QED
  BY <1>2, <1>3, <1>4 DEF FlushEnds, AfterFlush

LEMMA MoveEndsKeeps ==
  ASSUME TInv, KInv, NEW c \in Calls, MoveEnds(c)
  PROVE  KInv'
<1>1. appending[c] = NoEntry /\ op[c].at \notin Holding /\ UNCHANGED <<session, inputs>>
  BY DEF MoveEnds, TInv, CallTypes, Ready, Saving, Flushing, Holding
<1> QED
  BY <1>1, EndsEmpty DEF inputs, MoveEnds

\* A call builds the entry that it saves.
LEMMA BuildKeeps ==
  ASSUME TInv, KInv, NEW c \in Calls, NEW e, \A d \in Calls \ {c} : op'[d] = op[d],
         op'[c].todo = op[c].todo, op'[c].at \notin Holding => op[c].at \notin Holding,
         appending' = [appending EXCEPT ![c] = e], UNCHANGED <<log, queue, texts, dropped>>,
         e.what \in Texts => op'[c].at = "say", op'[c].at = "say" => e.what = Head(op'[c].todo)
  PROVE  KInv'
<1>1. appending'[c] = e /\ \A t \in Threads \ {c} : appending'[t] = appending[t]
  BY DEF TInv, SessionTypes, Threads
<1>2. \A t \in Calls \cup Writes : t \in Threads
  BY DEF Threads
<1>3. \A w \in Writes : w # c
  BY Names
<1>4. Saves'
  BY <1>1, <1>2, <1>3 DEF KInv, Saves
<1>5. Content(Log)' = Content(Log)
  BY Contents, ContentsPrime
<1>6. Content(Run(c))' = Content(Run(c))
  <2>1. Content(Run(c))' = ToSet(op'[c].todo) \cap Texts
    BY ContentsPrime
  <2>2. Content(Run(c)) = ToSet(op[c].todo) \cap Texts
    BY Contents
  <2> QED
    BY <2>1, <2>2
<1>7. \A i, j \in DOMAIN log' : log'[i].what \in Texts /\ log'[i].what = log'[j].what => i = j
  BY DEF KInv, Once
<1>8. Distinct(op'[c].todo) /\ (op'[c].at \notin Holding => Content(Run(c)) = {})
  BY DEF KInv, Once, HandsEmpty
<1> QED
  BY <1>4, <1>5, <1>6, <1>7, <1>8, CallKeeps

\* Nothing changes that messages are about, or an entry lands that is none.
LEMMA StaysKeeps ==
  ASSUME TInv, KInv, UNCHANGED <<op, queue, texts, dropped>>,
         Content(Log)' = Content(Log),
         \A i, j \in DOMAIN log' : log'[i].what \in Texts /\ log'[i].what = log'[j].what => i = j,
         Saves'
  PROVE  KInv'
<1>1. \A h \in Holders : Content(h)' = Content(h)
  <2>1. \A q \in Queues : Content(Queue(q))' = Content(Queue(q))
    BY Contents, ContentsPrime
  <2>2. \A d \in Calls : Content(Run(d))' = Content(Run(d))
    BY Contents, ContentsPrime
  <2> QED
    BY <2>1, <2>2, HoldersDiffer
<1>2. Kept'
  BY <1>1, NothingMoves DEF KInv
<1>3. Once'
  BY DEF KInv, Once
<1>4. HandsEmpty'
  BY <1>1, HoldersDiffer DEF KInv, HandsEmpty
<1> QED
  BY <1>2, <1>3, <1>4 DEF KInv

LEMMA LandsOther ==
  ASSUME TInv, KInv, NEW t \in Threads, Land(t), appending[t].what \notin Texts
  PROVE  /\ Content(Log)' = Content(Log)
         /\ \A i, j \in DOMAIN log' : log'[i].what \in Texts /\ log'[i].what = log'[j].what => i = j
<1>1. appending[t] \in Entries
  BY DEF TInv, SessionTypes
<1> DEFINE n == leaf'
           e == [appending[t] EXCEPT !.leaf = n]
<1>2. e.what = appending[t].what
  BY <1>1 DEF Entries
<1>3. log' = Append(log, e)
  BY DEF Land
<1>4. e.what \notin Content(Log)
  BY <1>2, Contents
<1> HIDE DEF e
<1> QED
  BY <1>2, <1>3, <1>4, LogHolds

\* A message goes between a queue and the hands of a call.
LEMMA QueueAndHands ==
  ASSUME TInv, KInv, NEW c \in Calls, NEW q \in Queues, NEW t, NEW X \in SUBSET Texts,
         \A d \in Calls \ {c} : op'[d] = op[d], queue' = [queue EXCEPT ![q] = t],
         UNCHANGED <<session, texts, dropped>>, appending[c] = NoEntry,
         Distinct(t), Distinct(op'[c].todo),
         op'[c].at \notin Holding => ToSet(op'[c].todo) \cap Texts = {},
         \/ /\ X \subseteq ToSet(queue[q])
            /\ ToSet(t) \cap Texts = (ToSet(queue[q]) \cap Texts) \ X
            /\ ToSet(op'[c].todo) \cap Texts = (ToSet(op[c].todo) \cap Texts) \cup X
         \/ /\ X \subseteq ToSet(op[c].todo)
            /\ ToSet(t) \cap Texts = (ToSet(queue[q]) \cap Texts) \cup X
            /\ ToSet(op'[c].todo) \cap Texts = (ToSet(op[c].todo) \cap Texts) \ X
  PROVE  KInv'
<1>1. queue'[q] = t /\ \A r \in Queues \ {q} : queue'[r] = queue[r]
  BY DEF TInv, InputTypes
<1>2. Saves'
  BY SavesNothing DEF session, Threads
<1>3. Once' /\ HandsEmpty' /\ \A d \in Calls \ {c} : Content(Run(d))' = Content(Run(d))
  <2>1. \A i, j \in DOMAIN log' : log'[i].what \in Texts /\ log'[i].what = log'[j].what => i = j
    BY DEF KInv, Once, session
  <2>2. \A r \in Queues : Distinct(queue'[r])
    BY <1>1 DEF KInv, Once
  <2> QED
    BY <2>1, <2>2, CallParts
<1>4. /\ Content(Run(c)) = ToSet(op[c].todo) \cap Texts
      /\ Content(Run(c))' = ToSet(op'[c].todo) \cap Texts
      /\ Content(Queue(q)) = ToSet(queue[q]) \cap Texts
  BY Contents, ContentsPrime
<1>5. Content(Queue(q))' = ToSet(t) \cap Texts
  BY <1>1, ContentsPrime
<1>6. \A j \in Holders \ {Run(c), Queue(q)} : Content(j)' = Content(j)
  <2>1. Content(Log)' = Content(Log)
    BY Contents, ContentsPrime DEF session
  <2>2. ASSUME NEW r \in Queues, r # q
        PROVE  Content(Queue(r))' = Content(Queue(r))
    <3>1. queue'[r] = queue[r]
      BY <1>1, <2>2
    <3>2. Content(Queue(r))' = ToSet(queue'[r]) \cap Texts
      BY ContentsPrime
    <3>3. Content(Queue(r)) = ToSet(queue[r]) \cap Texts
      BY Contents
    <3> QED
      BY <3>1, <3>2, <3>3
  <2> QED
    BY <1>3, <2>1, <2>2, HoldersDiffer
<1>7. Run(c) \in Holders /\ Queue(q) \in Holders /\ Run(c) # Queue(q)
  BY HoldersDiffer
<1>8. Kept'
  <2>1. CASE X \subseteq ToSet(queue[q])
               /\ ToSet(t) \cap Texts = (ToSet(queue[q]) \cap Texts) \ X
               /\ ToSet(op'[c].todo) \cap Texts = (ToSet(op[c].todo) \cap Texts) \cup X
    <3>1. /\ X \subseteq Content(Queue(q)) /\ Content(Queue(q))' = Content(Queue(q)) \ X
          /\ Content(Run(c))' = Content(Run(c)) \cup X
      BY <1>4, <1>5, <2>1
    <3> QED
      BY <1>6, <1>7, <3>1, SomeMove DEF KInv
  <2>2. CASE X \subseteq ToSet(op[c].todo)
               /\ ToSet(t) \cap Texts = (ToSet(queue[q]) \cap Texts) \cup X
               /\ ToSet(op'[c].todo) \cap Texts = (ToSet(op[c].todo) \cap Texts) \ X
    <3>1. /\ X \subseteq Content(Run(c)) /\ Content(Run(c))' = Content(Run(c)) \ X
          /\ Content(Queue(q))' = Content(Queue(q)) \cup X
      BY <1>4, <1>5, <2>2
    <3> QED
      BY <1>6, <1>7, <3>1, SomeMove DEF KInv
  <2> QED
    BY <2>1, <2>2
<1> QED
  BY <1>2, <1>3, <1>8 DEF KInv

LEMMA SayKeeps ==
  ASSUME TInv, KInv, NEW c \in Calls, Say(c)
  PROVE  KInv'
<1> DEFINE e == [what |-> Head(op[c].todo), parent |-> leaf, leaf |-> Root]
<1>1. appending' = [appending EXCEPT ![c] = e] /\ UNCHANGED <<log, op, inputs>>
  BY DEF Say, Build
<1>2. e.what = Head(op[c].todo) /\ op[c].at = "say"
  BY DEF Say, At
<1> HIDE DEF e
<1> QED
  BY <1>1, <1>2, BuildKeeps DEF inputs

LEMMA FlushKeeps ==
  ASSUME TInv, KInv, NEW c \in Calls, Flush(c)
  PROVE  KInv'
<1> DEFINE e == [what |-> Head(pending), parent |-> leaf, leaf |-> Root]
<1>1. appending' = [appending EXCEPT ![c] = e] /\ UNCHANGED <<log, op, inputs>>
  BY DEF Flush, Build
<1>2. e.what = Head(pending) /\ Head(pending) \notin Texts /\ op[c].at # "say"
  <2>1. pending \in Seq(Writes) /\ pending # <<>>
    BY DEF Flush, TInv, InputTypes
  <2>2. Head(pending) \in Writes
    BY <2>1
  <2> QED
    BY <2>2, NotTexts DEF Flush, Flushing
<1> HIDE DEF e
<1> QED
  BY <1>1, <1>2, BuildKeeps DEF inputs

LEMMA MoveBuildKeeps ==
  ASSUME TInv, KInv, NEW c \in Calls,
         \/ Summarize(c) \/ SummarizeBranch(c) \/ \E target \in 0 .. Len(log) : SetLeaf(c, target)
  PROVE  KInv'
<1>1. op[c] \in Standings /\ op[c].at \notin Holding
  BY DEF TInv, CallTypes, Summarize, SummarizeBranch, SetLeaf, At, Holding
<1>2. PICK e : appending' = [appending EXCEPT ![c] = e] /\ e.what \notin Texts
  BY NotTexts DEF Summarize, SummarizeBranch, SetLeaf, Build
<1>3. op'[c].todo = op[c].todo /\ op'[c].at # "say" /\ \A d \in Calls \ {c} : op'[d] = op[d]
  <2>1. op \in [Calls -> Standings]
    BY DEF TInv, CallTypes
  <2>2. CASE Summarize(c) \/ SummarizeBranch(c)
    BY <2>1, <2>2 DEF Summarize, SummarizeBranch, Go, Standings
  <2>3. CASE \E target \in 0 .. Len(log) : SetLeaf(c, target)
    <3>1. PICK target \in 0 .. Len(log) : SetLeaf(c, target)
      BY <2>3
    <3> DEFINE r == [op[c] EXCEPT !.at = "moving", !.target = target]
    <3>2. r.todo = op[c].todo /\ r.at = "moving"
      BY <1>1 DEF Standings
    <3>3. op' = [op EXCEPT ![c] = r]
      BY <2>1, <3>1 DEF SetLeaf
    <3> HIDE DEF r
    <3> QED
      BY <2>1, <3>2, <3>3
  <2> QED
    BY <2>2, <2>3
<1>4. UNCHANGED <<log, inputs>>
  BY DEF Summarize, SummarizeBranch, SetLeaf, Build
<1> QED
  BY <1>1, <1>2, <1>3, <1>4, BuildKeeps DEF inputs

\* What has been said is in the session.
LEMMA SaidKeeps ==
  ASSUME TInv, KInv, NEW c \in Calls, Said(c)
  PROVE  KInv'
<1> DEFINE what == Head(op[c].todo)
           n == leaf'
           e == [appending[c] EXCEPT !.leaf = n]
           r == [op[c] EXCEPT !.at = "said", !.todo = Tail(op[c].todo), !.seen = op[c].seen + 1]
<1>1. /\ c \in Threads /\ op[c] \in Standings /\ appending[c] \in Entries
      /\ op[c].at = "say" /\ appending[c] # NoEntry
      /\ op[c].todo \in Seq(Whats) /\ op[c].todo # <<>> /\ Distinct(op[c].todo)
  BY DEF Said, Land, At, TInv, CallTypes, Ready, SessionTypes, Threads, Standings, KInv, Once
<1>2. e.what = what /\ log' = Append(log, e)
  BY <1>1 DEF Said, Land, Entries, KInv, Saves
<1>3. r.todo = Tail(op[c].todo) /\ r.at = "said"
  BY <1>1 DEF Standings
<1>4. op'[c] = r /\ \A d \in Calls \ {c} : op'[d] = op[d]
  BY DEF Said, TInv, CallTypes
<1> HIDE DEF e, r
<1>5. /\ Distinct(op'[c].todo)
      /\ ToSet(op'[c].todo) \cap Texts = (ToSet(op[c].todo) \cap Texts) \ ({what} \cap Texts)
  <2>1. op'[c].todo = Tail(op[c].todo)
    BY <1>3, <1>4
  <2>2. Distinct(Tail(op[c].todo))
    BY <1>1, TailHolds
  <2>3. what \in Texts => ToSet(Tail(op[c].todo)) \cap Texts = (ToSet(op[c].todo) \cap Texts) \ {what}
    BY <1>1, TailHolds
  <2>4. what \notin Texts => ToSet(Tail(op[c].todo)) \cap Texts = ToSet(op[c].todo) \cap Texts
    BY <1>1, TailHolds
  <2> HIDE DEF what
  <2> QED
    BY <2>1, <2>2, <2>3, <2>4
<1>6. what \in ToSet(op[c].todo)
  BY <1>1 DEF ToSet
<1> HIDE DEF what
<1>7. {what} \cap Texts \subseteq Content(Run(c)) /\ what \notin Content(Log)
  <2>1. {what} \cap Texts \subseteq Content(Run(c))
    BY <1>6, Contents
  <2>2. Content(Run(c)) \cap Content(Log) = {} /\ Content(Log) \subseteq Texts
    BY HoldersDiffer, Contents DEF KInv, Kept, Apart
  <2> QED
    BY <2>1, <2>2
<1>8. /\ Content(Log)' = Content(Log) \cup ({what} \cap Texts)
      /\ \A i, j \in DOMAIN log' : log'[i].what \in Texts /\ log'[i].what = log'[j].what => i = j
  BY <1>2, <1>7, LogHolds
<1>9. UNCHANGED <<queue, texts, dropped>>
  BY DEF Said, inputs
<1>10. Once' /\ HandsEmpty' /\ \A d \in Calls \ {c} : Content(Run(d))' = Content(Run(d))
  <2>1. \A q \in Queues : Distinct(queue'[q])
    BY <1>9 DEF KInv, Once
  <2>2. op'[c].at \in Holding
    BY <1>3, <1>4 DEF Holding
  <2> QED
    BY <1>4, <1>5, <1>8, <2>1, <2>2, CallParts
<1>11. Kept'
  <2>1. Content(Run(c))' = Content(Run(c)) \ ({what} \cap Texts)
    <3>1. Content(Run(c))' = ToSet(op'[c].todo) \cap Texts
      BY ContentsPrime
    <3>2. Content(Run(c)) = ToSet(op[c].todo) \cap Texts
      BY Contents
    <3> QED
      BY <1>5, <3>1, <3>2
  <2>2. \A q \in Queues : Content(Queue(q))' = Content(Queue(q))
    BY <1>9, Contents, ContentsPrime
  <2>3. \A j \in Holders \ {Run(c), Log} : Content(j)' = Content(j)
    BY <1>10, <2>2, HoldersDiffer
  <2>4. Run(c) \in Holders /\ Log \in Holders /\ Run(c) # Log
    BY HoldersDiffer
  <2> QED
    BY <1>7, <1>8, <1>9, <2>1, <2>3, <2>4, SomeMove DEF KInv
<1>12. Saves'
  <2>1. appending' = [appending EXCEPT ![c] = NoEntry]
    BY DEF Said, Land
  <2>2. appending'[c] = NoEntry /\ \A t \in Threads \ {c} : appending'[t] = appending[t]
    BY <1>1, <2>1 DEF TInv, SessionTypes
  <2>3. (\A d \in Calls \ {c} : appending'[d] = appending[d]) /\ \A w \in Writes : appending'[w] = appending[w]
    BY <2>2, Names DEF Threads
  <2> QED
    BY <1>4, <2>2, <2>3, SavesNothing
<1> QED
  BY <1>10, <1>11, <1>12 DEF KInv

LEMMA FlushedKeeps ==
  ASSUME TInv, KInv, NEW c \in Calls, Flushed(c)
  PROVE  KInv'
<1>1. c \in Threads /\ Land(c) /\ UNCHANGED <<op, queue, texts, dropped>> /\ op[c].at # "say"
  BY DEF Flushed, Threads, Flushing
<1>2. appending[c].what \notin Texts
  BY <1>1 DEF KInv, Saves
<1>3. Saves'
  <2>1. appending' = [appending EXCEPT ![c] = NoEntry]
    BY <1>1 DEF Land
  <2>2. appending'[c] = NoEntry /\ \A t \in Threads \ {c} : appending'[t] = appending[t]
    BY <1>1, <2>1 DEF TInv, SessionTypes
  <2>3. (\A d \in Calls \ {c} : appending'[d] = appending[d]) /\ \A w \in Writes : appending'[w] = appending[w]
    BY <2>2, Names DEF Threads
  <2> QED
    BY <1>1, <2>2, <2>3, SavesNothing
<1> QED
  BY <1>1, <1>2, <1>3, LandsOther, StaysKeeps

LEMMA MoveLandsKeeps ==
  ASSUME TInv, KInv, NEW c \in Calls, MoveLands(c)
  PROVE  KInv'
<1> DEFINE stage == IF At(c, "moving") THEN "moved" ELSE "told"
<1>1. c \in Threads /\ Land(c) /\ UNCHANGED <<queue, texts, dropped>> /\ op[c].at \notin Holding
  BY DEF MoveLands, Threads, inputs, Holding
<1>2. appending[c].what \notin Texts
  BY <1>1 DEF KInv, Saves, Holding
<1>3. op'[c].todo = op[c].todo /\ op'[c].at # "say" /\ \A d \in Calls \ {c} : op'[d] = op[d]
  <2>1. Go(c, stage) /\ stage # "say" /\ op \in [Calls -> Standings]
    BY DEF MoveLands, TInv, CallTypes
  <2> HIDE DEF stage
  <2> QED
    BY <2>1 DEF Go, Standings
<1>4. Saves'
  <2>1. appending' = [appending EXCEPT ![c] = NoEntry]
    BY <1>1 DEF Land
  <2>2. appending'[c] = NoEntry /\ \A t \in Threads \ {c} : appending'[t] = appending[t]
    BY <1>1, <2>1 DEF TInv, SessionTypes
  <2>3. (\A d \in Calls \ {c} : appending'[d] = appending[d]) /\ \A w \in Writes : appending'[w] = appending[w]
    BY <2>2, Names DEF Threads
  <2> QED
    BY <1>3, <2>2, <2>3, SavesNothing
<1>5. Content(Run(c))' = Content(Run(c))
  <2>1. Content(Run(c))' = ToSet(op'[c].todo) \cap Texts
    BY ContentsPrime
  <2>2. Content(Run(c)) = ToSet(op[c].todo) \cap Texts
    BY Contents
  <2> QED
    BY <1>3, <2>1, <2>2
<1>6. Distinct(op'[c].todo) /\ Content(Run(c)) = {}
  BY <1>1, <1>3 DEF KInv, Once, HandsEmpty
<1> QED
  BY <1>1, <1>2, <1>3, <1>4, <1>5, <1>6, LandsOther, CallKeeps

LEMMA WrittenKeeps ==
  ASSUME TInv, KInv, NEW w \in Writes, Written(w)
  PROVE  KInv'
<1>1. w \in Threads /\ UNCHANGED <<op, queue, texts, dropped>> /\ appending[w].what \notin Texts
  BY DEF Written, Threads, inputs, KInv, Saves
<1>2. Saves'
  <2>1. appending' = [appending EXCEPT ![w] = NoEntry]
    BY DEF Written, Land, Miss
  <2>2. appending'[w] = NoEntry /\ \A t \in Threads \ {w} : appending'[t] = appending[t]
    BY <1>1, <2>1 DEF TInv, SessionTypes
  <2>3. \A d \in Calls : appending'[d] = appending[d]
    BY <2>2, Names DEF Threads
  <2>4. \A v \in Writes : appending'[v].what \notin Texts
    <3>1. NoEntry.what \notin Texts
      BY NotTexts
    <3> QED
      BY <2>2, <3>1 DEF Threads, KInv, Saves
  <2> QED
    BY <1>1, <2>3, <2>4 DEF KInv, Saves
<1>3. CASE Land(w)
  BY <1>1, <1>2, <1>3, LandsOther, StaysKeeps
<1>4. CASE Miss(w)
  <2>1. UNCHANGED log
    BY <1>4 DEF Miss
  <2>2. Content(Log)' = Content(Log)
    BY <2>1, Contents, ContentsPrime
  <2>3. \A i, j \in DOMAIN log' : log'[i].what \in Texts /\ log'[i].what = log'[j].what => i = j
    BY <2>1 DEF KInv, Once
  <2> QED
    BY <1>1, <1>2, <2>2, <2>3, StaysKeeps
<1> QED
  BY <1>3, <1>4 DEF Written

LEMMA SnapshotKeeps ==
  ASSUME TInv, KInv, NEW c \in Calls, Snapshot(c)
  PROVE  KInv'
<1> DEFINE s == queue["nextTurn"]
           stage == IF s = <<>> THEN "hook" ELSE "announce"
           r == [op[c] EXCEPT !.at = stage, !.todo = Append(s, c), !.seen = Len(log)]
<1>1. /\ UNCHANGED <<session, texts, dropped>> /\ appending[c] = NoEntry /\ op[c].at \notin Holding
      /\ "nextTurn" \in Queues
  BY DEF Snapshot, At, TInv, CallTypes, Ready, Saving, Flushing, Holding, Queues
<1>2. s \in Seq(Texts) /\ Distinct(s) /\ ToSet(s) \subseteq Texts
  BY <1>1 DEF TInv, InputTypes, KInv, Once, ToSet
<1>3. r.todo = Append(s, c) /\ r.at \in {"hook", "announce"}
  BY DEF TInv, CallTypes, Standings
<1>4. op'[c] = r /\ \A d \in Calls \ {c} : op'[d] = op[d]
  BY DEF Snapshot, TInv, CallTypes
<1>5. queue' = [queue EXCEPT !["nextTurn"] = <<>>]
  BY DEF Snapshot
<1> HIDE DEF r
<1>6. ToSet(op'[c].todo) \cap Texts = ToSet(s) /\ Distinct(op'[c].todo)
  <2>1. ToSet(Append(s, c)) \cap Texts = ToSet(s)
    BY <1>2, FrontHolds
  <2>2. c \notin ToSet(s) \cap Texts
    BY NotTexts
  <2>3. Distinct(Append(s, c))
    BY <1>2, <2>2, AppendHolds
  <2> QED
    BY <1>3, <1>4, <2>1, <2>3
<1>7. ToSet(op[c].todo) \cap Texts = {}
  BY <1>1, Contents DEF KInv, HandsEmpty
<1>8. ToSet(<<>>) = {} /\ Distinct(<<>>) /\ op'[c].at \in Holding
  BY <1>3, <1>4, ShortHolds DEF Holding
<1>9. /\ ToSet(s) \in SUBSET Texts /\ ToSet(s) \subseteq ToSet(queue["nextTurn"])
      /\ ToSet(<<>>) \cap Texts = (ToSet(queue["nextTurn"]) \cap Texts) \ ToSet(s)
      /\ ToSet(op'[c].todo) \cap Texts = (ToSet(op[c].todo) \cap Texts) \cup ToSet(s)
  BY <1>2, <1>6, <1>7, <1>8
<1> HIDE DEF s
<1> QED
  BY <1>1, <1>4, <1>5, <1>6, <1>8, <1>9, QueueAndHands

LEMMA PollKeeps ==
  ASSUME TInv, KInv, NEW c \in Calls, Poll(c)
  PROVE  KInv'
<1>1. /\ UNCHANGED <<session, texts, dropped>> /\ appending[c] = NoEntry /\ op[c].at \notin Holding
  BY DEF Poll, At, TInv, CallTypes, Ready, Saving, Flushing, Holding
<1>2. PICK q \in Queues, empty \in {"stream", "pollLast", "endFlush"} : Drain(c, q, empty)
  BY DEF Poll, Queues
<1>3. CASE queue[q] = <<>>
  BY <1>1, <1>2, <1>3, GoesOn DEF Drain
<1>4. CASE queue[q] # <<>>
  <2> DEFINE s == queue[q]
             m == Head(s)
             r == [op[c] EXCEPT !.at = "drained", !.todo = <<m>>, !.from = q, !.then = "stream"]
  <2>1. s \in Seq(Texts) /\ Distinct(s) /\ m \in Texts /\ m \in ToSet(s)
    BY <1>4 DEF TInv, InputTypes, KInv, Once, ToSet
  <2>2. r.todo = <<m>> /\ r.at = "drained"
    BY DEF TInv, CallTypes, Standings
  <2>3. op'[c] = r /\ (\A d \in Calls \ {c} : op'[d] = op[d]) /\ queue' = [queue EXCEPT ![q] = Tail(s)]
    BY <1>2, <1>4 DEF Drain, TInv, CallTypes, InputTypes
  <2> HIDE DEF r
  <2>4. Distinct(Tail(s)) /\ ToSet(Tail(s)) \cap Texts = (ToSet(s) \cap Texts) \ {m}
    BY <1>4, <2>1, TailHolds
  <2>5. ToSet(op[c].todo) \cap Texts = {}
    BY <1>1, Contents DEF KInv, HandsEmpty
  <2> HIDE DEF m
  <2>6. ToSet(op'[c].todo) = {m} /\ Distinct(op'[c].todo) /\ op'[c].at \in Holding
    BY <2>2, <2>3, ShortHolds DEF Holding
  <2>7. /\ {m} \in SUBSET Texts /\ {m} \subseteq ToSet(queue[q])
        /\ ToSet(Tail(s)) \cap Texts = (ToSet(queue[q]) \cap Texts) \ {m}
        /\ ToSet(op'[c].todo) \cap Texts = (ToSet(op[c].todo) \cap Texts) \cup {m}
    BY <2>1, <2>4, <2>5, <2>6
  <2> HIDE DEF s
  <2> QED
    BY <1>1, <2>3, <2>4, <2>6, <2>7, QueueAndHands
<1> QED
  BY <1>3, <1>4

\* What goes back in front of its queue.
LEMMA GoesBack ==
  ASSUME TInv, KInv, NEW c \in Calls, NEW q \in Queues, NEW s \in Seq(Texts), Distinct(s),
         ToSet(s) = ToSet(op[c].todo) \cap Texts, queue' = [queue EXCEPT ![q] = s \o queue[q]],
         UNCHANGED <<session, texts, dropped>>, appending[c] = NoEntry,
         \A d \in Calls \ {c} : op'[d] = op[d],
         ToSet(op'[c].todo) \cap Texts = {}, Distinct(op'[c].todo)
  PROVE  KInv'
<1> DEFINE t == queue[q]
<1>1. t \in Seq(Texts) /\ Distinct(t)
  BY DEF TInv, InputTypes, KInv, Once
<1>2. ToSet(s) \cap ToSet(t) \cap Texts = {}
  <2>1. Content(Run(c)) \cap Content(Queue(q)) = {}
    BY HoldersDiffer DEF KInv, Kept, Apart
  <2>2. Content(Run(c)) = ToSet(op[c].todo) \cap Texts /\ Content(Queue(q)) = ToSet(queue[q]) \cap Texts
    BY Contents
  <2> QED
    BY <2>1, <2>2
<1>3. Distinct(s \o t) /\ ToSet(s \o t) = ToSet(s) \cup ToSet(t)
  BY <1>1, <1>2, ConcatHolds
<1>4. /\ ToSet(s) \in SUBSET Texts /\ ToSet(s) \subseteq ToSet(op[c].todo)
      /\ ToSet(s \o t) \cap Texts = (ToSet(queue[q]) \cap Texts) \cup ToSet(s)
      /\ ToSet(op'[c].todo) \cap Texts = (ToSet(op[c].todo) \cap Texts) \ ToSet(s)
  BY <1>3
<1> QED
  BY <1>3, <1>4, QueueAndHands

LEMMA StartFailsKeeps ==
  ASSUME TInv, KInv, NEW c \in Calls, StartFails(c)
  PROVE  KInv'
<1>1. UNCHANGED <<session, texts>> /\ appending[c] = NoEntry
  BY DEF StartFails, At, TInv, CallTypes, Ready, Saving, Flushing
<1>2. op'[c] = Done /\ \A d \in Calls \ {c} : op'[d] = op[d]
  BY DEF StartFails, End, TInv, CallTypes
<1>3. Done.todo = <<>>
  BY DEF Done, Fresh
<1>4. ToSet(op'[c].todo) \cap Texts = {} /\ Distinct(op'[c].todo)
  BY <1>2, <1>3, ShortHolds
<1>5. CASE At(c, "announce")
  <2>1. PICK s \in Seq(Texts) : op[c].todo = Append(s, c)
    BY <1>5 DEF At, TInv, CallTypes, Ready
  <2>2. Front(op[c].todo) = s /\ ToSet(op[c].todo) \cap Texts = ToSet(s) /\ Distinct(s)
    <3>1. Distinct(Append(s, c))
      BY <2>1 DEF KInv, Once
    <3>2. Front(Append(s, c)) = s /\ ToSet(Append(s, c)) \cap Texts = ToSet(s) /\ Distinct(s)
      BY <3>1, FrontHolds
    <3> QED
      BY <2>1, <3>2
  <2>3. UNCHANGED dropped /\ "nextTurn" \in Queues
        /\ queue' = [queue EXCEPT !["nextTurn"] = s \o queue["nextTurn"]]
    BY <1>5, <2>2 DEF StartFails, TInv, InputTypes, Queues
  <2> QED
    BY <1>1, <1>2, <1>4, <2>2, <2>3, GoesBack
<1>6. CASE ~At(c, "announce")
  <2>1. UNCHANGED <<log, appending, queue, texts>> /\ dropped' = dropped \cup InHand(c)
    BY <1>1, <1>6 DEF StartFails, session
  <2> QED
    BY <1>1, <1>2, <1>4, <2>1, HandsDropped
<1> QED
  BY <1>5, <1>6

LEMMA ListenerThrowsKeeps ==
  ASSUME TInv, KInv, NEW c \in Calls, ListenerThrows(c)
  PROVE  KInv'
<1>1. UNCHANGED <<session, texts>> /\ appending[c] = NoEntry
  BY DEF ListenerThrows
<1>2. CASE At(c, "turnEnd")
  <2> DEFINE r == [op[c] EXCEPT !.at = "turnFlush", !.error = TRUE]
  <2>1. op' = [op EXCEPT ![c] = r] /\ UNCHANGED <<queue, dropped>> /\ op[c].at \notin Holding
    BY <1>2 DEF ListenerThrows, TInv, CallTypes, At, Holding
  <2>2. r.todo = op[c].todo
    BY DEF TInv, CallTypes, Standings
  <2> HIDE DEF r
  <2> QED
    BY <1>1, <2>1, <2>2, MovesOn
<1>3. CASE ~At(c, "turnEnd") /\ At(c, "drained") /\ op[c].from # "gone"
  <2>1. Throw(c) /\ UNCHANGED dropped
        /\ queue' = [queue EXCEPT ![op[c].from] = op[c].todo \o queue[op[c].from]]
    BY <1>3 DEF ListenerThrows
  <2>2. op[c].todo \in Seq(Texts) /\ op[c].from \in Queues /\ Distinct(op[c].todo)
    BY <1>3 DEF TInv, CallTypes, Ready, Standings, At, KInv, Once
  <2>3. ToSet(op[c].todo) = ToSet(op[c].todo) \cap Texts
    BY <2>2 DEF ToSet
  <2> QED
    BY <1>1, <2>1, <2>2, <2>3, ThrowEmpty, GoesBack
<1>4. CASE ~At(c, "turnEnd") /\ ~(At(c, "drained") /\ op[c].from # "gone")
  <2>1. Throw(c) /\ UNCHANGED <<log, appending, queue, texts>> /\ dropped' = dropped \cup InHand(c)
    BY <1>1, <1>4 DEF ListenerThrows, session
  <2> QED
    BY <1>1, <2>1, ThrowEmpty, HandsDropped
<1> QED
  BY <1>2, <1>3, <1>4

LEMMA WriteFailsKeeps ==
  ASSUME TInv, KInv, NEW c \in Calls, WriteFails(c)
  PROVE  KInv'
<1>1. c \in Threads /\ Miss(c) /\ UNCHANGED <<log, queue, texts>> /\ dropped' = dropped \cup InHand(c)
  BY DEF WriteFails, Miss, Threads
<1>2. appending'[c] = NoEntry /\ \A t \in Threads \ {c} : appending'[t] = appending[t]
  BY <1>1 DEF Miss, TInv, SessionTypes
<1>3. CASE At(c, "cleanFlush")
  <2>1. op'[c] = Done /\ \A d \in Calls \ {c} : op'[d] = op[d]
    BY <1>3 DEF WriteFails, End, TInv, CallTypes
  <2>2. Done.todo = <<>>
    BY DEF Done, Fresh
  <2>3. ToSet(op'[c].todo) \cap Texts = {} /\ Distinct(op'[c].todo)
    BY <2>1, <2>2, ShortHolds
  <2> QED
    BY <1>1, <1>2, <2>1, <2>3, HandsDropped
<1>4. CASE ~At(c, "cleanFlush")
  <2>1. Throw(c)
    BY <1>4 DEF WriteFails
  <2> QED
    BY <1>1, <1>2, <2>1, ThrowEmpty, HandsDropped
<1> QED
  BY <1>3, <1>4

LEMMA MoveFailsKeeps ==
  ASSUME TInv, KInv, NEW c \in Calls, MoveFails(c)
  PROVE  KInv'
<1>1. c \in Threads /\ Miss(c) /\ UNCHANGED <<log, queue, texts, dropped>> /\ op[c].at \notin Holding
  BY DEF MoveFails, Miss, Threads, inputs, Holding
<1>2. appending'[c] = NoEntry /\ \A t \in Threads \ {c} : appending'[t] = appending[t]
  BY <1>1 DEF Miss, TInv, SessionTypes
<1>3. op'[c] = Done /\ \A d \in Calls \ {c} : op'[d] = op[d]
  BY DEF MoveFails, TInv, CallTypes
<1>4. Done.todo = <<>>
  BY DEF Done, Fresh
<1>5. ToSet(op'[c].todo) \cap Texts = {} /\ Distinct(op'[c].todo)
  BY <1>3, <1>4, ShortHolds
<1>6. InHand(c) = {}
  BY <1>1, Contents DEF InHand, KInv, HandsEmpty
<1> QED
  BY <1>1, <1>2, <1>3, <1>5, <1>6, HandsDropped

\* What the host does that no message is about.
LEMMA HostKeeps ==
  ASSUME TInv, KInv, QueueWrite \/ \E a \in Aborts : AbortWaits(a) \/ AbortEnds(a)
  PROVE  KInv'
<1>1. UNCHANGED <<session, op, queue, texts, dropped>>
  BY DEF QueueWrite, AbortWaits, AbortEnds, inputs
<1>2. Saves'
  BY <1>1 DEF KInv, Saves, session
<1>3. \A i, j \in DOMAIN log' : log'[i].what \in Texts /\ log'[i].what = log'[j].what => i = j
  BY <1>1 DEF KInv, Once, session
<1>4. Content(Log)' = Content(Log)
  BY <1>1, Contents, ContentsPrime DEF session
<1> QED
  BY <1>1, <1>2, <1>3, <1>4, StaysKeeps

LEMMA WriteNowKeeps ==
  ASSUME TInv, KInv, WriteNow
  PROVE  KInv'
<1> DEFINE w == NextWrite
           e == [what |-> w, parent |-> leaf, leaf |-> Root]
<1>1. w \in Writes
  BY InputRoom, HarnessAssumption DEF WriteNow, NextWrite, Writes, TInv, InputTypes
<1>2. UNCHANGED <<log, op, queue, texts, dropped>> /\ appending' = [appending EXCEPT ![w] = e]
  BY DEF WriteNow, Build
<1>3. e.what = w
  OBVIOUS
<1> HIDE DEF e, w
<1>4. Saves'
  <2>1. appending'[w] = e /\ \A t \in Threads \ {w} : appending'[t] = appending[t]
    BY <1>1, <1>2 DEF TInv, SessionTypes, Threads
  <2>2. \A d \in Calls : appending'[d] = appending[d]
    BY <1>1, <2>1, Names DEF Threads
  <2>3. e.what \notin Texts
    BY <1>1, <1>3, NotTexts
  <2>4. \A v \in Writes : appending'[v].what \notin Texts
    BY <2>1, <2>3 DEF Threads, KInv, Saves
  <2> QED
    BY <1>2, <2>2, <2>4 DEF KInv, Saves
<1>5. \A i, j \in DOMAIN log' : log'[i].what \in Texts /\ log'[i].what = log'[j].what => i = j
  BY <1>2 DEF KInv, Once
<1>6. Content(Log)' = Content(Log)
  BY <1>2, Contents, ContentsPrime
<1> QED
  BY <1>2, <1>4, <1>5, <1>6, StaysKeeps

LEMMA SendKeeps ==
  ASSUME TInv, KInv, NEW q \in Queues, Send(q)
  PROVE  KInv'
<1> DEFINE m == NextText
           s == queue[q]
<1>1. /\ texts \in Nat /\ m \in Texts /\ m[2] = texts + 1
      /\ \A x \in Texts : x[2] \in Nat /\ (x = m <=> x[2] = texts + 1)
  BY InputRoom, HarnessAssumption DEF Send, NextText, Texts, TInv, InputTypes
<1> HIDE DEF m
<1>2. /\ UNCHANGED <<log, appending, op, dropped>> /\ texts' = texts + 1
      /\ queue' = [queue EXCEPT ![q] = Append(s, m)]
  BY DEF Send, session, TInv, InputTypes, m
<1>3. queue'[q] = Append(s, m) /\ \A r \in Queues \ {q} : queue'[r] = queue[r]
  BY <1>2 DEF TInv, InputTypes
<1>4. m \notin dropped /\ \A h \in Holders : m \notin Content(h)
  BY <1>1 DEF KInv, Kept, Known, Sent
<1>5. Content(Queue(q)) = ToSet(s) \cap Texts
  BY Contents
<1>6. s \in Seq(Texts) /\ Distinct(s) /\ m \notin ToSet(s) \cap Texts
  BY <1>4, <1>5, HoldersDiffer DEF TInv, InputTypes, KInv, Once
<1>7. Distinct(Append(s, m)) /\ ToSet(Append(s, m)) = ToSet(s) \cup {m}
  BY <1>6, AppendHolds
<1> HIDE DEF s
<1>8. Content(Queue(q))' = Content(Queue(q)) \cup {m}
  <2>1. Content(Queue(q))' = ToSet(Append(s, m)) \cap Texts
    BY <1>3, ContentsPrime
  <2> QED
    BY <1>1, <1>5, <1>7, <2>1
<1>9. \A h \in Holders \ {Queue(q)} : Content(h)' = Content(h)
  <2>1. Content(Log)' = Content(Log)
    BY <1>2, Contents, ContentsPrime
  <2>2. \A d \in Calls : Content(Run(d))' = Content(Run(d))
    BY <1>2, Contents, ContentsPrime
  <2>3. ASSUME NEW r \in Queues, r # q
        PROVE  Content(Queue(r))' = Content(Queue(r))
    <3>1. queue'[r] = queue[r]
      BY <1>3, <2>3
    <3>2. Content(Queue(r))' = ToSet(queue'[r]) \cap Texts
      BY ContentsPrime
    <3>3. Content(Queue(r)) = ToSet(queue[r]) \cap Texts
      BY Contents
    <3> QED
      BY <3>1, <3>2, <3>3
  <2> QED
    BY <2>1, <2>2, <2>3, HoldersDiffer
<1>10. Apart'
  <2> SUFFICES ASSUME NEW h \in Holders, NEW k \in Holders, h # k
               PROVE  Content(h)' \cap Content(k)' = {}
    BY DEF Apart
  <2>1. Content(h) \cap Content(k) = {}
    BY DEF KInv, Kept, Apart
  <2> QED
    BY <1>4, <1>8, <1>9, <2>1
<1>11. Known' /\ Sent'
  <2>1. \A x \in Texts : (\E h \in Holders : x \in Content(h)') <=> x = m \/ \E h \in Holders : x \in Content(h)
    BY <1>8, <1>9, HoldersDiffer
  <2>2. Known'
    <3> SUFFICES ASSUME NEW x \in Texts
                 PROVE  (\E h \in Holders : x \in Content(h)') <=> x[2] <= texts' /\ x \notin dropped'
      BY DEF Known
    <3>1. (\E h \in Holders : x \in Content(h)) <=> x[2] <= texts /\ x \notin dropped
      BY DEF KInv, Kept, Known
    <3>2. x[2] <= texts + 1 <=> x[2] <= texts \/ x = m
      BY <1>1
    <3> QED
      BY <1>2, <1>4, <2>1, <3>1, <3>2
  <2>3. Sent'
    <3> SUFFICES ASSUME NEW x \in dropped
                 PROVE  x[2] <= texts + 1
      BY <1>2 DEF Sent
    <3>1. x \in Texts /\ x[2] <= texts
      BY DEF KInv, Kept, Sent, TInv, InputTypes
    <3> QED
      BY <1>1, <3>1
  <2> QED
    BY <2>2, <2>3
<1>12. Once'
  BY <1>2, <1>3, <1>7 DEF KInv, Once
<1>13. HandsEmpty'
  BY <1>2, <1>9, HoldersDiffer DEF KInv, HandsEmpty
<1>14. Saves'
  BY <1>2 DEF KInv, Saves
<1> QED
  BY <1>10, <1>11, <1>12, <1>13, <1>14 DEF KInv, Kept

LEMMA AbortKeeps ==
  ASSUME TInv, KInv, NEW a \in Aborts, Abort(a)
  PROVE  KInv'
<1> DEFINE X == ToSet(queue["steer"]) \cup ToSet(queue["followUp"])
<1>1. /\ UNCHANGED <<log, appending, texts>> /\ dropped' = dropped \cup X
      /\ queue' = [queue EXCEPT !["steer"] = <<>>, !["followUp"] = <<>>]
  BY DEF Abort, session
<1>2. \A d \in Calls : op'[d].todo = op[d].todo /\ op'[d].at = op[d].at
  <2> SUFFICES ASSUME NEW d \in Calls
               PROVE  op'[d].todo = op[d].todo /\ op'[d].at = op[d].at
    OBVIOUS
  <2>1. op'[d] = [op[d] EXCEPT !.from = "gone"] /\ op[d] \in Standings
    BY DEF Abort, TInv, CallTypes
  <2> QED
    BY <2>1 DEF Standings
<1>3. /\ queue'["steer"] = <<>> /\ queue'["followUp"] = <<>> /\ queue'["nextTurn"] = queue["nextTurn"]
      /\ Queues = {"steer", "followUp", "nextTurn"}
  BY <1>1 DEF TInv, InputTypes, Queues
<1>4. X \subseteq Texts
  BY <1>3 DEF TInv, InputTypes, ToSet
<1>5. X = Content(Queue("steer")) \cup Content(Queue("followUp"))
  <2>1. /\ Content(Queue("steer")) = ToSet(queue["steer"]) \cap Texts
        /\ Content(Queue("followUp")) = ToSet(queue["followUp"]) \cap Texts
    BY <1>3, Contents
  <2> QED
    BY <1>4, <2>1
<1> HIDE DEF X
<1>6. Content(Queue("steer"))' = {} /\ Content(Queue("followUp"))' = {}
  BY <1>3, ContentsPrime, ShortHolds
<1>7. \A h \in Holders \ {Queue("steer"), Queue("followUp")} : Content(h)' = Content(h)
  <2>1. Content(Log)' = Content(Log)
    BY <1>1, Contents, ContentsPrime
  <2>2. ASSUME NEW d \in Calls
        PROVE  Content(Run(d))' = Content(Run(d))
    <3>1. Content(Run(d))' = ToSet(op'[d].todo) \cap Texts
      BY ContentsPrime
    <3>2. Content(Run(d)) = ToSet(op[d].todo) \cap Texts
      BY Contents
    <3> QED
      BY <1>2, <3>1, <3>2
  <2>3. Content(Queue("nextTurn"))' = Content(Queue("nextTurn"))
    BY <1>3, Contents, ContentsPrime
  <2> QED
    BY <1>3, <2>1, <2>2, <2>3, HoldersDiffer
<1>8. Queue("steer") \in Holders /\ Queue("followUp") \in Holders
  BY <1>3, HoldersDiffer
<1>9. \A h \in Holders : Content(h)' = Content(h) \ X
  <2>1. \A h \in Holders \ {Queue("steer"), Queue("followUp")} : Content(h) \cap X = {}
    BY <1>5, <1>8 DEF KInv, Kept, Apart
  <2> QED
    BY <1>5, <1>6, <1>7, <2>1
<1>10. Kept'
  BY <1>1, <1>5, <1>8, <1>9, SomeDropped DEF KInv
<1>11. Once'
  BY <1>1, <1>2, <1>3, ShortHolds DEF KInv, Once
<1>12. HandsEmpty'
  BY <1>2, <1>9, HoldersDiffer DEF KInv, HandsEmpty
<1>13. Saves'
  BY <1>1, <1>2 DEF KInv, Saves
<1> QED
  BY <1>10, <1>11, <1>12, <1>13 DEF KInv

LEMMA InitKeeps == Init => KInv
<1> SUFFICES ASSUME Init
             PROVE  KInv
  OBVIOUS
<1>1. /\ log = <<>> /\ (\A q \in Queues : queue[q] = <<>>) /\ (\A c \in Calls : op[c] = Fresh)
      /\ (\A t \in Threads : appending[t] = NoEntry) /\ texts = 0 /\ dropped = {}
  BY DEF Init
<1>2. Fresh.todo = <<>> /\ Fresh.at = "ready"
  BY DEF Fresh
<1>3. \A h \in Holders : Content(h) = {}
  <2>1. Content(Log) = {}
    BY <1>1, Contents
  <2>2. \A q \in Queues : Content(Queue(q)) = {}
    BY <1>1, Contents, ShortHolds
  <2>3. \A c \in Calls : Content(Run(c)) = {}
    BY <1>1, <1>2, Contents, ShortHolds
  <2> QED
    BY <2>1, <2>2, <2>3, HoldersDiffer
<1>4. \A m \in Texts : ~(m[2] <= 0)
  BY HarnessAssumption DEF Texts
<1>5. Kept
  BY <1>1, <1>3, <1>4 DEF Kept, Apart, Known, Sent
<1>6. Once
  BY <1>1, <1>2, ShortHolds DEF Once
<1>7. HandsEmpty
  BY <1>3, HoldersDiffer DEF HandsEmpty
<1>8. Saves
  BY <1>1, <1>2, NotTexts DEF Saves, Threads
<1> QED
  BY <1>5, <1>6, <1>7, <1>8 DEF KInv

LEMMA StepKeeps ==
  ASSUME TInv, KInv, [Next]_vars
  PROVE  KInv'
<1>1. CASE \E c \in Calls : Prompt(c) \/ PromptStep(c)
  BY <1>1, BeginKeeps, SnapshotKeeps, AnnouncedKeeps, StartKeeps, SayKeeps, SaidKeeps, PollKeeps,
     HeardKeeps, StreamKeeps, ExecuteKeeps, FlushKeeps, FlushedKeeps, FlushEndsKeeps DEF PromptStep
<1>2. CASE \E c \in Calls : PromptFails(c)
  BY <1>2, StartFailsKeeps, ListenerThrowsKeeps, WriteFailsKeeps DEF PromptFails
<1>3. CASE \E c \in Calls : (\E kind \in {"compaction", "branch_summary"} : Move(c, kind)) \/ MoveStep(c) \/ MoveFails(c)
  BY <1>3, BeginKeeps, MoveBuildKeeps, MoveLandsKeeps, MoveEndsKeeps, MoveFailsKeeps DEF MoveStep
<1>4. CASE QueueWrite \/ \E a \in Aborts : AbortWaits(a) \/ AbortEnds(a)
  BY <1>4, HostKeeps
<1>5. CASE WriteNow \/ \E w \in Writes : Written(w)
  BY <1>5, WriteNowKeeps, WrittenKeeps
<1>6. CASE (\E q \in Queues : Send(q)) \/ \E a \in Aborts : Abort(a)
  BY <1>6, SendKeeps, AbortKeeps
<1>7. CASE UNCHANGED vars
  <2>1. UNCHANGED <<session, op, queue, texts, dropped>>
    BY <1>7 DEF vars, inputs
  <2>2. Saves'
    BY <2>1 DEF KInv, Saves, session
  <2>3. \A i, j \in DOMAIN log' : log'[i].what \in Texts /\ log'[i].what = log'[j].what => i = j
    BY <2>1 DEF KInv, Once, session
  <2>4. Content(Log)' = Content(Log)
    BY <2>1, Contents, ContentsPrime DEF session
  <2> QED
    BY <2>1, <2>2, <2>3, <2>4, StaysKeeps
<1> QED
  BY <1>1, <1>2, <1>3, <1>4, <1>5, <1>6, <1>7 DEF Next

-----------------------------------------------------------------------------
\* Places(m) and the contents are the same.
LEMMA PlacesOf ==
  ASSUME TInv, NEW m \in Texts
  PROVE  /\ \A q \in Queues : Contains(queue[q], m) <=> m \in Content(Queue(q))
         /\ \A c \in Calls : Contains(op[c].todo, m) <=> m \in Content(Run(c))
         /\ (\E i \in DOMAIN log : log[i].what = m) <=> m \in Content(Log)
<1>1. ASSUME NEW S, NEW s \in Seq(S)
      PROVE  Contains(s, m) <=> m \in ToSet(s) \cap Texts
  BY DOMAIN s = 1 .. Len(s) DEF Contains, ToSet
<1>2. ASSUME NEW q \in Queues
      PROVE  Contains(queue[q], m) <=> m \in Content(Queue(q))
  <2>1. queue[q] \in Seq(Texts)
    BY DEF TInv, InputTypes
  <2>2. Content(Queue(q)) = ToSet(queue[q]) \cap Texts
    BY Contents
  <2> QED
    BY <1>1, <2>1, <2>2
<1>3. ASSUME NEW c \in Calls
      PROVE  Contains(op[c].todo, m) <=> m \in Content(Run(c))
  <2>1. op[c].todo \in Seq(Whats)
    BY DEF TInv, CallTypes, Standings
  <2>2. Content(Run(c)) = ToSet(op[c].todo) \cap Texts
    BY Contents
  <2> QED
    BY <1>1, <2>1, <2>2
<1>4. (\E i \in DOMAIN log : log[i].what = m) <=> m \in Content(Log)
  BY Contents
<1> QED
  BY <1>2, <1>3, <1>4

\* Who holds a message, and where in the session it is, is one place.
LEMMA OnePlace ==
  ASSUME TInv, KInv, NEW m \in Texts, m[2] <= texts, m \notin dropped
  PROVE  \E p : Places(m) = {p}
<1>1. PICK h \in Holders : m \in Content(h)
  BY DEF KInv, Kept, Known
<1>2. \A k \in Holders : m \in Content(k) => k = h
  BY <1>1 DEF KInv, Kept, Apart
<1> DEFINE Q == {q \in Queues : Contains(queue[q], m)}
           C == {c \in Calls : Contains(op[c].todo, m)}
           I == {i \in DOMAIN log : log[i].what = m}
<1>3. Places(m) = {<<"queue", q>> : q \in Q} \cup {<<"run", c>> : c \in C} \cup {<<"log", i>> : i \in I}
  BY DEF Places
<1>4. /\ Q = {q \in Queues : Queue(q) = h} /\ C = {c \in Calls : Run(c) = h}
      /\ I # {} <=> Log = h
  <2>1. \A q \in Queues : Contains(queue[q], m) <=> Queue(q) = h
    BY <1>1, <1>2, PlacesOf, HoldersDiffer
  <2>2. \A c \in Calls : Contains(op[c].todo, m) <=> Run(c) = h
    BY <1>1, <1>2, PlacesOf, HoldersDiffer
  <2>3. (\E i \in DOMAIN log : log[i].what = m) <=> Log = h
    BY <1>1, <1>2, PlacesOf, HoldersDiffer
  <2> QED
    BY <2>1, <2>2, <2>3
<1> HIDE DEF Q, C
<1>5. CASE \E q \in Queues : h = Queue(q)
  <2>1. PICK q \in Queues : h = Queue(q)
    BY <1>5
  <2>2. Q = {q} /\ C = {} /\ I = {}
    BY <1>4, <2>1, HoldersDiffer
  <2>3. Places(m) = {<<"queue", q>>}
    BY <1>3, <2>2
  <2> QED
    BY <2>3
<1>6. CASE \E c \in Calls : h = Run(c)
  <2>1. PICK c \in Calls : h = Run(c)
    BY <1>6
  <2>2. Q = {} /\ C = {c} /\ I = {}
    BY <1>4, <2>1, HoldersDiffer
  <2>3. Places(m) = {<<"run", c>>}
    BY <1>3, <2>2
  <2> QED
    BY <2>3
<1>7. CASE h = Log
  <2>1. PICK i \in DOMAIN log : log[i].what = m
    BY <1>4, <1>7
  <2>2. Q = {} /\ C = {} /\ I = {i}
    BY <1>4, <1>7, <2>1, HoldersDiffer DEF KInv, Once
  <2>3. Places(m) = {<<"log", i>>}
    BY <1>3, <2>2
  <2> QED
    BY <2>3
<1> QED
  BY <1>5, <1>6, <1>7, HoldersDiffer

LEMMA NoPlace ==
  ASSUME TInv, KInv, NEW m \in Texts, m[2] > texts \/ m \in dropped
  PROVE  Places(m) = {}
<1>1. m[2] \in Nat /\ texts \in Nat
  BY HarnessAssumption DEF Texts, TInv, InputTypes
<1>2. \A h \in Holders : m \notin Content(h)
  BY <1>1 DEF KInv, Kept, Known
<1>3. /\ \A q \in Queues : ~Contains(queue[q], m)
      /\ \A c \in Calls : ~Contains(op[c].todo, m)
      /\ ~\E i \in DOMAIN log : log[i].what = m
  BY <1>2, PlacesOf, HoldersDiffer
<1> QED
  BY <1>3 DEF Places

\* A message that was queued is kept: it is in exactly one place, in none only when an
\* abort cleared it or what had drained it failed (agent-harness.ts:387, :544), however
\* calls interleave at their awaits, Overlap or not.
THEOREM MessagesAreKept == Spec => []MessagesKept
<1>1. TInv /\ KInv => MessagesKept
  <2> SUFFICES ASSUME TInv, KInv, NEW m \in Texts
               PROVE  Cardinality(Places(m)) = IF m[2] > texts \/ m \in dropped THEN 0 ELSE 1
    BY DEF MessagesKept
  <2>1. CASE m[2] > texts \/ m \in dropped
    <3>1. Places(m) = {}
      BY <2>1, NoPlace
    <3> QED
      BY <2>1, <3>1, FS_EmptySet
  <2>2. CASE ~(m[2] > texts \/ m \in dropped)
    <3>1. m[2] \in Nat /\ texts \in Nat
      BY HarnessAssumption DEF Texts, TInv, InputTypes
    <3>2. PICK p : Places(m) = {p}
      BY <2>2, <3>1, OnePlace
    <3> QED
      BY <2>2, <3>2, FS_Singleton
  <2> QED
    BY <2>1, <2>2
<1> QED
  BY <1>1, StepKeeps, InitKeeps, TInvHolds, PTL DEF Spec

=============================================================================
