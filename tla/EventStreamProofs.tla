------------------------- MODULE EventStreamProofs -------------------------
(***************************************************************************)
(* Theorems of EventStream, for any set of consumers and any number of     *)
(* events.                                                                 *)
(*                                                                         *)
(* IInv is the inductive invariant.  TypeOK needs that a consumer is in    *)
(* the list at most once (WaitersDiffer).  InOrder is not inductive: that  *)
(* a later event cannot overtake follows from NobodyWaitsBesideAQueue, and *)
(* Ordered states it piece by piece, with the number of the last event     *)
(* pushed as a bound on every event under way.                             *)
(***************************************************************************)
EXTENDS EventStream, SequenceTheorems, TLAPS

WaitersDiffer ==
    \A i, j \in DOMAIN waiting : i # j => waiting[i] # waiting[j]

Increasing(s) == \A i, j \in DOMAIN s : i < j => s[i] < s[j]

\* Events under way are numbered up to sent; what a consumer has is older than
\* what it is promised, and both are older than what is queued.
Ordered ==
    /\ Increasing(queue)
    /\ \A i \in DOMAIN queue : queue[i] <= sent
    /\ \A c \in Consumers :
        /\ Increasing(got[c])
        /\ \A i \in DOMAIN got[c] :
            /\ got[c][i] <= sent
            /\ promise[c] # Nothing => got[c][i] < promise[c]
            /\ \A j \in DOMAIN queue : got[c][i] < queue[j]
        /\ promise[c] \in Events =>
            /\ promise[c] <= sent
            /\ \A j \in DOMAIN queue : promise[c] < queue[j]

IInv == TypeOK /\ NobodyWaitsBesideAQueue /\ WaitersDiffer /\ Ordered

-----------------------------------------------------------------------------
\* The first of several different waiters is not among the others.
LEMMA HeadLeaves ==
  ASSUME NEW S, NEW s \in Seq(S), s # <<>>,
         \A i, j \in DOMAIN s : i # j => s[i] # s[j]
  PROVE  /\ Head(s) \in S /\ Tail(s) \in Seq(S)
         /\ \A x : x \in ToSet(s) <=> x = Head(s) \/ x \in ToSet(Tail(s))
         /\ Head(s) \notin ToSet(Tail(s))
         /\ \A i, j \in DOMAIN Tail(s) : i # j => Tail(s)[i] # Tail(s)[j]
<1>1. /\ Len(s) \in Nat \ {0} /\ DOMAIN s = 1 .. Len(s)
      /\ Head(s) = s[1] /\ Head(s) \in S /\ Tail(s) \in Seq(S)
      /\ DOMAIN Tail(s) = 1 .. Len(s) - 1
      /\ \A i \in 1 .. Len(s) - 1 : Tail(s)[i] = s[i + 1]
  OBVIOUS
<1>2. \A x : x \in ToSet(s) => x = Head(s) \/ x \in ToSet(Tail(s))
  <2> SUFFICES ASSUME NEW i \in 1 .. Len(s), i # 1
               PROVE  s[i] \in ToSet(Tail(s))
    BY <1>1 DEF ToSet
  <2>1. i - 1 \in 1 .. Len(s) - 1 /\ Tail(s)[i - 1] = s[i]
    BY <1>1
  <2> QED
    BY <1>1, <2>1 DEF ToSet
<1>3. \A x \in ToSet(Tail(s)) : x \in ToSet(s) /\ x # Head(s)
  BY <1>1 DEF ToSet
<1>4. Head(s) \in ToSet(s)
  BY <1>1 DEF ToSet
<1>5. \A i, j \in DOMAIN Tail(s) : i # j => Tail(s)[i] # Tail(s)[j]
  BY <1>1
<1> QED
  BY <1>1, <1>2, <1>3, <1>4, <1>5

\* Appending adds one element, behind the others.
LEMMA AppendFacts ==
  ASSUME NEW S, NEW s \in Seq(S), NEW e \in S
  PROVE  /\ Append(s, e) \in Seq(S)
         /\ DOMAIN Append(s, e) = 1 .. Len(s) + 1
         /\ DOMAIN s = 1 .. Len(s) /\ Len(s) \in Nat
         /\ \A i \in 1 .. Len(s) : Append(s, e)[i] = s[i]
         /\ Append(s, e)[Len(s) + 1] = e
         /\ \A x : x \in ToSet(Append(s, e)) <=> x \in ToSet(s) \/ x = e
  BY DEF ToSet

\* The tail of a sequence has its elements, one place earlier.
LEMMA TailFacts ==
  ASSUME NEW S, NEW s \in Seq(S), s # <<>>
  PROVE  /\ Len(s) \in Nat \ {0} /\ DOMAIN s = 1 .. Len(s)
         /\ Head(s) = s[1] /\ Head(s) \in S /\ Tail(s) \in Seq(S)
         /\ DOMAIN Tail(s) = 1 .. Len(s) - 1
         /\ \A i \in 1 .. Len(s) - 1 : Tail(s)[i] = s[i + 1] /\ i + 1 \in DOMAIN s
  OBVIOUS

LEMMA InitInv == Init => IInv
<1> SUFFICES ASSUME Init
             PROVE  IInv
  OBVIOUS
<1>1. DataTypes
  BY EventsAssumption DEF Init, DataTypes
<1>2. FlagTypes
  BY DEF Init, FlagTypes
<1>3. WaitingIsListed
  BY DEF Init, WaitingIsListed, ToSet
<1>4. NobodyWaitsBesideAQueue /\ WaitersDiffer
  BY DEF Init, NobodyWaitsBesideAQueue, WaitersDiffer
<1>5. Ordered
  BY EventsAssumption DEF Init, Ordered, Increasing, Events, Nothing
<1> QED
  BY <1>1, <1>2, <1>3, <1>4, <1>5 DEF IInv, TypeOK, DataTypes

\* Events under way are numbers up to sent.
LEMMA EventTypes ==
  ASSUME IInv
  PROVE  /\ sent \in Nat
         /\ \A i \in DOMAIN queue : queue[i] \in Nat /\ queue[i] <= sent
         /\ \A c \in Consumers : \A i \in DOMAIN got[c] : got[c][i] \in Nat /\ got[c][i] <= sent
         /\ \A c \in Consumers : promise[c] \in Nat
<1>1. \A n \in Events : n \in Nat
  BY DEF Events
<1>2. \A i \in DOMAIN queue : queue[i] \in Events
  BY DEF IInv, TypeOK, DataTypes
<1>3. \A c \in Consumers : \A i \in DOMAIN got[c] : got[c][i] \in Events
  BY DEF IInv, TypeOK, DataTypes
<1>4. sent \in Nat /\ \A c \in Consumers : promise[c] \in Nat
  BY <1>1, EventsAssumption DEF IInv, TypeOK, DataTypes, Nothing, Over
<1> QED
  BY <1>1, <1>2, <1>3, <1>4 DEF IInv, Ordered

\* A push keeps types and order: the new event is the youngest, and it goes to
\* a waiter only when nothing is queued.
LEMMA PushInv ==
  ASSUME IInv, NEW complete \in BOOLEAN, Push(complete)
  PROVE  IInv'
<1> DEFINE e == sent + 1
<1>1. /\ e \in Events /\ e # Nothing /\ e # Over
      /\ sent' = e /\ done' \in BOOLEAN /\ result' \in BOOLEAN
  BY EventsAssumption DEF IInv, TypeOK, DataTypes, FlagTypes, Push, Events, Nothing, Over
<1>2. CASE waiting # <<>>
  <2> DEFINE w == Head(waiting)
  <2>1. /\ queue = <<>> /\ queue' = <<>> /\ waiting' = Tail(waiting)
        /\ promise' = [promise EXCEPT ![w] = e]
        /\ pc' = pc /\ got' = got /\ ended' = ended
    BY <1>2 DEF IInv, NobodyWaitsBesideAQueue, Push, Deliver
  <2>2. /\ w \in Consumers /\ waiting' \in Seq(Consumers)
        /\ \A x : x \in ToSet(waiting) <=> x = w \/ x \in ToSet(waiting')
        /\ w \notin ToSet(waiting')
        /\ WaitersDiffer'
    BY <1>2, <2>1, HeadLeaves DEF IInv, TypeOK, DataTypes, WaitersDiffer
  <2>3. promise[w] = Nothing /\ w \in ToSet(waiting)
    BY <2>2 DEF IInv, TypeOK, WaitingIsListed
  <2>4. TypeOK'
    <3>1. promise' \in [Consumers -> {Nothing, Over} \cup Events]
      BY <1>1, <2>1, <2>2 DEF IInv, TypeOK, DataTypes
    <3>2. \A c \in Consumers : (c = w /\ promise'[c] = e) \/ (c # w /\ promise'[c] = promise[c])
      BY <2>1, <2>2 DEF IInv, TypeOK, DataTypes
    <3>3. WaitingIsListed'
      BY <1>1, <2>1, <2>2, <2>3, <3>2 DEF IInv, TypeOK, WaitingIsListed
    <3>4. DataTypes'
      BY <1>1, <2>1, <2>2, <3>1, EventsAssumption DEF IInv, TypeOK, DataTypes, Events
    <3>5. FlagTypes'
      BY <1>1, <2>1 DEF IInv, TypeOK, FlagTypes
    <3> QED
      BY <3>3, <3>4, <3>5 DEF TypeOK
  <2>5. Ordered'
    <3>1. \A c \in Consumers : (c = w /\ promise'[c] = e) \/ (c # w /\ promise'[c] = promise[c])
      BY <2>1, <2>2 DEF IInv, TypeOK, DataTypes
    <3>2. DOMAIN queue' = {} /\ Increasing(queue')
      BY <2>1 DEF Increasing
    <3>3. ASSUME NEW c \in Consumers, NEW i \in DOMAIN got[c]
          PROVE  got[c][i] <= e /\ (promise'[c] # Nothing => got[c][i] < promise'[c])
      BY <3>1, EventTypes DEF IInv, Ordered
    <3>4. ASSUME NEW c \in Consumers, promise'[c] \in Events
          PROVE  promise'[c] <= e
      <4>1. promise[c] \in Events => promise[c] <= sent
        BY DEF IInv, Ordered
      <4> QED
        BY <3>1, <3>4, <4>1, EventTypes
    <3> QED
      BY <1>1, <2>1, <3>2, <3>3, <3>4 DEF IInv, Ordered
  <2> QED
    BY <2>1, <2>2, <2>4, <2>5 DEF IInv, NobodyWaitsBesideAQueue
<1>3. CASE waiting = <<>>
  <2>1. /\ queue' = Append(queue, e) /\ waiting' = <<>> /\ promise' = promise
        /\ pc' = pc /\ got' = got /\ ended' = ended
    BY <1>3 DEF Push, Deliver
  <2>2. /\ queue' \in Seq(Events)
        /\ DOMAIN queue' = 1 .. Len(queue) + 1
        /\ DOMAIN queue = 1 .. Len(queue) /\ Len(queue) \in Nat
        /\ \A i \in 1 .. Len(queue) : queue'[i] = queue[i]
        /\ queue'[Len(queue) + 1] = e
    BY <1>1, <2>1, AppendFacts DEF IInv, TypeOK, DataTypes
  <2>3. TypeOK'
    <3>1. DataTypes'
      BY <1>1, <1>3, <2>1, <2>2, EventsAssumption DEF IInv, TypeOK, DataTypes, Events
    <3>2. FlagTypes'
      BY <1>1, <2>1 DEF IInv, TypeOK, FlagTypes
    <3>3. WaitingIsListed'
      BY <1>3, <2>1 DEF IInv, TypeOK, WaitingIsListed
    <3> QED
      BY <3>1, <3>2, <3>3 DEF TypeOK
  <2>4. Ordered'
    <3>1. Increasing(queue') /\ \A i \in DOMAIN queue' : queue'[i] <= e
      <4>1. Increasing(queue)
        BY DEF IInv, Ordered
      <4> QED
        BY <2>2, <4>1, EventTypes DEF Increasing
    <3>2. ASSUME NEW c \in Consumers, NEW i \in DOMAIN got[c]
          PROVE  got[c][i] <= e /\ \A j \in DOMAIN queue' : got[c][i] < queue'[j]
      <4>1. \A j \in DOMAIN queue : got[c][i] < queue[j]
        BY DEF IInv, Ordered
      <4> QED
        BY <2>2, <4>1, EventTypes
    <3>3. ASSUME NEW c \in Consumers, promise[c] \in Events
          PROVE  promise[c] <= e /\ \A j \in DOMAIN queue' : promise[c] < queue'[j]
      <4>1. promise[c] <= sent /\ \A j \in DOMAIN queue : promise[c] < queue[j]
        BY <3>3 DEF IInv, Ordered
      <4> QED
        BY <2>2, <4>1, EventTypes
    <3> QED
      BY <1>1, <2>1, <3>1, <3>2, <3>3 DEF IInv, Ordered
  <2> QED
    BY <1>3, <2>1, <2>3, <2>4 DEF IInv, NobodyWaitsBesideAQueue, WaitersDiffer
<1> QED
  BY <1>2, <1>3

\* After end nobody is in the list; who was has been told.
LEMMA EndInv ==
  ASSUME IInv, NEW withResult \in BOOLEAN, End(withResult)
  PROVE  IInv'
<1>1. /\ waiting' = <<>> /\ queue' = queue /\ sent' = sent /\ pc' = pc /\ got' = got
      /\ promise' = [c \in Consumers |-> IF c \in ToSet(waiting) THEN Over ELSE promise[c]]
  BY DEF End
<1>2. DataTypes'
  BY <1>1 DEF IInv, TypeOK, DataTypes
<1>3. FlagTypes'
  BY DEF IInv, TypeOK, FlagTypes, End
<1>4. Over # Nothing /\ Over \notin Events
  BY EventsAssumption DEF Over, Nothing, Events
<1>5. ToSet(waiting') = {}
  BY <1>1 DEF ToSet
<1>6. \A c \in Consumers :
        \/ c \in ToSet(waiting) /\ promise'[c] = Over /\ promise[c] = Nothing
        \/ c \notin ToSet(waiting) /\ promise'[c] = promise[c]
  BY <1>1 DEF IInv, TypeOK, WaitingIsListed
<1>7. WaitingIsListed'
  BY <1>1, <1>4, <1>5, <1>6 DEF IInv, TypeOK, WaitingIsListed
<1>8. Ordered'
  <2>1. ASSUME NEW c \in Consumers, NEW i \in DOMAIN got[c], promise'[c] # Nothing
        PROVE  got[c][i] < promise'[c]
    <3>1. got[c][i] \in Events
      BY DEF IInv, TypeOK, DataTypes
    <3>2. got[c][i] < Over
      BY <3>1, EventsAssumption DEF Events, Over
    <3> QED
      BY <1>6, <2>1, <3>2 DEF IInv, Ordered
  <2>2. ASSUME NEW c \in Consumers, promise'[c] \in Events
        PROVE  promise'[c] = promise[c]
    BY <1>4, <1>6, <2>2
  <2> QED
    BY <1>1, <2>1, <2>2 DEF IInv, Ordered
<1> QED
  BY <1>1, <1>2, <1>3, <1>7, <1>8 DEF IInv, TypeOK, NobodyWaitsBesideAQueue, WaitersDiffer

\* A consumer that receives an event newer than all it has keeps its order.
LEMMA ReceiveOrder ==
  ASSUME IInv, NEW c \in Consumers, NEW e \in Events, e <= sent,
         \A i \in DOMAIN got[c] : got[c][i] < e,
         Receive(c, e)
  PROVE  /\ got' \in [Consumers -> Seq(Events)]
         /\ \A d \in Consumers : d # c => got'[d] = got[d]
         /\ Increasing(got'[c])
         /\ \A i \in DOMAIN got'[c] :
              got'[c][i] \in Nat /\ got'[c][i] <= e /\ got'[c][i] <= sent
<1>1. got[c] \in Seq(Events) /\ got' = [got EXCEPT ![c] = Append(got[c], e)]
      /\ got \in [Consumers -> Seq(Events)]
  BY DEF IInv, TypeOK, DataTypes, Receive
<1>2. got'[c] = Append(got[c], e) /\ \A d \in Consumers : d # c => got'[d] = got[d]
  BY <1>1
<1>3. /\ DOMAIN got'[c] = 1 .. Len(got[c]) + 1
      /\ DOMAIN got[c] = 1 .. Len(got[c]) /\ Len(got[c]) \in Nat
      /\ \A i \in 1 .. Len(got[c]) : got'[c][i] = got[c][i]
      /\ got'[c][Len(got[c]) + 1] = e
      /\ got'[c] \in Seq(Events)
  BY <1>1, <1>2, AppendFacts
<1>4. e \in Nat
  BY DEF Events
<1>5. Increasing(got[c])
  BY DEF IInv, Ordered
<1>6. \A i \in 1 .. Len(got[c]) : got[c][i] \in Nat /\ got[c][i] < e /\ got[c][i] <= sent
  BY <1>3, EventTypes
<1>7. Increasing(got'[c])
  <2> SUFFICES ASSUME NEW i \in 1 .. Len(got[c]) + 1, NEW j \in 1 .. Len(got[c]) + 1, i < j
               PROVE  got'[c][i] < got'[c][j]
    BY <1>3 DEF Increasing
  <2>1. i \in 1 .. Len(got[c]) /\ got'[c][i] = got[c][i]
    BY <1>3
  <2>2. CASE j = Len(got[c]) + 1
    BY <1>3, <1>6, <2>1, <2>2
  <2>3. CASE j # Len(got[c]) + 1
    <3>1. j \in 1 .. Len(got[c]) /\ got'[c][j] = got[c][j]
      BY <1>3, <2>3
    <3> QED
      BY <1>3, <1>5, <2>1, <3>1 DEF Increasing
  <2> QED
    BY <2>2, <2>3
<1> QED
  BY <1>1, <1>2, <1>3, <1>4, <1>6, <1>7, EventTypes

\* A consumer takes the oldest queued event, which is newer than all it has.
LEMMA TakeInv ==
  ASSUME IInv, NEW c \in Consumers, Take(c)
  PROVE  IInv'
<1> DEFINE e == Head(queue)
<1>1. /\ pc[c] = "ready" /\ queue # <<>> /\ Receive(c, e) /\ queue' = Tail(queue)
      /\ UNCHANGED <<sent, waiting, pc, promise>> /\ UNCHANGED <<done, result, ended>>
  BY DEF Take
<1>2. /\ Len(queue) \in Nat \ {0} /\ DOMAIN queue = 1 .. Len(queue)
      /\ e = queue[1] /\ e \in Events /\ queue' \in Seq(Events)
      /\ DOMAIN queue' = 1 .. Len(queue) - 1
      /\ \A i \in 1 .. Len(queue) - 1 : queue'[i] = queue[i + 1] /\ i + 1 \in DOMAIN queue
  BY <1>1, TailFacts DEF IInv, TypeOK, DataTypes
<1>3. promise[c] = Nothing /\ waiting = <<>>
  BY <1>1 DEF IInv, TypeOK, WaitingIsListed, NobodyWaitsBesideAQueue
<1>4. e <= sent /\ \A i \in DOMAIN got[c] : got[c][i] < e
  BY <1>2 DEF IInv, Ordered
<1>5. /\ got' \in [Consumers -> Seq(Events)]
      /\ \A d \in Consumers : d # c => got'[d] = got[d]
      /\ Increasing(got'[c])
      /\ \A i \in DOMAIN got'[c] : got'[c][i] \in Nat /\ got'[c][i] <= e /\ got'[c][i] <= sent
  BY <1>1, <1>2, <1>4, ReceiveOrder
<1>6. TypeOK'
  <2>1. DataTypes'
    BY <1>1, <1>2, <1>5 DEF IInv, TypeOK, DataTypes
  <2>2. FlagTypes'
    BY <1>1 DEF IInv, TypeOK, FlagTypes
  <2>3. WaitingIsListed'
    BY <1>1 DEF IInv, TypeOK, WaitingIsListed
  <2> QED
    BY <2>1, <2>2, <2>3 DEF TypeOK
<1>7. Ordered'
  <2>1. Increasing(queue)
    BY DEF IInv, Ordered
  <2>2. /\ Increasing(queue')
        /\ \A j \in DOMAIN queue' : queue'[j] \in Nat /\ e < queue'[j] /\ queue'[j] <= sent
    <3>1. \A j \in DOMAIN queue' :
            queue'[j] = queue[j + 1] /\ j + 1 \in DOMAIN queue /\ 1 < j + 1 /\ j \in Nat
      BY <1>2
    <3>2. Increasing(queue')
      BY <2>1, <3>1 DEF Increasing
    <3>3. ASSUME NEW j \in DOMAIN queue'
          PROVE  queue'[j] \in Nat /\ e < queue'[j] /\ queue'[j] <= sent
      <4>1. queue[j + 1] \in Nat /\ queue[j + 1] <= sent
        BY <3>1, EventTypes
      <4>2. queue[1] < queue[j + 1]
        BY <1>2, <2>1, <3>1 DEF Increasing
      <4> QED
        BY <1>2, <3>1, <4>1, <4>2
    <3> QED
      BY <3>2, <3>3
  <2>3. ASSUME NEW i \in DOMAIN got'[c], NEW j \in DOMAIN queue'
        PROVE  got'[c][i] < queue'[j]
    <3>1. got'[c][i] \in Nat /\ got'[c][i] <= e
      BY <1>5
    <3>2. e < queue'[j] /\ queue'[j] \in Nat /\ e \in Nat
      BY <1>2, <2>2 DEF Events
    <3> QED
      BY <3>1, <3>2
  <2>4. ASSUME NEW d \in Consumers, d # c
        PROVE  /\ Increasing(got'[d])
               /\ \A i \in DOMAIN got'[d] :
                    /\ got'[d][i] <= sent
                    /\ promise[d] # Nothing => got'[d][i] < promise[d]
                    /\ \A j \in DOMAIN queue' : got'[d][i] < queue'[j]
    BY <1>2, <1>5, <2>4 DEF IInv, Ordered
  <2>5. ASSUME NEW d \in Consumers, promise[d] \in Events
        PROVE  promise[d] <= sent /\ \A j \in DOMAIN queue' : promise[d] < queue'[j]
    BY <1>2, <2>5 DEF IInv, Ordered
  <2> QED
    BY <1>1, <1>3, <1>5, <2>2, <2>3, <2>4, <2>5 DEF Ordered
<1> QED
  BY <1>1, <1>3, <1>6, <1>7 DEF IInv, NobodyWaitsBesideAQueue, WaitersDiffer

\* A consumer stops without a trace in the stream.
LEMMA StopInv ==
  ASSUME IInv, NEW c \in Consumers, Stop(c)
  PROVE  IInv'
<1>1. /\ pc[c] = "ready" /\ pc' = [pc EXCEPT ![c] = "stopped"]
      /\ UNCHANGED <<sent, queue, waiting, promise, got>> /\ UNCHANGED <<done, result, ended>>
  BY DEF Stop, stream
<1>2. DataTypes'
  BY <1>1 DEF IInv, TypeOK, DataTypes
<1>3. FlagTypes'
  BY <1>1 DEF IInv, TypeOK, FlagTypes
<1>4. WaitingIsListed'
  BY <1>1 DEF IInv, TypeOK, DataTypes, WaitingIsListed
<1> QED
  BY <1>1, <1>2, <1>3, <1>4
     DEF IInv, TypeOK, NobodyWaitsBesideAQueue, WaitersDiffer, Ordered

\* A consumer joins the list only when nothing is queued, and only once.
LEMMA WaitInv ==
  ASSUME IInv, NEW c \in Consumers, Wait(c)
  PROVE  IInv'
<1>1. /\ pc[c] = "ready" /\ queue = <<>> /\ pc' = [pc EXCEPT ![c] = "waiting"]
      /\ waiting' = Append(waiting, c)
      /\ UNCHANGED <<sent, queue, promise, got>> /\ UNCHANGED <<done, result, ended>>
  BY DEF Wait
<1>2. c \notin ToSet(waiting) /\ promise[c] = Nothing
  BY <1>1 DEF IInv, TypeOK, WaitingIsListed
<1>3. /\ waiting' \in Seq(Consumers)
      /\ DOMAIN waiting' = 1 .. Len(waiting) + 1
      /\ DOMAIN waiting = 1 .. Len(waiting) /\ Len(waiting) \in Nat
      /\ \A i \in 1 .. Len(waiting) : waiting'[i] = waiting[i]
      /\ waiting'[Len(waiting) + 1] = c
      /\ \A x : x \in ToSet(waiting') <=> x \in ToSet(waiting) \/ x = c
  BY <1>1, AppendFacts DEF IInv, TypeOK, DataTypes
<1>4. DataTypes'
  BY <1>1, <1>3 DEF IInv, TypeOK, DataTypes
<1>5. FlagTypes'
  BY <1>1 DEF IInv, TypeOK, FlagTypes
<1>6. WaitingIsListed'
  BY <1>1, <1>2, <1>3 DEF IInv, TypeOK, DataTypes, WaitingIsListed
<1>7. WaitersDiffer'
  <2>1. \A i \in 1 .. Len(waiting) : waiting[i] # c
    BY <1>2, <1>3 DEF ToSet
  <2> QED
    BY <1>3, <2>1 DEF IInv, WaitersDiffer
<1> QED
  BY <1>1, <1>4, <1>5, <1>6, <1>7 DEF IInv, TypeOK, NobodyWaitsBesideAQueue, Ordered

\* A consumer gets what it was promised, which is newer than all it has.
LEMMA ResumeInv ==
  ASSUME IInv, NEW c \in Consumers, Resume(c)
  PROVE  IInv'
<1>1. /\ pc[c] = "waiting" /\ promise[c] # Nothing
      /\ promise' = [promise EXCEPT ![c] = Nothing]
      /\ UNCHANGED <<sent, queue, waiting>> /\ UNCHANGED <<done, result, ended>>
  BY DEF Resume, stream
<1>2. FlagTypes'
  BY <1>1 DEF IInv, TypeOK, FlagTypes
<1>3. promise'[c] = Nothing /\ \A d \in Consumers : d # c => promise'[d] = promise[d]
  BY <1>1 DEF IInv, TypeOK, DataTypes
<1>4. c \notin ToSet(waiting)
  BY <1>1 DEF IInv, TypeOK, WaitingIsListed
<1>5. Nothing \notin Events
  BY DEF Nothing, Events
<1>6. CASE promise[c] = Over
  <2>1. pc' = [pc EXCEPT ![c] = "stopped"] /\ got' = got
    BY <1>6 DEF Resume
  <2>2. DataTypes'
    BY <1>1, <2>1 DEF IInv, TypeOK, DataTypes
  <2>3. WaitingIsListed'
    BY <1>1, <1>3, <1>4, <2>1 DEF IInv, TypeOK, DataTypes, WaitingIsListed
  <2>4. Ordered'
    BY <1>1, <1>3, <1>5, <2>1 DEF IInv, Ordered
  <2> QED
    BY <1>1, <1>2, <2>2, <2>3, <2>4 DEF IInv, TypeOK, NobodyWaitsBesideAQueue, WaitersDiffer
<1>7. CASE promise[c] # Over
  <2> DEFINE e == promise[c]
  <2>1. pc' = [pc EXCEPT ![c] = "ready"] /\ Receive(c, e)
    BY <1>7 DEF Resume
  <2>2. e \in Events
    BY <1>1, <1>7 DEF IInv, TypeOK, DataTypes
  <2>3. /\ e <= sent /\ \A i \in DOMAIN got[c] : got[c][i] < e
        /\ \A j \in DOMAIN queue : e < queue[j]
    BY <1>1, <2>2 DEF IInv, Ordered
  <2>4. /\ got' \in [Consumers -> Seq(Events)]
        /\ \A d \in Consumers : d # c => got'[d] = got[d]
        /\ Increasing(got'[c])
        /\ \A i \in DOMAIN got'[c] : got'[c][i] \in Nat /\ got'[c][i] <= e /\ got'[c][i] <= sent
    BY <2>1, <2>2, <2>3, ReceiveOrder
  <2>5. DataTypes'
    BY <1>1, <2>1, <2>4 DEF IInv, TypeOK, DataTypes
  <2>6. WaitingIsListed'
    BY <1>1, <1>3, <1>4, <2>1 DEF IInv, TypeOK, DataTypes, WaitingIsListed
  <2>7. Ordered'
    <3>1. \A i \in DOMAIN got'[c] : \A j \in DOMAIN queue : got'[c][i] < queue[j]
      BY <2>3, <2>4, EventTypes
    <3>2. ASSUME NEW d \in Consumers, d # c
          PROVE  /\ Increasing(got'[d])
                 /\ \A i \in DOMAIN got'[d] :
                      /\ got'[d][i] <= sent
                      /\ promise'[d] # Nothing => got'[d][i] < promise'[d]
                      /\ \A j \in DOMAIN queue : got'[d][i] < queue[j]
                 /\ promise'[d] \in Events =>
                      promise'[d] <= sent /\ \A j \in DOMAIN queue : promise'[d] < queue[j]
      BY <1>3, <2>4, <3>2 DEF IInv, Ordered
    <3> QED
      BY <1>1, <1>3, <1>5, <2>4, <3>1, <3>2 DEF IInv, Ordered
  <2> QED
    BY <1>1, <1>2, <2>5, <2>6, <2>7 DEF IInv, TypeOK, NobodyWaitsBesideAQueue, WaitersDiffer
<1> QED
  BY <1>6, <1>7

\* Every step keeps the invariant.
LEMMA StepInv == IInv /\ [Next]_vars => IInv'
<1> SUFFICES ASSUME IInv, [Next]_vars
             PROVE  IInv'
  OBVIOUS
<1>1. ASSUME NEW b \in BOOLEAN, Push(b) PROVE IInv'
  BY <1>1, PushInv
<1>2. ASSUME NEW b \in BOOLEAN, End(b) PROVE IInv'
  BY <1>2, EndInv
<1>3. ASSUME NEW c \in Consumers, Consume(c) PROVE IInv'
  BY <1>3, TakeInv, StopInv, WaitInv, ResumeInv DEF Consume
<1>4. CASE UNCHANGED vars
  BY <1>4 DEF vars, stream, IInv, TypeOK, DataTypes, FlagTypes, WaitingIsListed,
        NobodyWaitsBesideAQueue, WaitersDiffer, Ordered, Increasing, ToSet
<1> QED
  BY <1>1, <1>2, <1>3, <1>4 DEF Next

\* The inductive invariant holds throughout.
LEMMA Invariance == Spec => []IInv
<1> QED
  BY InitInv, StepInv, PTL DEF Spec

-----------------------------------------------------------------------------
\* Every variable keeps its type, and a consumer waits exactly as long as it is
\* in the list or has a promise that was resolved (push, end, asyncIterator).
THEOREM TypeCorrect == Spec => []TypeOK
<1>1. IInv => TypeOK
  BY DEF IInv
<1> QED
  BY <1>1, Invariance, PTL

\* The queue holds something only if nobody waits: push serves a waiter before
\* it queues, and a consumer waits only when nothing is queued.
THEOREM NobodyWaits == Spec => []NobodyWaitsBesideAQueue
<1>1. IInv => NobodyWaitsBesideAQueue
  BY DEF IInv
<1> QED
  BY <1>1, Invariance, PTL

\* Two increasing sequences, the first below the second, make one.
LEMMA ConcatIncreasing ==
  ASSUME NEW s \in Seq(Nat), NEW t \in Seq(Nat), Increasing(s), Increasing(t),
         \A i \in DOMAIN s : \A j \in DOMAIN t : s[i] < t[j]
  PROVE  /\ s \o t \in Seq(Nat) /\ Increasing(s \o t)
         /\ \A k \in DOMAIN (s \o t) :
              \/ \E i \in DOMAIN s : (s \o t)[k] = s[i]
              \/ \E j \in DOMAIN t : (s \o t)[k] = t[j]
<1> DEFINE u == s \o t
<1>1. /\ u \in Seq(Nat) /\ DOMAIN u = 1 .. Len(s) + Len(t)
      /\ DOMAIN s = 1 .. Len(s) /\ DOMAIN t = 1 .. Len(t) /\ Len(s) \in Nat /\ Len(t) \in Nat
  OBVIOUS
<1>2. \A k \in DOMAIN u :
        \/ k \in DOMAIN s /\ u[k] = s[k]
        \/ k > Len(s) /\ k - Len(s) \in DOMAIN t /\ u[k] = t[k - Len(s)]
  OBVIOUS
<1> HIDE DEF u
<1>3. ASSUME NEW i \in DOMAIN u, NEW j \in DOMAIN u, i < j
      PROVE  u[i] < u[j]
  <2>1. CASE j \in DOMAIN s /\ u[j] = s[j]
    <3>1. i \in DOMAIN s /\ u[i] = s[i]
      BY <1>1, <1>2, <1>3, <2>1
    <3> QED
      BY <1>3, <2>1, <3>1 DEF Increasing
  <2>2. CASE j > Len(s) /\ j - Len(s) \in DOMAIN t /\ u[j] = t[j - Len(s)]
    <3>1. CASE i \in DOMAIN s /\ u[i] = s[i]
      BY <2>2, <3>1
    <3>2. CASE i > Len(s) /\ i - Len(s) \in DOMAIN t /\ u[i] = t[i - Len(s)]
      <4>1. i - Len(s) < j - Len(s)
        BY <1>1, <1>3
      <4> QED
        BY <2>2, <3>2, <4>1 DEF Increasing
    <3> QED
      BY <1>2, <3>1, <3>2
  <2> QED
    BY <1>2, <2>1, <2>2
<1>4. Increasing(u)
  BY <1>3 DEF Increasing
<1>5. \A k \in DOMAIN u : (\E i \in DOMAIN s : u[k] = s[i]) \/ (\E j \in DOMAIN t : u[k] = t[j])
  BY <1>2
<1> QED
  BY <1>1, <1>4, <1>5 DEF u

\* Each consumer sees its events in the order in which they were pushed,
\* whichever of them reached it through a promise and which through the queue.
THEOREM EventsInOrder == Spec => []InOrder
<1>1. IInv => InOrder
  <2> SUFFICES ASSUME IInv, NEW c \in Consumers
               PROVE  Increasing(got[c] \o
                        (IF promise[c] \in Events THEN <<promise[c]>> ELSE <<>>) \o queue)
    BY DEF InOrder, Increasing
  <2> DEFINE p == IF promise[c] \in Events THEN <<promise[c]>> ELSE <<>>
  <2>1. got[c] \in Seq(Nat) /\ queue \in Seq(Nat) /\ p \in Seq(Nat)
    <3>1. got[c] \in Seq(Events) /\ queue \in Seq(Events)
      BY DEF IInv, TypeOK, DataTypes
    <3>2. \A n \in Events : n \in Nat
      BY DEF Events
    <3> QED
      BY <3>1, <3>2
  <2>2. Increasing(got[c]) /\ Increasing(queue) /\ Increasing(p)
    BY DEF IInv, Ordered, Increasing
  <2>3. \A j \in DOMAIN p : promise[c] \in Events /\ p[j] = promise[c]
    OBVIOUS
  <2>4. \A i \in DOMAIN got[c] : \A j \in DOMAIN p : got[c][i] < p[j]
    BY <2>3 DEF IInv, Ordered, Events, Nothing
  <2>5. \A i \in DOMAIN p : \A j \in DOMAIN queue : p[i] < queue[j]
    BY <2>3 DEF IInv, Ordered
  <2>6. \A i \in DOMAIN got[c] : \A j \in DOMAIN queue : got[c][i] < queue[j]
    BY DEF IInv, Ordered
  <2> HIDE DEF p
  <2> DEFINE s == got[c] \o p
  <2>7. /\ s \in Seq(Nat) /\ Increasing(s)
        /\ \A k \in DOMAIN s :
             (\E i \in DOMAIN got[c] : s[k] = got[c][i]) \/ (\E j \in DOMAIN p : s[k] = p[j])
    BY <2>1, <2>2, <2>4, ConcatIncreasing
  <2> HIDE DEF s
  <2>8. \A k \in DOMAIN s : \A j \in DOMAIN queue : s[k] < queue[j]
    BY <2>5, <2>6, <2>7
  <2>9. Increasing(s \o queue)
    BY <2>1, <2>2, <2>7, <2>8, ConcatIncreasing
  <2> QED
    BY <2>9 DEF s, p
<1> QED
  BY <1>1, Invariance, PTL

-----------------------------------------------------------------------------
(* Every event is somewhere, and only once.                                 *)

Delivered == NoneIsLost /\ NoneIsShared

\* A step that moves no event keeps all of them where they are.
LEMMA NothingMoves ==
  ASSUME Delivered, sent' = sent, queue' = queue,
         \A c \in Consumers : Held(c)' = Held(c)
  PROVE  Delivered'
  BY DEF Delivered, NoneIsLost, NoneIsShared

\* What a consumer takes from the queue it holds alone.
LEMMA TakeMoves ==
  ASSUME Delivered, NEW c \in Consumers, NEW e, sent' = sent,
         ToSet(queue) = ToSet(queue') \cup {e}, e \notin ToSet(queue'),
         Held(c)' = Held(c) \cup {e},
         \A d \in Consumers : d # c => Held(d)' = Held(d)
  PROVE  Delivered'
<1>1. ASSUME NEW n \in 1 .. sent
      PROVE  n \in ToSet(queue') \/ \E d \in Consumers : n \in Held(d)'
  <2>1. CASE n \in ToSet(queue)
    BY <2>1
  <2>2. CASE \E d \in Consumers : n \in Held(d)
    <3>1. PICK d \in Consumers : n \in Held(d)
      BY <2>2
    <3>2. n \in Held(d)'
      BY <3>1
    <3> QED
      BY <3>2
  <2> QED
    BY <2>1, <2>2 DEF Delivered, NoneIsLost
<1>2. ASSUME NEW d \in Consumers
      PROVE  Held(d)' \cap ToSet(queue') = {}
  BY DEF Delivered, NoneIsShared
<1>3. ASSUME NEW d \in Consumers, NEW f \in Consumers, d # f
      PROVE  Held(d)' \cap Held(f)' = {}
  BY <1>3 DEF Delivered, NoneIsShared
<1> QED
  BY <1>1, <1>2, <1>3 DEF Delivered, NoneIsLost, NoneIsShared

\* No event that is under way has a number beyond sent.
LEMMA HeldBound ==
  ASSUME IInv
  PROVE  /\ sent \in Nat
         /\ \A n \in ToSet(queue) : n \in Nat /\ n <= sent
         /\ \A c \in Consumers : \A n \in Held(c) : n \in Nat /\ n <= sent
<1>1. \A n \in Events : n \in Nat
  BY DEF Events
<1>2. \A n \in ToSet(queue) : n \in Nat /\ n <= sent
  BY EventTypes DEF ToSet
<1>3. ASSUME NEW c \in Consumers, NEW n \in Held(c)
      PROVE  n \in Nat /\ n <= sent
  <2>1. CASE n \in ToSet(got[c])
    BY <2>1, EventTypes DEF ToSet
  <2>2. CASE n = promise[c] /\ n \in Events
    BY <1>1, <2>2 DEF IInv, Ordered
  <2> QED
    BY <1>3, <2>1, <2>2 DEF Held
<1> QED
  BY <1>2, <1>3, EventTypes

\* A new event goes to one waiter, who was promised nothing, or into the queue.
LEMMA PushDelivers ==
  ASSUME IInv, Delivered, NEW complete \in BOOLEAN, Push(complete)
  PROVE  Delivered'
<1> DEFINE e == sent + 1
<1>1. sent' = e /\ got' = got /\ sent \in Nat
  BY HeldBound DEF Push
<1>2. /\ e \notin ToSet(queue)
      /\ \A c \in Consumers : e \notin Held(c)
  BY <1>1, HeldBound
<1>3. e \in Events /\ Nothing \notin Events
  BY EventsAssumption DEF IInv, TypeOK, DataTypes, Push, Events, Nothing
<1>4. \A n \in 1 .. sent' : n \in 1 .. sent \/ n = e
  BY <1>1
<1> HIDE DEF e
<1>5. CASE waiting # <<>>
  <2>0. PICK w \in Consumers : w = Head(waiting) /\ w \in ToSet(waiting)
    BY <1>5, HeadLeaves DEF IInv, TypeOK, DataTypes, WaitersDiffer
  <2>1. queue' = queue /\ promise' = [promise EXCEPT ![w] = e]
    BY <1>5, <2>0 DEF Push, Deliver, e
  <2>3. promise[w] = Nothing
    BY <2>0 DEF IInv, TypeOK, WaitingIsListed
  <2>4. promise'[w] = e /\ \A d \in Consumers : d # w => promise'[d] = promise[d]
    BY <2>1 DEF IInv, TypeOK, DataTypes
  <2>5. Held(w)' = Held(w) \cup {e}
    BY <1>1, <1>3, <2>3, <2>4 DEF Held
  <2>6. \A d \in Consumers : d # w => Held(d)' = Held(d)
    BY <1>1, <2>4 DEF Held
  <2>7. ASSUME NEW n \in 1 .. sent'
        PROVE  n \in ToSet(queue') \/ \E d \in Consumers : n \in Held(d)'
    <3>1. CASE n = e
      BY <2>5, <3>1
    <3>2. CASE n \in 1 .. sent
      <4>1. CASE n \in ToSet(queue)
        BY <2>1, <4>1
      <4>2. CASE \E d \in Consumers : n \in Held(d)
        <5>1. PICK d \in Consumers : n \in Held(d)
          BY <4>2
        <5>2. n \in Held(d)'
          BY <2>5, <2>6, <5>1
        <5> QED
          BY <5>2
      <4> QED
        BY <3>2, <4>1, <4>2 DEF Delivered, NoneIsLost
    <3> QED
      BY <1>4, <2>7, <3>1, <3>2
  <2>8. ASSUME NEW d \in Consumers
        PROVE  Held(d)' \cap ToSet(queue') = {}
    BY <1>2, <2>1, <2>5, <2>6 DEF Delivered, NoneIsShared
  <2>9. ASSUME NEW d \in Consumers, NEW f \in Consumers, d # f
        PROVE  Held(d)' \cap Held(f)' = {}
    BY <1>2, <2>5, <2>6, <2>9 DEF Delivered, NoneIsShared
  <2> QED
    BY <2>7, <2>8, <2>9 DEF Delivered, NoneIsLost, NoneIsShared
<1>6. CASE waiting = <<>>
  <2>1. queue' = Append(queue, e) /\ promise' = promise
    BY <1>6 DEF Push, Deliver, e
  <2>2. \A n : n \in ToSet(queue') <=> n \in ToSet(queue) \/ n = e
    BY <1>3, <2>1, AppendFacts DEF IInv, TypeOK, DataTypes
  <2>3. \A d \in Consumers : Held(d)' = Held(d)
    BY <1>1, <2>1 DEF Held
  <2>4. ASSUME NEW n \in 1 .. sent'
        PROVE  n \in ToSet(queue') \/ \E d \in Consumers : n \in Held(d)'
    BY <1>4, <2>2, <2>3, <2>4 DEF Delivered, NoneIsLost
  <2>5. ASSUME NEW d \in Consumers
        PROVE  Held(d)' \cap ToSet(queue') = {}
    BY <1>2, <2>2, <2>3 DEF Delivered, NoneIsShared
  <2> QED
    BY <2>3, <2>4, <2>5 DEF Delivered, NoneIsLost, NoneIsShared
<1> QED
  BY <1>5, <1>6

\* end resolves only promises that held nothing, and not with an event.
LEMMA EndDelivers ==
  ASSUME IInv, Delivered, NEW withResult \in BOOLEAN, End(withResult)
  PROVE  Delivered'
<1>1. /\ sent' = sent /\ queue' = queue /\ got' = got
      /\ promise' = [c \in Consumers |-> IF c \in ToSet(waiting) THEN Over ELSE promise[c]]
  BY DEF End
<1>2. Nothing \notin Events /\ Over \notin Events
  BY EventsAssumption DEF Over, Nothing, Events
<1>3. ASSUME NEW c \in Consumers
      PROVE  Held(c)' = Held(c)
  <2>1. CASE c \in ToSet(waiting)
    <3>1. promise[c] = Nothing /\ promise'[c] = Over
      BY <1>1, <2>1 DEF IInv, TypeOK, WaitingIsListed
    <3> QED
      BY <1>1, <1>2, <3>1 DEF Held
  <2>2. CASE c \notin ToSet(waiting)
    BY <1>1, <2>2 DEF Held
  <2> QED
    BY <2>1, <2>2
<1> QED
  BY <1>1, <1>3, NothingMoves

\* The event at the head of the queue is in the queue only once.
LEMMA TakeDelivers ==
  ASSUME IInv, Delivered, NEW c \in Consumers, Take(c)
  PROVE  Delivered'
<1> DEFINE e == Head(queue)
<1>1. /\ queue # <<>> /\ queue' = Tail(queue)
      /\ sent' = sent /\ promise' = promise
      /\ got' = [got EXCEPT ![c] = Append(got[c], e)]
  BY DEF Take, Receive
<1>2. /\ Len(queue) \in Nat \ {0} /\ DOMAIN queue = 1 .. Len(queue)
      /\ e = queue[1] /\ e \in Events
      /\ DOMAIN Tail(queue) = 1 .. Len(queue) - 1
      /\ \A i \in 1 .. Len(queue) - 1 : Tail(queue)[i] = queue[i + 1]
  BY <1>1, TailFacts DEF IInv, TypeOK, DataTypes
<1>3. \A i, j \in DOMAIN queue : i # j => queue[i] # queue[j]
  <2> SUFFICES ASSUME NEW i \in DOMAIN queue, NEW j \in DOMAIN queue, i < j
               PROVE  queue[i] # queue[j]
    BY <1>2
  <2>1. queue[i] < queue[j] /\ queue[i] \in Nat
    BY EventTypes DEF IInv, Ordered, Increasing
  <2> QED
    BY <2>1
<1>4. /\ \A x : x \in ToSet(queue) <=> x = e \/ x \in ToSet(Tail(queue))
      /\ e \notin ToSet(Tail(queue))
  BY <1>1, <1>3, HeadLeaves DEF IInv, TypeOK, DataTypes
<1>5. /\ got'[c] = Append(got[c], e)
      /\ \A d \in Consumers : d # c => got'[d] = got[d]
  BY <1>1 DEF IInv, TypeOK, DataTypes
<1>6. got[c] \in Seq(Events)
  BY DEF IInv, TypeOK, DataTypes
<1> HIDE DEF e
<1>7. \A x : x \in ToSet(got'[c]) <=> x \in ToSet(got[c]) \/ x = e
  BY <1>2, <1>5, <1>6, AppendFacts
<1>8. Held(c)' = Held(c) \cup {e}
  BY <1>1, <1>7 DEF Held
<1>9. \A d \in Consumers : d # c => Held(d)' = Held(d)
  BY <1>1, <1>5 DEF Held
<1>10. ToSet(queue) = ToSet(queue') \cup {e} /\ e \notin ToSet(queue')
  BY <1>1, <1>4
<1> QED
  BY <1>1, <1>8, <1>9, <1>10, TakeMoves

\* What was promised is received: the consumer holds it before and after.
LEMMA ResumeDelivers ==
  ASSUME IInv, Delivered, NEW c \in Consumers, Resume(c)
  PROVE  Delivered'
<1>1. /\ sent' = sent /\ queue' = queue
      /\ promise[c] # Nothing /\ promise' = [promise EXCEPT ![c] = Nothing]
  BY DEF Resume, stream
<1>2. Nothing \notin Events /\ Over \notin Events
  BY EventsAssumption DEF Over, Nothing, Events
<1>3. promise'[c] = Nothing /\ \A d \in Consumers : d # c => promise'[d] = promise[d]
  BY <1>1 DEF IInv, TypeOK, DataTypes
<1>4. /\ got \in [Consumers -> Seq(Events)] /\ got[c] \in Seq(Events)
      /\ promise[c] \in {Nothing, Over} \cup Events
  BY DEF IInv, TypeOK, DataTypes
<1>5. CASE promise[c] = Over
  <2>1. got' = got
    BY <1>5 DEF Resume
  <2>2. \A d \in Consumers : Held(d)' = Held(d)
    BY <1>2, <1>3, <1>5, <2>1 DEF Held
  <2> QED
    BY <1>1, <2>2, NothingMoves
<1>6. CASE promise[c] # Over
  <2>1. promise[c] \in Events
    BY <1>1, <1>4, <1>6
  <2>2. got' = [got EXCEPT ![c] = Append(got[c], promise[c])]
    BY <1>6 DEF Resume, Receive
  <2>3. /\ got'[c] = Append(got[c], promise[c])
        /\ \A d \in Consumers : d # c => got'[d] = got[d]
    BY <1>4, <2>2
  <2>4. \A x : x \in ToSet(got'[c]) <=> x \in ToSet(got[c]) \/ x = promise[c]
    BY <1>4, <2>1, <2>3, AppendFacts
  <2>5. Held(c)' = Held(c)
    BY <1>2, <1>3, <2>1, <2>4 DEF Held
  <2>6. \A d \in Consumers : d # c => Held(d)' = Held(d)
    BY <1>3, <2>3 DEF Held
  <2> QED
    BY <1>1, <2>5, <2>6, NothingMoves
<1> QED
  BY <1>5, <1>6

\* Every step leaves every event in one place.
LEMMA StepDelivers == IInv /\ Delivered /\ [Next]_vars => Delivered'
<1> SUFFICES ASSUME IInv, Delivered, [Next]_vars
             PROVE  Delivered'
  OBVIOUS
<1>1. ASSUME NEW b \in BOOLEAN, Push(b) PROVE Delivered'
  BY <1>1, PushDelivers
<1>2. ASSUME NEW b \in BOOLEAN, End(b) PROVE Delivered'
  BY <1>2, EndDelivers
<1>3. ASSUME NEW c \in Consumers, Take(c) PROVE Delivered'
  BY <1>3, TakeDelivers
<1>4. ASSUME NEW c \in Consumers, Stop(c) \/ Wait(c) PROVE Delivered'
  <2>1. sent' = sent /\ queue' = queue /\ promise' = promise /\ got' = got
    BY <1>4 DEF Stop, Wait, stream
  <2>2. \A d \in Consumers : Held(d)' = Held(d)
    BY <2>1 DEF Held
  <2> QED
    BY <2>1, <2>2, NothingMoves
<1>5. ASSUME NEW c \in Consumers, Resume(c) PROVE Delivered'
  BY <1>5, ResumeDelivers
<1>6. CASE UNCHANGED vars
  <2>1. sent' = sent /\ queue' = queue /\ promise' = promise /\ got' = got
    BY <1>6 DEF vars, stream
  <2>2. \A d \in Consumers : Held(d)' = Held(d)
    BY <2>1 DEF Held
  <2> QED
    BY <2>1, <2>2, NothingMoves
<1> QED
  BY <1>1, <1>2, <1>3, <1>4, <1>5, <1>6 DEF Next, Consume

\* Every event pushed while the stream is open goes to exactly one consumer, once
\* and in its turn, or is still queued or promised, whoever waits or comes late
\* (push, end, asyncIterator).
THEOREM ExactlyOnceInOrder == Spec => []OnceInOrder
<1>1. Init => Delivered
  <2> SUFFICES ASSUME Init
               PROVE  Delivered
    OBVIOUS
  <2>1. sent = 0 /\ \A c \in Consumers : got[c] = <<>> /\ promise[c] = Nothing
    BY DEF Init
  <2>2. Nothing \notin Events /\ 1 .. 0 = {}
    BY DEF Nothing, Events
  <2>3. \A c \in Consumers : Held(c) = {}
    BY <2>1, <2>2 DEF Held, ToSet
  <2> QED
    BY <2>1, <2>2, <2>3 DEF Delivered, NoneIsLost, NoneIsShared
<1>2. IInv /\ Delivered /\ [Next]_vars => Delivered'
  BY StepDelivers
<1>3. InOrder /\ Delivered => OnceInOrder
  BY DEF Delivered, OnceInOrder
<1> QED
  BY <1>1, <1>2, <1>3, Invariance, EventsInOrder, PTL DEF Spec
=============================================================================
