---------------------- MODULE FileMutationQueueProofs ----------------------
(***************************************************************************)
(* Proofs about FileMutationQueue, for every set of calls, every set of    *)
(* paths and every aliasing between them.                                  *)
(*                                                                         *)
(* KeyExclusive is not inductive: that a running call is alone needs the   *)
(* shape of the whole chain.  ChainOrder states it with tickets instead of *)
(* reachability along prev, so that no induction over the chain is needed: *)
(* the predecessor of a live call is live as long as any older live call   *)
(* of the key is, and no live call lies between the two.                   *)
(***************************************************************************)
EXTENDS FileMutationQueue, SequenceTheorems, TLAPS

Joined == {o \in Ops : pc[o] \in {"waiting", "running", "done"}}

\* A call that has its key and has not yet joined is at the head of the
\* registration queue, so there is only one.
HeadResolves ==
    \A o \in Ops : pc[o] = "resolved" => /\ regQueue # <<>>
                                         /\ Head(regQueue) = o
                                         /\ key[o] \in Paths

TicketsAreUnique ==
    /\ \A o \in Joined : ticket[o] \in 1 .. next - 1 /\ key[o] \in Paths
    /\ \A o \in Ops \ Joined : ticket[o] = 0
    /\ \A a, b \in Joined : ticket[a] = ticket[b] => a = b

ChainOrder ==
    \A a, b \in Live :
        key[a] = key[b] /\ ticket[a] < ticket[b]
            => prev[b] \in Live /\ ticket[a] <= ticket[prev[b]]

TailIsYoungest ==
    /\ \A a \in Live : tail[key[a]] \in Live /\ ticket[a] <= ticket[tail[key[a]]]
    /\ \A p \in Paths : tail[p] # None => tail[p] \in Live /\ key[tail[p]] = p

PredecessorJoined ==
    \A o \in Ops : prev[o] # None => /\ o \in Joined /\ prev[o] \in Joined
                                      /\ key[prev[o]] = key[o]

RunningIsFirst ==
    \A o \in Ops : pc[o] = "running" => prev[o] \notin Live

IInv ==
    /\ TypeOK
    /\ HeadResolves
    /\ TicketsAreUnique
    /\ ChainOrder
    /\ TailIsYoungest
    /\ PredecessorJoined
    /\ RunningIsFirst

\* The key of a path is a path.
LEMMA KeyIsPath == \A p \in Paths : MutationQueueKey(p) \in Paths
  BY PathAssumption DEF MutationQueueKey

\* The initial states satisfy the inductive invariant.
LEMMA InitIInv == Init => IInv
  BY PathAssumption, NoneAssumption
  DEF Init, IInv, TypeOK, HeadResolves, TicketsAreUnique, ChainOrder, TailIsYoungest,
      PredecessorJoined, RunningIsFirst, Live, Joined, Files

\* Every step preserves the inductive invariant.
LEMMA NextIInv == IInv /\ [Next]_vars => IInv'
<1> SUFFICES ASSUME IInv, [Next]_vars PROVE IInv'
  OBVIOUS
<1> USE PathAssumption, NoneAssumption
        DEF IInv, TypeOK, HeadResolves, TicketsAreUnique, ChainOrder, TailIsYoungest,
            PredecessorJoined, RunningIsFirst, Live, Joined
<1>1. CASE \E o \in Ops : Call(o)
  <2> PICK o \in Ops : Call(o)
    BY <1>1
  <2>1. regQueue' \in Seq(Ops) /\ (regQueue # <<>> => Head(regQueue') = Head(regQueue))
    BY DEF Call
  <2>2. regQueue' # <<>>
    <3>1. regQueue \in Seq(Ops) /\ regQueue' = Append(regQueue, o)
      BY DEF Call
    <3>2. Append(regQueue, o) # <<>>
      BY <3>1, AppendProperties
    <3> QED
      BY <3>1, <3>2
  <2> QED
    BY <2>1, <2>2 DEF Call
<1>2. CASE \E o \in Ops : ResolveKey(o)
  <2> PICK o \in Ops : ResolveKey(o)
    BY <1>2
  <2>1. key'[o] \in Paths /\ TypeOK'
    BY KeyIsPath DEF ResolveKey
  <2>2. Joined' = Joined /\ Live' = Live /\ o \notin Joined
    BY DEF ResolveKey
  <2>3. \A a \in Joined : key'[a] = key[a]
    BY <2>2 DEF ResolveKey
  <2>4. HeadResolves'
    BY <2>1 DEF ResolveKey
  <2>5. TicketsAreUnique' /\ PredecessorJoined'
    BY <2>1, <2>2, <2>3 DEF ResolveKey
  <2>6. ChainOrder' /\ TailIsYoungest' /\ RunningIsFirst'
    BY <2>1, <2>2, <2>3 DEF ResolveKey
  <2> QED
    BY <2>1, <2>4, <2>5, <2>6
<1>3. CASE \E o \in Ops : RejectKey(o)
  BY <1>3 DEF RejectKey
<1>4. CASE \E o \in Ops : Register(o)
  <2> PICK o \in Ops : Register(o)
    BY <1>4
  <2> USE DEF Register
  <2>1. TypeOK'
    OBVIOUS
  <2>2. HeadResolves'
    OBVIOUS
  <2>3. TicketsAreUnique'
    OBVIOUS
  <2>4. ChainOrder'
    OBVIOUS
  <2>5. TailIsYoungest'
    OBVIOUS
  <2>6. PredecessorJoined'
    OBVIOUS
  <2>7. RunningIsFirst'
    <3> SUFFICES ASSUME NEW a \in Ops, pc'[a] = "running" PROVE prev'[a] \notin Live'
      OBVIOUS
    <3>1. a # o /\ pc[a] = "running" /\ prev'[a] = prev[a]
      OBVIOUS
    <3>2. prev[a] \notin Live
      BY <3>1
    <3>3. prev[a] # o
      <4>1. o \in Ops /\ o # None /\ o \notin Joined
        OBVIOUS
      <4> QED
        BY <4>1
    <3> QED
      BY <3>1, <3>2, <3>3
  <2> QED
    BY <2>1, <2>2, <2>3, <2>4, <2>5, <2>6, <2>7
<1>5. CASE \E o \in Ops : Start(o)
  BY <1>5 DEF Start
<1>6. CASE \E o \in Ops : Finish(o)
  <2> PICK o \in Ops : Finish(o)
    BY <1>6
  <2> USE DEF Finish
  <2>1. TypeOK'
    OBVIOUS
  <2>2. HeadResolves'
    OBVIOUS
  <2>3. TicketsAreUnique'
    OBVIOUS
  <2>4. ChainOrder'
    <3> SUFFICES ASSUME NEW a \in Live', NEW b \in Live',
                        key[a] = key[b], ticket[a] < ticket[b]
                 PROVE  prev[b] \in Live' /\ ticket[a] <= ticket[prev[b]]
      OBVIOUS
    <3>1. a \in Live /\ b \in Live /\ a # o /\ b # o
      OBVIOUS
    <3>2. prev[b] \in Live /\ ticket[a] <= ticket[prev[b]]
      BY <3>1
    <3>3. prev[b] # o
      <4> SUFFICES ASSUME prev[b] = o PROVE FALSE
        OBVIOUS
      <4>1. key[a] = key[o] /\ ticket[a] < ticket[o]
        BY <3>1, <3>2
      <4> QED
        BY <3>1, <4>1
    <3> QED
      BY <3>2, <3>3
  <2>5. TailIsYoungest'
    OBVIOUS
  <2>6. PredecessorJoined'
    OBVIOUS
  <2>7. RunningIsFirst'
    OBVIOUS
  <2> QED
    BY <2>1, <2>2, <2>3, <2>4, <2>5, <2>6, <2>7
<1>7. CASE \E f \in Files : ChangeFile(f)
  BY <1>7 DEF ChangeFile, Files
<1>8. CASE UNCHANGED vars
  BY <1>8 DEF vars
<1> QED
  BY <1>1, <1>2, <1>3, <1>4, <1>5, <1>6, <1>7, <1>8 DEF Next, Step

\* The inductive invariant holds in every reachable state.
THEOREM Invariance == Spec => []IInv
  BY InitIInv, NextIInv, PTL DEF Spec

\* Every variable keeps its type.
THEOREM TypeCorrect == Spec => []TypeOK
<1>1. IInv => TypeOK
  BY DEF IInv
<1> QED
  BY Invariance, <1>1, PTL

\* Two calls never run at once under one key.
THEOREM Exclusion == Spec => []KeyExclusive
<1>1. IInv => KeyExclusive
  BY DEF IInv, KeyExclusive, TypeOK, ChainOrder, RunningIsFirst, TicketsAreUnique, Live, Joined
<1> QED
  BY Invariance, <1>1, PTL

\* A call runs only when every earlier call of its key's chain is done.
THEOREM Fifo == Spec => []ChainFifo
<1>1. IInv => ChainFifo
  <2> SUFFICES ASSUME IInv, NEW a \in Ops, NEW b \in Ops, pc[b] = "running",
                      key[a] = key[b], ticket[a] \in 1 .. ticket[b] - 1
               PROVE  pc[a] = "done"
    BY DEF ChainFifo
  <2>1. ticket[a] < ticket[b] /\ a \in Joined /\ b \in Live
    BY DEF IInv, TypeOK, TicketsAreUnique, Live
  <2>2. a \notin Live
    BY <2>1 DEF IInv, ChainOrder, RunningIsFirst
  <2> QED
    BY <2>1, <2>2 DEF Live, Joined
<1> QED
  BY Invariance, <1>1, PTL

\* The map holds a tail exactly for the keys that have a live call.
THEOREM MapIsExact == Spec => []MapHoldsLiveKeys
<1>1. IInv => MapHoldsLiveKeys
  BY NoneAssumption DEF IInv, MapHoldsLiveKeys, TypeOK, TailIsYoungest,
        TicketsAreUnique, Live, Joined
<1> QED
  BY Invariance, <1>1, PTL

\* Both together: a chain is served in the order of registration, and withFileMutationQueue
\* neither deletes its entry while somebody waits or runs nor leaves it behind.
THEOREM ChainsExact == Spec => []ChainsAreExact
<1>1. ChainFifo /\ MapHoldsLiveKeys => ChainsAreExact
  BY DEF ChainsAreExact
<1> QED
  BY <1>1, Fifo, MapIsExact, PTL

-----------------------------------------------------------------------------
\* A call that resolved its key while its file was there, and stayed there, has
\* the canonical path as its key.
KeyIsCanonical ==
    \A o \in Ops :
        /\ pc[o] \in {"resolved", "waiting", "running"}
        /\ Canon[PathOf[o]] \in exists \ changed
        => key[o] = Canon[PathOf[o]]

LEMMA StepKeyIsCanonical == TypeOK /\ KeyIsCanonical /\ [Next]_vars => KeyIsCanonical'
<1> SUFFICES ASSUME TypeOK, KeyIsCanonical, [Next]_vars, NEW a \in Ops,
                    pc'[a] \in {"resolved", "waiting", "running"},
                    Canon[PathOf[a]] \in exists' \ changed'
             PROVE  key'[a] = Canon[PathOf[a]]
  BY DEF KeyIsCanonical
<1>1. exists' \ changed' \subseteq exists \ changed
  BY DEF Next, Step, vars, Call, ResolveKey, RejectKey, Register, Start, Finish, ChangeFile
<1>2. CASE ResolveKey(a)
  BY <1>1, <1>2 DEF ResolveKey, MutationQueueKey, TypeOK
<1>3. CASE ~ResolveKey(a)
  <2>1. key'[a] = key[a] /\ pc[a] \in {"resolved", "waiting", "running"}
    BY <1>3 DEF Next, Step, vars, Call, ResolveKey, RejectKey, Register, Start, Finish,
                ChangeFile, TypeOK
  <2> QED
    BY <1>1, <2>1 DEF KeyIsCanonical
<1> QED
  BY <1>2, <1>3

\* Mutations of a file that stays present never overlap, however they name it:
\* they have one key, and the chain of a key is exclusive.
THEOREM PresentExclusion == Spec => []PresentFileExclusive
<1>1. Init => KeyIsCanonical
  BY DEF Init, KeyIsCanonical
<1>2. IInv => TypeOK
  BY DEF IInv
<1>3. KeyIsCanonical /\ KeyExclusive => PresentFileExclusive
  BY DEF KeyIsCanonical, KeyExclusive, PresentFileExclusive
<1> QED
  BY <1>1, <1>2, <1>3, StepKeyIsCanonical, Invariance, Exclusion, PTL DEF Spec
=============================================================================
