------------------------- MODULE FileMutationQueue -------------------------
(***************************************************************************)
(* The per-file mutation queue of the coding agent's write and edit tools  *)
(* (coding-agent/src/core/tools/file-mutation-queue.ts).                    *)
(*                                                                         *)
(* A call withFileMutationQueue(path, fn) first passes a global FIFO, the  *)
(* registration queue, in which it resolves its path to a key; then it     *)
(* appends itself to the chain of promises of that key and runs fn once    *)
(* its predecessor in the chain has released.                              *)
(*                                                                         *)
(* A path is a model value.  Canon[p] is the path realpath() returns for p *)
(* when the file exists; two paths name the same file when their canonical *)
(* paths are equal (one goes through a symbolic link).                     *)
(***************************************************************************)
EXTENDS Naturals, Sequences

CONSTANTS
    Ops,          \* the calls of withFileMutationQueue
    Paths,        \* the resolved paths they are given
    PathOf,       \* PathOf[o]: the path of call o
    Canon,        \* Canon[p]: the canonical path of the file p names
    None          \* no predecessor, no tail, no key

ASSUME PathAssumption ==
    /\ PathOf \in [Ops -> Paths]
    /\ Canon \in [Paths -> Paths]
    /\ \A p \in Paths : Canon[Canon[p]] = Canon[p]

ASSUME NoneAssumption == None \notin Ops /\ None \notin Paths

VARIABLES
    pc,        \* pc[o]: "idle", "queued", "resolved", "waiting", "running", "done" or "rejected"
    regQueue,  \* registrationQueue: the calls waiting to register, oldest first
    key,       \* key[o]: the key o resolved its path to
    prev,      \* prev[o]: the call whose promise o awaits (currentQueue)
    tail,      \* fileMutationQueues: the last call chained on each key, or None
    exists,    \* the files (canonical paths) that exist
    changed,   \* the files that were created or deleted meanwhile (history)
    ticket,    \* ticket[o]: o was the ticket-th call to join a chain (history)
    next       \* the next ticket (history)

vars == <<pc, regQueue, key, prev, tail, exists, changed, ticket, next>>

Files == {Canon[p] : p \in Paths}

Init ==
    /\ pc = [o \in Ops |-> "idle"]
    /\ regQueue = <<>>
    /\ key = [o \in Ops |-> None]
    /\ prev = [o \in Ops |-> None]
    /\ tail = [p \in Paths |-> None]
    /\ exists \in SUBSET Files /\ changed = {}
    /\ ticket = [o \in Ops |-> 0]
    /\ next = 1

\* Mutant: the resolved path is the key, symbolic links are not followed.
Mut_ResolvedPathKey(p) == p

\* getMutationQueueKey: realpath, or the resolved path of a missing file.
MutationQueueKey(p) == IF Canon[p] \in exists THEN Canon[p] ELSE p

\* A tool calls withFileMutationQueue: the call joins the registration queue.
Call(o) ==
    /\ pc[o] = "idle"
    /\ pc' = [pc EXCEPT ![o] = "queued"]
    /\ regQueue' = Append(regQueue, o)
    /\ UNCHANGED <<key, prev, tail, exists, changed, ticket, next>>

\* The oldest registration resolves its key: the file system is read here,
\* the chain is joined only after the await.
ResolveKey(o) ==
    /\ pc[o] = "queued" /\ regQueue # <<>> /\ Head(regQueue) = o
    /\ pc' = [pc EXCEPT ![o] = "resolved"]
    /\ key' = [key EXCEPT ![o] = MutationQueueKey(PathOf[o])]
    /\ UNCHANGED <<regQueue, prev, tail, exists, changed, ticket, next>>

\* Mutant: registrationQueue = registration, without the handler that swallows
\* the rejection, so nothing registers after a failure.
Mut_RejectKeyStops(o) ==
    /\ pc[o] = "queued" /\ regQueue # <<>> /\ Head(regQueue) = o
    /\ pc' = [pc EXCEPT ![o] = "rejected"]
    /\ UNCHANGED <<regQueue, key, prev, tail, exists, changed, ticket, next>>

\* realpath fails with something else than a missing path: the call rejects,
\* and the registration queue goes on (registration.then(_, () => undefined)).
RejectKey(o) ==
    /\ pc[o] = "queued" /\ regQueue # <<>> /\ Head(regQueue) = o
    /\ pc' = [pc EXCEPT ![o] = "rejected"]
    /\ regQueue' = Tail(regQueue)
    /\ UNCHANGED <<key, prev, tail, exists, changed, ticket, next>>

\* Mutant: the call awaits its predecessor but does not become the tail.
Mut_RegisterNoTail(o) ==
    /\ pc[o] = "resolved"
    /\ pc' = [pc EXCEPT ![o] = "waiting"]
    /\ regQueue' = Tail(regQueue)
    /\ prev' = [prev EXCEPT ![o] = tail[key[o]]]
    /\ tail' = IF tail[key[o]] = None THEN [tail EXCEPT ![key[o]] = o] ELSE tail
    /\ ticket' = [ticket EXCEPT ![o] = next]
    /\ next' = next + 1
    /\ UNCHANGED <<key, exists, changed>>

\* The synchronous rest of the registration: take the tail of the key's chain
\* as predecessor and become the tail.
Register(o) ==
    /\ pc[o] = "resolved"
    /\ pc' = [pc EXCEPT ![o] = "waiting"]
    /\ regQueue' = Tail(regQueue)
    /\ prev' = [prev EXCEPT ![o] = tail[key[o]]]
    /\ tail' = [tail EXCEPT ![key[o]] = o]
    /\ ticket' = [ticket EXCEPT ![o] = next]
    /\ next' = next + 1
    /\ UNCHANGED <<key, exists, changed>>

\* await currentQueue: the predecessor's chained promise is resolved once the
\* predecessor has released, since it ran only after its own predecessor had.
Start(o) ==
    /\ pc[o] = "waiting"
    /\ prev[o] # None => pc[prev[o]] = "done"
    /\ pc' = [pc EXCEPT ![o] = "running"]
    /\ UNCHANGED <<regQueue, key, prev, tail, exists, changed, ticket, next>>

\* Mutant: the map is rebuilt without the key.
Mut_FinishDropsKey(o) ==
    /\ pc[o] = "running"
    /\ pc' = [pc EXCEPT ![o] = "done"]
    /\ tail' = [p \in Paths \ {key[o]} |-> tail[p]]
    /\ UNCHANGED <<regQueue, key, prev, exists, changed, ticket, next>>

\* fn returned or threw: release the successor, and delete the map's entry if
\* this call is still the tail of its chain.
Finish(o) ==
    /\ pc[o] = "running"
    /\ pc' = [pc EXCEPT ![o] = "done"]
    /\ tail' = IF tail[key[o]] = o THEN [tail EXCEPT ![key[o]] = None] ELSE tail
    /\ UNCHANGED <<regQueue, key, prev, exists, changed, ticket, next>>

\* fn (a write of a new file), or another process, creates or deletes a file.
ChangeFile(f) ==
    /\ exists' = IF f \in exists THEN exists \ {f} ELSE exists \cup {f}
    /\ changed' = changed \cup {f}
    /\ UNCHANGED <<pc, regQueue, key, prev, tail, ticket, next>>

Step(o) == ResolveKey(o) \/ RejectKey(o) \/ Register(o) \/ Start(o) \/ Finish(o)

Next ==
    \/ \E o \in Ops : Call(o) \/ Step(o)
    \/ \E f \in Files : ChangeFile(f)

\* Promise continuations always run, and the tools' functions settle.
Fairness == \A o \in Ops : WF_vars(Step(o))

Spec == Init /\ [][Next]_vars /\ Fairness

-----------------------------------------------------------------------------
Live == {o \in Ops : pc[o] \in {"waiting", "running"}}

\* Every variable keeps its type.
TypeOK ==
    /\ pc \in [Ops -> {"idle", "queued", "resolved", "waiting", "running", "done", "rejected"}]
    /\ regQueue \in Seq(Ops)
    /\ key \in [Ops -> Paths \cup {None}]
    /\ prev \in [Ops -> Ops \cup {None}]
    /\ tail \in [Paths -> Ops \cup {None}]
    /\ exists \subseteq Paths /\ changed \subseteq Paths
    /\ ticket \in [Ops -> Nat]
    /\ next \in Nat \ {0}

\* Two calls never run at once under one key, whatever the file system does
\* between the resolution of a key and the release of a chain.
KeyExclusive ==
    \A a, b \in Ops :
        a # b /\ pc[a] = "running" /\ pc[b] = "running" => key[a] # key[b]

\* "Serialize file mutation operations targeting the same file": as long as a
\* file that was there at the start stays there, mutations of it never overlap,
\* whatever paths they use.  (A missing file has a key for each path.)
PresentFileExclusive ==
    \A a, b \in Ops :
        a # b /\ pc[a] = "running" /\ pc[b] = "running" /\ Canon[PathOf[a]] = Canon[PathOf[b]]
            => Canon[PathOf[a]] \notin exists \ changed

\* A call never overtakes one that joined the chain of its key earlier: when
\* it runs, all of those are done.
ChainFifo ==
    \A a, b \in Ops :
        pc[b] = "running" /\ key[a] = key[b] /\ ticket[a] \in 1 .. ticket[b] - 1
            => pc[a] = "done"

\* The map keeps an entry exactly for the keys with a call that still waits or
\* runs: deleting it early would let a newcomer run beside them, never
\* deleting it would leak one entry per file.
MapHoldsLiveKeys ==
    \A p \in Paths : tail[p] # None <=> \E o \in Live : key[o] = p

\* The chain of a key is first come, first served, and the map knows it for as
\* long as somebody is in it.
ChainsAreExact == ChainFifo /\ MapHoldsLiveKeys

\* A call that joined the registration queue runs and releases, or rejects.
EveryCallSettles ==
    \A o \in Ops : pc[o] = "queued" ~> pc[o] \in {"done", "rejected"}

=============================================================================
