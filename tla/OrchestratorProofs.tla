------------------------- MODULE OrchestratorProofs -------------------------
(***************************************************************************)
(* Theorems of Orchestrator, for any instances, stops, registrations and   *)
(* crashes.                                                                *)
(*                                                                         *)
(* IInv is the inductive invariant.  ProcessesAreOwned is not inductive:   *)
(* a call that removes the instance from liveInstances has cleaned it up,  *)
(* and left a process to another call only if that call had taken it       *)
(* (HandedOver); an exit removes it when the process is gone (ExitIsLate); *)
(* and no call is under way before the instance is spawned (SpawnFirst).   *)
(*                                                                         *)
(* RInv is the invariant of the registrations.  One that is on disk is     *)
(* still known: to whoever renews or gives it up while the instance lives, *)
(* and to the recovery after that (Held); the recovery saves what the disk *)
(* has (Loading), and nothing is registered before the spawn (Early).      *)
(***************************************************************************)
EXTENDS Orchestrator, TLAPS

\* Somebody is about to dispose of the process of i, or failed to.
Secured(i) ==
    \/ \E c \in Callers : At(i, c, "disconnecting") /\ task[i][c].holds
    \/ i \in leaked

Owned(i) == process[i] = "running" => i \in live \cap owned \/ Secured(i)

\* c has cleaned i up without taking its process, or has disposed of it.
LeftIt(i, c) ==
    \/ task[i][c].at \in {"disposing", "finishing"}
    \/ At(i, c, "disconnecting") /\ ~task[i][c].holds

HandedOver(i) ==
    process[i] = "running" => \A c \in Callers : LeftIt(i, c) => Secured(i)

ExitIsLate(i) == At(i, "exit", "disconnecting") => process[i] # "running"

SpawnFirst(i) ==
    At(i, "spawn", "no") =>
        /\ i \notin live
        /\ \A c \in Callers : task[i][c].at \notin {"disconnecting", "disposing", "finishing"}

Awaited(i) ==
    \A c \in Callers : c \in pending[i] => At(i, c, "asking") /\ process[i] # "gone"

Safe(i) == Owned(i) /\ HandedOver(i) /\ ExitIsLate(i) /\ SpawnFirst(i) /\ Awaited(i)

IInv == Types /\ \A i \in Instances : Safe(i)

-----------------------------------------------------------------------------
\* What one step of a caller changes in task.
Moves(i, c) ==
    /\ task' \in [Instances -> [Callers -> Tasks]]
    /\ \A d \in Callers \ {c} : task'[i][d] = task[i][d]
    /\ \A j \in Instances \ {i} : task'[j] = task[j]

LEMMA TaskMoves ==
  ASSUME Types, NEW i \in Instances, NEW c \in Callers, NEW r \in Tasks,
         task' = [task EXCEPT ![i][c] = r]
  PROVE  Moves(i, c) /\ task'[i][c] = r
BY DEF Types, Moves

LEMMA GoMoves ==
  ASSUME Types, NEW i \in Instances, NEW c \in Callers, NEW stage \in Stages \cup RecordStatuses,
         Go(i, c, stage)
  PROVE  Moves(i, c) /\ task'[i][c].at = stage /\ task'[i][c].holds = task[i][c].holds
<1> DEFINE r == [task[i][c] EXCEPT !.at = stage]
<1>1. task[i][c] \in Tasks
  BY DEF Types
<1>2. r \in Tasks /\ r.at = stage /\ r.holds = task[i][c].holds
  BY <1>1 DEF Tasks
<1>3. task' = [task EXCEPT ![i][c] = r]
  BY DEF Go, Types
<1> HIDE DEF r
<1> QED
  BY <1>2, <1>3, TaskMoves

LEMMA DoneMoves ==
  ASSUME Types, NEW i \in Instances, NEW c \in Callers, Done(i, c)
  PROVE  Moves(i, c) /\ task'[i][c].at = "done"
<1> DEFINE r == [Idle EXCEPT !.at = "done"]
<1>1. r \in Tasks /\ r.at = "done"
  BY DEF Idle, Tasks, Stages, None
<1>2. task' = [task EXCEPT ![i][c] = r]
  BY DEF Done
<1> HIDE DEF r
<1> QED
  BY <1>1, <1>2, TaskMoves

\* Records and registrations.
LEMMA WriteRecord ==
  ASSUME Types, NEW i \in Instances, NEW status \in RecordStatuses, NEW id \in Nat,
         UpdateRecord(i, status, id)
  PROVE  disk' \in [Instances -> Records] /\ record' \in [Instances -> Records]
<1>1. [status |-> status, radius |-> id] \in Records
  BY DEF Records
<1>2. record' = [record EXCEPT ![i] = [status |-> status, radius |-> id]]
  BY DEF UpdateRecord
<1>3. record' \in [Instances -> Records]
  BY <1>1, <1>2 DEF Types
<1> QED
  BY <1>3 DEF UpdateRecord, Types

LEMMA RecordFields ==
  ASSUME Types, NEW i \in Instances
  PROVE  record[i].status \in RecordStatuses /\ record[i].radius \in Nat
BY DEF Types, Records

LEMMA RegisterTypes ==
  ASSUME Types, NEW i \in Instances, given[i] < MaxRegistrations, Register(i)
  PROVE  /\ given' \in [Instances -> Nat] /\ given'[i] \in Nat
         /\ heartbeat' \in [Instances -> Nat]
         /\ registered' \subseteq Registrations
<1>1. given[i] \in Nat /\ given[i] + 1 \in 1 .. MaxRegistrations /\ given[i] + 1 \in Nat
  BY OrchestratorAssumption DEF Types
<1>2. <<i, given[i] + 1>> \in Registrations
  BY <1>1 DEF Registrations
<1> QED
  BY <1>1, <1>2 DEF Register, Types

LEMMA RegisterFailsTypes ==
  ASSUME Types, NEW i \in Instances, RegisterFails(i)
  PROVE  /\ given' \in [Instances -> Nat] /\ heartbeat' = heartbeat
         /\ registered' \subseteq Registrations /\ excused' \subseteq Instances
<1>1. CASE given[i] < MaxRegistrations
  <2>1. given[i] + 1 \in 1 .. MaxRegistrations /\ given[i] + 1 \in Nat
    BY <1>1, OrchestratorAssumption DEF Types
  <2>2. <<i, given[i] + 1>> \in Registrations
    BY <2>1 DEF Registrations
  <2>3. CASE UNCHANGED <<given, registered, excused>>
    BY <2>3 DEF RegisterFails, Types
  <2>4. CASE /\ given' = [given EXCEPT ![i] = @ + 1]
             /\ registered' = registered \cup {<<i, given[i] + 1>>}
             /\ excused' = excused \cup {i}
    BY <2>1, <2>2, <2>4 DEF RegisterFails, Types
  <2> QED
    BY <2>3, <2>4 DEF RegisterFails
<1>2. CASE ~(given[i] < MaxRegistrations)
  BY <1>2 DEF RegisterFails, Types
<1> QED
  BY <1>1, <1>2

-----------------------------------------------------------------------------
\* What dispose and the first part of the clean-up do.
LEMMA DisposeFacts ==
  ASSUME Types, NEW i \in Instances, NEW c \in Callers, NEW holds \in BOOLEAN, NEW id \in Nat,
         Dispose(i, c, holds, id)
  PROVE  /\ Moves(i, c) /\ task'[i][c].at \in {"disposing", "finishing"}
         /\ process' \in [Instances -> {"none", "running", "ending", "gone"}]
         /\ pending' \in [Instances -> SUBSET {"spawn", "refresh"}]
         /\ \A j \in Instances \ {i} : process'[j] = process[j] /\ pending'[j] = pending[j]
         /\ \A j \in Instances \ {i} : j \in owned' <=> j \in owned
         /\ owned' \subseteq owned
         /\ holds => process'[i] # "running" /\ pending'[i] = {}
         /\ ~holds => UNCHANGED <<process, pending, owned>>
<1> DEFINE r == [at |-> IF holds /\ process[i] # "gone" THEN "disposing" ELSE "finishing",
                 holds |-> holds, id |-> id]
<1>1. r \in Tasks /\ r.at \in {"disposing", "finishing"}
  BY DEF Tasks, Stages
<1>2. task' = [task EXCEPT ![i][c] = r]
  BY DEF Dispose
<1>3. Moves(i, c) /\ task'[i][c] = r
  <2> HIDE DEF r
  <2> QED
    BY <1>1, <1>2, TaskMoves
<1>4. /\ process' \in [Instances -> {"none", "running", "ending", "gone"}]
      /\ pending' \in [Instances -> SUBSET {"spawn", "refresh"}]
      /\ \A j \in Instances \ {i} : process'[j] = process[j] /\ pending'[j] = pending[j]
  BY DEF Dispose, RejectAllPending, Types
<1>5. /\ holds => process'[i] # "running" /\ pending'[i] = {}
      /\ ~holds => UNCHANGED <<process, pending, owned>>
  BY DEF Dispose, RejectAllPending, Types
<1>6. owned' \subseteq owned /\ \A j \in Instances \ {i} : j \in owned' <=> j \in owned
  BY DEF Dispose
<1> QED
  BY <1>1, <1>3, <1>4, <1>5, <1>6

Begun(i, c) ==
    \/ /\ task'[i][c].at = "disconnecting" /\ task'[i][c].holds = (i \in owned)
       /\ UNCHANGED <<owned, process, pending>>
    \/ /\ task'[i][c].at \in {"disposing", "finishing"}
       /\ i \in owned => process'[i] # "running" /\ pending'[i] = {}
       /\ i \notin owned => UNCHANGED <<process, pending, owned>>

LEMMA CleanUpFacts ==
  ASSUME Types, NEW i \in Instances, NEW c \in Callers, CleanUp(i, c)
  PROVE  /\ Moves(i, c)
         /\ process' \in [Instances -> {"none", "running", "ending", "gone"}]
         /\ heartbeat' \in [Instances -> Nat] /\ bound' = bound \ {i}
         /\ \A j \in Instances \ {i} : /\ process'[j] = process[j]
                                       /\ j \in owned' <=> j \in owned
         /\ owned' \subseteq owned
         /\ Begun(i, c)
         /\ pending' \in [Instances -> SUBSET {"spawn", "refresh"}]
         /\ \A j \in Instances \ {i} : pending'[j] = pending[j]
<1>1. CASE radiusPiId[i] = None
  <2>1. heartbeat' = heartbeat /\ bound' = bound \ {i} /\ None \in Nat
    BY <1>1 DEF CleanUp, None
  <2>2. heartbeat' \in [Instances -> Nat]
    BY <2>1 DEF Types
  <2>3. CASE i \in owned
    <3>1. Dispose(i, c, TRUE, None)
      BY <1>1, <2>3 DEF CleanUp, Dispose
    <3>2. /\ Moves(i, c) /\ task'[i][c].at \in {"disposing", "finishing"}
          /\ process' \in [Instances -> {"none", "running", "ending", "gone"}]
          /\ pending' \in [Instances -> SUBSET {"spawn", "refresh"}]
          /\ \A j \in Instances \ {i} : process'[j] = process[j] /\ pending'[j] = pending[j]
          /\ \A j \in Instances \ {i} : j \in owned' <=> j \in owned
          /\ owned' \subseteq owned
          /\ process'[i] # "running" /\ pending'[i] = {}
      BY <2>1, <3>1, DisposeFacts
    <3>3. Begun(i, c)
      BY <2>3, <3>2 DEF Begun
    <3> QED
      BY <2>1, <2>2, <3>2, <3>3
  <2>4. CASE i \notin owned
    <3>1. Dispose(i, c, FALSE, None)
      <4>1. owned' = owned /\ pending' = pending /\ process' = process
        BY <1>1, <2>4 DEF CleanUp, Dispose
      <4>2. task' = [task EXCEPT ![i][c] = [at |-> "finishing", holds |-> FALSE, id |-> None]]
        <5>1. (i \in owned) = FALSE
          BY <2>4
        <5> QED
          BY <1>1, <2>4, <5>1 DEF CleanUp, Dispose
      <4> QED
        BY <4>1, <4>2 DEF Dispose
    <3> QED
      BY <2>1, <2>2, <2>4, <3>1, DisposeFacts DEF Begun
  <2> QED
    BY <2>3, <2>4
<1>2. CASE radiusPiId[i] # None
  <2> DEFINE r == [at |-> "disconnecting", holds |-> i \in owned, id |-> record[i].radius]
  <2>r. r \in Tasks
    BY RecordFields DEF Tasks, Stages
  <2>1. r.at = "disconnecting" /\ r.holds = (i \in owned)
    OBVIOUS
  <2>2. /\ bound' = bound \ {i} /\ UNCHANGED <<owned, process, pending>>
        /\ heartbeat' = [heartbeat EXCEPT ![i] = None]
    BY <1>2 DEF CleanUp, children
  <2>t. task' = [task EXCEPT ![i][c] = r]
    BY <1>2 DEF CleanUp
  <2>3. Moves(i, c) /\ task'[i][c] = r
    <3> HIDE DEF r
    <3> QED
      BY <2>r, <2>t, TaskMoves
  <2>4. heartbeat' \in [Instances -> Nat]
    BY <2>2 DEF Types, None
  <2> QED
    BY <2>1, <2>2, <2>3, <2>4 DEF Types, Begun
<1> QED
  BY <1>1, <1>2

-----------------------------------------------------------------------------
\* A step of caller c on instance i: nothing that secures the process is lost,
\* and c leaves the process to others only if it is secured.
LEMMA CallerSteps ==
  ASSUME Types, NEW i \in Instances, Safe(i), NEW c \in Callers, Moves(i, c),
         process'[i] = "running" => process[i] = "running",
         i \in leaked => i \in leaked',
         process'[i] = "running" /\ At(i, c, "disconnecting") /\ task[i][c].holds
            => i \in leaked',
         process'[i] = "running" /\ LeftIt(i, c)'
            => LeftIt(i, c) \/ Secured(i) \/ i \in leaked',
         process'[i] = "running" /\ i \in live \cap owned
            => i \in live' \cap owned' \/ Secured(i) \/ Secured(i)',
         At(i, "exit", "disconnecting")' /\ c = "exit" => process'[i] # "running",
         At(i, "spawn", "no")' => c # "spawn" /\ i \notin live'
            /\ task'[i][c].at \notin {"disconnecting", "disposing", "finishing"},
         Awaited(i)'
  PROVE  Safe(i)'
<1>0. "spawn" \in Callers /\ "exit" \in Callers
  BY DEF Callers, Handlers
<1>1. ASSUME process'[i] = "running", Secured(i) PROVE Secured(i)'
  BY <1>1 DEF Secured, Moves, At
<1>2. Owned(i)'
  BY <1>1 DEF Safe, Owned
<1>3. HandedOver(i)'
  <2> SUFFICES ASSUME process'[i] = "running", NEW d \in Callers, LeftIt(i, d)'
               PROVE  Secured(i)'
    BY DEF HandedOver
  <2>1. CASE d = c
    BY <2>1, <1>1 DEF Safe, HandedOver, Secured
  <2>2. CASE d # c
    BY <2>2, <1>1 DEF Safe, HandedOver, Moves, LeftIt, At
  <2> QED
    BY <2>1, <2>2
<1>4. ExitIsLate(i)'
  BY <1>0 DEF Safe, ExitIsLate, Moves, At
<1>5. SpawnFirst(i)'
  BY <1>0 DEF Safe, SpawnFirst, Moves, At
<1> QED
  BY <1>2, <1>3, <1>4, <1>5 DEF Safe

\* The simplest of them: c does not clean up.
LEMMA CalmSteps ==
  ASSUME Types, NEW i \in Instances, Safe(i), NEW c \in Callers, Moves(i, c),
         process'[i] = process[i], i \in live' <=> i \in live, i \in owned' <=> i \in owned,
         i \in leaked' <=> i \in leaked,
         \/ task[i][c].at \notin {"disconnecting", "disposing", "finishing", "no"}
         \/ /\ c \notin {"spawn", "exit"}
            /\ task[i][c].at \notin {"disconnecting", "disposing", "finishing"},
         task'[i][c].at \notin {"disconnecting", "disposing", "finishing", "no"},
         Awaited(i)'
  PROVE  Safe(i)'
<1>1. At(i, "spawn", "no")' => At(i, "spawn", "no")
  BY DEF Moves, At, Callers, Handlers
<1>2. At(i, "spawn", "no")' => c # "spawn" /\ i \notin live'
  BY <1>1 DEF At, Safe, SpawnFirst
<1> QED
  BY <1>2, CallerSteps DEF LeftIt, At

\* A step that concerns one instance.
LEMMA StepOn ==
  ASSUME IInv, NEW i \in Instances, Types', Safe(i)',
         \A j \in Instances \ {i} :
            /\ task'[j] = task[j] /\ process'[j] = process[j] /\ pending'[j] = pending[j]
            /\ j \in live' <=> j \in live
            /\ j \in owned' <=> j \in owned
            /\ j \in leaked' <=> j \in leaked
  PROVE  IInv'
<1> SUFFICES ASSUME NEW j \in Instances, j # i PROVE Safe(j)'
  BY DEF IInv
<1> QED
  BY DEF IInv, Safe, Owned, HandedOver, LeftIt, ExitIsLate, SpawnFirst, Awaited, Secured, At

-----------------------------------------------------------------------------
(* One lemma for each action.                                               *)

LEMMA TheCallers ==
  /\ Handlers \subseteq Callers /\ Stoppers \subseteq Callers
  /\ {"spawn", "exit", "refresh", "reregister"} \subseteq Callers
  /\ \A s \in Stoppers : s \notin {"spawn", "exit", "refresh", "reregister"}
BY OrchestratorAssumption DEF Callers, Handlers

LEMMA DisconnectedKeeps ==
  ASSUME IInv, NEW i \in Instances, NEW c \in Callers, Disconnected(i, c)
  PROVE  IInv'
<1> USE TheCallers DEF Disconnected, radius, resources, children, recovery, history
<1>0. Types /\ Safe(i)
  BY DEF IInv
<1>d. Dispose(i, c, task[i][c].holds, task[i][c].id)
  OBVIOUS
<1>t. task[i][c].holds \in BOOLEAN /\ task[i][c].id \in Nat
  BY <1>0 DEF Types, Tasks
<1>m. /\ Moves(i, c) /\ task'[i][c].at \in {"disposing", "finishing"}
      /\ process' \in [Instances -> {"none", "running", "ending", "gone"}]
      /\ pending' \in [Instances -> SUBSET {"spawn", "refresh"}]
      /\ \A j \in Instances \ {i} : process'[j] = process[j] /\ pending'[j] = pending[j]
      /\ \A j \in Instances \ {i} : j \in owned' <=> j \in owned
      /\ owned' \subseteq owned
      /\ task[i][c].holds => process'[i] # "running" /\ pending'[i] = {}
      /\ ~task[i][c].holds => UNCHANGED <<process, pending, owned>>
  <2> HIDE DEF Disconnected
  <2> QED
    BY <1>0, <1>d, <1>t, DisposeFacts
<1>1. Types'
  <2>1. radiusPiId' \in [Instances -> Nat]
    BY <1>0 DEF Types, None
  <2>2. record' \in [Instances -> Records]
    BY <1>0 DEF Types, Records, None
  <2> QED
    BY <1>0, <1>m, <2>1, <2>2 DEF Types, Moves
<1>2. \A j \in Instances \ {i} :
         /\ task'[j] = task[j] /\ process'[j] = process[j] /\ pending'[j] = pending[j]
         /\ j \in live' <=> j \in live
         /\ j \in owned' <=> j \in owned
         /\ j \in leaked' <=> j \in leaked
  BY <1>0, <1>m DEF Types, Moves
<1>3. Safe(i)'
  <2>1. Awaited(i)'
    BY <1>0, <1>m DEF Safe, Awaited, Types, Moves, At
  <2>2. LeftIt(i, c) \/ task[i][c].holds
    BY <1>t DEF LeftIt, At
  <2>3. process'[i] = "running" => ~task[i][c].holds /\ process' = process /\ owned' = owned
    BY <1>m
  <2>4. task'[i][c].at # "disconnecting" /\ (At(i, "spawn", "no")' => At(i, "spawn", "no"))
    BY <1>m DEF Moves, At
  <2> QED
    BY <1>0, <1>m, <2>1, <2>2, <2>3, <2>4, CallerSteps DEF Safe, SpawnFirst, At
<1> QED
  BY <1>1, <1>2, <1>3, StepOn

LEMMA DisconnectFailsKeeps ==
  ASSUME IInv, NEW i \in Instances, NEW c \in Callers, DisconnectFails(i, c)
  PROVE  IInv'
<1> USE TheCallers DEF DisconnectFails, radius, resources, children, recovery, history
<1>0. Types /\ Safe(i)
  BY DEF IInv
<1>m. Moves(i, c) /\ task'[i][c].at = "finishing" /\ task'[i][c].holds = task[i][c].holds
  BY <1>0, GoMoves DEF Stages, Statuses, RecordStatuses
<1>1. Types'
  BY <1>0, <1>m DEF Types, Moves
<1>2. \A j \in Instances \ {i} :
         /\ task'[j] = task[j] /\ process'[j] = process[j] /\ pending'[j] = pending[j]
         /\ j \in live' <=> j \in live
         /\ j \in owned' <=> j \in owned
         /\ j \in leaked' <=> j \in leaked
  BY <1>0, <1>m DEF Types, Moves
<1>3. Safe(i)'
  <2>1. Awaited(i)'
    BY <1>0, <1>m DEF Safe, Awaited, Types, Moves, At
  <2>2. LeftIt(i, c) \/ i \in leaked'
    BY DEF LeftIt, At
  <2>3. At(i, "spawn", "no")' => At(i, "spawn", "no") /\ c # "spawn" /\ FALSE
    BY <1>0, <1>m DEF Moves, At, Safe, SpawnFirst
  <2> QED
    BY <1>0, <1>m, <2>1, <2>2, <2>3, CallerSteps DEF At
<1> QED
  BY <1>1, <1>2, <1>3, StepOn

LEMMA DisposedKeeps ==
  ASSUME IInv, NEW i \in Instances, NEW c \in Callers, Disposed(i, c)
  PROVE  IInv'
<1> USE TheCallers DEF Disposed, radius, resources, children, recovery, history
<1>0. Types /\ Safe(i)
  BY DEF IInv
<1>m. Moves(i, c) /\ task'[i][c].at = "finishing" /\ task'[i][c].holds = task[i][c].holds
  BY <1>0, GoMoves DEF Stages, Statuses, RecordStatuses
<1>1. Types'
  BY <1>0, <1>m DEF Types, Moves
<1>2. \A j \in Instances \ {i} :
         /\ task'[j] = task[j] /\ process'[j] = process[j] /\ pending'[j] = pending[j]
         /\ j \in live' <=> j \in live
         /\ j \in owned' <=> j \in owned
         /\ j \in leaked' <=> j \in leaked
  BY <1>0, <1>m DEF Types, Moves
<1>3. Safe(i)'
  <2>1. Awaited(i)'
    BY <1>0, <1>m DEF Safe, Awaited, Types, Moves, At
  <2>2. LeftIt(i, c)
    BY DEF LeftIt, At
  <2>3. ~At(i, "spawn", "no")'
    BY <1>0, <1>m DEF Moves, At, Safe, SpawnFirst
  <2> QED
    BY <1>0, <1>m, <2>1, <2>2, <2>3, CallerSteps DEF At
<1> QED
  BY <1>1, <1>2, <1>3, StepOn

LEMMA SpawnKeeps ==
  ASSUME IInv, NEW i \in Instances, Spawn(i)
  PROVE  IInv'
<1> USE TheCallers DEF Spawn, radius, resources, children, recovery, history
<1>0. Types /\ Safe(i)
  BY DEF IInv
<1>m. /\ Moves(i, "spawn")
      /\ task'[i]["spawn"].at = "asking"
      /\ task'[i]["spawn"].holds = task[i]["spawn"].holds
  BY <1>0, GoMoves DEF Stages, Statuses, RecordStatuses
<1>u. UpdateRecord(i, "starting", None) /\ None \in Nat /\ "starting" \in RecordStatuses
  BY DEF None, Statuses, RecordStatuses
<1>1. Types'
  <2>1. disk' \in [Instances -> Records] /\ record' \in [Instances -> Records]
    BY <1>0, <1>u, WriteRecord
  <2>2. /\ process' \in [Instances -> {"none", "running", "ending", "gone"}]
        /\ pending' \in [Instances -> SUBSET {"spawn", "refresh"}]
    BY <1>0 DEF Types
  <2>3. live' \subseteq Instances /\ owned' \subseteq Instances /\ bound' \subseteq Instances
    BY <1>0 DEF Types
  <2> QED
    BY <1>0, <1>m, <2>1, <2>2, <2>3 DEF Types, Moves
<1>2. \A j \in Instances \ {i} :
         /\ task'[j] = task[j] /\ process'[j] = process[j] /\ pending'[j] = pending[j]
         /\ j \in live' <=> j \in live
         /\ j \in owned' <=> j \in owned
         /\ j \in leaked' <=> j \in leaked
  BY <1>0, <1>m DEF Types, Moves
<1>3. Safe(i)'
  <2>1. \A c \in Callers : task'[i][c].at \notin {"disconnecting", "disposing", "finishing"}
    BY <1>0, <1>m DEF Safe, SpawnFirst, Moves, At
  <2>2. i \in live' \cap owned' /\ process'[i] = "running" /\ pending'[i] = {"spawn"}
    BY <1>0 DEF Types
  <2>3. ~At(i, "spawn", "no")' /\ At(i, "spawn", "asking")'
    BY <1>m DEF At
  <2> QED
    BY <2>1, <2>2, <2>3 DEF Safe, Owned, HandedOver, LeftIt, ExitIsLate, SpawnFirst, Awaited, At
<1> QED
  BY <1>1, <1>2, <1>3, StepOn

LEMMA SpawnAnsweredKeeps ==
  ASSUME IInv, NEW i \in Instances, SpawnAnswered(i)
  PROVE  IInv'
<1> USE TheCallers DEF SpawnAnswered, radius, resources, children, recovery, history
<1>0. Types /\ Safe(i)
  BY DEF IInv
<1>m. /\ Moves(i, "spawn")
      /\ task'[i]["spawn"].at = "registering"
      /\ task'[i]["spawn"].holds = task[i]["spawn"].holds
  BY <1>0, GoMoves DEF Stages, Statuses, RecordStatuses
<1>1. Types'
  <2>1. disk' \in [Instances -> Records] /\ record' \in [Instances -> Records]
    BY <1>0, WriteRecord, RecordFields
  <2>2. pending' \in [Instances -> SUBSET {"spawn", "refresh"}]
    BY <1>0 DEF Types
  <2> QED
    BY <1>0, <1>m, <2>1, <2>2 DEF Types, Moves
<1>2. \A j \in Instances \ {i} :
         /\ task'[j] = task[j] /\ process'[j] = process[j] /\ pending'[j] = pending[j]
         /\ j \in live' <=> j \in live
         /\ j \in owned' <=> j \in owned
         /\ j \in leaked' <=> j \in leaked
  BY <1>0, <1>m DEF Types, Moves
<1>3. Safe(i)'
  <2>1. Awaited(i)'
    BY <1>0, <1>m DEF Safe, Awaited, Types, Moves, At
  <2> QED
    BY <1>0, <1>m, <2>1, CalmSteps DEF At
<1> QED
  BY <1>1, <1>2, <1>3, StepOn

LEMMA SpawnRegisteredKeeps ==
  ASSUME IInv, NEW i \in Instances, SpawnRegistered(i)
  PROVE  IInv'
<1> USE TheCallers DEF SpawnRegistered, radius, resources, children, recovery, history
<1>0. Types /\ Safe(i)
  BY DEF IInv
<1>m. Moves(i, "spawn") /\ task'[i]["spawn"].at = "done"
  BY <1>0, DoneMoves
<1>1. Types'
  <2>1. /\ given' \in [Instances -> Nat] /\ given'[i] \in Nat /\ heartbeat' \in [Instances -> Nat]
        /\ registered' \subseteq Registrations
    BY <1>0, RegisterTypes
  <2>2. disk' \in [Instances -> Records] /\ record' \in [Instances -> Records]
    <3>1. UpdateRecord(i, "online", given'[i]) /\ "online" \in RecordStatuses
      BY DEF Statuses, RecordStatuses
    <3> QED
      BY <1>0, <2>1, <3>1, WriteRecord
  <2>3. radiusPiId' \in [Instances -> Nat]
    BY <1>0, <2>1 DEF Types
  <2> QED
    BY <1>0, <1>m, <2>1, <2>2, <2>3 DEF Types, Moves
<1>2. \A j \in Instances \ {i} :
         /\ task'[j] = task[j] /\ process'[j] = process[j] /\ pending'[j] = pending[j]
         /\ j \in live' <=> j \in live
         /\ j \in owned' <=> j \in owned
         /\ j \in leaked' <=> j \in leaked
  BY <1>0, <1>m DEF Types, Moves
<1>3. Safe(i)'
  <2>1. Awaited(i)'
    BY <1>0, <1>m DEF Safe, Awaited, Types, Moves, At
  <2> QED
    BY <1>0, <1>m, <2>1, CalmSteps DEF At
<1> QED
  BY <1>1, <1>2, <1>3, StepOn

LEMMA SpawnFailsKeeps ==
  ASSUME IInv, NEW i \in Instances, SpawnFails(i)
  PROVE  IInv'
<1> USE TheCallers DEF SpawnFails, radius, resources, children, recovery, history
<1>0. Types /\ Safe(i)
  BY DEF IInv
<1>r. /\ given' \in [Instances -> Nat] /\ registered' \subseteq Registrations
      /\ excused' \subseteq Instances
  BY <1>0, RegisterFailsTypes DEF Types
<1>s. \/ At(i, "spawn", "asking") /\ "spawn" \notin pending[i]
      \/ At(i, "spawn", "registering")
  OBVIOUS
<1>c. CleanUp(i, "spawn")
  OBVIOUS
<1>m. /\ Moves(i, "spawn")
      /\ process' \in [Instances -> {"none", "running", "ending", "gone"}]
      /\ heartbeat' \in [Instances -> Nat] /\ bound' = bound \ {i}
      /\ \A j \in Instances \ {i} : /\ process'[j] = process[j]
                                    /\ j \in owned' <=> j \in owned
      /\ owned' \subseteq owned /\ Begun(i, "spawn")
      /\ pending' \in [Instances -> SUBSET {"spawn", "refresh"}]
      /\ \A j \in Instances \ {i} : pending'[j] = pending[j]
  <2> HIDE DEF SpawnFails
  <2> QED
    BY <1>0, <1>c, CleanUpFacts
<1>1. Types'
  <2>1. disk' \in [Instances -> Records] /\ record' \in [Instances -> Records]
    <3>1. UpdateRecord(i, "error", record[i].radius) /\ "error" \in RecordStatuses
      BY DEF Statuses, RecordStatuses
    <3> QED
      BY <1>0, <3>1, WriteRecord, RecordFields
  <2> QED
    BY <1>0, <1>m, <1>r, <2>1 DEF Types, Moves
<1>2. \A j \in Instances \ {i} :
         /\ task'[j] = task[j] /\ process'[j] = process[j] /\ pending'[j] = pending[j]
         /\ j \in live' <=> j \in live
         /\ j \in owned' <=> j \in owned
         /\ j \in leaked' <=> j \in leaked
  BY <1>0, <1>m DEF Types, Moves
<1>3. Safe(i)'
  <2>1. Awaited(i)'
    BY <1>0, <1>s, <1>m DEF Safe, Awaited, Types, Moves, Begun, At
  <2>2. task'[i]["spawn"].at \in {"disconnecting", "disposing", "finishing"} /\ ~LeftIt(i, "spawn")
    BY <1>m DEF Begun, LeftIt, At
  <2>3. ~At(i, "spawn", "no")'
    BY <1>0, <1>m, <2>2 DEF Moves, At, Safe, SpawnFirst
  <2>4. process'[i] = "running" => process[i] = "running"
    BY <1>m DEF Begun
  <2>5. process'[i] = "running" /\ i \notin owned => Secured(i)
    BY <1>0, <2>4 DEF Safe, Owned
  <2>6. process'[i] = "running" /\ i \in owned => Secured(i)' /\ ~LeftIt(i, "spawn")'
    BY <1>m DEF Begun, Secured, LeftIt, At
  <2> QED
    BY <1>0, <1>m, <2>1, <2>2, <2>3, <2>4, <2>5, <2>6, CallerSteps DEF At
<1> QED
  BY <1>1, <1>2, <1>3, StepOn

LEMMA FailedSpawnKeeps ==
  ASSUME IInv, NEW i \in Instances, FailedSpawn(i)
  PROVE  IInv'
<1> USE TheCallers DEF FailedSpawn, radius, resources, children, recovery, history
<1>0. Types /\ Safe(i)
  BY DEF IInv
<1>m. Moves(i, "spawn") /\ task'[i]["spawn"].at = "done"
  BY <1>0, DoneMoves
<1>1. Types'
  <2>1. disk' \in [Instances -> Records] /\ record' \in [Instances -> Records]
    <3>1. UpdateRecord(i, "stopped", record[i].radius) /\ "stopped" \in RecordStatuses
      BY DEF Statuses, RecordStatuses
    <3> QED
      BY <1>0, <3>1, WriteRecord, RecordFields
  <2> QED
    BY <1>0, <1>m, <2>1 DEF Types, Moves
<1>2. \A j \in Instances \ {i} :
         /\ task'[j] = task[j] /\ process'[j] = process[j] /\ pending'[j] = pending[j]
         /\ j \in live' <=> j \in live
         /\ j \in owned' <=> j \in owned
         /\ j \in leaked' <=> j \in leaked
  BY <1>0, <1>m DEF Types, Moves
<1>3. Safe(i)'
  <2>1. Awaited(i)'
    BY <1>0, <1>m DEF Safe, Awaited, Types, Moves, At
  <2>2. process[i] = "running" => Secured(i)
    BY <1>0 DEF Safe, HandedOver, LeftIt, At
  <2> QED
    BY <1>0, <1>m, <2>1, <2>2, CallerSteps DEF At, LeftIt
<1> QED
  BY <1>1, <1>2, <1>3, StepOn

LEMMA StopKeeps ==
  ASSUME IInv, NEW i \in Instances, NEW s \in Stoppers, Stop(i, s)
  PROVE  IInv'
<1> USE TheCallers DEF Stop, radius, resources, children, recovery, history
<1>0. Types /\ Safe(i)
  BY DEF IInv
<1>s. s \in Callers \ {"spawn", "exit"} /\ i \in live /\ At(i, s, "no")
  OBVIOUS
<1>c. CleanUp(i, s)
  OBVIOUS
<1>m. /\ Moves(i, s)
      /\ process' \in [Instances -> {"none", "running", "ending", "gone"}]
      /\ heartbeat' \in [Instances -> Nat] /\ bound' = bound \ {i}
      /\ \A j \in Instances \ {i} : /\ process'[j] = process[j]
                                    /\ j \in owned' <=> j \in owned
      /\ owned' \subseteq owned /\ Begun(i, s)
      /\ pending' \in [Instances -> SUBSET {"spawn", "refresh"}]
      /\ \A j \in Instances \ {i} : pending'[j] = pending[j]
  <2> HIDE DEF Stop
  <2> QED
    BY <1>0, <1>c, CleanUpFacts
<1>1. Types'
  <2>1. disk' \in [Instances -> Records] /\ record' \in [Instances -> Records]
    <3>1. UpdateRecord(i, "stopping", record[i].radius) /\ "stopping" \in RecordStatuses
      BY DEF Statuses, RecordStatuses
    <3> QED
      BY <1>0, <3>1, WriteRecord, RecordFields
  <2> QED
    BY <1>0, <1>m, <2>1 DEF Types, Moves
<1>2. \A j \in Instances \ {i} :
         /\ task'[j] = task[j] /\ process'[j] = process[j] /\ pending'[j] = pending[j]
         /\ j \in live' <=> j \in live
         /\ j \in owned' <=> j \in owned
         /\ j \in leaked' <=> j \in leaked
  BY <1>0, <1>m DEF Types, Moves
<1>3. Safe(i)'
  <2>1. Awaited(i)'
    BY <1>0, <1>s, <1>m DEF Safe, Awaited, Types, Moves, Begun, At
  <2>2. task'[i][s].at \in {"disconnecting", "disposing", "finishing"} /\ ~LeftIt(i, s)
    BY <1>m DEF Begun, LeftIt, At
  <2>3. ~At(i, "spawn", "no")'
    BY <1>0, <1>m, <2>2 DEF Moves, At, Safe, SpawnFirst
  <2>4. process'[i] = "running" => process[i] = "running"
    BY <1>m DEF Begun
  <2>5. process'[i] = "running" /\ i \notin owned => Secured(i)
    BY <1>0, <2>4 DEF Safe, Owned
  <2>6. process'[i] = "running" /\ i \in owned => Secured(i)' /\ ~LeftIt(i, s)'
    BY <1>m DEF Begun, Secured, LeftIt, At
  <2> QED
    BY <1>0, <1>m, <2>1, <2>2, <2>3, <2>4, <2>5, <2>6, CallerSteps DEF At
<1> QED
  BY <1>1, <1>2, <1>3, StepOn

LEMMA StoppedKeeps ==
  ASSUME IInv, NEW i \in Instances, NEW s \in Stoppers, Stopped(i, s)
  PROVE  IInv'
<1> USE TheCallers DEF Stopped, radius, resources, children, recovery, history
<1>0. Types /\ Safe(i)
  BY DEF IInv
<1>s. s \in Callers \ {"spawn", "exit"}
  OBVIOUS
<1>m. Moves(i, s) /\ task'[i][s].at = "done"
  BY <1>0, DoneMoves
<1>1. Types'
  <2>1. record' \in [Instances -> Records]
    <3>1. record[i] \in Records
      BY <1>0 DEF Types
    <3>2. [record[i] EXCEPT !.status = "stopped"] \in Records
      BY <3>1 DEF Records, RecordStatuses, Statuses
    <3> QED
      BY <1>0, <3>2 DEF Types
  <2>2. disk' \in [Instances -> Records]
    <3>1. Absent \in Records
      BY DEF Absent, Records, RecordStatuses, None
    <3> QED
      BY <1>0, <3>1 DEF Types
  <2> QED
    BY <1>0, <1>m, <2>1, <2>2 DEF Types, Moves
<1>2. \A j \in Instances \ {i} :
         /\ task'[j] = task[j] /\ process'[j] = process[j] /\ pending'[j] = pending[j]
         /\ j \in live' <=> j \in live
         /\ j \in owned' <=> j \in owned
         /\ j \in leaked' <=> j \in leaked
  BY <1>0, <1>m DEF Types, Moves
<1>3. Safe(i)'
  <2>1. Awaited(i)'
    BY <1>0, <1>m DEF Safe, Awaited, Types, Moves, At
  <2>2. process[i] = "running" => Secured(i)
    BY <1>0, <1>s DEF Safe, HandedOver, LeftIt, At
  <2>3. At(i, "spawn", "no")' => i \notin live'
    OBVIOUS
  <2> QED
    BY <1>0, <1>s, <1>m, <2>1, <2>2, <2>3, CallerSteps DEF At, LeftIt
<1> QED
  BY <1>1, <1>2, <1>3, StepOn

LEMMA ExitKeeps ==
  ASSUME IInv, NEW i \in Instances, Exit(i)
  PROVE  IInv'
<1> USE TheCallers DEF Exit, radius, resources, children, recovery, history
<1>0. Types /\ Safe(i)
  BY DEF IInv
<1>p. /\ process'[i] = "gone" /\ pending'[i] = {}
      /\ process' \in [Instances -> {"none", "running", "ending", "gone"}]
      /\ pending' \in [Instances -> SUBSET {"spawn", "refresh"}]
      /\ \A j \in Instances \ {i} : process'[j] = process[j] /\ pending'[j] = pending[j]
  BY <1>0 DEF Types, RejectAllPending
<1>u. /\ disk' \in [Instances -> Records] /\ record' \in [Instances -> Records]
  <2>1. CASE UpdateRecord(i, "error", record[i].radius)
    BY <1>0, <2>1, WriteRecord, RecordFields DEF Statuses, RecordStatuses
  <2>2. CASE UNCHANGED <<disk, record>>
    BY <1>0, <2>2 DEF Types
  <2> QED
    BY <2>1, <2>2
<1>m. /\ Moves(i, "exit") /\ heartbeat' \in [Instances -> Nat]
      /\ \/ task' = task
         \/ task'[i]["exit"].at = "disconnecting" /\ i \in live
  <2>1. CASE UNCHANGED <<task, heartbeat>>
    <3> HIDE DEF Exit
    <3>1. task' = task /\ heartbeat' = heartbeat
      BY <2>1
    <3>2. Moves(i, "exit")
      BY <1>0, <3>1 DEF Types, Moves
    <3>3. heartbeat' \in [Instances -> Nat]
      BY <1>0, <3>1 DEF Types
    <3> QED
      BY <3>1, <3>2, <3>3
  <2>2. CASE /\ i \in live
             /\ task' = [task EXCEPT ![i]["exit"] = [at |-> "disconnecting", holds |-> FALSE,
                                                     id |-> record[i].radius]]
             /\ heartbeat' = [heartbeat EXCEPT ![i] = None]
    <3> DEFINE r == [at |-> "disconnecting", holds |-> FALSE, id |-> record[i].radius]
    <3>1. r \in Tasks /\ r.at = "disconnecting"
      BY <1>0, RecordFields DEF Tasks, Stages
    <3>2. task' = [task EXCEPT ![i]["exit"] = r]
      BY <2>2
    <3>3. Moves(i, "exit") /\ task'[i]["exit"] = r
      <4> HIDE DEF r, Exit
      <4> QED
        BY <1>0, <3>1, <3>2, TaskMoves
    <3>4. heartbeat' \in [Instances -> Nat]
      BY <1>0, <2>2 DEF Types, None
    <3> QED
      BY <2>2, <3>1, <3>3, <3>4
  <2> QED
    BY <2>1, <2>2
<1>l. /\ live' \subseteq live /\ owned' \subseteq owned /\ bound' \subseteq bound
      /\ \A j \in Instances \ {i} : (j \in live' <=> j \in live) /\ (j \in owned' <=> j \in owned)
  OBVIOUS
<1>1. Types'
  <2>1. UNCHANGED <<registered, given, radiusPiId, boot, loaded, todo, crashes, excused, leaked>>
    OBVIOUS
  <2> HIDE DEF Exit
  <2> QED
    BY <1>0, <1>p, <1>u, <1>m, <1>l, <2>1 DEF Types, Moves
<1>2. \A j \in Instances \ {i} :
         /\ task'[j] = task[j] /\ process'[j] = process[j] /\ pending'[j] = pending[j]
         /\ j \in live' <=> j \in live
         /\ j \in owned' <=> j \in owned
         /\ j \in leaked' <=> j \in leaked
  BY <1>0, <1>p, <1>m, <1>l DEF Types, Moves
<1>3. Safe(i)'
  <2>1. At(i, "spawn", "no")' => task' = task /\ i \notin live'
    BY <1>0, <1>m, <1>l DEF Safe, SpawnFirst, Moves, At
  <2>2. SpawnFirst(i)'
    BY <1>0, <2>1 DEF Safe, SpawnFirst, At
  <2> QED
    BY <1>p, <2>2 DEF Safe, Owned, HandedOver, ExitIsLate, Awaited
<1> QED
  BY <1>1, <1>2, <1>3, StepOn

LEMMA ExitDisconnectedKeeps ==
  ASSUME IInv, NEW i \in Instances, ExitDisconnected(i)
  PROVE  IInv'
<1> USE TheCallers DEF ExitDisconnected, radius, resources, children, recovery, history
<1>0. Types /\ Safe(i)
  BY DEF IInv
<1>m. Moves(i, "exit") /\ task'[i]["exit"].at = "done"
  BY <1>0, DoneMoves
<1>1. Types'
  <2>1. disk' \in [Instances -> Records] /\ record' \in [Instances -> Records]
    BY <1>0, WriteRecord, RecordFields DEF None
  <2> QED
    BY <1>0, <1>m, <2>1 DEF Types, Moves
<1>2. \A j \in Instances \ {i} :
         /\ task'[j] = task[j] /\ process'[j] = process[j] /\ pending'[j] = pending[j]
         /\ j \in live' <=> j \in live
         /\ j \in owned' <=> j \in owned
         /\ j \in leaked' <=> j \in leaked
  BY <1>0, <1>m DEF Types, Moves
<1>3. Safe(i)'
  <2>1. Awaited(i)'
    BY <1>0, <1>m DEF Safe, Awaited, Types, Moves, At
  <2>2. process[i] # "running" /\ process' = process
    BY <1>0 DEF Safe, ExitIsLate
  <2>3. ~At(i, "spawn", "no")'
    BY <1>0, <1>m DEF Moves, At, Safe, SpawnFirst
  <2> QED
    BY <1>0, <1>m, <2>1, <2>2, <2>3, CallerSteps DEF At
<1> QED
  BY <1>1, <1>2, <1>3, StepOn

LEMMA ExitDisconnectFailsKeeps ==
  ASSUME IInv, NEW i \in Instances, ExitDisconnectFails(i)
  PROVE  IInv'
<1> USE TheCallers DEF ExitDisconnectFails, radius, resources, children, recovery, history
<1>0. Types /\ Safe(i)
  BY DEF IInv
<1>m. Moves(i, "exit") /\ task'[i]["exit"].at = "done"
  BY <1>0, DoneMoves
<1>1. Types'
  BY <1>0, <1>m DEF Types, Moves
<1>2. \A j \in Instances \ {i} :
         /\ task'[j] = task[j] /\ process'[j] = process[j] /\ pending'[j] = pending[j]
         /\ j \in live' <=> j \in live
         /\ j \in owned' <=> j \in owned
         /\ j \in leaked' <=> j \in leaked
  BY <1>0, <1>m DEF Types, Moves
<1>3. Safe(i)'
  <2>1. Awaited(i)'
    BY <1>0, <1>m DEF Safe, Awaited, Types, Moves, At
  <2>2. process[i] # "running" /\ process' = process
    BY <1>0 DEF Safe, ExitIsLate
  <2>3. ~At(i, "spawn", "no")'
    BY <1>0, <1>m DEF Moves, At, Safe, SpawnFirst
  <2> QED
    BY <1>0, <1>m, <2>1, <2>2, <2>3, CallerSteps DEF At
<1> QED
  BY <1>1, <1>2, <1>3, StepOn

LEMMA RequestKeeps ==
  ASSUME IInv, NEW i \in Instances, Request(i)
  PROVE  IInv'
<1> USE TheCallers DEF Request, radius, resources, children, recovery, history
<1>0. Types /\ Safe(i)
  BY DEF IInv
<1>m. /\ Moves(i, "refresh")
      /\ task'[i]["refresh"].at = "asking"
      /\ task'[i]["refresh"].holds = task[i]["refresh"].holds
  BY <1>0, GoMoves DEF Stages, Statuses, RecordStatuses
<1>1. Types'
  <2>1. pending' \in [Instances -> SUBSET {"spawn", "refresh"}]
    BY <1>0 DEF Types
  <2> QED
    BY <1>0, <1>m, <2>1 DEF Types, Moves
<1>2. \A j \in Instances \ {i} :
         /\ task'[j] = task[j] /\ process'[j] = process[j] /\ pending'[j] = pending[j]
         /\ j \in live' <=> j \in live
         /\ j \in owned' <=> j \in owned
         /\ j \in leaked' <=> j \in leaked
  BY <1>0, <1>m DEF Types, Moves
<1>3. Safe(i)'
  <2>1. Awaited(i)'
    BY <1>0, <1>m DEF Safe, Awaited, Types, Moves, At
  <2> QED
    BY <1>0, <1>m, <2>1, CalmSteps DEF At
<1> QED
  BY <1>1, <1>2, <1>3, StepOn

LEMMA RefreshKeeps ==
  ASSUME IInv, NEW i \in Instances, Refresh(i)
  PROVE  IInv'
<1> USE TheCallers DEF Refresh, radius, resources, children, recovery, history
<1>0. Types /\ Safe(i)
  BY DEF IInv
<1>m. Moves(i, "refresh") /\ task'[i]["refresh"].at = "done"
  BY <1>0, DoneMoves
<1>1. Types'
  <2>1. pending' \in [Instances -> SUBSET {"spawn", "refresh"}]
    BY <1>0 DEF Types
  <2>2. disk' \in [Instances -> Records] /\ record' \in [Instances -> Records]
    <3>1. CASE UNCHANGED <<disk, record>>
      BY <1>0, <3>1 DEF Types
    <3>2. CASE UpdateRecord(i, record[i].status, record[i].radius)
      BY <1>0, <3>2, WriteRecord, RecordFields
    <3> QED
      BY <3>1, <3>2
  <2> QED
    BY <1>0, <1>m, <2>1, <2>2 DEF Types, Moves
<1>2. \A j \in Instances \ {i} :
         /\ task'[j] = task[j] /\ process'[j] = process[j] /\ pending'[j] = pending[j]
         /\ j \in live' <=> j \in live
         /\ j \in owned' <=> j \in owned
         /\ j \in leaked' <=> j \in leaked
  BY <1>0, <1>m DEF Types, Moves
<1>3. Safe(i)'
  <2>1. Awaited(i)'
    BY <1>0, <1>m DEF Safe, Awaited, Types, Moves, At
  <2> QED
    BY <1>0, <1>m, <2>1, CalmSteps DEF At
<1> QED
  BY <1>1, <1>2, <1>3, StepOn

LEMMA ForgetKeeps ==
  ASSUME IInv, NEW i \in Instances, Forget(i)
  PROVE  IInv'
<1> USE TheCallers DEF Forget, radius, resources, children, recovery, history
<1>0. Types /\ Safe(i)
  BY DEF IInv

<1>1. Types'
  BY <1>0 DEF Types
<1>2. \A j \in Instances \ {i} :
         /\ task'[j] = task[j] /\ process'[j] = process[j] /\ pending'[j] = pending[j]
         /\ j \in live' <=> j \in live
         /\ j \in owned' <=> j \in owned
         /\ j \in leaked' <=> j \in leaked
  BY <1>0
<1>3. Safe(i)'
  BY <1>0 DEF Safe, Owned, HandedOver, LeftIt, ExitIsLate, SpawnFirst, Awaited, Secured, At
<1> QED
  BY <1>1, <1>2, <1>3, StepOn

LEMMA ReRegisterKeeps ==
  ASSUME IInv, NEW i \in Instances, ReRegister(i)
  PROVE  IInv'
<1> USE TheCallers DEF ReRegister, radius, resources, children, recovery, history
<1>0. Types /\ Safe(i)
  BY DEF IInv
<1>m. \/ UNCHANGED task
      \/ /\ Moves(i, "reregister")
         /\ task'[i]["reregister"].at \in RecordStatuses
  <2>1. CASE UNCHANGED task
    BY <2>1
  <2>2. CASE Go(i, "reregister", record[i].status)
    <3>1. record[i].status \in RecordStatuses
      BY <1>0, RecordFields
    <3> HIDE DEF ReRegister
    <3> QED
      BY <1>0, <2>2, <3>1, GoMoves
  <2> QED
    BY <2>1, <2>2
<1>1. Types'
  <2>1. heartbeat' \in [Instances -> Nat]
    BY <1>0 DEF Types, None
  <2> QED
    BY <1>0, <1>m, <2>1 DEF Types, Moves
<1>2. \A j \in Instances \ {i} :
         /\ task'[j] = task[j] /\ process'[j] = process[j] /\ pending'[j] = pending[j]
         /\ j \in live' <=> j \in live
         /\ j \in owned' <=> j \in owned
         /\ j \in leaked' <=> j \in leaked
  BY <1>0, <1>m DEF Moves
<1>3. Safe(i)'
  <2>1. CASE UNCHANGED task
    BY <1>0, <2>1 DEF Safe, Owned, HandedOver, LeftIt, ExitIsLate, SpawnFirst, Awaited, Secured, At
  <2>2. CASE Moves(i, "reregister") /\ task'[i]["reregister"].at \in RecordStatuses
    <3>1. Awaited(i)'
      BY <1>0, <2>2 DEF Safe, Awaited, Types, Moves, At
    <3>2. task[i]["reregister"].at \notin {"disconnecting", "disposing", "finishing"}
      OBVIOUS
    <3>3. task'[i]["reregister"].at \notin {"disconnecting", "disposing", "finishing", "no"}
      BY <2>2 DEF Statuses, RecordStatuses
    <3> QED
      BY <1>0, <2>2, <3>1, <3>2, <3>3, CalmSteps
  <2> QED
    BY <1>m, <2>1, <2>2
<1> QED
  BY <1>1, <1>2, <1>3, StepOn

LEMMA ReRegisteredKeeps ==
  ASSUME IInv, NEW i \in Instances, ReRegistered(i)
  PROVE  IInv'
<1> USE TheCallers DEF ReRegistered, radius, resources, children, recovery, history
<1>0. Types /\ Safe(i)
  BY DEF IInv
<1>m. Moves(i, "reregister") /\ task'[i]["reregister"].at = "done"
  BY <1>0, DoneMoves
<1>1. Types'
  <2>1. /\ given' \in [Instances -> Nat] /\ given'[i] \in Nat /\ heartbeat' \in [Instances -> Nat]
        /\ registered' \subseteq Registrations
    BY <1>0, RegisterTypes
  <2>2. [status |-> task[i]["reregister"].at, radius |-> given'[i]] \in Records
    BY <2>1 DEF Records, RecordStatuses
  <2>3. disk' \in [Instances -> Records] /\ record' \in [Instances -> Records]
    BY <1>0, <2>2 DEF Types
  <2>4. radiusPiId' \in [Instances -> Nat]
    BY <1>0, <2>1 DEF Types
  <2> QED
    BY <1>0, <1>m, <2>1, <2>3, <2>4 DEF Types, Moves
<1>2. \A j \in Instances \ {i} :
         /\ task'[j] = task[j] /\ process'[j] = process[j] /\ pending'[j] = pending[j]
         /\ j \in live' <=> j \in live
         /\ j \in owned' <=> j \in owned
         /\ j \in leaked' <=> j \in leaked
  BY <1>0, <1>m DEF Types, Moves
<1>3. Safe(i)'
  <2>1. Awaited(i)'
    BY <1>0, <1>m DEF Safe, Awaited, Types, Moves, At
  <2>2. task[i]["reregister"].at \notin {"disconnecting", "disposing", "finishing", "no"}
    BY DEF Statuses, RecordStatuses
  <2> QED
    BY <1>0, <1>m, <2>1, <2>2, CalmSteps
<1> QED
  BY <1>1, <1>2, <1>3, StepOn

LEMMA ReRegisterFailsKeeps ==
  ASSUME IInv, NEW i \in Instances, ReRegisterFails(i)
  PROVE  IInv'
<1> USE TheCallers DEF ReRegisterFails, radius, resources, children, recovery, history
<1>0. Types /\ Safe(i)
  BY DEF IInv
<1>m. Moves(i, "reregister") /\ task'[i]["reregister"].at = "done"
  BY <1>0, DoneMoves
<1>1. Types'
  <2>1. /\ given' \in [Instances -> Nat] /\ heartbeat' = heartbeat
        /\ registered' \subseteq Registrations /\ excused' \subseteq Instances
    BY <1>0, RegisterFailsTypes
  <2> QED
    BY <1>0, <1>m, <2>1 DEF Types, Moves
<1>2. \A j \in Instances \ {i} :
         /\ task'[j] = task[j] /\ process'[j] = process[j] /\ pending'[j] = pending[j]
         /\ j \in live' <=> j \in live
         /\ j \in owned' <=> j \in owned
         /\ j \in leaked' <=> j \in leaked
  BY <1>0, <1>m DEF Types, Moves
<1>3. Safe(i)'
  <2>1. Awaited(i)'
    BY <1>0, <1>m DEF Safe, Awaited, Types, Moves, At
  <2>2. task[i]["reregister"].at \notin {"disconnecting", "disposing", "finishing", "no"}
    BY DEF Statuses, RecordStatuses
  <2> QED
    BY <1>0, <1>m, <2>1, <2>2, CalmSteps
<1> QED
  BY <1>1, <1>2, <1>3, StepOn

LEMMA RecoverKeeps ==
  ASSUME IInv, NEW i \in Instances, Recover(i)
  PROVE  IInv'
<1> USE TheCallers DEF Recover, radius, resources, children, recovery, history
<1>0. Types /\ Safe(i)
  BY DEF IInv

<1>1. Types'
  <2>1. heartbeat' \in [Instances -> Nat]
    BY <1>0 DEF Types, None
  <2> QED
    BY <1>0, <2>1 DEF Types
<1>2. \A j \in Instances \ {i} :
         /\ task'[j] = task[j] /\ process'[j] = process[j] /\ pending'[j] = pending[j]
         /\ j \in live' <=> j \in live
         /\ j \in owned' <=> j \in owned
         /\ j \in leaked' <=> j \in leaked
  BY <1>0
<1>3. Safe(i)'
  BY <1>0 DEF Safe, Owned, HandedOver, LeftIt, ExitIsLate, SpawnFirst, Awaited, Secured, At
<1> QED
  BY <1>1, <1>2, <1>3, StepOn

LEMMA CrashKeeps ==
  ASSUME IInv, Crash
  PROVE  IInv'
<1> USE TheCallers DEF Crash, radius, resources, children, recovery, history
<1>0. Types /\ \A i \in Instances : Safe(i)
  BY DEF IInv
<1>1. Types'
  <2>1. PICK made \in SUBSET {i \in Instances :
                 At(i, "spawn", "registering") /\ given[i] < MaxRegistrations} :
          /\ given' = [i \in Instances |-> IF i \in made THEN given[i] + 1 ELSE given[i]]
          /\ registered' = registered \cup {<<i, given[i] + 1>> : i \in made}
          /\ excused' = excused \cup made
    OBVIOUS
  <2>2. \A i \in made : given[i] + 1 \in 1 .. MaxRegistrations
    BY <1>0, <2>1, OrchestratorAssumption DEF Types
  <2>3. given' \in [Instances -> Nat] /\ excused' \subseteq Instances
    BY <1>0, <2>1 DEF Types
  <2>4. registered' \subseteq Registrations
    BY <1>0, <2>1, <2>2 DEF Types, Registrations
  <2>5. /\ heartbeat' \in [Instances -> Nat] /\ radiusPiId' \in [Instances -> Nat]
        /\ record' \in [Instances -> Records] /\ loaded' \in [Instances -> Records]
    BY DEF None, Absent, Records, RecordStatuses
  <2>6. /\ process' \in [Instances -> {"none", "running", "ending", "gone"}]
        /\ pending' \in [Instances -> SUBSET {"spawn", "refresh"}]
    OBVIOUS
  <2>7. task' \in [Instances -> [Callers -> Tasks]]
    BY DEF Idle, None, Tasks, Stages
  <2>8. crashes' \in 0 .. MaxCrashes /\ boot' \in {"up", "down", "recovering"}
    BY <1>0, OrchestratorAssumption DEF Types
  <2> QED
    BY <1>0, <2>3, <2>4, <2>5, <2>6, <2>7, <2>8 DEF Types
<1>2. ASSUME NEW i \in Instances PROVE Safe(i)'
  <2>1. process'[i] # "running" /\ pending'[i] = {} /\ i \notin live'
    OBVIOUS
  <2>2. \A c \in Callers : task'[i][c].at \in {"no", "done"}
    BY DEF Idle
  <2> QED
    BY <2>1, <2>2 DEF Safe, Owned, HandedOver, ExitIsLate, SpawnFirst, Awaited
<1> QED
  BY <1>1, <1>2 DEF IInv

LEMMA RestartKeeps ==
  ASSUME IInv, Restart \/ Recovered
  PROVE  IInv'
<1> USE DEF Restart, Recovered, radius, resources, children, recovery, history
<1>1. Types'
  <2>1. ASSUME NEW x \in Records
        PROVE  [x EXCEPT !.status = "stopped"] \in Records /\ Absent \in Records
    BY DEF Records, RecordStatuses, Absent, None, Statuses
  <2>2. loaded' \in [Instances -> Records] /\ disk' \in [Instances -> Records]
    <3>1. disk \in [Instances -> Records] /\ loaded \in [Instances -> Records]
      BY DEF IInv, Types
    <3>2. CASE Restart
      BY <2>1, <3>1, <3>2
    <3>3. CASE Recovered
      <4>1. Absent \in Records
        BY DEF Absent, Records, RecordStatuses, None
      <4> QED
        BY <3>1, <3>3, <4>1
    <3> QED
      BY <3>2, <3>3
  <2>3. excused' \subseteq Instances
    BY DEF IInv, Types
  <2> QED
    BY <2>2, <2>3 DEF IInv, Types
<1> QED
  BY <1>1 DEF IInv, Safe, Owned, HandedOver, LeftIt, ExitIsLate, SpawnFirst, Awaited, Secured, At

-----------------------------------------------------------------------------
LEMMA InitIInv == Init => IInv
<1> SUFFICES ASSUME Init PROVE IInv
  OBVIOUS
<1> USE OrchestratorAssumption, TheCallers DEF Init
<1>1. Types
  BY DEF Types, Absent, None, Idle, Records, RecordStatuses, Tasks, Stages
<1>2. ASSUME NEW i \in Instances PROVE Safe(i)
  <2>1. process[i] = "none" /\ pending[i] = {} /\ i \notin live
    OBVIOUS
  <2>2. \A c \in Callers : task[i][c].at = "no"
    BY DEF Idle
  <2> QED
    BY <2>1, <2>2 DEF Safe, Owned, HandedOver, ExitIsLate, SpawnFirst, Awaited, At
<1> QED
  BY <1>1, <1>2 DEF IInv

LEMMA StepIInv == IInv /\ [Next]_vars => IInv'
<1> SUFFICES ASSUME IInv, [Next]_vars PROVE IInv'
  OBVIOUS
<1>1. ASSUME NEW i \in Instances, Spawn(i) \/ SpawnStep(i) PROVE IInv'
  BY <1>1, TheCallers, SpawnKeeps, SpawnAnsweredKeeps, SpawnRegisteredKeeps, SpawnFailsKeeps,
     FailedSpawnKeeps, DisconnectedKeeps, DisconnectFailsKeeps, DisposedKeeps
     DEF SpawnStep, CleanUpStep
<1>2. ASSUME NEW i \in Instances, Exit(i) \/ ExitStep(i) PROVE IInv'
  BY <1>2, ExitKeeps, ExitDisconnectedKeeps, ExitDisconnectFailsKeeps DEF ExitStep
<1>3. ASSUME NEW i \in Instances, NEW s \in Stoppers, Stop(i, s) \/ StopStep(i, s) PROVE IInv'
  BY <1>3, TheCallers, StopKeeps, StoppedKeeps, DisconnectedKeeps, DisconnectFailsKeeps,
     DisposedKeeps DEF StopStep, CleanUpStep
<1>4. ASSUME NEW i \in Instances, Request(i) \/ Refresh(i) \/ Forget(i) \/ Recover(i) PROVE IInv'
  BY <1>4, RequestKeeps, RefreshKeeps, ForgetKeeps, RecoverKeeps
<1>5. ASSUME NEW i \in Instances, ReRegister(i) \/ ReRegistered(i) \/ ReRegisterFails(i)
      PROVE  IInv'
  BY <1>5, ReRegisterKeeps, ReRegisteredKeeps, ReRegisterFailsKeeps
<1>6. CASE Crash \/ Restart \/ Recovered
  BY <1>6, CrashKeeps, RestartKeeps
<1>7. CASE UNCHANGED vars
  BY <1>7 DEF vars, radius, resources, children, recovery, history, IInv, Types, Safe, Owned,
     HandedOver, LeftIt, ExitIsLate, SpawnFirst, Awaited, Secured, At
<1> QED
  BY <1>1, <1>2, <1>3, <1>4, <1>5, <1>6, <1>7 DEF Next

LEMMA AlwaysIInv == Spec => []IInv
BY InitIInv, StepIInv, PTL DEF Spec

\* Every variable keeps its type, and a request that awaits an answer has a
\* caller and a process: rejecting all of them at the end of the process leaves
\* no promise behind.
THEOREM TypeCorrect == Spec => []TypeOK
<1>1. IInv => TypeOK
  BY DEF IInv, Safe, Awaited, TypeOK
<1> QED
  BY AlwaysIInv, <1>1, PTL

\* However spawn, stop, the end of the process, crashes and re-registrations
\* interleave, no child process runs that neither a stop can reach nor anybody
\* is about to dispose of, except after a failed disconnect in a clean-up.
THEOREM NoOrphanProcess == Spec => []ProcessesAreOwned
<1>1. IInv => ProcessesAreOwned
  BY DEF IInv, Safe, Owned, Secured, ProcessesAreOwned
<1> QED
  BY AlwaysIInv, <1>1, PTL

-----------------------------------------------------------------------------
(* Where registrations are recorded.                                        *)

\* Nothing works on i: it has not been spawned, has ended or was cut off by a crash.
Dead(i) ==
    i \notin live /\ heartbeat[i] = None /\ \A c \in Callers : task[i][c].at \in {"no", "done"}

\* The registration is the one on disk; while i is live it is also the one that every
\* write of the record repeats and that every clean-up under way disconnects.
Held(i, id) ==
    /\ disk[i].radius = id
    /\ \/ Dead(i)
       \/ /\ i \in live
          /\ record[i].radius = id /\ radiusPiId[i] = id
          /\ heartbeat[i] \in {None, id}
          /\ task[i]["spawn"].at \notin {"asking", "registering"}
          /\ task[i]["reregister"].at \notin Statuses
          /\ \A c \in Callers :
                /\ task[i][c].at \notin {"disposing", "finishing"}
                /\ task[i][c].at = "disconnecting" => task[i][c].id = id

AllHeld(i) == i \notin excused => \A id \in 1 .. given[i] : <<i, id>> \in registered => Held(i, id)

\* No registration is renewed before there is one.
Early(i) ==
    task[i]["spawn"].at \in {"no", "asking", "registering"} =>
        heartbeat[i] = None /\ task[i]["reregister"].at \notin Statuses

Unspawned(i) == task[i]["spawn"].at = "no" => disk[i] = Absent /\ task[i]["refresh"].at # "asking"

\* The recovery saves the registrations that the disk had.
Loading(i) ==
    boot = "recovering" /\ loaded[i] # Absent =>
        loaded[i].radius = disk[i].radius /\ Dead(i) /\ task[i]["spawn"].at # "no"

Down(i) == boot = "down" => Dead(i)

Rec(i) == AllHeld(i) /\ Early(i) /\ Unspawned(i) /\ Loading(i) /\ Down(i)

RInv == \A i \in Instances : Rec(i)

\* i has no registration that has to be recorded.
Gone(i) == i \in excused \/ \A id \in 1 .. given[i] : <<i, id>> \notin registered

LEMMA GoneIsHeld ==
  ASSUME NEW i, Gone(i)'
  PROVE  AllHeld(i)'
BY DEF Gone, AllHeld

\* A clean-up that has disconnected, a spawn or a renewal under way: nothing is registered.
LEMMA GoneWhile ==
  ASSUME NEW i \in Instances, Rec(i),
         \/ \E c \in Callers : task[i][c].at \in {"disposing", "finishing"}
         \/ task[i]["spawn"].at \in {"asking", "registering"}
         \/ task[i]["reregister"].at \in Statuses
  PROVE  Gone(i)
<1>1. ~Dead(i)
  BY TheCallers DEF Dead, Statuses
<1> QED
  BY <1>1 DEF Rec, AllHeld, Gone, Held

\* What a step does not touch stays as it is.
LEMMA RecStays ==
  ASSUME NEW j \in Instances, Rec(j), UNCHANGED <<boot, loaded>>,
         task'[j] = task[j], disk'[j] = disk[j], record'[j] = record[j],
         heartbeat'[j] \in {None, heartbeat[j]},
         radiusPiId'[j] = radiusPiId[j], given'[j] = given[j], j \in live' <=> j \in live,
         j \in excused => j \in excused',
         \A id : <<j, id>> \in registered' => <<j, id>> \in registered
  PROVE  Rec(j)'
<1>1. Dead(j) => Dead(j)'
  BY DEF Dead
<1>2. \A id : Held(j, id) => Held(j, id)'
  BY <1>1 DEF Held
<1>3. AllHeld(j)'
  BY <1>2 DEF Rec, AllHeld
<1>4. Early(j)' /\ Unspawned(j)' /\ Down(j)'
  BY <1>1 DEF Rec, Early, Unspawned, Down
<1>5. Loading(j)'
  BY <1>1 DEF Rec, Loading
<1> QED
  BY <1>3, <1>4, <1>5 DEF Rec

Elsewhere(i) ==
    \A j \in Instances \ {i} :
        /\ disk'[j] = disk[j] /\ record'[j] = record[j]
        /\ heartbeat'[j] = heartbeat[j] /\ radiusPiId'[j] = radiusPiId[j]
        /\ given'[j] = given[j]
        /\ j \in live' <=> j \in live
        /\ j \in excused => j \in excused'
        /\ \A id : <<j, id>> \in registered' => <<j, id>> \in registered

LEMMA RecOn ==
  ASSUME NEW i \in Instances, RInv, UNCHANGED <<boot, loaded>>, Elsewhere(i),
         \A j \in Instances \ {i} : task'[j] = task[j],
         Rec(i)'
  PROVE  RInv'
<1> SUFFICES ASSUME NEW j \in Instances \ {i} PROVE Rec(j)'
  BY DEF RInv
<1> QED
  BY RecStays DEF RInv, Elsewhere

\* A step of a caller that is at work on i.
LEMMA RecWork ==
  ASSUME RInv, NEW i \in Instances, NEW c \in Callers, Moves(i, c), UNCHANGED <<boot, loaded>>,
         Elsewhere(i),
         ~Dead(i), task[i]["spawn"].at # "no",
         c = "spawn" => task'[i][c].at # "no"
            /\ (task'[i][c].at = "registering" => task[i][c].at = "asking")
            /\ task'[i][c].at # "asking",
         \/ heartbeat'[i] \in {None, heartbeat[i]}
         \/ task'[i]["spawn"].at \notin {"no", "asking", "registering"},
         c = "reregister" => task'[i][c].at \notin Statuses \/ heartbeat[i] # None,
         AllHeld(i)'
  PROVE  RInv'
<1>1. Rec(i)
  BY DEF RInv
<1>2. boot # "down" /\ ~(boot = "recovering" /\ loaded[i] # Absent)
  BY <1>1 DEF Rec, Down, Loading
<1>3. Loading(i)' /\ Down(i)'
  BY <1>2 DEF Loading, Down
<1>4. task'[i]["spawn"].at # "no"
  BY TheCallers DEF Moves
<1>5. Early(i)'
  BY <1>1, TheCallers DEF Rec, Early, Moves
<1>6. Unspawned(i)'
  BY <1>4 DEF Unspawned
<1>7. Rec(i)'
  BY <1>3, <1>5, <1>6 DEF Rec
<1> QED
  BY <1>7, RecOn DEF Moves

\* What a write of the record does.
LEMMA RecordWritten ==
  ASSUME Types, NEW i \in Instances, NEW status, NEW id, UpdateRecord(i, status, id)
  PROVE  /\ disk'[i].radius = id /\ record'[i].radius = id
         /\ \A j \in Instances \ {i} : disk'[j] = disk[j] /\ record'[j] = record[j]
BY DEF UpdateRecord, Types

\* A clean-up of a registered instance disconnects the registration of its record.
LEMMA CleanUpDisconnects ==
  ASSUME Types, NEW i \in Instances, NEW c \in Callers, CleanUp(i, c), radiusPiId[i] # None
  PROVE  /\ task'[i][c].at = "disconnecting" /\ task'[i][c].id = record[i].radius
         /\ heartbeat'[i] = None
BY DEF CleanUp, Types

LEMMA CleanUpElsewhere ==
  ASSUME Types, NEW i \in Instances, NEW c \in Callers, CleanUp(i, c)
  PROVE  /\ heartbeat'[i] \in {None, heartbeat[i]}
         /\ \A j \in Instances \ {i} : heartbeat'[j] = heartbeat[j]
BY DEF CleanUp, Types

-----------------------------------------------------------------------------
\* An instance at work has been spawned.
LEMMA AtWork ==
  ASSUME IInv, RInv, NEW i \in Instances,
         \/ i \in live
         \/ \E c \in Callers : task[i][c].at \in {"disconnecting", "disposing", "finishing"}
         \/ task[i]["refresh"].at = "asking" \/ task[i]["reregister"].at \in Statuses
  PROVE  ~Dead(i) /\ task[i]["spawn"].at # "no"
<1>1. ~Dead(i)
  BY TheCallers DEF Dead, Statuses
<1>2. task[i]["spawn"].at # "no"
  BY DEF IInv, Safe, SpawnFirst, At, RInv, Rec, Unspawned, Early
<1> QED
  BY <1>1, <1>2

LEMMA DisconnectedRecords ==
  ASSUME IInv, RInv, NEW i \in Instances, NEW c \in Callers, Disconnected(i, c)
  PROVE  RInv'
<1> USE DEF Disconnected, recovery, history
<1>0. Types /\ Rec(i)
  BY DEF IInv, RInv
<1>1. ~Dead(i) /\ task[i]["spawn"].at # "no"
  BY AtWork DEF At
<1>2. Moves(i, c) /\ task'[i][c].at \in {"disposing", "finishing"}
  <2>1. Dispose(i, c, task[i][c].holds, task[i][c].id)
    OBVIOUS
  <2>2. task[i][c].holds \in BOOLEAN /\ task[i][c].id \in Nat
    BY <1>0 DEF Types, Tasks
  <2> QED
    BY <1>0, <2>1, <2>2, DisposeFacts
<1>3. Elsewhere(i)
  BY <1>0 DEF Elsewhere, Types
<1>4. Gone(i)'
  BY <1>0, <1>1 DEF Gone, Rec, AllHeld, Held, At, Types
<1> QED
  BY <1>1, <1>2, <1>3, <1>4, GoneIsHeld, RecWork DEF Statuses

LEMMA DisconnectFailsRecords ==
  ASSUME IInv, RInv, NEW i \in Instances, NEW c \in Callers, DisconnectFails(i, c)
  PROVE  RInv'
<1> USE DEF DisconnectFails, recovery, resources
<1>0. Types /\ Rec(i)
  BY DEF IInv, RInv
<1>1. ~Dead(i) /\ task[i]["spawn"].at # "no"
  BY AtWork DEF At
<1>2. Moves(i, c) /\ task'[i][c].at = "finishing"
  BY <1>0, GoMoves DEF Stages
<1>3. Elsewhere(i)
  BY <1>0 DEF Elsewhere, Types
<1>4. Gone(i)'
  BY <1>0, <1>1 DEF Gone, Rec, AllHeld, Held, At, Types
<1> QED
  BY <1>1, <1>2, <1>3, <1>4, GoneIsHeld, RecWork DEF Statuses

LEMMA DisposedRecords ==
  ASSUME IInv, RInv, NEW i \in Instances, NEW c \in Callers, Disposed(i, c)
  PROVE  RInv'
<1> USE DEF Disposed, recovery, resources, radius, history
<1>0. Types /\ Rec(i)
  BY DEF IInv, RInv
<1>1. ~Dead(i) /\ task[i]["spawn"].at # "no"
  BY AtWork DEF At
<1>2. Moves(i, c) /\ task'[i][c].at = "finishing"
  BY <1>0, GoMoves DEF Stages
<1>3. Elsewhere(i)
  BY DEF Elsewhere
<1>4. Gone(i)'
  <2>1. Gone(i)
    BY <1>0, GoneWhile DEF At
  <2> QED
    BY <2>1 DEF Gone
<1> QED
  BY <1>1, <1>2, <1>3, <1>4, GoneIsHeld, RecWork DEF Statuses

LEMMA SpawnRecords ==
  ASSUME IInv, RInv, NEW i \in Instances, Spawn(i)
  PROVE  RInv'
<1> USE TheCallers DEF Spawn, recovery, history, radius
<1>0. Types /\ Rec(i)
  BY DEF IInv, RInv
<1>1. Moves(i, "spawn") /\ task'[i]["spawn"].at = "asking"
  BY <1>0, GoMoves DEF Stages
<1>2. Elsewhere(i)
  BY <1>0, RecordWritten DEF Elsewhere
<1>3. Gone(i)'
  <2>1. \A id \in 1 .. given[i] : disk[i].radius # id
    BY <1>0 DEF Absent, None, Types
  <2> QED
    BY <1>0, <2>1 DEF Gone, Rec, AllHeld, Held
<1>4. Early(i)' /\ Unspawned(i)' /\ Loading(i)' /\ Down(i)'
  BY <1>0, <1>1 DEF Rec, Early, Unspawned, Loading, Down, Moves, At, Running
<1>5. Rec(i)'
  BY <1>3, <1>4, GoneIsHeld DEF Rec
<1> QED
  BY <1>1, <1>2, <1>5, RecOn DEF Moves

LEMMA SpawnAnsweredRecords ==
  ASSUME IInv, RInv, NEW i \in Instances, SpawnAnswered(i)
  PROVE  RInv'
<1> USE TheCallers DEF SpawnAnswered, recovery, history, radius
<1>0. Types /\ Rec(i)
  BY DEF IInv, RInv
<1>1. ~Dead(i) /\ task[i]["spawn"].at # "no"
  BY DEF Dead, At
<1>2. Moves(i, "spawn") /\ task'[i]["spawn"].at = "registering"
  BY <1>0, GoMoves DEF Stages
<1>3. Elsewhere(i)
  BY <1>0, RecordWritten DEF Elsewhere
<1>4. Gone(i)'
  <2>1. Gone(i)
    BY <1>0, GoneWhile DEF At
  <2> QED
    BY <2>1 DEF Gone
<1> QED
  BY <1>1, <1>2, <1>3, <1>4, GoneIsHeld, RecWork DEF At

LEMMA SpawnFailsRecords ==
  ASSUME IInv, RInv, NEW i \in Instances, SpawnFails(i)
  PROVE  RInv'
<1> USE TheCallers DEF SpawnFails, recovery
<1>0. Types /\ Rec(i)
  BY DEF IInv, RInv
<1>1. ~Dead(i) /\ task[i]["spawn"].at # "no"
  BY DEF Dead, At
<1>2. Moves(i, "spawn") /\ task'[i]["spawn"].at \in {"disconnecting", "disposing", "finishing"}
  BY <1>0, CleanUpFacts DEF Begun
<1>3. Elsewhere(i) /\ heartbeat'[i] \in {None, heartbeat[i]}
  <2>1. /\ heartbeat'[i] \in {None, heartbeat[i]}
        /\ \A j \in Instances \ {i} : heartbeat'[j] = heartbeat[j]
    BY <1>0, CleanUpElsewhere
  <2>2. \A j \in Instances \ {i} : disk'[j] = disk[j] /\ record'[j] = record[j]
    BY <1>0, RecordWritten
  <2>3. \A j \in Instances \ {i} :
           /\ given'[j] = given[j] /\ (j \in excused => j \in excused')
           /\ \A id : <<j, id>> \in registered' => <<j, id>> \in registered
    BY <1>0 DEF RegisterFails, Types
  <2> QED
    BY <2>1, <2>2, <2>3 DEF Elsewhere
<1>4. Gone(i)'
  <2>1. Gone(i)
    BY <1>0, GoneWhile DEF At
  <2>2. i \in excused' \/ UNCHANGED <<registered, given, excused>>
    BY DEF RegisterFails
  <2> QED
    BY <2>1, <2>2 DEF Gone
<1> QED
  BY <1>1, <1>2, <1>3, <1>4, GoneIsHeld, RecWork

LEMMA FailedSpawnRecords ==
  ASSUME IInv, RInv, NEW i \in Instances, FailedSpawn(i)
  PROVE  RInv'
<1> USE TheCallers DEF FailedSpawn, recovery, history, radius
<1>0. Types /\ Rec(i)
  BY DEF IInv, RInv
<1>1. ~Dead(i) /\ task[i]["spawn"].at # "no"
  BY DEF Dead, At
<1>2. Moves(i, "spawn") /\ task'[i]["spawn"].at = "done"
  BY <1>0, DoneMoves
<1>3. Elsewhere(i)
  BY <1>0, RecordWritten DEF Elsewhere
<1>4. Gone(i)'
  <2>1. Gone(i)
    BY <1>0, GoneWhile DEF At
  <2> QED
    BY <2>1 DEF Gone
<1> QED
  BY <1>1, <1>2, <1>3, <1>4, GoneIsHeld, RecWork

LEMMA StoppedRecords ==
  ASSUME IInv, RInv, NEW i \in Instances, NEW s \in Stoppers, Stopped(i, s)
  PROVE  RInv'
<1> USE TheCallers DEF Stopped, recovery, history, radius
<1>0. Types /\ Rec(i)
  BY DEF IInv, RInv
<1>1. ~Dead(i) /\ task[i]["spawn"].at # "no"
  BY AtWork DEF At
<1>2. Moves(i, s) /\ task'[i][s].at = "done"
  BY <1>0, DoneMoves
<1>3. Elsewhere(i)
  BY <1>0 DEF Elsewhere, Types
<1>4. Gone(i)'
  <2>1. Gone(i)
    BY <1>0, GoneWhile DEF At
  <2> QED
    BY <2>1 DEF Gone
<1> QED
  BY <1>1, <1>2, <1>3, <1>4, GoneIsHeld, RecWork

LEMMA ExitDisconnectedRecords ==
  ASSUME IInv, RInv, NEW i \in Instances, ExitDisconnected(i)
  PROVE  RInv'
<1> USE TheCallers DEF ExitDisconnected, recovery, history
<1>0. Types /\ Rec(i)
  BY DEF IInv, RInv
<1>1. ~Dead(i) /\ task[i]["spawn"].at # "no"
  BY AtWork DEF At
<1>2. Moves(i, "exit") /\ task'[i]["exit"].at = "done"
  BY <1>0, DoneMoves
<1>3. Elsewhere(i)
  BY <1>0, RecordWritten DEF Elsewhere
<1>4. Gone(i)'
  BY <1>0, <1>1 DEF Gone, Rec, AllHeld, Held, At
<1> QED
  BY <1>1, <1>2, <1>3, <1>4, GoneIsHeld, RecWork

LEMMA ExitDisconnectFailsRecords ==
  ASSUME IInv, RInv, NEW i \in Instances, ExitDisconnectFails(i)
  PROVE  RInv'
<1> USE TheCallers DEF ExitDisconnectFails, recovery
<1>0. Types /\ Rec(i)
  BY DEF IInv, RInv
<1>1. ~Dead(i) /\ task[i]["spawn"].at # "no"
  BY AtWork DEF At
<1>2. Moves(i, "exit") /\ task'[i]["exit"].at = "done"
  BY <1>0, DoneMoves
<1>3. Elsewhere(i)
  BY DEF Elsewhere
<1>4. Gone(i)'
  BY <1>0, <1>1 DEF Gone, Rec, AllHeld, Held, At
<1> QED
  BY <1>1, <1>2, <1>3, <1>4, GoneIsHeld, RecWork

LEMMA ReRegisterFailsRecords ==
  ASSUME IInv, RInv, NEW i \in Instances, ReRegisterFails(i)
  PROVE  RInv'
<1> USE TheCallers DEF ReRegisterFails, recovery, resources
<1>0. Types /\ Rec(i)
  BY DEF IInv, RInv
<1>1. ~Dead(i) /\ task[i]["spawn"].at # "no"
  BY AtWork DEF At
<1>2. Moves(i, "reregister") /\ task'[i]["reregister"].at = "done"
  BY <1>0, DoneMoves
<1>3. Elsewhere(i) /\ heartbeat' = heartbeat
  BY <1>0 DEF Elsewhere, RegisterFails, Types
<1>4. Gone(i)'
  <2>1. Gone(i)
    BY <1>0, GoneWhile DEF At
  <2>2. i \in excused' \/ UNCHANGED <<registered, given, excused>>
    BY DEF RegisterFails
  <2> QED
    BY <2>1, <2>2 DEF Gone
<1> QED
  BY <1>1, <1>2, <1>3, <1>4, GoneIsHeld, RecWork DEF Statuses

\* A new registration is the only one, and is recorded unless the instance leaves.
LEMMA NewIsHeld ==
  ASSUME Types, NEW i \in Instances, Gone(i), Register(i), given[i] < MaxRegistrations,
         i \in excused => i \in excused',
         \/ i \in excused'
         \/ /\ ~Leaving(i) /\ i \in live'
            /\ disk'[i].radius = given'[i] /\ record'[i].radius = given'[i]
            /\ radiusPiId'[i] = given'[i]
            /\ task'[i]["spawn"].at \notin {"asking", "registering"}
            /\ task'[i]["reregister"].at \notin Statuses
            /\ \A c \in Callers :
                  task'[i][c].at \in {"disconnecting", "disposing", "finishing"}
                      => task'[i][c].at = task[i][c].at
  PROVE  AllHeld(i)'
<1>1. /\ given[i] \in Nat /\ given'[i] = given[i] + 1 /\ heartbeat'[i] = given'[i]
      /\ registered' = registered \cup {<<i, given'[i]>>}
  BY DEF Register, Types
<1>2. CASE i \in excused'
  BY <1>2 DEF AllHeld
<1>3. CASE i \notin excused'
  <2> SUFFICES ASSUME NEW id \in 1 .. given'[i], <<i, id>> \in registered'
               PROVE  Held(i, id)'
    BY DEF AllHeld
  <2>1. id = given'[i]
    <3>1. CASE id \in 1 .. given[i]
      BY <3>1, <1>1, <1>3 DEF Gone
    <3>2. CASE id \notin 1 .. given[i]
      BY <3>2, <1>1
    <3> QED
      BY <3>1, <3>2
  <2>2. \A c \in Callers : task'[i][c].at \notin {"disconnecting", "disposing", "finishing"}
    BY <1>3 DEF Leaving
  <2> QED
    BY <1>1, <1>3, <2>1, <2>2 DEF Held
<1> QED
  BY <1>2, <1>3

LEMMA SpawnRegisteredRecords ==
  ASSUME IInv, RInv, NEW i \in Instances, SpawnRegistered(i)
  PROVE  RInv'
<1> USE TheCallers DEF SpawnRegistered, recovery
<1>0. Types /\ Rec(i)
  BY DEF IInv, RInv
<1>1. ~Dead(i) /\ task[i]["spawn"].at # "no"
  BY DEF Dead, At
<1>2. Moves(i, "spawn") /\ task'[i]["spawn"].at = "done"
  BY <1>0, DoneMoves
<1>3. Elsewhere(i)
  BY <1>0, RecordWritten DEF Elsewhere, Register, Types
<1>4. AllHeld(i)'
  <2>1. Gone(i)
    BY <1>0, GoneWhile DEF At
  <2>2. disk'[i].radius = given'[i] /\ record'[i].radius = given'[i] /\ radiusPiId'[i] = given'[i]
    BY <1>0, RecordWritten DEF Types
  <2>3. task'[i]["reregister"].at \notin Statuses
    BY <1>0, <1>2 DEF Moves, Rec, Early, At
  <2>4. \A c \in Callers : task'[i][c].at \in {"disconnecting", "disposing", "finishing"}
            => task'[i][c].at = task[i][c].at
    BY <1>2 DEF Moves
  <2>5. i \in excused' \/ (~Leaving(i) /\ i \in live')
    BY DEF Leaving
  <2>6. i \in excused => i \in excused'
    OBVIOUS
  <2>7. Register(i) /\ given[i] < MaxRegistrations
    OBVIOUS
  <2> HIDE DEF SpawnRegistered
  <2> QED
    BY <1>0, <1>2, <2>1, <2>2, <2>3, <2>4, <2>5, <2>6, <2>7, NewIsHeld
<1> QED
  BY <1>1, <1>2, <1>3, <1>4, RecWork

LEMMA ReRegisteredRecords ==
  ASSUME IInv, RInv, NEW i \in Instances, ReRegistered(i)
  PROVE  RInv'
<1> USE TheCallers DEF ReRegistered, recovery
<1>0. Types /\ Rec(i)
  BY DEF IInv, RInv
<1>1. ~Dead(i) /\ task[i]["spawn"].at # "no"
  BY AtWork DEF At
<1>2. Moves(i, "reregister") /\ task'[i]["reregister"].at = "done"
  BY <1>0, DoneMoves
<1>3. Elsewhere(i)
  BY <1>0 DEF Elsewhere, Register, Types
<1>e. task[i]["spawn"].at \notin {"no", "asking", "registering"}
  BY <1>0 DEF Rec, Early
<1>4. AllHeld(i)'
  <2>1. Gone(i)
    BY <1>0, GoneWhile DEF At
  <2>2. i \in live => disk'[i].radius = given'[i] /\ record'[i].radius = given'[i]
                        /\ radiusPiId'[i] = given'[i]
    BY <1>0 DEF Types
  <2>3. task'[i]["reregister"].at \notin Statuses
    BY <1>2 DEF Statuses
  <2>4. \A c \in Callers : task'[i][c].at \in {"disconnecting", "disposing", "finishing"}
            => task'[i][c].at = task[i][c].at
    BY <1>2 DEF Moves
  <2>5. i \in excused' \/ (~Leaving(i) /\ i \in live' /\ i \in live)
    BY DEF Leaving
  <2>6. i \in excused => i \in excused'
    OBVIOUS
  <2>7. Register(i) /\ given[i] < MaxRegistrations
    OBVIOUS
  <2>8. task'[i]["spawn"].at \notin {"asking", "registering"}
    BY <1>2, <1>e DEF Moves
  <2> HIDE DEF ReRegistered
  <2> QED
    BY <1>0, <1>2, <2>1, <2>2, <2>3, <2>4, <2>5, <2>6, <2>7, <2>8, NewIsHeld
<1>5. task'[i]["spawn"].at \notin {"no", "asking", "registering"}
  BY <1>2, <1>e DEF Moves
<1> QED
  BY <1>1, <1>2, <1>3, <1>4, <1>5, RecWork DEF Statuses

\* A registered instance that leaves is about to be disconnected.
LEMMA LeaveHeld ==
  ASSUME Types, NEW i \in Instances, NEW c \in Callers \ {"spawn", "reregister"}, AllHeld(i),
         i \in live, i \in live',
         Moves(i, c), UNCHANGED <<registered, given, excused>>, radiusPiId' = radiusPiId,
         disk'[i].radius = record[i].radius, record'[i].radius = record[i].radius,
         radiusPiId[i] # None => /\ task'[i][c].at = "disconnecting"
                                 /\ task'[i][c].id = record[i].radius
                                 /\ heartbeat'[i] = None
  PROVE  AllHeld(i)'
<1> SUFFICES ASSUME i \notin excused, NEW id \in 1 .. given[i], <<i, id>> \in registered
             PROVE  Held(i, id)'
  BY DEF AllHeld
<1>1. Held(i, id) /\ ~Dead(i)
  BY DEF AllHeld, Dead
<1>2. id # None
  BY DEF None, Types
<1> QED
  BY <1>1, <1>2, TheCallers DEF Held, Moves

LEMMA StopRecords ==
  ASSUME IInv, RInv, NEW i \in Instances, NEW s \in Stoppers, Stop(i, s)
  PROVE  RInv'
<1> USE TheCallers DEF Stop, recovery, history
<1>0. Types /\ Rec(i)
  BY DEF IInv, RInv
<1>1. ~Dead(i) /\ task[i]["spawn"].at # "no"
  BY AtWork
<1>2. Moves(i, s)
  BY <1>0, CleanUpFacts
<1>3. Elsewhere(i) /\ heartbeat'[i] \in {None, heartbeat[i]}
  BY <1>0, CleanUpElsewhere, RecordWritten DEF Elsewhere
<1>4. AllHeld(i)'
  <2>1. disk'[i].radius = record[i].radius /\ record'[i].radius = record[i].radius
    BY <1>0, RecordWritten
  <2>2. radiusPiId[i] # None => /\ task'[i][s].at = "disconnecting"
                                /\ task'[i][s].id = record[i].radius
                                /\ heartbeat'[i] = None
    BY <1>0, CleanUpDisconnects
  <2>3. AllHeld(i) /\ i \in live /\ live' = live /\ UNCHANGED <<registered, given, excused, radiusPiId>>
    BY <1>0 DEF Rec
  <2> HIDE DEF Stop
  <2> QED
    BY <1>0, <1>2, <2>1, <2>2, <2>3, LeaveHeld
<1> QED
  BY <1>1, <1>2, <1>3, <1>4, RecWork

LEMMA ExitRecords ==
  ASSUME IInv, RInv, NEW i \in Instances, Exit(i)
  PROVE  RInv'
<1> USE TheCallers DEF Exit, recovery, history
<1>0. Types /\ Rec(i)
  BY DEF IInv, RInv
<1> DEFINE handled == i \in bound \cap live /\ record[i].status \notin {"stopping", "stopped"}
<1>1. CASE ~handled
  <2>1. UNCHANGED <<disk, live, record, task, heartbeat>>
    BY <1>1
  <2> QED
    BY <1>0, <2>1, RecStays DEF RInv
<1>2. CASE handled
  <2>0. i \in live /\ UpdateRecord(i, "error", record[i].radius)
    BY <1>2
  <2>1. ~Dead(i) /\ task[i]["spawn"].at # "no"
    BY <2>0, AtWork
  <2>2. /\ disk'[i].radius = record[i].radius /\ record'[i].radius = record[i].radius
        /\ \A j \in Instances \ {i} : disk'[j] = disk[j] /\ record'[j] = record[j]
    BY <1>0, <2>0, RecordWritten
  <2>3. CASE radiusPiId[i] = None /\ live' = live \ {i} /\ UNCHANGED <<task, heartbeat>>
    <3>1. Elsewhere(i)
      BY <2>2, <2>3 DEF Elsewhere
    <3>2. Moves(i, "exit") /\ task'[i]["exit"] = task[i]["exit"]
      BY <1>0, <2>3 DEF Moves, Types
    <3>3. Gone(i)
      <4> SUFFICES ASSUME i \notin excused, NEW id \in 1 .. given[i], <<i, id>> \in registered
                   PROVE  FALSE
        BY DEF Gone
      <4>1. Held(i, id) /\ id # None
        BY <1>0 DEF Rec, AllHeld, None, Types
      <4> QED
        BY <2>1, <2>3, <4>1 DEF Held
    <3>4. AllHeld(i)'
      BY <3>3 DEF Gone, AllHeld
    <3> QED
      BY <2>1, <2>3, <3>1, <3>2, <3>4, RecWork
  <2>4. CASE /\ task' = [task EXCEPT ![i]["exit"] = [at |-> "disconnecting", holds |-> FALSE,
                                                     id |-> record[i].radius]]
             /\ heartbeat' = [heartbeat EXCEPT ![i] = None] /\ UNCHANGED live
    <3>1. Elsewhere(i) /\ heartbeat'[i] = None
      BY <1>0, <2>2, <2>4 DEF Elsewhere, Types
    <3>2. /\ Moves(i, "exit")
          /\ task'[i]["exit"].at = "disconnecting" /\ task'[i]["exit"].id = record[i].radius
      <4> DEFINE r == [at |-> "disconnecting", holds |-> FALSE, id |-> record[i].radius]
      <4>1. r \in Tasks /\ r.at = "disconnecting" /\ r.id = record[i].radius
        BY <1>0, RecordFields DEF Tasks, Stages
      <4>2. task' = [task EXCEPT ![i]["exit"] = r]
        BY <2>4
      <4> HIDE DEF r
      <4>3. "exit" \in Callers
        OBVIOUS
      <4> QED
        BY <1>0, <4>1, <4>2, <4>3, TaskMoves
    <3>3. AllHeld(i)'
      <4>1. AllHeld(i) /\ i \in live /\ i \in live' /\ UNCHANGED <<registered, given, excused, radiusPiId>>
        BY <1>0, <2>0, <2>4 DEF Rec
      <4>2. "exit" \in Callers \ {"spawn", "reregister"}
        OBVIOUS
      <4> HIDE DEF Exit
      <4> QED
        BY <1>0, <2>2, <3>1, <3>2, <4>1, <4>2, LeaveHeld
    <3> QED
      BY <2>1, <3>1, <3>2, <3>3, RecWork
  <2> QED
    BY <1>2, <2>3, <2>4
<1> QED
  BY <1>1, <1>2

\* A step after which the registration is where it was.
LEMMA StayHeld ==
  ASSUME Types, NEW i \in Instances, NEW c \in {"refresh", "reregister"}, AllHeld(i), i \in live,
         Moves(i, c), task'[i][c].at \in {"asking", "done"},
         UNCHANGED <<registered, given, excused, heartbeat, radiusPiId, live>>,
         disk'[i].radius \in {disk[i].radius, record[i].radius},
         record'[i].radius = record[i].radius
  PROVE  AllHeld(i)'
<1> SUFFICES ASSUME i \notin excused, NEW id \in 1 .. given[i], <<i, id>> \in registered
             PROVE  Held(i, id)'
  BY DEF AllHeld
<1>1. Held(i, id) /\ ~Dead(i)
  BY DEF AllHeld, Dead
<1> QED
  BY <1>1, TheCallers DEF Held, Moves, Statuses

LEMMA RequestRecords ==
  ASSUME IInv, RInv, NEW i \in Instances, Request(i)
  PROVE  RInv'
<1> USE TheCallers DEF Request, recovery, history, radius, resources
<1>0. Types /\ Rec(i)
  BY DEF IInv, RInv
<1>1. ~Dead(i) /\ task[i]["spawn"].at # "no"
  BY AtWork
<1>2. Moves(i, "refresh") /\ task'[i]["refresh"].at = "asking"
  BY <1>0, GoMoves DEF Stages
<1>3. Elsewhere(i)
  BY DEF Elsewhere
<1>4. AllHeld(i)'
  BY <1>0, <1>2, StayHeld DEF Rec
<1> QED
  BY <1>1, <1>2, <1>3, <1>4, RecWork

LEMMA RefreshRecords ==
  ASSUME IInv, RInv, NEW i \in Instances, Refresh(i)
  PROVE  RInv'
<1> USE TheCallers DEF Refresh, recovery, history, radius
<1>0. Types /\ Rec(i)
  BY DEF IInv, RInv
<1>1. ~Dead(i) /\ task[i]["spawn"].at # "no"
  BY AtWork DEF At
<1>2. Moves(i, "refresh") /\ task'[i]["refresh"].at = "done"
  BY <1>0, DoneMoves
<1>3. /\ disk'[i].radius \in {disk[i].radius, record[i].radius}
      /\ record'[i].radius = record[i].radius
      /\ \A j \in Instances \ {i} : disk'[j] = disk[j] /\ record'[j] = record[j]
  BY <1>0, RecordWritten
<1>4. Elsewhere(i)
  BY <1>3 DEF Elsewhere
<1>5. AllHeld(i)'
  <2>1. CASE i \in live
    <3>1. AllHeld(i) /\ UNCHANGED <<registered, given, excused, heartbeat, radiusPiId, live>>
      BY <1>0 DEF Rec
    <3> HIDE DEF Refresh
    <3> QED
      BY <1>0, <1>2, <1>3, <2>1, <3>1, StayHeld
  <2>2. CASE i \notin live
    <3>1. Gone(i)
      BY <1>0, <1>1, <2>2 DEF Rec, AllHeld, Held, Gone
    <3> QED
      BY <3>1 DEF Gone, AllHeld
  <2> QED
    BY <2>1, <2>2
<1> QED
  BY <1>1, <1>2, <1>4, <1>5, RecWork

LEMMA ReRegisterRecords ==
  ASSUME IInv, RInv, NEW i \in Instances, ReRegister(i)
  PROVE  RInv'
<1> USE TheCallers DEF ReRegister, recovery, history, resources
<1>0. Types /\ Rec(i)
  BY DEF IInv, RInv
<1>1. CASE i \notin live
  BY <1>0, <1>1, RecStays DEF RInv, Types
<1>2. CASE i \in live
  <2>1. ~Dead(i) /\ task[i]["spawn"].at # "no"
    BY <1>2, AtWork
  <2>2. Moves(i, "reregister")
    BY <1>0, <1>2, GoMoves, RecordFields
  <2>3. Elsewhere(i) /\ heartbeat' = heartbeat
    BY <1>2 DEF Elsewhere
  <2>4. Gone(i)
    BY <1>0, <2>1 DEF Rec, AllHeld, Held, Gone
  <2>5. AllHeld(i)'
    BY <2>4 DEF Gone, AllHeld
  <2> QED
    BY <2>1, <2>2, <2>3, <2>5, RecWork
<1> QED
  BY <1>1, <1>2

LEMMA ForgetRecords ==
  ASSUME IInv, RInv, NEW i \in Instances, Forget(i) \/ Recover(i)
  PROVE  RInv'
BY RecStays DEF RInv, IInv, Types, Forget, Recover, recovery, history, resources

LEMMA CrashRecords ==
  ASSUME IInv, RInv, Crash
  PROVE  RInv'
<1> SUFFICES ASSUME NEW i \in Instances
             PROVE  Rec(i)'
  BY DEF RInv
<1> USE TheCallers DEF Crash
<1>0. Types /\ Rec(i)
  BY DEF IInv, RInv
<1>1. PICK made \in SUBSET {j \in Instances :
               At(j, "spawn", "registering") /\ given[j] < MaxRegistrations} :
        /\ given' = [j \in Instances |-> IF j \in made THEN given[j] + 1 ELSE given[j]]
        /\ registered' = registered \cup {<<j, given[j] + 1>> : j \in made}
        /\ excused' = excused \cup made
  OBVIOUS
<1>2. Dead(i)'
  BY DEF Dead, Idle
<1>3. boot' = "down" /\ disk' = disk /\ heartbeat'[i] = None
      /\ (task'[i]["spawn"].at = "no" => task[i]["spawn"].at = "no")
      /\ \A c \in Callers : task'[i][c].at \in {"no", "done"}
  BY DEF Idle
<1>4. AllHeld(i)'
  <2> SUFFICES ASSUME i \notin excused', NEW id \in 1 .. given'[i], <<i, id>> \in registered'
               PROVE  Held(i, id)'
    BY DEF AllHeld
  <2>1. i \notin made /\ i \notin excused /\ given'[i] = given[i] /\ <<i, id>> \in registered
    BY <1>1
  <2>2. Held(i, id)
    BY <1>0, <2>1 DEF Rec, AllHeld
  <2> QED
    BY <1>2, <1>3, <2>2 DEF Held
<1>5. Early(i)' /\ Unspawned(i)' /\ Loading(i)' /\ Down(i)'
  BY <1>0, <1>2, <1>3 DEF Rec, Early, Unspawned, Loading, Down, Statuses
<1> QED
  BY <1>4, <1>5 DEF Rec

LEMMA RestartRecords ==
  ASSUME IInv, RInv, Restart
  PROVE  RInv'
<1> SUFFICES ASSUME NEW i \in Instances
             PROVE  Rec(i)'
  BY DEF RInv
<1> USE DEF Restart, radius, resources, history
<1>0. Types /\ Rec(i)
  BY DEF IInv, RInv
<1>1. Dead(i)
  BY <1>0 DEF Rec, Down
<1>2. Dead(i)'
  BY <1>1 DEF Dead
<1>3. AllHeld(i)'
  BY <1>0, <1>2 DEF Rec, AllHeld, Held
<1>4. Early(i)' /\ Unspawned(i)' /\ Down(i)'
  BY <1>0, <1>2 DEF Rec, Early, Unspawned, Down
<1>5. Loading(i)'
  <2>1. loaded'[i].radius = disk[i].radius
    BY <1>0 DEF Types, Records
  <2>2. disk[i] = Absent => loaded'[i] = Absent
    BY <1>0 DEF Absent
  <2> QED
    BY <1>0, <1>2, <2>1, <2>2 DEF Loading, Rec, Unspawned
<1> QED
  BY <1>3, <1>4, <1>5 DEF Rec

LEMMA RecoveredRecords ==
  ASSUME IInv, RInv, Recovered
  PROVE  RInv'
<1> SUFFICES ASSUME NEW i \in Instances
             PROVE  Rec(i)'
  BY DEF RInv
<1> USE DEF Recovered, radius, resources
<1>0. Types /\ Rec(i)
  BY DEF IInv, RInv
<1>1. loaded[i] # Absent => loaded[i].radius = disk[i].radius /\ task[i]["spawn"].at # "no"
  BY <1>0 DEF Rec, Loading
<1>2. disk'[i] = loaded[i] /\ boot' = "up" /\ UNCHANGED <<registered, given, task, live, heartbeat>>
  OBVIOUS
<1>3. AllHeld(i)'
  <2> SUFFICES ASSUME i \notin excused', NEW id \in 1 .. given[i], <<i, id>> \in registered
               PROVE  Held(i, id)'
    BY DEF AllHeld
  <2>1. i \notin excused /\ ~(loaded[i] = Absent /\ disk[i] # Absent)
    OBVIOUS
  <2>2. Held(i, id)
    BY <1>0, <2>1 DEF Rec, AllHeld
  <2>3. disk'[i].radius = disk[i].radius
    BY <1>1, <1>2, <2>1
  <2> QED
    BY <2>2, <2>3 DEF Held, Dead
<1>4. Early(i)' /\ Unspawned(i)' /\ Loading(i)' /\ Down(i)'
  BY <1>0, <1>1, <1>2 DEF Rec, Early, Unspawned, Loading, Down
<1> QED
  BY <1>3, <1>4 DEF Rec

LEMMA InitRInv == Init => RInv
BY TheCallers DEF Init, RInv, Rec, AllHeld, Early, Unspawned, Loading, Down, Idle, Statuses

LEMMA StepRInv == IInv /\ RInv /\ [Next]_vars => RInv'
<1> SUFFICES ASSUME IInv, RInv, [Next]_vars PROVE RInv'
  OBVIOUS
<1>1. ASSUME NEW i \in Instances, Spawn(i) \/ SpawnStep(i) PROVE RInv'
  BY <1>1, TheCallers, SpawnRecords, SpawnAnsweredRecords, SpawnRegisteredRecords,
     SpawnFailsRecords, FailedSpawnRecords, DisconnectedRecords, DisconnectFailsRecords,
     DisposedRecords DEF SpawnStep, CleanUpStep
<1>2. ASSUME NEW i \in Instances, Exit(i) \/ ExitStep(i) PROVE RInv'
  BY <1>2, ExitRecords, ExitDisconnectedRecords, ExitDisconnectFailsRecords DEF ExitStep
<1>3. ASSUME NEW i \in Instances, NEW s \in Stoppers, Stop(i, s) \/ StopStep(i, s) PROVE RInv'
  BY <1>3, TheCallers, StopRecords, StoppedRecords, DisconnectedRecords, DisconnectFailsRecords,
     DisposedRecords DEF StopStep, CleanUpStep
<1>4. ASSUME NEW i \in Instances, Request(i) \/ Refresh(i) \/ Forget(i) \/ Recover(i) PROVE RInv'
  BY <1>4, RequestRecords, RefreshRecords, ForgetRecords
<1>5. ASSUME NEW i \in Instances, ReRegister(i) \/ ReRegistered(i) \/ ReRegisterFails(i)
      PROVE  RInv'
  BY <1>5, ReRegisterRecords, ReRegisteredRecords, ReRegisterFailsRecords
<1>6. CASE Crash \/ Restart \/ Recovered
  BY <1>6, CrashRecords, RestartRecords, RecoveredRecords
<1>7. CASE UNCHANGED vars
  BY <1>7, RecStays DEF vars, radius, resources, children, recovery, history, RInv
<1> QED
  BY <1>1, <1>2, <1>3, <1>4, <1>5, <1>6, <1>7 DEF Next

\* However spawn, stop, exit, renewal, crash and recovery interleave: a registration
\* that Radius has is the one in instances.json, where recoverAfterRestart finds it,
\* unless an answer was lost, the recovery overwrote the record or the registration was
\* made for an instance about to end.
THEOREM RegistrationsRecorded == Spec => []RegistrationsAreRecorded
<1>1. RInv => RegistrationsAreRecorded
  BY DEF RInv, Rec, AllHeld, Held, RegistrationsAreRecorded
<1> QED
  BY <1>1, AlwaysIInv, InitRInv, StepRInv, PTL DEF Spec

=============================================================================
