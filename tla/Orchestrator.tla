---------------------------- MODULE Orchestrator ----------------------------
(***************************************************************************)
(* class OrchestratorSupervisor (orchestrator/src/supervisor.ts) with the  *)
(* RPC processes, the records in instances.json and the registrations at   *)
(* Radius.  Each call on an instance is a thread that stops at its awaits; *)
(* the others run in between.                                              *)
(*                                                                         *)
(* Radius and the child processes are external: Radius answers, or fails   *)
(* (with or without effect), or forgets; a child answers or ends.          *)
(***************************************************************************)
EXTENDS Naturals, FiniteSets

CONSTANTS
    Instances,          \* the ids that spawnInstance draws
    Stoppers,           \* calls of stopInstance, for each instance
    MaxRegistrations,   \* bound: registrations of an instance
    MaxCrashes          \* bound: crashes of the orchestrator

Handlers == {"spawn", "exit", "refresh", "reregister"}

ASSUME OrchestratorAssumption ==
    Stoppers \cap Handlers = {} /\ MaxRegistrations \in Nat /\ MaxCrashes \in Nat

Callers == Handlers \cup Stoppers
None == 0     \* radiusPiId: undefined

VARIABLES
    boot,         \* "up", "down", or "recovering"
    disk,         \* instances.json: the record of each instance, or Absent
    registered,   \* the registrations Radius has
    given,        \* registrations each instance was given so far
    live,         \* the keys of liveInstances
    record,       \* live.record: status and radiusPiId
    owned,        \* the instances with live.resources.rpcProcess
    radiusPiId,   \* live.resources.radiusPiId
    bound,        \* the instances with a listener for the exit of the process
    process,      \* the child process
    pending,      \* the callers with a request in pendingRequests
    task,         \* where each caller stands, what it holds
    heartbeat,    \* piHeartbeatStates: the id, or None
    loaded,       \* what recoverAfterRestart is going to save
    todo,         \* the instances it still has to disconnect
    crashes,      \* crashes so far (bound)
    excused,      \* instances whose registration may have been lost (history)
    leaked        \* instances whose clean-up was cut short (history)

radius == <<registered, given, heartbeat>>
resources == <<live, record, owned, radiusPiId, bound>>
children == <<process, pending>>
recovery == <<boot, loaded, todo, crashes>>
history == <<excused, leaked>>
vars == <<disk, radius, resources, children, task, recovery, history>>

Absent == [status |-> "absent", radius |-> None]
Idle == [at |-> "no", holds |-> FALSE, id |-> None]

Init ==
    /\ boot = "up" /\ disk = [i \in Instances |-> Absent]
    /\ registered = {} /\ given = [i \in Instances |-> 0]
    /\ heartbeat = [i \in Instances |-> None]
    /\ live = {} /\ record = [i \in Instances |-> Absent]
    /\ owned = {} /\ radiusPiId = [i \in Instances |-> None] /\ bound = {}
    /\ process = [i \in Instances |-> "none"] /\ pending = [i \in Instances |-> {}]
    /\ task = [i \in Instances |-> [c \in Callers |-> Idle]]
    /\ loaded = disk /\ todo = {} /\ crashes = 0
    /\ excused = {} /\ leaked = {}

Running == boot # "down"
At(i, c, stage) == task[i][c].at = stage
Go(i, c, stage) == task' = [task EXCEPT ![i][c].at = stage]
Done(i, c) == task' = [task EXCEPT ![i][c] = [Idle EXCEPT !.at = "done"]]

\* i has ended or is being cleaned up.
Leaving(i) ==
    \/ i \notin live
    \/ \E c \in Callers : task[i][c].at \in {"disconnecting", "disposing", "finishing"}

-----------------------------------------------------------------------------
(* Records.                                                                 *)

\* live.record is replaced and written (setStatus, updateRecord).
UpdateRecord(i, status, id) ==
    /\ record' = [record EXCEPT ![i] = [status |-> status, radius |-> id]]
    /\ disk' = [disk EXCEPT ![i] = record'[i]]

\* Radius makes a registration for i and starts its heartbeat (registerPi).
Register(i) ==
    LET id == given[i] + 1
    IN  /\ given' = [given EXCEPT ![i] = id]
        /\ registered' = registered \cup {<<i, id>>}
        /\ heartbeat' = [heartbeat EXCEPT ![i] = id]

\* The answer does not arrive: Radius may have made a registration or not.
RegisterFails(i) ==
    /\ \/ UNCHANGED <<given, registered, excused>>
       \/ /\ given[i] < MaxRegistrations
          /\ given' = [given EXCEPT ![i] = @ + 1]
          /\ registered' = registered \cup {<<i, given[i] + 1>>}
          /\ excused' = excused \cup {i}
    /\ UNCHANGED heartbeat

-----------------------------------------------------------------------------
(* cleanupAcquiredResources: disconnect, then dispose.                      *)

\* Mutant: those who wait for an answer are not told.
Mut_RejectAllPending(i) == UNCHANGED pending

RejectAllPending(i) == pending' = [pending EXCEPT ![i] = {}]

\* Mutant: the process is forgotten without an end.
Mut_Dispose(i, c, holds, id) ==
    /\ owned' = owned \ {i}
    /\ task' = [task EXCEPT ![i][c] = [at |-> "finishing", holds |-> holds, id |-> id]]
    /\ UNCHANGED children

\* The process, if c holds it, is disposed: its requests are rejected and its
\* end is awaited.
Dispose(i, c, holds, id) ==
    /\ owned' = IF holds THEN owned \ {i} ELSE owned
    /\ IF holds THEN RejectAllPending(i) ELSE UNCHANGED pending
    /\ process' = IF holds /\ process[i] = "running"
                  THEN [process EXCEPT ![i] = "ending"] ELSE process
    /\ task' = [task EXCEPT ![i][c] =
                [at |-> IF holds /\ process[i] # "gone" THEN "disposing" ELSE "finishing",
                 holds |-> holds, id |-> id]]

\* Mutant: the registration is left alone.
Mut_CleanUp(i, c) ==
    /\ bound' = bound \ {i}
    /\ Dispose(i, c, i \in owned, None)
    /\ UNCHANGED heartbeat

\* Everything up to the first await.
CleanUp(i, c) ==
    /\ bound' = bound \ {i}
    /\ IF radiusPiId[i] = None
       THEN Dispose(i, c, i \in owned, None) /\ UNCHANGED heartbeat
       ELSE /\ task' = [task EXCEPT ![i][c] = [at |-> "disconnecting", holds |-> i \in owned,
                                               id |-> record[i].radius]]
            /\ heartbeat' = [heartbeat EXCEPT ![i] = None]
            /\ UNCHANGED <<owned, children>>

\* Radius has disconnected the instance (or does not know it).
Disconnected(i, c) ==
    /\ c # "exit" /\ At(i, c, "disconnecting")
    /\ registered' = registered \ {<<i, task[i][c].id>>}
    /\ radiusPiId' = [radiusPiId EXCEPT ![i] = None]
    /\ record' = [record EXCEPT ![i].radius = None]
    /\ Dispose(i, c, task[i][c].holds, task[i][c].id)
    /\ UNCHANGED <<disk, given, heartbeat, live, bound, recovery, history>>

\* disconnectPi throws, whether Radius has done it or not: the rest of the
\* clean-up is skipped.
DisconnectFails(i, c) ==
    /\ c # "exit" /\ At(i, c, "disconnecting") /\ task[i][c].id # None
    /\ \/ registered' = registered \ {<<i, task[i][c].id>>} /\ UNCHANGED excused
       \/ UNCHANGED registered /\ excused' = excused \cup {i}
    /\ leaked' = IF task[i][c].holds THEN leaked \cup {i} ELSE leaked
    /\ Go(i, c, "finishing")
    /\ UNCHANGED <<disk, given, heartbeat, resources, children, recovery>>

\* dispose returns when the process has ended.
Disposed(i, c) ==
    /\ At(i, c, "disposing") /\ process[i] = "gone"
    /\ Go(i, c, "finishing")
    /\ UNCHANGED <<disk, radius, resources, children, recovery, history>>

CleanUpStep(i, c) == Disconnected(i, c) \/ DisconnectFails(i, c) \/ Disposed(i, c)

-----------------------------------------------------------------------------
(* spawnInstance.                                                           *)

\* Up to the first answer of the process.
Spawn(i) ==
    /\ Running /\ At(i, "spawn", "no") /\ disk[i] = Absent
    /\ live' = live \cup {i} /\ owned' = owned \cup {i} /\ bound' = bound \cup {i}
    /\ UpdateRecord(i, "starting", None)
    /\ process' = [process EXCEPT ![i] = "running"]
    /\ pending' = [pending EXCEPT ![i] = {"spawn"}]
    /\ Go(i, "spawn", "asking")
    /\ UNCHANGED <<radius, radiusPiId, recovery, history>>

\* The process tells its session (syncInstanceRecord); registerPi begins.
SpawnAnswered(i) ==
    /\ At(i, "spawn", "asking") /\ "spawn" \in pending[i] /\ process[i] # "gone"
    /\ pending' = [pending EXCEPT ![i] = @ \ {"spawn"}]
    /\ UpdateRecord(i, record[i].status, record[i].radius)
    /\ Go(i, "spawn", "registering")
    /\ UNCHANGED <<radius, live, owned, radiusPiId, bound, process, recovery, history>>

SpawnRegistered(i) ==
    /\ At(i, "spawn", "registering") /\ given[i] < MaxRegistrations
    /\ Register(i)
    /\ UpdateRecord(i, "online", given'[i])
    /\ radiusPiId' = [radiusPiId EXCEPT ![i] = given'[i]]
    /\ Done(i, "spawn")
    /\ excused' = IF Leaving(i) THEN excused \cup {i} ELSE excused
    /\ UNCHANGED <<live, owned, bound, children, recovery, leaked>>

\* failSpawn: the request was rejected, or the registration failed.
SpawnFails(i) ==
    /\ \/ /\ At(i, "spawn", "asking") /\ "spawn" \notin pending[i]
          /\ UNCHANGED <<registered, given, excused>>
       \/ At(i, "spawn", "registering") /\ RegisterFails(i)
    /\ UpdateRecord(i, "error", record[i].radius)
    /\ CleanUp(i, "spawn")
    /\ UNCHANGED <<live, radiusPiId, recovery, leaked>>

\* The finally of failSpawn.
FailedSpawn(i) ==
    /\ At(i, "spawn", "finishing")
    /\ UpdateRecord(i, "stopped", record[i].radius)
    /\ live' = live \ {i}
    /\ Done(i, "spawn")
    /\ UNCHANGED <<radius, owned, radiusPiId, bound, children, recovery, history>>

-----------------------------------------------------------------------------
(* stopInstance.                                                            *)

Stop(i, s) ==
    /\ Running /\ i \in live /\ At(i, s, "no")
    /\ UpdateRecord(i, "stopping", record[i].radius)
    /\ CleanUp(i, s)
    /\ UNCHANGED <<registered, given, live, radiusPiId, recovery, history>>

\* Mutant: a stop ends only while the instance is live.
Mut_Stopped(i, s) ==
    /\ At(i, s, "finishing") /\ i \in live
    /\ record' = [record EXCEPT ![i].status = "stopped"]
    /\ live' = live \ {i}
    /\ disk' = [disk EXCEPT ![i] = Absent]
    /\ Done(i, s)
    /\ UNCHANGED <<radius, owned, radiusPiId, bound, children, recovery, history>>

\* Its finally.
Stopped(i, s) ==
    /\ At(i, s, "finishing")
    /\ record' = [record EXCEPT ![i].status = "stopped"]
    /\ live' = live \ {i}
    /\ disk' = [disk EXCEPT ![i] = Absent]
    /\ Done(i, s)
    /\ UNCHANGED <<radius, owned, radiusPiId, bound, children, recovery, history>>

-----------------------------------------------------------------------------
(* The end of the process.                                                  *)

\* All requests are rejected; then handleUnexpectedRpcExit, if it is bound.
Exit(i) ==
    /\ process[i] \in {"running", "ending"}
    /\ process' = [process EXCEPT ![i] = "gone"]
    /\ RejectAllPending(i)
    /\ IF i \in bound \cap live /\ record[i].status \notin {"stopping", "stopped"}
       THEN /\ UpdateRecord(i, "error", record[i].radius)
            /\ bound' = bound \ {i} /\ owned' = owned \ {i}
            /\ IF radiusPiId[i] = None
               THEN live' = live \ {i} /\ UNCHANGED <<task, heartbeat>>
               ELSE /\ task' = [task EXCEPT ![i]["exit"] = [at |-> "disconnecting",
                                 holds |-> FALSE, id |-> record[i].radius]]
                    /\ heartbeat' = [heartbeat EXCEPT ![i] = None]
                    /\ UNCHANGED live
       ELSE UNCHANGED <<disk, live, record, owned, bound, task, heartbeat>>
    /\ UNCHANGED <<registered, given, radiusPiId, recovery, history>>

\* The rest of the handler; a failure is only logged.
ExitDisconnected(i) ==
    /\ At(i, "exit", "disconnecting")
    /\ registered' = registered \ {<<i, task[i]["exit"].id>>}
    /\ UpdateRecord(i, record[i].status, None)
    /\ live' = live \ {i}
    /\ Done(i, "exit")
    /\ UNCHANGED <<given, heartbeat, owned, radiusPiId, bound, children, recovery, history>>

ExitDisconnectFails(i) ==
    /\ At(i, "exit", "disconnecting") /\ task[i]["exit"].id # None
    /\ \/ registered' = registered \ {<<i, task[i]["exit"].id>>} /\ UNCHANGED excused
       \/ UNCHANGED registered /\ excused' = excused \cup {i}
    /\ live' = live \ {i}
    /\ Done(i, "exit")
    /\ UNCHANGED <<disk, given, heartbeat, record, owned, radiusPiId, bound, children, recovery,
                   leaked>>

-----------------------------------------------------------------------------
(* Commands of clients, and re-registration.                                *)

\* handleRpc with a command that may change the session.
Request(i) ==
    /\ Running /\ i \in live \cap owned /\ process[i] # "gone"
    /\ At(i, "refresh", "no")
    /\ pending' = [pending EXCEPT ![i] = @ \cup {"refresh"}]
    /\ Go(i, "refresh", "asking")
    /\ UNCHANGED <<disk, radius, resources, process, recovery, history>>

\* The process has answered, and told its session; or the request was rejected.
Refresh(i) ==
    /\ At(i, "refresh", "asking")
    /\ IF "refresh" \in pending[i]
       THEN UpdateRecord(i, record[i].status, record[i].radius)
       ELSE UNCHANGED <<disk, record>>
    /\ pending' = [pending EXCEPT ![i] = @ \ {"refresh"}]
    /\ Done(i, "refresh")
    /\ UNCHANGED <<radius, live, owned, radiusPiId, bound, process, recovery, history>>

\* Radius loses a registration.
Forget(i) ==
    /\ \E id \in 1 .. given[i] :
        <<i, id>> \in registered /\ registered' = registered \ {<<i, id>>}
    /\ UNCHANGED <<disk, given, heartbeat, resources, children, task, recovery, history>>

\* heartbeatPi has not found the instance often enough: reRegisterPi takes a
\* copy of the record, or gives up.
ReRegister(i) ==
    /\ heartbeat[i] # None /\ <<i, heartbeat[i]>> \notin registered
    /\ task[i]["reregister"].at \in {"no", "done"}
    /\ IF i \in live
       THEN Go(i, "reregister", record[i].status) /\ UNCHANGED heartbeat
       ELSE heartbeat' = [heartbeat EXCEPT ![i] = None] /\ UNCHANGED task
    /\ UNCHANGED <<disk, registered, given, resources, children, recovery, history>>

Statuses == {"starting", "online", "stopping", "stopped", "error"}

\* The registration is there: updateInstance writes the copy.
ReRegistered(i) ==
    /\ task[i]["reregister"].at \in Statuses /\ given[i] < MaxRegistrations
    /\ Register(i)
    /\ LET copy == [status |-> task[i]["reregister"].at, radius |-> given'[i]]
       IN  /\ disk' = [disk EXCEPT ![i] = copy]
           /\ IF i \in live
              THEN /\ record' = [record EXCEPT ![i] = copy]
                   /\ radiusPiId' = [radiusPiId EXCEPT ![i] = given'[i]]
              ELSE UNCHANGED <<record, radiusPiId>>
    /\ Done(i, "reregister")
    /\ excused' = IF Leaving(i) THEN excused \cup {i} ELSE excused
    /\ UNCHANGED <<live, owned, bound, children, recovery, leaked>>

ReRegisterFails(i) ==
    /\ task[i]["reregister"].at \in Statuses
    /\ RegisterFails(i)
    /\ Done(i, "reregister")
    /\ UNCHANGED <<disk, resources, children, recovery, leaked>>

-----------------------------------------------------------------------------
(* Crash and recovery.                                                      *)

\* Memory is lost, the children lose their stdin and end; a registration on its
\* way may have been made.
Crash ==
    /\ Running /\ crashes < MaxCrashes
    /\ crashes' = crashes + 1
    /\ boot' = "down"
    /\ \E made \in SUBSET {i \in Instances :
            At(i, "spawn", "registering") /\ given[i] < MaxRegistrations} :
        /\ given' = [i \in Instances |-> IF i \in made THEN given[i] + 1 ELSE given[i]]
        /\ registered' = registered \cup {<<i, given[i] + 1>> : i \in made}
        /\ excused' = excused \cup made
    /\ heartbeat' = [i \in Instances |-> None]
    /\ live' = {} /\ owned' = {} /\ bound' = {}
    /\ record' = [i \in Instances |-> Absent]
    /\ radiusPiId' = [i \in Instances |-> None]
    /\ process' = [i \in Instances |-> IF process[i] = "none" THEN "none" ELSE "gone"]
    /\ pending' = [i \in Instances |-> {}]
    /\ task' = [i \in Instances |-> [c \in Callers |->
                IF task[i][c].at = "no" THEN Idle ELSE [Idle EXCEPT !.at = "done"]]]
    /\ loaded' = [i \in Instances |-> Absent] /\ todo' = {}
    /\ UNCHANGED <<disk, leaked>>

\* serve: requests are accepted from now on; recoverAfterRestart begins.
Restart ==
    /\ boot = "down"
    /\ boot' = "recovering"
    /\ loaded' = [i \in Instances |->
                  IF disk[i].status \in {"online", "starting"}
                  THEN [disk[i] EXCEPT !.status = "stopped"] ELSE disk[i]]
    /\ todo' = {i \in Instances : disk[i] # Absent}
    /\ UNCHANGED <<disk, radius, resources, children, task, crashes, history>>

\* A recorded instance is disconnected; if that throws, serve ends (Crash).
Recover(i) ==
    /\ boot = "recovering" /\ i \in todo
    /\ todo' = todo \ {i}
    /\ registered' = registered \ {<<i, loaded[i].radius>>}
    /\ heartbeat' = [heartbeat EXCEPT ![i] = None]
    /\ UNCHANGED <<disk, given, resources, children, task, boot, loaded, crashes, history>>

\* saveInstances: what has been recorded meanwhile is overwritten.
Recovered ==
    /\ boot = "recovering" /\ todo = {}
    /\ boot' = "up"
    /\ disk' = loaded
    /\ loaded' = [i \in Instances |-> Absent]
    /\ excused' = excused \cup {i \in Instances : loaded[i] = Absent /\ disk[i] # Absent}
    /\ UNCHANGED <<radius, resources, children, task, todo, crashes, leaked>>

-----------------------------------------------------------------------------
\* What each call on i waits for.
SpawnStep(i) ==
    \/ SpawnAnswered(i) \/ SpawnRegistered(i) \/ SpawnFails(i) \/ FailedSpawn(i)
    \/ CleanUpStep(i, "spawn")
StopStep(i, s) == CleanUpStep(i, s) \/ Stopped(i, s)
ExitStep(i) == ExitDisconnected(i) \/ ExitDisconnectFails(i)

Next ==
    \/ \E i \in Instances :
        \/ Spawn(i) \/ SpawnStep(i) \/ Exit(i) \/ ExitStep(i)
        \/ \E s \in Stoppers : Stop(i, s) \/ StopStep(i, s)
        \/ Request(i) \/ Refresh(i)
        \/ Forget(i) \/ ReRegister(i) \/ ReRegistered(i) \/ ReRegisterFails(i)
        \/ Recover(i)
    \/ Crash \/ Restart \/ Recovered

Spec == Init /\ [][Next]_vars

\* Radius answers, a child answers or ends, and ends when it is told to.
FairSpec ==
    /\ Spec
    /\ \A i \in Instances :
        /\ WF_vars(SpawnStep(i)) /\ WF_vars(ExitStep(i))
        /\ \A s \in Stoppers : WF_vars(StopStep(i, s))
        /\ WF_vars(process[i] = "ending" /\ Exit(i))

-----------------------------------------------------------------------------
Registrations == Instances \X (1 .. MaxRegistrations)
RecordStatuses == Statuses \cup {"absent"}
Records == [status : RecordStatuses, radius : Nat]
Stages == {"no", "asking", "registering", "disconnecting", "disposing", "finishing", "done"}

Tasks == [at : Stages \cup RecordStatuses, holds : BOOLEAN, id : Nat]

Types ==
    /\ boot \in {"up", "down", "recovering"}
    /\ disk \in [Instances -> Records] /\ record \in [Instances -> Records]
    /\ loaded \in [Instances -> Records]
    /\ registered \subseteq Registrations
    /\ given \in [Instances -> Nat] /\ heartbeat \in [Instances -> Nat]
    /\ radiusPiId \in [Instances -> Nat]
    /\ live \subseteq Instances /\ owned \subseteq Instances /\ bound \subseteq Instances
    /\ process \in [Instances -> {"none", "running", "ending", "gone"}]
    /\ pending \in [Instances -> SUBSET {"spawn", "refresh"}]
    /\ task \in [Instances -> [Callers -> Tasks]]
    /\ todo \subseteq Instances /\ crashes \in 0 .. MaxCrashes
    /\ excused \subseteq Instances /\ leaked \subseteq Instances

\* Every variable keeps its type; a request that awaits an answer has a caller
\* that waits for it, and a process that has not ended.
TypeOK ==
    /\ Types
    /\ \A i \in Instances, c \in Callers :
        c \in pending[i] => At(i, c, "asking") /\ process[i] # "gone"

\* A process that runs belongs to an instance that can be stopped, or somebody
\* is about to dispose of it; only a failed disconnect cuts that short.
ProcessesAreOwned ==
    \A i \in Instances : process[i] = "running" =>
        \/ i \in live \cap owned
        \/ \E c \in Callers : At(i, c, "disconnecting") /\ task[i][c].holds
        \/ i \in leaked

\* A registration at Radius can be found in instances.json, so that a restart
\* disconnects it, unless a call failed, a crash came before the answer, the
\* recovery overwrote the record or it was made for an instance about to end.
RegistrationsAreRecorded ==
    \A i \in Instances : \A id \in 1 .. given[i] :
        <<i, id>> \in registered => disk[i].radius = id \/ i \in excused

\* Every spawn, stop and exit comes to an end.
CallsEnd ==
    \A i \in Instances : \A c \in Callers \ {"refresh", "reregister"} :
        task[i][c].at # "no" ~> task[i][c].at = "done"

=============================================================================
