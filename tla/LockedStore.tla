---------------------------- MODULE LockedStore ----------------------------
(***************************************************************************)
(* auth.json and settings.json, shared by several pi processes: lock the   *)
(* file, read it, merge changes, write it, release the lock                *)
(* (coding-agent/src/core/auth-storage.ts and settings-manager.ts).        *)
(* Processes interleave between any two accesses to the file system.       *)
(*                                                                         *)
(* A credential is written when it changes.  A setting is changed in       *)
(* memory and marked, and a write of all that is marked is queued.         *)
(*                                                                         *)
(* The lock is that of proper-lockfile (external): a lock whose time stamp *)
(* is old counts as stale and is taken over.  A refresh renews its stamp   *)
(* every 15 seconds, the synchronous callers call it stale after 10.       *)
(* There is one lock for a file: auth.json is no symbolic link, for the    *)
(* refresh resolves it (realpath) and the synchronous callers do not.      *)
(***************************************************************************)
EXTENDS Naturals, Sequences, FiniteSets

CONSTANTS
    Actors,      \* processes; each does one operation at a time
    Keys,        \* providers, or settings: a field, or a key of one that is an object
    Nobody,      \* holds a lock that is free
    Token,       \* the provider whose credential is an OAuth token
    MaxChanges   \* bound: changes made and reloads called for

ASSUME StoreAssumption == Token \in Keys /\ Nobody \notin Actors /\ MaxChanges \in Nat

Missing == 0       \* no value for a key

VARIABLES
    store,      \* which of the two: "auth" or "settings"
    exists,     \* the file exists
    file,       \* its contents: a version for each key
    lock,       \* who holds the lock, or Nobody
    pc,         \* where each actor stands
    change,     \* what it is to write: versions of the keys that it changes
    seen,       \* the contents it has read
    robbed,     \* its lock was taken over, and it has noticed
    unloaded,   \* its last load of the file failed (loadError)
    unsaved,    \* unsaved[a]: the modifiedFields of its settings, with their values
    queue,      \* queue[a]: the snapshots in its writeQueue
    changes,    \* changes made and reloads called for so far; they number the versions
    written,    \* the versions that were written (history)
    saved,      \* for each key the version last written for the first time (history)
    repeated,   \* the keys of which an older version was written again since (history)
    expired,    \* the tokens that have expired
    exchanges,  \* how often the provider exchanged each token (history)
    mishaps     \* what may cost an update: "stolen", "created", "died", or a token: "lost" (history)

disk == <<exists, file, lock>>
local == <<pc, change, seen, robbed>>
memory == <<unloaded, unsaved, queue>>
writes == <<written, saved, repeated>>
tokens == <<expired, exchanges>>
vars == <<store, disk, local, memory, changes, writes, tokens, mishaps>>

Empty == [k \in Keys |-> Missing]

Init ==
    /\ store \in {"auth", "settings"}
    /\ \/ exists = FALSE /\ file = Empty
       \/ exists = TRUE /\ file = [Empty EXCEPT ![Token] = 1]
    /\ lock = Nobody
    /\ pc = [a \in Actors |-> "idle"]
    /\ change = [a \in Actors |-> Empty] /\ seen = [a \in Actors |-> Empty]
    /\ robbed = {} /\ unloaded = {}
    /\ unsaved = [a \in Actors |-> Empty] /\ queue = [a \in Actors |-> <<>>]
    /\ changes = 1
    /\ written = {1} /\ saved = file /\ repeated = {}
    /\ expired = {} /\ exchanges = [v \in 1 .. MaxChanges + 1 |-> 0]
    /\ mishaps = {}

At(a, stage) == pc[a] = stage
Go(a, stage) == pc' = [pc EXCEPT ![a] = stage]

-----------------------------------------------------------------------------
(* Operations.                                                              *)

Begin(a, stage, c) ==
    /\ At(a, "idle") /\ Go(a, stage)
    /\ change' = [change EXCEPT ![a] = c]
    /\ UNCHANGED <<store, disk, seen, robbed, unloaded, unsaved, writes, tokens, mishaps>>

NewVersion == changes <= MaxChanges /\ changes' = changes + 1

\* set, remove, login and logout: one credential.  If it could not load the file,
\* the process must Reload it first.
SetCredential(a, k) ==
    /\ store = "auth" /\ a \notin unloaded /\ NewVersion
    /\ Begin(a, "change", [Empty EXCEPT ![k] = changes + 1])
    /\ UNCHANGED queue

\* getApiKey with a token that has expired.
Refresh(a) ==
    /\ store = "auth" /\ NewVersion
    /\ Begin(a, "refresh", [Empty EXCEPT ![Token] = changes + 1])
    /\ UNCHANGED queue

\* reload reads the file and writes nothing.  It is counted with the changes.
Reload(a) == NewVersion /\ Begin(a, "change", Empty) /\ UNCHANGED queue
Reloading(a) == change[a] = Empty

\* A setter of SettingsManager: the value, its mark, and a snapshot to be written
\* (save).
SetSetting(a, k) ==
    /\ store = "settings" /\ At(a, "idle") /\ NewVersion
    /\ unsaved' = [unsaved EXCEPT ![a][k] = changes + 1]
    /\ queue' = IF a \in unloaded THEN queue
                ELSE [queue EXCEPT ![a] = Append(@, unsaved'[a])]
    /\ UNCHANGED <<store, disk, local, unloaded, writes, tokens, mishaps>>

\* enqueueWrite: the next snapshot.
SaveNext(a) ==
    /\ queue[a] # <<>>
    /\ Begin(a, "change", Head(queue[a]))
    /\ queue' = [queue EXCEPT ![a] = Tail(@)]
    /\ UNCHANGED changes

\* The end of an operation.  A write that succeeds clears every mark (clearModifiedScope),
\* also those set behind its snapshot; one that fails clears none.  A reload clears
\* them in either case, and says if the file could be loaded.
End(a, done) ==
    /\ change' = [change EXCEPT ![a] = Empty] /\ seen' = [seen EXCEPT ![a] = Empty]
    /\ unsaved' = IF done \/ Reloading(a) THEN [unsaved EXCEPT ![a] = Empty] ELSE unsaved
    /\ unloaded' = IF ~Reloading(a) THEN unloaded
                   ELSE IF done THEN unloaded \ {a} ELSE unloaded \cup {a}

-----------------------------------------------------------------------------
(* Up to the lock.                                                          *)

\* ensureFileExists looks.
Look(a, stage) ==
    /\ store = "auth" /\ At(a, stage)
    /\ Go(a, IF stage = "refresh" THEN IF exists THEN "lockAsync" ELSE "createAsync"
             ELSE IF exists THEN "lock" ELSE "create")
    /\ UNCHANGED <<store, disk, change, seen, robbed, memory, changes, writes, tokens, mishaps>>

\* Settings that do not exist are not locked before they are read, and without a
\* change not at all.
LookForSettings(a) ==
    /\ store = "settings" /\ At(a, "change")
    /\ IF ~exists /\ Reloading(a) THEN Go(a, "idle") /\ End(a, TRUE)
       ELSE /\ Go(a, IF exists THEN "lock" ELSE "lockLate")
            /\ UNCHANGED <<change, seen, unloaded, unsaved>>
    /\ UNCHANGED <<store, disk, robbed, queue, changes, writes, tokens, mishaps>>

\* ensureFileExists writes an empty file, whoever has made one meanwhile.
Create(a) ==
    /\ pc[a] \in {"create", "createAsync"}
    /\ exists' = TRUE /\ file' = Empty
    /\ mishaps' = IF exists THEN mishaps \cup {"created"} ELSE mishaps
    /\ Go(a, IF At(a, "create") THEN "lock" ELSE "lockAsync")
    /\ UNCHANGED <<store, lock, change, seen, robbed, memory, changes, writes, tokens>>

\* Stages of an actor whose lock is not renewed; of one whose lock may be old.
Dead(a) == At(a, "dead")
Slow(a) == At(a, "exchange")

\* acquireLockSyncWithRetry, lockfile.lock: a lock that is free or counts as
\* stale.
Lock(a) ==
    /\ pc[a] \in {"lock", "lockLate", "lockAsync"}
    /\ \/ lock = Nobody /\ UNCHANGED mishaps
       \/ /\ lock # Nobody
          /\ Dead(lock) \/ (Slow(lock) /\ ~At(a, "lockAsync"))
          /\ mishaps' = IF Dead(lock) THEN mishaps ELSE mishaps \cup {"stolen"}
    /\ lock' = a
    /\ Go(a, CASE At(a, "lock") -> "read" [] At(a, "lockLate") -> "write"
               [] OTHER -> "readAsync")
    /\ UNCHANGED <<store, exists, file, change, seen, robbed, memory, changes, writes, tokens>>

\* The attempts are used up: the operation fails.  Behind a refresh getApiKey
\* reloads the file.
GiveUp(a) ==
    /\ pc[a] \in {"lock", "lockLate", "lockAsync"} /\ lock # Nobody
    /\ Go(a, IF At(a, "lockAsync") THEN "change" ELSE "idle")
    /\ End(a, FALSE)
    /\ UNCHANGED <<store, disk, robbed, queue, changes, writes, tokens, mishaps>>

-----------------------------------------------------------------------------
(* Under the lock.                                                          *)

Read(a) ==
    /\ At(a, "read")
    /\ seen' = [seen EXCEPT ![a] = file]
    /\ Go(a, IF Reloading(a) THEN "release" ELSE "write")
    /\ UNCHANGED <<store, disk, change, robbed, memory, changes, writes, tokens, mishaps>>

\* refreshOAuthTokenWithLock: another process may have refreshed the token.
ReadToken(a) ==
    /\ At(a, "readAsync")
    /\ seen' = [seen EXCEPT ![a] = file]
    /\ unloaded' = unloaded \ {a}
    /\ Go(a, IF file[Token] \in expired THEN "exchange" ELSE "release")
    /\ UNCHANGED <<store, disk, change, robbed, unsaved, queue, changes, writes, tokens, mishaps>>

\* Mutant: the new token is used, but not written.
Mut_Exchange(a) ==
    /\ At(a, "exchange")
    /\ exchanges' = [exchanges EXCEPT ![seen[a][Token]] = @ + 1]
    /\ Go(a, "release")
    /\ UNCHANGED <<store, disk, change, seen, robbed, memory, changes, writes, expired, mishaps>>

\* getOAuthApiKey: the provider gives a new token for the old one, or fails; or it
\* does, and its answer is lost.
Exchange(a) ==
    /\ At(a, "exchange")
    /\ \/ /\ exchanges' = [exchanges EXCEPT ![seen[a][Token]] = @ + 1]
          /\ \/ Go(a, "write") /\ UNCHANGED mishaps
             \/ Go(a, "abandon") /\ mishaps' = mishaps \cup {"lost"}
       \/ Go(a, "abandon") /\ UNCHANGED <<exchanges, mishaps>>
    /\ UNCHANGED <<store, disk, change, seen, robbed, memory, changes, writes, expired>>

\* onCompromised: the timer that renews the stamp finds another's lock.
Notice(a) ==
    /\ Slow(a) /\ lock # a /\ a \notin robbed
    /\ robbed' = robbed \cup {a}
    /\ UNCHANGED <<store, disk, pc, change, seen, memory, changes, writes, tokens, mishaps>>

\* Mutant: what others have written is not kept.
Mut_Merged(a) == change[a]

\* What it has read, and over it every key of its change.
Merged(a) == [k \in Keys |-> IF change[a][k] = Missing THEN seen[a][k] ELSE change[a][k]]

\* The keys that it changes, and those whose version it writes for the first time.
Changed(a) == {k \in Keys : change[a][k] # Missing}
New(a) == {k \in Changed(a) : change[a][k] \notin written}

\* writeFileSync.
WriteFile(a) ==
    /\ exists' = TRUE
    /\ file' = Merged(a)
    /\ written' = written \cup {change[a][k] : k \in Changed(a)}
    /\ saved' = [k \in Keys |-> IF k \in New(a) THEN change[a][k] ELSE saved[k]]
    /\ repeated' = (repeated \cup Changed(a)) \ New(a)
    /\ mishaps' = IF exists /\ seen[a] = Empty /\ file # Empty
                  THEN mishaps \cup {"created"} ELSE mishaps

\* throwIfCompromised comes first.
Write(a) ==
    /\ At(a, "write")
    /\ IF a \in robbed THEN Go(a, "abandon") /\ UNCHANGED <<exists, file, writes, mishaps>>
       ELSE WriteFile(a) /\ Go(a, "release")
    /\ UNCHANGED <<store, lock, change, seen, robbed, memory, changes, tokens>>

\* Mutant: a lock is released only after a write.
Mut_Release(a) ==
    /\ pc[a] \in {"release", "abandon"}
    /\ lock' = IF lock = a /\ seen[a] = file THEN lock ELSE Nobody
    /\ robbed' = robbed \ {a}
    /\ Go(a, IF At(a, "abandon") THEN "change" ELSE "idle")
    /\ End(a, At(a, "release"))
    /\ UNCHANGED <<store, exists, file, queue, changes, writes, tokens, mishaps>>

\* The finally of withLock and withLockAsync; one who has not noticed that the
\* lock was taken over removes the other's.
Release(a) ==
    /\ pc[a] \in {"release", "abandon"}
    /\ lock' = IF a \in robbed THEN lock ELSE Nobody
    /\ robbed' = robbed \ {a}
    /\ Go(a, IF At(a, "abandon") THEN "change" ELSE "idle")
    /\ End(a, At(a, "release"))
    /\ UNCHANGED <<store, exists, file, queue, changes, writes, tokens, mishaps>>

-----------------------------------------------------------------------------
\* The process of a dies; a write may have emptied the file by then.
Die(a) ==
    /\ ~Dead(a)
    /\ Go(a, "dead")
    /\ IF At(a, "write")
       THEN /\ mishaps' = mishaps \cup {"died"}
            /\ \/ exists' = TRUE /\ file' = Empty
               \/ UNCHANGED <<exists, file>>
       ELSE UNCHANGED <<exists, file, mishaps>>
    /\ change' = [change EXCEPT ![a] = Empty] /\ seen' = [seen EXCEPT ![a] = Empty]
    /\ unsaved' = [unsaved EXCEPT ![a] = Empty] /\ queue' = [queue EXCEPT ![a] = <<>>]
    /\ unloaded' = unloaded \ {a}
    /\ UNCHANGED <<store, lock, robbed, changes, writes, tokens>>

Expire ==
    /\ \E v \in 1 .. changes : v = file[Token] /\ v \notin expired /\ expired' = expired \cup {v}
    /\ UNCHANGED <<store, disk, local, memory, changes, writes, exchanges, mishaps>>

Next ==
    \/ \E a \in Actors :
        \/ \E k \in Keys : SetCredential(a, k) \/ SetSetting(a, k)
        \/ Refresh(a) \/ Reload(a) \/ SaveNext(a)
        \/ \E stage \in {"change", "refresh"} : Look(a, stage)
        \/ LookForSettings(a) \/ Create(a) \/ Lock(a) \/ GiveUp(a)
        \/ Read(a) \/ ReadToken(a) \/ Exchange(a) \/ Notice(a) \/ Write(a) \/ Release(a)
        \/ Die(a)
    \/ Expire

Spec == Init /\ [][Next]_vars

-----------------------------------------------------------------------------
Holding == {"read", "readAsync", "exchange", "write", "release", "abandon"}
Stages == Holding \cup {"idle", "change", "refresh", "create", "createAsync", "lock",
                        "lockLate", "lockAsync", "dead"}
Versions == 0 .. MaxChanges + 1
Contents == [Keys -> Versions]

Types ==
    /\ store \in {"auth", "settings"} /\ exists \in BOOLEAN
    /\ file \in Contents /\ saved \in Contents
    /\ pc \in [Actors -> Stages] /\ change \in [Actors -> Contents]
    /\ seen \in [Actors -> Contents]
    /\ robbed \subseteq Actors /\ unloaded \subseteq Actors
    /\ unsaved \in [Actors -> Contents] /\ queue \in [Actors -> Seq(Contents)]
    /\ changes \in 1 .. MaxChanges + 1
    /\ written \subseteq Versions /\ repeated \subseteq Keys
    /\ expired \subseteq 1 .. MaxChanges + 1
    /\ exchanges \in [1 .. MaxChanges + 1 -> Nat]
    /\ lock \in Actors \cup {Nobody} /\ mishaps \subseteq {"stolen", "created", "died", "lost"}

LockHeld == lock # Nobody => Dead(lock) \/ pc[lock] \in Holding
LockExcludes == "stolen" \notin mishaps => \A a \in Actors : pc[a] \in Holding => lock = a

\* Every variable keeps its type; whoever holds the lock is working on the file
\* or has died, and without a theft nobody else works on it.
TypeOK == Types /\ LockHeld /\ LockExcludes

\* A change stays in the file until the same key is changed again, although
\* everybody writes the whole file, unless a lock in use was taken over, two
\* processes made the file at once or one died in a write.  The one exception is a
\* setting of which a process has written an earlier change of its own again, for a
\* save writes all that is marked.
UpdatesSurvive ==
    mishaps \subseteq {"lost"} =>
        \A k \in Keys : file[k] = saved[k] \/ (store = "settings" /\ k \in repeated)

\* "Multiple pi instances may try to refresh simultaneously": no token is
\* exchanged twice, for the provider accepts it only once, unless its answer was lost.
ExchangedOnce == mishaps = {} => \A v \in DOMAIN exchanges : exchanges[v] <= 1

=============================================================================
