-------------------------- MODULE LockedStoreProofs --------------------------
(***************************************************************************)
(* Theorems of LockedStore, for any processes, keys and number of          *)
(* operations.                                                             *)
(*                                                                         *)
(* IInv is the inductive invariant.  What a process is about to write over *)
(* is what it has read (Current), because the lock excludes the others     *)
(* (TypeOK).  That a credential is never written twice, and a token is     *)
(* exchanged once, needs that no version comes back (OfCredentials), that  *)
(* none appears that was not written (Known), and that an exchanged token  *)
(* is replaced before the lock is free (ReplacedSoon).                     *)
(***************************************************************************)
EXTENDS LockedStore, TLAPS

Tokens == 1 .. MaxChanges + 1
Async == {"refresh", "createAsync", "lockAsync", "readAsync", "exchange"}
Pending(a) == pc[a] \notin {"idle", "release", "abandon", "dead"}

\* Who was robbed of its lock has none until the operation has ended.
RobbedLetGo ==
    /\ lock \notin robbed
    /\ \A a \in robbed : pc[a] \in {"exchange", "write", "release", "abandon", "dead"}
    /\ "stolen" \notin mishaps => robbed = {}

MissingIsEmpty == ~exists => file = Empty

\* Only what has been written is in the file, is read from it or exchanged.
Known ==
    /\ \A k \in Keys : file[k] \in written \cup {Missing}
    /\ \A a \in Actors : \A k \in Keys : seen[a][k] \in written \cup {Missing}
    /\ \A v \in Tokens : exchanges[v] # 0 => v \in written

\* Only credentials are refreshed, and only settings queued.
OfStore ==
    /\ store = "auth" => \A a \in Actors : queue[a] = <<>>
    /\ store = "settings" => /\ \A a \in Actors : pc[a] \notin Async
                             /\ \A v \in Tokens : exchanges[v] = 0
    /\ \A a \in Actors : pc[a] \in Async => change[a][Token] # Missing

\* Versions are numbered in the order in which the operations start.
Numbered ==
    /\ \A v \in written : v <= changes
    /\ \A a \in Actors : \A k \in Keys : change[a][k] <= changes

\* A change that is pending has not been written.
Fresh ==
    \A a \in Actors : Pending(a) =>
        \A k \in Keys : change[a][k] = Missing \/ change[a][k] \notin written

VersionsDiffer ==
    \A a, b \in Actors : a # b /\ Pending(a) /\ Pending(b) =>
        \A k, l \in Keys : change[a][k] = Missing \/ change[a][k] # change[b][l]

OfCredentials == store = "auth" => Numbered /\ Fresh /\ VersionsDiffer

\* Who is going to write has read what is there, or found no file.
Current ==
    \A a \in Actors : /\ pc[a] = "write" => seen[a] \in {file, Empty}
                      /\ pc[a] = "exchange" => seen[a] = file
                      /\ pc[a] \in {"idle", "change", "lockLate"} => seen[a] = Empty

Kept == \A k \in Keys : file[k] = saved[k] \/ (store = "settings" /\ k \in repeated)

\* A token that was exchanged is gone from the file, or about to be replaced.
ReplacedSoon ==
    \A v \in Tokens : exchanges[v] # 0 =>
        /\ exchanges[v] = 1
        /\ \/ v # file[Token]
           \/ \E a \in Actors : pc[a] = "write" /\ change[a][Token] # Missing /\ seen[a] = file

IInv ==
    /\ TypeOK /\ RobbedLetGo /\ MissingIsEmpty /\ Known /\ OfStore /\ OfCredentials
    /\ mishaps \subseteq {"lost"} => Current /\ Kept
    /\ mishaps = {} => ReplacedSoon

-----------------------------------------------------------------------------
(* Contents, and the parts of IInv that most actions leave alone.           *)

LEMMA EmptyContents ==
  /\ Empty \in Contents /\ \A k \in Keys : Empty[k] = 0
  /\ 0 \in Versions /\ 0 \notin Tokens
BY StoreAssumption DEF Empty, Missing, Versions, Contents, Tokens

\* An actor that may forget its change, and does not take up another.
ChangeKept(c) ==
    \/ change'[c] = Empty
    \/ change'[c] = change[c] /\ (Pending(c)' => Pending(c))

LEMMA NoNewVersion ==
  ASSUME Types, OfCredentials, UNCHANGED <<store, written>>,
         changes' \in Nat, changes <= changes', \A c \in Actors : ChangeKept(c)
  PROVE  OfCredentials'
<1> SUFFICES ASSUME store = "auth" PROVE Numbered' /\ Fresh' /\ VersionsDiffer'
  BY DEF OfCredentials
<1>1. \A c \in Actors : \A k \in Keys :
        \/ change'[c][k] = 0
        \/ change'[c][k] = change[c][k] /\ (Pending(c)' => Pending(c))
  BY EmptyContents DEF ChangeKept
<1>2. /\ changes \in Nat /\ \A v \in written : v \in Nat
      /\ \A c \in Actors : \A k \in Keys : change[c][k] \in Nat
  BY DEF Types, Contents, Versions
<1>3. Numbered'
  BY <1>1, <1>2 DEF OfCredentials, Numbered
<1>4. Fresh'
  BY <1>1 DEF OfCredentials, Fresh, Missing
<1>5. VersionsDiffer'
  <2> SUFFICES ASSUME NEW c \in Actors, NEW d \in Actors, c # d, Pending(c)', Pending(d)',
                      NEW k \in Keys, NEW l \in Keys, change'[c][k] # 0
               PROVE  change'[c][k] # change'[d][l]
    BY DEF VersionsDiffer, Missing
  <2>1. change'[c][k] = change[c][k] /\ Pending(c)
    BY <1>1
  <2>2. CASE change'[d][l] = 0
    BY <2>2
  <2>3. CASE change'[d][l] # 0
    <3>1. change'[d][l] = change[d][l] /\ Pending(d)
      BY <1>1, <2>3
    <3> QED
      BY <2>1, <3>1 DEF OfCredentials, VersionsDiffer, Missing
  <2> QED
    BY <2>2, <2>3
<1> QED
  BY <1>3, <1>4, <1>5

LEMMA NothingNewSeen ==
  ASSUME Known, UNCHANGED <<written, exchanges>>, file' \in {file, Empty},
         \A c \in Actors : seen'[c] \in {seen[c], file, Empty}
  PROVE  Known'
<1>1. \A k \in Keys : file'[k] \in written \cup {Missing}
  BY EmptyContents DEF Known, Missing
<1>2. \A c \in Actors : \A k \in Keys : seen'[c][k] \in written \cup {Missing}
  BY EmptyContents DEF Known, Missing
<1> QED
  BY <1>1, <1>2 DEF Known

-----------------------------------------------------------------------------
(* One lemma for each action.                                               *)

LEMMA CredentialKeeps ==
  ASSUME IInv, NEW a \in Actors, NEW k \in Keys, NEW stage \in {"change", "refresh"},
         store = "auth", stage = "refresh" => k = Token, NewVersion,
         Begin(a, stage, [Empty EXCEPT ![k] = changes + 1]), UNCHANGED queue
  PROVE  IInv'
<1> USE StoreAssumption DEF IInv, TypeOK, NewVersion, Begin, At, Go, disk, local, memory, writes, tokens,
        Stages, Holding, Dead, Slow
<1>1. Types'
  <2>1. [Empty EXCEPT ![k] = changes + 1] \in Contents
    BY EmptyContents DEF Types, Contents, Versions
  <2>2. pc' \in [Actors -> Stages] /\ change' \in [Actors -> Contents]
    BY <2>1 DEF Types
  <2>3. changes' \in 1 .. MaxChanges + 1
    BY DEF Types
  <2> QED
    BY <2>2, <2>3 DEF Types
<1>2. LockHeld' /\ LockExcludes'
  BY DEF Types, LockHeld, LockExcludes, RobbedLetGo
<1>3. RobbedLetGo' /\ MissingIsEmpty'
  BY DEF Types, RobbedLetGo, MissingIsEmpty
<1>4. Known'
  <2>1. file' \in {file, Empty} /\ \A c \in Actors : seen'[c] \in {seen[c], file, Empty}
    BY DEF Types
  <2> QED
    BY <2>1, NothingNewSeen
<1>5. OfStore'
  <2>1. change'[a][k] # Missing
    BY EmptyContents DEF Types, Contents, Missing
  <2> QED
    BY <2>1 DEF Types, OfStore, Async
<1>6. OfCredentials'
  <2>1. /\ changes \in Nat /\ changes' = changes + 1
        /\ \A l \in Keys : change'[a][l] \in {0, changes + 1}
    BY EmptyContents DEF Types, Contents
  <2>2. \A c \in Actors \ {a} : change'[c] = change[c] /\ (Pending(c)' <=> Pending(c))
    BY DEF Types, Pending
  <2>n. Numbered
    BY DEF OfCredentials
  <2>t. /\ \A v \in written : v \in Nat
        /\ \A c \in Actors : \A l \in Keys : change[c][l] \in Nat
    <3>1. written \subseteq Versions /\ change \in [Actors -> Contents]
      BY DEF Types
    <3> HIDE DEF IInv, Begin, NewVersion
    <3> QED
      BY <3>1 DEF Contents, Versions
  <2>3. /\ \A v \in written : v \in Nat /\ v <= changes
        /\ \A c \in Actors : \A l \in Keys : change[c][l] \in Nat /\ change[c][l] <= changes
    BY <2>n, <2>t DEF Numbered
  <2>4. written' = written
    OBVIOUS
  <2>5. Fresh /\ VersionsDiffer
    BY DEF OfCredentials
  <2> HIDE DEF Begin, NewVersion, IInv
  <2>6. Numbered'
    BY <2>1, <2>2, <2>3, <2>4 DEF Numbered
  <2>7. Fresh'
    BY <2>1, <2>2, <2>3, <2>4, <2>5 DEF Fresh, Missing
  <2>8. VersionsDiffer'
    BY <2>1, <2>2, <2>3, <2>5 DEF VersionsDiffer, Missing
  <2> QED
    BY <2>6, <2>7, <2>8 DEF OfCredentials
<1>7. mishaps' \subseteq {"lost"} => Current' /\ Kept'
  BY DEF Types, Current, Kept, LockExcludes
<1>8. mishaps' = {} => ReplacedSoon'
  BY DEF Types, ReplacedSoon, Tokens
<1> QED
  BY <1>1, <1>2, <1>3, <1>4, <1>5, <1>6, <1>7, <1>8

LEMMA ReloadKeeps ==
  ASSUME IInv, NEW a \in Actors, Reload(a)
  PROVE  IInv'
<1> USE StoreAssumption DEF IInv, TypeOK, Reload, NewVersion, Begin, At, Go, disk, local, memory, writes, tokens,
        Stages, Holding, Dead, Slow
<1>1. Types'
  <2>1. Empty \in Contents
    BY EmptyContents
  <2>2. pc' \in [Actors -> Stages] /\ change' \in [Actors -> Contents]
    BY <2>1 DEF Types
  <2>3. changes' \in 1 .. MaxChanges + 1
    BY DEF Types
  <2> QED
    BY <2>2, <2>3 DEF Types
<1>2. LockHeld' /\ LockExcludes'
  BY DEF Types, LockHeld, LockExcludes, RobbedLetGo
<1>3. RobbedLetGo' /\ MissingIsEmpty'
  BY DEF Types, RobbedLetGo, MissingIsEmpty
<1>4. Known'
  <2>1. file' \in {file, Empty} /\ \A c \in Actors : seen'[c] \in {seen[c], file, Empty}
    BY DEF Types
  <2> QED
    BY <2>1, NothingNewSeen
<1>5. OfStore'
  BY DEF Types, OfStore, Async
<1>6. OfCredentials'
  <2>1. \A c \in Actors : ChangeKept(c)
    BY DEF Types, ChangeKept, Pending
  <2>2. changes \in Nat /\ changes' = changes + 1
    BY DEF Types
  <2> QED
    BY <2>1, <2>2, NoNewVersion
<1>7. mishaps' \subseteq {"lost"} => Current' /\ Kept'
  BY DEF Types, Current, Kept, LockExcludes
<1>8. mishaps' = {} => ReplacedSoon'
  BY DEF Types, ReplacedSoon, Tokens
<1> QED
  BY <1>1, <1>2, <1>3, <1>4, <1>5, <1>6, <1>7, <1>8

LEMMA SaveNextKeeps ==
  ASSUME IInv, NEW a \in Actors, SaveNext(a)
  PROVE  IInv'
<1> USE StoreAssumption DEF IInv, TypeOK, SaveNext, Begin, At, Go, disk, local, memory, writes, tokens,
        Stages, Holding, Dead, Slow
<1>1. Types'
  <2>1. queue[a] \in Seq(Contents) /\ queue[a] # <<>>
    BY DEF Types
  <2>2. Head(queue[a]) \in Contents /\ Tail(queue[a]) \in Seq(Contents)
    BY <2>1
  <2>3. pc' \in [Actors -> Stages] /\ change' \in [Actors -> Contents]
    BY <2>2 DEF Types
  <2>4. queue' \in [Actors -> Seq(Contents)]
    BY <2>2 DEF Types
  <2> QED
    BY <2>3, <2>4 DEF Types
<1>2. LockHeld' /\ LockExcludes'
  BY DEF Types, LockHeld, LockExcludes, RobbedLetGo
<1>3. RobbedLetGo' /\ MissingIsEmpty'
  BY DEF Types, RobbedLetGo, MissingIsEmpty
<1>4. Known'
  <2>1. file' \in {file, Empty} /\ \A c \in Actors : seen'[c] \in {seen[c], file, Empty}
    BY DEF Types
  <2> QED
    BY <2>1, NothingNewSeen
<1>5. OfStore'
  <2>1. store = "settings"
    BY DEF Types, OfStore
  <2> QED
    BY <2>1 DEF Types, OfStore, Async
<1>6. OfCredentials'
  BY DEF Types, OfStore, OfCredentials
<1>7. mishaps' \subseteq {"lost"} => Current' /\ Kept'
  BY DEF Types, Current, Kept, LockExcludes
<1>8. mishaps' = {} => ReplacedSoon'
  BY DEF Types, ReplacedSoon, Tokens
<1> QED
  BY <1>1, <1>2, <1>3, <1>4, <1>5, <1>6, <1>7, <1>8

LEMMA SetSettingKeeps ==
  ASSUME IInv, NEW a \in Actors, NEW k \in Keys, SetSetting(a, k)
  PROVE  IInv'
<1> USE StoreAssumption DEF IInv, TypeOK, SetSetting, NewVersion, At, Go, disk, local, memory, writes, tokens,
        Stages, Holding, Dead, Slow
<1>1. Types'
  <2>1. changes + 1 \in Versions /\ changes' \in 1 .. MaxChanges + 1
    BY DEF Types, Versions
  <2>2. [unsaved[a] EXCEPT ![k] = changes + 1] \in Contents
    BY <2>1 DEF Types, Contents
  <2>3. unsaved' \in [Actors -> Contents] /\ unsaved'[a] \in Contents
    BY <2>2 DEF Types
  <2>4. Append(queue[a], unsaved'[a]) \in Seq(Contents)
    BY <2>3 DEF Types
  <2>5. queue' \in [Actors -> Seq(Contents)]
    BY <2>4 DEF Types
  <2> QED
    BY <2>1, <2>3, <2>5 DEF Types
<1>2. LockHeld' /\ LockExcludes'
  BY DEF Types, LockHeld, LockExcludes, RobbedLetGo
<1>3. RobbedLetGo' /\ MissingIsEmpty'
  BY DEF Types, RobbedLetGo, MissingIsEmpty
<1>4. Known'
  <2>1. file' \in {file, Empty} /\ \A c \in Actors : seen'[c] \in {seen[c], file, Empty}
    BY DEF Types
  <2> QED
    BY <2>1, NothingNewSeen
<1>5. OfStore'
  BY DEF Types, OfStore, Async
<1>6. OfCredentials'
  BY DEF OfCredentials
<1>7. mishaps' \subseteq {"lost"} => Current' /\ Kept'
  BY DEF Types, Current, Kept, LockExcludes
<1>8. mishaps' = {} => ReplacedSoon'
  BY DEF Types, ReplacedSoon, Tokens
<1> QED
  BY <1>1, <1>2, <1>3, <1>4, <1>5, <1>6, <1>7, <1>8

LEMMA LookKeeps ==
  ASSUME IInv, NEW a \in Actors, NEW stage \in {"change", "refresh"}, Look(a, stage)
  PROVE  IInv'
<1> USE StoreAssumption DEF IInv, TypeOK, Look, At, Go, disk, local, memory, writes, tokens,
        Stages, Holding, Dead, Slow
<1>1. Types'
  BY EmptyContents DEF Types
<1>2. LockHeld' /\ LockExcludes'
  BY DEF Types, LockHeld, LockExcludes, RobbedLetGo
<1>3. RobbedLetGo' /\ MissingIsEmpty'
  BY DEF Types, RobbedLetGo, MissingIsEmpty
<1>4. Known'
  <2>1. file' \in {file, Empty} /\ \A c \in Actors : seen'[c] \in {seen[c], file, Empty}
    BY DEF Types
  <2> QED
    BY <2>1, NothingNewSeen
<1>5. OfStore'
  BY DEF Types, OfStore, Async
<1>6. OfCredentials'
  <2>1. \A c \in Actors : ChangeKept(c)
    BY DEF Types, ChangeKept, Pending
  <2>2. changes \in Nat /\ changes' = changes
    BY DEF Types
  <2> QED
    BY <2>1, <2>2, NoNewVersion
<1>7. mishaps' \subseteq {"lost"} => Current' /\ Kept'
  BY DEF Types, Current, Kept, LockExcludes
<1>8. mishaps' = {} => ReplacedSoon'
  BY DEF Types, ReplacedSoon, Tokens
<1> QED
  BY <1>1, <1>2, <1>3, <1>4, <1>5, <1>6, <1>7, <1>8

LEMMA LookForSettingsKeeps ==
  ASSUME IInv, NEW a \in Actors, LookForSettings(a)
  PROVE  IInv'
<1> USE StoreAssumption DEF IInv, TypeOK, LookForSettings, End, Reloading, At, Go, disk, local, memory, writes, tokens,
        Stages, Holding, Dead, Slow
<1>1. Types'
  <2>1. pc' \in [Actors -> Stages]
    BY DEF Types
  <2>2. change' \in [Actors -> Contents] /\ seen' \in [Actors -> Contents]
    BY EmptyContents DEF Types
  <2>3. unsaved' \in [Actors -> Contents] /\ unloaded' \subseteq Actors
    BY EmptyContents DEF Types
  <2>4. robbed' \subseteq Actors /\ queue' \in [Actors -> Seq(Contents)]
    BY DEF Types
  <2>5. file' \in Contents /\ mishaps' \subseteq {"stolen", "created", "died", "lost"}
    BY EmptyContents DEF Types
  <2> QED
    BY <2>1, <2>2, <2>3, <2>4, <2>5 DEF Types
<1>2. LockHeld' /\ LockExcludes'
  BY DEF Types, LockHeld, LockExcludes, RobbedLetGo
<1>3. RobbedLetGo' /\ MissingIsEmpty'
  BY DEF Types, RobbedLetGo, MissingIsEmpty
<1>4. Known'
  <2>1. file' \in {file, Empty} /\ \A c \in Actors : seen'[c] \in {seen[c], file, Empty}
    BY DEF Types
  <2> QED
    BY <2>1, NothingNewSeen
<1>5. OfStore'
  BY DEF Types, OfStore, Async
<1>6. OfCredentials'
  <2>1. \A c \in Actors : ChangeKept(c)
    BY DEF Types, ChangeKept, Pending
  <2>2. changes \in Nat /\ changes' = changes
    BY DEF Types
  <2> QED
    BY <2>1, <2>2, NoNewVersion
<1>7. mishaps' \subseteq {"lost"} => Current' /\ Kept'
  BY DEF Types, Current, Kept, LockExcludes
<1>8. mishaps' = {} => ReplacedSoon'
  BY DEF Types, ReplacedSoon, Tokens
<1> QED
  BY <1>1, <1>2, <1>3, <1>4, <1>5, <1>6, <1>7, <1>8

LEMMA CreateKeeps ==
  ASSUME IInv, NEW a \in Actors, Create(a)
  PROVE  IInv'
<1> USE StoreAssumption DEF IInv, TypeOK, Create, At, Go, disk, local, memory, writes, tokens,
        Stages, Holding, Dead, Slow
<1>1. Types'
  <2>1. pc' \in [Actors -> Stages]
    BY DEF Types
  <2>2. change' \in [Actors -> Contents] /\ seen' \in [Actors -> Contents]
    BY EmptyContents DEF Types
  <2>3. unsaved' \in [Actors -> Contents] /\ unloaded' \subseteq Actors
    BY EmptyContents DEF Types
  <2>4. robbed' \subseteq Actors /\ queue' \in [Actors -> Seq(Contents)]
    BY DEF Types
  <2>5. file' \in Contents /\ mishaps' \subseteq {"stolen", "created", "died", "lost"}
    BY EmptyContents DEF Types
  <2> QED
    BY <2>1, <2>2, <2>3, <2>4, <2>5 DEF Types
<1>2. LockHeld' /\ LockExcludes'
  BY DEF Types, LockHeld, LockExcludes, RobbedLetGo
<1>3. RobbedLetGo' /\ MissingIsEmpty'
  BY DEF Types, RobbedLetGo, MissingIsEmpty
<1>4. Known'
  <2>1. file' \in {file, Empty} /\ \A c \in Actors : seen'[c] \in {seen[c], file, Empty}
    BY DEF Types
  <2> QED
    BY <2>1, NothingNewSeen
<1>5. OfStore'
  BY DEF Types, OfStore, Async
<1>6. OfCredentials'
  <2>1. \A c \in Actors : ChangeKept(c)
    BY DEF Types, ChangeKept, Pending
  <2>2. changes \in Nat /\ changes' = changes
    BY DEF Types
  <2> QED
    BY <2>1, <2>2, NoNewVersion
<1>u. mishaps' \subseteq {"lost"} => mishaps' = mishaps /\ file' = file
  BY DEF MissingIsEmpty
<1>7. mishaps' \subseteq {"lost"} => Current' /\ Kept'
  BY <1>u DEF Types, Current, Kept
<1>8. mishaps' = {} => ReplacedSoon'
  BY <1>u DEF Types, ReplacedSoon, Tokens
<1> QED
  BY <1>1, <1>2, <1>3, <1>4, <1>5, <1>6, <1>7, <1>8

LEMMA LockKeeps ==
  ASSUME IInv, NEW a \in Actors, Lock(a)
  PROVE  IInv'
<1> USE StoreAssumption DEF IInv, TypeOK, Lock, At, Go, disk, local, memory, writes, tokens,
        Stages, Holding, Dead, Slow
<1>1. Types'
  BY EmptyContents DEF Types
<1>2. LockHeld' /\ LockExcludes'
  BY DEF Types, LockHeld, LockExcludes, RobbedLetGo
<1>3. RobbedLetGo' /\ MissingIsEmpty'
  BY DEF Types, RobbedLetGo, MissingIsEmpty
<1>4. Known'
  <2>1. file' \in {file, Empty} /\ \A c \in Actors : seen'[c] \in {seen[c], file, Empty}
    BY DEF Types
  <2> QED
    BY <2>1, NothingNewSeen
<1>5. OfStore'
  BY DEF Types, OfStore, Async
<1>6. OfCredentials'
  <2>1. \A c \in Actors : ChangeKept(c)
    BY DEF Types, ChangeKept, Pending
  <2>2. changes \in Nat /\ changes' = changes
    BY DEF Types
  <2> QED
    BY <2>1, <2>2, NoNewVersion
<1>7. mishaps' \subseteq {"lost"} => Current' /\ Kept'
  BY DEF Types, Current, Kept, LockExcludes
<1>8. mishaps' = {} => ReplacedSoon'
  BY DEF Types, ReplacedSoon, Tokens
<1> QED
  BY <1>1, <1>2, <1>3, <1>4, <1>5, <1>6, <1>7, <1>8

LEMMA GiveUpKeeps ==
  ASSUME IInv, NEW a \in Actors, GiveUp(a)
  PROVE  IInv'
<1> USE StoreAssumption DEF IInv, TypeOK, GiveUp, End, Reloading, At, Go, disk, local, memory, writes, tokens,
        Stages, Holding, Dead, Slow
<1>1. Types'
  <2>1. pc' \in [Actors -> Stages]
    BY DEF Types
  <2>2. change' \in [Actors -> Contents] /\ seen' \in [Actors -> Contents]
    BY EmptyContents DEF Types
  <2>3. unsaved' \in [Actors -> Contents] /\ unloaded' \subseteq Actors
    BY EmptyContents DEF Types
  <2>4. robbed' \subseteq Actors /\ queue' \in [Actors -> Seq(Contents)]
    BY DEF Types
  <2>5. file' \in Contents /\ mishaps' \subseteq {"stolen", "created", "died", "lost"}
    BY EmptyContents DEF Types
  <2> QED
    BY <2>1, <2>2, <2>3, <2>4, <2>5 DEF Types
<1>2. LockHeld' /\ LockExcludes'
  BY DEF Types, LockHeld, LockExcludes, RobbedLetGo
<1>3. RobbedLetGo' /\ MissingIsEmpty'
  BY DEF Types, RobbedLetGo, MissingIsEmpty
<1>4. Known'
  <2>1. file' \in {file, Empty} /\ \A c \in Actors : seen'[c] \in {seen[c], file, Empty}
    BY DEF Types
  <2> QED
    BY <2>1, NothingNewSeen
<1>5. OfStore'
  BY DEF Types, OfStore, Async
<1>6. OfCredentials'
  <2>1. \A c \in Actors : ChangeKept(c)
    BY DEF Types, ChangeKept, Pending
  <2>2. changes \in Nat /\ changes' = changes
    BY DEF Types
  <2> QED
    BY <2>1, <2>2, NoNewVersion
<1>7. mishaps' \subseteq {"lost"} => Current' /\ Kept'
  BY DEF Types, Current, Kept, LockExcludes
<1>8. mishaps' = {} => ReplacedSoon'
  BY DEF Types, ReplacedSoon, Tokens
<1> QED
  BY <1>1, <1>2, <1>3, <1>4, <1>5, <1>6, <1>7, <1>8

LEMMA ReadKeeps ==
  ASSUME IInv, NEW a \in Actors, Read(a)
  PROVE  IInv'
<1> USE StoreAssumption DEF IInv, TypeOK, Read, Reloading, At, Go, disk, local, memory, writes, tokens,
        Stages, Holding, Dead, Slow
<1>1. Types'
  BY EmptyContents DEF Types
<1>2. LockHeld' /\ LockExcludes'
  BY DEF Types, LockHeld, LockExcludes, RobbedLetGo
<1>3. RobbedLetGo' /\ MissingIsEmpty'
  BY DEF Types, RobbedLetGo, MissingIsEmpty
<1>4. Known'
  <2>1. file' \in {file, Empty} /\ \A c \in Actors : seen'[c] \in {seen[c], file, Empty}
    BY DEF Types
  <2> QED
    BY <2>1, NothingNewSeen
<1>5. OfStore'
  BY DEF Types, OfStore, Async
<1>6. OfCredentials'
  <2>1. \A c \in Actors : ChangeKept(c)
    BY DEF Types, ChangeKept, Pending
  <2>2. changes \in Nat /\ changes' = changes
    BY DEF Types
  <2> QED
    BY <2>1, <2>2, NoNewVersion
<1>7. mishaps' \subseteq {"lost"} => Current' /\ Kept'
  BY DEF Types, Current, Kept, LockExcludes
<1>8. mishaps' = {} => ReplacedSoon'
  BY DEF Types, ReplacedSoon, Tokens
<1> QED
  BY <1>1, <1>2, <1>3, <1>4, <1>5, <1>6, <1>7, <1>8

LEMMA ReadTokenKeeps ==
  ASSUME IInv, NEW a \in Actors, ReadToken(a)
  PROVE  IInv'
<1> USE StoreAssumption DEF IInv, TypeOK, ReadToken, At, Go, disk, local, memory, writes, tokens,
        Stages, Holding, Dead, Slow
<1>1. Types'
  BY EmptyContents DEF Types
<1>2. LockHeld' /\ LockExcludes'
  BY DEF Types, LockHeld, LockExcludes, RobbedLetGo
<1>3. RobbedLetGo' /\ MissingIsEmpty'
  BY DEF Types, RobbedLetGo, MissingIsEmpty
<1>4. Known'
  <2>1. file' \in {file, Empty} /\ \A c \in Actors : seen'[c] \in {seen[c], file, Empty}
    BY DEF Types
  <2> QED
    BY <2>1, NothingNewSeen
<1>5. OfStore'
  BY DEF Types, OfStore, Async
<1>6. OfCredentials'
  <2>1. \A c \in Actors : ChangeKept(c)
    BY DEF Types, ChangeKept, Pending
  <2>2. changes \in Nat /\ changes' = changes
    BY DEF Types
  <2> QED
    BY <2>1, <2>2, NoNewVersion
<1>7. mishaps' \subseteq {"lost"} => Current' /\ Kept'
  BY DEF Types, Current, Kept, LockExcludes
<1>8. mishaps' = {} => ReplacedSoon'
  BY DEF Types, ReplacedSoon, Tokens
<1> QED
  BY <1>1, <1>2, <1>3, <1>4, <1>5, <1>6, <1>7, <1>8

\* One more exchange of a token.
LEMMA OneMore ==
  ASSUME NEW S, NEW f \in [S -> Nat], NEW x
  PROVE  /\ [f EXCEPT ![x] = @ + 1] \in [S -> Nat]
         /\ \A v \in S : /\ v # x => [f EXCEPT ![x] = @ + 1][v] = f[v]
                         /\ v = x => [f EXCEPT ![x] = @ + 1][v] = f[v] + 1
<1>1. CASE x \in S
  BY <1>1
<1>2. CASE x \notin S
  <2>1. [f EXCEPT ![x] = @ + 1] = f
    BY <1>2
  <2> QED
    BY <1>2, <2>1
<1> QED
  BY <1>1, <1>2

LEMMA ExchangeKeeps ==
  ASSUME IInv, NEW a \in Actors, Exchange(a)
  PROVE  IInv'
<1> USE StoreAssumption DEF IInv, TypeOK, Exchange, At, Go, disk, local, memory, writes, tokens,
        Stages, Holding, Dead, Slow
<1>e. /\ exchanges' \in [Tokens -> Nat]
      /\ \A v \in Tokens : /\ exchanges[v] \in Nat
                           /\ v # seen[a][Token] => exchanges'[v] = exchanges[v]
                           /\ exchanges'[v] \in {exchanges[v], exchanges[v] + 1}
  <2>1. exchanges \in [Tokens -> Nat]
    BY DEF Types, Tokens
  <2>2. \/ exchanges' = exchanges
        \/ exchanges' = [exchanges EXCEPT ![seen[a][Token]] = @ + 1]
    OBVIOUS
  <2> HIDE DEF Exchange
  <2> QED
    BY <2>1, <2>2, OneMore
<1>1. Types'
  <2>1. exchanges' \in [1 .. MaxChanges + 1 -> Nat]
    BY <1>e DEF Tokens
  <2>2. pc' \in [Actors -> Stages] /\ mishaps' \subseteq {"stolen", "created", "died", "lost"}
    BY DEF Types
  <2> QED
    BY <2>1, <2>2 DEF Types
<1>2. LockHeld' /\ LockExcludes'
  BY DEF Types, LockHeld, LockExcludes, RobbedLetGo
<1>3. RobbedLetGo' /\ MissingIsEmpty'
  BY DEF Types, RobbedLetGo, MissingIsEmpty
<1>4. Known'
  <2>1. \A v \in Tokens : exchanges'[v] # 0 => v \in written
    <3>1. seen[a][Token] \in written \cup {0}
      BY DEF Known, Missing
    <3> QED
      BY <1>e, <3>1, EmptyContents DEF Known
  <2>2. UNCHANGED <<file, seen, written>>
    OBVIOUS
  <2> QED
    BY <2>1, <2>2 DEF Known
<1>5. OfStore'
  BY DEF Types, OfStore, Async
<1>6. OfCredentials'
  <2>1. \A c \in Actors : ChangeKept(c)
    BY DEF Types, ChangeKept, Pending
  <2>2. changes \in Nat /\ changes' = changes
    BY DEF Types
  <2> QED
    BY <2>1, <2>2, NoNewVersion
<1>7. mishaps' \subseteq {"lost"} => Current' /\ Kept'
  BY DEF Types, Current, Kept, LockExcludes
<1>8. mishaps' = {} => ReplacedSoon'
  <2> SUFFICES ASSUME mishaps' = {}, NEW v \in Tokens, exchanges'[v] # 0
               PROVE  /\ exchanges'[v] = 1
                      /\ \/ v # file[Token]
                         \/ \E c \in Actors : /\ pc'[c] = "write" /\ change[c][Token] # Missing
                                              /\ seen[c] = file
    BY DEF ReplacedSoon
  <2>1. /\ mishaps = {} /\ seen[a] = file /\ change[a][Token] # Missing
        /\ \A c \in Actors : pc[c] # "write"
    BY DEF Current, Async, OfStore, Types, LockExcludes
  <2>2. v # file[Token] => exchanges[v] # 0 /\ exchanges'[v] = exchanges[v]
    BY <2>1, <1>e
  <2>3. v = file[Token] => exchanges[v] = 0
    BY <2>1 DEF ReplacedSoon
  <2>4. v = file[Token] => exchanges'[v] = 1 /\ pc'[a] = "write"
    <3>1. v = file[Token] => exchanges' # exchanges
      BY <2>3
    <3>2. v = file[Token] => pc'[a] = "write"
      BY <3>1, <2>1 DEF Types
    <3> QED
      BY <3>2, <2>1, <2>3, <1>e
  <2> QED
    BY <2>1, <2>2, <2>4 DEF ReplacedSoon
<1> QED
  BY <1>1, <1>2, <1>3, <1>4, <1>5, <1>6, <1>7, <1>8

LEMMA NoticeKeeps ==
  ASSUME IInv, NEW a \in Actors, Notice(a)
  PROVE  IInv'
<1> USE StoreAssumption DEF IInv, TypeOK, Notice, At, Go, disk, local, memory, writes, tokens,
        Stages, Holding, Dead, Slow
<1>1. Types'
  BY EmptyContents DEF Types
<1>2. LockHeld' /\ LockExcludes'
  BY DEF Types, LockHeld, LockExcludes, RobbedLetGo
<1>3. RobbedLetGo' /\ MissingIsEmpty'
  BY DEF Types, RobbedLetGo, MissingIsEmpty, LockExcludes
<1>4. Known'
  <2>1. file' \in {file, Empty} /\ \A c \in Actors : seen'[c] \in {seen[c], file, Empty}
    BY DEF Types
  <2> QED
    BY <2>1, NothingNewSeen
<1>5. OfStore'
  BY DEF Types, OfStore, Async
<1>6. OfCredentials'
  <2>1. \A c \in Actors : ChangeKept(c)
    BY DEF Types, ChangeKept, Pending
  <2>2. changes \in Nat /\ changes' = changes
    BY DEF Types
  <2> QED
    BY <2>1, <2>2, NoNewVersion
<1>7. mishaps' \subseteq {"lost"} => Current' /\ Kept'
  BY DEF Types, Current, Kept, LockExcludes
<1>8. mishaps' = {} => ReplacedSoon'
  BY DEF Types, ReplacedSoon, Tokens
<1> QED
  BY <1>1, <1>2, <1>3, <1>4, <1>5, <1>6, <1>7, <1>8

LEMMA WriteKeeps ==
  ASSUME IInv, NEW a \in Actors, Write(a)
  PROVE  IInv'
<1> USE StoreAssumption DEF IInv, TypeOK, Write, WriteFile, At, Go, disk, local, memory, writes, tokens,
        Stages, Holding, Dead, Slow
<1>1. Types'
  <2>1. Merged(a) \in Contents /\ {change[a][k] : k \in Changed(a)} \subseteq Versions
    BY DEF Types, Merged, Changed, Contents
  <2>2. file' \in Contents /\ written' \subseteq Versions
    BY <2>1 DEF Types
  <2>3. saved' \in Contents
    <3>1. \A k \in Keys : change[a][k] \in Versions /\ saved[k] \in Versions
      BY DEF Types, Contents
    <3>2. CASE a \in robbed
      BY <3>2 DEF Types
    <3>3. CASE a \notin robbed
      <4>1. saved' = [k \in Keys |-> IF k \in New(a) THEN change[a][k] ELSE saved[k]]
        BY <3>3
      <4> HIDE DEF Write, WriteFile
      <4> QED
        BY <3>1, <4>1 DEF Contents
    <3> QED
      BY <3>2, <3>3
  <2>4. /\ repeated' \subseteq Keys /\ mishaps' \subseteq {"stolen", "created", "died", "lost"}
        /\ exists' \in BOOLEAN /\ pc' \in [Actors -> Stages]
    BY DEF Types, Changed
  <2> QED
    BY <2>2, <2>3, <2>4 DEF Types
<1>2. LockHeld' /\ LockExcludes'
  BY DEF Types, LockHeld, LockExcludes, RobbedLetGo
<1>3. RobbedLetGo' /\ MissingIsEmpty'
  BY DEF Types, RobbedLetGo, MissingIsEmpty
<1>4. Known'
  <2>1. written \subseteq written'
    OBVIOUS
  <2>2. \A k \in Keys : file'[k] \in written' \cup {Missing}
    <3>1. CASE a \in robbed
      BY <3>1 DEF Known
    <3>2. CASE a \notin robbed
      <4>1. ASSUME NEW k \in Keys, change[a][k] # Missing PROVE file'[k] \in written'
        BY <3>2, <4>1 DEF Merged, Changed
      <4>2. ASSUME NEW k \in Keys, change[a][k] = Missing PROVE file'[k] \in written \cup {Missing}
        BY <3>2, <4>2 DEF Merged, Known
      <4> QED
        BY <2>1, <4>1, <4>2
    <3> QED
      BY <3>1, <3>2
  <2>3. UNCHANGED <<seen, exchanges>>
    OBVIOUS
  <2> HIDE DEF Write
  <2> QED
    BY <2>1, <2>2, <2>3 DEF Known
<1>5. OfStore'
  BY DEF Types, OfStore, Async
<1>6. OfCredentials'
  <2>1. /\ \A c \in Actors : Pending(c)' => Pending(c) /\ c # a
        /\ Pending(a) /\ UNCHANGED <<store, change, changes>>
    BY DEF Types, Pending
  <2>2. \A v \in written' : v \in written \/ \E k \in Keys : v = change[a][k]
    BY DEF Changed
  <2> HIDE DEF Write, IInv
  <2> SUFFICES ASSUME store = "auth" PROVE Numbered' /\ Fresh' /\ VersionsDiffer'
    BY <2>1 DEF OfCredentials
  <2>3. Numbered /\ Fresh /\ VersionsDiffer
    BY <2>1 DEF IInv, OfCredentials
  <2>4. Numbered'
    BY <2>1, <2>2, <2>3 DEF Numbered
  <2>5. Fresh'
    BY <2>1, <2>2, <2>3 DEF Fresh, VersionsDiffer
  <2>6. VersionsDiffer'
    BY <2>1, <2>3 DEF VersionsDiffer
  <2> QED
    BY <2>4, <2>5, <2>6
<1>w. ASSUME mishaps' \subseteq {"lost"}
      PROVE  /\ mishaps \subseteq {"lost"} /\ a \notin robbed /\ file' = Merged(a)
             /\ seen[a] = file
             /\ \A c \in Actors \ {a} : pc[c] \notin {"write", "exchange"}
  <2>1. mishaps \subseteq {"lost"} /\ a \notin robbed
    <3>1. mishaps \subseteq {"lost"}
      BY <1>w
    <3>2. "stolen" \notin mishaps
      BY <3>1
    <3> QED
      BY <3>1, <3>2 DEF RobbedLetGo
  <2>2. seen[a] = file
    BY <1>w, <2>1 DEF Current, MissingIsEmpty
  <2> QED
    BY <2>1, <2>2 DEF LockExcludes
<1>f. Pending(a) /\ (store = "auth" => Changed(a) = New(a))
  BY DEF Pending, OfCredentials, Fresh, New, Changed
<1>7. mishaps' \subseteq {"lost"} => Current' /\ Kept'
  <2> SUFFICES ASSUME mishaps' \subseteq {"lost"} PROVE Current' /\ Kept'
    OBVIOUS
  <2>1. Current'
    BY <1>w DEF Types, Current
  <2>2. ASSUME NEW k \in Keys PROVE (file[k] = saved[k] \/ (store = "settings" /\ k \in repeated))'
    <3>1. CASE k \in New(a)
      BY <3>1, <1>w DEF Merged, New, Changed
    <3>2. CASE k \in Changed(a) \ New(a)
      BY <3>2, <1>w, <1>f DEF Types
    <3>3. CASE k \notin Changed(a)
      <4>1. file'[k] = file[k] /\ saved'[k] = saved[k] /\ (k \in repeated' <=> k \in repeated)
        BY <3>3, <1>w DEF Merged, Changed, New
      <4> QED
        BY <4>1, <1>w DEF Kept
    <3> QED
      BY <3>1, <3>2, <3>3
  <2> QED
    BY <2>1, <2>2 DEF Kept
<1>8. mishaps' = {} => ReplacedSoon'
  <2> SUFFICES ASSUME mishaps' = {}, NEW v \in Tokens, exchanges[v] # 0
               PROVE  exchanges[v] = 1 /\ v # file'[Token]
    BY DEF ReplacedSoon
  <2>1. mishaps = {} /\ store = "auth" /\ v \in written
    BY DEF Types, OfStore, Known
  <2>2. file'[Token] = IF change[a][Token] = Missing THEN file[Token] ELSE change[a][Token]
    BY <1>w DEF Merged
  <2>3. change[a][Token] # Missing => v # change[a][Token]
    BY <2>1, <1>f DEF OfCredentials, Fresh
  <2>4. exchanges[v] = 1 /\ (v # file[Token] \/ change[a][Token] # Missing)
    BY <1>w, <2>1 DEF ReplacedSoon
  <2> QED
    BY <2>2, <2>3, <2>4
<1> QED
  BY <1>1, <1>2, <1>3, <1>4, <1>5, <1>6, <1>7, <1>8

LEMMA ReleaseKeeps ==
  ASSUME IInv, NEW a \in Actors, Release(a)
  PROVE  IInv'
<1> USE StoreAssumption DEF IInv, TypeOK, Release, End, Reloading, At, Go, disk, local, memory, writes, tokens,
        Stages, Holding, Dead, Slow
<1>1. Types'
  <2>1. pc' \in [Actors -> Stages]
    BY DEF Types
  <2>2. change' \in [Actors -> Contents] /\ seen' \in [Actors -> Contents]
    BY EmptyContents DEF Types
  <2>3. unsaved' \in [Actors -> Contents] /\ unloaded' \subseteq Actors
    BY EmptyContents DEF Types
  <2>4. robbed' \subseteq Actors /\ queue' \in [Actors -> Seq(Contents)]
    BY DEF Types
  <2>5. file' \in Contents /\ mishaps' \subseteq {"stolen", "created", "died", "lost"}
    BY EmptyContents DEF Types
  <2> QED
    BY <2>1, <2>2, <2>3, <2>4, <2>5 DEF Types
<1>2. LockHeld' /\ LockExcludes'
  BY DEF Types, LockHeld, LockExcludes, RobbedLetGo
<1>3. RobbedLetGo' /\ MissingIsEmpty'
  BY DEF Types, RobbedLetGo, MissingIsEmpty
<1>4. Known'
  <2>1. file' \in {file, Empty} /\ \A c \in Actors : seen'[c] \in {seen[c], file, Empty}
    BY DEF Types
  <2> QED
    BY <2>1, NothingNewSeen
<1>5. OfStore'
  BY DEF Types, OfStore, Async
<1>6. OfCredentials'
  <2>1. \A c \in Actors : ChangeKept(c)
    BY DEF Types, ChangeKept, Pending
  <2>2. changes \in Nat /\ changes' = changes
    BY DEF Types
  <2> QED
    BY <2>1, <2>2, NoNewVersion
<1>7. mishaps' \subseteq {"lost"} => Current' /\ Kept'
  BY DEF Types, Current, Kept, LockExcludes
<1>8. mishaps' = {} => ReplacedSoon'
  BY DEF Types, ReplacedSoon, Tokens
<1> QED
  BY <1>1, <1>2, <1>3, <1>4, <1>5, <1>6, <1>7, <1>8

LEMMA DieKeeps ==
  ASSUME IInv, NEW a \in Actors, Die(a)
  PROVE  IInv'
<1> USE StoreAssumption DEF IInv, TypeOK, Die, At, Go, disk, local, memory, writes, tokens,
        Stages, Holding, Dead, Slow
<1>1. Types'
  <2>1. pc' \in [Actors -> Stages]
    BY DEF Types
  <2>2. change' \in [Actors -> Contents] /\ seen' \in [Actors -> Contents]
    BY EmptyContents DEF Types
  <2>3. unsaved' \in [Actors -> Contents] /\ unloaded' \subseteq Actors
    BY EmptyContents DEF Types
  <2>4. robbed' \subseteq Actors /\ queue' \in [Actors -> Seq(Contents)]
    BY DEF Types
  <2>5. file' \in Contents /\ mishaps' \subseteq {"stolen", "created", "died", "lost"}
    BY EmptyContents DEF Types
  <2> QED
    BY <2>1, <2>2, <2>3, <2>4, <2>5 DEF Types
<1>2. LockHeld' /\ LockExcludes'
  BY DEF Types, LockHeld, LockExcludes, RobbedLetGo
<1>3. RobbedLetGo' /\ MissingIsEmpty'
  BY DEF Types, RobbedLetGo, MissingIsEmpty
<1>4. Known'
  <2>1. file' \in {file, Empty} /\ \A c \in Actors : seen'[c] \in {seen[c], file, Empty}
    BY DEF Types
  <2> QED
    BY <2>1, NothingNewSeen
<1>5. OfStore'
  BY DEF Types, OfStore, Async
<1>6. OfCredentials'
  <2>1. \A c \in Actors : ChangeKept(c)
    BY DEF Types, ChangeKept, Pending
  <2>2. changes \in Nat /\ changes' = changes
    BY DEF Types
  <2> QED
    BY <2>1, <2>2, NoNewVersion
<1>7. mishaps' \subseteq {"lost"} => Current' /\ Kept'
  BY DEF Types, Current, Kept, LockExcludes
<1>8. mishaps' = {} => ReplacedSoon'
  BY DEF Types, ReplacedSoon, Tokens
<1> QED
  BY <1>1, <1>2, <1>3, <1>4, <1>5, <1>6, <1>7, <1>8

LEMMA ExpireKeeps ==
  ASSUME IInv, Expire
  PROVE  IInv'
<1> USE StoreAssumption DEF IInv, TypeOK, Expire, At, Go, disk, local, memory, writes, tokens,
        Stages, Holding, Dead, Slow
<1>1. Types'
  <2>1. 1 .. changes \subseteq 1 .. MaxChanges + 1
    BY DEF Types
  <2> QED
    BY <2>1 DEF Types
<1>2. LockHeld' /\ LockExcludes'
  BY DEF Types, LockHeld, LockExcludes, RobbedLetGo
<1>3. RobbedLetGo' /\ MissingIsEmpty'
  BY DEF Types, RobbedLetGo, MissingIsEmpty
<1>4. Known'
  <2>1. file' \in {file, Empty} /\ \A c \in Actors : seen'[c] \in {seen[c], file, Empty}
    BY DEF Types
  <2> QED
    BY <2>1, NothingNewSeen
<1>5. OfStore'
  BY DEF Types, OfStore, Async
<1>6. OfCredentials'
  <2>1. \A c \in Actors : ChangeKept(c)
    BY DEF Types, ChangeKept, Pending
  <2>2. changes \in Nat /\ changes' = changes
    BY DEF Types
  <2> QED
    BY <2>1, <2>2, NoNewVersion
<1>7. mishaps' \subseteq {"lost"} => Current' /\ Kept'
  BY DEF Types, Current, Kept, LockExcludes
<1>8. mishaps' = {} => ReplacedSoon'
  BY DEF Types, ReplacedSoon, Tokens
<1> QED
  BY <1>1, <1>2, <1>3, <1>4, <1>5, <1>6, <1>7, <1>8

-----------------------------------------------------------------------------
LEMMA InitIInv == Init => IInv
<1> SUFFICES ASSUME Init PROVE IInv
  OBVIOUS
<1> USE StoreAssumption, EmptyContents DEF Init
<1>1. Types
  <2>1. file \in Contents /\ 1 \in Versions
    BY DEF Versions, Contents
  <2>2. exchanges \in [1 .. MaxChanges + 1 -> Nat] /\ changes \in 1 .. MaxChanges + 1
    OBVIOUS
  <2>3. queue \in [Actors -> Seq(Contents)]
    OBVIOUS
  <2> QED
    BY <2>1, <2>2, <2>3 DEF Types, Stages
<1>2. LockHeld /\ LockExcludes
  BY DEF LockHeld, LockExcludes, Holding
<1>3. RobbedLetGo /\ MissingIsEmpty
  BY DEF RobbedLetGo, MissingIsEmpty
<1>4. Known /\ OfStore
  <2>1. \A k \in Keys : file[k] \in {0, 1}
    BY DEF Contents
  <2>2. \A v \in Tokens : exchanges[v] = 0
    BY DEF Tokens
  <2> QED
    BY <2>1, <2>2 DEF Known, OfStore, Async, Missing
<1>5. OfCredentials
  BY DEF OfCredentials, Numbered, Fresh, VersionsDiffer, Pending
<1>6. Current /\ Kept /\ ReplacedSoon
  BY DEF Current, Kept, ReplacedSoon, Tokens
<1> QED
  BY <1>1, <1>2, <1>3, <1>4, <1>5, <1>6 DEF IInv, TypeOK

LEMMA StepIInv == IInv /\ [Next]_vars => IInv'
<1> SUFFICES ASSUME IInv, [Next]_vars PROVE IInv'
  OBVIOUS
<1>1. ASSUME NEW a \in Actors, NEW k \in Keys, SetCredential(a, k) \/ SetSetting(a, k)
      PROVE  IInv'
  <2>1. CASE SetCredential(a, k)
    BY <2>1, CredentialKeeps DEF SetCredential
  <2>2. CASE SetSetting(a, k)
    BY <2>2, SetSettingKeeps
  <2> QED
    BY <1>1, <2>1, <2>2
<1>2. ASSUME NEW a \in Actors, Refresh(a) PROVE IInv'
  BY <1>2, CredentialKeeps, StoreAssumption DEF Refresh
<1>3. ASSUME NEW a \in Actors, Reload(a) \/ SaveNext(a) PROVE IInv'
  BY <1>3, ReloadKeeps, SaveNextKeeps
<1>4. ASSUME NEW a \in Actors, NEW stage \in {"change", "refresh"}, Look(a, stage) PROVE IInv'
  BY <1>4, LookKeeps
<1>5. ASSUME NEW a \in Actors, LookForSettings(a) \/ Create(a) \/ Lock(a) \/ GiveUp(a)
      PROVE  IInv'
  BY <1>5, LookForSettingsKeeps, CreateKeeps, LockKeeps, GiveUpKeeps
<1>6. ASSUME NEW a \in Actors, Read(a) \/ ReadToken(a) \/ Exchange(a) \/ Notice(a) PROVE IInv'
  BY <1>6, ReadKeeps, ReadTokenKeeps, ExchangeKeeps, NoticeKeeps
<1>7. ASSUME NEW a \in Actors, Write(a) \/ Release(a) \/ Die(a) PROVE IInv'
  BY <1>7, WriteKeeps, ReleaseKeeps, DieKeeps
<1>8. CASE Expire
  BY <1>8, ExpireKeeps
<1>9. CASE UNCHANGED vars
  <2> USE <1>9 DEF vars, disk, local, memory, writes, tokens, IInv, TypeOK
  <2>1. Types' /\ LockHeld' /\ LockExcludes'
    BY DEF Types, LockHeld, LockExcludes, Dead, At
  <2>2. RobbedLetGo' /\ MissingIsEmpty' /\ Known' /\ OfStore'
    BY DEF RobbedLetGo, MissingIsEmpty, Known, OfStore
  <2>3. OfCredentials'
    BY DEF OfCredentials, Numbered, Fresh, VersionsDiffer, Pending
  <2>4. /\ mishaps' \subseteq {"lost"} => Current' /\ Kept'
        /\ mishaps' = {} => ReplacedSoon'
    BY DEF Current, Kept, ReplacedSoon
  <2> QED
    BY <2>1, <2>2, <2>3, <2>4
<1> QED
  BY <1>1, <1>2, <1>3, <1>4, <1>5, <1>6, <1>7, <1>8, <1>9 DEF Next

LEMMA AlwaysIInv == Spec => []IInv
BY InitIInv, StepIInv, PTL DEF Spec

\* Every variable keeps its type, the lock has a holder that works or has died,
\* and unless a lock in use is taken over nobody else is in withLock.
THEOREM TypeCorrect == Spec => []TypeOK
<1>1. IInv => TypeOK
  BY DEF IInv
<1> QED
  BY AlwaysIInv, <1>1, PTL

\* However many processes change settings and credentials at once, whatever is still
\* marked or queued in each, the file holds for each key the update last written
\* for the first time, or a setting of which an older one was written again, unless
\* a lock in use was taken over, a file was made twice or a process died in a write.
THEOREM NoLostUpdate == Spec => []UpdatesSurvive
<1>1. IInv => UpdatesSurvive
  BY DEF IInv, Kept, UpdatesSurvive
<1> QED
  BY AlwaysIInv, <1>1, PTL

\* Under the same conditions, and if no answer of the provider is lost, no token is
\* exchanged twice by refreshOAuthTokenWithLock.
THEOREM RefreshedOnce == Spec => []ExchangedOnce
<1>1. IInv => ExchangedOnce
  <2>1. IInv => DOMAIN exchanges = Tokens /\ \A v \in Tokens : exchanges[v] \in Nat
    BY DEF IInv, TypeOK, Types, Tokens
  <2>2. ASSUME IInv, mishaps = {}, NEW v \in Tokens PROVE exchanges[v] <= 1
    <3>1. exchanges[v] = 0 \/ exchanges[v] = 1
      BY <2>2 DEF IInv, ReplacedSoon
    <3> QED
      BY <3>1
  <2> QED
    BY <2>1, <2>2 DEF ExchangedOnce
<1> QED
  BY AlwaysIInv, <1>1, PTL

=============================================================================
