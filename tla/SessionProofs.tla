--------------------------- MODULE SessionProofs ---------------------------
(***************************************************************************)
(* Theorems about sessions, of any size and for any number of processes:   *)
(* those of SessionFile, and behind them those of SessionTree.             *)
(*                                                                         *)
(* IInv is the inductive invariant of the file.  Its parts say where an id *)
(* may be, what a process that has not flushed holds and at which stage it *)
(* is, and how the file looks behind a write that failed.  CreatorIs and   *)
(* HealthyProcs are why SessionIsSaved may excuse a file that another      *)
(* process has created: nobody else finds one without having flushed.      *)
(*                                                                         *)
(* The tree has an inductive invariant for each theorem, and TInv, its     *)
(* types, under all of them.  They speak of every path of the session, not *)
(* only of the one to the leaf: a navigation may choose any of them next.  *)
(***************************************************************************)
EXTENDS SessionFile, SessionTree, SequenceTheorems, FiniteSetTheorems, WellFoundedInduction, TLAPS

\* Every id in memory, in the file or acknowledged has been generated.
Numbered ==
    /\ \A p \in Procs : \A i \in DOMAIN mem[p] : mem[p][i].id < next
    /\ \A i \in DOMAIN file : file[i] \in Entries => file[i].id < next
    /\ \A e \in acked : e.id < next

\* The header is the first line or has been lost.
HeaderFirst == \A i \in DOMAIN file : i > 1 => file[i] \in Entries

\* What a process holds at each stage.
StagesAgree ==
    \A p \in Procs :
        /\ stage[p] # "idle" => ~flushed[p]
        /\ stage[p] \notin {"idle", "create"} => mem[p] = <<>>
        /\ stage[p] # "create" => written[p] = 0

\* Whoever writes has a file to write to.
FileExists ==
    \A p \in Procs : stage[p] \in {"found", "truncated", "create"} \/ flushed[p] => size # "none"

\* A process that has not flushed finds a file only if one has been created.
CreatorIs ==
    /\ creator # {} => size # "none"
    /\ \A p \in Procs : stage[p] = "create" => p \in creator
    /\ \A p \in Procs : stage[p] = "idle" /\ ~flushed[p] /\ size # "none" => creator # {}

\* A line without its newline has not been acknowledged.
OpenIsUnacked == tail = "open" => file # <<>> /\ file[Len(file)] \notin acked

\* What a process has not flushed is its own.
UnflushedIsOwn ==
    \A p \in Procs : ~flushed[p] =>
        /\ \A e \in ToSet(mem[p]) : e \notin acked
        /\ \A q \in Procs : q # p /\ ~flushed[q] => \A e \in ToSet(mem[p]) : e \notin ToSet(mem[q])

\* An entry in a session comes after its parent.
Rooted(s) ==
    \A i \in DOMAIN s : s[i].parent = Null \/ \E j \in 1 .. i - 1 : s[j].id = s[i].parent

UnflushedIsRooted == \A p \in Procs : ~flushed[p] => Rooted(mem[p])

\* The file of a disk that works, if nobody is disturbed.
HealthyFile ==
    healthy /\ calm =>
        /\ tail = "newline"
        /\ size = "some" => ValidSession
        /\ size # "some" => \A p \in Procs : ~flushed[p]
        /\ FlushedIsReadable

\* Its processes.
HealthyProcs ==
    healthy /\ calm =>
        \A p \in Procs : stage[p] = "idle" /\ ~flushed[p] =>
            /\ p \notin creator
            /\ HasAnswer(mem[p]) => size # "none"

IInv ==
    /\ TypeOK /\ Numbered /\ HeaderFirst /\ StagesAgree /\ FileExists /\ CreatorIs
    /\ OpenIsUnacked /\ UnflushedIsOwn /\ UnflushedIsRooted /\ HealthyFile /\ HealthyProcs

-----------------------------------------------------------------------------
(* Sequences and entries.                                                   *)

LEMMA EntryIs ==
  ASSUME NEW id \in Ids, NEW parent \in {Null} \cup Ids, NEW answer \in BOOLEAN
  PROVE  /\ Entry(id, parent, answer) \in Entries
         /\ Entry(id, parent, answer).id = id
         /\ Entry(id, parent, answer).parent = parent
BY DEF Entry, Entries

LEMMA HeaderIsNoEntry == \A h \in Headers : h \notin Entries
BY DEF Header, Headers, Entries

LEMMA ToSetIs ==
  ASSUME NEW S, NEW s \in Seq(S)
  PROVE  ToSet(s) = {s[i] : i \in 1 .. Len(s)} /\ ToSet(s) \subseteq S
BY DEF ToSet

LEMMA ToSetAppend ==
  ASSUME NEW S, NEW s \in Seq(S), NEW e \in S
  PROVE  ToSet(Append(s, e)) = ToSet(s) \cup {e}
<1>1. /\ Append(s, e) \in Seq(S) /\ Len(Append(s, e)) = Len(s) + 1 /\ Len(s) \in Nat
      /\ \A i \in 1 .. Len(s) : Append(s, e)[i] = s[i]
      /\ Append(s, e)[Len(s) + 1] = e
  OBVIOUS
<1>2. /\ ToSet(Append(s, e)) = {Append(s, e)[i] : i \in 1 .. Len(s) + 1}
      /\ ToSet(s) = {s[i] : i \in 1 .. Len(s)}
  BY <1>1, ToSetIs
<1>3. 1 .. Len(s) + 1 = (1 .. Len(s)) \cup {Len(s) + 1}
  BY <1>1
<1> QED
  BY <1>1, <1>2, <1>3

\* What a valid session holds besides its header.
LEMMA LoadedIs ==
  ASSUME NEW S, file \in Seq(S)
  PROVE  ToSet(Loaded) = IF ValidSession THEN {file[i] : i \in 2 .. Len(file)} ELSE {}
<1>1. CASE ~ValidSession
  BY <1>1 DEF Loaded, ToSet
<1>2. CASE ValidSession
  <2>1. file # <<>> /\ Loaded = Tail(file)
    BY <1>2 DEF Loaded, ValidSession
  <2>2. Loaded \in Seq(S) /\ Len(Loaded) = Len(file) - 1 /\ Len(file) \in Nat
    BY <2>1
  <2>3. \A i \in 1 .. Len(file) - 1 : Loaded[i] = file[i + 1]
    BY <2>1
  <2>4. ToSet(Loaded) = {Loaded[i] : i \in 1 .. Len(file) - 1}
    BY <2>2, ToSetIs
  <2>5. {Loaded[i] : i \in 1 .. Len(file) - 1} = {file[i] : i \in 2 .. Len(file)}
    <3>1. ASSUME NEW i \in 2 .. Len(file)
          PROVE  \E j \in 1 .. Len(file) - 1 : file[i] = Loaded[j]
      <4>1. i - 1 \in 1 .. Len(file) - 1 /\ (i - 1) + 1 = i
        BY <2>2
      <4> QED
        BY <2>3, <4>1
    <3>2. ASSUME NEW i \in 1 .. Len(file) - 1
          PROVE  \E j \in 2 .. Len(file) : Loaded[i] = file[j]
      <4>1. i + 1 \in 2 .. Len(file)
        BY <2>2
      <4> QED
        BY <2>3, <4>1
    <3>3. \A i \in 2 .. Len(file) : file[i] \in {Loaded[j] : j \in 1 .. Len(file) - 1}
      BY <3>1
    <3>4. \A i \in 1 .. Len(file) - 1 : Loaded[i] \in {file[j] : j \in 2 .. Len(file)}
      BY <3>2
    <3> QED
      BY <3>3, <3>4, Zenon
  <2> QED
    BY <1>2, <2>4, <2>5
<1> QED
  BY <1>1, <1>2

\* Every session is made of entries.
LEMMA LoadedType ==
  ASSUME file \in Seq(Lines), HeaderFirst
  PROVE  Loaded \in Seq(Entries)
<1>1. CASE ~ValidSession
  BY <1>1 DEF Loaded
<1>2. CASE ValidSession
  <2>1. file # <<>> /\ Loaded = Tail(file)
    BY <1>2 DEF Loaded, ValidSession
  <2>2. Loaded \in Seq(Lines) /\ Len(Loaded) = Len(file) - 1
    BY <2>1
  <2>3. \A i \in 1 .. Len(Loaded) : Loaded[i] \in Entries
    BY <2>1, <2>2 DEF HeaderFirst
  <2> QED
    BY <2>2, <2>3
<1> QED
  BY <1>1, <1>2

-----------------------------------------------------------------------------
(* Opening, closing and branching.                                          *)

LEMMA InitIInv == Init => IInv
<1> SUFFICES ASSUME Init PROVE IInv
  OBVIOUS
<1>1. file = <<>> /\ file \in Seq(Lines) /\ <<>> \in Seq(Entries) /\ ToSet(<<>>) = {} /\ Len(<<>>) = 0
  BY DEF Init, ToSet
<1>2. /\ \A p \in Procs : mem[p] = <<>> /\ ~flushed[p] /\ stage[p] = "closed" /\ written[p] = 0
      /\ acked = {} /\ creator = {} /\ tail = "newline" /\ size # "some"
  BY DEF Init
<1>3. TypeOK
  <2>1. /\ stage \in [Procs -> Stages] /\ mem \in [Procs -> Seq(Entries)] /\ written \in [Procs -> Nat]
        /\ leaf \in [Procs -> {Null} \cup Ids] /\ flushed \in [Procs -> BOOLEAN]
        /\ \A p \in Procs : leaf[p] = Null
    BY <1>1 DEF Init, Stages
  <2> QED
    BY <1>1, <1>2, <2>1, ConfigAssumption DEF Init, TypeOK
<1>4. Numbered /\ HeaderFirst /\ StagesAgree /\ FileExists /\ CreatorIs /\ OpenIsUnacked
  BY <1>1, <1>2 DEF Numbered, HeaderFirst, StagesAgree, FileExists, CreatorIs, OpenIsUnacked
<1>5. UnflushedIsOwn /\ UnflushedIsRooted /\ HealthyFile /\ HealthyProcs
  BY <1>1, <1>2 DEF UnflushedIsOwn, UnflushedIsRooted, Rooted, HealthyFile, FlushedIsReadable, HealthyProcs
<1> QED
  BY <1>3, <1>4, <1>5 DEF IInv

LEMMA LastIdIs ==
  ASSUME NEW s \in Seq(Entries)
  PROVE  LastId(s) \in {Null} \cup Ids /\ LastId(s) \in {Null} \cup {e.id : e \in ToSet(s)}
<1>1. CASE s = <<>>
  BY <1>1 DEF LastId
<1>2. CASE s # <<>>
  <2>1. Len(s) \in 1 .. Len(s) /\ s[Len(s)] \in Entries /\ LastId(s) = s[Len(s)].id
    BY <1>2 DEF LastId
  <2>2. s[Len(s)] \in ToSet(s)
    BY <2>1 DEF ToSet
  <2> QED
    BY <2>1, <2>2 DEF Entries
<1> QED
  BY <1>1, <1>2

\* What a process loads has been numbered.
LEMMA LoadedNumbered ==
  ASSUME IInv
  PROVE  \A i \in DOMAIN Loaded : Loaded[i].id < next
<1>1. file \in Seq(Lines) /\ HeaderFirst /\ Numbered
  BY DEF IInv, TypeOK
<1>2. Loaded \in Seq(Entries)
  BY <1>1, LoadedType
<1>3. ASSUME NEW i \in DOMAIN Loaded PROVE Loaded[i].id < next
  <2>1. Loaded[i] \in ToSet(Loaded) /\ Loaded[i] \in Entries
    BY <1>2 DEF ToSet
  <2>2. \E j \in DOMAIN file : Loaded[i] = file[j]
    BY <1>1, <2>1, LoadedIs
  <2> QED
    BY <1>1, <2>1, <2>2 DEF Numbered
<1> QED
  BY <1>3

\* A step that leaves the disk alone.
LEMMA SameDisk ==
  ASSUME UNCHANGED disk
  PROVE  Loaded' = Loaded /\ ValidSession' = ValidSession
BY DEF disk, Loaded, ValidSession

\* The file is missing or empty: the process has nothing in memory.
LEMMA OpenNothingKeeps ==
  ASSUME IInv, NEW p \in Procs, Open(p), OpenMissing(p) \/ OpenEmpty(p)
  PROVE  IInv'
<1>0. /\ TypeOK /\ Numbered /\ HeaderFirst /\ StagesAgree /\ FileExists /\ CreatorIs
      /\ OpenIsUnacked /\ UnflushedIsOwn /\ UnflushedIsRooted /\ HealthyFile /\ HealthyProcs
  BY DEF IInv
<1>1. /\ stage[p] = "closed" /\ moves < MaxMoves /\ moves' = moves + 1
      /\ UNCHANGED <<disk, written, mem, leaf, flushed, next, creator, acked, healthy, calm>>
  BY DEF Open, OpenMissing, OpenEmpty
<1>2. /\ stage' = [stage EXCEPT ![p] = stage'[p]] /\ \A q \in Procs \ {p} : stage'[q] = stage[q]
      /\ stage'[p] \in Stages
      /\ \/ stage'[p] = "idle" /\ size = "none"
         \/ stage'[p] = "found" /\ size = "zero"
  BY <1>0 DEF OpenMissing, OpenEmpty, TypeOK, Stages
<1>3. mem[p] = <<>> /\ ~flushed[p] /\ written[p] = 0
  BY <1>0, <1>1 DEF StagesAgree
<1>4. Loaded' = Loaded /\ ValidSession' = ValidSession
  BY <1>1, SameDisk
<1>5. TypeOK'
  <2>1. stage' \in [Procs -> Stages]
    BY <1>0, <1>2 DEF TypeOK
  <2>2. moves' \in 0 .. MaxMoves
    BY <1>0, <1>1, ConfigAssumption DEF TypeOK
  <2> QED
    BY <1>0, <1>1, <2>1, <2>2 DEF TypeOK, disk
<1>6. Numbered' /\ HeaderFirst' /\ OpenIsUnacked' /\ UnflushedIsRooted'
  BY <1>0, <1>1 DEF Numbered, HeaderFirst, OpenIsUnacked, UnflushedIsRooted, Rooted, disk
<1>7. UnflushedIsOwn'
  BY <1>0, <1>1 DEF UnflushedIsOwn
<1>8. StagesAgree' /\ FileExists'
  BY <1>0, <1>1, <1>2, <1>3 DEF StagesAgree, FileExists, disk
<1>9. CreatorIs'
  BY <1>0, <1>1, <1>2 DEF CreatorIs, disk
<1>10. HealthyFile'
  BY <1>0, <1>1, <1>4 DEF HealthyFile, FlushedIsReadable, disk
<1>11. HealthyProcs'
  <2>1. stage'[p] = "idle" => p \notin creator /\ ~HasAnswer(mem[p])
    BY <1>0, <1>2, <1>3 DEF CreatorIs, HasAnswer
  <2> QED
    BY <1>0, <1>1, <1>2, <2>1 DEF HealthyProcs, HasAnswer, disk
<1> QED
  BY <1>5, <1>6, <1>7, <1>8, <1>9, <1>10, <1>11 DEF IInv

\* The process loads the session.
LEMMA OpenSessionKeeps ==
  ASSUME IInv, NEW p \in Procs, Open(p), OpenSession(p)
  PROVE  IInv'
<1>0. /\ TypeOK /\ Numbered /\ HeaderFirst /\ StagesAgree /\ FileExists /\ CreatorIs
      /\ OpenIsUnacked /\ UnflushedIsOwn /\ UnflushedIsRooted /\ HealthyFile /\ HealthyProcs
  BY DEF IInv
<1>1. /\ stage[p] = "closed" /\ moves < MaxMoves /\ moves' = moves + 1
      /\ mem' = [mem EXCEPT ![p] = Loaded] /\ leaf' = [leaf EXCEPT ![p] = LastId(Loaded)]
      /\ flushed' = [flushed EXCEPT ![p] = TRUE] /\ stage' = [stage EXCEPT ![p] = "idle"]
      /\ UNCHANGED <<disk, written, next, creator, acked, healthy, calm>> /\ ValidSession
  BY DEF Open, OpenSession
<1>2. Loaded \in Seq(Entries) /\ \A i \in DOMAIN Loaded : Loaded[i].id < next
  BY <1>0, LoadedType, LoadedNumbered DEF TypeOK
<1>3. LastId(Loaded) \in {Null} \cup Ids /\ LastId(Loaded) \in {Null} \cup {e.id : e \in ToSet(Loaded)}
  BY <1>2, LastIdIs
<1>4. /\ mem' \in [Procs -> Seq(Entries)] /\ mem'[p] = Loaded
      /\ leaf' \in [Procs -> {Null} \cup Ids] /\ leaf'[p] = LastId(Loaded)
      /\ flushed' \in [Procs -> BOOLEAN] /\ flushed'[p]
      /\ stage' \in [Procs -> Stages] /\ stage'[p] = "idle"
  BY <1>0, <1>1, <1>2, <1>3 DEF TypeOK, Stages
<1>5. \A q \in Procs \ {p} : /\ mem'[q] = mem[q] /\ leaf'[q] = leaf[q]
                              /\ flushed'[q] = flushed[q] /\ stage'[q] = stage[q]
  BY <1>0, <1>1 DEF TypeOK
<1>6. /\ Loaded' = Loaded /\ ValidSession' = ValidSession /\ written[p] = 0 /\ size = "some"
      /\ Len(Loaded) \in Nat
  BY <1>0, <1>1, <1>2, SameDisk DEF StagesAgree, ValidSession, TypeOK
<1>7. TypeOK'
  <2>1. \A q \in Procs : leaf'[q] \in {Null} \cup {e.id : e \in ToSet(mem'[q])}
    BY <1>0, <1>3, <1>4, <1>5 DEF TypeOK
  <2>2. \A q \in Procs : written'[q] <= Len(mem'[q])
    BY <1>0, <1>1, <1>4, <1>5, <1>6 DEF TypeOK
  <2>3. moves' \in 0 .. MaxMoves
    BY <1>0, <1>1, ConfigAssumption DEF TypeOK
  <2> QED
    BY <1>0, <1>1, <1>4, <2>1, <2>2, <2>3 DEF TypeOK, disk
<1>8. Numbered'
  <2>1. \A q \in Procs : \A i \in DOMAIN mem'[q] : mem'[q][i].id < next
    BY <1>0, <1>2, <1>4, <1>5 DEF Numbered
  <2> QED
    BY <1>0, <1>1, <2>1 DEF Numbered, disk
<1>9. HeaderFirst' /\ OpenIsUnacked'
  BY <1>0, <1>1 DEF HeaderFirst, OpenIsUnacked, disk
<1>10. StagesAgree' /\ FileExists' /\ CreatorIs'
  BY <1>0, <1>1, <1>4, <1>5, <1>6 DEF StagesAgree, FileExists, CreatorIs, disk
<1>11. UnflushedIsOwn' /\ UnflushedIsRooted'
  <2>1. \A q \in Procs : ~flushed'[q] => ~flushed[q] /\ mem'[q] = mem[q]
    BY <1>4, <1>5
  <2>2. acked' = acked
    BY <1>1
  <2>3. UnflushedIsOwn'
    BY <1>0, <2>1, <2>2 DEF UnflushedIsOwn
  <2>4. UnflushedIsRooted'
    BY <1>0, <2>1 DEF UnflushedIsRooted, Rooted
  <2> QED
    BY <2>3, <2>4
<1>12. HealthyFile' /\ HealthyProcs'
  BY <1>0, <1>1, <1>4, <1>5, <1>6 DEF HealthyFile, FlushedIsReadable, HealthyProcs, HasAnswer, disk
<1> QED
  BY <1>7, <1>8, <1>9, <1>10, <1>11, <1>12 DEF IInv

LEMMA OpenKeeps ==
  ASSUME IInv, NEW p \in Procs, Open(p)
  PROVE  IInv'
BY OpenNothingKeeps, OpenSessionKeeps DEF Open

LEMMA CloseKeeps ==
  ASSUME IInv, NEW p \in Procs, Close(p)
  PROVE  IInv'
<1>0. /\ TypeOK /\ Numbered /\ HeaderFirst /\ StagesAgree /\ FileExists /\ CreatorIs
      /\ OpenIsUnacked /\ UnflushedIsOwn /\ UnflushedIsRooted /\ HealthyFile /\ HealthyProcs
  BY DEF IInv
<1>1. /\ mem' = [mem EXCEPT ![p] = <<>>] /\ leaf' = [leaf EXCEPT ![p] = Null]
      /\ flushed' = [flushed EXCEPT ![p] = FALSE] /\ stage' = [stage EXCEPT ![p] = "closed"]
      /\ written' = [written EXCEPT ![p] = 0]
      /\ UNCHANGED <<disk, next, creator, acked, moves, healthy, calm>>
  BY DEF Close
<1>2. /\ mem'[p] = <<>> /\ leaf'[p] = Null /\ ~flushed'[p] /\ stage'[p] = "closed" /\ written'[p] = 0
      /\ \A q \in Procs \ {p} : /\ mem'[q] = mem[q] /\ leaf'[q] = leaf[q] /\ written'[q] = written[q]
                                /\ flushed'[q] = flushed[q] /\ stage'[q] = stage[q]
      /\ Loaded' = Loaded /\ ValidSession' = ValidSession
  BY <1>0, <1>1, SameDisk DEF TypeOK
<1>3. ToSet(<<>>) = {} /\ Len(<<>>) = 0 /\ <<>> \in Seq(Entries)
  BY DEF ToSet
<1>4. TypeOK'
  <2>1. \A q \in Procs : leaf'[q] \in {Null} \cup {e.id : e \in ToSet(mem'[q])}
    BY <1>0, <1>2 DEF TypeOK
  <2>2. /\ mem' \in [Procs -> Seq(Entries)] /\ leaf' \in [Procs -> {Null} \cup Ids]
        /\ stage' \in [Procs -> Stages] /\ written' \in [Procs -> Nat] /\ flushed' \in [Procs -> BOOLEAN]
    BY <1>0, <1>1, <1>3 DEF TypeOK, Stages
  <2>3. written'[p] <= Len(mem'[p]) /\ \A q \in Procs \ {p} : written'[q] <= Len(mem'[q])
    BY <1>0, <1>2, <1>3 DEF TypeOK
  <2> QED
    BY <1>0, <1>1, <2>1, <2>2, <2>3 DEF TypeOK, disk
<1>5. Numbered'
  <2>1. \A q \in Procs : \A i \in DOMAIN mem'[q] : mem'[q][i].id < next
    BY <1>0, <1>2 DEF Numbered
  <2> QED
    BY <1>0, <1>1, <2>1 DEF Numbered, disk
<1>6. HeaderFirst' /\ OpenIsUnacked'
  BY <1>0, <1>1 DEF HeaderFirst, OpenIsUnacked, disk
<1>7. StagesAgree' /\ FileExists' /\ CreatorIs'
  BY <1>0, <1>1, <1>2 DEF StagesAgree, FileExists, CreatorIs, disk
<1>8. UnflushedIsOwn'
  BY <1>0, <1>1, <1>2, <1>3 DEF UnflushedIsOwn
<1>9. UnflushedIsRooted'
  BY <1>0, <1>2 DEF UnflushedIsRooted, Rooted
<1>10. HealthyFile'
  BY <1>0, <1>1, <1>2 DEF HealthyFile, FlushedIsReadable, disk
<1>11. HealthyProcs'
  BY <1>0, <1>1, <1>2 DEF HealthyProcs, HasAnswer, disk
<1> QED
  BY <1>4, <1>5, <1>6, <1>7, <1>8, <1>9, <1>10, <1>11 DEF IInv

LEMMA BranchKeeps ==
  ASSUME IInv, NEW p \in Procs, NEW id \in {Null} \cup Ids, Branch(p, id)
  PROVE  IInv'
<1>0. /\ TypeOK /\ Numbered /\ HeaderFirst /\ StagesAgree /\ FileExists /\ CreatorIs
      /\ OpenIsUnacked /\ UnflushedIsOwn /\ UnflushedIsRooted /\ HealthyFile /\ HealthyProcs
  BY DEF IInv
<1>1. /\ leaf' = [leaf EXCEPT ![p] = id] /\ moves < MaxMoves /\ moves' = moves + 1
      /\ UNCHANGED <<disk, stage, written, mem, flushed, next, creator, acked, healthy, calm>>
  BY DEF Branch
<1>2. id \in {Null} \cup {e.id : e \in ToSet(mem[p])}
  BY DEF Branch, ToSet
<1>3. Loaded' = Loaded /\ ValidSession' = ValidSession
  BY <1>1, SameDisk
<1>4. TypeOK'
  <2>1. \A q \in Procs : leaf'[q] \in {Null} \cup {e.id : e \in ToSet(mem'[q])}
    BY <1>0, <1>1, <1>2 DEF TypeOK
  <2>2. leaf' \in [Procs -> {Null} \cup Ids] /\ moves' \in 0 .. MaxMoves
    BY <1>0, <1>1, ConfigAssumption DEF TypeOK
  <2> QED
    BY <1>0, <1>1, <2>1, <2>2 DEF TypeOK, disk
<1>5. Numbered' /\ HeaderFirst' /\ OpenIsUnacked' /\ StagesAgree' /\ FileExists' /\ CreatorIs'
  BY <1>0, <1>1 DEF Numbered, HeaderFirst, OpenIsUnacked, StagesAgree, FileExists, CreatorIs, disk
<1>6. UnflushedIsOwn' /\ UnflushedIsRooted'
  BY <1>0, <1>1 DEF UnflushedIsOwn, UnflushedIsRooted, Rooted
<1>7. HealthyFile' /\ HealthyProcs'
  BY <1>0, <1>1, <1>3 DEF HealthyFile, FlushedIsReadable, HealthyProcs, HasAnswer, disk
<1> QED
  BY <1>4, <1>5, <1>6, <1>7 DEF IInv

-----------------------------------------------------------------------------
(* Appending.                                                               *)

New(p, answer) == Entry(next, leaf[p], answer)

\* What an append of e does to the memory of p.
Remembers(p, e) ==
    /\ e \in Entries /\ e.id = next /\ e.parent = leaf[p]
    /\ mem' \in [Procs -> Seq(Entries)] /\ mem'[p] = Append(mem[p], e)
    /\ Len(mem'[p]) = Len(mem[p]) + 1
    /\ leaf' \in [Procs -> {Null} \cup Ids] /\ leaf'[p] = next
    /\ \A q \in Procs \ {p} : mem'[q] = mem[q] /\ leaf'[q] = leaf[q]
    /\ ToSet(mem'[p]) = ToSet(mem[p]) \cup {e}
    /\ next' = next + 1 /\ next' \in 1 .. MaxEntries + 1
    /\ UNCHANGED <<written, flushed, moves, healthy, calm>> /\ stage[p] = "idle"

LEMMA Remembered ==
  ASSUME IInv, NEW p \in Procs, NEW answer \in BOOLEAN, AppendEntry(p, answer)
  PROVE  Remembers(p, New(p, answer))
<1> DEFINE e == New(p, answer)
<1>1. /\ TypeOK /\ next \in Ids /\ leaf[p] \in {Null} \cup Ids
  BY ConfigAssumption DEF IInv, TypeOK, AppendEntry, Ids
<1>2. e \in Entries /\ e.id = next /\ e.parent = leaf[p]
  BY <1>1, EntryIs DEF New
<1>3. /\ mem' = [mem EXCEPT ![p] = Append(mem[p], e)] /\ leaf' = [leaf EXCEPT ![p] = next]
      /\ next' = next + 1 /\ UNCHANGED <<written, flushed, moves, healthy, calm>> /\ stage[p] = "idle"
  BY DEF AppendEntry, New
<1> HIDE DEF e
<1>4. mem[p] \in Seq(Entries) /\ Append(mem[p], e) \in Seq(Entries)
  BY <1>1, <1>2 DEF TypeOK
<1>5. ToSet(Append(mem[p], e)) = ToSet(mem[p]) \cup {e}
  BY <1>2, <1>4, ToSetAppend
<1>6. /\ mem' \in [Procs -> Seq(Entries)] /\ mem'[p] = Append(mem[p], e)
      /\ leaf' \in [Procs -> {Null} \cup Ids] /\ leaf'[p] = next
      /\ \A q \in Procs \ {p} : mem'[q] = mem[q] /\ leaf'[q] = leaf[q]
      /\ Len(mem'[p]) = Len(mem[p]) + 1
  BY <1>1, <1>2, <1>3, <1>4 DEF TypeOK
<1>7. next' \in 1 .. MaxEntries + 1
  BY <1>1, <1>3, ConfigAssumption DEF Ids
<1> QED
  BY <1>2, <1>3, <1>5, <1>6, <1>7 DEF e, Remembers

\* Nobody has e.
IsNew(e) ==
    /\ \A q \in Procs : e \notin ToSet(mem[q])
    /\ \A i \in DOMAIN file : file[i] # e
    /\ e \notin acked

LEMMA NewIsNew ==
  ASSUME IInv, NEW p \in Procs, NEW answer \in BOOLEAN, AppendEntry(p, answer)
  PROVE  IsNew(New(p, answer))
<1>1. New(p, answer).id = next /\ New(p, answer) \in Entries
  <2>1. Remembers(p, New(p, answer))
    BY Remembered
  <2> QED
    BY <2>1 DEF Remembers
<1>2. Numbered /\ next \in Nat
  BY DEF IInv, TypeOK
<1> QED
  BY <1>1, <1>2 DEF Numbered, ToSet, IsNew

\* The types of what an append does not write.
LEMMA AppendTypes ==
  ASSUME IInv, NEW p \in Procs, NEW answer \in BOOLEAN, AppendEntry(p, answer),
         size' \in {"none", "zero", "some"}, size' # "some" => file' = <<>>,
         file' \in Seq(Lines), tail' \in {"newline", "open", "torn"},
         stage' \in [Procs -> Stages], creator' \subseteq Procs, acked' \subseteq Entries
  PROVE  TypeOK'
<1>1. Remembers(p, New(p, answer))
  BY Remembered
<1>2. TypeOK
  BY DEF IInv
<1>3. \A q \in Procs : leaf'[q] \in {Null} \cup {e.id : e \in ToSet(mem'[q])}
  <2>1. \A q \in Procs \ {p} : leaf'[q] \in {Null} \cup {e.id : e \in ToSet(mem'[q])}
    BY <1>1, <1>2 DEF TypeOK, Remembers
  <2>2. New(p, answer) \in ToSet(mem'[p]) /\ New(p, answer).id = next /\ leaf'[p] = next
    BY <1>1 DEF Remembers
  <2> QED
    BY <2>1, <2>2
<1>4. written' \in [Procs -> Nat] /\ \A q \in Procs : written'[q] <= Len(mem'[q])
  <2>1. Len(mem[p]) \in Nat
    BY <1>2 DEF TypeOK
  <2>2. written'[p] <= Len(mem'[p])
    BY <1>1, <1>2, <2>1 DEF TypeOK, Remembers
  <2> QED
    BY <1>1, <1>2, <2>2 DEF TypeOK, Remembers
<1>5. /\ mem' \in [Procs -> Seq(Entries)] /\ leaf' \in [Procs -> {Null} \cup Ids]
      /\ next' \in 1 .. MaxEntries + 1 /\ UNCHANGED <<flushed, moves, healthy, calm>>
  BY <1>1 DEF Remembers
<1> QED
  BY <1>2, <1>3, <1>4, <1>5 DEF TypeOK

\* Ids stay below the next one if only the new entry is written.
LEMMA AppendNumbered ==
  ASSUME IInv, NEW p \in Procs, NEW answer \in BOOLEAN, AppendEntry(p, answer),
         \A i \in DOMAIN file' : (\E j \in DOMAIN file : file'[i] = file[j]) \/ file'[i] = New(p, answer),
         acked' \subseteq acked \cup {New(p, answer)}
  PROVE  Numbered'
<1>1. Numbered /\ next \in Nat /\ \A q \in Procs : mem[q] \in Seq(Entries)
  BY DEF IInv, TypeOK
<1>2. /\ New(p, answer).id = next /\ next' = next + 1 /\ New(p, answer) \in Entries
      /\ ToSet(mem'[p]) = ToSet(mem[p]) \cup {New(p, answer)}
      /\ \A q \in Procs \ {p} : mem'[q] = mem[q]
  <2>1. Remembers(p, New(p, answer))
    BY Remembered
  <2> QED
    BY <2>1 DEF Remembers
<1>3. ASSUME NEW q \in Procs, NEW i \in DOMAIN mem'[q] PROVE mem'[q][i].id < next'
  <2>1. mem'[q][i] \in ToSet(mem'[q])
    BY DEF ToSet
  <2>2. mem'[q][i] \in ToSet(mem[q]) \cup {New(p, answer)}
    BY <1>2, <2>1
  <2>3. \A e \in ToSet(mem[q]) : e.id < next /\ e \in Entries
    BY <1>1 DEF Numbered, ToSet
  <2> QED
    BY <1>1, <1>2, <2>2, <2>3 DEF Entries, Ids
<1>4. \A i \in DOMAIN file' : file'[i] \in Entries => file'[i].id < next'
  BY <1>1, <1>2 DEF Numbered, Entries, Ids
<1>5. \A e \in acked' : e.id < next'
  <2>1. \A e \in acked : e \in Entries /\ e.id < next
    BY <1>1 DEF Numbered, IInv, TypeOK
  <2> QED
    BY <1>1, <1>2, <2>1 DEF Entries, Ids
<1> QED
  BY <1>3, <1>4, <1>5 DEF Numbered

\* The new entry comes after its parent.
LEMMA AppendRooted ==
  ASSUME IInv, NEW p \in Procs, NEW answer \in BOOLEAN, AppendEntry(p, answer),
         Rooted(mem[p])
  PROVE  Rooted(mem'[p])
<1> DEFINE e == New(p, answer)
<1>1. e.parent = leaf[p] /\ mem'[p] = Append(mem[p], e)
  <2>1. Remembers(p, New(p, answer))
    BY Remembered
  <2> QED
    BY <2>1 DEF Remembers
<1>2. mem[p] \in Seq(Entries) /\ leaf[p] \in {Null} \cup {x.id : x \in ToSet(mem[p])}
  BY DEF IInv, TypeOK
<1> HIDE DEF e
<1>3. leaf[p] = Null \/ \E j \in 1 .. Len(mem[p]) : mem[p][j].id = leaf[p]
  BY <1>2, ToSetIs
<1>4. /\ Len(mem'[p]) = Len(mem[p]) + 1 /\ Len(mem[p]) \in Nat
      /\ \A i \in 1 .. Len(mem[p]) : mem'[p][i] = mem[p][i]
      /\ mem'[p][Len(mem[p]) + 1] = e
      /\ DOMAIN mem'[p] = 1 .. Len(mem[p]) + 1 /\ DOMAIN mem[p] = 1 .. Len(mem[p])
  BY <1>1, <1>2
<1>5. ASSUME NEW i \in 1 .. Len(mem[p])
      PROVE  mem'[p][i].parent = Null \/ \E j \in 1 .. i - 1 : mem'[p][j].id = mem'[p][i].parent
  <2>1. mem[p][i].parent = Null \/ \E j \in 1 .. i - 1 : mem[p][j].id = mem[p][i].parent
    BY <1>4, <1>5 DEF Rooted
  <2>2. \A j \in 1 .. i - 1 : mem'[p][j] = mem[p][j]
    BY <1>4
  <2> QED
    BY <1>4, <2>1, <2>2
<1>6. e.parent = Null \/ \E j \in 1 .. Len(mem[p]) : mem'[p][j].id = e.parent
  BY <1>1, <1>3, <1>4
<1>7. ASSUME NEW i \in DOMAIN mem'[p]
      PROVE  mem'[p][i].parent = Null \/ \E j \in 1 .. i - 1 : mem'[p][j].id = mem'[p][i].parent
  <2>1. CASE i \in 1 .. Len(mem[p])
    BY <1>5, <2>1
  <2>2. CASE i = Len(mem[p]) + 1
    <3>1. i - 1 = Len(mem[p]) /\ mem'[p][i] = e
      BY <1>4, <2>2
    <3> QED
      BY <1>6, <3>1
  <2> QED
    BY <1>4, <2>1, <2>2
<1> QED
  BY <1>7 DEF Rooted

\* What an append keeps of what has not been flushed.
LEMMA AppendUnflushed ==
  ASSUME IInv, NEW p \in Procs, NEW answer \in BOOLEAN, AppendEntry(p, answer),
         acked' = acked \/ (flushed[p] /\ acked' = acked \cup {New(p, answer)})
  PROVE  UnflushedIsOwn' /\ UnflushedIsRooted'
<1> DEFINE e == New(p, answer)
<1>1. /\ ToSet(mem'[p]) = ToSet(mem[p]) \cup {e} /\ flushed' = flushed
      /\ \A q \in Procs \ {p} : mem'[q] = mem[q]
      /\ \A q \in Procs : e \notin ToSet(mem[q])
      /\ e \notin acked
  <2>1. Remembers(p, New(p, answer)) /\ IsNew(New(p, answer))
    BY Remembered, NewIsNew
  <2> QED
    BY <2>1 DEF Remembers, IsNew
<1>2. UnflushedIsOwn /\ UnflushedIsRooted
  BY DEF IInv
<1>3. acked' = acked \/ (flushed[p] /\ acked' = acked \cup {e})
  OBVIOUS
<1> HIDE DEF e
<1>4. ASSUME NEW q \in Procs, ~flushed'[q]
      PROVE  /\ \A x \in ToSet(mem'[q]) : x \notin acked'
             /\ \A r \in Procs : r # q /\ ~flushed'[r] =>
                    \A x \in ToSet(mem'[q]) : x \notin ToSet(mem'[r])
  <2>1. /\ \A x \in ToSet(mem[q]) : x \notin acked
        /\ \A r \in Procs : r # q /\ ~flushed[r] => \A x \in ToSet(mem[q]) : x \notin ToSet(mem[r])
    BY <1>1, <1>2, <1>4 DEF UnflushedIsOwn
  <2>2. CASE q = p
    <3>1. acked' = acked
      BY <1>1, <1>3, <1>4, <2>2
    <3>2. \A x \in ToSet(mem'[q]) : x \in ToSet(mem[q]) \/ x = e
      BY <1>1, <2>2
    <3>3. \A r \in Procs : r # q => mem'[r] = mem[r]
      BY <1>1, <2>2
    <3> QED
      BY <1>1, <2>1, <3>1, <3>2, <3>3
  <2>3. CASE q # p
    <3>1. mem'[q] = mem[q] /\ e \notin ToSet(mem[q])
      BY <1>1, <2>3
    <3>2. \A x \in ToSet(mem'[q]) : x \notin acked'
      BY <1>3, <2>1, <3>1
    <3>3. \A r \in Procs : \A x \in ToSet(mem'[r]) : x \in ToSet(mem[r]) \/ x = e
      BY <1>1
    <3> QED
      BY <1>1, <2>1, <3>1, <3>2, <3>3
  <2> QED
    BY <2>2, <2>3
<1>5. UnflushedIsOwn'
  BY <1>4 DEF UnflushedIsOwn
<1>6. Rooted(mem[p]) => Rooted(mem'[p])
  BY AppendRooted
<1>7. UnflushedIsRooted'
  BY <1>1, <1>2, <1>6 DEF UnflushedIsRooted, Rooted
<1> QED
  BY <1>5, <1>7

-----------------------------------------------------------------------------
(* What a write does to the file.                                           *)

\* What stays of the lines: all but an unfinished last one.
LEMMA ClosedIs ==
  ASSUME IInv
  PROVE  /\ Closed \in Seq(Lines)
         /\ \A i \in DOMAIN Closed : i \in DOMAIN file /\ Closed[i] = file[i]
         /\ \A i \in 1 .. Len(file) :
                i < Len(file) \/ tail # "open" => i \in DOMAIN Closed /\ Closed[i] = file[i]
<1>1. file \in Seq(Lines) /\ (tail = "open" => file # <<>>)
  BY DEF IInv, TypeOK, OpenIsUnacked
<1>2. CASE tail # "open"
  BY <1>1, <1>2 DEF Closed
<1>3. CASE tail = "open"
  <2>1. Closed = SubSeq(file, 1, Len(file) - 1) /\ Len(file) \in Nat
    BY <1>1, <1>3 DEF Closed, Front
  <2>2. Len(file) - 1 \in Nat /\ \A i \in 1 .. Len(file) - 1 : file[i] \in Lines
    BY <1>1, <1>3
  <2>3. /\ Closed \in Seq(Lines)
        /\ Len(Closed) = IF 1 <= Len(file) - 1 THEN Len(file) - 1 - 1 + 1 ELSE 0
        /\ \A i \in 1 .. Len(file) - 1 - 1 + 1 : Closed[i] = file[1 + i - 1]
    BY <2>1, <2>2, SubSeqProperties
  <2>4. /\ DOMAIN Closed = 1 .. Len(file) - 1
        /\ \A i \in 1 .. Len(file) - 1 : Closed[i] = file[i]
    BY <2>2, <2>3
  <2>5. \A i \in 1 .. Len(file) : i < Len(file) => i \in 1 .. Len(file) - 1
    BY <1>1
  <2>6. \A i \in 1 .. Len(file) - 1 : i \in DOMAIN file
    BY <1>1
  <2> QED
    BY <1>3, <2>3, <2>4, <2>5, <2>6
<1> QED
  BY <1>2, <1>3

LEMMA GluedIs ==
  ASSUME IInv, NEW e \in Lines
  PROVE  /\ Glued(e) \in Seq(Lines)
         /\ \A i \in DOMAIN Glued(e) :
                \/ i \in DOMAIN file /\ Glued(e)[i] = file[i]
                \/ i = Len(file) + 1 /\ Glued(e)[i] = e
         /\ tail = "newline" => /\ Glued(e) = Append(file, e) /\ Len(Glued(e)) = Len(file) + 1
                                /\ Glued(e)[Len(Glued(e))] = e
<1>1. file \in Seq(Lines)
  BY DEF IInv, TypeOK
<1>2. CASE tail = "newline"
  BY <1>1, <1>2 DEF Glued
<1>3. CASE tail # "newline"
  BY <1>3, ClosedIs DEF Glued
<1> QED
  BY <1>2, <1>3

\* A line is appended to a file that has been written to the end.
LEMMA GluedLoads ==
  ASSUME IInv, NEW e \in Entries, tail = "newline", file' = Glued(e), ValidSession
  PROVE  ValidSession' /\ Loaded' = Append(Loaded, e) /\ ToSet(Loaded') = ToSet(Loaded) \cup {e}
<1>1. file \in Seq(Lines) /\ e \in Lines /\ HeaderFirst
  BY DEF IInv, TypeOK, Lines
<1>2. file' = Append(file, e) /\ file # <<>> /\ Head(file) \in Headers
  BY DEF Glued, ValidSession
<1>3. file' # <<>> /\ Head(file') = Head(file) /\ Tail(file') = Append(Tail(file), e)
  BY <1>1, <1>2, HeadTailAppend
<1>4. ValidSession' /\ Loaded' = Append(Loaded, e)
  BY <1>2, <1>3 DEF ValidSession, Loaded
<1>5. Loaded \in Seq(Entries)
  BY <1>1, LoadedType
<1> QED
  BY <1>4, <1>5, ToSetAppend

\* The lines behind a write: those that were there, and the new one.
Follows(line) ==
    /\ file' \in Seq(Lines) /\ HeaderFirst'
    /\ \A i \in DOMAIN file' : (\E j \in DOMAIN file : file'[i] = file[j]) \/ file'[i] = line

LEMMA LineIsLast ==
  ASSUME IInv, NEW line \in Lines, line \in Entries \/ file = <<>>, file' = Glued(line)
  PROVE  Follows(line)
<1>1. file \in Seq(Lines) /\ HeaderFirst
  BY DEF IInv, TypeOK
<1>2. /\ file' \in Seq(Lines)
      /\ \A i \in DOMAIN file' : \/ i \in DOMAIN file /\ file'[i] = file[i]
                                 \/ i = Len(file) + 1 /\ file'[i] = line
  BY GluedIs
<1>3. \A i \in DOMAIN file' : (\E j \in DOMAIN file : file'[i] = file[j]) \/ file'[i] = line
  BY <1>2
<1>4. HeaderFirst'
  <2>1. CASE line \in Entries
    BY <1>1, <1>2, <2>1 DEF HeaderFirst
  <2>2. CASE file = <<>>
    <3>1. Len(file) = 0 /\ DOMAIN file = {}
      BY <2>2
    <3> QED
      BY <1>2, <3>1 DEF HeaderFirst
  <2> QED
    BY <2>1, <2>2
<1> QED
  BY <1>2, <1>3, <1>4 DEF Follows

LEMMA LineBreaksOff ==
  ASSUME IInv, NEW line \in Lines, line \in Entries \/ file = <<>>, line \notin acked,
         BreakOff(line), acked' = acked
  PROVE  /\ Follows(line) /\ OpenIsUnacked'
         /\ size' \in {size, "some"} /\ (size' # "some" => file' = <<>>)
         /\ tail' \in {"newline", "open", "torn"}
<1>1. TypeOK /\ HeaderFirst /\ OpenIsUnacked
  BY DEF IInv
<1>2. CASE UNCHANGED disk
  BY <1>1, <1>2 DEF disk, TypeOK, HeaderFirst, OpenIsUnacked, Follows
<1>3. CASE size' = "some" /\ file' = Closed /\ tail' = "torn"
  <2>1. file' \in Seq(Lines) /\ \A i \in DOMAIN file' : i \in DOMAIN file /\ file'[i] = file[i]
    BY <1>3, ClosedIs
  <2> QED
    BY <1>1, <1>3, <2>1 DEF HeaderFirst, OpenIsUnacked, Follows
<1>4. CASE /\ size' = "some" /\ file' = Glued(line)
           /\ tail' = IF tail = "newline" THEN "open" ELSE "torn"
  <2>1. Follows(line)
    BY <1>4, LineIsLast
  <2>2. tail = "newline" => file' # <<>> /\ file'[Len(file')] = line
    <3>1. tail = "newline" => Len(Glued(line)) = Len(file) + 1 /\ Glued(line)[Len(Glued(line))] = line
      BY GluedIs
    <3> QED
      BY <1>1, <1>4, <3>1 DEF TypeOK
  <2> QED
    BY <1>4, <2>1, <2>2 DEF OpenIsUnacked
<1> QED
  BY <1>2, <1>3, <1>4 DEF BreakOff

-----------------------------------------------------------------------------
(* What an append does to the invariant.                                    *)

\* The line is written.
LEMMA WrittenKeeps ==
  ASSUME IInv, NEW p \in Procs, NEW answer \in BOOLEAN, AppendEntry(p, answer),
         flushed[p], UNCHANGED <<stage, creator>>,
         size' = "some", file' = Glued(New(p, answer)), tail' = "newline",
         acked' = acked \cup {New(p, answer)}
  PROVE  IInv'
<1> DEFINE e == New(p, answer)
<1>0. /\ TypeOK /\ StagesAgree /\ FileExists /\ CreatorIs /\ HealthyFile /\ HealthyProcs
      /\ healthy \in BOOLEAN /\ calm \in BOOLEAN
  BY DEF IInv, TypeOK
<1>1. /\ e \in Entries /\ ToSet(mem'[p]) = ToSet(mem[p]) \cup {e}
      /\ UNCHANGED <<written, flushed, healthy, calm>> /\ stage[p] = "idle"
      /\ \A q \in Procs \ {p} : mem'[q] = mem[q]
  <2>1. Remembers(p, New(p, answer))
    BY Remembered
  <2> QED
    BY <2>1 DEF Remembers
<1>2. size # "none"
  BY <1>0 DEF FileExists
<1> HIDE DEF e
<1>3. file' = Glued(e) /\ acked' = acked \cup {e} /\ e \in Lines
  BY <1>1 DEF e, Lines
<1>4. Follows(e)
  BY <1>1, <1>3, LineIsLast
<1>5. TypeOK'
  <2>1. acked' \subseteq Entries /\ file' \in Seq(Lines)
    BY <1>0, <1>1, <1>3, <1>4 DEF TypeOK, Follows
  <2> QED
    BY <1>0, <2>1, AppendTypes DEF TypeOK
<1>6. Numbered'
  BY <1>3, <1>4, AppendNumbered DEF Follows, e
<1>7. HeaderFirst' /\ OpenIsUnacked'
  BY <1>4 DEF Follows, OpenIsUnacked
<1>8. StagesAgree' /\ FileExists' /\ CreatorIs'
  BY <1>0, <1>1, <1>2 DEF StagesAgree, FileExists, CreatorIs
<1>9. UnflushedIsOwn' /\ UnflushedIsRooted'
  BY AppendUnflushed
<1>10. HealthyFile'
  <2>1. SUFFICES ASSUME healthy, calm PROVE HealthyFile'
    BY <1>1 DEF HealthyFile
  <2>2. /\ tail = "newline" /\ ValidSession
        /\ \A q \in Procs : flushed[q] => ToSet(mem[q]) \subseteq ToSet(Loaded)
    BY <1>0, <2>1 DEF HealthyFile, FlushedIsReadable
  <2>3. ValidSession' /\ ToSet(Loaded') = ToSet(Loaded) \cup {e}
    BY <1>1, <1>3, <2>2, GluedLoads
  <2>4. \A q \in Procs : flushed'[q] => ToSet(mem'[q]) \subseteq ToSet(Loaded')
    BY <1>1, <2>2, <2>3
  <2> QED
    BY <2>3, <2>4 DEF HealthyFile, FlushedIsReadable
<1>11. HealthyProcs'
  <2>1. \A q \in Procs : ~flushed'[q] => mem'[q] = mem[q] /\ ~flushed[q]
    BY <1>1
  <2> QED
    BY <1>0, <1>1, <2>1 DEF HealthyProcs, HasAnswer
<1> QED
  BY <1>5, <1>6, <1>7, <1>8, <1>9, <1>10, <1>11 DEF IInv

\* The line is not written, or not in full.
LEMMA FailedKeeps ==
  ASSUME IInv, NEW p \in Procs, NEW answer \in BOOLEAN, AppendEntry(p, answer),
         flushed[p], UNCHANGED <<stage, creator, acked>>, ~healthy, BreakOff(New(p, answer))
  PROVE  IInv'
<1> DEFINE e == New(p, answer)
<1>0. TypeOK /\ StagesAgree /\ FileExists /\ CreatorIs
  BY DEF IInv
<1>1. /\ e \in Entries /\ e \notin acked /\ stage[p] = "idle"
      /\ UNCHANGED <<written, flushed, healthy, calm>>
      /\ \A q \in Procs \ {p} : mem'[q] = mem[q]
  <2>1. Remembers(p, New(p, answer)) /\ IsNew(New(p, answer))
    BY Remembered, NewIsNew
  <2> QED
    BY <2>1 DEF Remembers, IsNew
<1>2. size # "none"
  BY <1>0 DEF FileExists
<1> HIDE DEF e
<1>3. /\ Follows(e) /\ OpenIsUnacked'
      /\ size' \in {size, "some"} /\ (size' # "some" => file' = <<>>)
      /\ tail' \in {"newline", "open", "torn"}
  <2>1. e \in Lines /\ BreakOff(e)
    BY <1>1 DEF Lines, e
  <2> QED
    BY <1>1, <2>1, LineBreaksOff
<1>4. TypeOK'
  BY <1>0, <1>3, AppendTypes DEF TypeOK, Follows
<1>5. Numbered'
  BY <1>3, AppendNumbered DEF Follows, e
<1>6. StagesAgree' /\ FileExists' /\ CreatorIs' /\ HeaderFirst'
  BY <1>0, <1>1, <1>2, <1>3 DEF StagesAgree, FileExists, CreatorIs, Follows
<1>7. UnflushedIsOwn' /\ UnflushedIsRooted'
  BY AppendUnflushed
<1>8. HealthyFile' /\ HealthyProcs'
  BY <1>1 DEF HealthyFile, HealthyProcs
<1> QED
  BY <1>3, <1>4, <1>5, <1>6, <1>7, <1>8 DEF IInv

\* The file is created.
LEMMA CreatedKeeps ==
  ASSUME IInv, NEW p \in Procs, NEW answer \in BOOLEAN, AppendEntry(p, answer),
         ~flushed[p], size = "none", size' = "zero", UNCHANGED <<file, tail, acked>>,
         stage' = [stage EXCEPT ![p] = "create"], creator' = {p}
  PROVE  IInv'
<1>0. /\ TypeOK /\ HeaderFirst /\ OpenIsUnacked /\ StagesAgree /\ FileExists /\ CreatorIs /\ HealthyFile
      /\ HealthyProcs
  BY DEF IInv
<1>1. /\ UNCHANGED <<written, flushed, healthy, calm>> /\ \A q \in Procs \ {p} : mem'[q] = mem[q]
  <2>1. Remembers(p, New(p, answer))
    BY Remembered
  <2> QED
    BY <2>1 DEF Remembers
<1>2. /\ stage' \in [Procs -> Stages] /\ stage'[p] = "create" /\ \A q \in Procs \ {p} : stage'[q] = stage[q]
  BY <1>0 DEF TypeOK, Stages
<1>3. \A q \in Procs : stage[q] # "create" /\ ~flushed[q]
  BY <1>0 DEF FileExists
<1>4. TypeOK'
  BY <1>0, <1>2, AppendTypes DEF TypeOK
<1>5. Numbered'
  BY AppendNumbered
<1>6. HeaderFirst' /\ OpenIsUnacked'
  BY <1>0 DEF HeaderFirst, OpenIsUnacked
<1>7. StagesAgree' /\ FileExists' /\ CreatorIs'
  BY <1>0, <1>1, <1>2, <1>3 DEF StagesAgree, FileExists, CreatorIs
<1>8. UnflushedIsOwn' /\ UnflushedIsRooted'
  BY AppendUnflushed
<1>9. HealthyFile' /\ HealthyProcs'
  BY <1>0, <1>1, <1>2, <1>3 DEF HealthyFile, HealthyProcs, FlushedIsReadable
<1> QED
  BY <1>4, <1>5, <1>6, <1>7, <1>8, <1>9 DEF IInv

\* Nothing is written: there is no answer yet, or no file can be created.
LEMMA HeldBackKeeps ==
  ASSUME IInv, NEW p \in Procs, NEW answer \in BOOLEAN, AppendEntry(p, answer),
         ~flushed[p], UNCHANGED <<disk, stage, creator, acked>>,
         HasAnswer(mem'[p]) => size # "none" \/ ~healthy
  PROVE  IInv'
<1>0. /\ TypeOK /\ HeaderFirst /\ OpenIsUnacked /\ StagesAgree /\ FileExists /\ CreatorIs /\ HealthyFile
      /\ HealthyProcs
  BY DEF IInv
<1>1. /\ UNCHANGED <<written, flushed, healthy, calm>> /\ \A q \in Procs \ {p} : mem'[q] = mem[q]
      /\ stage[p] = "idle"
  <2>1. Remembers(p, New(p, answer))
    BY Remembered
  <2> QED
    BY <2>1 DEF Remembers
<1>2. TypeOK'
  BY <1>0, AppendTypes DEF TypeOK, disk
<1>3. Numbered'
  BY AppendNumbered DEF disk
<1>4. HeaderFirst' /\ OpenIsUnacked' /\ StagesAgree' /\ FileExists' /\ CreatorIs'
  BY <1>0, <1>1 DEF HeaderFirst, OpenIsUnacked, StagesAgree, FileExists, CreatorIs, disk
<1>5. UnflushedIsOwn' /\ UnflushedIsRooted'
  BY AppendUnflushed
<1>6. Loaded' = Loaded /\ ValidSession' = ValidSession /\ tail' = tail /\ size' = size
  BY SameDisk DEF disk
<1>7. HealthyFile'
  <2>1. \A q \in Procs : flushed'[q] => flushed[q] /\ mem'[q] = mem[q]
    BY <1>1
  <2> QED
    BY <1>0, <1>1, <1>6, <2>1 DEF HealthyFile, FlushedIsReadable
<1>8. HealthyProcs'
  BY <1>0, <1>1, <1>6 DEF HealthyProcs, HasAnswer
<1> QED
  BY <1>2, <1>3, <1>4, <1>5, <1>7, <1>8 DEF IInv

LEMMA AppendEntryKeeps ==
  ASSUME IInv, NEW p \in Procs, NEW answer \in BOOLEAN, AppendEntry(p, answer)
  PROVE  IInv'
<1> DEFINE e == New(p, answer)
           session == Append(mem[p], e)
<1>1. Persist(p, e, session) /\ mem'[p] = session
  <2>1. Remembers(p, New(p, answer))
    BY Remembered
  <2> QED
    BY <2>1 DEF AppendEntry, New, Remembers
<1>2. CASE flushed[p]
  <2>1. WriteLine(e) /\ UNCHANGED <<stage, creator>>
    BY <1>1, <1>2 DEF Persist
  <2> QED
    BY <1>2, <2>1, WrittenKeeps, FailedKeeps DEF WriteLine
<1>3. CASE ~flushed[p] /\ HasAnswer(session)
  <2>1. CreateFile(p) /\ UNCHANGED acked
    BY <1>1, <1>3 DEF Persist
  <2> QED
    BY <1>1, <1>3, <2>1, CreatedKeeps, HeldBackKeeps DEF CreateFile
<1>4. CASE ~flushed[p] /\ ~HasAnswer(session)
  <2>1. UNCHANGED <<disk, stage, creator, acked>>
    BY <1>1, <1>4 DEF Persist
  <2> QED
    BY <1>1, <1>4, <2>1, HeldBackKeeps
<1> QED
  BY <1>2, <1>3, <1>4

-----------------------------------------------------------------------------
(* Creating the file.                                                       *)

LEMMA TruncateKeeps ==
  ASSUME IInv, NEW p \in Procs, Truncate(p)
  PROVE  IInv'
<1>0. /\ TypeOK /\ Numbered /\ HeaderFirst /\ StagesAgree /\ FileExists /\ CreatorIs
      /\ UnflushedIsOwn /\ UnflushedIsRooted /\ HealthyFile /\ HealthyProcs
  BY DEF IInv
<1>1. /\ stage[p] = "found" /\ stage' = [stage EXCEPT ![p] = "truncated"]
      /\ size' = "zero" /\ file' = <<>> /\ tail' = "newline"
      /\ UNCHANGED <<written, mem, leaf, flushed, next, creator, acked, moves, healthy, calm>>
  BY DEF Truncate
<1>2. /\ stage' \in [Procs -> Stages] /\ stage'[p] = "truncated"
      /\ \A q \in Procs \ {p} : stage'[q] = stage[q]
  BY <1>0, <1>1 DEF TypeOK, Stages
<1>3. file' \in Seq(Lines) /\ DOMAIN file' = {}
  BY <1>1
<1>4. TypeOK'
  BY <1>0, <1>1, <1>2, <1>3 DEF TypeOK
<1>5. Numbered' /\ HeaderFirst' /\ OpenIsUnacked'
  BY <1>0, <1>1, <1>3 DEF Numbered, HeaderFirst, OpenIsUnacked
<1>6. StagesAgree' /\ FileExists' /\ CreatorIs'
  BY <1>0, <1>1, <1>2 DEF StagesAgree, FileExists, CreatorIs
<1>7. UnflushedIsOwn' /\ UnflushedIsRooted'
  BY <1>0, <1>1 DEF UnflushedIsOwn, UnflushedIsRooted, Rooted
<1>8. HealthyFile'
  <2>1. ASSUME healthy, calm PROVE \A q \in Procs : ~flushed[q]
    <3>1. size = "zero"
      BY <1>0, <1>1, <2>1 DEF Truncate, AsLeft, StagesAgree
    <3> QED
      BY <1>0, <2>1, <3>1 DEF HealthyFile
  <2> QED
    BY <1>1, <2>1 DEF HealthyFile, FlushedIsReadable
<1>9. HealthyProcs'
  <2>1. size # "none"
    BY <1>0, <1>1 DEF FileExists
  <2> QED
    BY <1>0, <1>1, <1>2, <2>1 DEF HealthyProcs, HasAnswer
<1> QED
  BY <1>4, <1>5, <1>6, <1>7, <1>8, <1>9 DEF IInv

\* The line that p writes next.
NextLine(p) == Session(p)[written[p] + 1]

\* The lines of a session in full.
LEMMA SessionIs ==
  ASSUME NEW p \in Procs, mem[p] \in Seq(Entries)
  PROVE  /\ Session(p) \in Seq(Lines) /\ Len(Session(p)) = Len(mem[p]) + 1
         /\ Session(p)[1] = Header(p)
         /\ \A i \in 2 .. Len(mem[p]) + 1 : Session(p)[i] = mem[p][i - 1]
<1> DEFINE h == <<Header(p)>>
<1>1. h \in Seq(Lines) /\ mem[p] \in Seq(Lines) /\ Len(h) = 1 /\ h[1] = Header(p)
  BY DEF Lines, Headers
<1>2. Session(p) = h \o mem[p]
  BY DEF Session
<1> HIDE DEF h
<1>3. /\ h \o mem[p] \in Seq(Lines) /\ Len(h \o mem[p]) = Len(h) + Len(mem[p])
      /\ \A i \in 1 .. Len(h) + Len(mem[p]) :
            (h \o mem[p])[i] = IF i <= Len(h) THEN h[i] ELSE mem[p][i - Len(h)]
  BY <1>1, ConcatProperties
<1>4. Len(mem[p]) \in Nat
  BY <1>1
<1> QED
  BY <1>1, <1>2, <1>3, <1>4

LEMMA NextLineIs ==
  ASSUME IInv, NEW p \in Procs, stage[p] \in {"truncated", "create"}
  PROVE  /\ NextLine(p) \in Lines /\ NextLine(p) \notin acked
         /\ written[p] = 0 => NextLine(p) = Header(p)
         /\ written[p] > 0 => /\ written[p] \in 1 .. Len(mem[p]) /\ NextLine(p) = mem[p][written[p]]
                              /\ NextLine(p) \in Entries /\ NextLine(p) \in ToSet(mem[p])
                              /\ NextLine(p).id < next
         /\ AsLeft(p) => NextLine(p) \in Entries \/ file = <<>>
<1>1. /\ mem[p] \in Seq(Entries) /\ written[p] \in Nat /\ written[p] <= Len(mem[p]) /\ ~flushed[p]
      /\ acked \subseteq Entries /\ Len(mem[p]) \in Nat
  BY DEF IInv, TypeOK, StagesAgree
<1>2. /\ Session(p) \in Seq(Lines) /\ Len(Session(p)) = Len(mem[p]) + 1
      /\ Session(p)[1] = Header(p)
      /\ \A i \in 2 .. Len(mem[p]) + 1 : Session(p)[i] = mem[p][i - 1]
  BY <1>1, SessionIs
<1>3. CASE written[p] = 0
  <2>1. NextLine(p) = Header(p)
    BY <1>2, <1>3 DEF NextLine
  <2>2. Header(p) \in Headers
    BY DEF Headers
  <2>3. AsLeft(p) => file = <<>>
    BY <1>2, <1>3 DEF AsLeft
  <2> QED
    BY <1>1, <1>3, <2>1, <2>2, <2>3, HeaderIsNoEntry DEF Lines
<1>4. CASE written[p] > 0
  <2>1. written[p] \in 1 .. Len(mem[p]) /\ NextLine(p) = mem[p][written[p]]
    BY <1>1, <1>2, <1>4 DEF NextLine
  <2>2. NextLine(p) \in Entries /\ NextLine(p) \in ToSet(mem[p])
    BY <1>1, <2>1 DEF ToSet
  <2>3. NextLine(p).id < next
    BY <1>1, <2>1 DEF IInv, Numbered
  <2>4. NextLine(p) \notin acked
    BY <1>1, <2>2 DEF IInv, UnflushedIsOwn
  <2> QED
    BY <1>4, <2>1, <2>2, <2>3, <2>4 DEF Lines
<1> QED
  BY <1>1, <1>3, <1>4

\* A line that goes elsewhere is a line of the file, and no second header.
LEMMA MisplacedFollows ==
  ASSUME IInv, NEW line \in Lines, Misplace(line)
  PROVE  Follows(line)
<1>1. file \in Seq(Lines)
  BY DEF IInv, TypeOK
<1>2. PICK new \in {<<>>, <<line>>}, k \in 0 .. Len(file), m \in 0 .. Len(file) :
        /\ file' = SubSeq(file, 1, k) \o new \o SubSeq(file, m + 1, Len(file))
        /\ \A i \in DOMAIN file' : file'[i] \in Headers => i = 1
  <2>1. \A k \in 0 .. Len(file) : \A m \in k .. Len(file) : m \in 0 .. Len(file)
    BY <1>1
  <2> QED
    BY <2>1 DEF Misplace
<1> DEFINE all == {file[j] : j \in DOMAIN file} \cup {line}
<1>3. file \in Seq(all)
  BY <1>1
<1>4. SubSeq(file, 1, k) \in Seq(all) /\ SubSeq(file, m + 1, Len(file)) \in Seq(all) /\ new \in Seq(all)
  <2>1. \A i \in 1 .. k : file[i] \in all
    BY <1>3
  <2>2. \A i \in m + 1 .. Len(file) : file[i] \in all
    BY <1>3
  <2>3. k \in Int /\ m + 1 \in Int /\ Len(file) \in Int /\ 1 \in Int
    BY <1>1
  <2>4. SubSeq(file, 1, k) \in Seq(all)
    BY <2>1, <2>3, SubSeqProperties
  <2>5. SubSeq(file, m + 1, Len(file)) \in Seq(all)
    BY <2>2, <2>3, SubSeqProperties
  <2>6. new \in Seq(all)
    <3>1. line \in all
      OBVIOUS
    <3> HIDE DEF all
    <3>2. <<line>> \in Seq(all) /\ <<>> \in Seq(all)
      BY <3>1
    <3> QED
      BY <3>2
  <2> QED
    BY <2>4, <2>5, <2>6
<1>5. file' \in Seq(all)
  BY <1>2, <1>4, ConcatProperties
<1>6. \A i \in DOMAIN file' : file'[i] \in all
  BY <1>5
<1>7. all \subseteq Lines
  BY <1>1
<1>8. file' \in Seq(Lines)
  BY <1>5, <1>7
<1>9. HeaderFirst'
  <2>1. \A i \in DOMAIN file' : file'[i] \in Entries \/ file'[i] \in Headers
    BY <1>6, <1>7 DEF Lines
  <2>2. \A i \in DOMAIN file' : file'[i] \in Headers => i = 1
    BY <1>2, Zenon
  <2> QED
    BY <2>1, <2>2 DEF HeaderFirst
<1> QED
  BY <1>6, <1>8, <1>9 DEF Follows


\* p writes its next line: to the end, or elsewhere if others have been there.
Writes(p) ==
    /\ stage[p] \in {"truncated", "create"} /\ (calm => AsLeft(p))
    /\ IF AsLeft(p) THEN file' = Glued(NextLine(p)) ELSE Misplace(NextLine(p))
    /\ size' = "some" /\ tail' = "newline"
    /\ UNCHANGED <<mem, leaf, next, creator, moves, healthy, calm>>

LEMMA WritesFollows ==
  ASSUME IInv, NEW p \in Procs, Writes(p)
  PROVE  /\ Follows(NextLine(p)) /\ OpenIsUnacked'
         /\ \A i \in DOMAIN file' : file'[i] \in Entries => file'[i].id < next
<1>1. /\ NextLine(p) \in Lines /\ (NextLine(p) \in Entries => NextLine(p).id < next)
      /\ AsLeft(p) => NextLine(p) \in Entries \/ file = <<>>
  <2>1. stage[p] \in {"truncated", "create"} /\ written[p] \in Nat
    BY DEF Writes, IInv, TypeOK
  <2>2. written[p] = 0 => NextLine(p) \notin Entries
    <3>1. Header(p) \in Headers
      BY DEF Headers
    <3> QED
      BY <2>1, <3>1, NextLineIs, HeaderIsNoEntry
  <2> QED
    BY <2>1, <2>2, NextLineIs
<1>2. Follows(NextLine(p))
  <2>1. CASE AsLeft(p)
    <3>1. file' = Glued(NextLine(p))
      BY <2>1 DEF Writes
    <3> QED
      BY <1>1, <2>1, <3>1, LineIsLast
  <2>2. CASE ~AsLeft(p)
    <3>1. Misplace(NextLine(p))
      BY <2>2 DEF Writes
    <3> QED
      BY <1>1, <3>1, MisplacedFollows
  <2> QED
    BY <2>1, <2>2
<1>3. OpenIsUnacked'
  BY DEF Writes, OpenIsUnacked
<1>4. ASSUME NEW i \in DOMAIN file', file'[i] \in Entries PROVE file'[i].id < next
  <2>1. (\E j \in DOMAIN file : file'[i] = file[j]) \/ file'[i] = NextLine(p)
    BY <1>2 DEF Follows
  <2>2. \A j \in DOMAIN file : file[j] \in Entries => file[j].id < next
    BY DEF IInv, Numbered
  <2> QED
    BY <1>1, <1>4, <2>1, <2>2
<1> QED
  BY <1>2, <1>3, <1>4

\* A file that has been left alone holds the session up to the last line written.
LEMMA LeftIs ==
  ASSUME IInv, NEW p \in Procs, AsLeft(p), written[p] > 0
  PROVE  /\ ValidSession /\ Loaded \in Seq(Entries) /\ Len(Loaded) = written[p] - 1
         /\ \A j \in 1 .. written[p] - 1 : Loaded[j] = mem[p][j]
<1>0. /\ mem[p] \in Seq(Entries) /\ written[p] \in Nat /\ written[p] <= Len(mem[p])
      /\ Len(mem[p]) \in Nat /\ file \in Seq(Lines) /\ HeaderFirst
  BY DEF IInv, TypeOK
<1>1. /\ Session(p) \in Seq(Lines) /\ Len(Session(p)) = Len(mem[p]) + 1
      /\ Session(p)[1] = Header(p)
      /\ \A i \in 2 .. Len(mem[p]) + 1 : Session(p)[i] = mem[p][i - 1]
  BY <1>0, SessionIs
<1>2. Len(file) = written[p] /\ \A i \in 1 .. written[p] : file[i] = Session(p)[i]
  <2>1. \A i \in 1 .. written[p] : Session(p)[i] \in Lines
    BY <1>0, <1>1
  <2>2. file = SubSeq(Session(p), 1, written[p])
    BY DEF AsLeft
  <2>3. 1 \in Int /\ written[p] \in Int /\ 1 <= written[p]
    BY <1>0
  <2>4. /\ Len(SubSeq(Session(p), 1, written[p])) = written[p] - 1 + 1
        /\ \A i \in 1 .. written[p] - 1 + 1 : SubSeq(Session(p), 1, written[p])[i] = Session(p)[1 + i - 1]
    BY <2>1, <2>3, SubSeqProperties
  <2> QED
    BY <1>0, <2>2, <2>4
<1>3. file # <<>> /\ Head(file) = Header(p)
  BY <1>0, <1>1, <1>2
<1>4. ValidSession /\ Loaded = Tail(file)
  <2>1. Header(p) \in Headers
    BY DEF Headers
  <2> QED
    BY <1>3, <2>1 DEF ValidSession, Loaded
<1>5. Loaded \in Seq(Entries)
  BY <1>0, LoadedType
<1>6. Len(Loaded) = written[p] - 1 /\ \A j \in 1 .. written[p] - 1 : Loaded[j] = file[j + 1]
  BY <1>0, <1>2, <1>3, <1>4
<1>7. ASSUME NEW j \in 1 .. written[p] - 1 PROVE Loaded[j] = mem[p][j]
  <2>1. j + 1 \in 1 .. written[p] /\ j + 1 \in 2 .. Len(mem[p]) + 1 /\ (j + 1) - 1 = j
    BY <1>0
  <2> QED
    BY <1>1, <1>2, <1>6, <2>1
<1> QED
  BY <1>4, <1>5, <1>6, <1>7

\* On a disk that works the session is in the file as far as it has been written.
LEMMA WritesHealthy ==
  ASSUME IInv, NEW p \in Procs, Writes(p), healthy, calm
  PROVE  /\ ValidSession' /\ ToSet(Loaded) \subseteq ToSet(Loaded')
         /\ \A q \in Procs : flushed[q] => ToSet(mem[q]) \subseteq ToSet(Loaded')
         /\ written[p] = Len(mem[p]) => ToSet(mem[p]) \subseteq ToSet(Loaded')
<1> DEFINE line == NextLine(p)
<1>0. /\ stage[p] \in {"truncated", "create"} /\ AsLeft(p) /\ file' = Glued(line) /\ HealthyFile
      /\ mem[p] \in Seq(Entries) /\ written[p] \in Nat /\ file \in Seq(Lines) /\ tail = "newline"
      /\ written[p] <= Len(mem[p]) /\ Len(mem[p]) \in Nat
  BY DEF Writes, IInv, TypeOK, AsLeft
<1>1. /\ written[p] = 0 => line = Header(p)
      /\ written[p] > 0 => written[p] \in 1 .. Len(mem[p]) /\ line = mem[p][written[p]] /\ line \in Entries
  BY <1>0, NextLineIs
<1>2. /\ Session(p) \in Seq(Lines) /\ Len(Session(p)) = Len(mem[p]) + 1
      /\ Session(p)[1] = Header(p)
      /\ \A i \in 2 .. Len(mem[p]) + 1 : Session(p)[i] = mem[p][i - 1]
  BY <1>0, SessionIs
<1>3. Header(p) \in Headers
  BY DEF Headers
<1> HIDE DEF line
<1>4. CASE written[p] = 0
  <2>1. size = "zero" /\ file = <<>>
    BY <1>0, <1>2, <1>4 DEF AsLeft
  <2>2. (\A q \in Procs : ~flushed[q]) /\ Loaded = <<>>
    BY <1>0, <2>1 DEF HealthyFile, Loaded, ValidSession
  <2>3. file' = <<Header(p)>>
    BY <1>0, <1>1, <1>4, <2>1 DEF Glued
  <2>4. ValidSession'
    BY <1>3, <2>3 DEF ValidSession
  <2>5. ToSet(Loaded) = {}
    BY <2>2 DEF ToSet
  <2>6. written[p] = Len(mem[p]) => ToSet(mem[p]) = {}
    BY <1>0, <1>4 DEF ToSet
  <2> QED
    BY <2>2, <2>4, <2>5, <2>6
<1>5. CASE written[p] > 0
  <2>1. written[p] \in 1 .. Len(mem[p]) /\ line = mem[p][written[p]] /\ line \in Entries
    BY <1>1, <1>5
  <2>3. /\ ValidSession /\ Loaded \in Seq(Entries) /\ Len(Loaded) = written[p] - 1
        /\ \A j \in 1 .. written[p] - 1 : Loaded[j] = mem[p][j]
    BY <1>0, <1>5, LeftIs
  <2>4. ValidSession' /\ ToSet(Loaded') = ToSet(Loaded) \cup {line}
    BY <1>0, <2>1, <2>3, GluedLoads
  <2>5. \A q \in Procs : flushed[q] => ToSet(mem[q]) \subseteq ToSet(Loaded)
    BY <1>0 DEF HealthyFile, FlushedIsReadable
  <2>6. ASSUME written[p] = Len(mem[p]) PROVE ToSet(mem[p]) \subseteq ToSet(Loaded')
    <3>1. ASSUME NEW j \in 1 .. Len(mem[p]) PROVE mem[p][j] \in ToSet(Loaded')
      <4>1. CASE j = written[p]
        BY <2>1, <2>4, <4>1
      <4>2. CASE j # written[p]
        <5>1. j \in 1 .. written[p] - 1 /\ j \in 1 .. Len(Loaded)
          BY <1>0, <2>3, <2>6, <4>2
        <5>2. mem[p][j] \in ToSet(Loaded)
          BY <2>3, <5>1, ToSetIs
        <5> QED
          BY <2>4, <5>2
      <4> QED
        BY <4>1, <4>2
    <3>2. ToSet(mem[p]) = {mem[p][j] : j \in 1 .. Len(mem[p])}
      BY <1>0, ToSetIs
    <3> QED
      BY <3>1, <3>2
  <2> QED
    BY <2>4, <2>5, <2>6
<1> QED
  BY <1>0, <1>4, <1>5

\* More lines remain.
LEMMA WritesOneKeeps ==
  ASSUME IInv, NEW p \in Procs, Writes(p), written[p] < Len(mem[p]),
         written' = [written EXCEPT ![p] = @ + 1], UNCHANGED <<stage, flushed, acked>>
  PROVE  IInv'
<1>0. /\ TypeOK /\ Numbered /\ StagesAgree /\ FileExists /\ CreatorIs
      /\ UnflushedIsOwn /\ UnflushedIsRooted /\ HealthyFile /\ HealthyProcs
  BY DEF IInv
<1>1. /\ stage[p] \in {"truncated", "create"} /\ size' = "some" /\ tail' = "newline"
      /\ UNCHANGED <<mem, leaf, next, creator, moves, healthy, calm>>
  BY DEF Writes
<1>2. /\ file' \in Seq(Lines) /\ HeaderFirst' /\ OpenIsUnacked'
      /\ \A i \in DOMAIN file' : file'[i] \in Entries => file'[i].id < next
  BY WritesFollows DEF Follows
<1>3. size # "none"
  BY <1>0, <1>1 DEF FileExists
<1>4. TypeOK'
  <2>1. Len(mem[p]) \in Nat /\ written[p] \in Nat
    BY <1>0 DEF TypeOK
  <2>2. written' \in [Procs -> Nat] /\ \A q \in Procs : written'[q] <= Len(mem[q])
    BY <1>0, <2>1 DEF TypeOK
  <2> QED
    BY <1>0, <1>1, <1>2, <2>2 DEF TypeOK
<1>5. Numbered'
  BY <1>0, <1>1, <1>2 DEF Numbered
<1>6. StagesAgree'
  <2>1. stage[p] = "create"
    <3>1. mem[p] # <<>>
      BY <1>0 DEF TypeOK
    <3> QED
      BY <1>0, <1>1, <3>1 DEF StagesAgree
  <2>2. \A q \in Procs \ {p} : written'[q] = written[q]
    BY <1>0 DEF TypeOK
  <2> QED
    BY <1>0, <1>1, <2>1, <2>2 DEF StagesAgree
<1>7. FileExists' /\ CreatorIs'
  BY <1>0, <1>1, <1>3 DEF FileExists, CreatorIs
<1>8. UnflushedIsOwn' /\ UnflushedIsRooted'
  BY <1>0, <1>1 DEF UnflushedIsOwn, UnflushedIsRooted, Rooted
<1>9. HealthyFile'
  <2>1. healthy /\ calm => /\ ValidSession'
                           /\ \A q \in Procs : flushed[q] => ToSet(mem[q]) \subseteq ToSet(Loaded')
    BY WritesHealthy
  <2> QED
    BY <1>1, <2>1 DEF HealthyFile, FlushedIsReadable
<1>10. HealthyProcs'
  BY <1>0, <1>1, <1>3 DEF HealthyProcs, HasAnswer
<1> QED
  BY <1>2, <1>4, <1>5, <1>6, <1>7, <1>8, <1>9, <1>10 DEF IInv

\* What the end of a creation does to p.
LEMMA Ended ==
  ASSUME IInv, NEW p \in Procs, NEW done \in BOOLEAN, EndCreation(p, done),
         stage[p] \in {"truncated", "create"}
  PROVE  /\ stage' \in [Procs -> Stages] /\ written' \in [Procs -> Nat] /\ flushed' \in [Procs -> BOOLEAN]
         /\ stage'[p] \in {"idle", "closed"} /\ written'[p] = 0 /\ flushed'[p] = done
         /\ done => stage'[p] = "idle"
         /\ ~done => (stage'[p] = "idle" <=> stage[p] = "create")
         /\ \A q \in Procs \ {p} : /\ stage'[q] = stage[q] /\ written'[q] = written[q]
                                   /\ flushed'[q] = flushed[q]
<1>1. stage \in [Procs -> Stages] /\ written \in [Procs -> Nat] /\ flushed \in [Procs -> BOOLEAN]
  BY DEF IInv, TypeOK
<1>2. written' = [written EXCEPT ![p] = 0] /\ flushed' = [flushed EXCEPT ![p] = done]
  BY DEF EndCreation
<1>3. stage' = [stage EXCEPT ![p] = IF done \/ stage[p] = "create" THEN "idle" ELSE "closed"]
  BY DEF EndCreation
<1> QED
  BY <1>1, <1>2, <1>3 DEF Stages

\* The last line.
LEMMA WritesLastKeeps ==
  ASSUME IInv, NEW p \in Procs, Writes(p), written[p] = Len(mem[p]), EndCreation(p, TRUE)
  PROVE  IInv'
<1>0. /\ TypeOK /\ Numbered /\ StagesAgree /\ FileExists /\ CreatorIs
      /\ UnflushedIsOwn /\ UnflushedIsRooted /\ HealthyFile /\ HealthyProcs
  BY DEF IInv
<1>1. /\ stage[p] \in {"truncated", "create"} /\ size' = "some" /\ tail' = "newline"
      /\ UNCHANGED <<mem, leaf, next, creator, moves, healthy, calm>>
      /\ acked' = acked \cup ToSet(mem[p])
  BY DEF Writes, EndCreation
<1>2. /\ file' \in Seq(Lines) /\ HeaderFirst' /\ OpenIsUnacked'
      /\ \A i \in DOMAIN file' : file'[i] \in Entries => file'[i].id < next
  <2>1. Follows(NextLine(p)) /\ OpenIsUnacked'
        /\ \A i \in DOMAIN file' : file'[i] \in Entries => file'[i].id < next
    BY WritesFollows
  <2> QED
    BY <2>1 DEF Follows
<1>3. /\ stage' \in [Procs -> Stages] /\ written' \in [Procs -> Nat] /\ flushed' \in [Procs -> BOOLEAN]
      /\ stage'[p] = "idle" /\ written'[p] = 0 /\ flushed'[p]
      /\ \A q \in Procs \ {p} : /\ stage'[q] = stage[q] /\ written'[q] = written[q]
                                /\ flushed'[q] = flushed[q]
  BY <1>1, Ended
<1>4. size # "none" /\ ~flushed[p] /\ mem[p] \in Seq(Entries)
  BY <1>0, <1>1 DEF FileExists, StagesAgree, TypeOK
<1>5. TypeOK'
  <2>1. acked' \subseteq Entries
    BY <1>0, <1>1, <1>4, ToSetIs DEF TypeOK
  <2>2. \A q \in Procs : written'[q] <= Len(mem[q])
    <3>1. 0 <= Len(mem[p])
      BY <1>4
    <3> QED
      BY <1>0, <1>3, <3>1 DEF TypeOK
  <2> QED
    BY <1>0, <1>1, <1>2, <1>3, <2>1, <2>2 DEF TypeOK
<1>6. Numbered'
  <2>1. \A e \in ToSet(mem[p]) : e.id < next
    BY <1>0, <1>4, ToSetIs DEF Numbered
  <2> QED
    BY <1>0, <1>1, <1>2, <2>1 DEF Numbered
<1>7. StagesAgree' /\ FileExists' /\ CreatorIs'
  BY <1>0, <1>1, <1>3, <1>4 DEF StagesAgree, FileExists, CreatorIs
<1>8. UnflushedIsOwn'
  <2>1. ASSUME NEW q \in Procs, ~flushed'[q]
        PROVE  /\ \A e \in ToSet(mem'[q]) : e \notin acked'
               /\ \A r \in Procs : r # q /\ ~flushed'[r] =>
                      \A e \in ToSet(mem'[q]) : e \notin ToSet(mem'[r])
    <3>1. q # p /\ ~flushed[q] /\ mem'[q] = mem[q]
      BY <1>1, <1>3, <2>1
    <3>2. /\ \A e \in ToSet(mem[q]) : e \notin acked
          /\ \A r \in Procs : r # q /\ ~flushed[r] => \A e \in ToSet(mem[q]) : e \notin ToSet(mem[r])
      BY <1>0, <3>1 DEF UnflushedIsOwn
    <3>3. \A r \in Procs : ~flushed'[r] => ~flushed[r]
      BY <1>3, <1>4
    <3> QED
      BY <1>1, <1>4, <3>1, <3>2, <3>3
  <2> QED
    BY <2>1 DEF UnflushedIsOwn
<1>9. UnflushedIsRooted'
  <2>1. \A q \in Procs : ~flushed'[q] => ~flushed[q]
    BY <1>3, <1>4
  <2> QED
    BY <1>0, <1>1, <2>1 DEF UnflushedIsRooted, Rooted
<1>10. HealthyFile'
  <2>1. healthy /\ calm => /\ ValidSession'
                           /\ \A q \in Procs : flushed[q] => ToSet(mem[q]) \subseteq ToSet(Loaded')
                           /\ ToSet(mem[p]) \subseteq ToSet(Loaded')
    BY WritesHealthy
  <2>2. \A q \in Procs : flushed'[q] => flushed[q] \/ q = p
    BY <1>3
  <2> QED
    BY <1>1, <2>1, <2>2 DEF HealthyFile, FlushedIsReadable
<1>11. HealthyProcs'
  BY <1>0, <1>1, <1>3, <1>4 DEF HealthyProcs, HasAnswer
<1> QED
  BY <1>2, <1>5, <1>6, <1>7, <1>8, <1>9, <1>10, <1>11 DEF IInv

\* A line that the disk does not take.
LEMMA CutShortKeeps ==
  ASSUME IInv, NEW p \in Procs, stage[p] \in {"truncated", "create"}, calm => AsLeft(p),
         ~healthy, BreakOff(NextLine(p)), EndCreation(p, FALSE),
         UNCHANGED <<mem, leaf, next, creator, moves, healthy, calm>>
  PROVE  IInv'
<1>0. /\ TypeOK /\ Numbered /\ StagesAgree /\ FileExists /\ CreatorIs
      /\ UnflushedIsOwn /\ UnflushedIsRooted
  BY DEF IInv
<1>1. acked' = acked /\ AsLeft(p)
  BY <1>0 DEF TypeOK, EndCreation
<1>2. /\ NextLine(p) \in Lines /\ NextLine(p) \notin acked
      /\ NextLine(p) \in Entries \/ file = <<>>
      /\ NextLine(p) \in Entries => NextLine(p).id < next
  <2>1. written[p] \in Nat
    BY <1>0 DEF TypeOK
  <2>2. written[p] = 0 => NextLine(p) \notin Entries
    <3>1. Header(p) \in Headers
      BY DEF Headers
    <3> QED
      BY <3>1, NextLineIs, HeaderIsNoEntry
  <2> QED
    BY <1>1, <2>1, <2>2, NextLineIs
<1>3. /\ Follows(NextLine(p)) /\ OpenIsUnacked'
      /\ size' \in {size, "some"} /\ (size' # "some" => file' = <<>>)
      /\ tail' \in {"newline", "open", "torn"}
  BY <1>1, <1>2, LineBreaksOff
<1>4. /\ stage' \in [Procs -> Stages] /\ written' \in [Procs -> Nat] /\ flushed' \in [Procs -> BOOLEAN]
      /\ stage'[p] \in {"idle", "closed"} /\ written'[p] = 0 /\ ~flushed'[p]
      /\ stage'[p] = "idle" <=> stage[p] = "create"
      /\ \A q \in Procs \ {p} : /\ stage'[q] = stage[q] /\ written'[q] = written[q]
                                /\ flushed'[q] = flushed[q]
  BY Ended
<1>5. size # "none" /\ ~flushed[p] /\ mem[p] \in Seq(Entries) /\ (stage[p] = "create" => creator # {})
  BY <1>0 DEF FileExists, StagesAgree, TypeOK, CreatorIs
<1>6. TypeOK'
  <2>1. \A q \in Procs : written'[q] <= Len(mem[q])
    <3>1. 0 <= Len(mem[p])
      BY <1>5
    <3> QED
      BY <1>0, <1>4, <3>1 DEF TypeOK
  <2> QED
    BY <1>0, <1>1, <1>3, <1>4, <2>1 DEF TypeOK, Follows
<1>7. Numbered'
  <2>1. ASSUME NEW i \in DOMAIN file', file'[i] \in Entries PROVE file'[i].id < next
    <3>1. (\E j \in DOMAIN file : file'[i] = file[j]) \/ file'[i] = NextLine(p)
      BY <1>3 DEF Follows
    <3>2. \A j \in DOMAIN file : file[j] \in Entries => file[j].id < next
      BY <1>0 DEF Numbered
    <3> QED
      BY <1>2, <2>1, <3>1, <3>2
  <2> QED
    BY <1>0, <1>1, <2>1 DEF Numbered
<1>8. StagesAgree' /\ HeaderFirst'
  <2>1. stage'[p] = "closed" => mem[p] = <<>>
    BY <1>0, <1>4 DEF StagesAgree
  <2> QED
    BY <1>0, <1>3, <1>4, <2>1 DEF StagesAgree, Follows
<1>9. FileExists' /\ CreatorIs'
  BY <1>0, <1>3, <1>4, <1>5 DEF FileExists, CreatorIs
<1>10. UnflushedIsOwn' /\ UnflushedIsRooted'
  <2>1. \A q \in Procs : ~flushed'[q] <=> ~flushed[q]
    BY <1>4, <1>5
  <2> QED
    BY <1>0, <1>1, <2>1 DEF UnflushedIsOwn, UnflushedIsRooted, Rooted
<1>11. HealthyFile' /\ HealthyProcs'
  BY DEF HealthyFile, HealthyProcs
<1> QED
  BY <1>3, <1>6, <1>7, <1>8, <1>9, <1>10, <1>11 DEF IInv

LEMMA WriteNextKeeps ==
  ASSUME IInv, NEW p \in Procs, WriteNext(p)
  PROVE  IInv'
<1> DEFINE line == Session(p)[written[p] + 1]
<1>1. /\ stage[p] \in {"truncated", "create"} /\ (calm => AsLeft(p))
      /\ \/ /\ IF AsLeft(p) THEN file' = Glued(line) ELSE Misplace(line)
            /\ size' = "some" /\ tail' = "newline"
            /\ \/ written[p] = Len(mem[p]) /\ EndCreation(p, TRUE)
               \/ /\ written[p] < Len(mem[p])
                  /\ written' = [written EXCEPT ![p] = @ + 1]
                  /\ UNCHANGED <<stage, flushed, acked>>
         \/ ~healthy /\ BreakOff(line) /\ EndCreation(p, FALSE)
      /\ UNCHANGED <<mem, leaf, next, creator, moves, healthy, calm>>
  BY DEF WriteNext
<1>2. NextLine(p) = line
  BY DEF NextLine
<1> HIDE DEF line
<1>3. CASE ~healthy /\ BreakOff(line) /\ EndCreation(p, FALSE)
  BY <1>1, <1>2, <1>3, CutShortKeeps
<1>4. CASE /\ IF AsLeft(p) THEN file' = Glued(line) ELSE Misplace(line)
           /\ size' = "some" /\ tail' = "newline"
           /\ \/ written[p] = Len(mem[p]) /\ EndCreation(p, TRUE)
              \/ /\ written[p] < Len(mem[p])
                 /\ written' = [written EXCEPT ![p] = @ + 1]
                 /\ UNCHANGED <<stage, flushed, acked>>
  <2>1. Writes(p)
    BY <1>1, <1>2, <1>4 DEF Writes
  <2> QED
    BY <1>4, <2>1, WritesOneKeeps, WritesLastKeeps
<1> QED
  BY <1>1, <1>3, <1>4

LEMMA StepIInv == IInv /\ [Next]_vars => IInv'
<1> SUFFICES ASSUME IInv, [Next]_vars PROVE IInv'
  OBVIOUS
<1>1. CASE Next
  BY <1>1, OpenKeeps, CloseKeeps, BranchKeeps, TruncateKeeps, WriteNextKeeps, AppendEntryKeeps DEF Next
<1>2. CASE UNCHANGED vars
  <2>1. Loaded' = Loaded /\ ValidSession' = ValidSession
    BY <1>2, SameDisk DEF vars, disk
  <2>2. TypeOK' /\ Numbered' /\ HeaderFirst' /\ StagesAgree' /\ FileExists' /\ CreatorIs' /\ OpenIsUnacked'
    BY <1>2 DEF vars, IInv, TypeOK, Numbered, HeaderFirst, StagesAgree, FileExists, CreatorIs, OpenIsUnacked
  <2>3. UnflushedIsOwn' /\ UnflushedIsRooted'
    BY <1>2 DEF vars, IInv, UnflushedIsOwn, UnflushedIsRooted, Rooted
  <2>4. HealthyFile' /\ HealthyProcs'
    BY <1>2, <2>1 DEF vars, IInv, HealthyFile, FlushedIsReadable, HealthyProcs, HasAnswer
  <2> QED
    BY <2>2, <2>3, <2>4 DEF IInv
<1> QED
  BY <1>1, <1>2

LEMMA AlwaysIInv == Spec => []IInv
BY InitIInv, StepIInv, PTL DEF Spec

\* Type correctness: in particular a leaf is an entry that its process has in memory
\* (_buildIndex, _appendEntry, branch), and no process writes more lines into the
\* file it creates than its session has (_rewriteFile, _persist).
THEOREM TypeCorrect == Spec => []TypeOK
<1>1. IInv => TypeOK
  BY DEF IInv
<1> QED
  BY <1>1, AlwaysIInv, PTL

\* On a disk that works, and if nobody is disturbed as it creates the file, _persist
\* leaves in the file all that a process which has flushed holds, and a process with
\* an answer has flushed or finds the file that another has created, whoever else
\* opens, writes and leaves it between any two system calls.
THEOREM SessionSaved == Spec => []SessionIsSaved
<1>1. IInv => SessionIsSaved
  <2>1. ASSUME IInv, healthy, calm PROVE FlushedIsReadable /\ AnsweredIsSaved
    <3>1. FlushedIsReadable
      BY <2>1 DEF IInv, HealthyFile
    <3>2. ASSUME NEW p \in Procs, stage[p] = "idle", HasAnswer(mem[p]), ~flushed[p]
          PROVE  \E q \in creator : q # p
      <4>1. p \notin creator /\ creator # {}
        BY <2>1, <3>2 DEF IInv, HealthyProcs, CreatorIs
      <4> QED
        BY <4>1
    <3>3. AnsweredIsSaved
      BY <2>1, <3>2 DEF AnsweredIsSaved, IInv, TypeOK
    <3> QED
      BY <3>1, <3>3
  <2> QED
    BY <2>1 DEF SessionIsSaved
<1> QED
  BY <1>1, AlwaysIInv, PTL

-----------------------------------------------------------------------------
(* The file only grows.                                                     *)

\* A line that has been acknowledged is not an unfinished last one: it stays if
\* all lines before such a one do.
LEMMA KeepsReadable ==
  ASSUME IInv, file' \in Seq(Lines),
         \A i \in 1 .. Len(file) :
            i < Len(file) \/ tail # "open" => i \in DOMAIN file' /\ file'[i] = file[i]
  PROVE  \A e \in acked : e \in ToSet(Loaded) => e \in ToSet(Loaded')
<1> SUFFICES ASSUME NEW e \in acked, e \in ToSet(Loaded) PROVE e \in ToSet(Loaded')
  OBVIOUS
<1>1. file \in Seq(Lines) /\ OpenIsUnacked
  BY DEF IInv, TypeOK
<1>2. PICK i \in 2 .. Len(file) : file[i] = e
  BY <1>1, LoadedIs
<1>3. ValidSession
  BY DEF Loaded, ToSet
<1>4. i < Len(file) \/ tail # "open"
  BY <1>1, <1>2 DEF OpenIsUnacked
<1>5. i \in DOMAIN file' /\ file'[i] = e /\ 1 \in DOMAIN file' /\ file'[1] = file[1]
  <2>1. i \in 1 .. Len(file) /\ 1 \in 1 .. Len(file) /\ 1 < Len(file)
    BY <1>1, <1>2
  <2> QED
    BY <1>2, <1>4, <2>1
<1>6. file[1] \in Headers
  BY <1>1, <1>3 DEF ValidSession
<1>7. file' # <<>> /\ Head(file') \in Headers /\ Loaded' = Tail(file')
  BY <1>5, <1>6 DEF ValidSession, Loaded
<1>8. i - 1 \in DOMAIN Tail(file') /\ Tail(file')[i - 1] = file'[i]
  BY <1>2, <1>5, <1>7
<1> QED
  BY <1>5, <1>7, <1>8 DEF ToSet

\* What was readable stays so.
KeepsLines == \A e \in acked : e \in ToSet(Loaded) => e \in ToSet(Loaded')

\* A line that is written to the end, or breaks off there, leaves the others.
LEMMA LineKeeps ==
  ASSUME IInv, NEW line \in Lines, file' = file \/ file' = Closed \/ file' = Glued(line)
  PROVE  KeepsLines
<1>1. file \in Seq(Lines)
  BY DEF IInv, TypeOK
<1>3. CASE file' = file
  BY <1>1, <1>3, KeepsReadable DEF KeepsLines
<1>4. CASE file' = Closed
  BY <1>4, ClosedIs, KeepsReadable DEF KeepsLines
<1>5. CASE file' = Glued(line) /\ tail = "newline"
  <2>1. file' = Append(file, line)
    BY <1>5, GluedIs
  <2>2. /\ file' \in Seq(Lines)
        /\ \A i \in 1 .. Len(file) : i \in DOMAIN file' /\ file'[i] = file[i]
    BY <1>1, <2>1
  <2> QED
    BY <2>2, KeepsReadable DEF KeepsLines
<1>6. CASE file' = Glued(line) /\ tail # "newline"
  BY <1>4, <1>6 DEF Glued
<1> QED
  BY <1>3, <1>4, <1>5, <1>6

LEMMA BreakOffKeeps ==
  ASSUME IInv, NEW line \in Lines, BreakOff(line)
  PROVE  KeepsLines
BY LineKeeps DEF BreakOff, disk

LEMMA AppendReadable ==
  ASSUME IInv, NEW p \in Procs, NEW answer \in BOOLEAN, AppendEntry(p, answer)
  PROVE  KeepsLines
<1> DEFINE e == New(p, answer)
<1>1. Persist(p, e, Append(mem[p], e))
  BY DEF AppendEntry, New
<1>2. e \in Lines
  <2>1. Remembers(p, New(p, answer))
    BY Remembered
  <2> QED
    BY <2>1 DEF Remembers, Lines
<1> HIDE DEF e
<1>3. file' = file \/ BreakOff(e) \/ file' = Glued(e)
  BY <1>1 DEF Persist, WriteLine, CreateFile, disk
<1> QED
  BY <1>2, <1>3, LineKeeps, BreakOffKeeps

LEMMA CreationReadable ==
  ASSUME IInv, NEW p \in Procs, Truncate(p) \/ WriteNext(p), AsLeft(p)
  PROVE  KeepsLines
<1>1. mem[p] \in Seq(Entries) /\ StagesAgree
  BY DEF IInv, TypeOK
<1>2. CASE Truncate(p)
  <2>1. written[p] = 0
    BY <1>1, <1>2 DEF Truncate, StagesAgree
  <2>2. file = <<>>
    BY <1>1, <2>1, SessionIs DEF AsLeft
  <2>3. ToSet(Loaded) = {}
    BY <2>2 DEF Loaded, ValidSession, ToSet
  <2> QED
    BY <2>3 DEF KeepsLines
<1>3. CASE WriteNext(p)
  <2>1. stage[p] \in {"truncated", "create"} /\ (file' = Glued(NextLine(p)) \/ BreakOff(NextLine(p)))
    BY <1>3 DEF WriteNext, NextLine
  <2>2. NextLine(p) \in Lines
    BY <2>1, NextLineIs
  <2> QED
    BY <2>1, <2>2, LineKeeps, BreakOffKeeps
<1> QED
  BY <1>2, <1>3

LEMMA StepReadable ==
  ASSUME IInv, [Next]_vars
  PROVE  \/ KeepsLines
         \/ \E p \in Procs : ~AsLeft(p) /\ (Truncate(p) \/ WriteNext(p))
<1>1. ASSUME UNCHANGED disk PROVE KeepsLines
  BY <1>1, SameDisk DEF KeepsLines
<1>2. ASSUME NEW p \in Procs, Open(p) \/ Close(p) \/ \E id \in {Null} \cup Ids : Branch(p, id)
      PROVE  KeepsLines
  <2>1. UNCHANGED disk
    BY <1>2 DEF Open, Close, Branch
  <2> QED
    BY <1>1, <2>1
<1>3. ASSUME NEW p \in Procs, Truncate(p) \/ WriteNext(p), AsLeft(p)
      PROVE  KeepsLines
  BY <1>3, CreationReadable
<1>4. ASSUME NEW p \in Procs, NEW answer \in BOOLEAN, AppendEntry(p, answer)
      PROVE  KeepsLines
  BY <1>4, AppendReadable
<1>5. CASE UNCHANGED vars
  BY <1>1, <1>5 DEF vars, disk
<1> QED
  BY <1>2, <1>3, <1>4, <1>5 DEF Next

-----------------------------------------------------------------------------
(* Once created, the file is not created again.                             *)

LEMMA StepCreated ==
  ASSUME IInv, [Next]_vars, Created
  PROVE  Created'
<1>1. TypeOK /\ size = "some" /\ \A p \in Procs : stage[p] \in {"closed", "idle"}
  BY DEF IInv, Created
<1>2. ASSUME NEW p \in Procs, Open(p) PROVE Created'
  <2>1. size' = size /\ stage' = [stage EXCEPT ![p] = "idle"]
    BY <1>1, <1>2 DEF Open, OpenMissing, OpenEmpty, OpenSession, disk
  <2> QED
    BY <1>1, <2>1 DEF Created, TypeOK
<1>3. ASSUME NEW p \in Procs, Close(p) PROVE Created'
  BY <1>1, <1>3 DEF Created, TypeOK, Close, disk
<1>4. ASSUME NEW p \in Procs, NEW id \in {Null} \cup Ids, Branch(p, id) PROVE Created'
  BY <1>1, <1>4 DEF Created, Branch, disk
<1>5. ASSUME NEW p \in Procs, Truncate(p) \/ WriteNext(p) PROVE FALSE
  BY <1>1, <1>5 DEF Truncate, WriteNext
<1>6. ASSUME NEW p \in Procs, NEW answer \in BOOLEAN, AppendEntry(p, answer) PROVE Created'
  <2>1. Persist(p, New(p, answer), Append(mem[p], New(p, answer)))
    BY <1>6 DEF AppendEntry, New
  <2>2. size' = "some" /\ stage' = stage
    BY <1>1, <2>1 DEF Persist, WriteLine, BreakOff, CreateFile, disk
  <2> QED
    BY <1>1, <2>2 DEF Created
<1>7. CASE UNCHANGED vars
  BY <1>1, <1>7 DEF vars, Created
<1> QED
  BY <1>2, <1>3, <1>4, <1>5, <1>6, <1>7 DEF Next

-----------------------------------------------------------------------------
(* The file implements the append-only tree.                                *)

Shown == IF healthy /\ calm THEN Loaded ELSE <<>>

\* An entry that comes after its parent is added at the end.
LEMMA Grows ==
  ASSUME healthy, calm, UNCHANGED <<healthy, calm>>, Loaded \in Seq(Entries),
         NEW e \in Entries, Loaded' = Append(Loaded, e),
         e.parent = Null \/ \E j \in 1 .. Len(Loaded) : Loaded[j].id = e.parent
  PROVE  Tree!Grow
<1>1. /\ Loaded' \in Seq(Entries) /\ Len(Loaded') = Len(Loaded) + 1 /\ Len(Loaded) \in Nat
      /\ \A i \in 1 .. Len(Loaded) : Loaded'[i] = Loaded[i]
      /\ Loaded'[Len(Loaded) + 1] = e
  OBVIOUS
<1>2. SubSeq(Loaded', 1, Len(Loaded)) = Loaded
  <2>1. Len(Loaded) \in Nat /\ \A i \in 1 .. Len(Loaded) : Loaded'[i] \in Entries
    BY <1>1
  <2>2. /\ SubSeq(Loaded', 1, Len(Loaded)) \in Seq(Entries)
        /\ Len(SubSeq(Loaded', 1, Len(Loaded))) = IF 1 <= Len(Loaded) THEN Len(Loaded) - 1 + 1 ELSE 0
        /\ \A i \in 1 .. Len(Loaded) - 1 + 1 : SubSeq(Loaded', 1, Len(Loaded))[i] = Loaded'[1 + i - 1]
    BY <2>1, SubSeqProperties
  <2>3. /\ Len(SubSeq(Loaded', 1, Len(Loaded))) = Len(Loaded)
        /\ \A i \in 1 .. Len(Loaded) : SubSeq(Loaded', 1, Len(Loaded))[i] = Loaded[i]
    BY <1>1, <2>1, <2>2
  <2> QED
    BY <2>2, <2>3, SeqEqual
<1>3. ASSUME NEW i \in DOMAIN Loaded', i >= Len(Loaded) + 1
      PROVE  Loaded'[i].parent = Null \/ \E j \in 1 .. i - 1 : Loaded'[j].id = Loaded'[i].parent
  <2>1. i = Len(Loaded) + 1 /\ i - 1 = Len(Loaded)
    BY <1>1, <1>3
  <2> QED
    BY <1>1, <2>1
<1> QED
  BY <1>1, <1>2, <1>3 DEF Tree!Grow, Tree!Rooted

\* A line behind those of a session.
LEMMA LineGrows ==
  ASSUME IInv, healthy, calm, NEW p \in Procs, NEW answer \in BOOLEAN, AppendEntry(p, answer),
         flushed[p], WriteLine(New(p, answer))
  PROVE  Tree!Grow
<1> DEFINE e == New(p, answer)
<1>1. TypeOK /\ HeaderFirst /\ HealthyFile /\ file \in Seq(Lines)
  BY DEF IInv, TypeOK
<1>2. tail = "newline" /\ ValidSession /\ ToSet(mem[p]) \subseteq ToSet(Loaded)
  BY <1>1 DEF HealthyFile, FlushedIsReadable, TypeOK
<1>3. e \in Entries /\ e.parent = leaf[p] /\ UNCHANGED <<healthy, calm>> /\ Loaded \in Seq(Entries)
  <2>1. Remembers(p, New(p, answer))
    BY Remembered
  <2> QED
    BY <2>1, <1>1, LoadedType DEF Remembers
<1>4. Loaded' = Append(Loaded, e)
  BY <1>2, <1>3, GluedLoads DEF WriteLine
<1>5. leaf[p] = Null \/ \E j \in 1 .. Len(Loaded) : Loaded[j].id = leaf[p]
  <2>1. leaf[p] = Null \/ \E x \in ToSet(mem[p]) : x.id = leaf[p]
    BY <1>1 DEF TypeOK
  <2>2. \A x \in ToSet(Loaded) : \E j \in 1 .. Len(Loaded) : Loaded[j] = x
    BY <1>3, ToSetIs
  <2> QED
    BY <1>2, <2>1, <2>2
<1> HIDE DEF e
<1> QED
  BY <1>3, <1>4, <1>5, Grows

\* A line of a session that is written for the first time: the header shows nothing.
LEMMA CreationGrows ==
  ASSUME IInv, healthy, calm, NEW p \in Procs, WriteNext(p)
  PROVE  Tree!Grow \/ Shown' = Shown
<1>1. /\ stage[p] \in {"truncated", "create"} /\ AsLeft(p) /\ tail = "newline"
      /\ file' = Glued(NextLine(p)) /\ UNCHANGED <<healthy, calm>>
  BY DEF WriteNext, NextLine, AsLeft
<1>2. /\ mem[p] \in Seq(Entries) /\ written[p] \in Nat /\ UnflushedIsRooted /\ ~flushed[p]
      /\ StagesAgree
  BY <1>1 DEF IInv, TypeOK, StagesAgree
<1>3. CASE written[p] = 0
  <2>1. file = <<>>
    BY <1>1, <1>2, <1>3, SessionIs DEF AsLeft
  <2>2. file' = <<Header(p)>>
    BY <1>1, <1>3, <2>1, NextLineIs DEF Glued
  <2>3. Loaded = <<>> /\ Loaded' = <<>>
    BY <2>1, <2>2 DEF Loaded, ValidSession
  <2> QED
    BY <1>1, <2>3 DEF Shown
<1>4. CASE written[p] > 0
  <2>1. /\ written[p] \in 1 .. Len(mem[p]) /\ NextLine(p) = mem[p][written[p]]
        /\ NextLine(p) \in Entries
    BY <1>1, <1>4, NextLineIs
  <2>2. /\ ValidSession /\ Loaded \in Seq(Entries) /\ Len(Loaded) = written[p] - 1
        /\ \A j \in 1 .. written[p] - 1 : Loaded[j] = mem[p][j]
    BY <1>1, <1>4, LeftIs
  <2>3. Loaded' = Append(Loaded, NextLine(p))
    BY <1>1, <2>1, <2>2, GluedLoads
  <2>4. NextLine(p).parent = Null \/ \E j \in 1 .. written[p] - 1 : mem[p][j].id = NextLine(p).parent
    BY <1>2, <2>1 DEF UnflushedIsRooted, Rooted
  <2>5. NextLine(p).parent = Null \/ \E j \in 1 .. Len(Loaded) : Loaded[j].id = NextLine(p).parent
    BY <2>2, <2>4
  <2> QED
    BY <1>1, <2>1, <2>2, <2>3, <2>5, Grows
<1> QED
  BY <1>2, <1>3, <1>4

LEMMA StepGrows ==
  ASSUME IInv, [Next]_vars
  PROVE  Tree!Grow \/ Shown' = Shown
<1>1. ASSUME UNCHANGED <<disk, healthy, calm>> PROVE Shown' = Shown
  BY <1>1, SameDisk DEF disk, Shown
<1>2. ASSUME NEW p \in Procs, Open(p) \/ Close(p) \/ \E id \in {Null} \cup Ids : Branch(p, id)
      PROVE  Shown' = Shown
  <2>1. UNCHANGED <<disk, healthy, calm>>
    BY <1>2 DEF Open, Close, Branch
  <2> QED
    BY <1>1, <2>1
<1>3. ASSUME UNCHANGED <<healthy, calm>>, ~(healthy /\ calm) PROVE Shown' = Shown
  BY <1>3 DEF Shown
<1>4. ASSUME NEW p \in Procs, NEW answer \in BOOLEAN, AppendEntry(p, answer)
      PROVE  Tree!Grow \/ Shown' = Shown
  <2>1. Persist(p, New(p, answer), Append(mem[p], New(p, answer))) /\ UNCHANGED <<healthy, calm>>
    BY <1>4 DEF AppendEntry, New
  <2>2. CASE ~(healthy /\ calm)
    BY <1>3, <2>1, <2>2
  <2>3. CASE healthy /\ calm /\ flushed[p]
    BY <1>4, <2>1, <2>3, LineGrows DEF Persist
  <2>4. CASE ~flushed[p]
    <3>1. file' = file
      BY <2>1, <2>4 DEF Persist, CreateFile, disk
    <3> QED
      BY <2>1, <3>1 DEF Shown, Loaded, ValidSession
  <2> QED
    BY <2>2, <2>3, <2>4
<1>5. ASSUME NEW p \in Procs, Truncate(p)
      PROVE  Shown' = Shown
  <2>1. UNCHANGED <<healthy, calm>> /\ file' = <<>>
    BY <1>5 DEF Truncate
  <2>2. CASE healthy /\ calm
    <3>1. AsLeft(p) /\ written[p] = 0 /\ mem[p] \in Seq(Entries)
      BY <1>5, <2>2 DEF Truncate, IInv, StagesAgree, TypeOK
    <3>2. file = <<>>
      BY <3>1, SessionIs DEF AsLeft
    <3> QED
      BY <2>1, <3>2 DEF Shown, Loaded, ValidSession
  <2> QED
    BY <1>3, <2>1, <2>2
<1>6. ASSUME NEW p \in Procs, WriteNext(p)
      PROVE  Tree!Grow \/ Shown' = Shown
  <2>1. UNCHANGED <<healthy, calm>>
    BY <1>6 DEF WriteNext
  <2>2. CASE ~(healthy /\ calm)
    BY <1>3, <2>1, <2>2
  <2>3. CASE healthy /\ calm
    BY <1>6, <2>3, CreationGrows
  <2> QED
    BY <2>2, <2>3
<1>7. CASE UNCHANGED vars
  BY <1>1, <1>7 DEF vars, disk
<1> QED
  BY <1>2, <1>4, <1>5, <1>6, <1>7 DEF Next

\* No write loses a line that was acknowledged and readable, however the disk fails,
\* unless a process goes on creating a file that another has changed; nobody creates
\* a file that has been written; and on a disk that works, if nobody is disturbed, the
\* file implements the append-only tree of AppendOnlyTree, whoever writes into it.
THEOREM OnlyGrows == Spec => FileOnlyGrows
<1>1. Spec => ReadableStaysReadable
  <2>1. IInv /\ [Next]_vars =>
            [ \/ \A e \in acked : e \in ToSet(Loaded) => e \in ToSet(Loaded')
              \/ \E p \in Procs : ~AsLeft(p) /\ (Truncate(p) \/ WriteNext(p)) ]_vars
    BY StepReadable DEF KeepsLines
  <2> QED
    BY <2>1, AlwaysIInv, PTL DEF Spec, ReadableStaysReadable
<1>2. Spec => StaysCreated
  <2>1. IInv /\ [Next]_vars => [Created => Created']_vars
    BY StepCreated
  <2> QED
    BY <2>1, AlwaysIInv, PTL DEF Spec, StaysCreated
<1>3. Spec => Tree!Spec
  <2>1. Init => Tree!Init
    BY DEF Init, Tree!Init, Loaded, ValidSession
  <2>2. IInv /\ [Next]_vars => [Tree!Grow]_(IF healthy /\ calm THEN Loaded ELSE <<>>)
    BY StepGrows DEF Shown
  <2> QED
    BY <2>1, <2>2, AlwaysIInv, PTL DEF Spec, Tree!Spec
<1> QED
  BY <1>1, <1>2, <1>3 DEF FileOnlyGrows

-----------------------------------------------------------------------------
(* Numbers.                                                                 *)

LEMMA NatLeast ==
  ASSUME NEW T \in SUBSET Nat, T # {}
  PROVE  \E n \in T : \A k \in T : n <= k
<1> DEFINE R == OpToRel(<, Nat)
<1>1. IsWellFoundedOn(R, Nat)
  BY NatLessThanWellFounded
<1>2. \A a, b \in Nat : a < b => <<a, b>> \in R
  BY DEF OpToRel
<1> HIDE DEF R
<1>3. PICK x \in T : \A y \in T : ~ (<<y, x>> \in R)
  BY <1>1, WFMin
<1>4. ASSUME NEW k \in T, ~ (x <= k) PROVE FALSE
  <2>1. k \in Nat /\ x \in Nat
    OBVIOUS
  <2>2. k < x
    BY <1>4, <2>1
  <2> QED
    BY <1>2, <1>3, <2>1, <2>2
<1> QED
  BY <1>4

\* Induction over the natural numbers, for a set of them.
LEMMA NatBelow ==
  ASSUME NEW S \in SUBSET Nat, 0 \in S, \A n \in S : n + 1 \in S
  PROVE  \A n \in Nat : n \in S
<1> SUFFICES ASSUME Nat \ S # {} PROVE FALSE
  OBVIOUS
<1>1. PICK n \in Nat \ S : \A k \in Nat \ S : n <= k
  BY NatLeast
<1>2. n # 0 /\ n - 1 \in Nat /\ n - 1 \in S
  BY <1>1
<1> QED
  BY <1>1, <1>2

LEMMA MinIs ==
  ASSUME NEW S \in SUBSET Nat, S # {}
  PROVE  Min(S) \in S /\ \A y \in S : Min(S) <= y
BY NatLeast DEF Min

LEMMA MaxIs ==
  ASSUME NEW n \in Nat, NEW S \in SUBSET (0 .. n), S # {}
  PROVE  Max(S) \in S /\ \A y \in S : Max(S) >= y
<1> DEFINE T == {k \in Nat : \A y \in S : k >= y}
<1>1. T \in SUBSET Nat /\ n \in T
  OBVIOUS
<1>2. PICK t \in T : \A k \in T : t <= k
  BY <1>1, NatLeast
<1>3. t \in Nat /\ \A y \in S : t >= y /\ y \in Nat
  BY <1>2
<1>4. t \in S
  <2> SUFFICES ASSUME t \notin S PROVE FALSE
    OBVIOUS
  <2>1. \A y \in S : y < t
    BY <1>3
  <2>2. t # 0
    <3>1. PICK y \in S : TRUE
      OBVIOUS
    <3>2. y < t /\ y \in Nat
      BY <1>3, <2>1
    <3> QED
      BY <3>2, <1>3
  <2>3. t - 1 \in Nat /\ \A y \in S : t - 1 >= y
    BY <1>3, <2>1, <2>2
  <2>4. t - 1 \in T
    BY <2>3
  <2> QED
    BY <1>2, <1>3, <2>4
<1>5. \E x \in S : \A y \in S : x >= y
  BY <1>3, <1>4
<1> QED
  BY <1>5 DEF Max

\* The members of a finite set as a sequence.
LEMMA SetToSeqIs ==
  ASSUME NEW S, IsFiniteSet(S)
  PROVE  SetToSeq(S) \in Seq(S)
<1>1. Cardinality(S) \in Nat /\ ExistsBijection(1 .. Cardinality(S), S)
  BY FS_CardinalityType
<1>2. \E f \in [1 .. Cardinality(S) -> S] : IsInjective(f)
  BY <1>1 DEF ExistsBijection, Bijection, Injection, IsInjective
<1>3. SetToSeq(S) \in [1 .. Cardinality(S) -> S]
  BY <1>2 DEF SetToSeq
<1> QED
  BY <1>1, <1>3

-----------------------------------------------------------------------------
(* Paths.                                                                   *)

\* A tree: each entry knows its id, and its parent is an earlier entry.
IsTree(T) ==
    /\ DOMAIN T \subseteq EntryIds
    /\ \A i \in DOMAIN T :
          /\ T[i] \in TreeEntries /\ T[i].id = i
          /\ T[i].parent = 0 \/ (T[i].parent \in DOMAIN T /\ T[i].parent < i)

LEMMA TreeEntryIs ==
  ASSUME NEW e \in TreeEntries
  PROVE  /\ e.id \in EntryIds /\ e.parent \in {0} \cup EntryIds
         /\ e.kind = "label" => e.ref \in EntryIds
         /\ e.kind = "compaction" => e.ref \in EntryIds /\ e.covers \subseteq EntryIds
         /\ e.kind \in Messages \cup {"metadata", "branch_summary", "label", "compaction"}
BY DEF TreeEntries, EntriesOf, LabelsOf, CompactionsOf, Messages

\* Induction from the root of a tree.
LEMMA TreeBelow ==
  ASSUME NEW T, IsTree(T), NEW S, 0 \in S, \A i \in DOMAIN T : T[i].parent \in S => i \in S
  PROVE  \A i \in DOMAIN T \cup {0} : i \in S
<1> DEFINE B == {i \in DOMAIN T : i \notin S}
<1> SUFFICES ASSUME B # {} PROVE FALSE
  OBVIOUS
<1>1. B \in SUBSET Nat
  BY DEF IsTree, EntryIds
<1>2. PICK i \in B : \A k \in B : i <= k
  BY <1>1, NatLeast
<1>3. i \in DOMAIN T /\ i \notin S /\ i \in Nat
  BY <1>1
<1>4. T[i].parent = 0 \/ (T[i].parent \in DOMAIN T /\ T[i].parent < i)
  BY <1>3 DEF IsTree
<1>5. T[i].parent \notin S
  BY <1>3
<1>6. T[i].parent \in B /\ T[i].parent < i
  BY <1>4, <1>5
<1>7. T[i].parent \in Nat
  BY <1>1, <1>6
<1> QED
  BY <1>2, <1>3, <1>6, <1>7

\* buildSessionPath up to entry n.
Climbs(g, T, n) ==
    g = [i \in 0 .. n |-> IF i \in DOMAIN T THEN Append(g[T[i].parent], T[i]) ELSE <<>>]

LEMMA ClimbsExist == ASSUME NEW T, IsTree(T) PROVE \A n \in Nat : \E g : Climbs(g, T, n)
<1> DEFINE N == {n \in Nat : \E g : Climbs(g, T, n)}
<1>1. 0 \in N
  <2>1. 0 \notin DOMAIN T
    BY DEF IsTree, EntryIds
  <2> DEFINE g == [i \in 0 .. 0 |-> <<>>]
  <2>2. g = [i \in 0 .. 0 |-> IF i \in DOMAIN T THEN Append(g[T[i].parent], T[i]) ELSE <<>>]
    BY <2>1
  <2> HIDE DEF g
  <2>3. Climbs(g, T, 0)
    BY <2>2 DEF Climbs
  <2> QED
    BY <2>3
<1>2. ASSUME NEW n \in N PROVE n + 1 \in N
  <2>1. PICK g : Climbs(g, T, n)
    OBVIOUS
  <2>2. \A i \in 0 .. n : g[i] = IF i \in DOMAIN T THEN Append(g[T[i].parent], T[i]) ELSE <<>>
    BY <2>1 DEF Climbs
  <2> DEFINE h == [i \in 0 .. n + 1 |->
                      IF i = n + 1 THEN IF i \in DOMAIN T THEN Append(g[T[i].parent], T[i]) ELSE <<>>
                      ELSE g[i]]
  <2>3. ASSUME NEW i \in 0 .. n + 1
        PROVE  h[i] = IF i \in DOMAIN T THEN Append(h[T[i].parent], T[i]) ELSE <<>>
    <3>0. n \in Nat
      OBVIOUS
    <3>1. CASE i \notin DOMAIN T
      <4>1. CASE i = n + 1
        BY <3>1, <4>1
      <4>2. CASE i \in 0 .. n
        <5>1. i # n + 1
          BY <3>0, <4>2
        <5> QED
          BY <2>2, <3>1, <4>2, <5>1
      <4> QED
        BY <3>0, <4>1, <4>2
    <3>2. CASE i \in DOMAIN T
      <4> DEFINE p == T[i].parent
      <4>1. p \in Nat /\ p < i
        BY <3>2 DEF IsTree, EntryIds
      <4> HIDE DEF p
      <4>2. p \in 0 .. n /\ p # n + 1 /\ p \in 0 .. n + 1
        BY <3>0, <4>1
      <4>3. h[p] = g[p]
        BY <4>2
      <4>4. CASE i = n + 1
        BY <3>2, <4>3, <4>4 DEF p
      <4>5. CASE i \in 0 .. n
        <5>1. i # n + 1
          BY <3>0, <4>5
        <5>2. h[i] = g[i] /\ g[i] = Append(g[p], T[i])
          BY <2>2, <3>2, <4>5, <5>1 DEF p
        <5> QED
          BY <3>2, <4>3, <5>2 DEF p
      <4> QED
        BY <3>0, <4>4, <4>5
    <3> QED
      BY <3>1, <3>2
  <2>4. h = [i \in 0 .. n + 1 |-> IF i \in DOMAIN T THEN Append(h[T[i].parent], T[i]) ELSE <<>>]
    <3>1. h = [i \in 0 .. n + 1 |-> h[i]]
      OBVIOUS
    <3> HIDE DEF h
    <3> QED
      BY <2>3, <3>1
  <2> HIDE DEF h
  <2>5. Climbs(h, T, n + 1)
    BY <2>4 DEF Climbs
  <2> QED
    BY <2>5
<1>3. N \in SUBSET Nat
  OBVIOUS
<1> HIDE DEF N
<1>4. \A n \in Nat : n \in N
  BY <1>1, <1>2, <1>3, NatBelow
<1> QED
  BY <1>4 DEF N

\* A path is that of the parent and the entry.
LEMMA PathIs ==
  ASSUME NEW T, IsTree(T)
  PROVE  /\ buildSessionPath(T, 0) = <<>>
         /\ \A i \in DOMAIN T :
               buildSessionPath(T, i) = Append(buildSessionPath(T, T[i].parent), T[i])
<1> DEFINE Body(g) == [i \in 0 .. MaxIds |->
                          IF i \in DOMAIN T THEN Append(g[T[i].parent], T[i]) ELSE <<>>]
           climb == CHOOSE g : g = Body(g)
<1>1. \A id : buildSessionPath(T, id) = climb[id]
  BY DEF buildSessionPath
<1>2. \E g : g = Body(g)
  <2>1. PICK g : Climbs(g, T, MaxIds)
    BY ClimbsExist, TreeAssumption
  <2>2. g = Body(g)
    BY <2>1 DEF Climbs
  <2> QED
    BY <2>2
<1>3. climb = Body(climb)
  <2> HIDE DEF Body
  <2> QED
    BY <1>2
<1> HIDE DEF climb
<1>4. \A i \in 0 .. MaxIds : climb[i] = IF i \in DOMAIN T THEN Append(climb[T[i].parent], T[i]) ELSE <<>>
  BY <1>3
<1>5. 0 \in 0 .. MaxIds /\ 0 \notin DOMAIN T /\ DOMAIN T \subseteq 0 .. MaxIds
  BY TreeAssumption DEF IsTree, EntryIds
<1> QED
  BY <1>1, <1>4, <1>5

\* The ids of a path rise, and each entry but the first is a child of the one
\* before it.
Rising(s) == \A j, k \in DOMAIN s : j < k => s[j].id < s[k].id
Linked(s) == \A k \in DOMAIN s : s[k].parent = IF k = 1 THEN 0 ELSE s[k - 1].id
IsBranch(s) == s \in Seq(TreeEntries) /\ Rising(s) /\ Linked(s)

LEMMA Extended ==
  ASSUME NEW S, NEW s \in Seq(S), NEW e \in S
  PROVE  /\ Append(s, e) \in Seq(S) /\ Len(s) \in Nat /\ Len(Append(s, e)) = Len(s) + 1
         /\ DOMAIN s = 1 .. Len(s) /\ DOMAIN Append(s, e) = 1 .. Len(s) + 1
         /\ \A k \in 1 .. Len(s) : Append(s, e)[k] = s[k]
         /\ Append(s, e)[Len(s) + 1] = e
BY AppendProperties

LEMMA BranchAppend ==
  ASSUME NEW s, IsBranch(s), NEW e \in TreeEntries, e.parent = EndOf(s), EndOf(s) < e.id
  PROVE  IsBranch(Append(s, e)) /\ EndOf(Append(s, e)) = e.id
<1> DEFINE t == Append(s, e)
           n == Len(s)
<1>1. /\ s \in Seq(TreeEntries) /\ t \in Seq(TreeEntries) /\ n \in Nat /\ Len(t) = n + 1
      /\ DOMAIN s = 1 .. n /\ DOMAIN t = 1 .. n + 1
      /\ \A k \in 1 .. n : t[k] = s[k]
      /\ t[n + 1] = e
  BY Extended DEF IsBranch
<1>2. \A k \in 1 .. n : s[k] \in TreeEntries /\ s[k].id \in Nat
  <2>1. \A k \in 1 .. n : s[k] \in TreeEntries
    BY <1>1
  <2> QED
    BY <2>1, TreeEntryIs DEF EntryIds
<1>3. e.id \in Nat
  BY TreeEntryIs DEF EntryIds
<1> HIDE DEF t
<1>4. EndOf(t) = e.id
  <2>1. t # <<>> /\ t[Len(t)] = e
    BY <1>1
  <2> QED
    BY <2>1 DEF EndOf
<1>5. \A k \in 1 .. n : s[k].id <= EndOf(s)
  <2>1. ASSUME NEW k \in 1 .. n PROVE s[k].id <= EndOf(s)
    <3>1. s # <<>> /\ EndOf(s) = s[n].id /\ n \in 1 .. n
      BY <1>1 DEF EndOf
    <3>2. ASSUME k < n PROVE s[k].id < s[n].id
      <4>1. k \in DOMAIN s /\ n \in DOMAIN s
        BY <1>1, <3>1
      <4>2. Rising(s)
        BY DEF IsBranch
      <4> QED
        BY <3>2, <4>1, <4>2 DEF Rising
    <3>3. k = n \/ k < n
      <4>1. n \in Nat
        BY <1>1
      <4> HIDE DEF n
      <4> QED
        BY <4>1
    <3> QED
      BY <1>2, <3>1, <3>2, <3>3
  <2> QED
    BY <2>1
<1>6. Rising(t)
  <2>1. ASSUME NEW j \in 1 .. n + 1, NEW k \in 1 .. n + 1, j < k PROVE t[j].id < t[k].id
    <3>1. j \in 1 .. n
      BY <1>1, <2>1
    <3>2. CASE k \in 1 .. n
      BY <1>1, <2>1, <3>1, <3>2 DEF IsBranch, Rising
    <3>3. CASE k = n + 1
      <4>1. s[j].id \in Nat /\ s[j].id <= EndOf(s) /\ t[j] = s[j] /\ t[k] = e
        BY <1>1, <1>2, <1>5, <3>1, <3>3
      <4>2. n # 0 /\ s # <<>>
        BY <1>1, <3>1
      <4>3. EndOf(s) \in Nat
        BY <1>1, <1>2, <4>2 DEF EndOf
      <4> QED
        BY <1>3, <4>1, <4>3
    <3> QED
      BY <1>1, <3>2, <3>3
  <2> QED
    BY <1>1, <2>1 DEF Rising
<1>7. Linked(t)
  <2>1. ASSUME NEW k \in 1 .. n + 1 PROVE t[k].parent = IF k = 1 THEN 0 ELSE t[k - 1].id
    <3>1. CASE k \in 1 .. n
      <4>1. s[k].parent = IF k = 1 THEN 0 ELSE s[k - 1].id
        BY <1>1, <3>1 DEF IsBranch, Linked
      <4>2. k # 1 => k - 1 \in 1 .. n
        BY <1>1, <3>1
      <4> QED
        BY <1>1, <3>1, <4>1, <4>2
    <3>2. CASE k = n + 1
      <4>1. CASE n = 0
        BY <1>1, <3>2, <4>1 DEF EndOf
      <4>2. CASE n # 0
        <5>1. s # <<>> /\ n \in 1 .. n /\ EndOf(s) = s[n].id
          BY <1>1, <4>2 DEF EndOf
        <5>2. k # 1 /\ k - 1 = n
          BY <1>1, <3>2, <4>2
        <5> QED
          BY <1>1, <3>2, <5>1, <5>2
      <4> QED
        BY <4>1, <4>2
    <3> QED
      BY <1>1, <3>1, <3>2
  <2> QED
    BY <1>1, <2>1 DEF Linked
<1> QED
  BY <1>1, <1>4, <1>6, <1>7 DEF IsBranch, t

LEMMA BranchStart == IsBranch(<<>>) /\ EndOf(<<>>) = 0
BY DEF IsBranch, Rising, Linked, EndOf

\* A path is a branch of the tree that ends at its leaf.
PathOf(T, i, s) ==
    /\ IsBranch(s) /\ EndOf(s) = i
    /\ \A k \in DOMAIN s : s[k].id \in DOMAIN T /\ T[s[k].id] = s[k]

LEMMA PathFacts ==
  ASSUME NEW T, IsTree(T)
  PROVE  \A i \in DOMAIN T \cup {0} : PathOf(T, i, buildSessionPath(T, i))
<1> DEFINE S == {i \in DOMAIN T \cup {0} : PathOf(T, i, buildSessionPath(T, i))}
<1>1. 0 \in S
  <2>1. buildSessionPath(T, 0) = <<>>
    BY PathIs
  <2>2. PathOf(T, 0, <<>>)
    BY BranchStart DEF PathOf
  <2> QED
    BY <2>1, <2>2
<1>2. ASSUME NEW i \in DOMAIN T, T[i].parent \in S PROVE i \in S
  <2> DEFINE p == T[i].parent
             s == buildSessionPath(T, p)
             t == buildSessionPath(T, i)
  <2>1. PathOf(T, p, s)
    BY <1>2
  <2>2. t = Append(s, T[i])
    BY PathIs
  <2>3. T[i] \in TreeEntries /\ T[i].id = i /\ p < i
    <3>1. i \in Nat /\ i > 0
      BY DEF IsTree, EntryIds
    <3> QED
      BY <3>1 DEF IsTree
  <2> HIDE DEF p, s, t
  <2>4. IsBranch(s) /\ EndOf(s) = p
    BY <2>1 DEF PathOf
  <2>5. T[i].parent = EndOf(s) /\ EndOf(s) < T[i].id
    BY <2>3, <2>4 DEF p
  <2>6. IsBranch(t) /\ EndOf(t) = i
    BY <2>2, <2>3, <2>4, <2>5, BranchAppend
  <2>7. \A k \in DOMAIN t : t[k].id \in DOMAIN T /\ T[t[k].id] = t[k]
    <3>1. /\ Len(s) \in Nat /\ DOMAIN s = 1 .. Len(s) /\ DOMAIN t = 1 .. Len(s) + 1
          /\ \A k \in 1 .. Len(s) : t[k] = s[k]
          /\ t[Len(s) + 1] = T[i]
      BY <2>2, <2>3, <2>4, Extended DEF IsBranch
    <3>2. ASSUME NEW k \in 1 .. Len(s) + 1 PROVE t[k].id \in DOMAIN T /\ T[t[k].id] = t[k]
      <4>1. CASE k \in 1 .. Len(s)
        BY <2>1, <3>1, <4>1 DEF PathOf
      <4>2. CASE k = Len(s) + 1
        BY <2>3, <3>1, <4>2
      <4> QED
        BY <3>1, <4>1, <4>2
    <3> QED
      BY <3>1, <3>2
  <2>8. PathOf(T, i, t)
    BY <2>6, <2>7 DEF PathOf
  <2> QED
    BY <2>8 DEF t
<1> HIDE DEF S
<1>3. \A i \in DOMAIN T \cup {0} : i \in S
  BY <1>1, <1>2, TreeBelow
<1> QED
  BY <1>3 DEF S

\* A tree with a new entry.
Grown(T, U, e) ==
    /\ IsTree(T) /\ e \in TreeEntries /\ e.parent \in DOMAIN T \cup {0}
    /\ \A i \in DOMAIN T : i < e.id
    /\ DOMAIN U = DOMAIN T \cup {e.id} /\ U[e.id] = e
    /\ \A i \in DOMAIN T : U[i] = T[i]

LEMMA GrownIs ==
  ASSUME NEW T, NEW U, NEW e, Grown(T, U, e)
  PROVE  /\ IsTree(U)
         /\ \A i \in DOMAIN T \cup {0} : buildSessionPath(U, i) = buildSessionPath(T, i)
         /\ buildSessionPath(U, e.id) = Append(buildSessionPath(T, e.parent), e)
<1>1. IsTree(T) /\ e \in TreeEntries /\ e.id \in EntryIds
  BY TreeEntryIs DEF Grown
<1>2. \A i \in DOMAIN T : i # e.id /\ i < e.id
  BY <1>1 DEF Grown, IsTree, EntryIds
<1>3. IsTree(U)
  <2>1. DOMAIN U \subseteq EntryIds
    BY <1>1 DEF Grown, IsTree
  <2>2. ASSUME NEW i \in DOMAIN T
        PROVE  /\ U[i] \in TreeEntries /\ U[i].id = i
               /\ U[i].parent = 0 \/ (U[i].parent \in DOMAIN U /\ U[i].parent < i)
    BY <1>1 DEF Grown, IsTree
  <2>3. /\ U[e.id] \in TreeEntries /\ U[e.id].id = e.id
        /\ U[e.id].parent = 0 \/ (U[e.id].parent \in DOMAIN U /\ U[e.id].parent < e.id)
    BY <1>1, <1>2 DEF Grown
  <2> QED
    BY <2>1, <2>2, <2>3 DEF Grown, IsTree
<1>4. \A i \in DOMAIN T \cup {0} : buildSessionPath(U, i) = buildSessionPath(T, i)
  <2> DEFINE S == {i \in DOMAIN T \cup {0} : buildSessionPath(U, i) = buildSessionPath(T, i)}
  <2>1. 0 \in S
    BY <1>1, <1>3, PathIs
  <2>2. ASSUME NEW i \in DOMAIN T, T[i].parent \in S PROVE i \in S
    <3>1. U[i] = T[i] /\ i \in DOMAIN U
      BY DEF Grown
    <3>2. buildSessionPath(U, i) = Append(buildSessionPath(U, U[i].parent), U[i])
      BY <1>3, <3>1, PathIs
    <3>3. buildSessionPath(T, i) = Append(buildSessionPath(T, T[i].parent), T[i])
      BY <1>1, PathIs
    <3> QED
      BY <2>2, <3>1, <3>2, <3>3
  <2> HIDE DEF S
  <2>3. \A i \in DOMAIN T \cup {0} : i \in S
    BY <1>1, <2>1, <2>2, TreeBelow
  <2> QED
    BY <2>3 DEF S
<1>5. buildSessionPath(U, e.id) = Append(buildSessionPath(U, e.parent), e)
  <2>1. e.id \in DOMAIN U /\ U[e.id] = e
    BY DEF Grown
  <2> QED
    BY <1>3, <2>1, PathIs
<1> QED
  BY <1>3, <1>4, <1>5 DEF Grown

-----------------------------------------------------------------------------
(* pathWithoutLabels.                                                       *)

\* [e EXCEPT !.parent = p]: everything but the parent stays.
Alike(x, e) ==
    /\ x.id = e.id /\ x.kind = e.kind
    /\ e.kind = "compaction" => x.ref = e.ref /\ x.covers = e.covers

LEMMA Reparented ==
  ASSUME NEW e \in TreeEntries, NEW p \in {0} \cup EntryIds
  PROVE  /\ [e EXCEPT !.parent = p] \in TreeEntries /\ [e EXCEPT !.parent = p].parent = p
         /\ Alike([e EXCEPT !.parent = p], e)
<1> DEFINE x == [e EXCEPT !.parent = p]
           Plains == Messages \cup {"metadata", "branch_summary"}
<1>1. CASE e \in EntriesOf(Plains)
  <2>1. x \in EntriesOf(Plains) /\ x.parent = p /\ x.id = e.id /\ x.kind = e.kind
    BY <1>1 DEF EntriesOf
  <2>2. e.kind # "compaction"
    BY <1>1 DEF EntriesOf, Messages
  <2> HIDE DEF x
  <2> QED
    BY <2>1, <2>2 DEF TreeEntries, Alike, x
<1>2. CASE e \in LabelsOf
  <2>1. x \in LabelsOf /\ x.parent = p /\ x.id = e.id /\ x.kind = e.kind
    BY <1>2 DEF LabelsOf
  <2>2. e.kind # "compaction"
    BY <1>2 DEF LabelsOf
  <2> HIDE DEF x
  <2> QED
    BY <2>1, <2>2 DEF TreeEntries, Alike, x
<1>3. CASE e \in CompactionsOf
  <2>1. /\ x \in CompactionsOf /\ x.parent = p /\ x.id = e.id /\ x.kind = e.kind
        /\ x.ref = e.ref /\ x.covers = e.covers
    BY <1>3 DEF CompactionsOf
  <2> HIDE DEF x
  <2> QED
    BY <2>1 DEF TreeEntries, Alike, x
<1> QED
  BY <1>1, <1>2, <1>3 DEF TreeEntries

\* What is retained of the first n entries, given what is of n - 1.
Retained(r, e) ==
    IF e.kind = "label" THEN r ELSE Append(r, [e EXCEPT !.parent = EndOf(r)])

Retains(g, s, n) ==
    g = [k \in 0 .. n |-> IF k = 0 THEN <<>>
                          ELSE IF s[k].kind = "label" THEN g[k - 1]
                          ELSE Append(g[k - 1], [s[k] EXCEPT !.parent = EndOf(g[k - 1])])]

LEMMA RetainsExist == ASSUME NEW s PROVE \A n \in Nat : \E g : Retains(g, s, n)
<1> DEFINE N == {n \in Nat : \E g : Retains(g, s, n)}
<1>1. 0 \in N
  <2> DEFINE g == [k \in 0 .. 0 |-> <<>>]
  <2>1. \A k \in 0 .. 0 : k = 0
    OBVIOUS
  <2>2. g = [k \in 0 .. 0 |-> IF k = 0 THEN <<>>
                          ELSE IF s[k].kind = "label" THEN g[k - 1]
                          ELSE Append(g[k - 1], [s[k] EXCEPT !.parent = EndOf(g[k - 1])])]
    BY <2>1
  <2> HIDE DEF g
  <2>3. Retains(g, s, 0)
    BY <2>2 DEF Retains
  <2> QED
    BY <2>3
<1>2. ASSUME NEW n \in N PROVE n + 1 \in N
  <2>0. n \in Nat
    OBVIOUS
  <2>1. PICK g : Retains(g, s, n)
    OBVIOUS
  <2>2. \A k \in 0 .. n : g[k] = IF k = 0 THEN <<>> ELSE Retained(g[k - 1], s[k])
    BY <2>1 DEF Retains, Retained
  <2> DEFINE h == [k \in 0 .. n + 1 |-> IF k = n + 1 THEN Retained(g[n], s[k]) ELSE g[k]]
  <2>3. ASSUME NEW k \in 0 .. n + 1
        PROVE  h[k] = IF k = 0 THEN <<>> ELSE Retained(h[k - 1], s[k])
    <3>1. CASE k = n + 1
      <4>1. k - 1 = n /\ n \in 0 .. n + 1 /\ n # n + 1 /\ k # 0
        BY <2>0, <3>1
      <4>2. h[n] = g[n]
        BY <4>1
      <4> QED
        BY <3>1, <4>1, <4>2
    <3>2. CASE k # n + 1
      <4>1. k \in 0 .. n /\ h[k] = g[k]
        BY <2>0, <3>2
      <4>2. k # 0 => k - 1 \in 0 .. n + 1 /\ k - 1 # n + 1
        BY <2>0, <4>1
      <4>3. k # 0 => h[k - 1] = g[k - 1]
        BY <4>2
      <4> QED
        BY <2>2, <4>1, <4>3
    <3> QED
      BY <3>1, <3>2
  <2>4. h = [k \in 0 .. n + 1 |-> h[k]]
    OBVIOUS
  <2> HIDE DEF h
  <2>5. Retains(h, s, n + 1)
    BY <2>3, <2>4 DEF Retains, Retained
  <2> QED
    BY <2>0, <2>5
<1>3. N \in SUBSET Nat
  OBVIOUS
<1> HIDE DEF N
<1>4. \A n \in Nat : n \in N
  BY <1>1, <1>2, <1>3, NatBelow
<1> QED
  BY <1>4 DEF N

LEMMA WithoutLabelsIs ==
  ASSUME NEW s, Len(s) \in Nat
  PROVE  \E g : /\ WithoutLabels(s) = g[Len(s)] /\ g[0] = <<>>
                /\ \A n \in 1 .. Len(s) : g[n] = Retained(g[n - 1], s[n])
<1> DEFINE Body(g) == [n \in 0 .. Len(s) |->
                IF n = 0 THEN <<>>
                ELSE IF s[n].kind = "label" THEN g[n - 1]
                ELSE Append(g[n - 1], [s[n] EXCEPT !.parent = EndOf(g[n - 1])])]
           kept == CHOOSE g : g = Body(g)
<1>1. WithoutLabels(s) = kept[Len(s)]
  BY DEF WithoutLabels
<1>2. \E g : g = Body(g)
  <2>1. PICK g : Retains(g, s, Len(s))
    BY RetainsExist
  <2>2. g = Body(g)
    BY <2>1 DEF Retains
  <2> QED
    BY <2>2
<1>3. kept = Body(kept)
  <2> HIDE DEF Body
  <2> QED
    BY <1>2
<1> HIDE DEF kept
<1>4. \A n \in 0 .. Len(s) : kept[n] = IF n = 0 THEN <<>> ELSE Retained(kept[n - 1], s[n])
  BY <1>3 DEF Retained
<1>5. kept[0] = <<>> /\ \A n \in 1 .. Len(s) : kept[n] = Retained(kept[n - 1], s[n])
  BY <1>4
<1> QED
  BY <1>1, <1>5

\* r holds the first n entries of s but for the labels, in their order: f tells
\* their places in s.
Filters(f, r, s, n) ==
    /\ f \in [1 .. Len(r) -> 1 .. n]
    /\ \A j, k \in 1 .. Len(r) : j < k => f[j] < f[k]
    /\ \A i \in 1 .. n : s[i].kind # "label" => \E k \in 1 .. Len(r) : f[k] = i
    /\ \A k \in 1 .. Len(r) : Alike(r[k], s[f[k]]) /\ r[k].kind # "label"
Filtered(r, s, n) == IsBranch(r) /\ \E f : Filters(f, r, s, n)

LEMMA FilteredStart == ASSUME NEW s PROVE Filtered(<<>>, s, 0)
<1> DEFINE f == [k \in 1 .. 0 |-> 1]
<1>1. Len(<<>>) = 0 /\ \A k \in 1 .. 0 : FALSE
  OBVIOUS
<1>2. f \in [1 .. 0 -> 1 .. 0]
  BY <1>1
<1> HIDE DEF f
<1>3. Filters(f, <<>>, s, 0)
  BY <1>1, <1>2 DEF Filters
<1> QED
  BY <1>3, BranchStart DEF Filtered

LEMMA FilteredEnd ==
  ASSUME NEW s, IsBranch(s), NEW n \in Nat, n + 1 \in DOMAIN s, NEW r, Filtered(r, s, n)
  PROVE  EndOf(r) \in {0} \cup EntryIds /\ EndOf(r) < s[n + 1].id
<1>1. s \in Seq(TreeEntries) /\ Rising(s) /\ r \in Seq(TreeEntries)
  BY DEF IsBranch, Filtered
<1>2. s[n + 1].id \in EntryIds /\ s[n + 1].id \in Nat /\ s[n + 1].id > 0
  <2>1. s[n + 1] \in TreeEntries
    BY <1>1
  <2> QED
    BY <2>1, TreeEntryIs DEF EntryIds
<1>3. CASE r = <<>>
  BY <1>2, <1>3 DEF EndOf
<1>4. CASE r # <<>>
  <2> DEFINE m == Len(r)
  <2>1. m \in 1 .. Len(r) /\ EndOf(r) = r[m].id
    BY <1>1, <1>4 DEF EndOf
  <2>2. PICK f : Filters(f, r, s, n)
    BY DEF Filtered
  <2>3. f[m] \in 1 .. n /\ r[m].id = s[f[m]].id
    BY <2>1, <2>2 DEF Filters, Alike
  <2>4. f[m] \in DOMAIN s /\ f[m] < n + 1
    <3>1. DOMAIN s = 1 .. Len(s) /\ Len(s) \in Nat
      BY <1>1
    <3> QED
      BY <2>3, <3>1
  <2>5. s[f[m]].id < s[n + 1].id
    BY <1>1, <2>4 DEF Rising
  <2>6. r[m].id \in EntryIds
    <3>1. r[m] \in TreeEntries
      BY <1>1, <2>1
    <3> QED
      BY <3>1, TreeEntryIs
  <2> QED
    BY <2>1, <2>3, <2>5, <2>6
<1> QED
  BY <1>3, <1>4

LEMMA FilteredNext ==
  ASSUME NEW s, IsBranch(s), NEW n \in Nat, n + 1 \in DOMAIN s, NEW r, Filtered(r, s, n)
  PROVE  Filtered(Retained(r, s[n + 1]), s, n + 1)
<1> DEFINE e == s[n + 1]
<1>1. s \in Seq(TreeEntries) /\ e \in TreeEntries /\ IsBranch(r) /\ r \in Seq(TreeEntries)
  BY DEF IsBranch, Filtered
<1>2. PICK f : Filters(f, r, s, n)
  BY DEF Filtered
<1>3. CASE e.kind = "label"
  <2>1. f \in [1 .. Len(r) -> 1 .. n + 1]
    BY <1>2 DEF Filters
  <2>2. \A i \in 1 .. n + 1 : s[i].kind # "label" => i \in 1 .. n
    BY <1>3
  <2>3. Filters(f, r, s, n + 1)
    BY <1>2, <2>1, <2>2 DEF Filters
  <2> QED
    BY <1>1, <1>3, <2>3 DEF Filtered, Retained
<1>4. CASE e.kind # "label"
  <2> DEFINE x == [e EXCEPT !.parent = EndOf(r)]
             t == Append(r, x)
             m == Len(r)
             h == [k \in 1 .. m + 1 |-> IF k = m + 1 THEN n + 1 ELSE f[k]]
  <2>1. EndOf(r) \in {0} \cup EntryIds /\ EndOf(r) < e.id
    BY FilteredEnd
  <2>2. x \in TreeEntries /\ x.parent = EndOf(r) /\ Alike(x, e)
    BY <1>1, <2>1, Reparented
  <2> HIDE DEF x
  <2>3. /\ m \in Nat /\ Len(t) = m + 1
        /\ \A k \in 1 .. m : t[k] = r[k]
        /\ t[m + 1] = x
    BY <1>1, <2>2, Extended
  <2>4. IsBranch(t)
    <3>1. EndOf(r) < x.id
      BY <2>1, <2>2 DEF Alike
    <3> QED
      BY <1>1, <2>2, <3>1, BranchAppend
  <2> HIDE DEF t, e, m
  <2>5. /\ f \in [1 .. m -> 1 .. n] /\ \A j, k \in 1 .. m : j < k => f[j] < f[k]
        /\ \A i \in 1 .. n : s[i].kind # "label" => \E k \in 1 .. m : f[k] = i
        /\ \A k \in 1 .. m : Alike(r[k], s[f[k]]) /\ r[k].kind # "label"
    BY <1>2 DEF Filters, m
  <2>6. h[m + 1] = n + 1 /\ \A k \in 1 .. m : h[k] = f[k] /\ h[k] \in 1 .. n
    BY <2>3, <2>5
  <2>7. h \in [1 .. m + 1 -> 1 .. n + 1]
    <3>1. \A k \in 1 .. m + 1 : k = m + 1 \/ k \in 1 .. m
      BY <2>3
    <3>2. \A k \in 1 .. m + 1 : h[k] \in 1 .. n + 1
      BY <2>6, <3>1
    <3> QED
      BY <3>2
  <2> HIDE DEF h
  <2>8. \A k \in 1 .. m + 1 : k = m + 1 \/ k \in 1 .. m
    BY <2>3
  <2>9. \A j, k \in 1 .. m + 1 : j < k => h[j] < h[k]
    <3>1. ASSUME NEW j \in 1 .. m + 1, NEW k \in 1 .. m + 1, j < k PROVE h[j] < h[k]
      <4>1. j \in 1 .. m
        BY <2>3, <3>1
      <4> QED
        BY <2>5, <2>6, <2>8, <3>1, <4>1
    <3> QED
      BY <3>1
  <2>10. \A i \in 1 .. n + 1 : s[i].kind # "label" => \E k \in 1 .. m + 1 : h[k] = i
    <3>1. ASSUME NEW i \in 1 .. n, s[i].kind # "label" PROVE \E k \in 1 .. m + 1 : h[k] = i
      <4>1. PICK k \in 1 .. m : f[k] = i
        BY <2>5, <3>1
      <4>2. k \in 1 .. m + 1 /\ h[k] = i
        BY <2>3, <2>6, <4>1
      <4> QED
        BY <4>2
    <3>2. \E k \in 1 .. m + 1 : h[k] = n + 1
      <4>1. m + 1 \in 1 .. m + 1
        BY <2>3
      <4> QED
        BY <2>6, <4>1
    <3>3. \A i \in 1 .. n + 1 : i = n + 1 \/ i \in 1 .. n
      OBVIOUS
    <3> QED
      BY <3>1, <3>2, <3>3
  <2>11. \A k \in 1 .. m + 1 : Alike(t[k], s[h[k]]) /\ t[k].kind # "label"
    <3>1. \A k \in 1 .. m : Alike(t[k], s[h[k]]) /\ t[k].kind # "label"
      BY <2>3, <2>5, <2>6
    <3>2. Alike(t[m + 1], s[h[m + 1]]) /\ t[m + 1].kind # "label"
      BY <1>4, <2>2, <2>3, <2>6 DEF e, Alike
    <3> QED
      BY <2>8, <3>1, <3>2
  <2>12. Filters(h, t, s, n + 1)
    BY <2>3, <2>7, <2>9, <2>10, <2>11 DEF Filters
  <2>13. Retained(r, e) = t
    BY <1>4 DEF Retained, t, x
  <2> QED
    BY <2>4, <2>12, <2>13 DEF Filtered, e
<1> QED
  BY <1>3, <1>4

LEMMA RetainedIs ==
  ASSUME NEW s, IsBranch(s)
  PROVE  Filtered(WithoutLabels(s), s, Len(s))
<1>1. s \in Seq(TreeEntries) /\ Len(s) \in Nat /\ DOMAIN s = 1 .. Len(s)
  BY DEF IsBranch
<1>2. PICK g : /\ WithoutLabels(s) = g[Len(s)] /\ g[0] = <<>>
               /\ \A n \in 1 .. Len(s) : g[n] = Retained(g[n - 1], s[n])
  BY <1>1, WithoutLabelsIs
<1> DEFINE S == {n \in Nat : n <= Len(s) => Filtered(g[n], s, n)}
<1>3. 0 \in S
  BY <1>2, FilteredStart
<1>4. ASSUME NEW n \in S PROVE n + 1 \in S
  <2> SUFFICES ASSUME n + 1 <= Len(s) PROVE Filtered(g[n + 1], s, n + 1)
    OBVIOUS
  <2>1. n \in Nat /\ n + 1 \in 1 .. Len(s) /\ n <= Len(s) /\ (n + 1) - 1 = n
    BY <1>1
  <2>2. Filtered(g[n], s, n)
    BY <2>1
  <2>3. g[n + 1] = Retained(g[n], s[n + 1])
    BY <1>2, <2>1
  <2> QED
    BY <1>1, <2>1, <2>2, <2>3, FilteredNext
<1>5. S \in SUBSET Nat
  OBVIOUS
<1> HIDE DEF S
<1>6. \A n \in Nat : n \in S
  BY <1>3, <1>4, <1>5, NatBelow
<1>7. Len(s) \in S
  BY <1>1, <1>6
<1> QED
  BY <1>1, <1>2, <1>7 DEF S

-----------------------------------------------------------------------------
(* The sessions that forks make.                                            *)

LEMMA Prefix ==
  ASSUME NEW S, NEW s \in Seq(S), NEW k \in 0 .. Len(s)
  PROVE  /\ SubSeq(s, 1, k) \in Seq(S) /\ Len(SubSeq(s, 1, k)) = k
         /\ \A i \in 1 .. k : SubSeq(s, 1, k)[i] = s[i]
         /\ k + 1 <= Len(s) => SubSeq(s, 1, k + 1) = Append(SubSeq(s, 1, k), s[k + 1])
<1>1. /\ SubSeq(s, 1, k) \in Seq(S) /\ Len(SubSeq(s, 1, k)) = k
      /\ \A i \in 1 .. k : SubSeq(s, 1, k)[i] = s[i]
  BY SubSeqProperties
<1>2. ASSUME k + 1 <= Len(s) PROVE SubSeq(s, 1, k + 1) = Append(SubSeq(s, 1, k), s[k + 1])
  <2> DEFINE a == SubSeq(s, 1, k)
             b == SubSeq(s, 1, k + 1)
             c == Append(a, s[k + 1])
  <2>1. k \in Nat /\ k + 1 \in 0 .. Len(s) /\ s[k + 1] \in S
    BY <1>2
  <2>2. b \in Seq(S) /\ Len(b) = k + 1 /\ \A i \in 1 .. k + 1 : b[i] = s[i]
    BY <2>1, SubSeqProperties
  <2> HIDE DEF a, b
  <2>3. a \in Seq(S) /\ Len(a) = k /\ \A i \in 1 .. k : a[i] = s[i]
    BY <1>1 DEF a
  <2>4. /\ c \in Seq(S) /\ Len(c) = k + 1 /\ c[k + 1] = s[k + 1]
        /\ \A i \in 1 .. k : c[i] = a[i]
    BY <2>1, <2>3, Extended
  <2> HIDE DEF c
  <2>5. \A i \in 1 .. k + 1 : b[i] = c[i]
    <3>1. \A i \in 1 .. k + 1 : i = k + 1 \/ i \in 1 .. k
      BY <2>1
    <3> QED
      BY <2>2, <2>3, <2>4, <3>1
  <2>6. b = c
    <3>1. b \in Seq(S) /\ c \in Seq(S) /\ Len(b) = Len(c) /\ \A i \in 1 .. Len(b) : b[i] = c[i]
      BY <2>2, <2>4, <2>5
    <3> QED
      BY <3>1, SeqEqual
  <2> QED
    BY <2>6 DEF a, b, c
<1> QED
  BY <1>1, <1>2

LEMMA IndexedIs ==
  ASSUME NEW s, IsBranch(s)
  PROVE  /\ IsTree(Indexed(s))
         /\ DOMAIN Indexed(s) = {s[k].id : k \in DOMAIN s}
         /\ \A k \in DOMAIN s : Indexed(s)[s[k].id] = s[k]
         /\ EndOf(s) \in DOMAIN Indexed(s) \cup {0}
<1> DEFINE T == Indexed(s)
           n == Len(s)
<1>1. /\ s \in Seq(TreeEntries) /\ n \in Nat /\ DOMAIN s = 1 .. n
      /\ \A k \in 1 .. n : s[k] \in TreeEntries
  BY DEF IsBranch
<1>2. \A k \in 1 .. n : s[k].id \in EntryIds /\ s[k].id \in Nat
  BY <1>1, TreeEntryIs DEF EntryIds
<1>3. \A j, k \in 1 .. n : s[j].id = s[k].id => j = k
  <2>1. ASSUME NEW j \in 1 .. n, NEW k \in 1 .. n, s[j].id = s[k].id PROVE j = k
    <3>1. j < k => s[j].id < s[k].id
      BY <1>1 DEF IsBranch, Rising
    <3>2. k < j => s[k].id < s[j].id
      BY <1>1 DEF IsBranch, Rising
    <3>3. j \in Nat /\ k \in Nat /\ s[j].id \in Nat
      BY <1>1, <1>2
    <3> QED
      BY <2>1, <3>1, <3>2, <3>3
  <2> QED
    BY <2>1
<1>4. DOMAIN T = {s[k].id : k \in DOMAIN s}
  BY DEF Indexed
<1>5. ASSUME NEW k \in 1 .. n PROVE T[s[k].id] = s[k]
  <2> DEFINE i == s[k].id
             j == CHOOSE l \in DOMAIN s : s[l].id = i
  <2>1. i \in DOMAIN T
    BY <1>1, <1>4
  <2>2. T[i] = s[j]
    BY <2>1 DEF Indexed
  <2>3. j \in 1 .. n /\ s[j].id = i
    BY <1>1
  <2> HIDE DEF j
  <2>4. j = k
    BY <1>3, <2>3
  <2> QED
    BY <2>2, <2>4
<1> HIDE DEF T, n
<1>6. IsTree(T)
  <2>1. DOMAIN T \subseteq EntryIds
    BY <1>1, <1>2, <1>4
  <2>2. ASSUME NEW i \in DOMAIN T
        PROVE  /\ T[i] \in TreeEntries /\ T[i].id = i
               /\ T[i].parent = 0 \/ (T[i].parent \in DOMAIN T /\ T[i].parent < i)
    <3>1. PICK k \in 1 .. n : i = s[k].id
      BY <1>1, <1>4
    <3>2. T[i] = s[k]
      BY <1>5, <3>1
    <3>3. CASE k = 1
      <4>1. T[i].parent = 0
        BY <1>1, <3>1, <3>2, <3>3 DEF IsBranch, Linked
      <4> QED
        BY <1>1, <3>1, <3>2, <4>1
    <3>4. CASE k # 1
      <4>1. k - 1 \in 1 .. n /\ k - 1 < k /\ k \in 1 .. n
        BY <1>1, <3>4
      <4>2. T[i].parent = s[k - 1].id
        BY <1>1, <3>2, <3>4, <4>1 DEF IsBranch, Linked
      <4>3. s[k - 1].id < s[k].id
        BY <1>1, <4>1 DEF IsBranch, Rising
      <4>4. s[k - 1].id \in DOMAIN T
        BY <1>1, <1>4, <4>1
      <4> QED
        BY <1>1, <3>1, <3>2, <4>2, <4>3, <4>4
    <3> QED
      BY <3>3, <3>4
  <2> QED
    BY <2>1, <2>2 DEF IsTree
<1>7. EndOf(s) \in DOMAIN T \cup {0}
  <2>1. CASE s = <<>>
    BY <2>1 DEF EndOf
  <2>2. CASE s # <<>>
    <3>1. n \in 1 .. n /\ EndOf(s) = s[n].id
      BY <1>1, <2>2 DEF EndOf, n
    <3> QED
      BY <1>1, <1>4, <3>1
  <2> QED
    BY <2>1, <2>2
<1> QED
  BY <1>1, <1>4, <1>5, <1>6, <1>7 DEF T, n

\* The paths of a session that is one branch are the prefixes of it.
LEMMA IndexedPaths ==
  ASSUME NEW s, IsBranch(s), NEW i \in DOMAIN Indexed(s) \cup {0}
  PROVE  \E k \in 0 .. Len(s) : /\ buildSessionPath(Indexed(s), i) = SubSeq(s, 1, k)
                                /\ i = EndOf(s) => k = Len(s)
<1> DEFINE T == Indexed(s)
           n == Len(s)
           IdAt(k) == IF k = 0 THEN 0 ELSE s[k].id
           S == {k \in Nat : k <= n => buildSessionPath(T, IdAt(k)) = SubSeq(s, 1, k)}
<1>1. /\ s \in Seq(TreeEntries) /\ n \in Nat /\ DOMAIN s = 1 .. n
      /\ \A k \in 1 .. n : s[k] \in TreeEntries
  BY DEF IsBranch
<1>2. /\ IsTree(T) /\ DOMAIN T = {s[k].id : k \in DOMAIN s}
      /\ \A k \in DOMAIN s : T[s[k].id] = s[k]
  BY IndexedIs
<1>3. 0 \in S
  <2>1. buildSessionPath(T, 0) = <<>>
    BY <1>2, PathIs
  <2>2. SubSeq(s, 1, 0) = <<>>
    BY <1>1
  <2> QED
    BY <2>1, <2>2
<1> HIDE DEF T, n
<1>4. ASSUME NEW k \in S PROVE k + 1 \in S
  <2> SUFFICES ASSUME k + 1 <= n PROVE buildSessionPath(T, s[k + 1].id) = SubSeq(s, 1, k + 1)
    <3>1. IdAt(k + 1) = s[k + 1].id /\ k + 1 \in Nat
      OBVIOUS
    <3> QED
      BY <3>1
  <2>1. k \in Nat /\ k <= n /\ k + 1 \in 1 .. n /\ k \in 0 .. n
    BY <1>1
  <2>2. buildSessionPath(T, IdAt(k)) = SubSeq(s, 1, k)
    BY <2>1
  <2>3. s[k + 1].parent = IdAt(k)
    <3>1. s[k + 1].parent = IF k + 1 = 1 THEN 0 ELSE s[(k + 1) - 1].id
      BY <1>1, <2>1 DEF IsBranch, Linked
    <3>2. (k + 1) - 1 = k /\ (k + 1 = 1 <=> k = 0)
      BY <2>1
    <3> QED
      BY <3>1, <3>2
  <2>4. s[k + 1].id \in DOMAIN T /\ T[s[k + 1].id] = s[k + 1]
    BY <1>1, <1>2, <2>1
  <2>5. buildSessionPath(T, s[k + 1].id) = Append(SubSeq(s, 1, k), s[k + 1])
    <3> DEFINE x == s[k + 1].id
    <3>1. buildSessionPath(T, x) = Append(buildSessionPath(T, T[x].parent), T[x])
      BY <1>2, <2>4, PathIs
    <3>2. T[x] = s[k + 1] /\ T[x].parent = IdAt(k)
      BY <2>3, <2>4
    <3> HIDE DEF x, IdAt
    <3> QED
      BY <2>2, <3>1, <3>2, Zenon DEF x
  <2>6. SubSeq(s, 1, k + 1) = Append(SubSeq(s, 1, k), s[k + 1])
    BY <1>1, <2>1, Prefix DEF n
  <2> QED
    BY <2>5, <2>6
<1>5. S \in SUBSET Nat
  OBVIOUS
<1>6. \A k \in 0 .. n : buildSessionPath(T, IdAt(k)) = SubSeq(s, 1, k)
  <2> HIDE DEF S
  <2>1. \A k \in Nat : k \in S
    BY <1>3, <1>4, <1>5, NatBelow
  <2> QED
    BY <1>1, <2>1 DEF S
<1>7. EndOf(s) = IdAt(n)
  <2>1. s = <<>> <=> n = 0
    BY <1>1 DEF n
  <2> QED
    BY <2>1 DEF EndOf, n
<1>8. CASE i = EndOf(s)
  <2>1. n \in 0 .. n
    BY <1>1
  <2>2. buildSessionPath(T, i) = SubSeq(s, 1, n)
    BY <1>6, <1>7, <1>8, <2>1
  <2> QED
    BY <2>1, <2>2 DEF T, n
<1>9. CASE i # EndOf(s)
  <2>1. \E k \in 0 .. n : i = IdAt(k)
    <3>1. CASE i = 0
      BY <1>1, <3>1
    <3>2. CASE i \in DOMAIN T
      <4>1. PICK k \in 1 .. n : i = s[k].id
        BY <1>1, <1>2, <3>2
      <4>2. k \in 0 .. n /\ IdAt(k) = s[k].id
        BY <1>1
      <4> QED
        BY <4>1, <4>2
    <3> QED
      BY <3>1, <3>2 DEF T
  <2> QED
    BY <1>6, <1>9, <2>1 DEF T, n
<1> QED
  BY <1>8, <1>9

\* The retained entries and the labels behind them.
LEMMA TargetsAre ==
  ASSUME NEW r, IsBranch(r), labelled \subseteq EntryIds, nextId \in 1 .. MaxIds + 1
  PROVE  \E targets \in Seq(EntryIds) :
            /\ LabelEntries(r) = [k \in 1 .. Len(targets) |->
                  Label(nextId + k - 1, IF k = 1 THEN EndOf(r) ELSE nextId + k - 2,
                        targets[k], TRUE)]
            /\ labelled = {} => targets = <<>>
<1> DEFINE shown == labelled \cap {r[k].id : k \in DOMAIN r}
           targets == SetToSeq(shown)
<1>1. shown \subseteq EntryIds /\ IsFiniteSet(shown)
  <2>1. IsFiniteSet(EntryIds)
    BY TreeAssumption, FS_Interval DEF EntryIds
  <2> QED
    BY <2>1, FS_Subset
<1>2. targets \in Seq(shown)
  BY <1>1, SetToSeqIs
<1>3. LabelEntries(r) = [k \in 1 .. Len(targets) |->
          Label(nextId + k - 1, IF k = 1 THEN EndOf(r) ELSE nextId + k - 2, targets[k], TRUE)]
  BY DEF LabelEntries
<1>4. labelled = {} => targets = <<>>
  <2>1. ASSUME labelled = {} PROVE targets = <<>>
    <3>1. shown = {}
      BY <2>1
    <3> HIDE DEF shown, targets
    <3>2. targets \in Seq({})
      BY <1>2, <3>1
    <3> QED
      BY <3>2
  <2> QED
    BY <2>1
<1> HIDE DEF targets, shown
<1>5. targets \in Seq(EntryIds)
  BY <1>1, <1>2
<1> QED
  BY <1>3, <1>4, <1>5

LEMMA LabelEntriesAre ==
  ASSUME NEW r, IsBranch(r), labelled \subseteq EntryIds, nextId \in 1 .. MaxIds + 1,
         EndOf(r) < nextId, nextId + Len(LabelEntries(r)) <= MaxIds + 1
  PROVE  /\ Len(LabelEntries(r)) \in Nat /\ LabelEntries(r) \in Seq(TreeEntries)
         /\ \A k \in 1 .. Len(LabelEntries(r)) :
               /\ LabelEntries(r)[k].kind = "label"
               /\ LabelEntries(r)[k].id = nextId + k - 1
               /\ LabelEntries(r)[k].parent = IF k = 1 THEN EndOf(r) ELSE nextId + k - 2
         /\ labelled = {} => LabelEntries(r) = <<>>
<1> DEFINE l == LabelEntries(r)
<1>1. PICK targets \in Seq(EntryIds) :
        /\ l = [k \in 1 .. Len(targets) |->
                  Label(nextId + k - 1, IF k = 1 THEN EndOf(r) ELSE nextId + k - 2,
                        targets[k], TRUE)]
        /\ labelled = {} => targets = <<>>
  BY TargetsAre
<1> HIDE DEF l
<1> DEFINE m == Len(targets)
<1>2. m \in Nat /\ \A k \in 1 .. m : targets[k] \in EntryIds
  OBVIOUS
<1>3. DOMAIN l = 1 .. m
  BY <1>1
<1>4. Len(l) = m
  BY <1>2, <1>3
<1>5. EndOf(r) \in {0} \cup EntryIds
  <2>1. CASE r = <<>>
    BY <2>1 DEF EndOf
  <2>2. CASE r # <<>>
    <3>1. r \in Seq(TreeEntries)
      BY DEF IsBranch
    <3>2. r[Len(r)] \in TreeEntries
      BY <2>2, <3>1
    <3> QED
      BY <2>2, <3>2, TreeEntryIs DEF EndOf
  <2> QED
    BY <2>1, <2>2
<1> HIDE DEF m
<1>6. ASSUME NEW k \in 1 .. m
      PROVE  /\ l[k] \in TreeEntries /\ l[k].kind = "label" /\ l[k].id = nextId + k - 1
             /\ l[k].parent = IF k = 1 THEN EndOf(r) ELSE nextId + k - 2
  <2> DEFINE id == nextId + k - 1
             parent == IF k = 1 THEN EndOf(r) ELSE nextId + k - 2
  <2>1. l[k] = Label(id, parent, targets[k], TRUE)
    BY <1>1 DEF m
  <2>2. id \in EntryIds
    BY <1>2, <1>4, TreeAssumption DEF EntryIds, l
  <2>3. parent \in {0} \cup EntryIds
    <3>1. k # 1 => nextId + k - 2 \in EntryIds
      BY <1>2, <1>4, TreeAssumption DEF EntryIds, l
    <3> QED
      BY <1>5, <3>1
  <2> HIDE DEF id, parent
  <2>4. /\ l[k] \in TreeEntries /\ l[k].kind = "label" /\ l[k].id = id /\ l[k].parent = parent
    <3> DEFINE x == Label(id, parent, targets[k], TRUE)
    <3>1. targets[k] \in EntryIds /\ TRUE \in BOOLEAN
      BY <1>2
    <3>2. x \in TreeEntries /\ x.kind = "label" /\ x.id = id /\ x.parent = parent
      BY <2>2, <2>3, <3>1 DEF Label, TreeEntries, LabelsOf
    <3> HIDE DEF x
    <3>3. l[k] = x
      BY <2>1 DEF x
    <3> QED
      BY <3>2, <3>3
  <2> QED
    BY <2>4 DEF id, parent
<1>7. l \in Seq(TreeEntries)
  <2>1. l = [k \in 1 .. m |-> l[k]]
    <3>1. l = [k \in DOMAIN l |-> l[k]]
      BY <1>1
    <3> QED
      BY <1>3, <3>1
  <2> QED
    BY <1>2, <1>6, <2>1
<1>8. labelled = {} => l = <<>>
  <2>1. ASSUME labelled = {} PROVE l = <<>>
    <3>1. Len(l) = 0
      BY <1>1, <1>4, <2>1 DEF m
    <3> QED
      BY <1>7, <3>1
  <2> QED
    BY <2>1
<1> QED
  BY <1>2, <1>4, <1>6, <1>7, <1>8 DEF l

\* What a fork makes of the branch it takes.
LEMMA ForkedIs ==
  ASSUME NEW r, IsBranch(r), labelled \subseteq EntryIds, nextId \in 1 .. MaxIds + 1,
         EndOf(r) < nextId, nextId + Len(LabelEntries(r)) <= MaxIds + 1
  PROVE  LET list == r \o LabelEntries(r)
         IN  /\ IsBranch(list) /\ Len(list) = Len(r) + Len(LabelEntries(r))
             /\ \A k \in 1 .. Len(list) :
                   list[k] = IF k <= Len(r) THEN r[k] ELSE LabelEntries(r)[k - Len(r)]
             /\ \A k \in DOMAIN list : list[k].id < nextId + Len(LabelEntries(r))
<1> DEFINE l == LabelEntries(r)
           list == r \o l
           m == Len(r)
           n == Len(l)
<1>1. r \in Seq(TreeEntries) /\ m \in Nat /\ DOMAIN r = 1 .. m /\ Rising(r) /\ Linked(r)
  BY DEF IsBranch
<1>2. /\ n \in Nat /\ l \in Seq(TreeEntries)
      /\ \A k \in 1 .. n : /\ l[k].kind = "label" /\ l[k].id = nextId + k - 1
                           /\ l[k].parent = IF k = 1 THEN EndOf(r) ELSE nextId + k - 2
  BY LabelEntriesAre
<1> HIDE DEF l
<1>3. /\ list \in Seq(TreeEntries) /\ Len(list) = m + n
      /\ \A k \in 1 .. m + n : list[k] = IF k <= m THEN r[k] ELSE l[k - m]
  BY <1>1, <1>2, ConcatProperties
<1> HIDE DEF list, m, n
<1>4. DOMAIN list = 1 .. m + n
  BY <1>1, <1>2, <1>3
<1>5. nextId \in Nat
  OBVIOUS
<1>6. ASSUME NEW k \in 1 .. m
      PROVE  k \in 1 .. m + n /\ list[k] = r[k] /\ r[k].id \in Nat /\ r[k].id < nextId
  <2>1. k \in 1 .. m + n /\ list[k] = r[k]
    BY <1>1, <1>2, <1>3
  <2>2. r[k].id \in Nat
    <3>1. r[k] \in TreeEntries
      BY <1>1
    <3> QED
      BY <3>1, TreeEntryIs DEF EntryIds
  <2>3. m \in 1 .. m /\ EndOf(r) = r[m].id
    <3>1. m # 0 /\ r # <<>>
      BY <1>1 DEF m
    <3> QED
      BY <1>1, <3>1 DEF EndOf, m
  <2>4. k = m \/ r[k].id < r[m].id
    <3>1. k = m \/ k < m
      BY <1>1
    <3> QED
      BY <1>1, <2>3, <3>1 DEF Rising
  <2>5. r[m].id \in Nat
    <3>1. r[m] \in TreeEntries
      BY <1>1, <2>3
    <3> QED
      BY <3>1, TreeEntryIs DEF EntryIds
  <2> QED
    BY <1>5, <2>1, <2>2, <2>3, <2>4, <2>5
<1>7. ASSUME NEW k \in m + 1 .. m + n
      PROVE  /\ k \in 1 .. m + n /\ list[k].id = nextId + (k - m) - 1
             /\ list[k].parent = IF k = m + 1 THEN EndOf(r) ELSE nextId + (k - m) - 2
  <2>1. k - m \in 1 .. n /\ k \in 1 .. m + n /\ ~ (k <= m) /\ (k - m = 1 <=> k = m + 1)
    BY <1>1, <1>2
  <2>2. list[k] = l[k - m]
    BY <1>3, <2>1
  <2> QED
    BY <1>2, <2>1, <2>2
<1>8. \A k \in 1 .. m + n : k \in 1 .. m \/ k \in m + 1 .. m + n
  BY <1>1, <1>2
<1>9. \A k \in 1 .. m + n : list[k].id < nextId + n
  <2>1. ASSUME NEW k \in 1 .. m PROVE list[k].id < nextId + n
    BY <1>2, <1>5, <1>6
  <2>2. ASSUME NEW k \in m + 1 .. m + n PROVE list[k].id < nextId + n
    BY <1>1, <1>2, <1>5, <1>7
  <2> QED
    BY <1>8, <2>1, <2>2
<1>10. Rising(list)
  <2>1. ASSUME NEW j \in 1 .. m + n, NEW k \in 1 .. m + n, j < k PROVE list[j].id < list[k].id
    <3>1. CASE j \in 1 .. m /\ k \in 1 .. m
      <4>1. r[j].id < r[k].id
        BY <1>1, <2>1, <3>1 DEF Rising
      <4> QED
        BY <1>6, <3>1, <4>1
    <3>2. CASE j \in 1 .. m /\ k \in m + 1 .. m + n
      <4>1. list[j].id \in Nat /\ list[j].id < nextId
        BY <1>6, <3>2
      <4>2. list[k].id = nextId + (k - m) - 1
        BY <1>7, <3>2
      <4> QED
        BY <1>1, <1>2, <1>5, <3>2, <4>1, <4>2
    <3>3. CASE j \in m + 1 .. m + n /\ k \in m + 1 .. m + n
      <4>1. list[j].id = nextId + (j - m) - 1 /\ list[k].id = nextId + (k - m) - 1
        BY <1>7, <3>3
      <4> QED
        BY <1>1, <1>2, <1>5, <2>1, <3>3, <4>1
    <3>4. CASE j \in m + 1 .. m + n /\ k \in 1 .. m
      BY <1>1, <1>2, <2>1, <3>4
    <3> QED
      BY <1>8, <3>1, <3>2, <3>3, <3>4
  <2> QED
    BY <1>4, <2>1 DEF Rising
<1>11. Linked(list)
  <2>1. ASSUME NEW k \in 1 .. m + n PROVE list[k].parent = IF k = 1 THEN 0 ELSE list[k - 1].id
    <3>1. CASE k \in 1 .. m
      <4>1. r[k].parent = IF k = 1 THEN 0 ELSE r[k - 1].id
        BY <1>1, <3>1 DEF Linked
      <4>2. k # 1 => k - 1 \in 1 .. m
        BY <1>1, <3>1
      <4>3. list[k] = r[k] /\ (k # 1 => list[k - 1] = r[k - 1])
        BY <1>6, <3>1, <4>2
      <4> QED
        BY <4>1, <4>3
    <3>2. CASE k = m + 1
      <4>1. list[k].parent = EndOf(r)
        <5>1. k \in m + 1 .. m + n
          BY <1>1, <1>2, <3>2
        <5> QED
          BY <1>7, <3>2, <5>1
      <4>2. CASE m = 0
        <5>1. r = <<>>
          BY <1>1, <4>2 DEF m
        <5> QED
          BY <3>2, <4>1, <4>2, <5>1 DEF EndOf
      <4>3. CASE m # 0
        <5>1. r # <<>> /\ m \in 1 .. m /\ k # 1 /\ k - 1 = m
          BY <1>1, <3>2, <4>3 DEF m
        <5>2. EndOf(r) = r[m].id
          BY <5>1 DEF EndOf, m
        <5> QED
          BY <1>6, <4>1, <5>1, <5>2
      <4> QED
        BY <4>2, <4>3
    <3>3. CASE k \in m + 2 .. m + n
      <4>1. k \in m + 1 .. m + n /\ k - 1 \in m + 1 .. m + n /\ k # m + 1 /\ k # 1
        BY <1>1, <1>2, <3>3
      <4>2. list[k].parent = nextId + (k - m) - 2
        BY <1>7, <4>1
      <4>3. list[k - 1].id = nextId + ((k - 1) - m) - 1
        BY <1>7, <4>1
      <4>4. nextId + ((k - 1) - m) - 1 = nextId + (k - m) - 2
        BY <1>1, <1>2, <1>5, <3>3
      <4> QED
        BY <4>1, <4>2, <4>3, <4>4
    <3> QED
      BY <1>1, <1>2, <3>1, <3>2, <3>3
  <2> QED
    BY <1>4, <2>1 DEF Linked
<1>12. IsBranch(list)
  BY <1>3, <1>10, <1>11 DEF IsBranch
<1> QED
  BY <1>3, <1>4, <1>9, <1>12 DEF list, l, m, n

-----------------------------------------------------------------------------
(* Types.                                                                   *)

TreeShape == IsTree(entries) /\ \A i \in DOMAIN entries : i < nextId
RestTypes ==
    /\ leafId \in DOMAIN entries \cup {0}
    /\ labelled \subseteq EntryIds /\ nextId \in 1 .. MaxIds + 1
    /\ calling \in BOOLEAN
    /\ pending \in [ref : {0} \cup EntryIds, covers : SUBSET EntryIds]
    /\ jumps \in 0 .. MaxJumps

LEMMA TreeTypeIs == TreeTypeOK <=> TreeShape /\ RestTypes
BY DEF TreeTypeOK, TreeShape, RestTypes, IsTree

LEMMA TreeTypeIsPrime == TreeTypeOK' <=> TreeShape' /\ RestTypes'
BY DEF TreeTypeOK, TreeShape, RestTypes, IsTree

LEMMA LeafPath ==
  ASSUME TreeTypeOK
  PROVE  PathOf(entries, leafId, buildSessionPath(entries, leafId))
BY TreeTypeIs, PathFacts DEF TreeShape, RestTypes

LEMMA PlainIs ==
  ASSUME NEW kind \in Messages \cup {"metadata"}, TreeTypeOK, nextId <= MaxIds
  PROVE  /\ Plain(kind) \in TreeEntries /\ Plain(kind).id = nextId /\ Plain(kind).parent = leafId
         /\ Plain(kind).kind = kind
<1>1. nextId \in EntryIds /\ leafId \in {0} \cup EntryIds
  BY TreeTypeIs, TreeAssumption DEF RestTypes, TreeShape, IsTree, EntryIds
<1> QED
  BY <1>1 DEF Plain, TreeEntries, EntriesOf

LEMMA AddGrows ==
  ASSUME TreeTypeOK, NEW e \in TreeEntries, e.id = nextId, e.parent \in DOMAIN entries \cup {0},
         Add(e)
  PROVE  /\ Grown(entries, entries', e) /\ IsTree(entries') /\ TreeShape'
         /\ leafId' = nextId /\ leafId' \in DOMAIN entries' \cup {0}
         /\ nextId' = nextId + 1 /\ nextId' \in 1 .. MaxIds + 1
<1>1. IsTree(entries) /\ \A i \in DOMAIN entries : i < nextId
  BY TreeTypeIs DEF TreeShape
<1>2. nextId \in Nat /\ nextId' = nextId + 1 /\ nextId' \in 1 .. MaxIds + 1 /\ leafId' = nextId
  BY TreeTypeIs, TreeAssumption DEF RestTypes, Add
<1>3. /\ DOMAIN entries' = DOMAIN entries \cup {nextId} /\ entries'[nextId] = e
      /\ \A i \in DOMAIN entries : entries'[i] = entries[i]
  <2>1. nextId \notin DOMAIN entries
    BY <1>1, <1>2
  <2> QED
    BY <2>1 DEF Add
<1>4. Grown(entries, entries', e)
  BY <1>1, <1>3 DEF Grown
<1>5. IsTree(entries')
  BY <1>4, GrownIs
<1>6. TreeShape'
  <2>1. \A i \in DOMAIN entries : i \in Nat
    BY <1>1 DEF IsTree, EntryIds
  <2> QED
    BY <1>1, <1>2, <1>3, <1>5, <2>1 DEF TreeShape
<1> QED
  BY <1>2, <1>3, <1>4, <1>5, <1>6

-----------------------------------------------------------------------------
(* Compaction.                                                              *)

LEMMA LatestIs ==
  ASSUME NEW s, Len(s) \in Nat, DOMAIN s = 1 .. Len(s)
  PROVE  /\ LatestCompaction(s) \in 0 .. Len(s)
         /\ LatestCompaction(s) # 0 => s[LatestCompaction(s)].kind = "compaction"
         /\ \A i \in DOMAIN s : s[i].kind = "compaction" => i <= LatestCompaction(s)
<1> DEFINE S == {0} \cup {i \in DOMAIN s : s[i].kind = "compaction"}
<1>1. S \in SUBSET (0 .. Len(s)) /\ S # {}
  OBVIOUS
<1>2. \A i \in S : i # 0 => s[i].kind = "compaction"
  OBVIOUS
<1>3. \A i \in DOMAIN s : s[i].kind = "compaction" => i \in S
  OBVIOUS
<1>4. LatestCompaction(s) = Max(S)
  BY DEF LatestCompaction
<1> HIDE DEF S
<1>5. Max(S) \in S /\ \A y \in S : Max(S) >= y
  BY <1>1, MaxIs
<1> QED
  BY <1>1, <1>2, <1>3, <1>4, <1>5

\* Where the summarized span starts: the first entry kept by the compaction
\* before, if it is there, and behind that compaction otherwise.
LEMMA BoundaryIs ==
  ASSUME NEW s, Len(s) \in Nat, DOMAIN s = 1 .. Len(s)
  PROVE  LET c == LatestCompaction(s)
         IN  /\ BoundaryStart(s) \in Nat /\ BoundaryStart(s) >= 1
             /\ c = 0 => BoundaryStart(s) = 1
             /\ c # 0 /\ KeptPlaces(s, c) # {} =>
                   /\ BoundaryStart(s) \in KeptPlaces(s, c)
                   /\ \A k \in KeptPlaces(s, c) : BoundaryStart(s) <= k
<1> DEFINE c == LatestCompaction(s)
           kept == KeptPlaces(s, c)
<1>1. c \in Nat
  BY LatestIs
<1>2. kept \in SUBSET Nat /\ \A k \in kept : k >= 1
  BY <1>1 DEF KeptPlaces
<1>3. BoundaryStart(s) = IF c = 0 \/ kept = {} THEN c + 1 ELSE Min(kept)
  BY DEF BoundaryStart
<1> HIDE DEF c, kept
<1>4. kept # {} => Min(kept) \in kept /\ \A y \in kept : Min(kept) <= y
  BY <1>2, MinIs
<1> DEFINE b == BoundaryStart(s)
<1> HIDE DEF b
<1>5. b \in Nat /\ b >= 1 /\ (c = 0 => b = 1) /\ (c # 0 /\ kept # {} => b = Min(kept))
  <2>1. CASE c = 0 \/ kept = {}
    <3>1. b = c + 1
      BY <1>3, <2>1 DEF b
    <3> QED
      BY <1>1, <2>1, <3>1
  <2>2. CASE c # 0 /\ kept # {}
    <3>1. b = Min(kept) /\ Min(kept) \in kept
      BY <1>3, <1>4, <2>2 DEF b
    <3> QED
      BY <1>2, <2>2, <3>1
  <2> QED
    BY <2>1, <2>2
<1>6. c # 0 /\ kept # {} => b \in kept /\ \A k \in kept : b <= k
  BY <1>4, <1>5
<1> QED
  BY <1>5, <1>6 DEF b, c, kept

LEMMA CutIs ==
  ASSUME NEW s, Len(s) \in Nat, DOMAIN s = 1 .. Len(s), NEW cut \in CutPoints(s)
  PROVE  /\ cut \in DOMAIN s /\ s[cut].kind \in {"user", "assistant", "branch_summary"}
         /\ FirstKept(s, cut) \in BoundaryStart(s) .. cut /\ FirstKept(s, cut) \in DOMAIN s
         /\ \A k \in FirstKept(s, cut) .. cut - 1 : ~Visible(s[k])
<1>1. BoundaryStart(s) \in Nat /\ BoundaryStart(s) >= 1
  BY BoundaryIs
<1> DEFINE b == BoundaryStart(s)
           S == {j \in b .. cut : \A k \in j .. cut - 1 : ~Visible(s[k])}
<1>2. cut \in b .. Len(s) /\ cut \in Nat /\ s[cut].kind \in {"user", "assistant", "branch_summary"}
  BY <1>1 DEF CutPoints
<1>3. FirstKept(s, cut) = Min(S)
  BY DEF FirstKept
<1> HIDE DEF b
<1>4. b \in Nat /\ b >= 1
  BY <1>1 DEF b
<1>5. cut \in S
  BY <1>2, <1>4
<1>6. S \in SUBSET Nat /\ S # {}
  BY <1>4, <1>5
<1>7. \A j \in S : j \in b .. cut /\ \A k \in j .. cut - 1 : ~Visible(s[k])
  OBVIOUS
<1> HIDE DEF S
<1>8. Min(S) \in S
  BY <1>6, MinIs
<1>9. FirstKept(s, cut) \in b .. cut /\ \A k \in FirstKept(s, cut) .. cut - 1 : ~Visible(s[k])
  BY <1>3, <1>7, <1>8
<1>10. cut \in DOMAIN s /\ FirstKept(s, cut) \in DOMAIN s
  BY <1>2, <1>4, <1>9
<1> QED
  BY <1>2, <1>9, <1>10 DEF b

\* What a compaction keeps first and covers.
LEMMA PreparedIs ==
  ASSUME NEW s \in Seq(TreeEntries), NEW kept \in DOMAIN s
  PROVE  /\ Prepared(s, kept).ref = s[kept].id
         /\ \A j \in BoundaryStart(s) .. kept - 1 :
               Summarizable(s[j]) => s[j].id \in Prepared(s, kept).covers
         /\ Prepared(s, kept) \in [ref : {0} \cup EntryIds, covers : SUBSET EntryIds]
<1> DEFINE c == LatestCompaction(s)
           start == SplitTurnStart(s, kept)
           summarized == MessagesAt(s, BoundaryStart(s) .. kept - 1)
           history == IF start = 0 THEN summarized
                      ELSE MessagesAt(s, BoundaryStart(s) .. start - 1)
           previous == IF c = 0 \/ history = {} THEN {} ELSE s[c].covers
<1>1. Prepared(s, kept) = [ref |-> s[kept].id, covers |-> summarized \cup previous]
  BY DEF Prepared, Compaction
<1>2. Len(s) \in Nat /\ DOMAIN s = 1 .. Len(s) /\ \A k \in 1 .. Len(s) : s[k] \in TreeEntries
  OBVIOUS
<1>3. BoundaryStart(s) \in Nat /\ BoundaryStart(s) >= 1
  BY <1>2, BoundaryIs
<1>4. summarized \subseteq EntryIds
  <2>1. \A j \in BoundaryStart(s) .. kept - 1 : j \in 1 .. Len(s)
    BY <1>2, <1>3
  <2> QED
    BY <1>2, <2>1, TreeEntryIs DEF MessagesAt
<1>5. previous \subseteq EntryIds
  <2>1. c # 0 => c \in 1 .. Len(s) /\ s[c].kind = "compaction"
    BY <1>2, LatestIs
  <2>2. c # 0 => s[c].covers \subseteq EntryIds
    BY <1>2, <2>1, TreeEntryIs
  <2> HIDE DEF c, history
  <2> QED
    BY <2>2
<1>6. \A j \in BoundaryStart(s) .. kept - 1 : Summarizable(s[j]) => s[j].id \in summarized
  BY DEF MessagesAt
<1>7. s[kept].id \in EntryIds
  BY <1>2, TreeEntryIs
<1> HIDE DEF summarized, previous
<1> DEFINE ref == s[kept].id
           covers == summarized \cup previous
<1>8. covers \subseteq EntryIds
  BY <1>4, <1>5
<1>9. \A j \in BoundaryStart(s) .. kept - 1 : Summarizable(s[j]) => s[j].id \in covers
  BY <1>6
<1>10. ref \in EntryIds
  BY <1>7
<1> HIDE DEF ref, covers
<1>11. Prepared(s, kept) = [ref |-> ref, covers |-> covers]
  BY <1>1 DEF ref, covers
<1>12. /\ Prepared(s, kept).ref = ref /\ Prepared(s, kept).covers = covers
       /\ Prepared(s, kept) \in [ref : {0} \cup EntryIds, covers : SUBSET EntryIds]
  BY <1>8, <1>10, <1>11
<1> QED
  BY <1>9, <1>12 DEF ref

-----------------------------------------------------------------------------
(* Each step keeps the types.                                               *)

\* An entry is appended behind the leaf or, by a branch summary, elsewhere.
LEMMA AddKeepsTypes ==
  ASSUME TreeTypeOK, NEW e \in TreeEntries, e.id = nextId, e.parent \in DOMAIN entries \cup {0},
         Add(e), labelled' \subseteq EntryIds, calling' \in BOOLEAN,
         pending' \in [ref : {0} \cup EntryIds, covers : SUBSET EntryIds],
         jumps' \in 0 .. MaxJumps
  PROVE  TreeTypeOK'
BY AddGrows, TreeTypeIsPrime DEF RestTypes

LEMMA OthersAre ==
  ASSUME TreeTypeOK
  PROVE  /\ labelled \subseteq EntryIds /\ calling \in BOOLEAN /\ nextId \in 1 .. MaxIds + 1
         /\ pending \in [ref : {0} \cup EntryIds, covers : SUBSET EntryIds]
         /\ jumps \in 0 .. MaxJumps /\ NoCompaction \in [ref : {0} \cup EntryIds, covers : SUBSET EntryIds]
         /\ leafId \in DOMAIN entries \cup {0} /\ leafId \in {0} \cup EntryIds
         /\ DOMAIN entries \subseteq EntryIds /\ IsTree(entries) /\ \A i \in DOMAIN entries : i < nextId
<1>1. TreeShape /\ RestTypes
  BY TreeTypeIs
<1>2. NoCompaction \in [ref : {0} \cup EntryIds, covers : SUBSET EntryIds]
  BY DEF NoCompaction, Compaction
<1> QED
  BY <1>1, <1>2 DEF TreeShape, RestTypes, IsTree

\* The entries that the steps append.
LEMMA SummaryIs ==
  ASSUME TreeTypeOK, nextId <= MaxIds, NEW id \in DOMAIN entries \cup {0}
  PROVE  LET e == [id |-> nextId, kind |-> "branch_summary", parent |-> id]
         IN  e \in TreeEntries /\ e.id = nextId /\ e.parent = id /\ e.kind = "branch_summary"
<1>1. nextId \in EntryIds /\ id \in {0} \cup EntryIds
  BY OthersAre, TreeAssumption DEF EntryIds
<1> QED
  BY <1>1 DEF TreeEntries, EntriesOf

Finished == [id |-> nextId, kind |-> "compaction", parent |-> leafId,
             ref |-> pending.ref, covers |-> pending.covers]

LEMMA FinishedIs ==
  ASSUME TreeTypeOK, nextId <= MaxIds, pending.ref \in EntryIds
  PROVE  /\ Finished \in TreeEntries /\ Finished.id = nextId /\ Finished.parent = leafId
         /\ Finished.kind = "compaction" /\ Finished.ref = pending.ref
         /\ Finished.covers = pending.covers
<1>1. /\ nextId \in EntryIds /\ leafId \in {0} \cup EntryIds /\ pending.ref \in EntryIds
      /\ pending.covers \subseteq EntryIds
  BY OthersAre, TreeAssumption DEF EntryIds
<1>2. Finished \in CompactionsOf
  BY <1>1 DEF CompactionsOf, Finished
<1> QED
  BY <1>2 DEF TreeEntries, Finished

\* What a compaction in progress keeps first is an entry.
PendingKnown == pending # NoCompaction => pending.ref \in EntryIds

LEMMA MetadataKinds == \A kind \in Messages : kind \in Messages \cup {"metadata"}
OBVIOUS

LEMMA StartIs ==
  ASSUME TreeTypeOK, StartCompaction
  PROVE  LET s == buildSessionPath(entries, leafId)
         IN  \E cut \in CutPoints(s) : pending' = Prepared(s, FirstKept(s, cut))
BY DEF StartCompaction

LEMMA StartTypes ==
  ASSUME TreeTypeOK, StartCompaction
  PROVE  /\ pending' \in [ref : {0} \cup EntryIds, covers : SUBSET EntryIds]
         /\ PendingKnown'
<1> DEFINE s == buildSessionPath(entries, leafId)
<1>1. s \in Seq(TreeEntries)
  BY LeafPath DEF PathOf, IsBranch
<1>2. PICK cut \in CutPoints(s) : pending' = Prepared(s, FirstKept(s, cut))
  BY StartIs
<1> HIDE DEF s
<1> DEFINE kept == FirstKept(s, cut)
<1>3. Len(s) \in Nat /\ DOMAIN s = 1 .. Len(s)
  BY <1>1
<1>4. kept \in DOMAIN s
  BY <1>3, CutIs
<1> HIDE DEF kept
<1>5. /\ Prepared(s, kept).ref = s[kept].id
      /\ Prepared(s, kept) \in [ref : {0} \cup EntryIds, covers : SUBSET EntryIds]
  BY <1>1, <1>4, PreparedIs
<1>6. s[kept].id \in EntryIds
  <2>1. s[kept] \in TreeEntries
    BY <1>1, <1>3, <1>4
  <2> QED
    BY <2>1, TreeEntryIs
<1> QED
  BY <1>2, <1>5, <1>6 DEF kept, PendingKnown

\* The branch that a fork takes, and what becomes of it.
LEMMA ForkIs ==
  ASSUME TreeTypeOK, NEW id \in DOMAIN entries, Fork(id)
  PROVE  LET s == buildSessionPath(entries, id)
             r == WithoutLabels(s)
             list == r \o LabelEntries(r)
         IN  /\ PathOf(entries, id, s) /\ Filtered(r, s, Len(s)) /\ IsBranch(list)
             /\ EndOf(r) < nextId /\ nextId + Len(LabelEntries(r)) <= MaxIds + 1
             /\ entries' = Indexed(list) /\ leafId' = EndOf(list)
             /\ nextId' = nextId + Len(LabelEntries(r)) /\ nextId' \in 1 .. MaxIds + 1
             /\ \A k \in DOMAIN list : list[k].id < nextId'
             /\ labelled' = Replayed(entries') /\ Replace
<1> DEFINE s == buildSessionPath(entries, id)
           r == WithoutLabels(s)
           l == LabelEntries(r)
           list == r \o l
<1>1. PathOf(entries, id, s)
  BY OthersAre, PathFacts
<1>2. IsBranch(s)
  BY <1>1 DEF PathOf
<1>3. Filtered(r, s, Len(s))
  BY <1>2, RetainedIs
<1>4. /\ entries' = Indexed(list) /\ leafId' = EndOf(list) /\ Replace
      /\ nextId' = nextId + Len(l) /\ nextId' <= MaxIds + 1
      /\ labelled' = Replayed(Indexed(list))
  BY DEF Fork
<1> HIDE DEF s, r
<1>5. IsBranch(r)
  BY <1>3 DEF Filtered
<1>6. EndOf(r) < nextId
  <2>1. CASE r = <<>>
    BY <2>1, OthersAre DEF EndOf
  <2>2. CASE r # <<>>
    <3>1. r \in Seq(TreeEntries) /\ Len(r) \in 1 .. Len(r) /\ EndOf(r) = r[Len(r)].id
      BY <1>5, <2>2 DEF IsBranch, EndOf
    <3>2. PICK f : Filters(f, r, s, Len(s))
      BY <1>3 DEF Filtered
    <3>3. f[Len(r)] \in 1 .. Len(s) /\ r[Len(r)].id = s[f[Len(r)]].id
      BY <3>1, <3>2 DEF Filters, Alike
    <3>4. DOMAIN s = 1 .. Len(s)
      BY <1>2 DEF IsBranch
    <3>5. s[f[Len(r)]].id \in DOMAIN entries
      BY <1>1, <3>3, <3>4 DEF PathOf
    <3> QED
      BY <3>1, <3>3, <3>5, OthersAre
  <2> QED
    BY <2>1, <2>2
<1>7. labelled \subseteq EntryIds /\ nextId \in 1 .. MaxIds + 1 /\ nextId + Len(l) <= MaxIds + 1
  BY <1>4, OthersAre
<1>8. IsBranch(list) /\ \A k \in DOMAIN list : list[k].id < nextId + Len(l)
  BY <1>5, <1>6, <1>7, ForkedIs
<1>9. Len(l) \in Nat
  BY <1>5, <1>6, <1>7, LabelEntriesAre
<1> HIDE DEF l, list
<1>10. nextId' \in 1 .. MaxIds + 1
  BY <1>4, <1>7, <1>9, TreeAssumption
<1> QED
  BY <1>1, <1>3, <1>4, <1>6, <1>7, <1>8, <1>10 DEF s, r, l, list

LEMMA ReplayedIs == ASSUME NEW T, IsTree(T) PROVE Replayed(T) \subseteq EntryIds
<1>1. \A i \in DOMAIN T : T[i].kind = "label" => T[i].ref \in EntryIds
  BY TreeEntryIs DEF IsTree
<1> QED
  BY <1>1 DEF Replayed

LEMMA ForkTypes ==
  ASSUME TreeTypeOK, NEW id \in DOMAIN entries, Fork(id)
  PROVE  TreeTypeOK'
<1> DEFINE r == WithoutLabels(buildSessionPath(entries, id))
           list == r \o LabelEntries(r)
<1>1. /\ IsBranch(list) /\ entries' = Indexed(list) /\ leafId' = EndOf(list)
      /\ nextId' \in 1 .. MaxIds + 1 /\ \A k \in DOMAIN list : list[k].id < nextId'
      /\ labelled' = Replayed(entries') /\ Replace
  BY ForkIs
<1> HIDE DEF r, list
<1>2. /\ IsTree(entries') /\ DOMAIN entries' = {list[k].id : k \in DOMAIN list}
      /\ leafId' \in DOMAIN entries' \cup {0}
  BY <1>1, IndexedIs
<1>3. \A i \in DOMAIN entries' : i < nextId'
  BY <1>1, <1>2
<1>4. labelled' \subseteq EntryIds
  BY <1>1, <1>2, ReplayedIs
<1>5. /\ calling' \in BOOLEAN /\ jumps' \in 0 .. MaxJumps
      /\ pending' \in [ref : {0} \cup EntryIds, covers : SUBSET EntryIds]
  <2>1. calling' = FALSE /\ pending' = NoCompaction /\ jumps < MaxJumps /\ jumps' = jumps + 1
    BY <1>1 DEF Replace, Jump
  <2>2. jumps' \in 0 .. MaxJumps
    BY <2>1, OthersAre, TreeAssumption
  <2> QED
    BY <2>1, <2>2, OthersAre
<1> QED
  BY <1>1, <1>2, <1>3, <1>4, <1>5, TreeTypeIsPrime DEF TreeShape, RestTypes

TInv == TreeTypeOK /\ PendingKnown

LEMMA InitTypes == TreeInit => TInv
<1> SUFFICES ASSUME TreeInit PROVE TInv
  OBVIOUS
<1>1. NoCompaction \in [ref : {0} \cup EntryIds, covers : SUBSET EntryIds]
  BY DEF NoCompaction, Compaction
<1>2. TreeShape
  BY DEF TreeInit, TreeShape, IsTree
<1>3. RestTypes
  <2>1. 1 \in 1 .. MaxIds + 1 /\ 0 \in 0 .. MaxJumps /\ FALSE \in BOOLEAN /\ {} \subseteq EntryIds
    BY TreeAssumption
  <2>2. /\ leafId = 0 /\ labelled = {} /\ nextId = 1 /\ calling = FALSE
        /\ pending = NoCompaction /\ jumps = 0
    BY DEF TreeInit
  <2> QED
    BY <1>1, <2>1, <2>2 DEF RestTypes
<1> QED
  BY <1>2, <1>3, TreeTypeIs DEF TInv, PendingKnown, TreeInit

LEMMA StepTypes == TInv /\ [TreeNext]_treeVars => TInv'
<1> SUFFICES ASSUME TInv, [TreeNext]_treeVars PROVE TInv'
  OBVIOUS
<1>0. TreeTypeOK /\ PendingKnown
  BY DEF TInv
<1>1. ASSUME NEW kind \in Messages, AppendMessage(kind) PROVE TInv'
  <2>1. Add(Plain(kind)) /\ UNCHANGED <<labelled, pending, jumps>> /\ calling' \in BOOLEAN
    BY <1>1 DEF AppendMessage
  <2>2. nextId <= MaxIds
    BY <2>1 DEF Add
  <2>3. /\ Plain(kind) \in TreeEntries /\ Plain(kind).id = nextId /\ Plain(kind).parent = leafId
    BY <1>0, <2>2, PlainIs
  <2>4. TreeTypeOK'
    BY <1>0, <2>1, <2>3, OthersAre, AddKeepsTypes
  <2> QED
    BY <1>0, <2>1, <2>4 DEF TInv, PendingKnown
<1>2. CASE AppendMetadata
  <2>1. Add(Plain("metadata")) /\ UNCHANGED <<labelled, calling, pending, jumps>>
    BY <1>2 DEF AppendMetadata
  <2>2. nextId <= MaxIds
    BY <2>1 DEF Add
  <2>3. /\ Plain("metadata") \in TreeEntries /\ Plain("metadata").id = nextId
        /\ Plain("metadata").parent = leafId
    BY <1>0, <2>2, PlainIs
  <2>4. TreeTypeOK'
    BY <1>0, <2>1, <2>3, OthersAre, AddKeepsTypes
  <2> QED
    BY <1>0, <2>1, <2>4 DEF TInv, PendingKnown
<1>3. ASSUME NEW target \in DOMAIN entries, NEW on \in BOOLEAN, AppendLabelChange(target, on)
      PROVE  TInv'
  <2> DEFINE e == Label(nextId, leafId, target, on)
  <2>1. Add(e) /\ UNCHANGED <<calling, pending, jumps>> /\ labelled' \subseteq labelled \cup {target}
    BY <1>3 DEF AppendLabelChange
  <2>2. nextId \in EntryIds /\ leafId \in {0} \cup EntryIds /\ target \in EntryIds
    <3>1. nextId <= MaxIds
      BY <2>1 DEF Add
    <3> QED
      BY <1>0, <3>1, OthersAre, TreeAssumption DEF EntryIds
  <2>3. e \in TreeEntries /\ e.id = nextId /\ e.parent = leafId
    BY <2>2 DEF Label, TreeEntries, LabelsOf
  <2> HIDE DEF e
  <2>4. TreeTypeOK'
    BY <1>0, <2>1, <2>2, <2>3, OthersAre, AddKeepsTypes
  <2> QED
    BY <1>0, <2>1, <2>4 DEF TInv, PendingKnown
<1>4. CASE StartCompaction
  <2>1. UNCHANGED <<entries, leafId, labelled, nextId, jumps>> /\ calling' = FALSE
    BY <1>4 DEF StartCompaction
  <2>2. pending' \in [ref : {0} \cup EntryIds, covers : SUBSET EntryIds] /\ PendingKnown'
    BY <1>0, <1>4, StartTypes
  <2>3. TreeShape' /\ RestTypes'
    BY <1>0, <2>1, <2>2, TreeTypeIs DEF TreeShape, RestTypes
  <2> QED
    BY <2>2, <2>3, TreeTypeIsPrime DEF TInv
<1>5. CASE FinishCompaction
  <2>1. Add(Finished) /\ UNCHANGED <<labelled, calling, jumps>> /\ pending' = NoCompaction
    BY <1>5 DEF FinishCompaction, Finished
  <2>2. nextId <= MaxIds /\ pending.ref \in EntryIds
    BY <1>0, <1>5, <2>1 DEF Add, FinishCompaction, PendingKnown
  <2>3. Finished \in TreeEntries /\ Finished.id = nextId /\ Finished.parent = leafId
    BY <1>0, <2>2, FinishedIs
  <2>4. TreeTypeOK'
    BY <1>0, <2>1, <2>3, OthersAre, AddKeepsTypes
  <2> QED
    BY <2>1, <2>4 DEF TInv, PendingKnown, NoCompaction
<1>6. CASE CancelCompaction
  <2>1. UNCHANGED <<entries, leafId, labelled, nextId, calling, jumps>> /\ pending' = NoCompaction
    BY <1>6 DEF CancelCompaction
  <2>2. TreeShape' /\ RestTypes'
    BY <1>0, <2>1, TreeTypeIs, OthersAre DEF TreeShape, RestTypes
  <2> QED
    BY <2>1, <2>2, TreeTypeIsPrime DEF TInv, PendingKnown, NoCompaction
<1>7. ASSUME NEW id \in DOMAIN entries \cup {0}, BranchFrom(id) PROVE TInv'
  <2>1. /\ UNCHANGED <<entries, labelled, nextId, calling, pending>> /\ leafId' = id
        /\ jumps' \in 0 .. MaxJumps
    BY <1>0, <1>7, OthersAre, TreeAssumption DEF BranchFrom, Navigate, Jump
  <2>2. TreeShape' /\ RestTypes'
    BY <1>0, <1>7, <2>1, TreeTypeIs DEF TreeShape, RestTypes
  <2> QED
    BY <1>0, <2>1, <2>2, TreeTypeIsPrime DEF TInv, PendingKnown
<1>8. ASSUME NEW id \in DOMAIN entries \cup {0}, BranchWithSummary(id) PROVE TInv'
  <2> DEFINE e == [id |-> nextId, kind |-> "branch_summary", parent |-> id]
  <2>1. /\ Add(e) /\ UNCHANGED <<labelled, calling, pending>>
        /\ jumps' \in 0 .. MaxJumps
    BY <1>0, <1>8, OthersAre, TreeAssumption DEF BranchWithSummary, Navigate, Jump
  <2>2. nextId <= MaxIds
    BY <2>1 DEF Add
  <2>3. e \in TreeEntries /\ e.id = nextId /\ e.parent = id
    BY <1>0, <2>2, SummaryIs
  <2> HIDE DEF e
  <2>4. TreeTypeOK'
    BY <1>0, <2>1, <2>3, OthersAre, AddKeepsTypes
  <2> QED
    BY <1>0, <2>1, <2>4 DEF TInv, PendingKnown
<1>9. CASE NewSession
  <2>1. /\ entries' = <<>> /\ leafId' = 0 /\ labelled' = {} /\ nextId' = nextId
        /\ calling' = FALSE /\ pending' = NoCompaction /\ jumps' \in 0 .. MaxJumps
    BY <1>0, <1>9, OthersAre, TreeAssumption DEF NewSession, Replace, Jump
  <2>2. TreeShape'
    BY <2>1 DEF TreeShape, IsTree
  <2>3. RestTypes'
    <3>1. NoCompaction \in [ref : {0} \cup EntryIds, covers : SUBSET EntryIds]
      BY <1>0, OthersAre
    <3>2. nextId' \in 1 .. MaxIds + 1
      BY <1>0, <2>1, OthersAre
    <3> QED
      BY <2>1, <3>1, <3>2 DEF RestTypes
  <2> QED
    BY <2>1, <2>2, <2>3, TreeTypeIsPrime DEF TInv, PendingKnown, NoCompaction
<1>10. CASE Reopen
  <2>1. /\ UNCHANGED <<entries, nextId>> /\ leafId' = Max(DOMAIN entries)
        /\ labelled' = Replayed(entries) /\ DOMAIN entries # {}
        /\ calling' = FALSE /\ pending' = NoCompaction /\ jumps' \in 0 .. MaxJumps
    BY <1>0, <1>10, OthersAre, TreeAssumption DEF Reopen, Replace, Jump
  <2>2. leafId' \in DOMAIN entries
    <3>1. DOMAIN entries \in SUBSET (0 .. MaxIds)
      BY <1>0, OthersAre, TreeAssumption DEF EntryIds
    <3> QED
      BY <2>1, <3>1, MaxIs, TreeAssumption
  <2>3. labelled' \subseteq EntryIds
    BY <1>0, <2>1, OthersAre, ReplayedIs
  <2>4. TreeShape' /\ RestTypes'
    BY <1>0, <2>1, <2>2, <2>3, TreeTypeIs, OthersAre DEF TreeShape, RestTypes
  <2> QED
    BY <2>1, <2>4, TreeTypeIsPrime DEF TInv, PendingKnown
<1>11. ASSUME NEW id \in DOMAIN entries, Fork(id) PROVE TInv'
  <2>1. pending' = NoCompaction
    BY <1>11 DEF Fork, Replace
  <2> QED
    BY <1>0, <1>11, <2>1, ForkTypes DEF TInv, PendingKnown
<1>12. CASE UNCHANGED treeVars
  <2>1. TreeShape' /\ RestTypes'
    BY <1>0, <1>12, TreeTypeIs DEF TreeShape, RestTypes, treeVars
  <2> QED
    BY <1>0, <1>12, <2>1, TreeTypeIsPrime DEF TInv, PendingKnown, treeVars
<1> QED
  BY <1>1, <1>2, <1>3, <1>4, <1>5, <1>6, <1>7, <1>8, <1>9, <1>10, <1>11, <1>12 DEF TreeNext

LEMMA AlwaysTypes == TreeSpec => []TInv
BY InitTypes, StepTypes, PTL DEF TreeSpec

\* TreeTypeOK holds for any bounds: the leaf and every parent are entries of the
\* session, with forks that take label entries out of the middle of a branch,
\* and what a compaction in progress covers and keeps first are entries.
THEOREM TreeTypeCorrect == TreeSpec => []TreeTypeOK
<1>1. TInv => TreeTypeOK
  BY DEF TInv
<1> QED
  BY <1>1, AlwaysTypes, PTL

-----------------------------------------------------------------------------
(* Labels.                                                                  *)

\* What the label entries of a tree say of target.
Shows(T, x) ==
    \E i \in DOMAIN T :
        /\ T[i].kind = "label" /\ T[i].ref = x /\ T[i].on
        /\ \A k \in DOMAIN T : T[k].kind = "label" /\ T[k].ref = x => k <= i

LEMMA ReplayedShows == ASSUME NEW T PROVE \A x : x \in Replayed(T) <=> Shows(T, x)
BY DEF Replayed, Shows

LEMMA ReplayedEqual ==
  ASSUME NEW T, NEW U, \A x : Shows(U, x) <=> Shows(T, x)
  PROVE  Replayed(U) = Replayed(T)
BY ReplayedShows

\* Entries that are no labels change no label.
LEMMA ReplayOther ==
  ASSUME NEW T, NEW U, NEW e, Grown(T, U, e), e.kind # "label"
  PROVE  Replayed(U) = Replayed(T)
<1>1. /\ DOMAIN U = DOMAIN T \cup {e.id} /\ U[e.id] = e
      /\ \A i \in DOMAIN T : U[i] = T[i]
  BY DEF Grown
<1>2. ASSUME NEW x PROVE Shows(U, x) <=> Shows(T, x)
  BY <1>1 DEF Shows
<1> QED
  BY <1>2, ReplayedEqual

\* The last label entry of a target counts.
LEMMA ReplayLabel ==
  ASSUME NEW T, NEW U, NEW e, Grown(T, U, e), e.kind = "label", e.on \in BOOLEAN
  PROVE  Replayed(U) = IF e.on THEN Replayed(T) \cup {e.ref} ELSE Replayed(T) \ {e.ref}
<1>1. /\ DOMAIN U = DOMAIN T \cup {e.id} /\ U[e.id] = e
      /\ \A i \in DOMAIN T : U[i] = T[i] /\ i < e.id
  BY DEF Grown
<1>2. e.id \in Nat /\ \A i \in DOMAIN T : i \in Nat /\ i # e.id
  <2>1. e.id \in EntryIds /\ DOMAIN T \subseteq EntryIds
    BY TreeEntryIs DEF Grown, IsTree
  <2> QED
    BY <1>1, <2>1 DEF EntryIds
<1>3. ASSUME NEW x, x # e.ref PROVE Shows(U, x) <=> Shows(T, x)
  BY <1>1, <1>3 DEF Shows
<1>4. Shows(U, e.ref) <=> e.on
  <2>1. ASSUME e.on PROVE Shows(U, e.ref)
    <3>1. e.id \in DOMAIN U /\ U[e.id].kind = "label" /\ U[e.id].ref = e.ref /\ U[e.id].on
      BY <1>1, <2>1
    <3>2. \A k \in DOMAIN U : k <= e.id
      BY <1>1, <1>2
    <3> QED
      BY <3>1, <3>2 DEF Shows
  <2>2. ASSUME Shows(U, e.ref) PROVE e.on
    <3>1. PICK i \in DOMAIN U :
            /\ U[i].on /\ \A k \in DOMAIN U : U[k].kind = "label" /\ U[k].ref = e.ref => k <= i
      BY <2>2 DEF Shows
    <3>2. e.id <= i
      BY <1>1, <3>1
    <3>3. i = e.id
      BY <1>1, <1>2, <3>2
    <3> QED
      BY <1>1, <3>1, <3>3
  <2> QED
    BY <2>1, <2>2
<1>5. \A x : x \in Replayed(U) <=> IF x = e.ref THEN e.on ELSE x \in Replayed(T)
  BY <1>3, <1>4, ReplayedShows
<1>6. CASE e.on
  <2>1. \A x : x \in Replayed(U) <=> x \in Replayed(T) \cup {e.ref}
    BY <1>5, <1>6
  <2> QED
    BY <1>6, <2>1
<1>7. CASE ~ e.on
  <2>1. \A x : x \in Replayed(U) <=> x \in Replayed(T) \ {e.ref}
    BY <1>5, <1>7
  <2> QED
    BY <1>7, <2>1
<1> QED
  BY <1>6, <1>7

\* What the steps that append have in common.
Attaches(e) ==
    Add(e) /\ e \in TreeEntries /\ e.id = nextId /\ e.parent \in DOMAIN entries \cup {0}
Appends(e) == Attaches(e) /\ labelled' = labelled

\* A label entry.
Labelling(e, target, on) ==
    /\ AppendLabelChange(target, on) /\ Attaches(e) /\ e.parent = leafId
    /\ e.kind = "label" /\ e.ref = target /\ e.on = on

LEMMA AppendsAre ==
  ASSUME TInv, TreeNext
  PROVE  \/ \E kind \in Messages : AppendMessage(kind) /\ Appends(Plain(kind)) /\ Plain(kind).kind = kind
         \/ AppendMetadata /\ Appends(Plain("metadata")) /\ Plain("metadata").kind = "metadata"
         \/ FinishCompaction /\ Appends(Finished) /\ Finished.kind = "compaction"
         \/ \E id \in DOMAIN entries \cup {0} :
               LET e == [id |-> nextId, kind |-> "branch_summary", parent |-> id]
               IN  BranchWithSummary(id) /\ Appends(e) /\ e.kind = "branch_summary" /\ e.parent = id
         \/ \E target \in DOMAIN entries, on \in BOOLEAN :
               Labelling(Label(nextId, leafId, target, on), target, on)
         \/ \E id \in DOMAIN entries \cup {0} : BranchFrom(id)
         \/ StartCompaction \/ CancelCompaction \/ NewSession \/ Reopen
         \/ \E id \in DOMAIN entries : Fork(id)
<1>0. TreeTypeOK /\ PendingKnown /\ leafId \in DOMAIN entries \cup {0}
  BY OthersAre DEF TInv
<1>1. ASSUME NEW kind \in Messages, AppendMessage(kind)
      PROVE  Appends(Plain(kind)) /\ Plain(kind).kind = kind
  <2>1. Add(Plain(kind)) /\ labelled' = labelled /\ nextId <= MaxIds
    BY <1>1 DEF AppendMessage, Add
  <2> QED
    BY <1>0, <2>1, PlainIs DEF Appends, Attaches
<1>2. ASSUME AppendMetadata PROVE Appends(Plain("metadata")) /\ Plain("metadata").kind = "metadata"
  <2>1. Add(Plain("metadata")) /\ labelled' = labelled /\ nextId <= MaxIds
    BY <1>2 DEF AppendMetadata, Add
  <2> QED
    BY <1>0, <2>1, PlainIs DEF Appends, Attaches
<1>3. ASSUME FinishCompaction PROVE Appends(Finished) /\ Finished.kind = "compaction"
  <2>1. Add(Finished) /\ labelled' = labelled
    BY <1>3 DEF FinishCompaction, Finished
  <2>2. nextId <= MaxIds /\ pending.ref \in EntryIds
    BY <1>0, <1>3, <2>1 DEF Add, FinishCompaction, PendingKnown
  <2> QED
    BY <1>0, <2>1, <2>2, FinishedIs DEF Appends, Attaches
<1>4. ASSUME NEW id \in DOMAIN entries \cup {0}, BranchWithSummary(id)
      PROVE  LET e == [id |-> nextId, kind |-> "branch_summary", parent |-> id]
             IN  Appends(e) /\ e.kind = "branch_summary" /\ e.parent = id
  <2> DEFINE e == [id |-> nextId, kind |-> "branch_summary", parent |-> id]
  <2>1. Add(e) /\ labelled' = labelled
    BY <1>4 DEF BranchWithSummary, Navigate
  <2>2. nextId <= MaxIds
    BY <2>1 DEF Add
  <2>3. e \in TreeEntries /\ e.id = nextId /\ e.parent = id /\ e.kind = "branch_summary"
    BY <1>0, <2>2, SummaryIs
  <2> HIDE DEF e
  <2>4. Appends(e) /\ e.kind = "branch_summary" /\ e.parent = id
    BY <2>1, <2>3 DEF Appends, Attaches
  <2> QED
    BY <2>4 DEF e
<1>5. ASSUME NEW target \in DOMAIN entries, NEW on \in BOOLEAN, AppendLabelChange(target, on)
      PROVE  Labelling(Label(nextId, leafId, target, on), target, on)
  <2> DEFINE e == Label(nextId, leafId, target, on)
  <2>1. Add(e) /\ nextId <= MaxIds
    BY <1>5 DEF AppendLabelChange, Add
  <2>2. nextId \in EntryIds /\ leafId \in {0} \cup EntryIds /\ target \in EntryIds
    BY <1>0, <2>1, OthersAre, TreeAssumption DEF EntryIds
  <2>3. e \in TreeEntries /\ e.id = nextId /\ e.parent = leafId
    BY <2>2 DEF Label, TreeEntries, LabelsOf
  <2>4. e.kind = "label" /\ e.ref = target
    BY DEF Label
  <2>5. e.on = on
    BY Zenon DEF Label
  <2> HIDE DEF e
  <2>6. Labelling(e, target, on)
    BY <1>0, <1>5, <2>1, <2>3, <2>4, <2>5 DEF Labelling, Attaches
  <2> QED
    BY <2>6 DEF e
<1> QED
  BY <1>1, <1>2, <1>3, <1>4, <1>5 DEF TreeNext

LEMMA AttachGrows ==
  ASSUME TreeTypeOK, NEW e, Attaches(e)
  PROVE  Grown(entries, entries', e) /\ leafId' = e.id /\ leafId' = nextId
BY AddGrows DEF Attaches

LEMMA StepReplays == TInv /\ LabelsReplay /\ [TreeNext]_treeVars => LabelsReplay'
<1> SUFFICES ASSUME TInv, LabelsReplay, [TreeNext]_treeVars PROVE LabelsReplay'
  OBVIOUS
<1>0. TreeTypeOK /\ labelled = Replayed(entries)
  BY DEF TInv, LabelsReplay
<1>1. ASSUME NEW e, Appends(e), e.kind # "label" PROVE LabelsReplay'
  <2>1. Replayed(entries') = Replayed(entries)
    BY <1>0, <1>1, AttachGrows, ReplayOther DEF Appends
  <2> QED
    BY <1>0, <1>1, <2>1 DEF LabelsReplay, Appends
<1>2. ASSUME NEW target \in DOMAIN entries, NEW on \in BOOLEAN, NEW e, Labelling(e, target, on)
      PROVE  LabelsReplay'
  <2>1. labelled' = IF on THEN labelled \cup {target} ELSE labelled \ {target}
    BY <1>2 DEF Labelling, AppendLabelChange
  <2>2. Attaches(e) /\ e.kind = "label" /\ e.ref = target /\ e.on = on
    BY <1>2 DEF Labelling
  <2>3. Grown(entries, entries', e)
    BY <1>0, <2>2, AttachGrows
  <2>4. Replayed(entries') = IF e.on THEN Replayed(entries) \cup {e.ref} ELSE Replayed(entries) \ {e.ref}
    BY <2>2, <2>3, ReplayLabel
  <2> QED
    BY <1>0, <2>1, <2>2, <2>4 DEF LabelsReplay
<1>3. CASE UNCHANGED <<entries, labelled>>
  BY <1>0, <1>3 DEF LabelsReplay
<1>4. CASE NewSession
  <2>1. entries' = <<>> /\ labelled' = {}
    BY <1>4 DEF NewSession
  <2>2. DOMAIN <<>> = {}
    OBVIOUS
  <2> QED
    BY <2>1, <2>2 DEF LabelsReplay, Replayed
<1>5. CASE Reopen
  BY <1>5 DEF Reopen, LabelsReplay
<1>6. ASSUME NEW id \in DOMAIN entries, Fork(id) PROVE LabelsReplay'
  BY <1>6 DEF Fork, LabelsReplay
<1>7. StartCompaction \/ CancelCompaction \/ (\E id \in DOMAIN entries \cup {0} : BranchFrom(id))
        \/ UNCHANGED treeVars => UNCHANGED <<entries, labelled>>
  BY DEF StartCompaction, CancelCompaction, BranchFrom, Navigate, treeVars
<1>8. CASE TreeNext
  <2>1. ASSUME NEW kind \in Messages, Appends(Plain(kind)), Plain(kind).kind = kind PROVE LabelsReplay'
    BY <1>1, <2>1 DEF Messages
  <2> QED
    BY <1>1, <1>2, <1>3, <1>4, <1>5, <1>6, <1>7, <1>8, <2>1, AppendsAre
<1> QED
  BY <1>3, <1>7, <1>8

\* LabelsReplay holds for any bounds: forks, branches and reopenings in any order
\* lose no label and bring none back.
THEOREM LabelsStay == TreeSpec => []LabelsReplay
<1>1. TreeInit => LabelsReplay
  <2>1. DOMAIN <<>> = {}
    OBVIOUS
  <2> QED
    BY <2>1 DEF TreeInit, LabelsReplay, Replayed
<1>2. TInv /\ TInv' /\ LabelsReplay /\ [TreeNext]_treeVars => LabelsReplay'
  BY StepReplays
<1> QED
  BY <1>1, <1>2, AlwaysTypes, PTL DEF TreeSpec

-----------------------------------------------------------------------------
(* Results and their calls.                                                 *)

\* Of the messages from m on, the last one in front of j is a call or a result.
Preceded(s, m, j) ==
    \E i \in m .. j - 1 : /\ s[i].kind \in {"assistant", "toolResult"}
                          /\ \A k \in i + 1 .. j - 1 : ~Visible(s[k])

\* A result follows its call or a result; it does so among the entries from ref
\* on; in a path, among those that any compaction of it keeps; another result
\* may follow.
Batched(s) == \A j \in DOMAIN s : s[j].kind = "toolResult" => Preceded(s, 1, j)
CleanFrom(s, ref) ==
    \A m \in DOMAIN s : s[m].id = ref =>
        \A j \in m .. Len(s) : s[j].kind = "toolResult" => Preceded(s, m, j)
CutClean(s) ==
    \A c \in DOMAIN s : s[c].kind = "compaction" =>
        \A m \in KeptPlaces(s, c) : \A j \in m .. c - 1 :
            s[j].kind = "toolResult" => Preceded(s, m, j)
Whole(s) == Batched(s) /\ CutClean(s)
BatchOpen(s) == Preceded(s, 1, Len(s) + 1)

LEMMA PrecededSame ==
  ASSUME NEW s, NEW t, NEW m \in Nat, NEW j \in Nat, \A k \in m .. j - 1 : t[k] = s[k],
         Preceded(s, m, j)
  PROVE  Preceded(t, m, j)
<1>1. PICK i \in m .. j - 1 : /\ s[i].kind \in {"assistant", "toolResult"}
                              /\ \A k \in i + 1 .. j - 1 : ~Visible(s[k])
  BY DEF Preceded
<1>2. t[i] = s[i] /\ \A k \in i + 1 .. j - 1 : t[k] = s[k]
  BY <1>1
<1> QED
  BY <1>1, <1>2 DEF Preceded

\* What begins like a whole path, and goes on without results and compactions,
\* is whole.
LEMMA WholeBegins ==
  ASSUME NEW s, NEW t, Len(t) \in Nat, DOMAIN t = 1 .. Len(t), Len(s) \in Nat, DOMAIN s = 1 .. Len(s),
         Whole(s),
         \A k \in DOMAIN t : \/ k \in DOMAIN s /\ t[k] = s[k]
                             \/ t[k].kind \notin {"toolResult", "compaction"},
         \A k \in DOMAIN t : k \in DOMAIN s => t[k] = s[k]
  PROVE  Whole(t)
<1>1. ASSUME NEW j \in DOMAIN t, t[j].kind = "toolResult" PROVE Preceded(t, 1, j)
  <2>1. j \in DOMAIN s /\ t[j] = s[j] /\ j \in Nat /\ 1 \in Nat
    BY <1>1
  <2>2. Preceded(s, 1, j)
    BY <1>1, <2>1 DEF Whole, Batched
  <2>3. \A k \in 1 .. j - 1 : t[k] = s[k]
    BY <2>1
  <2> QED
    BY <2>1, <2>2, <2>3, PrecededSame
<1>2. ASSUME NEW c \in DOMAIN t, t[c].kind = "compaction", NEW m \in KeptPlaces(t, c),
             NEW j \in m .. c - 1, t[j].kind = "toolResult"
      PROVE  Preceded(t, m, j)
  <2>1. c \in DOMAIN s /\ t[c] = s[c] /\ c \in Nat
    BY <1>2
  <2>2. m \in 1 .. c - 1 /\ t[m].id = t[c].ref /\ m \in Nat
    BY <1>2, <2>1 DEF KeptPlaces
  <2>3. j \in Nat /\ \A k \in 1 .. c : t[k] = s[k]
    BY <2>1, <2>2
  <2>4. m \in KeptPlaces(s, c)
    BY <2>1, <2>2, <2>3 DEF KeptPlaces
  <2>5. Preceded(s, m, j)
    <3>1. s[c].kind = "compaction" /\ s[j].kind = "toolResult"
      BY <1>2, <2>1, <2>2, <2>3
    <3> QED
      BY <2>1, <2>4, <3>1 DEF Whole, CutClean
  <2>6. \A k \in m .. j - 1 : t[k] = s[k]
    BY <2>1, <2>2, <2>3
  <2> QED
    BY <2>2, <2>3, <2>5, <2>6, PrecededSame
<1> QED
  BY <1>1, <1>2 DEF Whole, Batched, CutClean

LEMMA WholePrefix ==
  ASSUME NEW S, NEW s \in Seq(S), Whole(s), NEW n \in 0 .. Len(s)
  PROVE  Whole(SubSeq(s, 1, n))
<1> DEFINE t == SubSeq(s, 1, n)
<1>1. t \in Seq(S) /\ Len(t) = n /\ \A i \in 1 .. n : t[i] = s[i]
  BY Prefix
<1> HIDE DEF t
<1>2. Len(t) \in Nat /\ DOMAIN t = 1 .. Len(t) /\ Len(s) \in Nat /\ DOMAIN s = 1 .. Len(s)
  BY <1>1
<1>3. \A k \in DOMAIN t : k \in DOMAIN s /\ t[k] = s[k]
  BY <1>1, <1>2
<1>4. Whole(t)
  BY <1>2, <1>3, WholeBegins
<1> QED
  BY <1>4 DEF t

LEMMA WholeAppend ==
  ASSUME NEW S, NEW s \in Seq(S), NEW e \in S, Whole(s),
         e.kind = "toolResult" => BatchOpen(s),
         e.kind = "compaction" => CleanFrom(s, e.ref)
  PROVE  Whole(Append(s, e))
<1> DEFINE t == Append(s, e)
           n == Len(s)
<1>1. /\ n \in Nat /\ Len(t) = n + 1 /\ DOMAIN s = 1 .. n /\ DOMAIN t = 1 .. n + 1
      /\ \A k \in 1 .. n : t[k] = s[k]
      /\ t[n + 1] = e
  BY Extended
<1> HIDE DEF t, n
<1>2. \A k \in 1 .. n + 1 : k = n + 1 \/ k \in 1 .. n
  BY <1>1
<1>3. ASSUME NEW j \in 1 .. n + 1, t[j].kind = "toolResult" PROVE Preceded(t, 1, j)
  <2>1. \A k \in 1 .. j - 1 : t[k] = s[k]
    BY <1>1
  <2>2. Preceded(s, 1, j)
    <3>1. CASE j = n + 1
      BY <1>1, <1>3, <3>1 DEF BatchOpen, n
    <3>2. CASE j \in 1 .. n
      <4>1. j \in DOMAIN s /\ s[j].kind = "toolResult"
        BY <1>1, <1>3, <3>2
      <4> QED
        BY <4>1 DEF Whole, Batched
    <3> QED
      BY <1>2, <3>1, <3>2
  <2> QED
    BY <2>1, <2>2, PrecededSame
<1>4. ASSUME NEW c \in 1 .. n + 1, t[c].kind = "compaction", NEW m \in KeptPlaces(t, c),
             NEW j \in m .. c - 1, t[j].kind = "toolResult"
      PROVE  Preceded(t, m, j)
  <2>1. m \in 1 .. c - 1 /\ t[m].id = t[c].ref /\ m \in Nat /\ j \in Nat /\ c \in Nat
    BY <1>4 DEF KeptPlaces
  <2>2. /\ m \in 1 .. n /\ j \in 1 .. n /\ j \in m .. n
        /\ \A k \in m .. j - 1 : t[k] = s[k]
    BY <1>1, <2>1
  <2>3. s[j].kind = "toolResult" /\ s[m].id = t[c].ref
    BY <1>1, <1>4, <2>1, <2>2
  <2>4. Preceded(s, m, j)
    <3>1. CASE c = n + 1
      <4>1. CleanFrom(s, e.ref) /\ s[m].id = e.ref
        BY <1>1, <1>4, <2>3, <3>1
      <4> QED
        BY <1>1, <2>2, <2>3, <4>1 DEF CleanFrom, n
    <3>2. CASE c \in 1 .. n
      <4>1. s[c] = t[c] /\ c \in DOMAIN s
        BY <1>1, <3>2
      <4>2. m \in KeptPlaces(s, c)
        BY <2>1, <2>3, <4>1 DEF KeptPlaces
      <4> QED
        BY <1>4, <2>3, <4>1, <4>2 DEF Whole, CutClean
    <3> QED
      BY <1>2, <3>1, <3>2
  <2> QED
    BY <2>1, <2>2, <2>4, PrecededSame
<1>5. Whole(t)
  BY <1>1, <1>3, <1>4 DEF Whole, Batched, CutClean
<1> QED
  BY <1>5 DEF t

LEMMA OpenAppend ==
  ASSUME NEW S, NEW s \in Seq(S), NEW e \in S,
         e.kind \in {"assistant", "toolResult"} \/ (~Visible(e) /\ BatchOpen(s))
  PROVE  BatchOpen(Append(s, e))
<1> DEFINE t == Append(s, e)
           n == Len(s)
<1>1. /\ n \in Nat /\ Len(t) = n + 1 /\ \A k \in 1 .. n : t[k] = s[k]
      /\ t[n + 1] = e
  BY Extended
<1> HIDE DEF t, n
<1>2. CASE e.kind \in {"assistant", "toolResult"}
  <2>1. n + 1 \in 1 .. (n + 2) - 1 /\ \A k \in (n + 1) + 1 .. (n + 2) - 1 : FALSE
    BY <1>1
  <2>2. Preceded(t, 1, n + 2)
    BY <1>1, <1>2, <2>1 DEF Preceded
  <2>3. Len(t) + 1 = n + 2
    BY <1>1
  <2> QED
    BY <2>2, <2>3 DEF BatchOpen, t
<1>3. CASE ~Visible(e) /\ BatchOpen(s)
  <2>1. PICK i \in 1 .. (n + 1) - 1 : /\ s[i].kind \in {"assistant", "toolResult"}
                                      /\ \A k \in i + 1 .. (n + 1) - 1 : ~Visible(s[k])
    BY <1>3 DEF BatchOpen, Preceded, n
  <2>2. i \in 1 .. n /\ i \in 1 .. (n + 2) - 1 /\ t[i] = s[i]
    BY <1>1
  <2>3. ASSUME NEW k \in i + 1 .. (n + 2) - 1 PROVE ~Visible(t[k])
    <3>1. k = n + 1 \/ (k \in i + 1 .. (n + 1) - 1 /\ k \in 1 .. n)
      BY <1>1, <2>2
    <3> QED
      BY <1>1, <1>3, <2>1, <3>1
  <2>4. Preceded(t, 1, n + 2)
    BY <2>1, <2>2, <2>3 DEF Preceded
  <2>5. Len(t) + 1 = n + 2
    BY <1>1
  <2> QED
    BY <2>4, <2>5 DEF BatchOpen, t
<1> QED
  BY <1>2, <1>3

LEMMA CleanAppend ==
  ASSUME NEW S, NEW s \in Seq(S), NEW e \in S, NEW ref, CleanFrom(s, ref), e.kind # "toolResult"
  PROVE  CleanFrom(Append(s, e), ref)
<1> DEFINE t == Append(s, e)
           n == Len(s)
<1>1. /\ n \in Nat /\ Len(t) = n + 1 /\ DOMAIN s = 1 .. n /\ DOMAIN t = 1 .. n + 1
      /\ \A k \in 1 .. n : t[k] = s[k]
      /\ t[n + 1] = e
  BY Extended
<1> HIDE DEF t
<1>2. ASSUME NEW m \in 1 .. n + 1, t[m].id = ref, NEW j \in m .. n + 1, t[j].kind = "toolResult"
      PROVE  Preceded(t, m, j)
  <2>1. j # n + 1
    BY <1>1, <1>2
  <2> HIDE DEF n
  <2>2. m \in 1 .. n /\ j \in m .. n /\ j \in 1 .. n /\ m \in Nat /\ j \in Nat
    BY <1>1, <1>2, <2>1
  <2>3. \A k \in m .. j - 1 : t[k] = s[k]
    BY <1>1, <2>2
  <2>4. s[m].id = ref /\ s[j].kind = "toolResult"
    BY <1>1, <1>2, <2>2
  <2>5. Preceded(s, m, j)
    BY <1>1, <2>2, <2>4 DEF CleanFrom, n
  <2> QED
    BY <2>2, <2>3, <2>5, PrecededSame
<1>3. CleanFrom(t, ref)
  BY <1>1, <1>2 DEF CleanFrom
<1> QED
  BY <1>3 DEF t

\* Taking the labels out of a path leaves it whole.
LEMMA VisibleAlike == ASSUME NEW x, NEW e, Alike(x, e) PROVE Visible(x) <=> Visible(e)
BY DEF Alike, Visible

LEMMA PrecededFiltered ==
  ASSUME NEW r, NEW s, NEW n \in Nat, Len(r) \in Nat, NEW f, Filters(f, r, s, n),
         NEW m \in 1 .. Len(r), NEW j \in 1 .. Len(r), NEW l \in Nat, l <= f[m],
         l = f[m] \/ m = 1, Preceded(s, l, f[j]), l >= 1
  PROVE  Preceded(r, m, j)
<1> DEFINE N == Len(r)
<1>1. /\ f \in [1 .. N -> 1 .. n]
      /\ \A a, b \in 1 .. N : a < b => f[a] < f[b]
      /\ \A i \in 1 .. n : s[i].kind # "label" => \E k \in 1 .. N : f[k] = i
      /\ \A k \in 1 .. N : Alike(r[k], s[f[k]]) /\ r[k].kind # "label"
  BY DEF Filters
<1>2. \A k \in 1 .. N : f[k] \in Nat /\ f[k] <= n
  BY <1>1
<1>3. PICK i \in l .. f[j] - 1 : /\ s[i].kind \in {"assistant", "toolResult"}
                                 /\ \A k \in i + 1 .. f[j] - 1 : ~Visible(s[k])
  BY DEF Preceded
<1>4. i \in 1 .. n /\ i \in Nat /\ i < f[j] /\ l <= i
  BY <1>2, <1>3
<1>5. PICK a \in 1 .. N : f[a] = i
  BY <1>1, <1>3, <1>4
<1>6. \A b, c \in 1 .. N : f[b] < f[c] => b < c
  <2>1. ASSUME NEW b \in 1 .. N, NEW c \in 1 .. N, f[b] < f[c], ~ (b < c) PROVE FALSE
    <3>1. b = c \/ c < b
      BY <2>1
    <3>2. f[c] <= f[b]
      BY <1>1, <1>2, <3>1
    <3> QED
      BY <1>2, <2>1, <3>2
  <2> QED
    BY <2>1
<1>7. a < j
  BY <1>4, <1>5, <1>6
<1>8. m <= a
  <2>1. CASE m = 1
    BY <2>1
  <2>2. CASE l = f[m]
    <3>1. ~ (f[a] < f[m])
      BY <1>2, <1>4, <1>5, <2>2
    <3>2. ~ (a < m)
      BY <1>1, <3>1
    <3> QED
      BY <3>2
  <2> QED
    BY <2>1, <2>2
<1>9. a \in m .. j - 1
  BY <1>7, <1>8
<1>10. r[a].kind \in {"assistant", "toolResult"}
  BY <1>1, <1>3, <1>5 DEF Alike
<1>11. ASSUME NEW k \in a + 1 .. j - 1 PROVE ~Visible(r[k])
  <2>1. k \in 1 .. N /\ a < k /\ k < j
    BY <1>9
  <2>2. f[a] < f[k] /\ f[k] < f[j]
    BY <1>1, <2>1
  <2>3. f[k] \in i + 1 .. f[j] - 1
    BY <1>2, <1>4, <1>5, <2>1, <2>2
  <2>4. ~Visible(s[f[k]])
    BY <1>3, <2>3
  <2> QED
    BY <1>1, <2>1, <2>4, VisibleAlike
<1> QED
  BY <1>9, <1>10, <1>11 DEF Preceded

LEMMA WholeFiltered ==
  ASSUME NEW s, IsBranch(s), Whole(s), NEW r, Filtered(r, s, Len(s))
  PROVE  Whole(r)
<1> DEFINE N == Len(r)
           n == Len(s)
<1>1. n \in Nat /\ DOMAIN s = 1 .. n /\ N \in Nat /\ DOMAIN r = 1 .. N
  BY DEF IsBranch, Filtered
<1>2. PICK f : Filters(f, r, s, n)
  BY DEF Filtered
<1>3. /\ f \in [1 .. N -> 1 .. n]
      /\ \A a, b \in 1 .. N : a < b => f[a] < f[b]
      /\ \A k \in 1 .. N : Alike(r[k], s[f[k]])
  BY <1>2 DEF Filters
<1> HIDE DEF N, n
<1>4. \A k \in 1 .. N : f[k] \in Nat /\ f[k] >= 1 /\ f[k] \in DOMAIN s /\ r[k].kind = s[f[k]].kind
  BY <1>1, <1>3 DEF Alike
<1>5. ASSUME NEW j \in 1 .. N, r[j].kind = "toolResult" PROVE Preceded(r, 1, j)
  <2>1. Preceded(s, 1, f[j])
    BY <1>4, <1>5 DEF Whole, Batched
  <2>2. 1 \in 1 .. N /\ 1 <= f[1] /\ 1 \in Nat /\ 1 >= 1
    <3>1. 1 \in 1 .. N
      BY <1>1
    <3> QED
      BY <1>4, <3>1
  <2> QED
    BY <1>1, <1>2, <2>1, <2>2, PrecededFiltered DEF N
<1>6. ASSUME NEW c \in 1 .. N, r[c].kind = "compaction", NEW m \in KeptPlaces(r, c),
             NEW j \in m .. c - 1, r[j].kind = "toolResult"
      PROVE  Preceded(r, m, j)
  <2>1. m \in 1 .. c - 1 /\ r[m].id = r[c].ref
    BY <1>6 DEF KeptPlaces
  <2>2. m \in 1 .. N /\ j \in 1 .. N /\ m < c /\ j < c /\ (m < j \/ m = j)
    BY <1>1, <2>1
  <2>3. f[m] < f[c] /\ f[j] < f[c] /\ f[m] <= f[j]
    <3>1. f[m] < f[c] /\ f[j] < f[c]
      BY <1>3, <2>2
    <3>2. m < j => f[m] < f[j]
      BY <1>3, <2>2
    <3>3. f[m] \in Nat /\ f[j] \in Nat
      BY <1>4, <2>2
    <3> QED
      BY <2>2, <3>1, <3>2, <3>3
  <2>4. s[f[c]].kind = "compaction" /\ s[f[c]].ref = r[c].ref /\ s[f[m]].id = r[m].id
    BY <1>3, <1>6, <2>2 DEF Alike
  <2>5. f[m] \in KeptPlaces(s, f[c])
    <3>1. f[m] \in 1 .. f[c] - 1
      BY <1>4, <2>2, <2>3
    <3> QED
      BY <2>1, <2>4, <3>1 DEF KeptPlaces
  <2>6. f[j] \in f[m] .. f[c] - 1 /\ s[f[j]].kind = "toolResult" /\ f[c] \in DOMAIN s
    BY <1>4, <1>6, <2>2, <2>3
  <2>7. Preceded(s, f[m], f[j])
    BY <2>4, <2>5, <2>6 DEF Whole, CutClean
  <2>8. f[m] \in Nat /\ f[m] <= f[m] /\ f[m] >= 1
    BY <1>4, <2>2
  <2> QED
    BY <1>1, <1>2, <2>2, <2>7, <2>8, PrecededFiltered DEF N
<1> QED
  BY <1>1, <1>5, <1>6 DEF Whole, Batched, CutClean

\* A cut falls in front of no result.
LEMMA CutCleanly ==
  ASSUME NEW s, IsBranch(s), Whole(s), NEW cut \in CutPoints(s)
  PROVE  CleanFrom(s, s[FirstKept(s, cut)].id)
<1> DEFINE kept == FirstKept(s, cut)
<1>1. Len(s) \in Nat /\ DOMAIN s = 1 .. Len(s) /\ Rising(s) /\ s \in Seq(TreeEntries)
  BY DEF IsBranch
<1>2. /\ cut \in DOMAIN s /\ s[cut].kind \in {"user", "assistant", "branch_summary"}
      /\ kept \in BoundaryStart(s) .. cut /\ kept \in DOMAIN s
      /\ \A k \in kept .. cut - 1 : ~Visible(s[k])
  BY <1>1, CutIs
<1> HIDE DEF kept
<1>3. kept \in Nat /\ cut \in Nat /\ kept >= 1 /\ kept <= cut
  <2>1. BoundaryStart(s) \in Nat
    BY <1>1, BoundaryIs
  <2> QED
    BY <1>1, <1>2, <2>1
<1>4. ASSUME NEW m \in DOMAIN s, s[m].id = s[kept].id PROVE m = kept
  <2>1. \A k \in DOMAIN s : s[k].id \in Nat
    <3>1. \A k \in DOMAIN s : s[k] \in TreeEntries
      BY <1>1
    <3> QED
      BY <3>1, TreeEntryIs DEF EntryIds
  <2>2. m < kept => s[m].id < s[kept].id
    BY <1>1, <1>2 DEF Rising
  <2>3. kept < m => s[kept].id < s[m].id
    BY <1>1, <1>2 DEF Rising
  <2> QED
    BY <1>1, <1>2, <1>4, <2>1, <2>2, <2>3
<1>5. ASSUME NEW j \in kept .. Len(s), s[j].kind = "toolResult" PROVE Preceded(s, kept, j)
  <2>1. j \in DOMAIN s /\ j \in Nat
    BY <1>1, <1>3
  <2>2. Visible(s[j]) /\ Visible(s[cut]) /\ j # cut
    BY <1>2, <1>5 DEF Visible, Messages
  <2>3. ~ (j < cut)
    BY <1>2, <1>3, <2>1, <2>2
  <2>4. cut < j
    BY <1>3, <2>1, <2>2, <2>3
  <2>5. PICK i \in 1 .. j - 1 : /\ s[i].kind \in {"assistant", "toolResult"}
                                /\ \A k \in i + 1 .. j - 1 : ~Visible(s[k])
    BY <1>5, <2>1 DEF Whole, Batched, Preceded
  <2>6. ~ (i < cut)
    BY <1>3, <2>1, <2>2, <2>4, <2>5
  <2>7. i \in kept .. j - 1
    BY <1>3, <2>1, <2>6
  <2> QED
    BY <2>5, <2>7 DEF Preceded
<1>6. CleanFrom(s, s[kept].id)
  BY <1>4, <1>5 DEF CleanFrom
<1> QED
  BY <1>6 DEF kept

\* The context: the latest compaction, what it keeps from m on, and what follows it.
ContextFrom(s, t, c, m) ==
    /\ c = LatestCompaction(s) /\ c \in DOMAIN s /\ s[c].kind = "compaction"
    /\ m \in 1 .. c
    /\ m = c \/ (m \in KeptPlaces(s, c) /\ \A k \in KeptPlaces(s, c) : m <= k)
    /\ KeptPlaces(s, c) # {} => m # c
    /\ Len(t) = 1 + Len(s) - m /\ DOMAIN t = 1 .. Len(t)
    /\ t[1] = s[c]
    /\ \A i \in m .. c - 1 : t[2 + i - m] = s[i]
    /\ \A i \in c + 1 .. Len(s) : t[1 + i - m] = s[i]

LEMMA ContextIs ==
  ASSUME NEW S, NEW s \in Seq(S), LatestCompaction(s) # 0
  PROVE  \E m : ContextFrom(s, Context(s), LatestCompaction(s), m)
<1> DEFINE c == LatestCompaction(s)
           n == Len(s)
           kept == KeptPlaces(s, c)
           m == IF kept = {} THEN c ELSE Min(kept)
           K == SubSeq(s, m, c - 1)
           R == SubSeq(s, c + 1, n)
           X == <<s[c]>>
           t == (X \o K) \o R
<1>1. n \in Nat /\ DOMAIN s = 1 .. n /\ \A i \in 1 .. n : s[i] \in S
  OBVIOUS
<1>2. c \in 1 .. n /\ s[c].kind = "compaction"
  <2>1. c \in 0 .. n /\ c # 0 /\ s[c].kind = "compaction"
    BY <1>1, LatestIs
  <2> QED
    BY <1>1, <2>1
<1>3. kept \subseteq 1 .. c - 1
  BY DEF KeptPlaces
<1>4. Context(s) = t
  <2>1. Context(s) = (X \o (IF kept = {} THEN <<>> ELSE SubSeq(s, Min(kept), c - 1))) \o R
    BY <1>2 DEF Context
  <2>2. kept = {} => K = <<>>
    <3>1. c \in Int /\ c - 1 \in Int /\ c - 1 < c
      BY <1>1, <1>2
    <3> HIDE DEF c
    <3>2. SubSeq(s, c, c - 1) = <<>>
      BY <3>1, SubSeqEmpty
    <3> QED
      BY <3>2
  <2> QED
    BY <2>1, <2>2
<1> HIDE DEF c, n
<1>5. /\ m \in 1 .. c
      /\ m = c \/ (m \in kept /\ \A k \in kept : m <= k)
      /\ kept # {} => m # c
  <2>1. CASE kept = {}
    BY <1>1, <1>2, <2>1
  <2>2. CASE kept # {}
    <3>1. kept \in SUBSET Nat
      BY <1>1, <1>2, <1>3
    <3>2. m = Min(kept)
      BY <2>2
    <3> HIDE DEF m, kept
    <3>3. Min(kept) \in kept /\ \A k \in kept : Min(kept) <= k
      BY <2>2, <3>1, MinIs
    <3>4. m \in 1 .. c - 1
      BY <1>3, <3>2, <3>3
    <3> QED
      BY <1>1, <1>2, <2>2, <3>2, <3>3, <3>4
  <2> QED
    BY <2>1, <2>2
<1> HIDE DEF m, kept
<1>6. m \in Int /\ c \in Int /\ n \in Int /\ m <= c /\ c <= n /\ m >= 1
  BY <1>1, <1>2, <1>5
<1>7. /\ K \in Seq(S) /\ Len(K) = c - m
      /\ \A i \in 1 .. c - m : K[i] = s[m + i - 1]
  <2>1. \A i \in m .. c - 1 : s[i] \in S
    BY <1>1, <1>6
  <2>2. m \in Int /\ c - 1 \in Int
    BY <1>6
  <2>3. /\ K \in Seq(S) /\ Len(K) = IF m <= c - 1 THEN (c - 1) - m + 1 ELSE 0
        /\ \A i \in 1 .. (c - 1) - m + 1 : K[i] = s[m + i - 1]
    BY <2>1, <2>2, SubSeqProperties
  <2>4. (c - 1) - m + 1 = c - m /\ (m <= c - 1 \/ c - m = 0)
    BY <1>6
  <2> QED
    BY <2>3, <2>4
<1>8. /\ R \in Seq(S) /\ Len(R) = n - c
      /\ \A i \in 1 .. n - c : R[i] = s[c + i]
  <2>1. \A i \in c + 1 .. n : s[i] \in S
    BY <1>1, <1>6
  <2>2. c + 1 \in Int /\ n \in Int
    BY <1>6
  <2>3. /\ R \in Seq(S) /\ Len(R) = IF c + 1 <= n THEN n - (c + 1) + 1 ELSE 0
        /\ \A i \in 1 .. n - (c + 1) + 1 : R[i] = s[(c + 1) + i - 1]
    BY <2>1, <2>2, SubSeqProperties
  <2>4. n - (c + 1) + 1 = n - c /\ (c + 1 <= n \/ n - c = 0)
    BY <1>6
  <2>5. \A i \in 1 .. n - c : (c + 1) + i - 1 = c + i
    BY <1>6
  <2> QED
    BY <2>3, <2>4, <2>5
<1>9. X \in Seq(S) /\ Len(X) = 1 /\ X[1] = s[c]
  <2>1. s[c] \in S
    BY <1>1, <1>2
  <2> QED
    BY <2>1
<1> HIDE DEF X, K, R
<1> DEFINE Y == X \o K
<1>10. /\ Y \in Seq(S) /\ Len(Y) = 1 + (c - m)
       /\ \A i \in 1 .. 1 + (c - m) : Y[i] = IF i <= 1 THEN X[i] ELSE K[i - 1]
  <2>1. /\ X \o K \in Seq(S) /\ Len(X \o K) = Len(X) + Len(K)
        /\ \A i \in 1 .. Len(X) + Len(K) :
              (X \o K)[i] = IF i <= Len(X) THEN X[i] ELSE K[i - Len(X)]
    BY <1>7, <1>9, ConcatProperties
  <2> QED
    BY <1>7, <1>9, <2>1
<1> HIDE DEF Y
<1>11. /\ Y \o R \in Seq(S) /\ Len(Y \o R) = (1 + (c - m)) + (n - c)
       /\ \A i \in 1 .. (1 + (c - m)) + (n - c) :
             (Y \o R)[i] = IF i <= 1 + (c - m) THEN Y[i] ELSE R[i - (1 + (c - m))]
  <2>1. /\ Y \o R \in Seq(S) /\ Len(Y \o R) = Len(Y) + Len(R)
        /\ \A i \in 1 .. Len(Y) + Len(R) :
              (Y \o R)[i] = IF i <= Len(Y) THEN Y[i] ELSE R[i - Len(Y)]
    BY <1>8, <1>10, ConcatProperties
  <2> QED
    BY <1>8, <1>10, <2>1
<1>12. t = Y \o R
  BY DEF Y
<1> HIDE DEF t
<1>13. /\ t \in Seq(S) /\ Len(t) = 1 + n - m
       /\ \A i \in 1 .. 1 + n - m :
             t[i] = IF i <= 1 + (c - m) THEN Y[i] ELSE R[i - (1 + (c - m))]
  <2>1. (1 + (c - m)) + (n - c) = 1 + n - m
    BY <1>6
  <2> QED
    BY <1>11, <1>12, <2>1
<1>14. t[1] = s[c]
  <2>1. 1 \in 1 .. 1 + n - m /\ 1 <= 1 + (c - m) /\ 1 \in 1 .. 1 + (c - m)
    BY <1>6
  <2> QED
    BY <1>9, <1>10, <1>13, <2>1
<1>15. ASSUME NEW i \in m .. c - 1 PROVE t[2 + i - m] = s[i]
  <2> DEFINE j == 2 + i - m
  <2>1. /\ j \in 1 .. 1 + n - m /\ j <= 1 + (c - m) /\ j \in 1 .. 1 + (c - m) /\ ~ (j <= 1)
        /\ j - 1 \in 1 .. c - m /\ m + (j - 1) - 1 = i
    BY <1>6
  <2> HIDE DEF j
  <2>2. t[j] = K[j - 1]
    BY <1>10, <1>13, <2>1
  <2>3. K[j - 1] = s[i]
    BY <1>7, <2>1
  <2> QED
    BY <2>2, <2>3 DEF j
<1>16. ASSUME NEW i \in c + 1 .. n PROVE t[1 + i - m] = s[i]
  <2> DEFINE j == 1 + i - m
  <2>1. /\ j \in 1 .. 1 + n - m /\ ~ (j <= 1 + (c - m))
        /\ j - (1 + (c - m)) \in 1 .. n - c /\ c + (j - (1 + (c - m))) = i
    BY <1>6
  <2> HIDE DEF j
  <2>2. t[j] = R[j - (1 + (c - m))]
    BY <1>13, <2>1
  <2>3. R[j - (1 + (c - m))] = s[i]
    BY <1>8, <2>1
  <2> QED
    BY <2>2, <2>3 DEF j
<1>17. DOMAIN t = 1 .. Len(t)
  BY <1>13
<1>18. ContextFrom(s, t, c, m)
  <2>1. c = LatestCompaction(s) /\ c \in DOMAIN s /\ s[c].kind = "compaction"
    BY <1>1, <1>2 DEF c
  <2>2. Len(t) = 1 + Len(s) - m
    BY <1>13 DEF n
  <2>3. \A i \in c + 1 .. Len(s) : t[1 + i - m] = s[i]
    BY <1>16 DEF n
  <2> QED
    BY <1>5, <1>14, <1>15, <1>17, <2>1, <2>2, <2>3 DEF ContextFrom, kept
<1> QED
  BY <1>4, <1>18 DEF c

\* A whole path makes a context in which results follow calls or results.
LEMMA ContextBatched ==
  ASSUME NEW S, NEW s \in Seq(S), Whole(s)
  PROVE  Batched(Context(s)) /\ DOMAIN Context(s) \subseteq Nat
<1>1. CASE LatestCompaction(s) = 0
  <2>1. Context(s) = s
    BY <1>1 DEF Context
  <2> QED
    BY <2>1 DEF Whole
<1>2. CASE LatestCompaction(s) # 0
  <2> DEFINE t == Context(s)
             c == LatestCompaction(s)
             n == Len(s)
  <2>1. PICK m : ContextFrom(s, t, c, m)
    BY <1>2, ContextIs
  <2>2. n \in Nat /\ DOMAIN s = 1 .. n
    OBVIOUS
  <2> HIDE DEF t, c, n
  <2>3. /\ c \in 1 .. n /\ s[c].kind = "compaction" /\ m \in 1 .. c
        /\ m = c \/ m \in KeptPlaces(s, c)
        /\ Len(t) = 1 + n - m /\ DOMAIN t = 1 .. Len(t) /\ t[1] = s[c]
        /\ \A i \in m .. c - 1 : t[2 + i - m] = s[i]
        /\ \A i \in c + 1 .. n : t[1 + i - m] = s[i]
    BY <2>1, <2>2 DEF ContextFrom, n
  <2>4. c \in Nat /\ m \in Nat /\ m >= 1 /\ m <= c /\ c <= n
    BY <2>2, <2>3
  <2>5. ASSUME NEW j \in 1 .. 1 + n - m, t[j].kind = "toolResult" PROVE Preceded(t, 1, j)
    <3>1. j # 1
      BY <2>3, <2>5
    <3>2. CASE j <= 1 + (c - m)
      <4> DEFINE i == m + j - 2
      <4>1. i \in m .. c - 1 /\ j = 2 + i - m /\ i \in Nat
        BY <2>2, <2>4, <3>1, <3>2
      <4> HIDE DEF i
      <4>2. s[i].kind = "toolResult"
        BY <2>3, <2>5, <4>1
      <4>3. m \in KeptPlaces(s, c)
        BY <2>3, <2>4, <4>1
      <4>4. Preceded(s, m, i)
        BY <2>2, <2>3, <4>1, <4>2, <4>3 DEF Whole, CutClean
      <4>5. PICK a \in m .. i - 1 : /\ s[a].kind \in {"assistant", "toolResult"}
                                    /\ \A k \in a + 1 .. i - 1 : ~Visible(s[k])
        BY <4>4 DEF Preceded
      <4> DEFINE b == 2 + a - m
      <4>6. a \in m .. c - 1 /\ b \in 1 .. j - 1
        BY <2>4, <4>1
      <4>7. t[b] = s[a]
        BY <2>3, <4>6
      <4>8. ASSUME NEW k \in b + 1 .. j - 1 PROVE ~Visible(t[k])
        <5> DEFINE l == k - 2 + m
        <5>1. l \in a + 1 .. i - 1 /\ l \in m .. c - 1 /\ k = 2 + l - m
          BY <2>4, <4>1, <4>6
        <5> HIDE DEF l
        <5>2. t[k] = s[l]
          BY <2>3, <5>1
        <5> QED
          BY <4>5, <5>1, <5>2
      <4> HIDE DEF b
      <4> QED
        BY <4>5, <4>6, <4>7, <4>8 DEF Preceded
    <3>3. CASE ~ (j <= 1 + (c - m))
      <4> DEFINE i == j - 1 + m
      <4>1. i \in c + 1 .. n /\ j = 1 + i - m /\ i \in Nat
        BY <2>2, <2>4, <3>3
      <4> HIDE DEF i
      <4>2. s[i].kind = "toolResult" /\ i \in DOMAIN s
        BY <2>2, <2>3, <2>4, <2>5, <4>1
      <4>3. Preceded(s, 1, i)
        BY <4>2 DEF Whole, Batched
      <4>4. PICK a \in 1 .. i - 1 : /\ s[a].kind \in {"assistant", "toolResult"}
                                    /\ \A k \in a + 1 .. i - 1 : ~Visible(s[k])
        BY <4>3 DEF Preceded
      <4>5. Visible(s[c]) /\ a # c
        BY <2>3, <4>4 DEF Visible
      <4>6. ~ (a < c)
        BY <2>4, <4>1, <4>4, <4>5
      <4> DEFINE b == 1 + a - m
      <4>7. a \in c + 1 .. n /\ b \in 1 .. j - 1 /\ a \in Nat
        BY <2>2, <2>4, <4>1, <4>5, <4>6
      <4>8. t[b] = s[a]
        BY <2>3, <4>7
      <4>9. ASSUME NEW k \in b + 1 .. j - 1 PROVE ~Visible(t[k])
        <5> DEFINE l == k - 1 + m
        <5>1. l \in a + 1 .. i - 1 /\ l \in c + 1 .. n /\ k = 1 + l - m
          BY <2>2, <2>4, <4>1, <4>7
        <5> HIDE DEF l
        <5>2. t[k] = s[l]
          BY <2>3, <5>1
        <5> QED
          BY <4>4, <5>1, <5>2
      <4> HIDE DEF b
      <4> QED
        BY <4>4, <4>7, <4>8, <4>9 DEF Preceded
    <3> QED
      BY <3>2, <3>3
  <2>6. Batched(t) /\ DOMAIN t \subseteq Nat
    BY <2>3, <2>5 DEF Batched
  <2> QED
    BY <2>6 DEF t
<1> QED
  BY <1>1, <1>2

\* Following results back, a call is found.
LEMMA CallsFound ==
  ASSUME NEW t, Batched(t), DOMAIN t \subseteq Nat, \A j \in DOMAIN t : 1 .. j \subseteq DOMAIN t
  PROVE  \A j \in DOMAIN t : t[j].kind = "toolResult" =>
            \E i \in 1 .. j - 1 :
                /\ t[i].kind = "assistant"
                /\ \A k \in i + 1 .. j : Visible(t[k]) => t[k].kind = "toolResult"
<1> DEFINE Found(j) == \E i \in 1 .. j - 1 :
                /\ t[i].kind = "assistant"
                /\ \A k \in i + 1 .. j : Visible(t[k]) => t[k].kind = "toolResult"
           Lost == {j \in DOMAIN t : t[j].kind = "toolResult" /\ ~ Found(j)}
<1>1. ASSUME Lost # {} PROVE FALSE
  <2>1. Lost \in SUBSET Nat
    OBVIOUS
  <2>2. PICK j \in Lost : \A k \in Lost : j <= k
    BY <1>1, <2>1, NatLeast
  <2>3. j \in DOMAIN t /\ j \in Nat /\ t[j].kind = "toolResult" /\ ~ Found(j)
    BY <2>1
  <2>4. PICK i \in 1 .. j - 1 : /\ t[i].kind \in {"assistant", "toolResult"}
                                /\ \A k \in i + 1 .. j - 1 : ~Visible(t[k])
    BY <2>3 DEF Batched, Preceded
  <2>5. i \in DOMAIN t /\ i \in Nat /\ i < j
    BY <2>3
  <2>6. \A k \in i + 1 .. j : k = j \/ k \in i + 1 .. j - 1
    BY <2>3, <2>5
  <2>7. \A k \in i + 1 .. j : Visible(t[k]) => t[k].kind = "toolResult"
    BY <2>3, <2>4, <2>6
  <2>8. CASE t[i].kind = "assistant"
    BY <2>3, <2>7, <2>8
  <2>9. CASE t[i].kind = "toolResult"
    <3>1. i \notin Lost
      BY <2>2, <2>3, <2>5
    <3>2. Found(i)
      BY <2>5, <2>9, <3>1
    <3>3. PICK h \in 1 .. i - 1 :
            /\ t[h].kind = "assistant"
            /\ \A k \in h + 1 .. i : Visible(t[k]) => t[k].kind = "toolResult"
      BY <3>2
    <3>4. h \in 1 .. j - 1 /\ \A k \in h + 1 .. j : k \in h + 1 .. i \/ k \in i + 1 .. j
      BY <2>3, <2>5
    <3> QED
      BY <2>3, <2>7, <3>3, <3>4
  <2> QED
    BY <2>4, <2>8, <2>9
<1> QED
  BY <1>1

LEMMA WholeFollows ==
  ASSUME NEW S, NEW s \in Seq(S), Whole(s)
  PROVE  LET sent == Context(s)
         IN  \A j \in DOMAIN sent : sent[j].kind = "toolResult" =>
                \E i \in 1 .. j - 1 :
                    /\ sent[i].kind = "assistant"
                    /\ \A k \in i + 1 .. j : Visible(sent[k]) => sent[k].kind = "toolResult"
<1> DEFINE t == Context(s)
<1>1. Batched(t) /\ DOMAIN t \subseteq Nat
  BY ContextBatched
<1>2. DOMAIN t = 1 .. Len(t) /\ Len(t) \in Nat
  <2>1. CASE LatestCompaction(s) = 0
    BY <2>1 DEF Context
  <2>2. CASE LatestCompaction(s) # 0
    <3>1. PICK m : ContextFrom(s, t, LatestCompaction(s), m)
      BY <2>2, ContextIs
    <3>2. Len(s) \in Nat /\ DOMAIN s = 1 .. Len(s)
      OBVIOUS
    <3> HIDE DEF t
    <3> QED
      BY <3>1, <3>2 DEF ContextFrom
  <2> QED
    BY <2>1, <2>2
<1> HIDE DEF t
<1>3. \A j \in DOMAIN t : 1 .. j \subseteq DOMAIN t
  BY <1>2
<1> QED
  BY <1>1, <1>3, CallsFound DEF t

\* Every path is whole; a batch is open, and nothing is being compacted, while
\* results are owed; and what a compaction in progress will keep is clean.
WholeTree(T) == \A id \in DOMAIN T \cup {0} : Whole(buildSessionPath(T, id))
LeafWay == buildSessionPath(entries, leafId)
RInv ==
    /\ WholeTree(entries)
    /\ calling => pending = NoCompaction /\ BatchOpen(LeafWay)
    /\ pending # NoCompaction => CleanFrom(LeafWay, pending.ref)

LEMMA GrownWhole ==
  ASSUME NEW T, NEW U, NEW e, Grown(T, U, e), WholeTree(T),
         e.kind = "toolResult" => BatchOpen(buildSessionPath(T, e.parent)),
         e.kind = "compaction" => CleanFrom(buildSessionPath(T, e.parent), e.ref)
  PROVE  WholeTree(U)
<1> DEFINE s == buildSessionPath(T, e.parent)
<1>1. /\ \A i \in DOMAIN T \cup {0} : buildSessionPath(U, i) = buildSessionPath(T, i)
      /\ buildSessionPath(U, e.id) = Append(s, e)
  BY GrownIs
<1>2. DOMAIN U = DOMAIN T \cup {e.id} /\ e \in TreeEntries /\ IsTree(T)
      /\ e.parent \in DOMAIN T \cup {0}
  BY DEF Grown
<1>3. s \in Seq(TreeEntries) /\ Whole(s)
  <2>1. PathOf(T, e.parent, s)
    BY <1>2, PathFacts
  <2> QED
    BY <1>2, <2>1 DEF PathOf, IsBranch, WholeTree
<1> HIDE DEF s
<1>4. Whole(Append(s, e))
  <2>1. e.kind = "toolResult" => BatchOpen(s)
    BY DEF s
  <2>2. e.kind = "compaction" => CleanFrom(s, e.ref)
    BY DEF s
  <2> QED
    BY <1>2, <1>3, <2>1, <2>2, WholeAppend
<1>5. \A i \in DOMAIN T \cup {0} : Whole(buildSessionPath(U, i))
  BY <1>1 DEF WholeTree
<1>6. Whole(buildSessionPath(U, e.id))
  BY <1>1, <1>4
<1> QED
  BY <1>2, <1>5, <1>6 DEF WholeTree

\* An entry behind the leaf.
LEMMA LeafGrows ==
  ASSUME TreeTypeOK, NEW e, Attaches(e)
  PROVE  /\ Grown(entries, entries', e)
         /\ LeafWay' = Append(buildSessionPath(entries, e.parent), e)
         /\ e \in TreeEntries /\ buildSessionPath(entries, e.parent) \in Seq(TreeEntries)
<1>1. Grown(entries, entries', e) /\ leafId' = e.id
  BY AttachGrows
<1>2. buildSessionPath(entries', leafId') = Append(buildSessionPath(entries, e.parent), e)
  BY <1>1, GrownIs
<1>3. e \in TreeEntries /\ IsTree(entries) /\ e.parent \in DOMAIN entries \cup {0}
  BY <1>1 DEF Grown
<1>4. PathOf(entries, e.parent, buildSessionPath(entries, e.parent))
  BY <1>3, PathFacts
<1> QED
  BY <1>1, <1>2, <1>3, <1>4 DEF LeafWay, PathOf, IsBranch

LEMMA LeafIs ==
  ASSUME TreeTypeOK
  PROVE  IsBranch(LeafWay) /\ LeafWay \in Seq(TreeEntries)
BY LeafPath DEF LeafWay, PathOf, IsBranch

\* Entries that are not messages of a batch or compactions.
LEMMA OthersKeepRInv ==
  ASSUME TreeTypeOK, RInv, NEW e, Attaches(e), e.parent = leafId,
         e.kind \notin {"toolResult", "compaction"},
         UNCHANGED pending, calling' => calling /\ ~Visible(e)
  PROVE  RInv'
<1>1. /\ Grown(entries, entries', e) /\ LeafWay' = Append(LeafWay, e)
      /\ e \in TreeEntries /\ LeafWay \in Seq(TreeEntries)
  BY LeafGrows DEF LeafWay
<1>2. WholeTree(entries')
  BY <1>1, GrownWhole DEF RInv
<1>3. calling' => pending' = NoCompaction /\ BatchOpen(LeafWay')
  <2> SUFFICES ASSUME calling' PROVE pending' = NoCompaction /\ BatchOpen(LeafWay')
    OBVIOUS
  <2>1. pending = NoCompaction /\ BatchOpen(LeafWay) /\ ~Visible(e)
    BY DEF RInv
  <2>2. BatchOpen(Append(LeafWay, e))
    BY <1>1, <2>1, OpenAppend
  <2> QED
    BY <1>1, <2>1, <2>2
<1>4. pending' # NoCompaction => CleanFrom(LeafWay', pending'.ref)
  <2> SUFFICES ASSUME pending # NoCompaction PROVE CleanFrom(LeafWay', pending.ref)
    OBVIOUS
  <2>1. CleanFrom(LeafWay, pending.ref)
    BY DEF RInv
  <2>2. CleanFrom(Append(LeafWay, e), pending.ref)
    BY <1>1, <2>1, CleanAppend
  <2> QED
    BY <1>1, <2>2
<1> QED
  BY <1>2, <1>3, <1>4 DEF RInv

LEMMA MessageKeepsRInv ==
  ASSUME TreeTypeOK, RInv, NEW kind \in Messages, AppendMessage(kind), NEW e, Attaches(e),
         e.parent = leafId, e.kind = kind
  PROVE  RInv'
<1>1. CASE kind = "user"
  <2>1. UNCHANGED pending /\ calling' = FALSE
    BY <1>1 DEF AppendMessage
  <2> QED
    BY <1>1, <2>1, OthersKeepRInv
<1>2. CASE kind \in {"assistant", "toolResult"}
  <2>1. /\ Grown(entries, entries', e) /\ LeafWay' = Append(LeafWay, e)
        /\ e \in TreeEntries /\ LeafWay \in Seq(TreeEntries)
    BY LeafGrows DEF LeafWay
  <2>2. (kind = "toolResult" => calling) /\ (kind = "assistant" => pending = NoCompaction)
        /\ pending' = pending
    BY DEF AppendMessage
  <2>3. pending = NoCompaction /\ (kind = "toolResult" => BatchOpen(LeafWay)) /\ WholeTree(entries)
    BY <1>2, <2>2 DEF RInv
  <2>4. WholeTree(entries')
    <3>1. e.kind = "toolResult" => BatchOpen(buildSessionPath(entries, e.parent))
      BY <2>3 DEF LeafWay
    <3>2. e.kind # "compaction"
      BY <1>2
    <3> QED
      BY <2>1, <2>3, <3>1, <3>2, GrownWhole
  <2>5. BatchOpen(LeafWay')
    <3>1. BatchOpen(Append(LeafWay, e))
      BY <1>2, <2>1, OpenAppend
    <3> QED
      BY <2>1, <3>1
  <2> QED
    BY <2>2, <2>3, <2>4, <2>5 DEF RInv
<1> QED
  BY <1>1, <1>2 DEF Messages

LEMMA FinishKeepsRInv ==
  ASSUME TreeTypeOK, RInv, FinishCompaction, Attaches(Finished)
  PROVE  RInv'
<1> DEFINE e == Finished
<1>1. e.parent = leafId /\ e.kind = "compaction" /\ e.ref = pending.ref
  BY DEF Finished
<1>2. pending # NoCompaction /\ pending' = NoCompaction /\ calling' = calling
  BY DEF FinishCompaction
<1> HIDE DEF e
<1>3. /\ Grown(entries, entries', e) /\ LeafWay' = Append(LeafWay, e)
  BY <1>1, LeafGrows DEF LeafWay, e
<1>4. CleanFrom(buildSessionPath(entries, e.parent), e.ref) /\ WholeTree(entries)
  BY <1>1, <1>2 DEF RInv, LeafWay
<1>5. WholeTree(entries')
  <2>1. e.kind # "toolResult"
    BY <1>1
  <2> QED
    BY <1>3, <1>4, <2>1, GrownWhole
<1> QED
  BY <1>2, <1>5 DEF RInv

LEMMA StartKeepsRInv ==
  ASSUME TreeTypeOK, RInv, StartCompaction
  PROVE  RInv'
<1>1. UNCHANGED <<entries, leafId>> /\ calling' = FALSE
  BY DEF StartCompaction
<1>2. PICK cut \in CutPoints(LeafWay) : pending' = Prepared(LeafWay, FirstKept(LeafWay, cut))
  BY StartIs DEF LeafWay
<1>3. IsBranch(LeafWay) /\ LeafWay \in Seq(TreeEntries)
  BY LeafIs
<1>4. Whole(LeafWay)
  BY OthersAre DEF RInv, WholeTree, LeafWay
<1> DEFINE s == LeafWay
           kept == FirstKept(s, cut)
<1> HIDE DEF s
<1>5. CleanFrom(s, s[kept].id)
  BY <1>2, <1>3, <1>4, CutCleanly DEF s
<1>6. kept \in DOMAIN s
  BY <1>2, <1>3, CutIs DEF s
<1>7. pending'.ref = s[kept].id
  BY <1>2, <1>3, <1>6, PreparedIs DEF s
<1>8. CleanFrom(LeafWay', pending'.ref)
  <2>1. LeafWay' = s
    BY <1>1 DEF s, LeafWay
  <2> QED
    BY <1>5, <1>7, <2>1
<1>9. WholeTree(entries')
  BY <1>1 DEF RInv
<1> QED
  BY <1>1, <1>8, <1>9 DEF RInv

\* The steps that leave no batch open and no compaction behind.
LEMMA IdleKeepsRInv ==
  ASSUME WholeTree(entries'), calling' = FALSE, pending' = NoCompaction
  PROVE  RInv'
BY DEF RInv

LEMMA ForkWhole ==
  ASSUME TreeTypeOK, WholeTree(entries), NEW id \in DOMAIN entries, Fork(id)
  PROVE  WholeTree(entries')
<1> DEFINE s == buildSessionPath(entries, id)
           r == WithoutLabels(s)
           l == LabelEntries(r)
           list == r \o l
<1>1. /\ PathOf(entries, id, s) /\ Filtered(r, s, Len(s)) /\ IsBranch(list)
      /\ EndOf(r) < nextId /\ nextId + Len(l) <= MaxIds + 1
      /\ entries' = Indexed(list)
  BY ForkIs
<1>2. Whole(s)
  BY DEF WholeTree
<1> HIDE DEF s, r
<1>3. IsBranch(s) /\ IsBranch(r)
  BY <1>1 DEF PathOf, Filtered
<1>4. Whole(r)
  BY <1>1, <1>2, <1>3, WholeFiltered
<1>5. labelled \subseteq EntryIds /\ nextId \in 1 .. MaxIds + 1
  BY OthersAre
<1>6. Len(l) \in Nat /\ \A k \in 1 .. Len(l) : l[k].kind = "label"
  BY <1>1, <1>3, <1>5, LabelEntriesAre
<1>7. /\ Len(list) = Len(r) + Len(l)
      /\ \A k \in 1 .. Len(list) : list[k] = IF k <= Len(r) THEN r[k] ELSE l[k - Len(r)]
  BY <1>1, <1>3, <1>5, ForkedIs
<1> HIDE DEF l, list
<1>8. Len(r) \in Nat /\ DOMAIN r = 1 .. Len(r) /\ DOMAIN list = 1 .. Len(list)
      /\ Len(list) \in Nat /\ list \in Seq(TreeEntries)
  BY <1>1, <1>3 DEF IsBranch
<1>9. Whole(list)
  <2>1. ASSUME NEW k \in DOMAIN list
        PROVE  \/ k \in DOMAIN r /\ list[k] = r[k]
               \/ list[k].kind \notin {"toolResult", "compaction"}
    <3>1. CASE k <= Len(r)
      BY <1>7, <1>8, <3>1
    <3>2. CASE ~ (k <= Len(r))
      <4>1. k - Len(r) \in 1 .. Len(l)
        BY <1>6, <1>7, <1>8, <3>2
      <4>2. list[k] = l[k - Len(r)]
        BY <1>7, <1>8, <3>2
      <4> QED
        BY <1>6, <4>1, <4>2
    <3> QED
      BY <3>1, <3>2
  <2>2. \A k \in DOMAIN list : k \in DOMAIN r => list[k] = r[k]
    BY <1>7, <1>8
  <2> QED
    BY <1>4, <1>8, <2>1, <2>2, WholeBegins
<1>10. ASSUME NEW i \in DOMAIN entries' \cup {0} PROVE Whole(buildSessionPath(entries', i))
  <2>1. PICK k \in 0 .. Len(list) : buildSessionPath(Indexed(list), i) = SubSeq(list, 1, k)
    BY <1>1, <1>10, IndexedPaths
  <2>2. Whole(SubSeq(list, 1, k))
    BY <1>8, <1>9, WholePrefix
  <2> QED
    BY <1>1, <2>1, <2>2
<1> QED
  BY <1>10 DEF WholeTree

LEMMA StepRInv ==
  ASSUME ~Overlap, TInv, RInv, [TreeNext]_treeVars
  PROVE  RInv'
<1>0. TreeTypeOK /\ WholeTree(entries)
  BY DEF TInv, RInv
<1>1. ASSUME NEW kind \in Messages, AppendMessage(kind), Appends(Plain(kind)), Plain(kind).kind = kind
      PROVE  RInv'
  <2>1. Attaches(Plain(kind)) /\ Plain(kind).parent = leafId
    BY <1>1 DEF Appends, Plain
  <2> QED
    BY <1>0, <1>1, <2>1, MessageKeepsRInv
<1>2. ASSUME AppendMetadata, Appends(Plain("metadata")), Plain("metadata").kind = "metadata"
      PROVE  RInv'
  <2> DEFINE e == Plain("metadata")
  <2>1. Attaches(e) /\ e.parent = leafId /\ e.kind = "metadata"
    BY <1>2 DEF Appends, Plain
  <2>2. UNCHANGED <<calling, pending>>
    BY <1>2 DEF AppendMetadata
  <2> HIDE DEF e
  <2>3. ~Visible(e)
    BY <2>1 DEF Visible, Messages
  <2> QED
    BY <1>0, <2>1, <2>2, <2>3, OthersKeepRInv
<1>3. ASSUME FinishCompaction, Appends(Finished) PROVE RInv'
  BY <1>0, <1>3, FinishKeepsRInv DEF Appends
<1>4. ASSUME NEW e, NEW id \in DOMAIN entries \cup {0}, BranchWithSummary(id), Appends(e),
             e.kind = "branch_summary"
      PROVE  RInv'
  <2>1. Grown(entries, entries', e)
    BY <1>0, <1>4, AttachGrows DEF Appends
  <2>2. WholeTree(entries')
    <3>1. e.kind # "toolResult" /\ e.kind # "compaction"
      BY <1>4
    <3> QED
      BY <1>0, <2>1, <3>1, GrownWhole
  <2>3. calling' = calling /\ pending' = pending /\ ~calling /\ pending = NoCompaction
    BY <1>4 DEF BranchWithSummary, Navigate
  <2>4. calling \in BOOLEAN
    BY <1>0, OthersAre
  <2> QED
    BY <2>2, <2>3, <2>4, IdleKeepsRInv
<1>5. ASSUME NEW e, NEW target \in DOMAIN entries, NEW on \in BOOLEAN, Labelling(e, target, on)
      PROVE  RInv'
  <2>1. Attaches(e) /\ e.parent = leafId /\ e.kind = "label" /\ AppendLabelChange(target, on)
    BY <1>5 DEF Labelling
  <2>2. UNCHANGED <<calling, pending>>
    BY <2>1 DEF AppendLabelChange
  <2>3. ~Visible(e)
    BY <2>1 DEF Visible, Messages
  <2> QED
    BY <1>0, <2>1, <2>2, <2>3, OthersKeepRInv
<1>6. ASSUME NEW id \in DOMAIN entries \cup {0}, BranchFrom(id) PROVE RInv'
  <2>1. /\ calling' = calling /\ pending' = pending /\ ~calling /\ pending = NoCompaction
        /\ entries' = entries /\ calling \in BOOLEAN
    BY <1>0, <1>6, OthersAre DEF BranchFrom, Navigate
  <2> QED
    BY <1>0, <2>1, IdleKeepsRInv
<1>7. ASSUME StartCompaction PROVE RInv'
  BY <1>0, <1>7, StartKeepsRInv
<1>8. ASSUME CancelCompaction PROVE RInv'
  <2>1. /\ UNCHANGED <<entries, leafId, calling>> /\ pending # NoCompaction /\ pending' = NoCompaction
    BY <1>8 DEF CancelCompaction
  <2>2. ~calling
    BY <2>1 DEF RInv
  <2> QED
    BY <1>0, <2>1, <2>2 DEF RInv
<1>9. ASSUME NewSession PROVE RInv'
  <2>1. entries' = <<>> /\ calling' = FALSE /\ pending' = NoCompaction
    BY <1>9 DEF NewSession, Replace
  <2>2. WholeTree(<<>>)
    <3>1. DOMAIN <<>> = {} /\ IsTree(<<>>)
      BY DEF IsTree
    <3>2. buildSessionPath(<<>>, 0) = <<>>
      BY <3>1, PathIs
    <3>3. Whole(<<>>)
      BY <3>1 DEF Whole, Batched, CutClean
    <3> QED
      BY <3>1, <3>2, <3>3 DEF WholeTree
  <2> QED
    BY <2>1, <2>2, IdleKeepsRInv
<1>10. ASSUME Reopen PROVE RInv'
  <2>1. entries' = entries /\ calling' = FALSE /\ pending' = NoCompaction
    BY <1>10 DEF Reopen, Replace
  <2> QED
    BY <1>0, <2>1, IdleKeepsRInv
<1>11. ASSUME NEW id \in DOMAIN entries, Fork(id) PROVE RInv'
  <2>1. calling' = FALSE /\ pending' = NoCompaction
    BY <1>11 DEF Fork, Replace
  <2> QED
    BY <1>0, <1>11, <2>1, ForkWhole, IdleKeepsRInv
<1>12. CASE UNCHANGED treeVars
  <2>1. UNCHANGED <<entries, leafId, calling, pending>>
    BY <1>12 DEF treeVars
  <2> QED
    BY <2>1 DEF RInv, LeafWay
<1>13. CASE TreeNext
  BY <1>1, <1>2, <1>3, <1>4, <1>5, <1>6, <1>7, <1>8, <1>9, <1>10, <1>11, <1>13, AppendsAre
<1> QED
  BY <1>12, <1>13

LEMMA InitRInv == TreeInit => RInv
<1> SUFFICES ASSUME TreeInit PROVE RInv
  OBVIOUS
<1>1. entries = <<>> /\ calling = FALSE /\ pending = NoCompaction
  BY DEF TreeInit
<1>2. DOMAIN <<>> = {} /\ IsTree(<<>>)
  BY DEF IsTree
<1>3. buildSessionPath(<<>>, 0) = <<>>
  BY <1>2, PathIs
<1>4. Whole(<<>>)
  BY <1>2 DEF Whole, Batched, CutClean
<1>5. WholeTree(<<>>)
  BY <1>2, <1>3, <1>4 DEF WholeTree
<1> QED
  BY <1>1, <1>5 DEF RInv

\* ResultsFollowCalls holds for any number of entries, labels, compactions, forks
\* and reopenings, as long as nobody navigates in the middle of a batch or of a
\* compaction: no cut falls between a call and its results, and no fork, branch
\* or compaction parts them.
THEOREM ResultsFollow ==
  ASSUME ~Overlap
  PROVE  TreeSpec => []ResultsFollowCalls
<1>1. TreeInit => RInv
  BY InitRInv
<1>2. TInv /\ RInv /\ [TreeNext]_treeVars => RInv'
  BY StepRInv
<1>3. TInv /\ RInv => ResultsFollowCalls
  <2> SUFFICES ASSUME TInv, RInv PROVE ResultsFollowCalls
    OBVIOUS
  <2>1. TreeTypeOK
    BY DEF TInv
  <2>2. LeafWay \in Seq(TreeEntries)
    BY <2>1, LeafIs
  <2>3. Whole(LeafWay)
    BY <2>1, OthersAre DEF RInv, WholeTree, LeafWay
  <2> QED
    BY <2>2, <2>3, WholeFollows DEF ResultsFollowCalls, LeafWay
<1> QED
  BY <1>1, <1>2, <1>3, AlwaysTypes, PTL DEF TreeSpec

-----------------------------------------------------------------------------
(* What compactions leave out.                                              *)

\* A compaction of s up to place c covers the message x.
ToldBy(s, c, x) == \E d \in 1 .. c : s[d].kind = "compaction" /\ x \in s[d].covers

\* What is in front of the first entry that the compaction at c keeps has been
\* told by then.
CompactionTells(s, c) ==
    \E k \in KeptPlaces(s, c) :
        \A j \in 1 .. k - 1 : Summarizable(s[j]) => ToldBy(s, c, s[j].id)
CompactionsTell(s) == \A c \in DOMAIN s : s[c].kind = "compaction" => CompactionTells(s, c)

\* A compaction p behind s would tell it.
WillTell(s, p) ==
    \E k \in DOMAIN s :
        /\ s[k].id = p.ref
        /\ \A j \in 1 .. k - 1 :
              Summarizable(s[j]) => s[j].id \in p.covers \/ ToldBy(s, Len(s), s[j].id)

LEMMA ToldSame ==
  ASSUME NEW s, NEW t, NEW c \in Nat, NEW n \in Nat, c <= n, \A k \in 1 .. c : t[k] = s[k],
         NEW x, ToldBy(s, c, x)
  PROVE  ToldBy(t, n, x)
<1>1. PICK d \in 1 .. c : s[d].kind = "compaction" /\ x \in s[d].covers
  BY DEF ToldBy
<1>2. d \in 1 .. n /\ t[d] = s[d]
  OBVIOUS
<1> QED
  BY <1>1, <1>2 DEF ToldBy

LEMMA TellsSame ==
  ASSUME NEW s, NEW t, NEW c \in Nat, \A k \in 1 .. c : t[k] = s[k], c \in 1 .. c,
         CompactionTells(s, c)
  PROVE  CompactionTells(t, c)
<1>1. PICK k \in KeptPlaces(s, c) :
        \A j \in 1 .. k - 1 : Summarizable(s[j]) => ToldBy(s, c, s[j].id)
  BY DEF CompactionTells
<1>2. k \in 1 .. c - 1 /\ s[k].id = s[c].ref
  BY DEF KeptPlaces
<1>3. t[k] = s[k] /\ t[c] = s[c] /\ \A j \in 1 .. k - 1 : t[j] = s[j]
  BY <1>2
<1>4. k \in KeptPlaces(t, c)
  BY <1>2, <1>3 DEF KeptPlaces
<1>5. ASSUME NEW j \in 1 .. k - 1, Summarizable(t[j]) PROVE ToldBy(t, c, t[j].id)
  <2>1. ToldBy(s, c, s[j].id) /\ t[j] = s[j] /\ c <= c
    BY <1>1, <1>3, <1>5
  <2> QED
    BY <2>1, ToldSame
<1> QED
  BY <1>4, <1>5 DEF CompactionTells

LEMMA TellsPrefix ==
  ASSUME NEW S, NEW s \in Seq(S), CompactionsTell(s), NEW k \in 0 .. Len(s)
  PROVE  CompactionsTell(SubSeq(s, 1, k))
<1> DEFINE t == SubSeq(s, 1, k)
<1>1. t \in Seq(S) /\ Len(t) = k /\ \A i \in 1 .. k : t[i] = s[i]
  BY Prefix
<1> HIDE DEF t
<1>2. DOMAIN t = 1 .. k /\ Len(s) \in Nat /\ DOMAIN s = 1 .. Len(s)
  BY <1>1
<1>3. ASSUME NEW c \in DOMAIN t, t[c].kind = "compaction" PROVE CompactionTells(t, c)
  <2>1. c \in DOMAIN s /\ t[c] = s[c] /\ c \in Nat /\ c \in 1 .. c /\ \A i \in 1 .. c : t[i] = s[i]
    BY <1>1, <1>2
  <2>2. CompactionTells(s, c)
    BY <1>3, <2>1 DEF CompactionsTell
  <2> QED
    BY <2>1, <2>2, TellsSame
<1> QED
  BY <1>3 DEF CompactionsTell, t

LEMMA TellsAppend ==
  ASSUME NEW S, NEW s \in Seq(S), NEW e \in S, CompactionsTell(s),
         e.kind = "compaction" => WillTell(s, e)
  PROVE  CompactionsTell(Append(s, e))
<1> DEFINE t == Append(s, e)
           n == Len(s)
<1>1. /\ n \in Nat /\ DOMAIN s = 1 .. n /\ DOMAIN t = 1 .. n + 1
      /\ \A k \in 1 .. n : t[k] = s[k]
      /\ t[n + 1] = e
  BY Extended
<1> HIDE DEF t, n
<1>2. ASSUME NEW c \in 1 .. n, t[c].kind = "compaction" PROVE CompactionTells(t, c)
  <2>1. c \in DOMAIN s /\ t[c] = s[c] /\ c \in Nat /\ c \in 1 .. c /\ \A i \in 1 .. c : t[i] = s[i]
    BY <1>1
  <2>2. CompactionTells(s, c)
    BY <1>2, <2>1 DEF CompactionsTell
  <2> QED
    BY <2>1, <2>2, TellsSame
<1>3. ASSUME e.kind = "compaction" PROVE CompactionTells(t, n + 1)
  <2>1. PICK k \in 1 .. n :
          /\ s[k].id = e.ref
          /\ \A j \in 1 .. k - 1 : Summarizable(s[j]) => s[j].id \in e.covers \/ ToldBy(s, n, s[j].id)
    BY <1>1, <1>3 DEF WillTell, n
  <2>2. k \in KeptPlaces(t, n + 1)
    <3>1. (n + 1) - 1 = n
      BY <1>1
    <3> QED
      BY <1>1, <2>1, <3>1 DEF KeptPlaces
  <2>3. ASSUME NEW j \in 1 .. k - 1, Summarizable(t[j]) PROVE ToldBy(t, n + 1, t[j].id)
    <3>1. j \in 1 .. n /\ t[j] = s[j]
      BY <1>1
    <3>2. CASE s[j].id \in e.covers
      <4>1. n + 1 \in 1 .. n + 1
        BY <1>1
      <4> QED
        BY <1>1, <1>3, <3>1, <3>2, <4>1 DEF ToldBy
    <3>3. CASE ToldBy(s, n, s[j].id)
      <4>1. n + 1 \in Nat /\ n <= n + 1
        BY <1>1
      <4> QED
        BY <1>1, <3>1, <3>3, <4>1, ToldSame
    <3> QED
      BY <2>1, <2>3, <3>1, <3>2, <3>3
  <2> QED
    BY <2>2, <2>3 DEF CompactionTells
<1>4. \A c \in 1 .. n + 1 : c \in 1 .. n \/ c = n + 1
  BY <1>1
<1>5. ASSUME NEW c \in DOMAIN t, t[c].kind = "compaction" PROVE CompactionTells(t, c)
  BY <1>1, <1>2, <1>3, <1>4, <1>5
<1> QED
  BY <1>5 DEF CompactionsTell, t

LEMMA WillTellAppend ==
  ASSUME NEW S, NEW s \in Seq(S), NEW e \in S, NEW p, WillTell(s, p)
  PROVE  WillTell(Append(s, e), p)
<1> DEFINE t == Append(s, e)
           n == Len(s)
<1>1. /\ n \in Nat /\ DOMAIN s = 1 .. n /\ DOMAIN t = 1 .. n + 1 /\ Len(t) = n + 1
      /\ \A k \in 1 .. n : t[k] = s[k]
  BY Extended
<1> HIDE DEF t, n
<1>2. PICK k \in 1 .. n :
        /\ s[k].id = p.ref
        /\ \A j \in 1 .. k - 1 : Summarizable(s[j]) => s[j].id \in p.covers \/ ToldBy(s, n, s[j].id)
  BY <1>1 DEF WillTell, n
<1>3. k \in DOMAIN t /\ t[k].id = p.ref
  BY <1>1, <1>2
<1>4. ASSUME NEW j \in 1 .. k - 1, Summarizable(t[j])
      PROVE  t[j].id \in p.covers \/ ToldBy(t, Len(t), t[j].id)
  <2>1. t[j] = s[j] /\ n + 1 \in Nat /\ n <= n + 1
    BY <1>1
  <2>2. s[j].id \in p.covers \/ ToldBy(s, n, s[j].id)
    BY <1>2, <1>4, <2>1
  <2>3. ToldBy(s, n, s[j].id) => ToldBy(t, n + 1, s[j].id)
    BY <1>1, <2>1, ToldSame
  <2> QED
    BY <1>1, <2>1, <2>2, <2>3
<1>5. WillTell(t, p)
  BY <1>3, <1>4 DEF WillTell
<1> QED
  BY <1>5 DEF t

\* Where a compaction cuts, it and those before it tell what is left out.
LEMMA CutTells ==
  ASSUME NEW s \in Seq(TreeEntries), CompactionsTell(s), NEW cut \in CutPoints(s)
  PROVE  WillTell(s, Prepared(s, FirstKept(s, cut)))
<1> DEFINE kept == FirstKept(s, cut)
           p == Prepared(s, kept)
           b == BoundaryStart(s)
           c == LatestCompaction(s)
           n == Len(s)
<1>1. n \in Nat /\ DOMAIN s = 1 .. n
  OBVIOUS
<1>2. kept \in DOMAIN s /\ kept \in b .. cut
  BY <1>1, CutIs
<1> HIDE DEF kept
<1>3. p.ref = s[kept].id /\ \A j \in b .. kept - 1 : Summarizable(s[j]) => s[j].id \in p.covers
  BY <1>2, PreparedIs
<1>4. /\ b \in Nat /\ b >= 1 /\ (c = 0 => b = 1)
      /\ c # 0 /\ KeptPlaces(s, c) # {} => \A k \in KeptPlaces(s, c) : b <= k
  BY <1>1, BoundaryIs
<1>5. c \in 0 .. n /\ (c # 0 => s[c].kind = "compaction")
  BY <1>1, LatestIs
<1> HIDE DEF p, b, c, n
<1>6. ASSUME NEW j \in 1 .. kept - 1, Summarizable(s[j]), j < b PROVE ToldBy(s, n, s[j].id)
  <2>1. c # 0
    BY <1>4, <1>6
  <2>2. c \in DOMAIN s /\ c \in Nat /\ c <= n
    BY <1>1, <1>5, <2>1
  <2>3. CompactionTells(s, c)
    BY <1>5, <2>1, <2>2 DEF CompactionsTell
  <2>4. PICK k \in KeptPlaces(s, c) :
          \A i \in 1 .. k - 1 : Summarizable(s[i]) => ToldBy(s, c, s[i].id)
    BY <2>3 DEF CompactionTells
  <2>5. b <= k
    BY <1>4, <2>1, <2>4
  <2>6. k \in Nat
    BY <2>2, <2>4 DEF KeptPlaces
  <2>7. j \in 1 .. k - 1
    BY <1>4, <1>6, <2>5, <2>6
  <2>8. ToldBy(s, c, s[j].id)
    BY <1>6, <2>4, <2>7
  <2> QED
    BY <1>1, <2>2, <2>8, ToldSame
<1>7. ASSUME NEW j \in 1 .. kept - 1, Summarizable(s[j])
      PROVE  s[j].id \in p.covers \/ ToldBy(s, n, s[j].id)
  <2>1. kept \in Nat /\ j \in Nat
    BY <1>1, <1>2
  <2>2. j < b \/ j \in b .. kept - 1
    BY <1>4, <2>1
  <2> QED
    BY <1>3, <1>6, <1>7, <2>2
<1>8. WillTell(s, p)
  BY <1>2, <1>3, <1>7 DEF WillTell, n
<1> QED
  BY <1>8 DEF p, kept

-----------------------------------------------------------------------------
(* Forks without labels.                                                    *)

LEMMA SameParent ==
  ASSUME NEW e \in TreeEntries
  PROVE  [e EXCEPT !.parent = e.parent] = e
<1>1. CASE e \in EntriesOf(Messages \cup {"metadata", "branch_summary"})
  BY <1>1 DEF EntriesOf
<1>2. CASE e \in LabelsOf
  BY <1>2 DEF LabelsOf
<1>3. CASE e \in CompactionsOf
  BY <1>3 DEF CompactionsOf
<1> QED
  BY <1>1, <1>2, <1>3 DEF TreeEntries

\* A branch without labels is retained as it is.
LEMMA NothingDropped ==
  ASSUME NEW s, IsBranch(s), \A k \in DOMAIN s : s[k].kind # "label"
  PROVE  WithoutLabels(s) = s
<1> DEFINE n == Len(s)
<1>1. s \in Seq(TreeEntries) /\ n \in Nat /\ DOMAIN s = 1 .. n /\ Linked(s)
  BY DEF IsBranch
<1>2. PICK g : /\ WithoutLabels(s) = g[n] /\ g[0] = <<>>
               /\ \A m \in 1 .. n : g[m] = Retained(g[m - 1], s[m])
  BY <1>1, WithoutLabelsIs
<1> DEFINE S == {m \in Nat : m <= n => g[m] = SubSeq(s, 1, m)}
<1> HIDE DEF n
<1>3. 0 \in S
  <2>1. SubSeq(s, 1, 0) = <<>>
    BY <1>1
  <2> QED
    BY <1>2, <2>1
<1>4. ASSUME NEW m \in S PROVE m + 1 \in S
  <2> SUFFICES ASSUME m + 1 <= n PROVE g[m + 1] = SubSeq(s, 1, m + 1)
    OBVIOUS
  <2>1. m \in Nat /\ m + 1 \in 1 .. n /\ m <= n /\ (m + 1) - 1 = m /\ m \in 0 .. n
    BY <1>1
  <2> DEFINE a == SubSeq(s, 1, m)
             e == s[m + 1]
  <2>2. g[m] = a
    BY <2>1
  <2>3. g[m + 1] = Retained(a, e)
    BY <1>2, <2>1, <2>2
  <2>4. /\ a \in Seq(TreeEntries) /\ Len(a) = m /\ \A i \in 1 .. m : a[i] = s[i]
        /\ SubSeq(s, 1, m + 1) = Append(a, e)
    BY <1>1, <2>1, Prefix DEF n
  <2>5. e \in TreeEntries /\ e.kind # "label"
    BY <1>1, <2>1
  <2>6. e.parent = IF m + 1 = 1 THEN 0 ELSE s[m].id
    BY <1>1, <2>1 DEF Linked
  <2> HIDE DEF a, e
  <2>7. EndOf(a) = e.parent
    <3>1. CASE m = 0
      <4>1. a = <<>>
        BY <2>4, <3>1
      <4> QED
        BY <2>6, <3>1, <4>1 DEF EndOf
    <3>2. CASE m # 0
      <4>1. a # <<>> /\ m \in 1 .. m /\ m + 1 # 1
        BY <2>1, <2>4, <3>2
      <4> QED
        BY <2>4, <2>6, <4>1 DEF EndOf
    <3> QED
      BY <3>1, <3>2
  <2>8. Retained(a, e) = Append(a, [e EXCEPT !.parent = EndOf(a)])
    BY <2>5 DEF Retained
  <2>9. [e EXCEPT !.parent = EndOf(a)] = e
    BY <2>5, <2>7, SameParent
  <2>10. Retained(a, e) = Append(a, e)
    BY <2>8, <2>9
  <2> QED
    BY <2>3, <2>4, <2>10 DEF e
<1>5. S \in SUBSET Nat
  OBVIOUS
<1> HIDE DEF S
<1>6. \A m \in Nat : m \in S
  BY <1>3, <1>4, <1>5, NatBelow
<1>7. g[n] = SubSeq(s, 1, n)
  BY <1>1, <1>6 DEF S
<1>8. SubSeq(s, 1, n) = s
  <2> DEFINE a == SubSeq(s, 1, n)
  <2>1. n \in 0 .. n
    BY <1>1
  <2>2. a \in Seq(TreeEntries) /\ Len(a) = n /\ \A i \in 1 .. n : a[i] = s[i]
    BY <1>1, <2>1, Prefix DEF n
  <2> HIDE DEF a
  <2>3. a \in Seq(TreeEntries) /\ s \in Seq(TreeEntries) /\ Len(a) = Len(s)
        /\ \A i \in 1 .. Len(a) : a[i] = s[i]
    BY <1>1, <2>2 DEF n
  <2>4. a = s
    BY <2>3, SeqEqual
  <2> QED
    BY <2>4 DEF a
<1> QED
  BY <1>2, <1>7, <1>8

NoLabels(T) == \A i \in DOMAIN T : T[i].kind # "label"

LEMMA NothingReplayed == ASSUME NEW T, NoLabels(T) PROVE Replayed(T) = {}
BY DEF Replayed, NoLabels

LEMMA ForkTakesPath ==
  ASSUME TreeTypeOK, NoLabels(entries), labelled = {}, NEW id \in DOMAIN entries, Fork(id)
  PROVE  LET s == buildSessionPath(entries, id)
         IN  IsBranch(s) /\ entries' = Indexed(s) /\ NoLabels(entries') /\ labelled' = {}
<1> DEFINE s == buildSessionPath(entries, id)
           r == WithoutLabels(s)
           l == LabelEntries(r)
<1>1. /\ PathOf(entries, id, s) /\ Filtered(r, s, Len(s)) /\ EndOf(r) < nextId
      /\ nextId + Len(l) <= MaxIds + 1 /\ entries' = Indexed(r \o l)
      /\ labelled' = Replayed(entries')
  BY ForkIs
<1> HIDE DEF s, r
<1>2. IsBranch(s) /\ IsBranch(r) /\ \A k \in DOMAIN s : s[k].kind # "label"
  BY <1>1 DEF PathOf, Filtered, NoLabels
<1>3. r = s
  BY <1>2, NothingDropped DEF r
<1>4. l = <<>>
  BY <1>1, <1>2, OthersAre, LabelEntriesAre
<1> HIDE DEF l
<1>5. r \o l = s
  <2>1. s \in Seq(TreeEntries)
    BY <1>2 DEF IsBranch
  <2>2. s \o <<>> = s
    BY <2>1, ConcatEmptySeq
  <2> QED
    BY <1>3, <1>4, <2>2
<1>6. entries' = Indexed(s)
  BY <1>1, <1>5
<1>7. NoLabels(entries')
  <2>1. /\ DOMAIN Indexed(s) = {s[k].id : k \in DOMAIN s}
        /\ \A k \in DOMAIN s : Indexed(s)[s[k].id] = s[k]
    BY <1>2, IndexedIs
  <2>2. NoLabels(Indexed(s))
    BY <1>2, <2>1 DEF NoLabels
  <2> QED
    BY <1>6, <2>2
<1>8. labelled' = {}
  BY <1>1, <1>7, NothingReplayed
<1> QED
  BY <1>2, <1>6, <1>7, <1>8 DEF s

-----------------------------------------------------------------------------
(* Every message is in the context or has been told.                        *)

TellTree(T) == \A id \in DOMAIN T \cup {0} : CompactionsTell(buildSessionPath(T, id))

\* Every compaction tells what it leaves out of its path, and the one in progress
\* will; there are no labels.
KInv ==
    /\ TellTree(entries)
    /\ NoLabels(entries) /\ labelled = {}
    /\ pending # NoCompaction => WillTell(LeafWay, pending)

LEMMA GrownTells ==
  ASSUME NEW T, NEW U, NEW e, Grown(T, U, e), TellTree(T), NoLabels(T), e.kind # "label",
         e.kind = "compaction" => WillTell(buildSessionPath(T, e.parent), e)
  PROVE  TellTree(U) /\ NoLabels(U)
<1> DEFINE s == buildSessionPath(T, e.parent)
<1>1. /\ \A i \in DOMAIN T \cup {0} : buildSessionPath(U, i) = buildSessionPath(T, i)
      /\ buildSessionPath(U, e.id) = Append(s, e)
  BY GrownIs
<1>2. /\ DOMAIN U = DOMAIN T \cup {e.id} /\ e \in TreeEntries /\ IsTree(T) /\ U[e.id] = e
      /\ \A i \in DOMAIN T : U[i] = T[i]
      /\ e.parent \in DOMAIN T \cup {0}
  BY DEF Grown
<1>3. s \in Seq(TreeEntries) /\ CompactionsTell(s)
  <2>1. PathOf(T, e.parent, s)
    BY <1>2, PathFacts
  <2> QED
    BY <1>2, <2>1 DEF PathOf, IsBranch, TellTree
<1> HIDE DEF s
<1>4. CompactionsTell(Append(s, e))
  <2>1. e.kind = "compaction" => WillTell(s, e)
    BY DEF s
  <2> QED
    BY <1>2, <1>3, <2>1, TellsAppend
<1>5. \A i \in DOMAIN T \cup {0} : CompactionsTell(buildSessionPath(U, i))
  BY <1>1 DEF TellTree
<1>6. CompactionsTell(buildSessionPath(U, e.id))
  BY <1>1, <1>4
<1>7. TellTree(U)
  BY <1>2, <1>5, <1>6 DEF TellTree
<1>8. NoLabels(U)
  BY <1>2 DEF NoLabels
<1> QED
  BY <1>7, <1>8

\* An entry behind the leaf that is no compaction.
LEMMA OthersKeepKInv ==
  ASSUME TreeTypeOK, KInv, NEW e, Appends(e), e.parent = leafId,
         e.kind \notin {"label", "compaction"}, UNCHANGED pending
  PROVE  KInv'
<1>0. Attaches(e) /\ labelled' = labelled
  BY DEF Appends
<1>1. /\ Grown(entries, entries', e) /\ LeafWay' = Append(LeafWay, e)
      /\ e \in TreeEntries /\ LeafWay \in Seq(TreeEntries)
  BY <1>0, LeafGrows DEF LeafWay
<1>2. TellTree(entries') /\ NoLabels(entries')
  BY <1>1, GrownTells DEF KInv
<1>3. pending' # NoCompaction => WillTell(LeafWay', pending')
  <2> SUFFICES ASSUME pending # NoCompaction PROVE WillTell(LeafWay', pending)
    OBVIOUS
  <2>1. WillTell(LeafWay, pending)
    BY DEF KInv
  <2>2. WillTell(Append(LeafWay, e), pending)
    BY <1>1, <2>1, WillTellAppend
  <2> QED
    BY <1>1, <2>2
<1> QED
  BY <1>0, <1>2, <1>3 DEF KInv

LEMMA WillTellLike ==
  ASSUME NEW s, NEW p, NEW q, p.ref = q.ref, p.covers = q.covers, WillTell(s, p)
  PROVE  WillTell(s, q)
BY DEF WillTell

LEMMA FinishKeepsKInv ==
  ASSUME TreeTypeOK, KInv, FinishCompaction, Appends(Finished)
  PROVE  KInv'
<1> DEFINE e == Finished
<1>1. e.parent = leafId /\ e.kind = "compaction" /\ e.ref = pending.ref /\ e.covers = pending.covers
  BY DEF Finished
<1>2. pending # NoCompaction /\ pending' = NoCompaction
  BY DEF FinishCompaction
<1> HIDE DEF e
<1>3. Grown(entries, entries', e) /\ labelled' = labelled
  BY LeafGrows DEF Appends, e
<1>4. WillTell(LeafWay, e)
  <2>1. WillTell(LeafWay, pending)
    BY <1>2 DEF KInv
  <2> QED
    BY <1>1, <2>1, WillTellLike
<1>5. WillTell(buildSessionPath(entries, e.parent), e)
  BY <1>1, <1>4 DEF LeafWay
<1>6. TellTree(entries') /\ NoLabels(entries')
  <2>1. e.kind # "label"
    BY <1>1
  <2> QED
    BY <1>3, <1>5, <2>1, GrownTells DEF KInv
<1> QED
  BY <1>2, <1>3, <1>6 DEF KInv

LEMMA StartKeepsKInv ==
  ASSUME TreeTypeOK, KInv, StartCompaction
  PROVE  KInv'
<1>1. UNCHANGED <<entries, leafId, labelled>>
  BY DEF StartCompaction
<1>2. PICK cut \in CutPoints(LeafWay) : pending' = Prepared(LeafWay, FirstKept(LeafWay, cut))
  BY StartIs DEF LeafWay
<1>3. LeafWay \in Seq(TreeEntries)
  BY LeafIs
<1>4. CompactionsTell(LeafWay)
  BY OthersAre DEF KInv, TellTree, LeafWay
<1> DEFINE s == LeafWay
<1>5. LeafWay' = s
  BY <1>1 DEF LeafWay
<1> HIDE DEF s
<1>6. WillTell(s, Prepared(s, FirstKept(s, cut)))
  BY <1>2, <1>3, <1>4, CutTells DEF s
<1>7. WillTell(LeafWay', pending')
  BY <1>2, <1>5, <1>6 DEF s
<1> QED
  BY <1>1, <1>7 DEF KInv

LEMMA ForkTells ==
  ASSUME TreeTypeOK, KInv, NEW id \in DOMAIN entries, Fork(id)
  PROVE  TellTree(entries') /\ NoLabels(entries') /\ labelled' = {}
<1> DEFINE s == buildSessionPath(entries, id)
<1>1. IsBranch(s) /\ entries' = Indexed(s) /\ NoLabels(entries') /\ labelled' = {}
  BY ForkTakesPath DEF KInv
<1>2. CompactionsTell(s)
  BY DEF KInv, TellTree
<1> HIDE DEF s
<1>3. s \in Seq(TreeEntries)
  BY <1>1 DEF IsBranch
<1>4. ASSUME NEW i \in DOMAIN entries' \cup {0} PROVE CompactionsTell(buildSessionPath(entries', i))
  <2>1. PICK k \in 0 .. Len(s) : buildSessionPath(Indexed(s), i) = SubSeq(s, 1, k)
    BY <1>1, <1>4, IndexedPaths
  <2>2. CompactionsTell(SubSeq(s, 1, k))
    BY <1>2, <1>3, TellsPrefix
  <2> QED
    BY <1>1, <2>1, <2>2
<1> QED
  BY <1>1, <1>4 DEF TellTree

LEMMA EmptyTells == TellTree(<<>>) /\ NoLabels(<<>>)
<1>1. DOMAIN <<>> = {} /\ IsTree(<<>>)
  BY DEF IsTree
<1>2. buildSessionPath(<<>>, 0) = <<>>
  BY <1>1, PathIs
<1>3. CompactionsTell(<<>>)
  BY <1>1 DEF CompactionsTell
<1> QED
  BY <1>1, <1>2, <1>3 DEF TellTree, NoLabels

LEMMA StepKInv ==
  ASSUME ~Overlap, ~Labels, TInv, KInv, [TreeNext]_treeVars
  PROVE  KInv'
<1>0. TreeTypeOK /\ TellTree(entries) /\ NoLabels(entries) /\ labelled = {}
  BY DEF TInv, KInv
<1>1. ASSUME NEW kind \in Messages, AppendMessage(kind), Appends(Plain(kind)), Plain(kind).kind = kind
      PROVE  KInv'
  <2>1. Plain(kind).parent = leafId /\ pending' = pending
    BY <1>1 DEF Plain, AppendMessage
  <2>2. Plain(kind).kind \notin {"label", "compaction"}
    BY <1>1 DEF Messages
  <2> QED
    BY <1>0, <1>1, <2>1, <2>2, OthersKeepKInv
<1>2. ASSUME AppendMetadata, Appends(Plain("metadata")), Plain("metadata").kind = "metadata"
      PROVE  KInv'
  <2>1. Plain("metadata").parent = leafId /\ pending' = pending
    BY <1>2 DEF Plain, AppendMetadata
  <2>2. Plain("metadata").kind \notin {"label", "compaction"}
    BY <1>2
  <2> QED
    BY <1>0, <1>2, <2>1, <2>2, OthersKeepKInv
<1>3. ASSUME FinishCompaction, Appends(Finished) PROVE KInv'
  BY <1>0, <1>3, FinishKeepsKInv
<1>4. ASSUME NEW e, NEW id \in DOMAIN entries \cup {0}, BranchWithSummary(id), Appends(e),
             e.kind = "branch_summary"
      PROVE  KInv'
  <2>1. Grown(entries, entries', e) /\ labelled' = labelled
    BY <1>0, <1>4, AttachGrows DEF Appends
  <2>2. TellTree(entries') /\ NoLabels(entries')
    <3>1. e.kind # "label" /\ e.kind # "compaction"
      BY <1>4
    <3> QED
      BY <1>0, <2>1, <3>1, GrownTells
  <2>3. pending' = NoCompaction
    BY <1>4 DEF BranchWithSummary, Navigate
  <2> QED
    BY <1>0, <2>1, <2>2, <2>3 DEF KInv
<1>5. ASSUME NEW id \in DOMAIN entries \cup {0}, BranchFrom(id) PROVE KInv'
  <2>1. pending' = NoCompaction /\ entries' = entries /\ labelled' = labelled
    BY <1>5 DEF BranchFrom, Navigate
  <2> QED
    BY <1>0, <2>1 DEF KInv
<1>6. ASSUME StartCompaction PROVE KInv'
  BY <1>0, <1>6, StartKeepsKInv
<1>7. ASSUME CancelCompaction PROVE KInv'
  <2>1. UNCHANGED <<entries, labelled>> /\ pending' = NoCompaction
    BY <1>7 DEF CancelCompaction
  <2> QED
    BY <1>0, <2>1 DEF KInv
<1>8. ASSUME NewSession PROVE KInv'
  <2>1. entries' = <<>> /\ labelled' = {} /\ pending' = NoCompaction
    BY <1>8 DEF NewSession, Replace
  <2> QED
    BY <2>1, EmptyTells DEF KInv
<1>9. ASSUME Reopen PROVE KInv'
  <2>1. entries' = entries /\ labelled' = Replayed(entries) /\ pending' = NoCompaction
    BY <1>9 DEF Reopen, Replace
  <2> QED
    BY <1>0, <2>1, NothingReplayed DEF KInv
<1>10. ASSUME NEW id \in DOMAIN entries, Fork(id) PROVE KInv'
  <2>1. pending' = NoCompaction
    BY <1>10 DEF Fork, Replace
  <2> QED
    BY <1>0, <1>10, <2>1, ForkTells DEF KInv
<1>11. CASE UNCHANGED treeVars
  <2>1. UNCHANGED <<entries, leafId, labelled, pending>>
    BY <1>11 DEF treeVars
  <2> QED
    BY <2>1 DEF KInv, LeafWay
<1>12. CASE TreeNext
  <2>1. ~ \E target \in DOMAIN entries, on \in BOOLEAN :
             Labelling(Label(nextId, leafId, target, on), target, on)
    BY DEF Labelling, AppendLabelChange
  <2> QED
    BY <1>1, <1>2, <1>3, <1>4, <1>5, <1>6, <1>7, <1>8, <1>9, <1>10, <1>12, <2>1, AppendsAre
<1> QED
  BY <1>11, <1>12

\* An entry of a path is in the context or in front of the first one kept.
LEMMA InContext ==
  ASSUME NEW S, NEW s \in Seq(S), NEW c, NEW m, NEW t, ContextFrom(s, t, c, m),
         NEW j \in DOMAIN s, j >= m, j # c
  PROVE  s[j] \in ToSet(t)
<1>1. /\ Len(s) \in Nat /\ DOMAIN s = 1 .. Len(s) /\ c \in 1 .. Len(s) /\ m \in 1 .. c
      /\ Len(t) = 1 + Len(s) - m /\ DOMAIN t = 1 .. Len(t)
      /\ \A i \in m .. c - 1 : t[2 + i - m] = s[i]
      /\ \A i \in c + 1 .. Len(s) : t[1 + i - m] = s[i]
  BY DEF ContextFrom
<1>2. CASE j < c
  <2>1. j \in m .. c - 1 /\ 2 + j - m \in DOMAIN t
    BY <1>1, <1>2
  <2>2. t[2 + j - m] = s[j]
    BY <1>1, <2>1
  <2> QED
    BY <2>1, <2>2 DEF ToSet
<1>3. CASE j > c
  <2>1. j \in c + 1 .. Len(s) /\ 1 + j - m \in DOMAIN t
    BY <1>1, <1>3
  <2>2. t[1 + j - m] = s[j]
    BY <1>1, <2>1
  <2> QED
    BY <2>1, <2>2 DEF ToSet
<1> QED
  BY <1>1, <1>2, <1>3

LEMMA ToldOrKept ==
  ASSUME NEW S, NEW s \in Seq(S), CompactionsTell(s), NEW j \in DOMAIN s, Summarizable(s[j])
  PROVE  s[j] \in ToSet(Context(s)) \/ ToldBy(s, Len(s), s[j].id)
<1> DEFINE c == LatestCompaction(s)
<1>1. Len(s) \in Nat /\ DOMAIN s = 1 .. Len(s)
  OBVIOUS
<1>2. CASE c = 0
  <2>1. Context(s) = s
    BY <1>2 DEF Context
  <2> QED
    BY <2>1 DEF ToSet
<1>3. CASE c # 0
  <2> DEFINE t == Context(s)
  <2>1. PICK m : ContextFrom(s, t, c, m)
    BY <1>3, ContextIs
  <2> HIDE DEF c, t
  <2>2. c \in 1 .. Len(s) /\ s[c].kind = "compaction" /\ m \in 1 .. c
    BY <1>1, <2>1 DEF ContextFrom
  <2>3. PICK k \in KeptPlaces(s, c) :
          \A i \in 1 .. k - 1 : Summarizable(s[i]) => ToldBy(s, c, s[i].id)
    BY <1>1, <2>2 DEF CompactionsTell, CompactionTells
  <2>4. k \in 1 .. c - 1 /\ m <= k
    <3>1. KeptPlaces(s, c) # {}
      BY <2>3
    <3> QED
      BY <2>1, <2>3, <3>1 DEF ContextFrom, KeptPlaces
  <2>5. j # c
    BY <2>2 DEF Summarizable
  <2>6. CASE j >= m
    BY <2>1, <2>5, <2>6, InContext DEF t
  <2>7. CASE ~ (j >= m)
    <3>1. j \in 1 .. k - 1 /\ c \in Nat /\ c <= Len(s)
      BY <1>1, <2>2, <2>4, <2>7
    <3>2. ToldBy(s, c, s[j].id)
      BY <2>3, <3>1
    <3> QED
      BY <1>1, <3>1, <3>2, ToldSame
  <2> QED
    BY <2>6, <2>7
<1> QED
  BY <1>2, <1>3

\* KeptOrSummarized holds for any number of entries, compactions, branches, forks
\* and reopenings, without labels (a fork takes a label entry away even when a
\* compaction kept it first) and without a navigation in the middle of a
\* compaction: each compaction, split or not, starts where the one before it
\* started to keep.
THEOREM NothingForgotten ==
  ASSUME ~Overlap, ~Labels
  PROVE  TreeSpec => []KeptOrSummarized
<1>1. TreeInit => KInv
  BY EmptyTells DEF TreeInit, KInv
<1>2. TInv /\ KInv /\ [TreeNext]_treeVars => KInv'
  BY StepKInv
<1>3. TInv /\ KInv => KeptOrSummarized
  <2> SUFFICES ASSUME TInv, KInv PROVE KeptOrSummarized
    OBVIOUS
  <2>1. TreeTypeOK
    BY DEF TInv
  <2>2. LeafWay \in Seq(TreeEntries)
    BY <2>1, LeafIs
  <2>3. CompactionsTell(LeafWay)
    BY <2>1, OthersAre DEF KInv, TellTree, LeafWay
  <2> DEFINE s == LeafWay
             compactions == {e \in ToSet(s) : e.kind = "compaction"}
             told == UNION {e.covers : e \in compactions}
  <2> HIDE DEF s
  <2>4. Len(s) \in Nat /\ DOMAIN s = 1 .. Len(s) /\ ToSet(s) = {s[j] : j \in DOMAIN s}
    BY <2>2 DEF s, ToSet
  <2>5. \A x : ToldBy(s, Len(s), x) => x \in told
    BY <2>4 DEF ToldBy
  <2>6. ASSUME NEW e \in ToSet(s), Summarizable(e) PROVE e \in ToSet(Context(s)) \/ e.id \in told
    <3>1. PICK j \in DOMAIN s : e = s[j]
      BY <2>4
    <3>2. e \in ToSet(Context(s)) \/ ToldBy(s, Len(s), e.id)
      BY <2>2, <2>3, <2>6, <3>1, ToldOrKept DEF s
    <3> QED
      BY <2>5, <3>2
  <2> QED
    BY <2>6 DEF KeptOrSummarized, LeafWay, s
<1> QED
  BY <1>1, <1>2, <1>3, AlwaysTypes, PTL DEF TreeSpec
=============================================================================
