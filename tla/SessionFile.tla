---------------------------- MODULE SessionFile ----------------------------
(***************************************************************************)
(* The file of a session and the processes that have it open: the          *)
(* persistence of class SessionManager (session-manager.ts).               *)
(*                                                                         *)
(* Nothing is written before the first assistant message; then the whole   *)
(* session is written into a new file, and from there on each append adds  *)
(* a line.  Any number of processes may open one file (--session,          *)
(* --continue): nothing locks it.  The code of a process is synchronous,   *)
(* but another process may run between any two of its system calls: an     *)
(* action makes one of them, and what it computes from the result.         *)
(*                                                                         *)
(* Bound: a behaviour has a disk that fails or processes that disturb each *)
(* other while they create the file, not both (Init).                      *)
(***************************************************************************)
EXTENDS Naturals, Sequences, SequencesExt

CONSTANTS
    Procs,        \* processes that open the file
    MaxEntries,   \* bound: entries appended
    MaxMoves,     \* bound: openings and branchings
    Faults        \* how a write may fail: a subset of {"none", "torn", "open"}

ASSUME ConfigAssumption ==
    MaxEntries \in Nat /\ MaxMoves \in Nat /\ Faults \subseteq {"none", "torn", "open"}

Ids == 1 .. MaxEntries
Null == 0

Entry(id, parent, answer) ==
    [type |-> "entry", id |-> id, parent |-> parent, answer |-> answer]
Entries == [type : {"entry"}, id : Ids, parent : {Null} \cup Ids, answer : BOOLEAN]
\* The id, the time and the directory are the process's own.
Header(p) == [type |-> "session", by |-> p]
Headers == {Header(p) : p \in Procs}
Lines == Entries \cup Headers

\* What a process is doing: it does not have the session; it has found the file
\* empty; it has truncated it; it has the session; it writes it for the first time.
Stages == {"closed", "found", "truncated", "idle", "create"}

VARIABLES
    size,      \* of the file: "none" (it does not exist), "zero" or "some"
    file,      \* its lines that parse: nobody ever sees the others
    tail,      \* its end: "newline", "open" (a whole line without its newline) or "torn"
    stage,     \* stage[p]
    written,   \* written[p]: lines of its session that p has written into the file it creates
    mem,       \* mem[p]: fileEntries without the header
    leaf,      \* leaf[p]: leafId
    flushed,   \* flushed[p]
    next,      \* the next id to be generated
    creator,   \* the process that has created the file, if one has (history)
    acked,     \* entries written without an error (history)
    moves,     \* openings and branchings so far (bound)
    healthy,   \* the disk never fails (chosen at the start)
    calm       \* nobody goes on creating a file that another has changed meanwhile (likewise)

disk == <<size, file, tail>>
vars == <<size, file, tail, stage, written, mem, leaf, flushed, next, creator, acked, moves,
          healthy, calm>>

Init ==
    /\ size \in {"none", "zero"} /\ file = <<>> /\ tail = "newline"
    /\ stage = [p \in Procs |-> "closed"]
    /\ written = [p \in Procs |-> 0]
    /\ mem = [p \in Procs |-> <<>>]
    /\ leaf = [p \in Procs |-> Null]
    /\ flushed = [p \in Procs |-> FALSE]
    /\ next = 1 /\ creator = {} /\ acked = {} /\ moves = 0
    /\ healthy \in BOOLEAN /\ calm \in BOOLEAN /\ (healthy \/ calm)

HasAnswer(s) == \E i \in DOMAIN s : s[i].answer

Session(p) == <<Header(p)>> \o mem[p]

-----------------------------------------------------------------------------
(* Opening and closing.                                                     *)

\* loadEntriesFromFile: the lines that parse, if the first of them is a header.
ValidSession == file # <<>> /\ Head(file) \in Headers
Loaded == IF ValidSession THEN Tail(file) ELSE <<>>

\* Mutant: entries are counted instead of asked for their id.
Mut_LastId(s) == Len(s)

\* The id of the last entry (_buildIndex).
LastId(s) == IF s = <<>> THEN Null ELSE s[Len(s)].id

\* setSessionFile of a file that does not exist: newSession under its name.
OpenMissing(p) ==
    /\ size = "none"
    /\ stage' = [stage EXCEPT ![p] = "idle"]
    /\ UNCHANGED <<mem, leaf, flushed>>

\* Of an empty file: nothing is read from it, and then its size is zero.
OpenEmpty(p) ==
    /\ size = "zero"
    /\ stage' = [stage EXCEPT ![p] = "found"]
    /\ UNCHANGED <<mem, leaf, flushed>>

\* Of a session: the leaf is its last entry.  Anything else throws.
OpenSession(p) ==
    /\ ValidSession
    /\ stage' = [stage EXCEPT ![p] = "idle"]
    /\ mem' = [mem EXCEPT ![p] = Loaded]
    /\ leaf' = [leaf EXCEPT ![p] = LastId(Loaded)]
    /\ flushed' = [flushed EXCEPT ![p] = TRUE]

Open(p) ==
    /\ stage[p] = "closed" /\ moves < MaxMoves
    /\ moves' = moves + 1
    /\ OpenMissing(p) \/ OpenEmpty(p) \/ OpenSession(p)
    /\ UNCHANGED <<disk, written, next, creator, acked, healthy, calm>>

\* The process exits or crashes, in the middle of an operation too, or an error
\* ends its opening of the file.
Close(p) ==
    /\ stage[p] # "closed"
    /\ stage' = [stage EXCEPT ![p] = "closed"]
    /\ written' = [written EXCEPT ![p] = 0]
    /\ mem' = [mem EXCEPT ![p] = <<>>]
    /\ leaf' = [leaf EXCEPT ![p] = Null]
    /\ flushed' = [flushed EXCEPT ![p] = FALSE]
    /\ UNCHANGED <<disk, next, creator, acked, moves, healthy, calm>>

\* branch(id), and resetLeaf for Null: in memory only.
Branch(p, id) ==
    /\ stage[p] = "idle" /\ moves < MaxMoves
    /\ id = Null \/ \E i \in DOMAIN mem[p] : mem[p][i].id = id
    /\ id # leaf[p]
    /\ leaf' = [leaf EXCEPT ![p] = id]
    /\ moves' = moves + 1
    /\ UNCHANGED <<disk, stage, written, mem, flushed, next, creator, acked, healthy, calm>>

-----------------------------------------------------------------------------
(* Writing.                                                                 *)

\* What parses of the file once something is written behind its end: an
\* unfinished line no longer does.
Closed == IF tail = "open" THEN Front(file) ELSE file

\* Once a whole line is written: behind an unfinished one it does not parse either.
Glued(line) == IF tail = "newline" THEN Append(file, line) ELSE Closed

\* A line that the disk takes no part of, a part of, or all but the newline.
BreakOff(line) ==
    \/ "none" \in Faults /\ UNCHANGED disk
    \/ "torn" \in Faults /\ size' = "some" /\ file' = Closed /\ tail' = "torn"
    \/ "open" \in Faults /\ size' = "some" /\ file' = Glued(line)
         /\ tail' = IF tail = "newline" THEN "open" ELSE "torn"

\* appendFileSync of one line, to the end of the file.
WriteLine(e) ==
    \/ /\ size' = "some" /\ file' = Glued(e) /\ tail' = "newline"
       /\ acked' = acked \cup {e}
    \/ ~healthy /\ BreakOff(e) /\ UNCHANGED acked

\* The file is as p has left it: what p has written, and nothing else.
AsLeft(p) ==
    /\ file = SubSeq(Session(p), 1, written[p]) /\ tail = "newline"
    /\ written[p] = 0 => size = "zero"

\* A descriptor that was opened with "w" or "wx" writes at its own place, not at
\* the end.  If others have written into the file or truncated it meanwhile, the
\* line falls over lines of theirs or behind a gap: where, how many of them are
\* lost and whether it can be read itself depends on their lengths.
Misplace(line) ==
    \E new \in {<<>>, <<line>>}, k \in 0 .. Len(file) : \E m \in k .. Len(file) :
        /\ file' = SubSeq(file, 1, k) \o new \o SubSeq(file, m + 1, Len(file))
        /\ \A i \in DOMAIN file' : file'[i] \in Headers => i = 1

\* _rewriteFile opens the file with "w".
Truncate(p) ==
    /\ stage[p] = "found" /\ (calm => AsLeft(p))
    /\ stage' = [stage EXCEPT ![p] = "truncated"]
    /\ size' = "zero" /\ file' = <<>> /\ tail' = "newline"
    /\ UNCHANGED <<written, mem, leaf, flushed, next, creator, acked, moves, healthy, calm>>

\* The process has written its session in full, or could not.
EndCreation(p, done) ==
    /\ stage' = [stage EXCEPT ![p] = IF done \/ @ = "create" THEN "idle" ELSE "closed"]
    /\ written' = [written EXCEPT ![p] = 0]
    /\ flushed' = [flushed EXCEPT ![p] = done]
    /\ acked' = IF done THEN acked \cup ToSet(mem[p]) ELSE acked

\* One line of a file that is being created: the header alone (_rewriteFile), or
\* the header and every entry (the first _persist with an answer).
WriteNext(p) ==
    /\ stage[p] \in {"truncated", "create"} /\ (calm => AsLeft(p))
    /\ LET line == Session(p)[written[p] + 1]
       IN  \/ /\ IF AsLeft(p) THEN file' = Glued(line) ELSE Misplace(line)
              /\ size' = "some" /\ tail' = "newline"
              /\ \/ written[p] = Len(mem[p]) /\ EndCreation(p, TRUE)
                 \/ /\ written[p] < Len(mem[p])
                    /\ written' = [written EXCEPT ![p] = @ + 1]
                    /\ UNCHANGED <<stage, flushed, acked>>
           \/ ~healthy /\ BreakOff(line) /\ EndCreation(p, FALSE)
    /\ UNCHANGED <<mem, leaf, next, creator, moves, healthy, calm>>

-----------------------------------------------------------------------------
(* Appending.                                                               *)

\* Mutant: the file is opened with "w", and what is in it lost.
Mut_CreateFileOver(p) ==
    /\ size' = "zero" /\ file' = <<>> /\ tail' = "newline"
    /\ stage' = [stage EXCEPT ![p] = "create"] /\ creator' = {p}

\* The first write opens a new file ("wx"): it throws if there is one already, or
\* if the disk refuses it.
CreateFile(p) ==
    \/ /\ size = "none" /\ size' = "zero" /\ UNCHANGED <<file, tail>>
       /\ stage' = [stage EXCEPT ![p] = "create"] /\ creator' = {p}
    \/ /\ size # "none" \/ (~healthy /\ "none" \in Faults)
       /\ UNCHANGED <<disk, stage, creator>>

\* Mutant: without an answer nothing is written, even if there is a file.
Mut_PersistGuard(p, e, session) ==
    IF ~HasAnswer(session) THEN UNCHANGED <<disk, stage, creator, acked>>
    ELSE IF flushed[p] THEN WriteLine(e) /\ UNCHANGED <<stage, creator>>
    ELSE CreateFile(p) /\ UNCHANGED acked

\* _persist of e, the last entry of session.
Persist(p, e, session) ==
    IF flushed[p] THEN WriteLine(e) /\ UNCHANGED <<stage, creator>>
    ELSE IF HasAnswer(session) THEN CreateFile(p) /\ UNCHANGED acked
    ELSE UNCHANGED <<disk, stage, creator, acked>>

\* _appendEntry: memory first, then the file.
AppendEntry(p, answer) ==
    LET e == Entry(next, leaf[p], answer)
        session == Append(mem[p], e)
    IN  /\ stage[p] = "idle" /\ next <= MaxEntries
        /\ next' = next + 1
        /\ mem' = [mem EXCEPT ![p] = session]
        /\ leaf' = [leaf EXCEPT ![p] = next]
        /\ Persist(p, e, session)
        /\ UNCHANGED <<written, flushed, moves, healthy, calm>>

Next ==
    \E p \in Procs :
        \/ Open(p) \/ Close(p) \/ Truncate(p) \/ WriteNext(p)
        \/ \E id \in {Null} \cup Ids : Branch(p, id)
        \/ \E answer \in BOOLEAN : AppendEntry(p, answer)

Spec == Init /\ [][Next]_vars

-----------------------------------------------------------------------------
\* Every variable keeps its type; the leaf is an entry that the process holds.
TypeOK ==
    /\ size \in {"none", "zero", "some"}
    /\ file \in Seq(Lines) /\ (size # "some" => file = <<>>)
    /\ tail \in {"newline", "open", "torn"}
    /\ stage \in [Procs -> Stages]
    /\ mem \in [Procs -> Seq(Entries)]
    /\ written \in [Procs -> Nat] /\ \A p \in Procs : written[p] <= Len(mem[p])
    /\ leaf \in [Procs -> {Null} \cup Ids]
    /\ \A p \in Procs : leaf[p] \in {Null} \cup {e.id : e \in ToSet(mem[p])}
    /\ flushed \in [Procs -> BOOLEAN]
    /\ next \in 1 .. MaxEntries + 1
    /\ creator \subseteq Procs /\ acked \subseteq Entries
    /\ moves \in 0 .. MaxMoves
    /\ healthy \in BOOLEAN /\ calm \in BOOLEAN /\ (healthy \/ calm)

\* A process that has its session in the file finds all of it there, also the
\* entries it made before the first answer.
FlushedIsReadable == \A p \in Procs : flushed[p] => ToSet(mem[p]) \subseteq ToSet(Loaded)

\* "Mark as not flushed so when assistant arrives, all entries get written": a
\* process with an answer has its session in the file, unless the file is one that
\* another process has created.
AnsweredIsSaved ==
    \A p \in Procs : stage[p] = "idle" /\ HasAnswer(mem[p]) =>
        flushed[p] \/ \E q \in creator : q # p

\* While the disk does not fail and nobody is disturbed as it creates the file,
\* sessions are saved and what is saved is found.
SessionIsSaved == healthy /\ calm => FlushedIsReadable /\ AnsweredIsSaved

\* No write, whether it fails or not, makes an entry unreadable that was written
\* without an error and has been readable since.  The one exception is a process
\* that goes on creating a file which another has changed since it looked.
ReadableStaysReadable ==
    [][ \/ \A e \in acked : e \in ToSet(Loaded) => e \in ToSet(Loaded')
        \/ \E p \in Procs : ~AsLeft(p) /\ (Truncate(p) \/ WriteNext(p)) ]_vars

\* Nobody is creating the file any more.
Created == size = "some" /\ \A p \in Procs : stage[p] \in {"closed", "idle"}

\* From then on nobody ever creates it again, so the exception is over for good.
StaysCreated == [][Created => Created']_vars

\* On a disk that does not fail, and if nobody is disturbed as it creates the file,
\* the file implements an append-only tree.
Tree == INSTANCE AppendOnlyTree WITH
            tree <- IF healthy /\ calm THEN Loaded ELSE <<>>, Root <- Null

\* Whoever writes, and however the disk fails, the file only grows: nothing that
\* was readable is lost, and without failures each step adds entries behind
\* their parents or leaves the file alone.
FileOnlyGrows == ReadableStaysReadable /\ StaysCreated /\ Tree!Spec

=============================================================================
