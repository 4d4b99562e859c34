---------------------------- MODULE SessionTree ----------------------------
(***************************************************************************)
(* A session of the coding agent in memory: the tree of entries that class *)
(* SessionManager keeps (session-manager.ts), its labels, the context that *)
(* is built from it for the model, compaction of that context              *)
(* (compaction/compaction.ts) and forks into a new session.                *)
(*                                                                         *)
(* Ids are numbers in the order in which they are generated, which is the  *)
(* order of the entries in fileEntries too; 0 stands for null.  A path is  *)
(* a sequence of entries, as the functions of the code take it.            *)
(***************************************************************************)
EXTENDS Naturals, Sequences, SequencesExt, FiniteSetsExt

CONSTANTS
    MaxIds,    \* bound: ids generated
    MaxJumps,  \* bound: navigations, forks and reopenings
    Labels,    \* TRUE: the user sets labels
    Overlap    \* TRUE: the user may navigate while a compaction or a batch is going on

ASSUME TreeAssumption ==
    MaxIds \in Nat /\ MaxJumps \in Nat /\ Labels \in BOOLEAN /\ Overlap \in BOOLEAN

EntryIds == 1 .. MaxIds

VARIABLES
    entries,   \* byId: from the ids in the session to its entries
    leafId,
    labelled,  \* keys of labelsById
    nextId,    \* the next id to be generated
    calling,   \* the run still owes results for the calls of its last message
    pending,   \* the compaction whose summary is being generated, or NoCompaction
    jumps      \* navigations, forks and reopenings so far (history)

treeVars == <<entries, leafId, labelled, nextId, calling, pending, jumps>>

\* "user" stands for bash executions and custom messages too: they give the
\* model a message of their own, start a turn and may be the first one kept.
Messages == {"user", "assistant", "toolResult"}

Plain(kind) == [id |-> nextId, kind |-> kind, parent |-> leafId]
Label(id, parent, target, on) ==
    [id |-> id, kind |-> "label", parent |-> parent, ref |-> target, on |-> on]

\* A compaction: its firstKeptEntryId and, as history, the messages that its
\* summary is made from.
Compaction(kept, covers) == [ref |-> kept, covers |-> covers]
NoCompaction == Compaction(0, {})

TreeInit ==
    /\ entries = <<>>
    /\ leafId = 0
    /\ labelled = {}
    /\ nextId = 1
    /\ calling = FALSE
    /\ pending = NoCompaction
    /\ jumps = 0

-----------------------------------------------------------------------------
(* Reading the tree.                                                        *)

\* buildSessionPath, getBranch: from a root to id, as far as parents are found.
buildSessionPath(tree, id) ==
    LET up[i \in 0 .. MaxIds] ==
            IF i \in DOMAIN tree THEN Append(up[tree[i].parent], tree[i]) ELSE <<>>
    IN  up[id]

\* sessionEntryToContextMessages gives a message for the entry.
Visible(e) == e.kind \in Messages \cup {"compaction", "branch_summary"}

\* The place of the latest compaction in a path, 0 if there is none.
LatestCompaction(path) == Max({0} \cup {i \in DOMAIN path : path[i].kind = "compaction"})

\* The places before the compaction at c that hold its firstKeptEntryId.
KeptPlaces(path, c) == {i \in 1 .. c - 1 : path[i].id = path[c].ref}

\* buildContextEntries.
Context(path) ==
    LET c == LatestCompaction(path)
        kept == KeptPlaces(path, c)
    IN  IF c = 0 THEN path
        ELSE <<path[c]>>
               \o (IF kept = {} THEN <<>> ELSE SubSeq(path, Min(kept), c - 1))
               \o SubSeq(path, c + 1, Len(path))

\* The labels that the label entries of a session amount to (_buildIndex).
Replayed(tree) ==
    LET changes == {i \in DOMAIN tree : tree[i].kind = "label"}
    IN  {tree[i].ref : i \in {j \in changes :
            tree[j].on /\ \A k \in changes : tree[k].ref = tree[j].ref => k <= j}}

-----------------------------------------------------------------------------
(* Appending.                                                               *)

\* _appendEntry.
Add(entry) ==
    /\ nextId <= MaxIds
    /\ entries' = [i \in DOMAIN entries \cup {nextId} |-> IF i = nextId THEN entry ELSE entries[i]]
    /\ leafId' = nextId
    /\ nextId' = nextId + 1

\* appendMessage, called for each message_end of a run and, outside a batch, for
\* bash commands.  A batch's results follow the message that made the calls.
AppendMessage(kind) ==
    /\ kind = "toolResult" <=> calling
    /\ kind = "assistant" => pending = NoCompaction
    /\ Add(Plain(kind))
    /\ calling' \in IF kind = "user" THEN {FALSE} ELSE BOOLEAN
    /\ UNCHANGED <<labelled, pending, jumps>>

\* appendThinkingLevelChange, appendModelChange, appendCustomEntry and
\* appendSessionInfo: entries that give the model no message.
AppendMetadata ==
    /\ Add(Plain("metadata"))
    /\ UNCHANGED <<labelled, calling, pending, jumps>>

\* appendLabelChange; on is FALSE when the label is cleared.
AppendLabelChange(target, on) ==
    /\ Labels
    /\ target \in DOMAIN entries
    /\ Add(Label(nextId, leafId, target, on))
    /\ labelled' = IF on THEN labelled \cup {target} ELSE labelled \ {target}
    /\ UNCHANGED <<calling, pending, jumps>>

-----------------------------------------------------------------------------
(* Compaction.                                                              *)

TurnStart(e) == e.kind \in {"user", "branch_summary"}

\* Mutant: the summarized span starts behind the previous compaction.
Mut_BoundaryAfterCompaction(path) == LatestCompaction(path) + 1

\* boundaryStart: the previous compaction's first kept entry, or the entry
\* after that compaction if the path does not have it.
BoundaryStart(path) ==
    LET c == LatestCompaction(path)
        kept == KeptPlaces(path, c)
    IN  IF c = 0 \/ kept = {} THEN c + 1 ELSE Min(kept)

\* Mutant: a tool result may be the first entry kept.
Mut_CutAnywhere(path) ==
    {i \in BoundaryStart(path) .. Len(path) : path[i].kind \in Messages}

\* findValidCutPoints.
CutPoints(path) ==
    {i \in BoundaryStart(path) .. Len(path) :
        path[i].kind \in {"user", "assistant", "branch_summary"}}

\* findCutPoint from the cut on: metadata in front of it is kept as well.
FirstKept(path, cut) ==
    Min({j \in BoundaryStart(path) .. cut : \A k \in j .. cut - 1 : ~Visible(path[k])})

\* findTurnStartIndex: where the turn that goes on at kept starts, 0 if it
\* starts there or before the boundary; only in the former case it is not split.
SplitTurnStart(path, kept) ==
    IF TurnStart(path[kept]) THEN 0
    ELSE Max({0} \cup {i \in BoundaryStart(path) .. kept : TurnStart(path[i])})

\* getMessageFromEntryForCompaction: earlier compactions are left out.
Summarizable(e) == Visible(e) /\ e.kind # "compaction"

\* The messages at these places of a path.
MessagesAt(path, places) == {path[i].id : i \in {j \in places : Summarizable(path[j])}}

\* prepareCompaction and compact: the messages in front of the first one kept
\* are summarized, on top of the previous summary; of a turn that is split, the
\* prefix is summarized apart.  If nothing precedes that prefix, its summary is
\* all there is.
Prepared(path, kept) ==
    LET c == LatestCompaction(path)
        start == SplitTurnStart(path, kept)
        summarized == MessagesAt(path, BoundaryStart(path) .. kept - 1)
        history == IF start = 0 THEN summarized
                   ELSE MessagesAt(path, BoundaryStart(path) .. start - 1)
        previous == IF c = 0 \/ history = {} THEN {} ELSE path[c].covers
    IN  Compaction(path[kept].id, summarized \cup previous)

\* The run, if there is one, is aborted; the summary is requested from the
\* model.  Token estimates decide which of the cut points is taken.
StartCompaction ==
    LET path == buildSessionPath(entries, leafId)
    IN  /\ pending = NoCompaction
        /\ path # <<>> /\ LatestCompaction(path) # Len(path)
        /\ \E cut \in CutPoints(path) :
            LET prepared == Prepared(path, FirstKept(path, cut))
            IN  prepared.covers # {} /\ pending' = prepared
        /\ calling' = FALSE
        /\ UNCHANGED <<entries, leafId, labelled, nextId, jumps>>

\* The summary is there: appendCompaction, at the leaf of that moment.
FinishCompaction ==
    /\ pending # NoCompaction
    /\ Add([id |-> nextId, kind |-> "compaction", parent |-> leafId,
            ref |-> pending.ref, covers |-> pending.covers])
    /\ pending' = NoCompaction
    /\ UNCHANGED <<labelled, calling, jumps>>

\* The summary fails or is aborted.
CancelCompaction ==
    /\ pending # NoCompaction
    /\ pending' = NoCompaction
    /\ UNCHANGED <<entries, leafId, labelled, nextId, calling, jumps>>

-----------------------------------------------------------------------------
(* Navigation, forks and reopening.                                         *)

Jump == jumps < MaxJumps /\ jumps' = jumps + 1

\* navigateTree: nothing in it waits for a run or a compaction to end.
Navigate ==
    /\ Jump
    /\ Overlap \/ (~calling /\ pending = NoCompaction)
    /\ UNCHANGED <<labelled, calling, pending>>

\* branch(branchFromId), and resetLeaf for 0.
BranchFrom(id) ==
    /\ Navigate
    /\ id # leafId
    /\ leafId' = id
    /\ UNCHANGED <<entries, nextId>>

\* branchWithSummary(branchFromId).
BranchWithSummary(id) ==
    /\ Navigate
    /\ Add([id |-> nextId, kind |-> "branch_summary", parent |-> id])

\* Another session replaces this one: its run and its compaction are dropped.
Replace == Jump /\ calling' = FALSE /\ pending' = NoCompaction

\* newSession.
NewSession ==
    /\ Replace
    /\ entries' = <<>> /\ leafId' = 0 /\ labelled' = {}
    /\ UNCHANGED nextId

\* The session is opened again from its file, which an assistant message made.
Reopen ==
    /\ Replace
    /\ \E i \in DOMAIN entries : entries[i].kind = "assistant"
    /\ leafId' = Max(DOMAIN entries)
    /\ labelled' = Replayed(entries)
    /\ UNCHANGED <<entries, nextId>>

EndOf(list) == IF list = <<>> THEN 0 ELSE list[Len(list)].id

\* Mutant: the retained entries keep the parents they had.
Mut_WithoutLabelsUnchained(path) ==
    LET kept[n \in 0 .. Len(path)] ==
            IF n = 0 THEN <<>>
            ELSE IF path[n].kind = "label" THEN kept[n - 1]
            ELSE Append(kept[n - 1], path[n])
    IN  kept[Len(path)]

\* pathWithoutLabels: kept[n] is made of the first n entries, each chained to
\* the one retained before it.
WithoutLabels(path) ==
    LET kept[n \in 0 .. Len(path)] ==
            IF n = 0 THEN <<>>
            ELSE IF path[n].kind = "label" THEN kept[n - 1]
            ELSE Append(kept[n - 1], [path[n] EXCEPT !.parent = EndOf(kept[n - 1])])
    IN  kept[Len(path)]

\* labelEntries: one, chained behind the path, for each label that a retained
\* entry has.
LabelEntries(retained) ==
    LET targets == SetToSeq(labelled \cap {retained[k].id : k \in DOMAIN retained})
    IN  [k \in 1 .. Len(targets) |->
            Label(nextId + k - 1, IF k = 1 THEN EndOf(retained) ELSE nextId + k - 2,
                  targets[k], TRUE)]

\* byId, as _buildIndex makes it of fileEntries.
Indexed(list) ==
    [i \in {list[k].id : k \in DOMAIN list} |-> list[CHOOSE k \in DOMAIN list : list[k].id = i]]

\* Mutant: the labels are not rebuilt from the new entries.
Mut_ForkKeepsLabels(id) ==
    LET retained == WithoutLabels(buildSessionPath(entries, id))
        list == retained \o LabelEntries(retained)
    IN  /\ Replace
        /\ nextId' = nextId + Len(LabelEntries(retained)) /\ nextId' <= MaxIds + 1
        /\ entries' = Indexed(list)
        /\ leafId' = EndOf(list)
        /\ UNCHANGED labelled

\* createBranchedSession(leafId).
Fork(id) ==
    LET retained == WithoutLabels(buildSessionPath(entries, id))
        list == retained \o LabelEntries(retained)
    IN  /\ Replace
        /\ nextId' = nextId + Len(LabelEntries(retained)) /\ nextId' <= MaxIds + 1
        /\ entries' = Indexed(list)
        /\ leafId' = EndOf(list)
        /\ labelled' = Replayed(Indexed(list))

TreeNext ==
    \/ \E kind \in Messages : AppendMessage(kind)
    \/ AppendMetadata \/ NewSession \/ Reopen
    \/ StartCompaction \/ FinishCompaction \/ CancelCompaction
    \/ \E target \in DOMAIN entries, on \in BOOLEAN : AppendLabelChange(target, on)
    \/ \E id \in DOMAIN entries \cup {0} : BranchFrom(id) \/ BranchWithSummary(id)
    \/ \E id \in DOMAIN entries : Fork(id)

TreeSpec == TreeInit /\ [][TreeNext]_treeVars

-----------------------------------------------------------------------------
EntriesOf(kinds) == [id : EntryIds, kind : kinds, parent : {0} \cup EntryIds]
LabelsOf == [id : EntryIds, kind : {"label"}, parent : {0} \cup EntryIds,
             ref : EntryIds, on : BOOLEAN]
CompactionsOf == [id : EntryIds, kind : {"compaction"}, parent : {0} \cup EntryIds,
                  ref : EntryIds, covers : SUBSET EntryIds]
TreeEntries ==
    EntriesOf(Messages \cup {"metadata", "branch_summary"}) \cup LabelsOf \cup CompactionsOf

\* Every variable keeps its type; the leaf is an entry of the session, and the
\* parent of an entry an earlier one: forks, which take label entries out of the
\* middle of a branch, leave no orphans, so a walk from the leaf reaches a root.
TreeTypeOK ==
    /\ DOMAIN entries \subseteq EntryIds
    /\ \A i \in DOMAIN entries : entries[i] \in TreeEntries /\ entries[i].id = i /\ i < nextId
    /\ \A i \in DOMAIN entries :
          LET p == entries[i].parent IN p = 0 \/ (p \in DOMAIN entries /\ p < i)
    /\ leafId \in DOMAIN entries \cup {0}
    /\ labelled \subseteq EntryIds
    /\ nextId \in 1 .. MaxIds + 1
    /\ calling \in BOOLEAN
    /\ pending \in [ref : {0} \cup EntryIds, covers : SUBSET EntryIds]
    /\ jumps \in 0 .. MaxJumps

\* The labels shown are those that the label entries replay to: closing and
\* reopening a session, or one forked from it, changes no label.
LabelsReplay == labelled = Replayed(entries)

\* A tool result that the model is sent follows the message that made the call,
\* separated from it by other results only: no compaction, fork or navigation
\* cuts a batch from its call.
ResultsFollowCalls ==
    LET sent == Context(buildSessionPath(entries, leafId))
    IN  \A j \in DOMAIN sent : sent[j].kind = "toolResult" =>
            \E i \in 1 .. j - 1 :
                /\ sent[i].kind = "assistant"
                /\ \A k \in i + 1 .. j : Visible(sent[k]) => sent[k].kind = "toolResult"

\* Every message of the current branch is in the model's context or went into a
\* summary on the branch: what compactions and forks leave out has been told.
KeptOrSummarized ==
    LET path == buildSessionPath(entries, leafId)
        compactions == {e \in ToSet(path) : e.kind = "compaction"}
        told == UNION {e.covers : e \in compactions}
    IN  \A e \in ToSet(path) : Summarizable(e) => e \in ToSet(Context(path)) \/ e.id \in told

=============================================================================
