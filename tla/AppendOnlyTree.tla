--------------------------- MODULE AppendOnlyTree ---------------------------
(***************************************************************************)
(* What a session file promises: "append-only trees stored in JSONL files" *)
(* (session-manager.ts).  Whatever reads the file sees a sequence of       *)
(* entries that only ever grows at its end, and in which every entry comes *)
(* after its parent.                                                       *)
(***************************************************************************)
EXTENDS Naturals, Sequences

CONSTANTS Entries, Root

VARIABLE tree

Init == tree = <<>>

\* Every entry of seq from place n on is a root or comes after its parent.
Rooted(seq, n) ==
    \A i \in DOMAIN seq :
        i >= n => seq[i].parent = Root \/ \E j \in 1 .. i - 1 : seq[j].id = seq[i].parent

\* One or more entries are added at the end.
Grow ==
    /\ tree' \in Seq(Entries)
    /\ Len(tree') > Len(tree)
    /\ SubSeq(tree', 1, Len(tree)) = tree
    /\ Rooted(tree', Len(tree) + 1)

Spec == Init /\ [][Grow]_tree
=============================================================================
