-------------------------- MODULE DocumentLifecycle --------------------------
(***************************************************************************)
(* What the document pipeline promises about one document row, with no     *)
(* request, task, file, message or event in sight: the statuses a document *)
(* goes through and the content its row describes.                         *)
(***************************************************************************)
CONSTANTS
    Docs,
    Contents,      \* what an upload or a replacement brings
    None,          \* the content of a document that has no row
    ReplaceableIn    \* the statuses in which a replacement may take effect

VARIABLES status, content

lifecycleVars == <<status, content>>

Init ==
    /\ status = [d \in Docs |-> "absent"]
    /\ content = [d \in Docs |-> None]

Moves(d, from, to) ==
    /\ status[d] \in from
    /\ status' = [status EXCEPT ![d] = to]

\* Content that no document has: every upload is its own.
Brings(d, c) ==
    /\ \A e \in Docs : content[e] # c
    /\ content' = [content EXCEPT ![d] = c]

Accept(d, c) == Moves(d, {"absent"}, "pending") /\ Brings(d, c)

Replace(d, c) == Moves(d, ReplaceableIn, "pending") /\ Brings(d, c)

Store(d) == Moves(d, {"pending"}, "ready") /\ UNCHANGED content

Fail(d) == Moves(d, {"pending"}, "failed") /\ UNCHANGED content

Retry(d) == Moves(d, {"failed"}, "pending") /\ UNCHANGED content

\* Nothing follows a deletion.
Delete(d) ==
    /\ Moves(d, {"pending", "ready", "failed"}, "deleted")
    /\ content' = [content EXCEPT ![d] = None]

Next ==
    \E d \in Docs :
        \/ \E c \in Contents : Accept(d, c) \/ Replace(d, c)
        \/ Store(d)
        \/ Fail(d)
        \/ Retry(d)
        \/ Delete(d)

Spec == Init /\ [][Next]_lifecycleVars

=============================================================================
