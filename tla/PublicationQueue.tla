------------------------- MODULE PublicationQueue --------------------------
(***************************************************************************)
(* What autocompile.c promises of the shards a compile run publishes,      *)
(* without its threads: they are taken over in the order of publication,   *)
(* each is committed or its loss is on record, a run settles only when     *)
(* none is outstanding, and it settles as "ok" only if none was lost.      *)
(***************************************************************************)
EXTENDS Integers, Sequences

VARIABLES
    open,       \* a compile run is in progress
    aborted,    \* the run is being torn down, losses need not be recorded
    queue,      \* published, neither committed nor lost
    published,  \* how many shards the run has published
    committed,  \* the shards committed, in order
    faulted,    \* a publication of this run was lost or unreadable
    verdict     \* how the last settled run was accounted

vars == <<open, aborted, queue, published, committed, faulted, verdict>>

Init ==
    /\ open = FALSE /\ aborted = FALSE /\ queue = <<>> /\ published = 0
    /\ committed = <<>> /\ faulted = FALSE /\ verdict = "none"

\* A new run, or a request that failed before its compiler ran.
Begin ==
    /\ ~open /\ queue = <<>>
    /\ open' \in BOOLEAN
    /\ aborted' = FALSE /\ queue' = <<>> /\ published' = 0
    /\ committed' = <<>> /\ faulted' = FALSE /\ verdict' = "none"

Publish ==
    /\ open
    /\ published' = published + 1
    /\ queue' = Append(queue, published + 1)
    /\ UNCHANGED <<open, aborted, committed, faulted, verdict>>

\* Output that could not be taken over; a publication or not.
Refuse ==
    /\ open
    /\ published' \in {published, published + 1}
    /\ faulted' = TRUE
    /\ UNCHANGED <<open, aborted, queue, committed, verdict>>

Commit ==
    /\ queue # <<>>
    /\ committed' = Append(committed, Head(queue))
    /\ queue' = Tail(queue)
    /\ UNCHANGED <<open, aborted, published, faulted, verdict>>

\* Loss of the oldest: on record unless the run is being torn down.
Lose ==
    /\ queue # <<>>
    /\ queue' = Tail(queue)
    /\ IF aborted THEN faulted' \in {faulted, TRUE} ELSE faulted' = TRUE
    /\ UNCHANGED <<open, aborted, published, committed, verdict>>

Abort ==
    /\ aborted' = TRUE
    /\ UNCHANGED <<open, queue, published, committed, faulted, verdict>>

\* The end of a torn-down run: what is left is dropped.
Close ==
    /\ aborted
    /\ open' = FALSE /\ queue' = <<>>
    /\ UNCHANGED <<aborted, published, committed, faulted, verdict>>

Settle ==
    /\ open /\ queue = <<>>
    /\ open' = FALSE
    /\ verdict' \in (IF faulted THEN {"failed"} ELSE {"ok", "failed"})
    /\ UNCHANGED <<aborted, queue, published, committed, faulted>>

Next == \/ Begin \/ Publish \/ Refuse \/ Commit \/ Lose \/ Abort \/ Close
        \/ Settle

Spec == Init /\ [][Next]_vars
=============================================================================
