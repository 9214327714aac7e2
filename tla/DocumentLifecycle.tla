------------------------- MODULE DocumentLifecycle -------------------------
(***************************************************************************)
(* What the document pipeline promises, whatever the queue, the workers    *)
(* and the database do underneath: a document is processed only after      *)
(* somebody asked for it, its chunk index is replaced in one step by the   *)
(* complete output of one run and never emptied again, and READY is only   *)
(* ever shown over such an index.                                          *)
(*                                                                         *)
(* DocumentPipeline implements this specification; it says nothing about   *)
(* WHEN a document becomes READY, which is a matter of liveness.           *)
(***************************************************************************)
EXTENDS Naturals

CONSTANT Docs

VARIABLES
    status,  \* the DocumentStatus column, "ABSENT" before the row exists
    index    \* which run's chunks are searchable, 0 when none are

vars == <<status, index>>

Requested(d) == status[d] \notin {"ABSENT", "UPLOADED"}

SetStatus(d, s) ==
    /\ status' = [status EXCEPT ![d] = s]
    /\ UNCHANGED index
----------------------------------------------------------------------------

Init ==
    /\ status = [d \in Docs |-> "ABSENT"]
    /\ index = [d \in Docs |-> 0]

Upload(d) == status[d] = "ABSENT" /\ SetStatus(d, "UPLOADED")

Queue(d) == status[d] # "ABSENT" /\ SetStatus(d, "QUEUED")

Start(d) == Requested(d) /\ SetStatus(d, "PROCESSING")

Publish(d) ==
    /\ Requested(d)
    /\ index'[d] \in Nat \ {0}
    /\ index' = [index EXCEPT ![d] = index'[d]]
    /\ UNCHANGED status

Finish(d) ==
    /\ Requested(d)
    /\ index[d] # 0
    /\ SetStatus(d, "READY")

Fail(d) == Requested(d) /\ SetStatus(d, "FAILED")

Next ==
    \E d \in Docs :
        Upload(d) \/ Queue(d) \/ Start(d) \/ Publish(d) \/ Finish(d) \/ Fail(d)

Spec == Init /\ [][Next]_vars
=============================================================================
