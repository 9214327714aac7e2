----------------------------- MODULE MCRagCache -----------------------------
(***************************************************************************)
(* Instances of RagCache for TLC: one key asks about all documents, every  *)
(* other one names d1; d1 is processed twice, any other document once.     *)
(***************************************************************************)
EXTENDS RagCache

CONSTANTS d1, kAll

KeyScope == [k \in Keys |-> IF k = kAll THEN Docs ELSE {d1}]

PinnedKeys == Keys \ {kAll}

\* The person may not open d1, which has grants.
OpenDocs == [p \in People |-> Docs \ {d1}]

RunBounds == [d \in Docs |-> IF d = d1 THEN 2 ELSE 1]
=============================================================================
