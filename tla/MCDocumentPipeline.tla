------------------------- MODULE MCDocumentPipeline -------------------------
(***************************************************************************)
(* Instances of DocumentPipeline for TLC.                                  *)
(***************************************************************************)
EXTENDS DocumentPipeline, TLC

Symmetry == Permutations(Requests) \cup Permutations(Runners)

\* TLC may not use symmetry where it checks liveness, so the run that does
\* orders by hand what is alike: idle slots have no memory, so some naming of
\* every behaviour uses the leading one first.  It also bounds the other
\* document: both are uploaded before the first request, and it is asked for
\* once.  Nothing a fairness condition is about is cut off.
Lead(S) == CHOOSE x \in S : TRUE

LeadersFirst ==
    /\ \A q \in Requests \ {Lead(Requests)} :
          requests[q].pc = "idle" /\ requests'[q].pc # "idle" =>
             requests[Lead(Requests)].pc # "idle"
    /\ \A r \in Runners \ {Lead(Runners)} :
          At(r, "idle") /\ ~At(r, "idle")' => ~At(Lead(Runners), "idle")
    /\ \A d \in Docs :
          /\ status[d] # status'[d] /\ d # Lead(Docs) => status[Lead(Docs)] # "ABSENT"
          /\ asked[d] # asked'[d] => \A e \in Docs : status[e] # "ABSENT"
          /\ d # Lead(Docs) => asked'[d] <= 1
=============================================================================
