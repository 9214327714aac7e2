---------------------------- MODULE MCMembership ----------------------------
(***************************************************************************)
(* Instances of Membership for TLC.                                        *)
(***************************************************************************)
EXTENDS Membership, TLC

Symmetry == Permutations(Users \ {Founder}) \cup Permutations(Handlers)

\* A bound: two requests write at once only while no view is cached, being
\* read or left over by Redis.  Beside the views there is one writer at a time
\* and one view, whose fills and drops touch no other, and nobody joins twice.
OneWriterBesideViews ==
    LET concerned == {v \in Views : views[v] # "none"} \cup skipped
                        \cup {reads[r].view : r \in {r \in Readers : reads[r] # Idle}}
    IN \/ concerned = {}
       \/ /\ Cardinality(concerned) = 1
          /\ Cardinality({h \in Handlers : calls[h] # Idle}) <= 1
          /\ \A u \in Users : joined[u] <= 1
=============================================================================
