--------------------------- MODULE DocumentAccess ---------------------------
(***************************************************************************)
(* Who may do what with the documents of an organization: the grants of    *)
(* document-access.service, the two places that evaluate them, one for a   *)
(* document and one that filters a list, the ways to a document's text     *)
(* that go by the filter and those that do not, and the requests that      *)
(* grant and revoke, which check first and write later.                    *)
(***************************************************************************)
EXTENDS Naturals

CONSTANTS
    Papers,     \* the organization's documents, all of them READY
    People,     \* its members
    Creator,    \* who uploaded a document
    RoleOf,     \* their roles
    Requesters, \* grant and revoke requests in flight, each made once
    MaxGrants   \* bound: grants made

ASSUME DocumentAccessAssumption ==
    /\ Creator \in [Papers -> People]
    /\ RoleOf \in [People -> {"OWNER", "ADMIN", "MEMBER", "VIEWER"}]
    /\ MaxGrants \in Nat
    /\ "ORGANIZATION" \notin People
    /\ People \cap {"OWNER", "ADMIN", "MEMBER", "VIEWER"} = {}

VARIABLES
    grants,     \* rows of document_permissions
    made,       \* rows made
    requesters  \* requests

accessVars == <<grants, made, requesters>>
----------------------------------------------------------------------------

\* PERMISSION_HIERARCHY: READ, WRITE, ADMIN.
Levels == 1 .. 3

\* A grant is to everyone, to a person or to a role.
Grantees == {"ORGANIZATION"} \cup People \cup {"MEMBER", "VIEWER"}
Grant == [id : Nat, paper : Papers, grantee : Grantees, level : Levels]

Requester == [pc : {"grant", "find", "delete"}, paper : Papers, id : Nat]
Ended == [pc : {"idle", "done"}]

Administers(person) == RoleOf[person] \in {"OWNER", "ADMIN"}

GrantsOn(paper) == {g \in grants : g.paper = paper}

\* Without grants everyone reads and all but viewers write.
DefaultAllows(person, level) ==
    level = 1 \/ (level = 2 /\ RoleOf[person] # "VIEWER")

Concerns(g, person) == g.grantee \in {"ORGANIZATION", person, RoleOf[person]}

\* Mutant: the last grant that concerns the person decides.
LastGrantDecides(person, paper, level) ==
    \/ Administers(person)
    \/ Creator[paper] = person
    \/ IF GrantsOn(paper) = {}
       THEN DefaultAllows(person, level)
       ELSE \E g \in GrantsOn(paper) :
               /\ Concerns(g, person)
               /\ g.level >= level
               /\ \A h \in GrantsOn(paper) : Concerns(h, person) => h.id <= g.id

\* canAccessDocument: some grant allows it.
CanAccess(person, paper, level) ==
    \/ Administers(person)
    \/ Creator[paper] = person
    \/ IF GrantsOn(paper) = {}
       THEN DefaultAllows(person, level)
       ELSE \E g \in GrantsOn(paper) : g.level >= level /\ Concerns(g, person)

\* Mutant: a creator without a grant is left out.
FilteredWithoutCreators(person, level) ==
    {paper \in Papers :
        \/ GrantsOn(paper) = {} /\ DefaultAllows(person, level)
        \/ \E g \in GrantsOn(paper) : g.level >= level /\ Concerns(g, person)}

\* getAccessibleDocumentIds, for members who do not administer: the creator's
\* documents, those left to the default, those with a grant.
Filtered(person, level) ==
    {paper \in Papers : Creator[paper] = person}
    \cup {paper \in Papers : GrantsOn(paper) = {} /\ DefaultAllows(person, level)}
    \cup {g.paper : g \in {h \in grants : h.level >= level /\ Concerns(h, person)}}

\* The ways to a document: GET /documents; POST /query, about all documents
\* or about one it names; POST /search; a message in a conversation.
Ways == {"list", "query", "queryOne", "search", "message"}

\* allowedDocumentIds, null, here all papers, for administrators: the list and
\* the query service ask for them; the search hands userId and userRole to a
\* service that ignores them, the conversation passes neither.
Allowed(person, way) ==
    IF way \in {"search", "message"} \/ Administers(person)
    THEN Papers
    ELSE Filtered(person, 1)

\* The papers a person can be shown on a way. Where a document is named the
\* search conditions are its id or the allowed ids, never both, and an empty
\* filter ends the search before either.
Reached(person, way) ==
    IF way = "queryOne" /\ Allowed(person, way) # {} THEN Papers ELSE Allowed(person, way)

AccessInit ==
    /\ grants = {}
    /\ made = 0
    /\ requesters = [r \in Requesters |-> [pc |-> "idle"]]
----------------------------------------------------------------------------
\* Granting and revoking take the ADMIN level, checked first.
CheckAdmin(r, person, paper, op) ==
    /\ requesters[r].pc = "idle"
    /\ CanAccess(person, paper, 3)
    /\ requesters' = [requesters EXCEPT ![r] = [pc |-> op, paper |-> paper, id |-> 0]]
    /\ UNCHANGED <<grants, made>>

\* Whatever the document's grants are by now; nothing keeps two apart.
GrantPermission(r, grantee, level) ==
    /\ requesters[r].pc = "grant" /\ made < MaxGrants
    /\ made' = made + 1
    /\ grants' = grants \cup {[id |-> made + 1, paper |-> requesters[r].paper,
                               grantee |-> grantee, level |-> level]}
    /\ requesters' = [requesters EXCEPT ![r] = [pc |-> "done"]]

\* The grant to revoke; one that has gone is a 404.
FindGrant(r, g) ==
    /\ requesters[r].pc = "find"
    /\ g \in GrantsOn(requesters[r].paper)
    /\ requesters' = [requesters EXCEPT ![r].pc = "delete", ![r].id = g.id]
    /\ UNCHANGED <<grants, made>>

\* Deleting a row that has gone meanwhile is an error and changes nothing.
RevokePermission(r) ==
    /\ requesters[r].pc = "delete"
    /\ grants' = {g \in grants : g.id # requesters[r].id}
    /\ requesters' = [requesters EXCEPT ![r] = [pc |-> "done"]]
    /\ UNCHANGED made

AccessNext ==
    \/ \E r \in Requesters, person \in People, paper \in Papers, op \in {"grant", "find"} :
          CheckAdmin(r, person, paper, op)
    \/ \E r \in Requesters, grantee \in Grantees, level \in Levels :
          GrantPermission(r, grantee, level)
    \/ \E r \in Requesters, g \in grants : FindGrant(r, g)
    \/ \E r \in Requesters : RevokePermission(r)

AccessSpec == AccessInit /\ [][AccessNext]_accessVars
----------------------------------------------------------------------------
AccessTypeOK ==
    /\ grants \subseteq Grant
    /\ made \in Nat
    /\ requesters \in [Requesters -> Requester \cup Ended]

\* The two evaluations agree where the filter is used: the list and a question
\* about all documents show a person exactly the documents the person may
\* open. No way hides a document from somebody who may open it; and a question
\* that names a document answers from one its asker may not open only if there
\* is another the asker may. The search and the messages of a conversation
\* show everybody everything (see README).
FilterAgreesWithCheck ==
    \A person \in People, paper \in Papers :
        /\ \A way \in {"list", "query"} :
              paper \in Reached(person, way) <=> CanAccess(person, paper, 1)
        /\ \A way \in Ways : CanAccess(person, paper, 1) => paper \in Reached(person, way)
        /\ paper \in Reached(person, "queryOne") => \E other \in Papers : CanAccess(person, other, 1)
        /\ \A way \in {"search", "message"} : paper \in Reached(person, way)

\* The grants that give a person a level on a document.
Helping(person, paper, level) ==
    {g \in GrantsOn(paper) : g.level >= level /\ Concerns(g, person)}

\* Nobody loses a document but by the first grant on it or by the revocation
\* of a grant that gave it, and nobody gains one but by a new grant that gives
\* it or by the revocation of the last; the first grant leaves it to those it
\* concerns, the creator and the administrators, and when the last one is gone
\* everybody reads it again, whoever grants and revokes at the same time.
AccessFollowsTheGrants ==
    [][\A paper \in Papers, person \in People, level \in Levels :
          /\ CanAccess(person, paper, level) /\ ~CanAccess(person, paper, level)' =>
                \/ GrantsOn(paper) = {}
                \/ Helping(person, paper, level) \ Helping(person, paper, level)' # {}
          /\ ~CanAccess(person, paper, level) /\ CanAccess(person, paper, level)' =>
                \/ Helping(person, paper, level)' \ Helping(person, paper, level) # {}
                \/ GrantsOn(paper)' = {}
          /\ GrantsOn(paper) = {} /\ GrantsOn(paper)' # {} /\ CanAccess(person, paper, level)' =>
                \/ Helping(person, paper, level)' # {}
                \/ Administers(person) \/ Creator[paper] = person
          /\ GrantsOn(paper)' = {} => CanAccess(person, paper, 1)']_accessVars
=============================================================================
