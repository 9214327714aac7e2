----------------------------- MODULE Membership -----------------------------
(***************************************************************************)
(* The members of one organization and their roles: the requests of        *)
(* modules/members that add, change and remove them, each a chain of       *)
(* database calls with other requests between any two, and the two cached  *)
(* views of them, the organization's member list and each user's list of   *)
(* organizations.                                                          *)
(*                                                                         *)
(* A row of organization_members is the pair of a user and the number of   *)
(* times that user has joined, which stands for the row's id.              *)
(***************************************************************************)
EXTENDS Naturals, FiniteSets

CONSTANTS
    Users,      \* registered users
    Founder,    \* who created the organization, in one transaction with it
    Handlers,   \* requests in flight that write
    Readers,    \* requests in flight that read a view through the cache
    MaxJoins,   \* bound: no request adds a user who has joined that often
    RedisFails  \* may a Redis command fail

ASSUME MembershipAssumption ==
    /\ IsFiniteSet(Users)
    /\ Founder \in Users
    /\ MaxJoins \in Nat \ {0}
    /\ RedisFails \in BOOLEAN
    /\ "list" \notin Users

VARIABLES
    role,     \* organization_members.role, "none" for a user without a row
    joined,   \* rows made, per user
    calls,    \* writing requests
    views,    \* Redis, cache:members:<organization>:* and cache:org:<user>:*
    reads,    \* reading requests
    serial,   \* history: every write so far was made by a call that had been
              \* alone since its membership was resolved
    skipped   \* history: views whose last invalidation Redis refused

vars == <<role, joined, calls, views, reads, serial, skipped>>
----------------------------------------------------------------------------

\* MEMBER stands for VIEWER too, a role no request of this module gives.
Roles == {"OWNER", "ADMIN", "MEMBER"}
Rows == [Users -> Roles \cup {"none"}]

\* The member list, and for each user the list of organizations.
Views == {"list"} \cup Users

\* alone is history: no other call has written since this one was resolved.
Call == [pc : {"read", "count", "write"}, op : {"add", "update", "remove"},
         actor : Users, actorRole : {"OWNER", "ADMIN"}, target : Users,
         new : Roles, row : Nat, alone : BOOLEAN]
Written == [pc : {"dropList", "dropOrg"}, target : Users]
Idle == [pc |-> "idle"]

\* A cached view is abstracted to whether it shows the rows as they are: it
\* is outdated once a row it shows was written after the SET, and overlapped
\* when that happened already between the read and the SET.
Entries == {"none", "current", "outdated", "overlapped"}
Read == [pc : {"missed", "setting"}, view : Views, overlapped : BOOLEAN]

\* The views that show a user's row.
Showing(u) == {"list", u}

Owners == {u \in Users : role[u] = "OWNER"}

Init ==
    /\ role = [u \in Users |-> IF u = Founder THEN "OWNER" ELSE "none"]
    /\ joined = [u \in Users |-> IF u = Founder THEN 1 ELSE 0]
    /\ calls = [h \in Handlers |-> Idle]
    /\ views = [v \in Views |-> "none"]
    /\ reads = [r \in Readers |-> Idle]
    /\ serial = TRUE
    /\ skipped = {}
----------------------------------------------------------------------------
\* Writing requests

At(h, step) == calls[h].pc = step
GoTo(h, step) == calls' = [calls EXCEPT ![h].pc = step]
Done(h) == calls' = [calls EXCEPT ![h] = Idle]

\* Mutant: no requireRole on the route.
ResolveAnyMember(h, op, actor, target, new) ==
    /\ calls[h] = Idle
    /\ role[actor] # "none"
    /\ op = "add" => new # "OWNER" /\ joined[target] < MaxJoins
    /\ calls' = [calls EXCEPT ![h] =
          [pc |-> "read", op |-> op, actor |-> actor, actorRole |-> role[actor],
           target |-> target, new |-> new, row |-> 0, alone |-> TRUE]]
    /\ UNCHANGED <<role, joined, views, reads, serial, skipped>>

\* resolveOrganization and requireRole: the actor's row as it is now is the
\* role the whole request goes by.
Resolve(h, op, actor, target, new) ==
    /\ calls[h] = Idle
    /\ role[actor] \in {"OWNER", "ADMIN"}
    /\ op = "add" => new # "OWNER" /\ joined[target] < MaxJoins
    /\ calls' = [calls EXCEPT ![h] =
          [pc |-> "read", op |-> op, actor |-> actor, actorRole |-> role[actor],
           target |-> target, new |-> new, row |-> 0, alone |-> TRUE]]
    /\ UNCHANGED <<role, joined, views, reads, serial, skipped>>

\* addMember: a user with a row is a conflict.
FindExisting(h) ==
    /\ At(h, "read") /\ calls[h].op = "add"
    /\ IF role[calls[h].target] = "none" THEN GoTo(h, "write") ELSE Done(h)
    /\ UNCHANGED <<role, joined, views, reads, serial, skipped>>

\* Mutant: only promotions are an owner's.
RefusedPromotions(h, old) ==
    /\ calls[h].actorRole # "OWNER"
    /\ calls[h].op = "update" /\ calls[h].new = "OWNER"

\* What the rules on roles refuse, from the rows read.
Refused(h, old) ==
    /\ calls[h].actorRole # "OWNER"
    /\ \/ old = "OWNER"
       \/ calls[h].op = "update" /\ calls[h].new = "OWNER"

\* removeMember counts the owners whenever it removes one, updateMemberRole
\* when an owner changes its own role.
Counts(h, old) ==
    /\ old = "OWNER"
    /\ calls[h].op = "update" => calls[h].target = calls[h].actor

ReadTarget(h) ==
    /\ At(h, "read") /\ calls[h].op # "add"
    /\ LET target == calls[h].target
           old == role[target]
       IN IF old = "none" \/ Refused(h, old)
          THEN Done(h)
          ELSE calls' = [calls EXCEPT
                  ![h].pc = IF Counts(h, old) THEN "count" ELSE "write",
                  ![h].row = joined[target]]
    /\ UNCHANGED <<role, joined, views, reads, serial, skipped>>

\* Mutant: `ownerCount < 1'.
CountOwnersLess(h) ==
    /\ At(h, "count")
    /\ IF Cardinality(Owners) < 1 /\ ~(calls[h].op = "update" /\ calls[h].new = "OWNER")
       THEN Done(h)
       ELSE GoTo(h, "write")
    /\ UNCHANGED <<role, joined, views, reads, serial, skipped>>

CountOwners(h) ==
    /\ At(h, "count")
    /\ IF Cardinality(Owners) <= 1 /\ ~(calls[h].op = "update" /\ calls[h].new = "OWNER")
       THEN Done(h)
       ELSE GoTo(h, "write")
    /\ UNCHANGED <<role, joined, views, reads, serial, skipped>>

\* Mutant: update and delete by user where the code has the row's id.
RowIsThereByUser(h) ==
    IF calls[h].op = "add"
    THEN role[calls[h].target] = "none"
    ELSE role[calls[h].target] # "none"

\* The call's write finds what it needs: no row for the create (the unique
\* index), the very row it read for the update and the delete (by id).
RowIsThere(h) ==
    IF calls[h].op = "add"
    THEN role[calls[h].target] = "none"
    ELSE role[calls[h].target] # "none" /\ calls[h].row = joined[calls[h].target]

Write(h) ==
    LET c == calls[h]
    IN /\ At(h, "write")
       /\ RowIsThere(h)
       /\ role' = [role EXCEPT ![c.target] = IF c.op = "remove" THEN "none" ELSE c.new]
       /\ joined' = IF c.op = "add" THEN [joined EXCEPT ![c.target] = @ + 1] ELSE joined
       /\ calls' = [i \in Handlers |->
             IF i = h THEN [pc |-> "dropList", target |-> c.target]
             ELSE IF calls[i].pc \in {"read", "count", "write"}
                  THEN [calls[i] EXCEPT !.alone = FALSE]
                  ELSE calls[i]]
       /\ views' = [v \in Views |->
             IF v \in Showing(c.target) /\ views[v] = "current" THEN "outdated" ELSE views[v]]
       /\ reads' = [r \in Readers |->
             IF reads[r].pc = "setting" /\ reads[r].view \in Showing(c.target)
             THEN [reads[r] EXCEPT !.overlapped = TRUE]
             ELSE reads[r]]
       /\ serial' = (serial /\ c.alone)
       /\ UNCHANGED skipped

\* Prisma throws P2002 or P2025 and the request ends.
WriteFails(h) ==
    /\ At(h, "write")
    /\ ~RowIsThere(h)
    /\ Done(h)
    /\ UNCHANGED <<role, joined, views, reads, serial, skipped>>

\* delPattern of one view: done, or refused and forgotten.
Drop(v) ==
    \/ /\ views' = [views EXCEPT ![v] = "none"]
       /\ skipped' = skipped \ {v}
    \/ /\ RedisFails
       /\ skipped' = skipped \cup {v}
       /\ UNCHANGED views

DropMemberList(h) ==
    /\ At(h, "dropList")
    /\ Drop("list")
    /\ GoTo(h, "dropOrg")
    /\ UNCHANGED <<role, joined, reads, serial>>

\* Mutant: the list of another user, such as the one who acts.
DropOrgListOfActor(h) ==
    /\ At(h, "dropOrg")
    /\ \E u \in Users \ {calls[h].target} : Drop(u)
    /\ Done(h)
    /\ UNCHANGED <<role, joined, reads, serial>>

DropOrgList(h) ==
    /\ At(h, "dropOrg")
    /\ Drop(calls[h].target)
    /\ Done(h)
    /\ UNCHANGED <<role, joined, reads, serial>>
----------------------------------------------------------------------------
\* Reading requests: listMembers, listForUser, getById

Miss(r, v) ==
    /\ reads[r] = Idle
    /\ views[v] = "none" \/ RedisFails
    /\ reads' = [reads EXCEPT ![r] = [pc |-> "missed", view |-> v, overlapped |-> FALSE]]
    /\ UNCHANGED <<role, joined, calls, views, serial, skipped>>

\* getById refuses a user who is not a member and caches nothing.
ReadRows(r) ==
    /\ reads[r].pc = "missed"
    /\ \/ reads' = [reads EXCEPT ![r].pc = "setting"]
       \/ /\ reads[r].view # "list" /\ role[reads[r].view] = "none"
          /\ reads' = [reads EXCEPT ![r] = Idle]
    /\ UNCHANGED <<role, joined, calls, views, serial, skipped>>

SetView(r) ==
    /\ reads[r].pc = "setting"
    /\ \/ views' = [views EXCEPT ![reads[r].view] =
              IF reads[r].overlapped THEN "overlapped" ELSE "current"]
       \/ RedisFails /\ UNCHANGED views
    /\ reads' = [reads EXCEPT ![r] = Idle]
    /\ UNCHANGED <<role, joined, calls, serial, skipped>>

\* CACHE_TTL, five minutes.
Expire(v) ==
    /\ views[v] # "none"
    /\ views' = [views EXCEPT ![v] = "none"]
    /\ UNCHANGED <<role, joined, calls, reads, serial, skipped>>
----------------------------------------------------------------------------

CallStep(h) ==
    \/ FindExisting(h) \/ ReadTarget(h) \/ CountOwners(h)
    \/ Write(h) \/ WriteFails(h) \/ DropMemberList(h) \/ DropOrgList(h)

Next ==
    \/ \E h \in Handlers, op \in {"add", "update", "remove"}, actor, target \in Users, new \in Roles :
          Resolve(h, op, actor, target, new)
    \/ \E h \in Handlers : CallStep(h)
    \/ \E r \in Readers, v \in Views : Miss(r, v)
    \/ \E r \in Readers : ReadRows(r) \/ SetView(r)
    \/ \E v \in Views : Expire(v)

Spec == Init /\ [][Next]_vars
----------------------------------------------------------------------------
\* Properties

TypeOK ==
    /\ role \in Rows
    /\ joined \in [Users -> Nat]
    /\ \A u \in Users : role[u] # "none" => joined[u] > 0
    /\ calls \in [Handlers -> Call \cup Written \cup {Idle}]
    /\ views \in [Views -> Entries]
    /\ reads \in [Readers -> Read \cup {Idle}]
    /\ serial \in BOOLEAN
    /\ skipped \subseteq Views

\* The organization keeps an owner as long as every write was made by a call
\* nobody wrote beside: each rule of the two services leaves one.
OwnerRemains == serial => Owners # {}

\* Who is an owner changes only by someone who is one at that moment, when
\* the call was alone.
OwnersAnswerToOwners ==
    [][\A h \in Handlers :
          Write(h) /\ calls[h].alone /\ Owners' # Owners
             => calls[h].actor \in Owners]_vars

\* Whatever overlaps, a member's role changes, or ends, only on the row that
\* the call had read its role from: one who was removed and added again
\* meanwhile keeps the new row as it was made, and nobody who is gone comes
\* back but by an add, which makes no owner.
WritesMeetTheirRow ==
    [][\A u \in Users : role'[u] # role[u] =>
          IF role[u] = "none"
          THEN role'[u] # "OWNER" /\ joined'[u] = joined[u] + 1
          ELSE \E h \in Handlers :
                  Write(h) /\ calls[h].target = u /\ calls[h].row = joined[u]]_vars

\* With no invalidation due and none refused, a cached view is outdated only
\* if a write fell between its read and its SET.
OutdatedOnlyByOverlap ==
    (\A h \in Handlers : ~At(h, "dropList") /\ ~At(h, "dropOrg"))
       => \A v \in Views \ skipped : views[v] # "outdated"

\* Nobody removes the last owner.  It does not hold: what the removal counted
\* may be gone when it deletes (see README).
LastOwnerIsNotRemoved ==
    [][\A h \in Handlers : Write(h) /\ calls[h].op = "remove" => Owners' # {}]_vars
=============================================================================
