-------------------------- MODULE Membership_proofs --------------------------
(***************************************************************************)
(* Theorems about Membership, for any users, requests and bound.           *)
(*                                                                         *)
(* The invariant says what a request knows: as long as nobody has written  *)
(* since it was resolved, the actor's role is the one it goes by, the rows *)
(* it read still stand, and an owner it is about to lose is not the last.  *)
(* A write takes this knowledge from every other request, so that only the *)
(* step that gains it and the step that uses it need an argument.          *)
(***************************************************************************)
EXTENDS Membership, FiniteSetTheorems, TLAPS

Deciding(h) == calls[h].pc \in {"read", "count", "write"}

\* What a request knows of the row it is about to change.
KnowsTarget(h) ==
    LET old == role[calls[h].target]
    IN /\ calls[h].pc # "read" => ~Refused(h, old)
       /\ calls[h].pc = "count" => old = "OWNER"
       /\ (calls[h].pc = "write" /\ Counts(h, old))
             => \/ ~(Cardinality(Owners) <= 1)
                \/ calls[h].op = "update" /\ calls[h].new = "OWNER"

CallOK(h) ==
    Deciding(h) =>
       /\ calls[h].op = "add" => calls[h].new # "OWNER"
       /\ calls[h].alone =>
             /\ role[calls[h].actor] = calls[h].actorRole
             /\ calls[h].op # "add" => KnowsTarget(h)

CallInv == \A h \in Handlers : CallOK(h)

\* An invalidation of view v is still to come.
Due(v) ==
    \E h \in Handlers :
       \/ At(h, "dropList") /\ v \in Showing(calls[h].target)
       \/ At(h, "dropOrg") /\ v = calls[h].target

ViewInv == \A v \in Views \ skipped : views[v] = "outdated" => Due(v)

IInv ==
    /\ TypeOK
    /\ OwnerRemains
    /\ CallInv
    /\ ViewInv
----------------------------------------------------------------------------
\* Facts about one step

\* A set with a member and a cardinality above one has another member.
LEMMA AnotherMember ==
    ASSUME NEW S, NEW x \in S, ~(Cardinality(S) <= 1)
    PROVE  \E y \in S : y # x
<1>1. SUFFICES ASSUME \A y \in S : y = x PROVE FALSE
  OBVIOUS
<1>2. S = {x}
  BY <1>1
<1>3. Cardinality({x}) = 1
  BY FS_Singleton
<1> QED BY <1>2, <1>3

\* The actions of a request that read the database and nothing else.
Looks(h) ==
    \/ FindExisting(h) \/ ReadTarget(h) \/ CountOwners(h) \/ WriteFails(h)

LEMMA NextCases ==
    ASSUME Next
    PROVE  \/ \E h \in Handlers, op \in {"add", "update", "remove"}, actor, target \in Users, new \in Roles :
                 Resolve(h, op, actor, target, new)
           \/ \E h \in Handlers : Looks(h) \/ Write(h) \/ DropMemberList(h) \/ DropOrgList(h)
           \/ \E r \in Readers, v \in Views : Miss(r, v)
           \/ \E r \in Readers : ReadRows(r) \/ SetView(r)
           \/ \E v \in Views : Expire(v)
  BY DEF Next, CallStep, Looks

\* The rows change only by the write of a request.
LEMMA OnlyWritesWrite ==
    ASSUME [Next]_vars, ~\E h \in Handlers : Write(h)
    PROVE  role' = role /\ joined' = joined /\ serial' = serial
<1>1. CASE Next
  BY <1>1, NextCases DEF Resolve, Looks, FindExisting, ReadTarget, CountOwners, WriteFails,
     DropMemberList, DropOrgList, Miss, ReadRows, SetView, Expire
<1>2. CASE UNCHANGED vars
  BY <1>2 DEF vars
<1> QED BY <1>1, <1>2

\* A deciding request is a Call.
LEMMA DecidingIsCall ==
    ASSUME TypeOK, NEW h \in Handlers, Deciding(h)
    PROVE  calls[h] \in Call
<1>1. calls[h] \in Call \cup Written \cup {Idle}
  BY DEF TypeOK
<1>2. calls[h] \notin Written
  BY DEF Deciding, Written
<1>3. calls[h] # Idle
  BY DEF Deciding, Idle
<1> QED BY <1>1, <1>2, <1>3
----------------------------------------------------------------------------
\* Types

LEMMA TypeInit == Init => TypeOK
  BY MembershipAssumption DEF Init, TypeOK, Rows, Roles, Views, Entries

LEMMA TypeStep ==
    ASSUME TypeOK, [Next]_vars
    PROVE  TypeOK'
<1> USE DEF Views
<1>1. ASSUME NEW h \in Handlers, NEW op \in {"add", "update", "remove"},
             NEW actor \in Users, NEW target \in Users, NEW new \in Roles,
             Resolve(h, op, actor, target, new)
      PROVE  TypeOK'
  <2> DEFINE c == [pc |-> "read", op |-> op, actor |-> actor, actorRole |-> role[actor],
                   target |-> target, new |-> new, row |-> 0, alone |-> TRUE]
  <2>1. c \in Call
    BY <1>1 DEF Resolve, Call
  <2>2. calls' = [calls EXCEPT ![h] = c]
    BY <1>1 DEF Resolve
  <2> HIDE DEF c
  <2>3. calls' \in [Handlers -> Call \cup Written \cup {Idle}]
    BY <2>1, <2>2 DEF TypeOK
  <2> QED BY <1>1, <2>3 DEF Resolve, TypeOK
<1>2. ASSUME NEW h \in Handlers, Looks(h)
      PROVE  TypeOK'
  <2>1. Deciding(h)
    BY <1>2 DEF Looks, FindExisting, ReadTarget, CountOwners, WriteFails, At, Deciding
  <2>2. calls[h] \in Call
    BY <2>1, DecidingIsCall
  <2>3. ASSUME NEW step \in {"count", "write"}
        PROVE  [calls[h] EXCEPT !.pc = step] \in Call
    BY <2>2 DEF Call
  <2>4. ASSUME NEW step \in {"count", "write"}, NEW row \in Nat
        PROVE  [calls[h] EXCEPT !.pc = step, !.row = row] \in Call
    BY <2>2 DEF Call
  <2>5. calls' \in [Handlers -> Call \cup Written \cup {Idle}]
    <3>1. CASE FindExisting(h)
      BY <3>1, <2>3 DEF FindExisting, GoTo, Done, TypeOK
    <3>2. CASE ReadTarget(h)
      <4>1. joined[calls[h].target] \in Nat
        BY <2>2 DEF TypeOK, Call
      <4> QED BY <3>2, <2>4, <4>1 DEF ReadTarget, Done, TypeOK
    <3>3. CASE CountOwners(h)
      BY <3>3, <2>3 DEF CountOwners, GoTo, Done, TypeOK
    <3>4. CASE WriteFails(h)
      BY <3>4 DEF WriteFails, Done, TypeOK
    <3> QED BY <1>2, <3>1, <3>2, <3>3, <3>4 DEF Looks
  <2>6. UNCHANGED <<role, joined, views, reads, serial, skipped>>
    BY <1>2 DEF Looks, FindExisting, ReadTarget, CountOwners, WriteFails
  <2> QED BY <2>5, <2>6 DEF TypeOK
<1>3. ASSUME NEW h \in Handlers, Write(h)
      PROVE  TypeOK'
  <2> DEFINE c == calls[h]
  <2>1. c \in Call
    BY <1>3, DecidingIsCall DEF Write, At, Deciding
  <2>2. role' \in Rows
    BY <1>3, <2>1 DEF Write, TypeOK, Rows, Call
  <2>3. joined' \in [Users -> Nat]
    BY <1>3, <2>1 DEF Write, TypeOK, Call
  <2>4. \A u \in Users : role'[u] # "none" => joined'[u] > 0
    <3>1. c.target \in Users
      BY <2>1 DEF Call
    <3>2. RowIsThere(h)
      BY <1>3 DEF Write
    <3>3. CASE c.op = "add"
      BY <1>3, <3>1, <3>3 DEF Write, TypeOK, Rows
    <3>4. CASE c.op # "add"
      BY <1>3, <3>1, <3>2, <3>4 DEF Write, TypeOK, Rows, RowIsThere
    <3> QED BY <3>3, <3>4
  <2>5. calls' \in [Handlers -> Call \cup Written \cup {Idle}]
    <3>1. [pc |-> "dropList", target |-> c.target] \in Written
      BY <2>1 DEF Call, Written
    <3>2. ASSUME NEW i \in Handlers, calls[i].pc \in {"read", "count", "write"}
          PROVE  [calls[i] EXCEPT !.alone = FALSE] \in Call
      <4>1. calls[i] \in Call
        BY <3>2, DecidingIsCall DEF Deciding
      <4> QED BY <4>1 DEF Call
    <3>3. \A i \in Handlers : calls[i] \in Call \cup Written \cup {Idle}
      BY DEF TypeOK
    <3> QED BY <1>3, <3>1, <3>2, <3>3 DEF Write
  <2>6. views' \in [Views -> Entries]
    BY <1>3 DEF Write, TypeOK, Entries
  <2>7. reads' \in [Readers -> Read \cup {Idle}]
    <3>1. ASSUME NEW r \in Readers, reads[r].pc = "setting"
          PROVE  [reads[r] EXCEPT !.overlapped = TRUE] \in Read
      <4>1. reads[r] \in Read
        BY <3>1 DEF TypeOK, Idle
      <4> QED BY <4>1 DEF Read
    <3>2. \A r \in Readers : reads[r] \in Read \cup {Idle}
      BY DEF TypeOK
    <3> QED BY <1>3, <3>1, <3>2 DEF Write
  <2>8. serial' \in BOOLEAN /\ skipped' = skipped
    BY <1>3, <2>1 DEF Write, TypeOK, Call
  <2> QED BY <2>2, <2>3, <2>4, <2>5, <2>6, <2>7, <2>8 DEF TypeOK
<1>4. ASSUME NEW v \in Views, Drop(v)
      PROVE  views' \in [Views -> Entries] /\ skipped' \subseteq Views
  BY <1>4 DEF Drop, TypeOK, Entries
<1>5. ASSUME NEW h \in Handlers, DropMemberList(h)
      PROVE  TypeOK'
  <2>1. calls[h] \in Written
    BY <1>5 DEF DropMemberList, At, TypeOK, Call, Idle
  <2>2. [calls[h] EXCEPT !.pc = "dropOrg"] \in Written
    BY <2>1 DEF Written
  <2>3. calls' \in [Handlers -> Call \cup Written \cup {Idle}]
    BY <1>5, <2>2 DEF DropMemberList, GoTo, TypeOK
  <2>4. "list" \in Views
    OBVIOUS
  <2> QED BY <1>4, <1>5, <2>3, <2>4 DEF DropMemberList, TypeOK
<1>6. ASSUME NEW h \in Handlers, DropOrgList(h)
      PROVE  TypeOK'
  <2>1. calls[h] \in Written
    BY <1>6 DEF DropOrgList, At, TypeOK, Call, Idle
  <2>2. calls[h].target \in Views
    BY <2>1 DEF Written
  <2>3. calls' \in [Handlers -> Call \cup Written \cup {Idle}]
    BY <1>6 DEF DropOrgList, Done, TypeOK
  <2> QED BY <1>4, <1>6, <2>2, <2>3 DEF DropOrgList, TypeOK
<1>7. ASSUME NEW r \in Readers, NEW v \in Views, Miss(r, v)
      PROVE  TypeOK'
  <2>1. [pc |-> "missed", view |-> v, overlapped |-> FALSE] \in Read
    BY DEF Read
  <2>2. reads' \in [Readers -> Read \cup {Idle}]
    BY <1>7, <2>1 DEF Miss, TypeOK
  <2> QED BY <1>7, <2>2 DEF Miss, TypeOK
<1>8. ASSUME NEW r \in Readers, ReadRows(r)
      PROVE  TypeOK'
  <2>1. reads[r] \in Read
    BY <1>8 DEF ReadRows, TypeOK, Idle
  <2>2. [reads[r] EXCEPT !.pc = "setting"] \in Read
    BY <2>1 DEF Read
  <2>3. reads' \in [Readers -> Read \cup {Idle}]
    BY <1>8, <2>2 DEF ReadRows, TypeOK
  <2> QED BY <1>8, <2>3 DEF ReadRows, TypeOK
<1>9. ASSUME NEW r \in Readers, SetView(r)
      PROVE  TypeOK'
  <2>1. reads' \in [Readers -> Read \cup {Idle}]
    BY <1>9 DEF SetView, TypeOK
  <2>2. views' \in [Views -> Entries]
    BY <1>9 DEF SetView, TypeOK, Entries
  <2> QED BY <1>9, <2>1, <2>2 DEF SetView, TypeOK
<1>10. ASSUME NEW v \in Views, Expire(v)
       PROVE  TypeOK'
  BY <1>10 DEF Expire, TypeOK, Entries
<1>11. CASE UNCHANGED vars
  BY <1>11 DEF vars, TypeOK
<1> QED BY <1>1, <1>2, <1>3, <1>5, <1>6, <1>7, <1>8, <1>9, <1>10, <1>11, NextCases
----------------------------------------------------------------------------
\* An owner remains

\* What a write does to the owners, when its request has been alone.
LEMMA WriteKeepsOwner ==
    ASSUME IInv, NEW h \in Handlers, Write(h), calls[h].alone, Owners # {}
    PROVE  Owners' # {}
<1> DEFINE c == calls[h]
           old == role[c.target]
<1>1. c \in Call /\ Deciding(h) /\ c.pc = "write"
  BY DecidingIsCall DEF IInv, Write, At, Deciding
<1>2. c.target \in Users /\ c.actor \in Users
  BY <1>1 DEF Call
<1>3. /\ c.op = "add" => c.new # "OWNER"
      /\ role[c.actor] = c.actorRole
      /\ c.op # "add" => KnowsTarget(h)
  BY <1>1 DEF IInv, CallInv, CallOK
<1>4. role' = [role EXCEPT ![c.target] = IF c.op = "remove" THEN "none" ELSE c.new]
  BY DEF Write
<1>5. ASSUME NEW u \in Owners, u # c.target
      PROVE  Owners' # {}
  BY <1>2, <1>4, <1>5 DEF Owners, IInv, TypeOK, Rows
<1>6. CASE old # "OWNER"
  BY <1>5, <1>6 DEF Owners
<1>7. CASE c.op = "update" /\ c.new = "OWNER"
  BY <1>2, <1>4, <1>7 DEF Owners, IInv, TypeOK, Rows
<1>8. CASE old = "OWNER" /\ ~(c.op = "update" /\ c.new = "OWNER")
  <2>1. c.op # "add"
    BY <1>8 DEF Write, RowIsThere
  <2>2. ~Refused(h, old)
    BY <1>1, <1>3, <2>1 DEF KnowsTarget
  <2>3. role[c.actor] = "OWNER"
    BY <1>3, <1>8, <2>2 DEF Refused
  <2>4. CASE c.actor # c.target
    BY <1>2, <1>5, <2>3, <2>4 DEF Owners
  <2>5. CASE c.actor = c.target
    <3>1. Counts(h, old)
      BY <1>8, <2>5 DEF Counts
    <3>2. ~(Cardinality(Owners) <= 1)
      BY <1>1, <1>3, <1>8, <2>1, <3>1 DEF KnowsTarget
    <3>3. c.target \in Owners
      BY <1>2, <1>8 DEF Owners
    <3>4. PICK u \in Owners : u # c.target
      BY <3>2, <3>3, AnotherMember
    <3> QED BY <1>5, <3>4
  <2> QED BY <2>4, <2>5
<1> QED BY <1>6, <1>7, <1>8

LEMMA OwnerStep ==
    ASSUME IInv, [Next]_vars
    PROVE  OwnerRemains'
<1>1. ASSUME NEW h \in Handlers, Write(h)
      PROVE  OwnerRemains'
  <2>1. serial' = (serial /\ calls[h].alone)
    BY <1>1 DEF Write
  <2>2. CASE serial /\ calls[h].alone
    BY <1>1, <2>2, WriteKeepsOwner DEF IInv, OwnerRemains
  <2> QED BY <2>1, <2>2 DEF OwnerRemains
<1>2. CASE ~\E h \in Handlers : Write(h)
  <2>1. role' = role /\ serial' = serial
    BY <1>2, OnlyWritesWrite
  <2> QED BY <2>1 DEF IInv, OwnerRemains, Owners
<1> QED BY <1>1, <1>2
----------------------------------------------------------------------------
\* What requests know

\* A request whose entry a step leaves alone, with the rows, keeps what it
\* knows.
LEMMA CallOKFrame ==
    ASSUME NEW i \in Handlers, CallOK(i), calls'[i] = calls[i], role' = role
    PROVE  CallOK(i)'
<1>1. Owners' = Owners
  BY DEF Owners
<1> QED BY <1>1 DEF CallOK, Deciding, KnowsTarget, Refused, Counts

LEMMA CallStepKeeps ==
    ASSUME IInv, [Next]_vars
    PROVE  CallInv'
<1> SUFFICES ASSUME NEW i \in Handlers PROVE CallOK(i)'
  BY DEF CallInv
<1>0. CallOK(i) /\ calls \in [Handlers -> Call \cup Written \cup {Idle}]
  BY DEF IInv, CallInv, TypeOK
<1>1. ASSUME NEW h \in Handlers, NEW op \in {"add", "update", "remove"},
             NEW actor \in Users, NEW target \in Users, NEW new \in Roles,
             Resolve(h, op, actor, target, new)
      PROVE  CallOK(i)'
  <2>1. CASE i = h
    <3>1. calls'[i] = [pc |-> "read", op |-> op, actor |-> actor, actorRole |-> role[actor],
                       target |-> target, new |-> new, row |-> 0, alone |-> TRUE]
      BY <1>0, <1>1, <2>1 DEF Resolve
    <3>2. op = "add" => new # "OWNER"
      BY <1>1 DEF Resolve
    <3>3. role' = role
      BY <1>1 DEF Resolve
    <3>4. KnowsTarget(i)'
      BY <3>1 DEF KnowsTarget
    <3> QED BY <3>1, <3>2, <3>3, <3>4 DEF CallOK
  <2>2. CASE i # h
    BY <1>0, <1>1, <2>2, CallOKFrame DEF Resolve
  <2> QED BY <2>1, <2>2
<1>2. ASSUME NEW h \in Handlers, Looks(h)
      PROVE  CallOK(i)'
  <2>1. role' = role /\ joined' = joined
    BY <1>2 DEF Looks, FindExisting, ReadTarget, CountOwners, WriteFails
  <2>2. Owners' = Owners
    BY <2>1 DEF Owners
  <2>3. CASE i # h
    <3>1. calls'[i] = calls[i]
      BY <1>0, <1>2, <2>3
         DEF Looks, FindExisting, ReadTarget, CountOwners, WriteFails, GoTo, Done
    <3> QED BY <1>0, <2>1, <3>1, CallOKFrame
  <2>4. CASE i = h /\ calls'[h] = Idle
    BY <2>4 DEF CallOK, Deciding, Idle
  <2>5. CASE i = h /\ calls'[h] # Idle
    <3>1. Deciding(h)
      BY <1>2 DEF Looks, FindExisting, ReadTarget, CountOwners, WriteFails, At, Deciding
    <3>2. calls[h] \in Call
      BY <3>1, DecidingIsCall DEF IInv
    <3>3. CASE FindExisting(h)
      <4>1. calls'[h] = [calls[h] EXCEPT !.pc = "write"] /\ calls[h].op = "add"
        BY <1>0, <2>5, <3>3 DEF FindExisting, GoTo, Done
      <4> QED BY <1>0, <2>1, <2>5, <3>1, <3>2, <4>1 DEF CallOK, Call
    <3>4. CASE ReadTarget(h)
      <4> DEFINE old == role[calls[h].target]
      <4>1. /\ calls'[h] = [calls[h] EXCEPT
                   !.pc = IF Counts(h, old) THEN "count" ELSE "write",
                   !.row = joined[calls[h].target]]
            /\ ~Refused(h, old)
        BY <1>0, <2>5, <3>4 DEF ReadTarget, Done
      <4>2. /\ calls'[h].op = calls[h].op /\ calls'[h].actor = calls[h].actor
            /\ calls'[h].actorRole = calls[h].actorRole
            /\ calls'[h].target = calls[h].target /\ calls'[h].new = calls[h].new
            /\ calls'[h].alone = calls[h].alone
            /\ calls'[h].pc = IF Counts(h, old) THEN "count" ELSE "write"
        BY <3>2, <4>1 DEF Call
      <4>3. (calls'[h].pc = "count" => Counts(h, old)) /\ (calls'[h].pc = "write" => ~Counts(h, old))
        BY <4>2
      <4>4. KnowsTarget(h)'
        BY <2>1, <4>1, <4>2, <4>3 DEF KnowsTarget, Refused, Counts
      <4> QED BY <1>0, <2>1, <2>5, <3>1, <4>2, <4>4 DEF CallOK
    <3>5. CASE CountOwners(h)
      <4>1. /\ calls'[h] = [calls[h] EXCEPT !.pc = "write"]
            /\ calls[h].pc = "count"
            /\ ~(Cardinality(Owners) <= 1 /\ ~(calls[h].op = "update" /\ calls[h].new = "OWNER"))
        BY <1>0, <2>5, <3>5 DEF CountOwners, GoTo, Done, At
      <4>2. /\ calls'[h].op = calls[h].op /\ calls'[h].actor = calls[h].actor
            /\ calls'[h].actorRole = calls[h].actorRole
            /\ calls'[h].target = calls[h].target /\ calls'[h].new = calls[h].new
            /\ calls'[h].alone = calls[h].alone
            /\ calls'[h].pc = "write"
        BY <3>2, <4>1 DEF Call
      <4>3. KnowsTarget(h) => KnowsTarget(h)'
        BY <2>1, <2>2, <4>1, <4>2 DEF KnowsTarget, Refused, Counts
      <4> QED BY <1>0, <2>1, <2>5, <3>1, <4>2, <4>3 DEF CallOK
    <3>6. CASE WriteFails(h)
      BY <1>0, <2>5, <3>6 DEF WriteFails, Done
    <3> QED BY <1>2, <3>3, <3>4, <3>5, <3>6 DEF Looks
  <2> QED BY <2>3, <2>4, <2>5
<1>3. ASSUME NEW h \in Handlers, Write(h)
      PROVE  CallOK(i)'
  <2>1. CASE i = h
    <3>1. calls'[i].pc = "dropList"
      BY <1>3, <2>1 DEF Write
    <3> QED BY <3>1 DEF CallOK, Deciding
  <2>2. CASE i # h /\ Deciding(i)
    <3>1. calls[i] \in Call
      BY <2>2, DecidingIsCall DEF IInv
    <3>2. calls'[i] = [calls[i] EXCEPT !.alone = FALSE]
      BY <1>3, <2>2 DEF Write, Deciding
    <3>3. calls'[i].op = calls[i].op /\ calls'[i].new = calls[i].new /\ calls'[i].alone = FALSE
      BY <3>1, <3>2 DEF Call
    <3> QED BY <1>0, <2>2, <3>3 DEF CallOK
  <2>3. CASE i # h /\ ~Deciding(i)
    <3>1. calls'[i] = calls[i]
      BY <1>3, <2>3 DEF Write, Deciding
    <3> QED BY <2>3, <3>1 DEF CallOK, Deciding
  <2> QED BY <2>1, <2>2, <2>3
<1>4. ASSUME NEW h \in Handlers, DropMemberList(h) \/ DropOrgList(h)
      PROVE  CallOK(i)'
  <2>1. role' = role
    BY <1>4 DEF DropMemberList, DropOrgList
  <2>2. CASE i # h
    <3>1. calls'[i] = calls[i]
      BY <1>0, <1>4, <2>2 DEF DropMemberList, DropOrgList, GoTo, Done
    <3> QED BY <1>0, <2>1, <3>1, CallOKFrame
  <2>3. CASE i = h /\ DropMemberList(h)
    <3>1. calls[h] \in Written
      BY <1>0, <2>3 DEF DropMemberList, At, Call, Idle
    <3>2. calls'[h] = [calls[h] EXCEPT !.pc = "dropOrg"]
      BY <1>0, <2>3 DEF DropMemberList, GoTo
    <3>3. calls'[h].pc = "dropOrg"
      BY <3>1, <3>2 DEF Written
    <3> QED BY <2>3, <3>3 DEF CallOK, Deciding
  <2>4. CASE i = h /\ DropOrgList(h)
    <3>1. calls'[h] = Idle
      BY <1>0, <2>4 DEF DropOrgList, Done
    <3> QED BY <2>4, <3>1 DEF CallOK, Deciding, Idle
  <2> QED BY <1>4, <2>2, <2>3, <2>4
<1>5. CASE UNCHANGED <<role, calls>>
  BY <1>0, <1>5, CallOKFrame
<1>6. ASSUME \/ \E r \in Readers, v \in Views : Miss(r, v)
             \/ \E r \in Readers : ReadRows(r) \/ SetView(r)
             \/ \E v \in Views : Expire(v)
      PROVE  UNCHANGED <<role, calls>>
  BY <1>6 DEF Miss, ReadRows, SetView, Expire
<1>7. CASE UNCHANGED vars
  BY <1>5, <1>7 DEF vars
<1> QED BY <1>1, <1>2, <1>3, <1>4, <1>5, <1>6, <1>7, NextCases
----------------------------------------------------------------------------
\* Outdated views

LEMMA ViewStep ==
    ASSUME IInv, [Next]_vars
    PROVE  ViewInv'
<1> SUFFICES ASSUME NEW v \in Views, v \notin skipped', views'[v] = "outdated"
             PROVE  Due(v)'
  BY DEF ViewInv
<1>0. /\ calls \in [Handlers -> Call \cup Written \cup {Idle}]
      /\ views \in [Views -> Entries]
      /\ ViewInv
  BY DEF IInv, TypeOK
\* The invalidation that was due for v is due still, unless its request moved.
<1> DEFINE Owes(i) == \/ calls[i].pc = "dropList" /\ v \in Showing(calls[i].target)
                      \/ calls[i].pc = "dropOrg" /\ v = calls[i].target
<1>1. ASSUME NEW i \in Handlers, Owes(i), calls'[i] = calls[i]
      PROVE  Due(v)'
  BY <1>1 DEF Due, At, Showing
<1>2. ASSUME views[v] = "outdated", v \notin skipped
      PROVE  \E i \in Handlers : Owes(i)
  BY <1>0, <1>2 DEF ViewInv, Due, At
<1>3. ASSUME NEW h \in Handlers, NEW op \in {"add", "update", "remove"},
             NEW actor \in Users, NEW target \in Users, NEW new \in Roles,
             Resolve(h, op, actor, target, new)
      PROVE  Due(v)'
  <2>1. PICK i \in Handlers : Owes(i)
    BY <1>2, <1>3 DEF Resolve
  <2>2. i # h
    BY <1>3, <2>1 DEF Resolve, Idle
  <2>3. calls'[i] = calls[i]
    BY <1>0, <1>3, <2>2 DEF Resolve
  <2> QED BY <1>1, <2>1, <2>3
<1>4. ASSUME NEW h \in Handlers, Looks(h)
      PROVE  Due(v)'
  <2>1. views' = views /\ skipped' = skipped
    BY <1>4 DEF Looks, FindExisting, ReadTarget, CountOwners, WriteFails
  <2>2. PICK i \in Handlers : Owes(i)
    BY <1>2, <2>1
  <2>3. i # h
    BY <1>4, <2>2 DEF Looks, FindExisting, ReadTarget, CountOwners, WriteFails, At
  <2>4. calls'[i] = calls[i]
    BY <1>0, <1>4, <2>3 DEF Looks, FindExisting, ReadTarget, CountOwners, WriteFails, GoTo, Done
  <2> QED BY <1>1, <2>2, <2>4
<1>5. ASSUME NEW h \in Handlers, Write(h)
      PROVE  Due(v)'
  <2>1. CASE v \in Showing(calls[h].target)
    <3>1. calls'[h] = [pc |-> "dropList", target |-> calls[h].target]
      BY <1>5 DEF Write
    <3>2. calls'[h].pc = "dropList" /\ calls'[h].target = calls[h].target
      BY <3>1
    <3> QED BY <2>1, <3>2 DEF Due, At, Showing
  <2>2. CASE v \notin Showing(calls[h].target)
    <3>1. views[v] = "outdated" /\ v \notin skipped
      BY <1>5, <2>2 DEF Write
    <3>2. PICK i \in Handlers : Owes(i)
      BY <1>2, <3>1
    <3>3. i # h /\ calls[i].pc \notin {"read", "count", "write"}
      BY <1>5, <3>2 DEF Write, At
    <3>4. calls'[i] = calls[i]
      BY <1>5, <3>3 DEF Write
    <3> QED BY <1>1, <3>2, <3>4
  <2> QED BY <2>1, <2>2
<1>6. ASSUME NEW w \in Views, Drop(w)
      PROVE  v # w /\ views[v] = "outdated" /\ v \notin skipped
  BY <1>0, <1>6 DEF Drop
<1>7. ASSUME NEW h \in Handlers, DropMemberList(h)
      PROVE  Due(v)'
  <2>1. v # "list" /\ views[v] = "outdated" /\ v \notin skipped
    BY <1>6, <1>7 DEF DropMemberList, Views
  <2>2. PICK i \in Handlers : Owes(i)
    BY <1>2, <2>1
  <2>3. CASE i # h
    <3>1. calls'[i] = calls[i]
      BY <1>0, <1>7, <2>3 DEF DropMemberList, GoTo
    <3> QED BY <1>1, <2>2, <3>1
  <2>4. CASE i = h
    <3>1. calls[h] \in Written
      BY <1>0, <1>7 DEF DropMemberList, At, Call, Idle
    <3>2. calls'[h] = [calls[h] EXCEPT !.pc = "dropOrg"]
      BY <1>0, <1>7 DEF DropMemberList, GoTo
    <3>3. calls'[h].pc = "dropOrg" /\ calls'[h].target = calls[h].target
      BY <3>1, <3>2 DEF Written
    <3>4. v = calls[h].target
      BY <1>7, <2>1, <2>2, <2>4 DEF DropMemberList, At, Showing
    <3> QED BY <3>3, <3>4 DEF Due, At
  <2> QED BY <2>3, <2>4
<1>8. ASSUME NEW h \in Handlers, DropOrgList(h)
      PROVE  Due(v)'
  <2>1. calls[h] \in Written
    BY <1>0, <1>8 DEF DropOrgList, At, Call, Idle
  <2>2. calls[h].target \in Views
    BY <2>1 DEF Written, Views
  <2>3. v # calls[h].target /\ views[v] = "outdated" /\ v \notin skipped
    BY <1>6, <1>8, <2>2 DEF DropOrgList
  <2>4. PICK i \in Handlers : Owes(i)
    BY <1>2, <2>3
  <2>5. i # h
    BY <1>8, <2>3, <2>4 DEF DropOrgList, At
  <2>6. calls'[i] = calls[i]
    BY <1>0, <1>8, <2>5 DEF DropOrgList, Done
  <2> QED BY <1>1, <2>4, <2>6
<1>9. ASSUME calls' = calls, skipped' = skipped, views[v] = "outdated"
      PROVE  Due(v)'
  BY <1>1, <1>2, <1>9
<1>10. ASSUME NEW r \in Readers, NEW w \in Views, Miss(r, w)
       PROVE  Due(v)'
  BY <1>9, <1>10 DEF Miss
<1>11. ASSUME NEW r \in Readers, ReadRows(r) \/ SetView(r)
       PROVE  Due(v)'
  BY <1>0, <1>9, <1>11 DEF ReadRows, SetView
<1>12. ASSUME NEW w \in Views, Expire(w)
       PROVE  Due(v)'
  BY <1>0, <1>9, <1>12 DEF Expire
<1>13. CASE UNCHANGED vars
  BY <1>9, <1>13 DEF vars
<1> QED
  BY <1>3, <1>4, <1>5, <1>7, <1>8, <1>10, <1>11, <1>12, <1>13, NextCases
----------------------------------------------------------------------------
\* The invariant and the theorems

LEMMA IInvInit == Init => IInv
<1> SUFFICES ASSUME Init PROVE IInv
  OBVIOUS
<1>1. TypeOK
  BY TypeInit
<1>2. OwnerRemains
  BY MembershipAssumption DEF Init, OwnerRemains, Owners
<1>3. CallInv
  BY DEF Init, CallInv, CallOK, Deciding, Idle
<1>4. ViewInv
  BY DEF Init, ViewInv
<1> QED BY <1>1, <1>2, <1>3, <1>4 DEF IInv

LEMMA IInvStep == IInv /\ [Next]_vars => IInv'
  BY TypeStep, OwnerStep, CallStepKeeps, ViewStep DEF IInv

LEMMA IInvHolds == Spec => []IInv
  BY IInvInit, IInvStep, PTL DEF Spec

\* Every variable has its type, and every member's row was made by joining.
THEOREM TypeCorrect == Spec => []TypeOK
<1>1. IInv => TypeOK
  BY DEF IInv
<1> QED BY <1>1, IInvHolds, PTL

\* No sequence of updateMemberRole and removeMember takes the last owner away
\* unless two of them overlapped.
THEOREM OwnerRemainsHolds == Spec => []OwnerRemains
<1>1. IInv => OwnerRemains
  BY DEF IInv
<1> QED BY <1>1, IInvHolds, PTL

\* A cached member list or organization list is never left outdated by a
\* request that ended, short of a refused command.
THEOREM OutdatedOnlyByOverlapHolds == Spec => []OutdatedOnlyByOverlap
<1>1. IInv => OutdatedOnlyByOverlap
  BY DEF IInv, ViewInv, Due, OutdatedOnlyByOverlap
<1> QED BY <1>1, IInvHolds, PTL

LEMMA OwnersAnswerStep ==
    ASSUME IInv, NEW h \in Handlers, Write(h), calls[h].alone, Owners' # Owners
    PROVE  calls[h].actor \in Owners
<1> DEFINE c == calls[h]
           old == role[c.target]
<1>1. c \in Call /\ Deciding(h) /\ c.pc = "write"
  BY DecidingIsCall DEF IInv, Write, At, Deciding
<1>2. c.target \in Users /\ c.actor \in Users
  BY <1>1 DEF Call
<1>3. /\ c.op = "add" => c.new # "OWNER"
      /\ role[c.actor] = c.actorRole
      /\ c.op # "add" => KnowsTarget(h)
  BY <1>1 DEF IInv, CallInv, CallOK
<1>4. role' = [role EXCEPT ![c.target] = IF c.op = "remove" THEN "none" ELSE c.new]
  BY DEF Write
<1>5. old = "OWNER" \/ (c.op # "remove" /\ c.new = "OWNER")
  BY <1>2, <1>4 DEF Owners, IInv, TypeOK, Rows
<1>6. c.op # "add"
  BY <1>3, <1>5 DEF Write, RowIsThere
<1>7. c.op \in {"add", "update", "remove"}
  BY <1>1 DEF Call
<1>8. ~Refused(h, old)
  BY <1>1, <1>3, <1>6 DEF KnowsTarget
<1>9. c.actorRole = "OWNER"
  BY <1>5, <1>6, <1>7, <1>8 DEF Refused
<1> QED BY <1>2, <1>3, <1>9 DEF Owners

\* Owners are made and unmade by owners: both rules of member.service hold at
\* the moment of the write, for a request nobody wrote beside.
THEOREM OwnersAnswerToOwnersHolds == Spec => OwnersAnswerToOwners
<1>1. IInv /\ [Next]_vars
        => [\A h \in Handlers :
              Write(h) /\ calls[h].alone /\ Owners' # Owners
                 => calls[h].actor \in Owners]_vars
  BY OwnersAnswerStep
<1> QED BY <1>1, IInvHolds, PTL DEF Spec, OwnersAnswerToOwners

LEMMA WritesMeetStep ==
    ASSUME IInv, [Next]_vars, NEW u \in Users, role'[u] # role[u]
    PROVE  IF role[u] = "none"
           THEN role'[u] # "OWNER" /\ joined'[u] = joined[u] + 1
           ELSE \E h \in Handlers :
                   Write(h) /\ calls[h].target = u /\ calls[h].row = joined[u]
<1>1. PICK h \in Handlers : Write(h)
  BY OnlyWritesWrite
<1> DEFINE c == calls[h]
<1>2. c \in Call /\ Deciding(h)
  BY <1>1, DecidingIsCall DEF IInv, Write, At, Deciding
<1>3. c.op = "add" => c.new # "OWNER"
  BY <1>2 DEF IInv, CallInv, CallOK
<1>4. /\ role' = [role EXCEPT ![c.target] = IF c.op = "remove" THEN "none" ELSE c.new]
      /\ joined' = IF c.op = "add" THEN [joined EXCEPT ![c.target] = @ + 1] ELSE joined
      /\ RowIsThere(h)
  BY <1>1 DEF Write
<1>5. u = c.target
  BY <1>4 DEF IInv, TypeOK, Rows
<1>6. CASE role[u] = "none"
  <2>1. c.op = "add"
    BY <1>4, <1>5, <1>6 DEF RowIsThere
  <2> QED BY <1>3, <1>4, <1>5, <1>6, <2>1 DEF IInv, TypeOK, Rows
<1>7. CASE role[u] # "none"
  \* the create is refused by the unique index, the others go by the row's id
  <2>1. c.op # "add" /\ c.row = joined[u]
    BY <1>4, <1>5, <1>7 DEF RowIsThere
  <2> QED BY <1>1, <1>5, <1>7, <2>1
<1> QED BY <1>6, <1>7

\* Whatever overlaps, a role changes or ends only on the row it was read from,
\* and someone without a row becomes a member only by a row that addMember
\* makes.
THEOREM WritesMeetTheirRowHolds == Spec => WritesMeetTheirRow
<1>1. IInv /\ [Next]_vars
        => [\A u \in Users : role'[u] # role[u] =>
              IF role[u] = "none"
              THEN role'[u] # "OWNER" /\ joined'[u] = joined[u] + 1
              ELSE \E h \in Handlers :
                      Write(h) /\ calls[h].target = u /\ calls[h].row = joined[u]]_vars
  BY WritesMeetStep
<1> QED BY <1>1, IInvHolds, PTL DEF Spec, WritesMeetTheirRow
=============================================================================
