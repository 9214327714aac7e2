------------------------- MODULE Conversations_proofs -------------------------
(***************************************************************************)
(* For any number of turns, edits and listings, any history and any page   *)
(* length: answered turns are whole, names outlive later turns, and a      *)
(* listing shows every message once.                                       *)
(***************************************************************************)
EXTENDS Conversations, FiniteSetTheorems, WellFoundedInduction, TLAPS

USE ConversationsAssumption

\* A set of numbers has a least one.
LEMMA LeastNumber ==
    ASSUME NEW S, S \subseteq Nat, S # {}
    PROVE  \E n \in S : \A k \in S : n <= k
<1>1. PICK n \in S : \A k \in S : ~ (<<k, n>> \in OpToRel(<, Nat))
  BY NatLessThanWellFounded, WFMin
<1>2. \A k \in S : ~ (k < n)
  BY <1>1 DEF OpToRel
<1> QED BY <1>2

\* A finite one has a greatest: a smallest finite set without one would have
\* one as soon as it has one number more than a set that has.
LEMMA GreatestNumber ==
    ASSUME NEW S, S \subseteq Nat, S # {}, IsFiniteSet(S)
    PROVE  \E n \in S : \A k \in S : k <= n
<1> DEFINE Great(U, n) == n \in U /\ \A k \in U : k <= n
           Bad == {U \in FiniteSubsetsOf(Nat) : U # {} /\ ~ \E n \in Nat : Great(U, n)}
<1>1. SUFFICES Bad = {}
  BY <1>1 DEF FiniteSubsetsOf
<1>2. SUFFICES ASSUME Bad # {} PROVE FALSE
  OBVIOUS
<1>3. PICK U \in Bad : \A V \in Bad : ~ (<<V, U>> \in StrictSubsetOrdering(Nat))
  BY <1>2, FS_StrictSubsetOrderingWellFounded, WFMin
<1>4. PICK x \in U : TRUE
  OBVIOUS
<1> DEFINE V == U \ {x}
<1>5. U \subseteq Nat /\ IsFiniteSet(U) /\ V \subseteq Nat /\ IsFiniteSet(V) /\ V # U
  BY <1>4, FS_RemoveElement DEF FiniteSubsetsOf
<1>6. V \notin Bad
  BY <1>3, <1>5 DEF StrictSubsetOrdering
<1>7. CASE V = {}
  <2>1. U = {x}
    BY <1>4, <1>7
  <2> QED BY <1>5, <2>1
<1>8. CASE V # {}
  <2>1. PICK n \in Nat : Great(V, n)
    BY <1>5, <1>6, <1>8 DEF FiniteSubsetsOf
  <2>2. Great(U, n) \/ Great(U, x)
    BY <1>4, <1>5, <2>1
  <2> QED BY <1>5, <2>2
<1> QED BY <1>7, <1>8
----------------------------------------------------------------------------
\* The oldest of a finite set of messages

Below(S, m) == {o \in S : o.at < m.at}

LEMMA BelowIsFinite ==
    ASSUME NEW S, IsFiniteSet(S), NEW m
    PROVE  IsFiniteSet(Below(S, m)) /\ Cardinality(Below(S, m)) \in Nat
BY FS_Subset, FS_CardinalityType DEF Below

\* Of two messages the younger has the more below it.
LEMMA BelowGrows ==
    ASSUME NEW S \in SUBSET Message, IsFiniteSet(S), NEW a \in Message, NEW b \in Message,
           b.at <= a.at
    PROVE  /\ Below(S, b) \subseteq Below(S, a)
           /\ Cardinality(Below(S, b)) <= Cardinality(Below(S, a))
<1>1. Below(S, b) \subseteq Below(S, a)
  BY DEF Below, Message
<1> QED BY <1>1, BelowIsFinite, FS_Subset

LEMMA OldestIsBelow ==
    ASSUME NEW S, NEW n
    PROVE  Oldest(S, n) = {m \in S : Cardinality(Below(S, m)) < n}
BY DEF Oldest, Below

\* With a message the oldest have every older one.
LEMMA OldestIsPrefix ==
    ASSUME NEW S \in SUBSET Message, IsFiniteSet(S), NEW n \in Nat,
           NEW a \in Oldest(S, n), NEW b \in S, b.at <= a.at
    PROVE  b \in Oldest(S, n)
<1>1. a \in Message /\ b \in Message /\ Cardinality(Below(S, a)) < n
  BY OldestIsBelow
<1>2. Cardinality(Below(S, b)) <= Cardinality(Below(S, a))
  BY <1>1, BelowGrows
<1>3. Cardinality(Below(S, b)) \in Nat /\ Cardinality(Below(S, a)) \in Nat
  BY BelowIsFinite
<1> QED BY <1>1, <1>2, <1>3, OldestIsBelow

\* Of no more than n messages the n oldest are all.
LEMMA OldestOfFew ==
    ASSUME NEW S \in SUBSET Message, IsFiniteSet(S), NEW n \in Nat, Cardinality(S) <= n
    PROVE  Oldest(S, n) = S
<1> SUFFICES ASSUME NEW m \in S
             PROVE  Cardinality(Below(S, m)) < n
    BY OldestIsBelow
<1>1. Below(S, m) \subseteq S \ {m}
  BY DEF Below, Message
<1>2. IsFiniteSet(S \ {m}) /\ Cardinality(S \ {m}) = Cardinality(S) - 1
  BY FS_RemoveElement
<1>3. Cardinality(Below(S, m)) <= Cardinality(S \ {m})
  BY <1>1, <1>2, FS_Subset
<1>4. Cardinality(S) \in Nat /\ Cardinality(Below(S, m)) \in Nat
  BY FS_CardinalityType, BelowIsFinite
<1> QED BY <1>2, <1>3, <1>4

\* When one is left out, the n oldest are n at least, all older than it.
LEMMA OldestAreMany ==
    ASSUME NEW S \in SUBSET Message, IsFiniteSet(S), NEW n \in Nat,
           NEW m \in S, m \notin Oldest(S, n)
    PROVE  /\ Cardinality(Oldest(S, n)) >= n
           /\ \A r \in Oldest(S, n) : r.at < m.at
<1>1. \A r \in Oldest(S, n) : r.at < m.at
  <2> SUFFICES ASSUME NEW r \in Oldest(S, n), ~ (r.at < m.at)
               PROVE  FALSE
      OBVIOUS
  <2>1. r \in S /\ r.at \in Nat /\ m.at \in Nat
    BY OldestIsBelow DEF Message
  <2> QED BY <2>1, OldestIsPrefix
<1> DEFINE Out == {k \in S : k \notin Oldest(S, n)}
           Stamps == {k.at : k \in Out}
<1>2. Stamps \subseteq Nat /\ Stamps # {}
  BY DEF Message
<1>a. PICK n0 \in Stamps : \A j \in Stamps : n0 <= j
  BY <1>2, LeastNumber
<1>3. PICK k \in Out : \A o \in Out : k.at <= o.at
  BY <1>a
<1>4. Below(S, k) \subseteq Oldest(S, n)
  <2> SUFFICES ASSUME NEW o \in Below(S, k), o \notin Oldest(S, n)
               PROVE  FALSE
      OBVIOUS
  <2>1. o \in Out /\ o.at < k.at /\ o.at \in Nat /\ k.at \in Nat
    BY DEF Below, Message
  <2> QED BY <1>3, <2>1
<1>5. IsFiniteSet(Oldest(S, n)) /\ Cardinality(Oldest(S, n)) \in Nat
  BY OldestIsBelow, FS_Subset, FS_CardinalityType
<1>6. Cardinality(Below(S, k)) <= Cardinality(Oldest(S, n))
  BY <1>4, <1>5, FS_Subset
<1>7. Cardinality(Below(S, k)) \in Nat /\ ~ (Cardinality(Below(S, k)) < n)
  BY OldestIsBelow, BelowIsFinite
<1> QED BY <1>1, <1>5, <1>6, <1>7

\* The last stamp of a page.
LEMMA LastIsGreatest ==
    ASSUME NEW S \in SUBSET Message, IsFiniteSet(S), S # {}
    PROVE  /\ LastOf(S) \in Nat
           /\ \E m \in S : m.at = LastOf(S)
           /\ \A m \in S : m.at <= LastOf(S)
<1> DEFINE Stamps == {m.at : m \in S}
           f == [m \in S |-> m.at]
<1>1. f \in Surjection(S, Stamps)
  BY DEF Surjection
<1>2. IsFiniteSet(Stamps)
  BY <1>1, FS_Surjection
<1>3. Stamps \subseteq Nat /\ Stamps # {}
  BY DEF Message
<1>4. \E n \in Stamps : \A k \in Stamps : k <= n
  BY <1>2, <1>3, GreatestNumber
<1>5. \E n \in Stamps : \A m \in S : m.at <= n
  BY <1>4
<1>6. LastOf(S) \in Stamps /\ \A m \in S : m.at <= LastOf(S)
  BY <1>5 DEF LastOf
<1> QED BY <1>3, <1>6

\* When one is left out of the n youngest, n of them are younger than it.
LEMMA YoungestAreMany ==
    ASSUME NEW S \in SUBSET Message, IsFiniteSet(S), NEW n \in Nat,
           NEW m \in S, m \notin Youngest(S, n)
    PROVE  Cardinality({o \in Youngest(S, n) : o.at > m.at}) >= n
<1> DEFINE Out == {k \in S : k \notin Youngest(S, n)}
           Kept == {o \in Youngest(S, n) : o.at > m.at}
           Above(k) == {o \in S : o.at > k.at}
<1>1. Out \subseteq S /\ Out \subseteq Message /\ IsFiniteSet(Out) /\ Out # {} /\ m \in Out
  BY FS_Subset
<1>2. PICK k \in Out : \A o \in Out : o.at <= k.at
  <2> HIDE DEF Out
  <2> QED BY <1>1, LastIsGreatest
<1>3. ASSUME NEW o \in Above(k)
      PROVE  o \in Kept
  <2>1. o.at \in Nat /\ k.at \in Nat /\ m.at \in Nat /\ o.at > k.at /\ m.at <= k.at
    BY <1>1, <1>2 DEF Message
  <2>2. o \notin Out
    BY <1>2, <2>1
  <2> QED BY <2>1, <2>2
<1>4. IsFiniteSet(Kept) /\ IsFiniteSet(Above(k))
  <2>1. Kept \subseteq S
    BY DEF Youngest
  <2> QED BY <2>1, FS_Subset
<1>5. Cardinality(Above(k)) \in Nat /\ Cardinality(Kept) \in Nat
  BY <1>4, FS_CardinalityType
<1>6. Cardinality(Above(k)) <= Cardinality(Kept)
  BY <1>3, <1>4, FS_Subset
<1>7. ~ (Cardinality(Above(k)) < n)
  BY DEF Youngest
<1> QED BY <1>5, <1>6, <1>7

\* The position of a message, counted from 0.
Rank(S, m) == Cardinality(Below(S, m))

Injective(S) == \A m, k \in S : m.at = k.at => m = k

\* With a stamp of their own each, the n oldest are n at most ...
LEMMA OldestAreFew ==
    ASSUME NEW S \in SUBSET Message, IsFiniteSet(S), Injective(S), NEW n \in Nat
    PROVE  IsFiniteSet(Oldest(S, n)) /\ Cardinality(Oldest(S, n)) <= n
<1> DEFINE O == Oldest(S, n)
<1>1. O \subseteq S /\ IsFiniteSet(O) /\ Cardinality(O) \in Nat
  BY OldestIsBelow, FS_Subset, FS_CardinalityType
<1>2. CASE O = {}
  BY <1>1, <1>2, FS_EmptySet
<1>3. CASE O # {}
  <2>1. PICK k \in O : \A m \in O : m.at <= k.at
    BY <1>1, <1>3, LastIsGreatest
  <2>2. k \in S /\ Cardinality(Below(S, k)) < n
    BY OldestIsBelow
  <2>3. O \subseteq Below(S, k) \cup {k}
    BY <1>1, <2>1, <2>2 DEF Below, Injective, Message
  <2>4. IsFiniteSet(Below(S, k)) /\ Cardinality(Below(S, k)) \in Nat
    BY BelowIsFinite
  <2>a. k \notin Below(S, k)
    BY <2>2 DEF Below, Message
  <2>5. /\ IsFiniteSet(Below(S, k) \cup {k})
        /\ Cardinality(Below(S, k) \cup {k}) = Cardinality(Below(S, k)) + 1
    BY <2>4, <2>a, FS_AddElement
  <2>6. Cardinality(O) <= Cardinality(Below(S, k) \cup {k})
    BY <2>3, <2>5, FS_Subset
  <2>7. Cardinality(Below(S, k) \cup {k}) \in Nat
    BY <2>5, FS_CardinalityType
  <2> HIDE DEF O
  <2>8. Cardinality(O) <= n
    BY <1>1, <2>2, <2>4, <2>5, <2>6, <2>7
  <2> QED BY <1>1, <2>8 DEF O
<1> QED BY <1>2, <1>3

\* ... and the n after the k oldest are those of the next n positions.
LEMMA PageOfPositions ==
    ASSUME NEW S \in SUBSET Message, IsFiniteSet(S), Injective(S), NEW k \in Nat, NEW n \in Nat
    PROVE  \A m \in S : m \in Oldest(Skipping(S, k), n) <=> Rank(S, m) >= k /\ Rank(S, m) < k + n
<1> DEFINE Rest == Skipping(S, k)
<1>1. Rest = {m \in S : Rank(S, m) >= k}
  BY DEF Skipping, Rank, Below
<1>2. Rest \subseteq S /\ IsFiniteSet(Rest)
  BY <1>1, FS_Subset
<1>3. ASSUME NEW m \in Rest
      PROVE  Rank(S, m) = k + Cardinality(Below(Rest, m))
  <2>1. m \in S /\ Rank(S, m) >= k /\ Rank(S, m) \in Nat
    BY <1>1, BelowIsFinite DEF Rank
  <2>2. m \notin Oldest(S, k)
    BY <2>1, OldestIsBelow DEF Rank
  <2>3. /\ IsFiniteSet(Oldest(S, k)) /\ Cardinality(Oldest(S, k)) = k
        /\ \A r \in Oldest(S, k) : r.at < m.at
    <3>1. Cardinality(Oldest(S, k)) >= k /\ \A r \in Oldest(S, k) : r.at < m.at
      BY <2>1, <2>2, OldestAreMany
    <3>2. IsFiniteSet(Oldest(S, k)) /\ Cardinality(Oldest(S, k)) <= k
      BY OldestAreFew
    <3>3. Cardinality(Oldest(S, k)) \in Nat
      BY <3>2, FS_CardinalityType
    <3> QED BY <3>1, <3>2, <3>3
  <2>4. \A o \in S : o \in Oldest(S, k) <=> o \notin Rest
    <3> TAKE o \in S
    <3>1. Rank(S, o) \in Nat
      BY BelowIsFinite DEF Rank
    <3> QED BY <1>1, <3>1, OldestIsBelow DEF Rank
  <2>5. Below(S, m) = Oldest(S, k) \cup Below(Rest, m)
    <3> HIDE DEF Rest
    <3>1. Oldest(S, k) \subseteq S
      BY OldestIsBelow
    <3> QED BY <1>2, <2>3, <2>4, <3>1 DEF Below
  <2>6. Oldest(S, k) \cap Below(Rest, m) = {}
    BY <1>2, <2>4 DEF Below
  <2>7. IsFiniteSet(Below(Rest, m)) /\ Cardinality(Below(Rest, m)) \in Nat
    BY <1>2, BelowIsFinite
  <2>8. Cardinality(Oldest(S, k) \cup Below(Rest, m)) =
          Cardinality(Oldest(S, k)) + Cardinality(Below(Rest, m)) - Cardinality({})
    BY <2>3, <2>6, <2>7, FS_Union
  <2>9. Cardinality({}) = 0
    BY FS_EmptySet
  <2> HIDE DEF Rest
  <2> QED BY <2>3, <2>5, <2>7, <2>8, <2>9 DEF Rank
<1> TAKE m \in S
<1>4. Rank(S, m) \in Nat
  BY BelowIsFinite DEF Rank
<1>5. CASE m \in Rest
  <2>1. Cardinality(Below(Rest, m)) \in Nat
    BY <1>2, BelowIsFinite
  <2>2. m \in Oldest(Rest, n) <=> Cardinality(Below(Rest, m)) < n
    BY <1>5, OldestIsBelow
  <2>3. Rank(S, m) >= k
    BY <1>1, <1>5
  <2> HIDE DEF Rest
  <2>4. m \in Oldest(Rest, n) <=> Rank(S, m) >= k /\ Rank(S, m) < k + n
    BY <1>3, <1>4, <1>5, <2>1, <2>2, <2>3
  <2> QED BY <2>4 DEF Rest
<1>6. CASE m \notin Rest
  <2>1. m \notin Oldest(Rest, n)
    BY <1>6, OldestIsBelow
  <2> QED BY <1>1, <1>4, <1>6, <2>1
<1> QED BY <1>5, <1>6

\* A message younger than all the others moves none of them.
LEMMA PositionsStay ==
    ASSUME NEW S \in SUBSET Message, NEW m \in Message, \A o \in S : o.at <= m.at,
           NEW k \in S
    PROVE  Rank(S \cup {m}, k) = Rank(S, k)
<1>1. ~ (m.at < k.at)
  BY DEF Message
<1>2. Below(S \cup {m}, k) = Below(S, k)
  BY <1>1 DEF Below
<1> QED BY <1>2 DEF Rank
----------------------------------------------------------------------------
\* Every variable has a value of its type; what is paged through is finite.
ConvTyped ==
    /\ ConvTypeOK
    /\ IsFiniteSet(messages)
    /\ \A l \in Listings : IsFiniteSet(listings[l].rows)

LEMMA ConvInitTyped == ConvInit => ConvTyped
<1> SUFFICES ASSUME ConvInit PROVE ConvTyped
    OBVIOUS
<1>1. NoTurn \in Turn /\ NoEdit \in Edit /\ NoListing \in Listing
  BY DEF NoTurn, Turn, NoEdit, Edit, NoListing, Listing, Titles
<1>2. ConvTypeOK
  BY <1>1 DEF ConvInit, ConvTypeOK
<1>3. messages = {} /\ \A l \in Listings : listings[l].rows = {}
  BY DEF ConvInit, NoListing
<1> QED BY <1>2, <1>3, FS_EmptySet DEF ConvTyped

\* What a step of a turn leaves a turn of.
LEMMA TurnsStayTurns ==
    ASSUME turns \in [Turns -> Turn], title \in {"none", "gone"} \cup Titles,
           messages \subseteq Message, clock \in Nat, NEW t \in Turns,
           \/ FindForTurn(t) \/ ReadHistory(t) \/ StampQuestion(t) \/ StoreQuestion(t)
           \/ StampAnswer(t) \/ StoreAnswer(t) \/ SetTitle(t) \/ Abort(t)
           \/ \E cites \in BOOLEAN : Answer(t, cites)
    PROVE  turns' \in [Turns -> Turn]
<1> USE DEF Turn, In, Fail
<1>1. CASE FindForTurn(t)
  BY <1>1 DEF FindForTurn, Live
<1>2. CASE ReadHistory(t)
  <2>1. PICK history \in SUBSET Message :
          turns' = [turns EXCEPT ![t] = [turns[t] EXCEPT !.pc = "question", !.history = history]]
    BY <1>2 DEF ReadHistory, Youngest
  <2>2. [turns[t] EXCEPT !.pc = "question", !.history = history] \in Turn
    OBVIOUS
  <2> QED BY <2>1, <2>2
<1>a. ASSUME NEW from, NEW to \in {"commit", "store"}, Stamp(t, from, to)
      PROVE  turns' \in [Turns -> Turn]
  <2>1. turns' = [turns EXCEPT ![t] = [turns[t] EXCEPT !.pc = to, !.at = clock + 1]]
    BY <1>a DEF Stamp
  <2>2. \A n \in Nat : [turns[t] EXCEPT !.pc = to, !.at = n] \in Turn
    BY <1>a
  <2>3. clock + 1 \in Nat
    OBVIOUS
  <2> QED BY <2>1, <2>2, <2>3
<1>3. CASE StampQuestion(t)
  BY <1>3, <1>a DEF StampQuestion
<1>4. CASE StoreQuestion(t)
  BY <1>4 DEF StoreQuestion
<1>5. CASE \E cites \in BOOLEAN : Answer(t, cites)
  <2>1. PICK cites \in BOOLEAN : Answer(t, cites)
    BY <1>5
  <2>2. turns' = [turns EXCEPT ![t] = [turns[t] EXCEPT !.pc = "answer", !.cites = cites]]
    BY <2>1 DEF Answer
  <2>3. [turns[t] EXCEPT !.pc = "answer", !.cites = cites] \in Turn
    OBVIOUS
  <2> QED BY <2>2, <2>3
<1>6. CASE StampAnswer(t)
  BY <1>6, <1>a DEF StampAnswer
<1>7. CASE StoreAnswer(t)
  BY <1>7 DEF StoreAnswer
<1>8. CASE SetTitle(t)
  BY <1>8 DEF SetTitle
<1>9. CASE Abort(t)
  BY <1>9 DEF Abort
<1> QED BY <1>1, <1>2, <1>3, <1>4, <1>5, <1>6, <1>7, <1>8, <1>9

\* A new row is a message, and the listings only learn that it came late.
LEMMA AddKeepsTypes ==
    ASSUME ConvTyped, NEW m \in Message, Add(m)
    PROVE  /\ messages' \subseteq Message /\ IsFiniteSet(messages')
           /\ listings' \in [Listings -> Listing]
           /\ \A l \in Listings : IsFiniteSet(listings'[l].rows)
<1>1. messages' = messages \cup {m} /\ IsFiniteSet(messages')
  BY FS_AddElement DEF Add, ConvTyped
<1>2. \A l \in Listings : listings'[l] = [listings[l] EXCEPT
         !.late = @ \/ (listings[l].pc # "idle" /\ \E o \in messages : o.at > m.at)]
  BY DEF Add
<1>3. DOMAIN listings' = Listings /\ listings' = [l \in Listings |-> listings'[l]]
  BY DEF Add
<1>4. ASSUME NEW q \in Listing, NEW late \in BOOLEAN
      PROVE  [q EXCEPT !.late = late] \in Listing /\ [q EXCEPT !.late = late].rows = q.rows
  BY <1>4 DEF Listing
<1>5. \A l \in Listings : listings'[l] \in Listing /\ listings'[l].rows = listings[l].rows
  <2> TAKE l \in Listings
  <2>1. listings[l] \in Listing
    BY DEF ConvTyped, ConvTypeOK
  <2> DEFINE late == listings[l].late \/ (listings[l].pc # "idle" /\ \E o \in messages : o.at > m.at)
  <2>2. late \in BOOLEAN
    OBVIOUS
  <2>3. listings'[l] = [listings[l] EXCEPT !.late = late]
    BY <1>2
  <2> HIDE DEF late
  <2> QED BY <1>4, <2>1, <2>2, <2>3
<1> QED BY <1>1, <1>3, <1>5 DEF ConvTyped, ConvTypeOK

\* A page of rows is a finite set of the messages.
LEMMA PageRowsAreMessages ==
    ASSUME ConvTyped, NEW q \in Listing
    PROVE  PageRows(q) \subseteq messages /\ IsFiniteSet(PageRows(q))
<1>1. PageRows(q) \subseteq messages
  BY DEF PageRows, Oldest, Skipping
<1> QED BY <1>1, FS_Subset DEF ConvTyped

\* A page that has a next one shows rows, and its cursor is one of their stamps.
LEMMA CursorIsShown ==
    ASSUME NEW rows \in SUBSET Message, IsFiniteSet(rows), Cardinality(rows) > PageLimit
    PROVE  /\ NextCursor(rows) \in Nat
           /\ \E m \in Oldest(rows, PageLimit) : m.at = NextCursor(rows)
           /\ \A m \in Oldest(rows, PageLimit) : m.at <= NextCursor(rows)
<1> DEFINE shown == Oldest(rows, PageLimit)
<1>1. shown \subseteq rows /\ IsFiniteSet(shown)
  BY FS_Subset DEF Oldest
<1>2. Cardinality(rows) \in Nat /\ PageLimit \in Nat \ {0}
  BY FS_CardinalityType
<1>3. shown # {}
  <2> SUFFICES ASSUME shown = {} PROVE FALSE
      OBVIOUS
  <2>1. PICK m \in rows : TRUE
    BY <1>2, FS_EmptySet
  <2>2. Cardinality(shown) >= PageLimit
    BY <1>2, <2>1, OldestAreMany
  <2> QED BY <1>2, <2>2, FS_EmptySet
<1> HIDE DEF shown
<1>4. NextCursor(rows) = LastOf(shown)
  BY DEF NextCursor, shown
<1>5. shown \subseteq Message
  BY <1>1
<1> QED BY <1>1, <1>3, <1>4, <1>5, LastIsGreatest DEF shown

LEMMA ListingsStayTyped ==
    ASSUME ConvTyped, NEW l \in Listings,
           \/ \E mode \in {"cursor", "offset"} : OpenListing(l, mode)
           \/ FindPage(l) \/ ReadRows(l) \/ ReadCount(l) \/ ShowPage(l)
    PROVE  /\ listings' \in [Listings -> Listing]
           /\ \A k \in Listings : IsFiniteSet(listings'[k].rows)
<1> DEFINE q == listings[l]
<1>0. /\ listings \in [Listings -> Listing] /\ q \in Listing
      /\ \A k \in Listings : IsFiniteSet(listings[k].rows)
      /\ messages \subseteq Message /\ IsFiniteSet(messages)
  BY DEF ConvTyped, ConvTypeOK
\* One listing becomes another one.
<1>a. ASSUME NEW r \in Listing, IsFiniteSet(r.rows), listings' = [listings EXCEPT ![l] = r]
      PROVE  /\ listings' \in [Listings -> Listing]
             /\ \A k \in Listings : IsFiniteSet(listings'[k].rows)
  BY <1>0, <1>a
<1>1. ASSUME NEW mode \in {"cursor", "offset"}, OpenListing(l, mode)
      PROVE  /\ listings' \in [Listings -> Listing]
             /\ \A k \in Listings : IsFiniteSet(listings'[k].rows)
  <2> DEFINE r == [NoListing EXCEPT !.pc = "next", !.mode = mode, !.atStart = messages]
  <2>1. r \in Listing /\ r.rows = {}
    BY <1>0 DEF Listing, NoListing
  <2>2. listings' = [listings EXCEPT ![l] = r]
    BY <1>1 DEF OpenListing
  <2> HIDE DEF r
  <2> QED BY <1>a, <2>1, <2>2, FS_EmptySet
<1>2. CASE FindPage(l)
  <2>1. PICK pc \in {"page", "stopped"}, needs \in SUBSET {"rows", "count"} :
            listings' = [listings EXCEPT ![l] = [q EXCEPT !.pc = pc, !.needs = needs]]
    BY <1>0, <1>2 DEF FindPage
  <2> DEFINE r == [q EXCEPT !.pc = pc, !.needs = needs]
  <2>2. r \in Listing /\ r.rows = q.rows
    BY <1>0 DEF Listing
  <2>3. listings' = [listings EXCEPT ![l] = r]
    BY <2>1
  <2> HIDE DEF r
  <2> QED BY <1>0, <1>a, <2>2, <2>3
<1>3. CASE ReadRows(l)
  <2> DEFINE r == [q EXCEPT !.needs = @ \ {"rows"}, !.rows = PageRows(q)]
  <2>1. PageRows(q) \in SUBSET Message /\ IsFiniteSet(PageRows(q))
    BY <1>0, PageRowsAreMessages
  <2>2. r \in Listing /\ r.rows = PageRows(q)
    BY <1>0, <2>1 DEF Listing
  <2>3. listings' = [listings EXCEPT ![l] = r]
    BY <1>0, <1>3 DEF ReadRows
  <2> HIDE DEF r
  <2> QED BY <1>a, <2>1, <2>2, <2>3
<1>4. CASE ReadCount(l)
  <2> DEFINE r == [q EXCEPT !.needs = @ \ {"count"}, !.total = Cardinality(messages)]
  <2>1. Cardinality(messages) \in Nat
    BY <1>0, FS_CardinalityType
  <2>2. r \in Listing /\ r.rows = q.rows
    BY <1>0, <2>1 DEF Listing
  <2>3. listings' = [listings EXCEPT ![l] = r]
    BY <1>0, <1>4 DEF ReadCount
  <2> HIDE DEF r
  <2> QED BY <1>0, <1>a, <2>2, <2>3
<1>5. CASE ShowPage(l)
  <2> DEFINE data == Oldest(q.rows, PageLimit)
             pc == IF HasNext(q) THEN "next" ELSE "done"
             after == IF HasNext(q) /\ q.mode = "cursor" THEN NextCursor(q.rows) ELSE 0
             repeated == q.repeated \/ q.got \cap data # {}
             r == [q EXCEPT !.pc = pc, !.after = after, !.page = q.page + 1, !.rows = {},
                            !.got = @ \cup data, !.repeated = repeated]
  <2>1. q.rows \in SUBSET Message /\ IsFiniteSet(q.rows)
    BY <1>0 DEF Listing
  <2>2. after \in Nat
    BY <2>1, CursorIsShown DEF HasNext
  <2>3. data \in SUBSET Message
    BY <2>1 DEF Oldest
  <2>4. pc \in {"next", "done"} /\ repeated \in BOOLEAN
    OBVIOUS
  <2>5. q.page + 1 \in Nat /\ q.got \cup data \in SUBSET Message
    BY <1>0, <2>3 DEF Listing
  <2>6. listings' = [listings EXCEPT ![l] = r]
    BY <1>5 DEF ShowPage
  <2> HIDE DEF pc, after, repeated, data
  <2>7. r \in Listing /\ r.rows = {}
    BY <1>0, <2>2, <2>4, <2>5 DEF Listing
  <2> HIDE DEF r
  <2> QED BY <1>a, <2>6, <2>7, FS_EmptySet
<1> QED BY <1>1, <1>2, <1>3, <1>4, <1>5

LEMMA ConvNextTyped == ConvTyped /\ [ConvNext]_convVars => ConvTyped'
<1> SUFFICES ASSUME ConvTyped, [ConvNext]_convVars
             PROVE  ConvTyped'
    OBVIOUS
<1> USE DEF ConvTyped, ConvTypeOK
<1>1. ASSUME NEW given \in {"default", "named"}, CreateConversation(given)
      PROVE  ConvTyped'
  BY <1>1 DEF CreateConversation, Titles
<1>2. ASSUME NEW e \in Editors, NEW op \in {"rename", "delete"}, FindToEdit(e, op)
      PROVE  ConvTyped'
  BY <1>2 DEF FindToEdit, Edit
<1>3. ASSUME NEW e \in Editors, NEW given \in {"default", "named"}, Rename(e, given)
      PROVE  ConvTyped'
  BY <1>3 DEF Rename, Edit, Titles, UnderWay
<1>4. ASSUME NEW e \in Editors, DeleteConversation(e)
      PROVE  ConvTyped'
  BY <1>4, FS_EmptySet DEF DeleteConversation, Edit
<1>5. CASE DeleteDocument
  BY <1>5 DEF DeleteDocument
<1>6. ASSUME NEW t \in Turns,
             \/ FindForTurn(t) \/ ReadHistory(t) \/ Abort(t)
             \/ \E cites \in BOOLEAN : Answer(t, cites)
      PROVE  ConvTyped'
  <2>1. turns' \in [Turns -> Turn]
    BY <1>6, TurnsStayTurns
  <2>2. UNCHANGED <<title, early, messages, cited, clock, document, edits, listings>>
    BY <1>6 DEF FindForTurn, ReadHistory, Abort, Answer
  <2> QED BY <2>1, <2>2
<1>7. ASSUME NEW t \in Turns, StampQuestion(t) \/ StampAnswer(t)
      PROVE  ConvTyped'
  <2>1. turns' \in [Turns -> Turn]
    BY <1>7, TurnsStayTurns
  <2>2. clock' = clock + 1
        /\ UNCHANGED <<title, early, messages, cited, document, edits, listings>>
    BY <1>7 DEF StampQuestion, StampAnswer, Stamp
  <2>3. clock' \in Nat
    BY <2>2
  <2> QED BY <2>1, <2>2, <2>3
<1>8. ASSUME NEW t \in Turns, StoreQuestion(t) \/ StoreAnswer(t)
      PROVE  ConvTyped'
  <2>1. turns' \in [Turns -> Turn]
    BY <1>8, TurnsStayTurns
  <2>2. /\ UNCHANGED <<title, early, clock, document, edits>>
        /\ cited' \in {cited, cited \cup {t}}
    BY <1>8 DEF StoreQuestion, StoreAnswer
  <2>3. \/ UNCHANGED <<messages, listings>>
        \/ \E role \in {"USER", "ASSISTANT"} :
              Add([turn |-> t, role |-> role, at |-> turns[t].at])
    BY <1>8 DEF StoreQuestion, StoreAnswer
  <2>4. turns[t].at \in Nat
    BY DEF Turn
  <2>5. \A role \in {"USER", "ASSISTANT"} :
            [turn |-> t, role |-> role, at |-> turns[t].at] \in Message
    BY <2>4 DEF Message
  <2>6. /\ messages' \subseteq Message /\ IsFiniteSet(messages')
        /\ listings' \in [Listings -> Listing]
        /\ \A l \in Listings : IsFiniteSet(listings'[l].rows)
    BY <2>3, <2>5, AddKeepsTypes
  <2> QED BY <2>1, <2>2, <2>6
<1>9. ASSUME NEW t \in Turns, SetTitle(t)
      PROVE  ConvTyped'
  <2>1. turns' \in [Turns -> Turn]
    BY <1>9, TurnsStayTurns
  <2> QED BY <1>9, <2>1 DEF SetTitle, Titles
<1>10. ASSUME NEW l \in Listings,
              \/ \E mode \in {"cursor", "offset"} : OpenListing(l, mode)
              \/ FindPage(l) \/ ReadRows(l) \/ ReadCount(l) \/ ShowPage(l)
       PROVE  ConvTyped'
  <2>1. /\ listings' \in [Listings -> Listing]
        /\ \A k \in Listings : IsFiniteSet(listings'[k].rows)
    BY <1>10, ListingsStayTyped
  <2>2. UNCHANGED <<title, early, messages, cited, clock, document, turns, edits>>
    BY <1>10 DEF OpenListing, FindPage, ReadRows, ReadCount, ShowPage
  <2> QED BY <2>1, <2>2
<1>11. CASE UNCHANGED convVars
  BY <1>11 DEF convVars
<1> QED
  BY <1>1, <1>2, <1>3, <1>4, <1>5, <1>6, <1>7, <1>8, <1>9, <1>10, <1>11 DEF ConvNext

\* The type invariant, for any number of turns, edits and listings.
THEOREM ConvTypeCorrect == ConvSpec => []ConvTypeOK
<1>1. ConvTyped => ConvTypeOK
  BY DEF ConvTyped
<1> QED BY ConvInitTyped, ConvNextTyped, <1>1, PTL DEF ConvSpec
----------------------------------------------------------------------------
\* Turns

Stamped(t) == turns[t].pc \in {"commit", "store"}

\* Every message has a time of its own, and so has one on its way.
StampsAreUnique ==
    /\ \A m \in messages : m.at <= clock
    /\ \A m, k \in messages : m.at = k.at => m = k
    /\ \A t \in Turns : turns[t].at <= clock
    /\ \A t \in Turns, m \in messages : Stamped(t) => m.at # turns[t].at
    /\ \A t, u \in Turns : Stamped(t) /\ Stamped(u) /\ turns[t].at = turns[u].at => t = u

\* What a step of a turn leaves alone, of it and of the others.
Same(t) == /\ turns'[t].at = turns[t].at /\ turns'[t].title = turns[t].title
           /\ turns'[t].history = turns[t].history /\ turns'[t].cites = turns[t].cites
           /\ turns'[t].before = turns[t].before

Others(t) == \A u \in Turns : u # t => turns'[u] = turns[u]

LEMMA FindStep ==
    ASSUME turns \in [Turns -> Turn], NEW t \in Turns, FindForTurn(t)
    PROVE  /\ Others(t)
           /\ turns[t].pc = "idle" /\ turns'[t].at = turns[t].at
           /\ \/ turns'[t].pc = "failed"
              \/ /\ turns'[t].pc = "history" /\ turns'[t].title = title
                 /\ turns'[t].before = messages
<1>1. CASE Live
  BY <1>1 DEF FindForTurn, In, Turn, Others
<1>2. CASE ~Live
  BY <1>2 DEF FindForTurn, Fail, In, Turn, Others
<1> QED BY <1>1, <1>2

LEMMA ReadStep ==
    ASSUME turns \in [Turns -> Turn], NEW t \in Turns, ReadHistory(t)
    PROVE  /\ Others(t)
           /\ turns[t].pc = "history" /\ turns'[t].pc = "question"
           /\ turns'[t].at = turns[t].at /\ turns'[t].title = turns[t].title
           /\ turns'[t].history = Youngest(messages, HistoryLimit)
           /\ turns'[t].before = turns[t].before
BY DEF ReadHistory, In, Turn, Others

LEMMA StampStep ==
    ASSUME turns \in [Turns -> Turn], NEW t \in Turns, NEW from, NEW to, Stamp(t, from, to)
    PROVE  /\ Others(t)
           /\ turns[t].pc = from /\ turns'[t].pc = to /\ turns'[t].at = clock + 1
           /\ turns'[t].title = turns[t].title /\ turns'[t].history = turns[t].history
           /\ turns'[t].cites = turns[t].cites /\ turns'[t].before = turns[t].before
BY DEF Stamp, In, Turn, Others

LEMMA AnswerStep ==
    ASSUME turns \in [Turns -> Turn], NEW t \in Turns, NEW cites \in BOOLEAN, Answer(t, cites)
    PROVE  /\ Others(t)
           /\ turns[t].pc = "query" /\ turns'[t].pc = "answer"
           /\ turns'[t].at = turns[t].at /\ turns'[t].title = turns[t].title
           /\ turns'[t].history = turns[t].history /\ turns'[t].before = turns[t].before
BY DEF Answer, In, Turn, Others

LEMMA EndStep ==
    ASSUME turns \in [Turns -> Turn], NEW t \in Turns, NEW pc,
           turns' = [turns EXCEPT ![t].pc = pc]
    PROVE  Others(t) /\ Same(t) /\ turns'[t].pc = pc
BY DEF Turn, Others, Same

\* Storing a row either fails the turn, with nothing stored, or moves it on.
LEMMA QuestionStep ==
    ASSUME turns \in [Turns -> Turn], NEW t \in Turns, StoreQuestion(t)
    PROVE  /\ Others(t) /\ Same(t) /\ turns[t].pc = "commit"
           /\ \/ turns'[t].pc = "failed" /\ UNCHANGED <<messages, listings>>
              \/ /\ turns'[t].pc = "query" /\ Live
                 /\ Add([turn |-> t, role |-> "USER", at |-> turns[t].at])
<1>1. CASE Live
  <2>1. turns' = [turns EXCEPT ![t].pc = "query"]
    BY <1>1 DEF StoreQuestion
  <2> QED BY <1>1, <2>1, EndStep DEF StoreQuestion, In
<1>2. CASE ~Live
  <2>1. turns' = [turns EXCEPT ![t].pc = "failed"]
    BY <1>2 DEF StoreQuestion, Fail
  <2> QED BY <1>2, <2>1, EndStep DEF StoreQuestion, In
<1> QED BY <1>1, <1>2

LEMMA AssistantStep ==
    ASSUME turns \in [Turns -> Turn], NEW t \in Turns, StoreAnswer(t)
    PROVE  /\ Others(t) /\ Same(t) /\ turns[t].pc = "store"
           /\ \/ turns'[t].pc = "failed" /\ UNCHANGED <<messages, cited, listings>>
              \/ /\ turns'[t].pc = "replied" \/ (turns'[t].pc = "title" /\ Untitled(t))
                 /\ Live /\ Add([turn |-> t, role |-> "ASSISTANT", at |-> turns[t].at])
                 /\ cited \subseteq cited' /\ (turns[t].cites => t \in cited')
<1>1. CASE Live /\ (turns[t].cites => document)
  <2>1. PICK pc \in {"title", "replied"} :
          turns' = [turns EXCEPT ![t].pc = pc] /\ (pc = "title" => Untitled(t))
    BY <1>1 DEF StoreAnswer
  <2>2. /\ turns[t].pc = "store"
        /\ Add([turn |-> t, role |-> "ASSISTANT", at |-> turns[t].at])
        /\ cited \subseteq cited' /\ (turns[t].cites => t \in cited')
    BY <1>1 DEF StoreAnswer, In
  <2>3. Others(t) /\ Same(t) /\ turns'[t].pc = pc
    BY <2>1, EndStep
  <2> QED BY <1>1, <2>1, <2>2, <2>3
<1>2. CASE ~(Live /\ (turns[t].cites => document))
  <2>1. turns' = [turns EXCEPT ![t].pc = "failed"]
    BY <1>2 DEF StoreAnswer, Fail
  <2> QED BY <1>2, <2>1, EndStep DEF StoreAnswer, In
<1> QED BY <1>1, <1>2

\* Only these steps touch a turn.
LEMMA OnlyTurnSteps ==
    ASSUME [ConvNext]_convVars
    PROVE  \/ UNCHANGED turns
           \/ \E t \in Turns :
                 \/ FindForTurn(t) \/ ReadHistory(t) \/ StampQuestion(t) \/ StampAnswer(t)
                 \/ StoreQuestion(t) \/ StoreAnswer(t) \/ SetTitle(t) \/ Abort(t)
                 \/ \E cites \in BOOLEAN : Answer(t, cites)
BY DEF ConvNext, CreateConversation, FindToEdit, Rename, DeleteConversation, DeleteDocument,
       OpenListing, FindPage, ReadRows, ReadCount, ShowPage, convVars

LEMMA NextStampsAreUnique ==
    ASSUME ConvTyped, StampsAreUnique, [ConvNext]_convVars
    PROVE  StampsAreUnique'
<1>0. /\ turns \in [Turns -> Turn] /\ messages \subseteq Message /\ clock \in Nat
      /\ \A t \in Turns : turns[t].at \in Nat
      /\ \A m \in messages : m.at \in Nat
  BY DEF ConvTyped, ConvTypeOK, Turn, Message
<1> USE DEF StampsAreUnique, Stamped
\* Steps that give no stamp and store no row.
<1>a. ASSUME messages' \subseteq messages, clock' = clock,
             \A t \in Turns : turns'[t].at = turns[t].at /\ (Stamped(t)' => Stamped(t))
      PROVE  StampsAreUnique'
  BY <1>0, <1>a
<1>1. ASSUME UNCHANGED <<turns, messages, clock>>
      PROVE  StampsAreUnique'
  BY <1>0, <1>1
<1>2. ASSUME NEW e \in Editors, DeleteConversation(e)
      PROVE  StampsAreUnique'
  BY <1>a, <1>2 DEF DeleteConversation
<1>3. ASSUME NEW t \in Turns, UNCHANGED <<messages, clock>>, Others(t),
             turns'[t].at = turns[t].at, ~Stamped(t)'
      PROVE  StampsAreUnique'
  BY <1>a, <1>3 DEF Others
<1>b. ASSUME NEW t \in Turns, FindForTurn(t)
      PROVE  StampsAreUnique'
  BY <1>0, <1>3, <1>b, FindStep DEF FindForTurn
<1>c. ASSUME NEW t \in Turns, ReadHistory(t)
      PROVE  StampsAreUnique'
  BY <1>0, <1>3, <1>c, ReadStep DEF ReadHistory
<1>d. ASSUME NEW t \in Turns, NEW cites \in BOOLEAN, Answer(t, cites)
      PROVE  StampsAreUnique'
  BY <1>0, <1>3, <1>d, AnswerStep DEF Answer
<1>e. ASSUME NEW t \in Turns, SetTitle(t)
      PROVE  StampsAreUnique'
  BY <1>0, <1>3, <1>e, EndStep DEF SetTitle, Same
<1>f. ASSUME NEW t \in Turns, Abort(t)
      PROVE  StampsAreUnique'
  BY <1>0, <1>3, <1>f, EndStep DEF Abort, Fail, Same
<1>4. ASSUME NEW t \in Turns, NEW from, NEW to, Stamp(t, from, to)
      PROVE  StampsAreUnique'
  <2>1. messages' = messages /\ clock' = clock + 1
    BY <1>4 DEF Stamp
  <2>2. Others(t) /\ turns'[t].at = clock + 1
    BY <1>0, <1>4, StampStep
  <2> QED BY <1>0, <2>1, <2>2 DEF Others
<1>5. ASSUME NEW t \in Turns, Stamped(t),
             UNCHANGED messages \/ \E role \in {"USER", "ASSISTANT"} :
                messages' = messages \cup {[turn |-> t, role |-> role, at |-> turns[t].at]},
             clock' = clock, \A u \in Turns : u # t => turns'[u] = turns[u],
             turns'[t].at = turns[t].at, ~Stamped(t)'
      PROVE  StampsAreUnique'
  <2>1. CASE UNCHANGED messages
    BY <1>a, <1>5, <2>1
  <2>2. CASE ~ UNCHANGED messages
    <3>1. PICK role \in {"USER", "ASSISTANT"} :
            messages' = messages \cup {[turn |-> t, role |-> role, at |-> turns[t].at]}
      BY <1>5, <2>2
    <3> DEFINE new == [turn |-> t, role |-> role, at |-> turns[t].at]
    <3>2. messages' = messages \cup {new} /\ new.at = turns[t].at
      BY <3>1
    <3> HIDE DEF new
    <3>3. \A m \in messages' : m \in messages \/ m = new
      BY <3>2
    <3> QED BY <1>0, <1>5, <3>2, <3>3
  <2> QED BY <2>1, <2>2
<1>6. ASSUME NEW t \in Turns, StoreQuestion(t) \/ StoreAnswer(t)
      PROVE  StampsAreUnique'
  <2>1. UNCHANGED messages \/ \E role \in {"USER", "ASSISTANT"} :
          messages' = messages \cup {[turn |-> t, role |-> role, at |-> turns[t].at]}
    BY <1>6 DEF StoreQuestion, StoreAnswer, Add
  <2>2. clock' = clock
    BY <1>6 DEF StoreQuestion, StoreAnswer
  <2>3. CASE StoreQuestion(t)
    BY <1>0, <1>5, <2>1, <2>2, <2>3, QuestionStep DEF Same, Others
  <2>4. CASE StoreAnswer(t)
    BY <1>0, <1>5, <2>1, <2>2, <2>4, AssistantStep DEF Same, Others
  <2> QED BY <1>6, <2>3, <2>4
<1> QED
  BY <1>1, <1>2, <1>b, <1>c, <1>d, <1>e, <1>f, <1>4, <1>6
     DEF ConvNext, StampQuestion, StampAnswer, CreateConversation, FindToEdit, Rename,
         DeleteDocument, OpenListing, FindPage, ReadRows, ReadCount, ShowPage, convVars

\* Before there is a conversation nobody has found it.
NothingBefore ==
    title = "none" =>
        /\ \A t \in Turns : turns[t].pc = "idle"
        /\ \A l \in Listings : listings[l].pc = "idle"
        /\ \A e \in Editors : edits[e].pc = "idle"

LEMMA NextNothingBefore ==
    ASSUME ConvTyped, NothingBefore, [ConvNext]_convVars
    PROVE  NothingBefore'
<1> USE DEF NothingBefore
<1>1. CASE title # "none"
  <2>1. title \in {"gone"} \cup Titles
    BY <1>1 DEF ConvTyped, ConvTypeOK
  <2>2. title' # "none"
    BY <1>1, <2>1 DEF ConvNext, CreateConversation, FindToEdit, Rename, DeleteConversation,
       DeleteDocument, FindForTurn, ReadHistory, StampQuestion, StampAnswer, Stamp,
       StoreQuestion, Answer, StoreAnswer, SetTitle, Abort, OpenListing, FindPage, ReadRows,
       ReadCount, ShowPage, convVars
  <2> QED BY <2>2
<1>2. CASE title = "none"
  <2>1. \/ \E given \in {"default", "named"} : CreateConversation(given)
        \/ DeleteDocument
        \/ UNCHANGED convVars
    BY <1>2 DEF ConvNext, FindToEdit, Rename, DeleteConversation, FindForTurn, ReadHistory,
       StampQuestion, StampAnswer, Stamp, StoreQuestion, Answer, StoreAnswer, SetTitle, Abort,
       In, OpenListing, Live, FindPage, ReadRows, ReadCount, ShowPage, Paging
  <2> QED BY <1>2, <2>1 DEF CreateConversation, DeleteDocument, convVars
<1> QED BY <1>1, <1>2

\* A turn that read the default title is under way since before the
\* conversation got its name, unless it has ended; only such a turn gives one.
NamedBehindEarly ==
    /\ \A t \in Turns : turns[t].pc = "title" => turns[t].title = "default"
    /\ title = "named" =>
          \A t \in UnderWay : turns[t].title = "default" => t \in early

LEMMA NextNamedBehindEarly ==
    ASSUME ConvTyped, NothingBefore, NamedBehindEarly, [ConvNext]_convVars
    PROVE  NamedBehindEarly'
<1>0. turns \in [Turns -> Turn]
  BY DEF ConvTyped, ConvTypeOK
<1> USE DEF NamedBehindEarly, UnderWay
\* A turn that goes on with the title it read, or ends.
<1>a. ASSUME NEW t \in Turns, Others(t), UNCHANGED <<title, early>>,
             \/ turns'[t].pc \in {"replied", "failed"}
             \/ /\ turns[t].pc \notin {"idle", "replied", "failed"}
                /\ turns'[t].title = turns[t].title
                /\ turns'[t].pc = "title" => Untitled(t)
      PROVE  NamedBehindEarly'
  BY <1>a DEF Others, Untitled
<1>1. ASSUME NEW given, CreateConversation(given)
      PROVE  NamedBehindEarly'
  BY <1>1 DEF CreateConversation, NothingBefore
<1>2. ASSUME NEW e \in Editors, NEW given, Rename(e, given)
      PROVE  NamedBehindEarly'
  BY <1>2 DEF Rename
<1>3. ASSUME NEW e \in Editors, DeleteConversation(e)
      PROVE  NamedBehindEarly'
  BY <1>3 DEF DeleteConversation
<1>4. ASSUME NEW t \in Turns, FindForTurn(t)
      PROVE  NamedBehindEarly'
  <2>1. UNCHANGED <<title, early>>
    BY <1>4 DEF FindForTurn
  <2> QED BY <1>0, <1>4, <2>1, FindStep DEF Others
<1>5. ASSUME NEW t \in Turns, ReadHistory(t)
      PROVE  NamedBehindEarly'
  BY <1>0, <1>a, <1>5, ReadStep DEF ReadHistory
<1>6. ASSUME NEW t \in Turns, NEW from \in {"question", "answer"},
             NEW to \in {"commit", "store"}, Stamp(t, from, to)
      PROVE  NamedBehindEarly'
  <2>1. UNCHANGED <<title, early>>
    BY <1>6 DEF Stamp
  <2>2. /\ Others(t) /\ turns[t].pc = from /\ turns'[t].pc = to
        /\ turns'[t].title = turns[t].title
    BY <1>0, <1>6, StampStep
  <2> QED BY <1>a, <2>1, <2>2
<1>7. ASSUME NEW t \in Turns, StoreQuestion(t)
      PROVE  NamedBehindEarly'
  BY <1>0, <1>a, <1>7, QuestionStep DEF StoreQuestion, Same
<1>8. ASSUME NEW t \in Turns, NEW cites \in BOOLEAN, Answer(t, cites)
      PROVE  NamedBehindEarly'
  BY <1>0, <1>a, <1>8, AnswerStep DEF Answer
<1>9. ASSUME NEW t \in Turns, StoreAnswer(t)
      PROVE  NamedBehindEarly'
  BY <1>0, <1>a, <1>9, AssistantStep DEF StoreAnswer, Same
<1>10. ASSUME NEW t \in Turns, SetTitle(t)
       PROVE  NamedBehindEarly'
  <2>1. Others(t) /\ turns'[t].pc = "replied"
    BY <1>0, <1>10, EndStep DEF SetTitle
  <2>2. title' = "named" => title = "named"
    BY <1>10 DEF SetTitle
  <2>3. early' = early
    BY <1>10 DEF SetTitle
  <2> QED BY <2>1, <2>2, <2>3 DEF Others
<1>11. ASSUME NEW t \in Turns, Abort(t)
       PROVE  NamedBehindEarly'
  BY <1>0, <1>a, <1>11, EndStep DEF Abort, Fail
<1>12. CASE UNCHANGED <<title, early, turns>>
  BY <1>12
<1> QED
  BY <1>1, <1>2, <1>3, <1>4, <1>5, <1>6, <1>7, <1>8, <1>9, <1>10, <1>11, <1>12
     DEF ConvNext, StampQuestion, StampAnswer, FindToEdit, DeleteDocument, OpenListing,
         FindPage, ReadRows, ReadCount,
         ShowPage, convVars

TitleInv == ConvTyped /\ NothingBefore /\ NamedBehindEarly

\* A name a user gave outlives every turn that began after it was given, for
\* any number of turns and renames: NamesOutliveLaterTurns.
THEOREM NamesOutliveLaterTurnsHolds == ConvSpec => NamesOutliveLaterTurns
<1>1. ConvInit => TitleInv
  BY ConvInitTyped
     DEF ConvInit, TitleInv, NothingBefore, NamedBehindEarly, NoTurn, NoEdit, NoListing
<1>2. TitleInv /\ [ConvNext]_convVars => TitleInv'
  BY ConvNextTyped, NextNothingBefore, NextNamedBehindEarly DEF TitleInv
<1>3. TitleInv /\ [ConvNext]_convVars =>
        [\A t \in Turns : title = "named" /\ title' = t => t \in early]_convVars
  <2> SUFFICES ASSUME TitleInv, ConvNext, NEW t \in Turns, title = "named", title' = t
               PROVE  t \in early
      OBVIOUS
  <2>1. t \notin {"none", "default", "named", "gone"}
    OBVIOUS
  <2>2. PICK u \in Turns : SetTitle(u)
    BY <2>1 DEF ConvNext, CreateConversation, FindToEdit, Rename, DeleteConversation,
       DeleteDocument, FindForTurn, ReadHistory, StampQuestion, StampAnswer, Stamp,
       StoreQuestion, Answer, StoreAnswer, Abort, OpenListing, FindPage, ReadRows,
       ReadCount, ShowPage
  <2>3. u = t /\ turns[t].pc = "title"
    BY <2>1, <2>2 DEF SetTitle, In
  <2> QED BY <2>3 DEF TitleInv, NamedBehindEarly, UnderWay
<1> QED BY <1>1, <1>2, <1>3, PTL DEF ConvSpec, NamesOutliveLaterTurns
----------------------------------------------------------------------------
\* A turn past its question has it in the conversation, after all that its
\* prompt was built from, and its answer after it.
Asked(t) ==
    \E q \in messages :
        /\ q.turn = t /\ q.role = "USER"
        /\ \A m \in turns[t].history : m.at < q.at
        /\ turns[t].pc = "store" => q.at < turns[t].at
        /\ turns[t].pc \in {"title", "replied"} =>
              \E a \in messages : a.turn = t /\ a.role = "ASSISTANT" /\ q.at < a.at

Recalling == {"question", "commit", "query", "answer", "store", "title", "replied"}

TurnIsWhole(t) ==
    /\ Live /\ turns[t].pc = "history" => turns[t].before \subseteq messages
    /\ Live /\ turns[t].pc \in Recalling => Recalled(t)
    /\ turns[t].pc = "question" => \A m \in turns[t].history : m.at <= clock
    /\ turns[t].pc = "commit" => \A m \in turns[t].history : m.at < turns[t].at
    /\ Live /\ turns[t].pc \in {"query", "answer", "store", "title", "replied"} => Asked(t)
    /\ Live /\ turns[t].pc \in {"title", "replied"} /\ turns[t].cites =>
          t \in cited \/ ~document

\* What a step does to the conversation under a turn that does not move.
LEMMA WorldStep ==
    ASSUME ConvTyped, NothingBefore, [ConvNext]_convVars
    PROVE  /\ Live' => Live \/ \A t \in Turns : turns[t].pc = "idle"
           /\ Live' => messages \subseteq messages'
           /\ clock' \in {clock, clock + 1}
           /\ Live' /\ document' => document /\ cited \subseteq cited'
<1>1. Live' => Live \/ \A t \in Turns : turns[t].pc = "idle"
  <2>1. CASE title = "none"
    BY <2>1 DEF NothingBefore
  <2>2. CASE title = "gone"
    BY <2>2 DEF ConvNext, CreateConversation, FindToEdit, Rename, DeleteConversation,
       DeleteDocument, FindForTurn, ReadHistory, StampQuestion, StampAnswer, Stamp,
       StoreQuestion, Answer, StoreAnswer, SetTitle, Abort, OpenListing, FindPage, ReadRows,
       ReadCount, ShowPage, convVars, Live
  <2> QED BY <2>1, <2>2 DEF Live
<1>2. Live' => messages \subseteq messages'
  BY DEF ConvNext, CreateConversation, FindToEdit, Rename, DeleteConversation,
     DeleteDocument, FindForTurn, ReadHistory, StampQuestion, StampAnswer, Stamp,
     StoreQuestion, Answer, StoreAnswer, SetTitle, Abort, OpenListing, FindPage, ReadRows,
     ReadCount, ShowPage, convVars, Live, Add
<1>3. clock' \in {clock, clock + 1}
  BY DEF ConvNext, CreateConversation, FindToEdit, Rename, DeleteConversation,
     DeleteDocument, FindForTurn, ReadHistory, StampQuestion, StampAnswer, Stamp,
     StoreQuestion, Answer, StoreAnswer, SetTitle, Abort, OpenListing, FindPage, ReadRows,
     ReadCount, ShowPage, convVars
<1>4. Live' /\ document' => document /\ cited \subseteq cited'
  BY DEF ConvNext, CreateConversation, FindToEdit, Rename, DeleteConversation,
     DeleteDocument, FindForTurn, ReadHistory, StampQuestion, StampAnswer, Stamp,
     StoreQuestion, Answer, StoreAnswer, SetTitle, Abort, OpenListing, FindPage, ReadRows,
     ReadCount, ShowPage, convVars, Live
<1> QED BY <1>1, <1>2, <1>3, <1>4

TurnInv ==
    /\ ConvTyped /\ NothingBefore /\ StampsAreUnique
    /\ \A t \in Turns : TurnIsWhole(t)

\* What was recalled stays so.
LEMMA RecalledStays ==
    ASSUME NEW t \in Turns, Recalled(t), messages \subseteq messages',
           turns'[t].history = turns[t].history, turns'[t].before = turns[t].before
    PROVE  Recalled(t)'
BY DEF Recalled

\* A turn that does not move, or only ends its title's step, stays whole.
LEMMA StillTurnIsWhole ==
    ASSUME TurnInv, [ConvNext]_convVars, NEW t \in Turns, Same(t),
           turns'[t].pc = turns[t].pc \/ (turns[t].pc = "title" /\ turns'[t].pc = "replied")
    PROVE  TurnIsWhole(t)'
<1>0. /\ Live' => Live \/ turns[t].pc = "idle"
      /\ Live' => messages \subseteq messages'
      /\ Live' /\ document' => document /\ cited \subseteq cited'
  BY WorldStep DEF TurnInv
<1>1. /\ clock' \in {clock, clock + 1} /\ clock \in Nat
      /\ \A m \in turns[t].history : m.at \in Nat
  BY WorldStep DEF TurnInv, ConvTyped, ConvTypeOK, Turn, Message
<1>2. /\ turns'[t].at = turns[t].at /\ turns'[t].history = turns[t].history
      /\ turns'[t].cites = turns[t].cites /\ turns'[t].before = turns[t].before
  BY DEF Same
<1>3. TurnIsWhole(t)
  BY DEF TurnInv
<1>4. Live' /\ Asked(t) => Asked(t)'
  BY <1>0, <1>2 DEF Asked
<1>5. turns'[t].pc = "question" => \A m \in turns'[t].history : m.at <= clock'
  BY <1>1, <1>2, <1>3 DEF TurnIsWhole
<1>6. turns'[t].pc = "commit" => \A m \in turns'[t].history : m.at < turns'[t].at
  BY <1>2, <1>3 DEF TurnIsWhole
<1>7. Live' /\ turns'[t].pc \in {"query", "answer", "store", "title", "replied"} => Asked(t)'
  BY <1>0, <1>3, <1>4 DEF TurnIsWhole
<1>8. Live' /\ turns'[t].pc \in {"title", "replied"} /\ turns'[t].cites => t \in cited' \/ ~document'
  BY <1>0, <1>2, <1>3 DEF TurnIsWhole
<1>9. Live' /\ turns'[t].pc = "history" => turns'[t].before \subseteq messages'
  BY <1>0, <1>2, <1>3 DEF TurnIsWhole
<1>10. Live' /\ turns'[t].pc \in Recalling => Recalled(t)'
  BY <1>0, <1>2, <1>3, RecalledStays DEF TurnIsWhole, Recalling
<1> QED BY <1>5, <1>6, <1>7, <1>8, <1>9, <1>10 DEF TurnIsWhole

\* A turn that moves becomes or stays whole.
LEMMA MovedTurnIsWhole ==
    ASSUME TurnInv, [ConvNext]_convVars, NEW t \in Turns,
           \/ FindForTurn(t) \/ ReadHistory(t) \/ StampQuestion(t) \/ StampAnswer(t)
           \/ StoreQuestion(t) \/ StoreAnswer(t) \/ SetTitle(t) \/ Abort(t)
           \/ \E cites \in BOOLEAN : Answer(t, cites)
    PROVE  TurnIsWhole(t)' /\ Others(t)
<1>0. /\ turns \in [Turns -> Turn] /\ messages \subseteq Message /\ clock \in Nat
      /\ turns[t].at \in Nat /\ turns[t].history \subseteq Message
      /\ \A m \in Message : m.at \in Nat
      /\ \A m \in messages : m.at <= clock
      /\ TurnIsWhole(t)
  BY DEF TurnInv, ConvTyped, ConvTypeOK, Turn, Message, StampsAreUnique
<1> USE DEF TurnIsWhole, Recalling
<1>1. CASE FindForTurn(t)
  <2>1. messages' = messages
    BY <1>1 DEF FindForTurn
  <2> QED BY <1>0, <1>1, <2>1, FindStep DEF Recalling
<1>2. CASE ReadHistory(t)
  <2>1. clock' = clock /\ messages' = messages /\ title' = title
    BY <1>2 DEF ReadHistory
  <2>2. Youngest(messages, HistoryLimit) \subseteq messages
    BY DEF Youngest
  <2>3. /\ Others(t) /\ turns[t].pc = "history" /\ turns'[t].pc = "question"
        /\ turns'[t].history = Youngest(messages, HistoryLimit)
        /\ turns'[t].before = turns[t].before
    BY <1>0, <1>2, ReadStep
  <2>4. Live' => Recalled(t)'
    <3> SUFFICES ASSUME Live', NEW m \in turns[t].before, m \notin Youngest(messages, HistoryLimit)
                 PROVE  Cardinality({o \in Youngest(messages, HistoryLimit) : o.at > m.at})
                          >= HistoryLimit
        BY <2>1, <2>2, <2>3 DEF Recalled
    <3>1. m \in messages
      BY <1>0, <2>1, <2>3 DEF Live
    <3>2. IsFiniteSet(messages) /\ HistoryLimit \in Nat
      BY ConversationsAssumption DEF TurnInv, ConvTyped
    <3> QED BY <1>0, <3>1, <3>2, YoungestAreMany
  <2> QED BY <1>0, <2>1, <2>2, <2>3, <2>4
<1>3. CASE StampQuestion(t)
  <2>1. /\ Others(t) /\ turns[t].pc = "question" /\ turns'[t].pc = "commit"
        /\ turns'[t].at = clock + 1 /\ turns'[t].history = turns[t].history
        /\ turns'[t].before = turns[t].before
    BY <1>0, <1>3, StampStep DEF StampQuestion
  <2>2. \A m \in turns[t].history : m.at <= clock /\ m.at \in Nat
    BY <1>0, <2>1
  <2>3. messages' = messages /\ title' = title
    BY <1>3 DEF StampQuestion, Stamp
  <2>4. Live' => Recalled(t)'
    BY <1>0, <2>1, <2>3, RecalledStays DEF Live
  <2> QED BY <1>0, <2>1, <2>2, <2>4
<1>4. CASE StampAnswer(t)
  <2>1. /\ Others(t) /\ turns[t].pc = "answer" /\ turns'[t].pc = "store"
        /\ turns'[t].at = clock + 1 /\ turns'[t].history = turns[t].history
        /\ turns'[t].before = turns[t].before
    BY <1>0, <1>4, StampStep DEF StampAnswer
  <2>2. messages' = messages /\ title' = title
    BY <1>4 DEF StampAnswer, Stamp
  <2>3. Asked(t) => Asked(t)'
    BY <1>0, <2>1, <2>2 DEF Asked
  <2>4. Live' => Recalled(t)'
    BY <1>0, <2>1, <2>2, RecalledStays DEF Live
  <2> QED BY <1>0, <2>1, <2>2, <2>3, <2>4 DEF Live
<1>5. CASE StoreQuestion(t)
  <2>1. /\ Others(t) /\ Same(t) /\ turns[t].pc = "commit"
        /\ \/ turns'[t].pc = "failed"
           \/ /\ turns'[t].pc = "query"
              /\ Live /\ Add([turn |-> t, role |-> "USER", at |-> turns[t].at])
    BY <1>0, <1>5, QuestionStep
  <2>2. CASE turns'[t].pc = "failed"
    BY <2>1, <2>2
  <2>3. CASE turns'[t].pc = "query"
    <3> DEFINE q == [turn |-> t, role |-> "USER", at |-> turns[t].at]
    <3>1. q \in messages'
      BY <2>1, <2>3 DEF Add
    <3>2. q.turn = t /\ q.role = "USER" /\ \A m \in turns'[t].history : m.at < q.at
      BY <1>0, <2>1 DEF Same
    <3>3. Asked(t)'
      BY <2>3, <3>1, <3>2 DEF Asked
    <3>4. Recalled(t)'
      BY <1>0, <2>1, <2>3, RecalledStays DEF Same, Add
    <3> QED BY <2>1, <2>3, <3>3, <3>4
  <2> QED BY <2>1, <2>2, <2>3
<1>6. CASE StoreAnswer(t)
  <2>1. /\ Others(t) /\ Same(t) /\ turns[t].pc = "store"
        /\ \/ turns'[t].pc = "failed"
           \/ /\ turns'[t].pc \in {"title", "replied"} /\ Live
              /\ Add([turn |-> t, role |-> "ASSISTANT", at |-> turns[t].at])
              /\ cited \subseteq cited' /\ (turns[t].cites => t \in cited')
    BY <1>0, <1>6, AssistantStep
  <2>2. CASE turns'[t].pc = "failed"
    BY <2>1, <2>2
  <2>3. CASE turns'[t].pc # "failed"
    <3> DEFINE a == [turn |-> t, role |-> "ASSISTANT", at |-> turns[t].at]
    <3>1. messages' = messages \cup {a}
      BY <2>1, <2>3 DEF Add
    <3>2. PICK q \in messages :
            /\ q.turn = t /\ q.role = "USER" /\ q.at < turns[t].at
            /\ \A m \in turns[t].history : m.at < q.at
      BY <1>0, <2>1, <2>3 DEF Asked
    <3>3. a \in messages' /\ a.turn = t /\ a.role = "ASSISTANT" /\ q.at < a.at
      BY <3>1, <3>2
    <3>4. Asked(t)'
      BY <2>1, <2>3, <3>1, <3>2, <3>3 DEF Asked, Same
    <3>5. Recalled(t)'
      BY <1>0, <2>1, <2>3, <3>1, RecalledStays DEF Same
    <3> QED BY <2>1, <2>3, <3>4, <3>5 DEF Same
  <2> QED BY <2>1, <2>2, <2>3
<1>7. CASE SetTitle(t)
  <2>1. turns[t].pc = "title" /\ turns' = [turns EXCEPT ![t].pc = "replied"]
    BY <1>7 DEF SetTitle, In
  <2>2. Others(t) /\ Same(t) /\ turns'[t].pc = "replied"
    BY <1>0, <2>1, EndStep
  <2> QED BY <2>1, <2>2, StillTurnIsWhole
<1>8. CASE Abort(t)
  <2>1. turns' = [turns EXCEPT ![t].pc = "failed"]
    BY <1>8 DEF Abort, Fail
  <2>2. Others(t) /\ Same(t) /\ turns'[t].pc = "failed"
    BY <1>0, <2>1, EndStep
  <2> QED BY <1>8, <2>2 DEF Abort
<1>9. CASE \E cites \in BOOLEAN : Answer(t, cites)
  <2>1. /\ Others(t) /\ turns[t].pc = "query" /\ turns'[t].pc = "answer"
        /\ turns'[t].history = turns[t].history /\ turns'[t].before = turns[t].before
    BY <1>0, <1>9, AnswerStep
  <2>2. messages' = messages /\ title' = title
    BY <1>9 DEF Answer
  <2>3. Asked(t) => Asked(t)'
    BY <2>1, <2>2 DEF Asked
  <2>4. Live' => Recalled(t)'
    BY <1>0, <2>1, <2>2, RecalledStays DEF Live
  <2> QED BY <1>0, <2>1, <2>2, <2>3, <2>4 DEF Live
<1> QED BY <1>1, <1>2, <1>3, <1>4, <1>5, <1>6, <1>7, <1>8, <1>9

LEMMA TurnInitInv == ConvInit => TurnInv
<1> SUFFICES ASSUME ConvInit PROVE TurnInv
    OBVIOUS
<1>1. /\ messages = {} /\ clock = 0 /\ \A t \in Turns : turns[t].pc = "idle" /\ turns[t].at = 0
      /\ \A l \in Listings : listings[l].pc = "idle"
      /\ \A e \in Editors : edits[e].pc = "idle"
  BY DEF ConvInit, NoTurn, NoListing, NoEdit
<1> QED
  BY <1>1, ConvInitTyped DEF TurnInv, NothingBefore, StampsAreUnique, Stamped, TurnIsWhole,
     Recalling

LEMMA TurnNextInv == TurnInv /\ [ConvNext]_convVars => TurnInv'
<1> SUFFICES ASSUME TurnInv, [ConvNext]_convVars
             PROVE  TurnInv'
    OBVIOUS
<1>1. ConvTyped' /\ NothingBefore' /\ StampsAreUnique'
  BY ConvNextTyped, NextNothingBefore, NextStampsAreUnique DEF TurnInv
<1>2. CASE UNCHANGED turns
  <2>1. \A t \in Turns : TurnIsWhole(t)'
    BY <1>2, StillTurnIsWhole DEF Same
  <2> QED BY <1>1, <2>1 DEF TurnInv
<1>3. ASSUME NEW t \in Turns,
             \/ FindForTurn(t) \/ ReadHistory(t) \/ StampQuestion(t) \/ StampAnswer(t)
             \/ StoreQuestion(t) \/ StoreAnswer(t) \/ SetTitle(t) \/ Abort(t)
             \/ \E cites \in BOOLEAN : Answer(t, cites)
      PROVE  TurnInv'
  <2>1. TurnIsWhole(t)' /\ Others(t)
    BY <1>3, MovedTurnIsWhole
  <2>2. \A u \in Turns : u # t => TurnIsWhole(u)'
    BY <2>1, StillTurnIsWhole DEF Same, Others
  <2> QED BY <1>1, <2>1, <2>2 DEF TurnInv
<1> QED BY <1>2, <1>3, OnlyTurnSteps

\* Whatever is deleted in the middle of a turn, a turn that was answered has
\* its question and its answer in order, and the answer its sources; its prompt
\* was built from messages before its question, of which those that were there
\* when the turn began are missing only behind HistoryLimit younger ones. For
\* any number of turns and any limit: AnsweredTurnsAreWhole.
THEOREM AnsweredTurnsAreWholeHolds == ConvSpec => []AnsweredTurnsAreWhole
<1>1. TurnInv => AnsweredTurnsAreWhole
  BY DEF TurnInv, TurnIsWhole, Recalling, Asked, AnsweredTurnsAreWhole
<1> QED BY TurnInitInv, TurnNextInv, <1>1, PTL DEF ConvSpec
----------------------------------------------------------------------------
\* Listings

\* Every createdAt is after the cursor of a first page.
StampsArePositive ==
    /\ \A m \in messages : m.at > 0
    /\ \A t \in Turns : Stamped(t) => turns[t].at > 0

LEMMA NextStampsArePositive ==
    ASSUME ConvTyped, StampsArePositive, [ConvNext]_convVars
    PROVE  StampsArePositive'
<1>0. /\ turns \in [Turns -> Turn] /\ clock \in Nat
  BY DEF ConvTyped, ConvTypeOK
<1> USE DEF StampsArePositive, Stamped
<1>1. CASE UNCHANGED <<turns, messages>>
  BY <1>1
<1>2. ASSUME NEW e \in Editors, DeleteConversation(e)
      PROVE  StampsArePositive'
  BY <1>2 DEF DeleteConversation
<1>3. ASSUME NEW t \in Turns, UNCHANGED messages, Others(t),
             turns'[t].pc \notin {"commit", "store"} \/ turns'[t].at > 0
      PROVE  StampsArePositive'
  BY <1>3 DEF Others
<1>4. ASSUME NEW t \in Turns,
             FindForTurn(t) \/ ReadHistory(t) \/ \E cites \in BOOLEAN : Answer(t, cites)
      PROVE  StampsArePositive'
  <2>1. UNCHANGED messages
    BY <1>4 DEF FindForTurn, ReadHistory, Answer
  <2> QED BY <1>0, <1>3, <1>4, <2>1, FindStep, ReadStep, AnswerStep
<1>5. ASSUME NEW t \in Turns, SetTitle(t) \/ Abort(t)
      PROVE  StampsArePositive'
  <2>1. UNCHANGED messages
    BY <1>5 DEF SetTitle, Abort
  <2>2. PICK pc \in {"replied", "failed"} : turns' = [turns EXCEPT ![t].pc = pc]
    BY <1>5 DEF SetTitle, Abort, Fail
  <2> QED BY <1>0, <1>3, <2>1, <2>2, EndStep
<1>6. ASSUME NEW t \in Turns, NEW from, NEW to, Stamp(t, from, to)
      PROVE  StampsArePositive'
  <2>1. UNCHANGED messages /\ clock + 1 > 0
    BY <1>0, <1>6 DEF Stamp
  <2>2. Others(t) /\ turns'[t].at = clock + 1
    BY <1>0, <1>6, StampStep
  <2> QED BY <1>3, <2>1, <2>2
<1>7. ASSUME NEW t \in Turns, StoreQuestion(t) \/ StoreAnswer(t)
      PROVE  StampsArePositive'
  <2>1. /\ Others(t) /\ turns[t].pc \in {"commit", "store"}
        /\ turns'[t].pc \notin {"commit", "store"}
    BY <1>0, <1>7, QuestionStep, AssistantStep
  <2>2. \A m \in messages' : m \in messages \/ m.at = turns[t].at
    BY <1>7 DEF StoreQuestion, StoreAnswer, Add
  <2> QED BY <2>1, <2>2 DEF Others
<1> QED
  BY <1>1, <1>2, <1>4, <1>5, <1>6, <1>7
     DEF ConvNext, StampQuestion, StampAnswer, CreateConversation, FindToEdit, Rename,
         DeleteDocument, OpenListing, FindPage, ReadRows, ReadCount, ShowPage, convVars

\* A listing that follows the cursor has shown what there was up to it, and a
\* page it has read leaves out only what is younger than all of a full page.
CursorSound(q) ==
    /\ ~q.repeated
    /\ q.pc \in {"next", "page"} =>
          /\ \A m \in q.got : m.at <= q.after
          /\ \A m \in q.atStart : m.at <= q.after => m \in q.got
    /\ q.pc = "page" /\ "rows" \notin q.needs =>
          /\ \A m \in q.rows : m.at > q.after
          /\ \A m \in q.atStart : m.at > q.after /\ m \notin q.rows =>
                Cardinality(q.rows) > PageLimit /\ \A r \in q.rows : r.at < m.at
    /\ q.pc = "done" => q.atStart \subseteq q.got

\* One that counts pages has shown the positions before its page, reads those
\* of its page, and knows a total past every message it has to show.
OffsetSound(q, S) ==
    /\ q.got \subseteq S /\ q.rows \subseteq S /\ ~q.repeated
    /\ q.pc \in {"next", "page"} =>
          /\ \A m \in q.got : Rank(S, m) < q.page * PageLimit
          /\ \A m \in q.atStart : Rank(S, m) < q.page * PageLimit => m \in q.got
    /\ q.pc = "page" /\ "rows" \notin q.needs =>
          /\ Cardinality(q.rows) <= PageLimit
          /\ \A m \in q.rows : /\ Rank(S, m) >= q.page * PageLimit
                               /\ Rank(S, m) < q.page * PageLimit + PageLimit
          /\ \A m \in q.atStart : /\ Rank(S, m) >= q.page * PageLimit
                                  /\ Rank(S, m) < q.page * PageLimit + PageLimit
                                  => m \in q.rows
    /\ q.pc = "page" /\ "count" \notin q.needs => \A m \in q.atStart : Rank(S, m) < q.total
    /\ q.pc = "done" => q.atStart \subseteq q.got

ListingSound(q, S) ==
    /\ q.atStart \subseteq S
    /\ q.mode = "cursor" => CursorSound(q)
    /\ q.mode = "offset" /\ ~q.late => OffsetSound(q, S)

\* A message that shows up behind no younger one moves no position.
LEMMA AddKeepsSound ==
    ASSUME NEW S \in SUBSET Message, NEW m \in Message, NEW q \in Listing, NEW r \in Listing,
           ListingSound(q, S),
           r.late \/ \A o \in S : o.at <= m.at, q.late => r.late,
           r.pc = q.pc, r.mode = q.mode, r.needs = q.needs, r.after = q.after,
           r.page = q.page, r.rows = q.rows, r.total = q.total, r.got = q.got,
           r.atStart = q.atStart, r.repeated = q.repeated
    PROVE  ListingSound(r, S \cup {m})
<1>1. r.atStart \subseteq S \cup {m}
  BY DEF ListingSound
<1>2. r.mode = "cursor" => CursorSound(r)
  BY DEF ListingSound, CursorSound
<1>3. ASSUME r.mode = "offset", ~r.late
      PROVE  OffsetSound(r, S \cup {m})
  <2>1. OffsetSound(q, S) /\ q.atStart \subseteq S
    BY <1>3 DEF ListingSound
  <2>2. \A k \in S : Rank(S \cup {m}, k) = Rank(S, k)
    BY <1>3, PositionsStay
  <2>3. q.got \subseteq S /\ q.rows \subseteq S
    BY <2>1 DEF OffsetSound
  <2>4. \A k \in q.got \cup q.rows \cup q.atStart : Rank(S \cup {m}, k) = Rank(S, k)
    BY <2>1, <2>2, <2>3
  <2> QED BY <2>1, <2>4 DEF OffsetSound
<1> QED BY <1>1, <1>2, <1>3 DEF ListingSound

\* Rows read after the cursor.
LEMMA CursorRowsAreSound ==
    ASSUME NEW S \in SUBSET Message, IsFiniteSet(S), NEW after \in Nat,
           NEW m \in S, m.at > after
    PROVE  LET rows == Oldest({o \in S : o.at > after}, PageLimit + 1)
           IN /\ \A r \in rows : r.at > after
              /\ m \notin rows => /\ Cardinality(rows) > PageLimit
                                  /\ \A r \in rows : r.at < m.at
<1> DEFINE Rest == {o \in S : o.at > after}
           rows == Oldest(Rest, PageLimit + 1)
<1>1. Rest \in SUBSET Message /\ IsFiniteSet(Rest) /\ m \in Rest
  BY FS_Subset
<1>2. \A r \in rows : r.at > after
  BY OldestIsBelow
<1>3. PageLimit + 1 \in Nat
  OBVIOUS
<1>4. rows \subseteq Rest
  BY DEF Oldest
<1>a. IsFiniteSet(rows) /\ Cardinality(rows) \in Nat
  BY <1>1, <1>4, FS_Subset, FS_CardinalityType
<1> HIDE DEF Rest
<1>5. m \notin rows => Cardinality(rows) >= PageLimit + 1 /\ \A r \in rows : r.at < m.at
  BY <1>1, <1>3, OldestAreMany
<1> HIDE DEF rows
<1>6. m \notin rows => Cardinality(rows) > PageLimit /\ \A r \in rows : r.at < m.at
  BY <1>5, <1>a
<1> QED BY <1>2, <1>6 DEF rows, Rest

\* Showing a page after the cursor.
LEMMA CursorPageIsSound ==
    ASSUME NEW q \in Listing, IsFiniteSet(q.rows), CursorSound(q),
           q.mode = "cursor", q.pc = "page", q.needs = {},
           NEW r \in Listing,
           r.pc = IF HasNext(q) THEN "next" ELSE "done",
           HasNext(q) => r.after = NextCursor(q.rows),
           r.got = q.got \cup Oldest(q.rows, PageLimit), r.atStart = q.atStart,
           r.repeated = (q.repeated \/ q.got \cap Oldest(q.rows, PageLimit) # {})
    PROVE  CursorSound(r)
<1> DEFINE data == Oldest(q.rows, PageLimit)
<1>1. /\ q.rows \subseteq Message /\ q.got \subseteq Message /\ q.atStart \subseteq Message
      /\ q.after \in Nat /\ \A m \in Message : m.at \in Nat
  BY DEF Listing, Message
<1>2. /\ ~q.repeated
      /\ \A m \in q.got : m.at <= q.after
      /\ \A m \in q.atStart : m.at <= q.after => m \in q.got
      /\ \A m \in q.rows : m.at > q.after
      /\ \A m \in q.atStart : m.at > q.after /\ m \notin q.rows =>
            Cardinality(q.rows) > PageLimit /\ \A k \in q.rows : k.at < m.at
  BY DEF CursorSound
<1>3. data \subseteq q.rows
  BY DEF Oldest
<1>4. HasNext(q) <=> Cardinality(q.rows) > PageLimit
  BY DEF HasNext
<1>5. Cardinality(q.rows) \in Nat
  BY FS_CardinalityType
<1>6. ~r.repeated
  <2>1. ASSUME NEW m \in q.got, m \in q.rows
        PROVE  FALSE
    <3>1. m.at \in Nat /\ m.at <= q.after /\ m.at > q.after
      BY <1>1, <1>2, <2>1
    <3> QED BY <1>1, <3>1
  <2>2. q.got \cap data = {}
    BY <1>3, <2>1
  <2> QED BY <1>2, <2>2
<1>7. CASE HasNext(q)
  <2>1. /\ r.after \in Nat
        /\ \E m \in data : m.at = r.after
        /\ \A m \in data : m.at <= r.after
    BY <1>1, <1>4, <1>7, CursorIsShown
  <2>2. PICK d \in data : d.at = r.after
    BY <2>1
  <2>3. d \in q.rows /\ d.at > q.after
    BY <1>2, <1>3
  <2>4. \A m \in r.got : m.at <= r.after
    BY <1>1, <1>2, <2>1, <2>2, <2>3
  <2>5. ASSUME NEW m \in q.atStart, m.at <= r.after
        PROVE  m \in r.got
    <3>1. CASE m.at <= q.after
      BY <1>2, <3>1
    <3>2. CASE m.at > q.after /\ m \in q.rows
      <4>1. m \in data
        BY <1>1, <2>2, <2>5, <3>2, OldestIsPrefix
      <4> QED BY <4>1
    <3>3. CASE m.at > q.after /\ m \notin q.rows
      <4>1. d.at < m.at /\ d.at \in Nat /\ m.at \in Nat
        BY <1>1, <1>2, <2>3, <3>3
      <4> QED BY <2>2, <2>5, <4>1
    <3>4. m.at \in Nat
      BY <1>1
    <3> QED BY <1>1, <3>1, <3>2, <3>3, <3>4
  <2> QED BY <1>6, <1>7, <2>4, <2>5 DEF CursorSound
<1>8. CASE ~HasNext(q)
  <2>1. Cardinality(q.rows) <= PageLimit
    BY <1>4, <1>5, <1>8
  <2>2. data = q.rows
    BY <1>1, <2>1, OldestOfFew
  <2>3. ASSUME NEW m \in q.atStart
        PROVE  m \in r.got
    <3>1. m.at <= q.after \/ m.at > q.after
      BY <1>1
    <3>2. ~ (Cardinality(q.rows) > PageLimit)
      BY <1>4, <1>8
    <3> QED BY <1>2, <2>2, <3>1, <3>2
  <2> QED BY <1>6, <1>8, <2>3 DEF CursorSound
<1> QED BY <1>7, <1>8

\* Showing a page by its number.
LEMMA OffsetPageIsSound ==
    ASSUME NEW S \in SUBSET Message, IsFiniteSet(S), NEW q \in Listing, IsFiniteSet(q.rows),
           OffsetSound(q, S), q.atStart \subseteq S,
           q.mode = "offset", q.pc = "page", q.needs = {},
           NEW r \in Listing,
           r.pc = IF HasNext(q) THEN "next" ELSE "done",
           r.page = q.page + 1, r.rows = {},
           r.got = q.got \cup Oldest(q.rows, PageLimit), r.atStart = q.atStart,
           r.repeated = (q.repeated \/ q.got \cap Oldest(q.rows, PageLimit) # {})
    PROVE  OffsetSound(r, S)
<1> DEFINE start == q.page * PageLimit
<1>1. /\ q.rows \subseteq Message /\ q.page \in Nat /\ q.total \in Nat
      /\ start \in Nat /\ r.page * PageLimit = start + PageLimit
  BY DEF Listing
<1>2. /\ q.got \subseteq S /\ q.rows \subseteq S /\ ~q.repeated
      /\ \A m \in q.got : Rank(S, m) < start
      /\ \A m \in q.atStart : Rank(S, m) < start => m \in q.got
      /\ Cardinality(q.rows) <= PageLimit
      /\ \A m \in q.rows : Rank(S, m) >= start /\ Rank(S, m) < start + PageLimit
      /\ \A m \in q.atStart :
            Rank(S, m) >= start /\ Rank(S, m) < start + PageLimit => m \in q.rows
      /\ \A m \in q.atStart : Rank(S, m) < q.total
  BY DEF OffsetSound
<1>3. Oldest(q.rows, PageLimit) = q.rows
  BY <1>1, <1>2, OldestOfFew
<1>4. \A m \in S : Rank(S, m) \in Nat
  BY BelowIsFinite DEF Rank
<1>5. HasNext(q) <=> start + PageLimit < q.total
  BY <1>1 DEF HasNext
<1> HIDE DEF start
<1>6. r.got \subseteq S /\ r.rows \subseteq S /\ ~r.repeated
  <2>1. ASSUME NEW m \in q.got, m \in q.rows
        PROVE  FALSE
    <3>1. Rank(S, m) \in Nat /\ Rank(S, m) < start /\ Rank(S, m) >= start
      BY <1>2, <1>4, <2>1
    <3> QED BY <1>1, <3>1
  <2>2. q.got \cap q.rows = {}
    BY <2>1
  <2>3. ~r.repeated
    BY <1>2, <1>3, <2>2
  <2> QED BY <1>2, <1>3, <2>3
<1>7. \A m \in r.got : Rank(S, m) < start + PageLimit
  BY <1>1, <1>2, <1>3, <1>4
<1>8. \A m \in q.atStart : Rank(S, m) < start + PageLimit => m \in r.got
  BY <1>1, <1>2, <1>3, <1>4
<1>9. ASSUME ~HasNext(q), NEW m \in q.atStart
      PROVE  m \in r.got
  BY <1>1, <1>2, <1>4, <1>5, <1>8, <1>9
<1>10. CASE HasNext(q)
  BY <1>1, <1>6, <1>7, <1>8, <1>10 DEF OffsetSound
<1>11. CASE ~HasNext(q)
  BY <1>6, <1>9, <1>11 DEF OffsetSound
<1> QED BY <1>10, <1>11

\* A count taken now is past every position.
LEMMA RankIsBelowSize ==
    ASSUME NEW S \in SUBSET Message, IsFiniteSet(S), NEW m \in S
    PROVE  Rank(S, m) < Cardinality(S)
<1>1. Below(S, m) \subseteq S \ {m}
  BY DEF Below, Message
<1>2. IsFiniteSet(S \ {m}) /\ Cardinality(S \ {m}) = Cardinality(S) - 1
  BY FS_RemoveElement
<1>3. Cardinality(Below(S, m)) <= Cardinality(S \ {m})
  BY <1>1, <1>2, FS_Subset
<1>4. Cardinality(S) \in Nat /\ Cardinality(Below(S, m)) \in Nat
  BY FS_CardinalityType, BelowIsFinite
<1> QED BY <1>2, <1>3, <1>4 DEF Rank

Fresh(q) == q.mode = "cursor" /\ ~q.repeated /\ q.atStart = {}

\* A listing that has not begun is fresh; one of a conversation that is there
\* is sound.
ListingsAreSound ==
    \A l \in Listings : /\ listings[l].pc = "idle" => Fresh(listings[l])
                        /\ Live => ListingSound(listings[l], messages)

ListInv == ConvTyped /\ NothingBefore /\ StampsAreUnique /\ StampsArePositive /\ ListingsAreSound

LEMMA FreshIsSound ==
    ASSUME NEW S, NEW q, q.pc = "idle", Fresh(q)
    PROVE  ListingSound(q, S)
BY DEF Fresh, ListingSound, CursorSound

\* What a step of a listing leaves alone, and what becomes of it.
LEMMA ListingStep ==
    ASSUME ListInv, NEW l \in Listings, NEW r, r \in Listing,
           listings' = [listings EXCEPT ![l] = r], title' = title, messages' = messages,
           r.pc # "idle", Live => ListingSound(r, messages)
    PROVE  ListingsAreSound'
<1>1. listings \in [Listings -> Listing] /\ (Live' <=> Live)
  BY DEF ListInv, ConvTyped, ConvTypeOK, Live
<1>2. listings'[l] = r /\ \A k \in Listings : k # l => listings'[k] = listings[k]
  BY <1>1
<1>3. ASSUME NEW k \in Listings
      PROVE  /\ listings'[k].pc = "idle" => Fresh(listings'[k])
             /\ Live' => ListingSound(listings'[k], messages')
  BY <1>1, <1>2 DEF ListInv, ListingsAreSound
<1> QED BY <1>3 DEF ListingsAreSound

\* What every step of a listing may use.
LEMMA ListingFacts ==
    ASSUME ListInv, NEW l \in Listings
    PROVE  /\ listings \in [Listings -> Listing] /\ listings[l] \in Listing
           /\ IsFiniteSet(listings[l].rows)
           /\ messages \in SUBSET Message /\ IsFiniteSet(messages) /\ Injective(messages)
           /\ \A m \in messages : m.at > 0
           /\ Live => ListingSound(listings[l], messages)
BY DEF ListInv, ConvTyped, ConvTypeOK, StampsAreUnique, StampsArePositive, ListingsAreSound,
       Injective

LEMMA OpenKeepsSound ==
    ASSUME ListInv, NEW l \in Listings, NEW mode \in {"cursor", "offset"}, OpenListing(l, mode)
    PROVE  ListingsAreSound'
<1> DEFINE r == [NoListing EXCEPT !.pc = "next", !.mode = mode, !.atStart = messages]
<1>1. /\ r.pc = "next" /\ r.mode = mode /\ r.atStart = messages /\ r.got = {} /\ r.rows = {}
      /\ r.after = 0 /\ r.page = 0 /\ r.repeated = FALSE
  BY DEF NoListing
<1>2. r \in Listing
  BY ListingFacts DEF Listing, NoListing
<1>3. listings' = [listings EXCEPT ![l] = r] /\ title' = title /\ messages' = messages
  BY DEF OpenListing
<1> HIDE DEF r
<1>4. CursorSound(r)
  <2>1. \A m \in r.atStart : m.at \in Nat /\ m.at > 0
    BY <1>1, ListingFacts DEF Message
  <2> QED BY <1>1, <2>1 DEF CursorSound
<1>5. OffsetSound(r, messages)
  <2>1. r.page * PageLimit = 0
    BY <1>1
  <2>2. \A m \in r.atStart : Rank(messages, m) \in Nat
    BY <1>1, ListingFacts, BelowIsFinite DEF Rank
  <2> QED BY <1>1, <2>1, <2>2 DEF OffsetSound
<1>6. ListingSound(r, messages)
  BY <1>1, <1>4, <1>5 DEF ListingSound
<1> QED BY <1>1, <1>2, <1>3, <1>6, ListingStep

LEMMA FindKeepsSound ==
    ASSUME ListInv, NEW l \in Listings, FindPage(l)
    PROVE  ListingsAreSound'
<1> DEFINE q == listings[l]
           pc == IF Live THEN "page" ELSE "stopped"
           needs == IF q.mode = "offset" THEN {"rows", "count"} ELSE {"rows"}
           r == [q EXCEPT !.pc = pc, !.needs = needs]
<1>0. q \in Listing
  BY ListingFacts
<1>1. /\ r.pc = pc /\ r.needs = needs /\ r.mode = q.mode /\ r.atStart = q.atStart
      /\ r.got = q.got /\ r.rows = q.rows /\ r.after = q.after /\ r.page = q.page
      /\ r.repeated = q.repeated /\ r.late = q.late
  BY <1>0 DEF Listing
<1>2. r \in Listing
  BY <1>0 DEF Listing
<1>3. listings' = [listings EXCEPT ![l] = r] /\ title' = title /\ messages' = messages
  BY ListingFacts DEF FindPage
<1>4. q.pc = "next" /\ "rows" \in needs /\ (q.mode = "offset" => "count" \in needs)
  BY DEF FindPage, Paging
<1>5. pc \in {"page", "stopped"} /\ (Live => pc = "page")
  OBVIOUS
<1>6. Live => ListingSound(q, messages)
  BY ListingFacts
<1> HIDE DEF r, q, pc, needs
<1>7. ASSUME Live
      PROVE  ListingSound(r, messages)
  <2>1. r.pc = "page" /\ ListingSound(q, messages)
    BY <1>1, <1>5, <1>6, <1>7
  <2>2. r.mode = "cursor" => CursorSound(r)
    BY <1>1, <1>4, <2>1 DEF ListingSound, CursorSound
  <2>3. r.mode = "offset" /\ ~r.late => OffsetSound(r, messages)
    BY <1>1, <1>4, <2>1 DEF ListingSound, OffsetSound
  <2> QED BY <1>1, <2>1, <2>2, <2>3 DEF ListingSound
<1> QED BY <1>1, <1>2, <1>3, <1>5, <1>7, ListingStep

LEMMA RowsKeepSound ==
    ASSUME ListInv, NEW l \in Listings, ReadRows(l)
    PROVE  ListingsAreSound'
<1> DEFINE q == listings[l]
           rows == PageRows(q)
           needs == q.needs \ {"rows"}
           r == [q EXCEPT !.needs = needs, !.rows = rows]
<1>0. /\ q \in Listing /\ messages \in SUBSET Message /\ IsFiniteSet(messages)
      /\ Injective(messages)
  BY ListingFacts
<1>a. rows \subseteq messages /\ IsFiniteSet(rows)
  BY <1>0, PageRowsAreMessages DEF ListInv
<1>1. /\ r.pc = q.pc /\ r.needs = needs /\ r.mode = q.mode /\ r.atStart = q.atStart
      /\ r.got = q.got /\ r.rows = rows /\ r.after = q.after /\ r.page = q.page
      /\ r.repeated = q.repeated /\ r.late = q.late /\ r.total = q.total
  BY <1>0 DEF Listing
<1>2. r \in Listing
  BY <1>0, <1>a DEF Listing
<1>3. listings' = [listings EXCEPT ![l] = r] /\ title' = title /\ messages' = messages
  BY ListingFacts DEF ReadRows
<1>4. q.pc = "page" /\ "count" \notin needs <=> q.pc = "page" /\ "count" \notin q.needs
  OBVIOUS
<1>5. q.pc = "page" /\ (Live => ListingSound(q, messages))
  BY ListingFacts DEF ReadRows, Paging
<1>6. /\ q.mode = "cursor" =>
            rows = Oldest({m \in messages : m.at > q.after}, PageLimit + 1)
      /\ q.mode = "offset" =>
            rows = Oldest(Skipping(messages, q.page * PageLimit), PageLimit)
  BY DEF PageRows
<1> HIDE DEF r, q, rows, needs
<1>7. ASSUME Live, q.mode = "cursor"
      PROVE  CursorSound(r)
  <2>1. CursorSound(q) /\ q.atStart \subseteq messages /\ q.after \in Nat
    BY <1>0, <1>5, <1>7 DEF ListingSound, Listing
  <2>2. \A m \in rows : m.at > q.after
    BY <1>6, <1>7, OldestIsBelow
  <2>3. ASSUME NEW m \in q.atStart, m.at > q.after, m \notin rows
        PROVE  Cardinality(rows) > PageLimit /\ \A k \in rows : k.at < m.at
    <3>1. m \in messages
      BY <2>1
    <3> QED BY <1>0, <1>6, <1>7, <2>1, <2>3, <3>1, CursorRowsAreSound
  <2> QED BY <1>1, <1>5, <2>1, <2>2, <2>3 DEF CursorSound
<1>8. ASSUME Live, q.mode = "offset", ~q.late
      PROVE  OffsetSound(r, messages)
  <2> DEFINE start == q.page * PageLimit
             rest == Skipping(messages, start)
  <2>1. OffsetSound(q, messages) /\ q.atStart \subseteq messages /\ start \in Nat
    BY <1>0, <1>5, <1>8 DEF ListingSound, Listing
  <2> HIDE DEF start
  <2>2. rest \in SUBSET Message /\ IsFiniteSet(rest) /\ Injective(rest)
    BY <1>0, FS_Subset DEF Skipping, Injective
  <2>3. rows = Oldest(rest, PageLimit)
    BY <1>6, <1>8 DEF start
  <2>4. Cardinality(rows) <= PageLimit
    <3> HIDE DEF rest
    <3> QED BY <2>2, <2>3, OldestAreFew
  <2>5. \A m \in messages : m \in rows <=> /\ Rank(messages, m) >= start
                                           /\ Rank(messages, m) < start + PageLimit
    BY <1>0, <2>1, <2>3, PageOfPositions
  <2> HIDE DEF rest
  <2> QED BY <1>1, <1>4, <1>5, <1>a, <2>1, <2>4, <2>5 DEF OffsetSound, start
<1>9. ASSUME Live
      PROVE  ListingSound(r, messages)
  BY <1>1, <1>5, <1>7, <1>8, <1>9 DEF ListingSound
<1> QED BY <1>1, <1>2, <1>3, <1>5, <1>9, ListingStep

LEMMA CountKeepsSound ==
    ASSUME ListInv, NEW l \in Listings, ReadCount(l)
    PROVE  ListingsAreSound'
<1> DEFINE q == listings[l]
           total == Cardinality(messages)
           needs == q.needs \ {"count"}
           r == [q EXCEPT !.needs = needs, !.total = total]
<1>0. q \in Listing /\ messages \in SUBSET Message /\ IsFiniteSet(messages)
  BY ListingFacts
<1>a. total \in Nat
  BY <1>0, FS_CardinalityType
<1>1. /\ r.pc = q.pc /\ r.needs = needs /\ r.mode = q.mode /\ r.atStart = q.atStart
      /\ r.got = q.got /\ r.rows = q.rows /\ r.after = q.after /\ r.page = q.page
      /\ r.repeated = q.repeated /\ r.late = q.late /\ r.total = total
  BY <1>0 DEF Listing
<1>2. r \in Listing
  BY <1>0, <1>a DEF Listing
<1>3. listings' = [listings EXCEPT ![l] = r] /\ title' = title /\ messages' = messages
  BY ListingFacts DEF ReadCount
<1>4. "rows" \notin needs <=> "rows" \notin q.needs
  OBVIOUS
<1>5. q.pc = "page" /\ (Live => ListingSound(q, messages))
  BY ListingFacts DEF ReadCount, Paging
<1>6. \A m \in messages : Rank(messages, m) < total
  BY <1>0, RankIsBelowSize
<1> HIDE DEF r, q, total, needs
<1>7. ASSUME Live
      PROVE  ListingSound(r, messages)
  <2>1. ListingSound(q, messages)
    BY <1>5, <1>7
  <2>2. r.mode = "cursor" => CursorSound(r)
    BY <1>1, <1>4, <2>1 DEF ListingSound, CursorSound
  <2>3. r.mode = "offset" /\ ~r.late => OffsetSound(r, messages)
    BY <1>1, <1>4, <1>6, <2>1 DEF ListingSound, OffsetSound
  <2> QED BY <1>1, <2>1, <2>2, <2>3 DEF ListingSound
<1> QED BY <1>1, <1>2, <1>3, <1>5, <1>7, ListingStep

LEMMA ShowKeepsSound ==
    ASSUME ListInv, NEW l \in Listings, ShowPage(l)
    PROVE  ListingsAreSound'
<1> DEFINE q == listings[l]
           r == listings'[l]
           data == Oldest(q.rows, PageLimit)
<1>0. /\ q \in Listing /\ messages \in SUBSET Message /\ IsFiniteSet(messages)
      /\ IsFiniteSet(q.rows) /\ listings \in [Listings -> Listing]
  BY ListingFacts
<1>1. /\ r.pc = IF HasNext(q) THEN "next" ELSE "done"
      /\ r.after = IF HasNext(q) /\ q.mode = "cursor" THEN NextCursor(q.rows) ELSE 0
      /\ r.page = q.page + 1 /\ r.rows = {} /\ r.got = q.got \cup data
      /\ r.repeated = (q.repeated \/ q.got \cap data # {})
      /\ r.mode = q.mode /\ r.atStart = q.atStart /\ r.late = q.late
  BY <1>0 DEF ShowPage, Listing
<1>2. r \in Listing
  BY ListingsStayTyped DEF ListInv
<1>3. listings' = [listings EXCEPT ![l] = r] /\ title' = title /\ messages' = messages
  BY <1>0 DEF ShowPage
<1>4. q.pc = "page" /\ q.needs = {} /\ (Live => ListingSound(q, messages))
  BY ListingFacts DEF ShowPage, Paging
<1>5. r.pc # "idle"
  BY <1>1
<1> HIDE DEF r, q
<1>6. ASSUME Live
      PROVE  ListingSound(r, messages)
  <2>1. ListingSound(q, messages)
    BY <1>4, <1>6
  <2>2. CASE r.mode = "cursor"
    <3>1. HasNext(q) => r.after = NextCursor(q.rows)
      BY <1>1, <2>2
    <3>2. CursorSound(r)
      BY <1>0, <1>1, <1>2, <1>4, <2>1, <2>2, <3>1, CursorPageIsSound DEF ListingSound
    <3> QED BY <1>1, <2>1, <2>2, <3>2 DEF ListingSound
  <2>3. CASE r.mode = "offset" /\ ~r.late
    <3>1. OffsetSound(r, messages)
      BY <1>0, <1>1, <1>2, <1>4, <2>1, <2>3, OffsetPageIsSound DEF ListingSound
    <3> QED BY <1>1, <2>1, <2>3, <3>1 DEF ListingSound
  <2>4. r.mode \in {"cursor", "offset"}
    BY <1>2 DEF Listing
  <2> QED BY <1>1, <2>1, <2>2, <2>3, <2>4 DEF ListingSound
<1> QED BY <1>2, <1>3, <1>5, <1>6, ListingStep

\* A row that is stored, in its order or behind a younger one.
LEMMA StoredKeepsSound ==
    ASSUME ListInv, NEW m \in Message, Add(m), title' = title, Live
    PROVE  ListingsAreSound'
<1>1. messages' = messages \cup {m} /\ messages \in SUBSET Message /\ listings' \in [Listings -> Listing]
  BY AddKeepsTypes DEF ListInv, ConvTyped, ConvTypeOK, Add
<1>2. ASSUME NEW l \in Listings
      PROVE  /\ listings'[l].pc = "idle" => Fresh(listings'[l])
             /\ Live' => ListingSound(listings'[l], messages')
  <2> DEFINE q == listings[l]
             r == listings'[l]
             late == q.late \/ (q.pc # "idle" /\ \E o \in messages : o.at > m.at)
  <2>1. q \in Listing /\ r \in Listing /\ ListingSound(q, messages)
    BY <1>1, ListingFacts
  <2>2. r = [q EXCEPT !.late = late]
    BY DEF Add
  <2>3. /\ r.pc = q.pc /\ r.mode = q.mode /\ r.needs = q.needs /\ r.after = q.after
        /\ r.page = q.page /\ r.rows = q.rows /\ r.total = q.total /\ r.got = q.got
        /\ r.atStart = q.atStart /\ r.repeated = q.repeated /\ r.late = late
    BY <2>1, <2>2 DEF Listing
  <2>4. q.pc = "idle" => Fresh(q)
    BY DEF ListInv, ListingsAreSound
  <2>5. CASE q.pc = "idle"
    <3>1. Fresh(q) /\ r.pc = "idle"
      BY <2>3, <2>4, <2>5
    <3> HIDE DEF q, r, late
    <3>2. Fresh(r)
      BY <2>3, <3>1 DEF Fresh
    <3> QED BY <3>1, <3>2, FreshIsSound DEF r
  <2>6. CASE q.pc # "idle"
    <3>1. late \/ \A o \in messages : ~ (o.at > m.at)
      BY <2>6
    <3>2. \A o \in messages : ~ (o.at > m.at) => o.at <= m.at
      BY <1>1 DEF Message
    <3>3. r.late \/ \A o \in messages : o.at <= m.at
      BY <2>3, <3>1, <3>2
    <3>4. q.late => r.late
      BY <2>3
    <3> HIDE DEF r, q, late
    <3>5. ListingSound(r, messages \cup {m})
      BY <1>1, <2>1, <2>3, <3>3, <3>4, AddKeepsSound
    <3> QED BY <1>1, <2>3, <2>6, <3>5 DEF r
  <2> QED BY <2>5, <2>6
<1> QED BY <1>2 DEF ListingsAreSound

LEMMA ListNextInv == ListInv /\ [ConvNext]_convVars => ListInv'
<1> SUFFICES ASSUME ListInv, [ConvNext]_convVars
             PROVE  ListInv'
    OBVIOUS
<1>0. ConvTyped' /\ NothingBefore' /\ StampsAreUnique' /\ StampsArePositive'
  BY ConvNextTyped, NextNothingBefore, NextStampsAreUnique, NextStampsArePositive DEF ListInv
<1> SUFFICES ListingsAreSound'
  BY <1>0 DEF ListInv
\* Nothing is stored or shown.
<1>a. ASSUME UNCHANGED listings, Live' => Live /\ messages' = messages
      PROVE  ListingsAreSound'
  BY <1>a DEF ListInv, ListingsAreSound
<1>1. ASSUME NEW given, CreateConversation(given)
      PROVE  ListingsAreSound'
  <2>1. UNCHANGED listings /\ \A l \in Listings : listings[l].pc = "idle" /\ Fresh(listings[l])
    BY <1>1 DEF CreateConversation, ListInv, NothingBefore, ListingsAreSound
  <2> QED BY <2>1, FreshIsSound DEF ListingsAreSound
<1>2. ASSUME NEW e \in Editors, NEW given, Rename(e, given)
      PROVE  ListingsAreSound'
  <2>1. UNCHANGED <<listings, messages>> /\ (Live' => Live)
    BY <1>2 DEF Rename, Live
  <2> QED BY <1>a, <2>1
<1>3. ASSUME NEW e \in Editors, DeleteConversation(e)
      PROVE  ListingsAreSound'
  <2>1. UNCHANGED listings /\ ~Live'
    BY <1>3 DEF DeleteConversation, Live
  <2> QED BY <1>a, <2>1
<1>4. ASSUME NEW t \in Turns, SetTitle(t)
      PROVE  ListingsAreSound'
  <2>1. UNCHANGED <<listings, messages>> /\ (Live' => Live)
    BY <1>4 DEF SetTitle, Live
  <2> QED BY <1>a, <2>1
<1>5. CASE UNCHANGED <<title, messages, listings>>
  BY <1>a, <1>5 DEF Live
<1>6. ASSUME NEW t \in Turns, StoreQuestion(t) \/ StoreAnswer(t)
      PROVE  ListingsAreSound'
  <2>1. title' = title
    BY <1>6 DEF StoreQuestion, StoreAnswer
  <2>2. turns \in [Turns -> Turn] /\ turns[t].at \in Nat
    BY DEF ListInv, ConvTyped, ConvTypeOK, Turn
  <2>3. \/ UNCHANGED <<messages, listings>>
        \/ \E role \in {"USER", "ASSISTANT"} :
              Live /\ Add([turn |-> t, role |-> role, at |-> turns[t].at])
    BY <1>6, <2>2, QuestionStep, AssistantStep
  <2>4. ASSUME NEW role \in {"USER", "ASSISTANT"}, Live,
               Add([turn |-> t, role |-> role, at |-> turns[t].at])
        PROVE  ListingsAreSound'
    <3>1. [turn |-> t, role |-> role, at |-> turns[t].at] \in Message
      BY <2>2 DEF Message
    <3> QED BY <2>1, <2>4, <3>1, StoredKeepsSound
  <2> QED BY <1>5, <2>1, <2>3, <2>4
<1>7. ASSUME NEW l \in Listings,
             \/ \E mode \in {"cursor", "offset"} : OpenListing(l, mode)
             \/ FindPage(l) \/ ReadRows(l) \/ ReadCount(l) \/ ShowPage(l)
      PROVE  ListingsAreSound'
  BY <1>7, OpenKeepsSound, FindKeepsSound, RowsKeepSound, CountKeepsSound, ShowKeepsSound
<1> QED
  BY <1>1, <1>2, <1>3, <1>4, <1>5, <1>6, <1>7
     DEF ConvNext, FindToEdit, DeleteDocument, FindForTurn, ReadHistory, StampQuestion,
         StampAnswer, Stamp, Answer, Abort, convVars

LEMMA ListInitInv == ConvInit => ListInv
<1> SUFFICES ASSUME ConvInit PROVE ListInv
    OBVIOUS
<1>1. TurnInv /\ messages = {} /\ \A t \in Turns : turns[t].pc = "idle"
  BY TurnInitInv DEF ConvInit, NoTurn
<1>2. \A l \in Listings : listings[l].pc = "idle" /\ Fresh(listings[l])
  BY DEF ConvInit, NoListing, Fresh
<1> QED
  BY <1>1, <1>2, FreshIsSound
     DEF TurnInv, ListInv, StampsArePositive, Stamped, ListingsAreSound

\* Following the cursor shows every message that was there and none twice,
\* and so do page numbers unless a message commits behind a younger one, for
\* any number of clients, any page length and any history: ListingsAreComplete.
THEOREM ListingsAreCompleteHolds == ConvSpec => []ListingsAreComplete
<1>1. ListInv => ListingsAreComplete
  <2> SUFFICES ASSUME ListInv, NEW l \in Listings, Live,
                      listings[l].mode = "offset" => ~listings[l].late
               PROVE  /\ ~listings[l].repeated
                      /\ listings[l].pc = "done" => listings[l].atStart \subseteq listings[l].got
      BY DEF ListingsAreComplete
  <2>1. ListingSound(listings[l], messages) /\ listings[l].mode \in {"cursor", "offset"}
    BY ListingFacts DEF Listing
  <2> QED BY <2>1 DEF ListingSound, CursorSound, OffsetSound
<1> QED BY ListInitInv, ListNextInv, <1>1, PTL DEF ConvSpec
=============================================================================
