--------------------------- MODULE Retrieval_proofs ---------------------------
(***************************************************************************)
(* From the text of a document to its chunks, and from a question to the   *)
(* chunks of its prompt: for every chunk size and overlap, any number of   *)
(* pages and words, any ranking either search returns and any limits of    *)
(* the prompt.                                                             *)
(***************************************************************************)
EXTENDS Indexing, Retrieval, FiniteSetTheorems, SequenceTheorems, TLAPS

----------------------------------------------------------------------------
\* Putting a finite set in order

\* R orders S, nobody before himself.
IsStrictOrder(R, S) ==
    /\ \A x \in S : <<x, x>> \notin R
    /\ \A x, y, z \in S : <<x, y>> \in R /\ <<y, z>> \in R => <<x, z>> \in R
    /\ \A x, y \in S : x # y => <<x, y>> \in R \/ <<y, x>> \in R

InOrder(R, S, s) ==
    /\ s \in SetToSeqs(S)
    /\ \A i, j \in 1 .. Len(s) : i < j => <<s[i], s[j]>> \in R

Under(R, S, x) == {y \in S : <<y, x>> \in R}

Place(R, S) == [x \in S |-> Cardinality(Under(R, S, x)) + 1]

LEMMA IntervalSize ==
    ASSUME NEW n \in Nat
    PROVE  IsFiniteSet(1 .. n) /\ Cardinality(1 .. n) = n
BY FS_Interval

LEMMA SeqsOfASet ==
    ASSUME NEW S, IsFiniteSet(S), NEW s \in SetToSeqs(S)
    PROVE  /\ s \in Seq(S)
           /\ Len(s) = Cardinality(S) /\ Len(s) \in Nat
           /\ DOMAIN s = 1 .. Len(s)
           /\ IsInjective(s)
           /\ Range(s) = S
<1> DEFINE n == Cardinality(S)
<1>1. n \in Nat
  BY FS_CardinalityType
<1>2. s \in [1 .. n -> S] /\ \A i, j \in 1 .. n : i # j => s[i] # s[j]
  BY DEF SetToSeqs
<1>3. s \in Seq(S) /\ Len(s) = n /\ DOMAIN s = 1 .. n
  BY <1>1, <1>2
<1>4. s \in Injection(1 .. n, S)
  BY <1>2 DEF Injection, IsInjective
<1>5. IsFiniteSet(1 .. n) /\ Cardinality(1 .. n) = n
  BY <1>1, IntervalSize
<1>6. s \in Surjection(1 .. n, S)
  BY <1>4, <1>5, FS_Injection
<1>7. Range(s) = S
  BY <1>2, <1>3, <1>6 DEF Surjection, Range
<1> QED BY <1>1, <1>2, <1>3, <1>7 DEF IsInjective

\* In an ordered set every element has its place, and no two the same.
LEMMA PlacesAreDistinct ==
    ASSUME NEW S, IsFiniteSet(S), NEW R, IsStrictOrder(R, S)
    PROVE  /\ Place(R, S) \in [S -> 1 .. Cardinality(S)]
           /\ \A x, y \in S : <<x, y>> \in R => Place(R, S)[x] < Place(R, S)[y]
<1> DEFINE Card(x) == Cardinality(Under(R, S, x))
<1>1. \A x \in S : Under(R, S, x) \subseteq S /\ x \notin Under(R, S, x)
  BY DEF Under, IsStrictOrder
<1>2. \A x \in S : IsFiniteSet(Under(R, S, x)) /\ Card(x) \in Nat
  BY <1>1, FS_Subset, FS_CardinalityType
<1>3. Cardinality(S) \in Nat
  BY FS_CardinalityType
<1>4. ASSUME NEW x \in S PROVE Card(x) + 1 \in 1 .. Cardinality(S)
  <2>1. Card(x) <= Cardinality(S) /\ (Cardinality(S) = Card(x) => S = Under(R, S, x))
    BY <1>1, FS_Subset
  <2>2. Card(x) # Cardinality(S)
    BY <2>1, <1>1
  <2> QED BY <2>1, <2>2, <1>2, <1>3
<1>5. ASSUME NEW x \in S, NEW y \in S, <<x, y>> \in R PROVE Card(x) < Card(y)
  <2>1. Under(R, S, x) \subseteq Under(R, S, y)
    BY <1>5 DEF Under, IsStrictOrder
  <2>2. x \in Under(R, S, y) /\ x \notin Under(R, S, x)
    BY <1>1, <1>5 DEF Under
  <2>3. Card(x) <= Card(y) /\ (Card(y) = Card(x) => Under(R, S, y) = Under(R, S, x))
    BY <2>1, <1>2, FS_Subset
  <2> QED BY <2>2, <2>3, <1>2
<1> HIDE DEF Card
<1>6. Place(R, S) = [x \in S |-> Card(x) + 1]
  BY DEF Place, Card
<1> QED BY <1>2, <1>4, <1>5, <1>6

LEMMA PlacesTellApart ==
    ASSUME NEW S, IsFiniteSet(S), NEW R, IsStrictOrder(R, S),
           NEW x \in S, NEW y \in S, x # y
    PROVE  Place(R, S)[x] # Place(R, S)[y]
<1>1. Place(R, S)[x] \in Nat /\ Place(R, S)[y] \in Nat
  BY FS_CardinalityType, PlacesAreDistinct
<1>2. <<x, y>> \in R \/ <<y, x>> \in R
  BY DEF IsStrictOrder
<1>3. Place(R, S)[x] < Place(R, S)[y] \/ Place(R, S)[y] < Place(R, S)[x]
  BY <1>2, PlacesAreDistinct
<1> QED BY <1>1, <1>3

\* So it has a sequence in that order.
LEMMA OrderExists ==
    ASSUME NEW S, IsFiniteSet(S), NEW R, IsStrictOrder(R, S)
    PROVE  \E s : InOrder(R, S, s)
<1> DEFINE n == Cardinality(S)
           place == Place(R, S)
<1>1. n \in Nat
  BY FS_CardinalityType
<1>2. /\ place \in [S -> 1 .. n]
      /\ \A x, y \in S : <<x, y>> \in R => place[x] < place[y]
  BY PlacesAreDistinct
<1>3. ASSUME NEW x \in S, NEW y \in S, x # y PROVE place[x] # place[y]
  BY <1>3, PlacesTellApart
<1> HIDE DEF place
<1>4. place \in Injection(S, 1 .. n)
  BY <1>2, <1>3 DEF Injection, IsInjective
<1>5. IsFiniteSet(1 .. n) /\ Cardinality(1 .. n) = n
  BY <1>1, IntervalSize
<1>6. place \in Surjection(S, 1 .. n)
  BY <1>4, <1>5, FS_Injection
<1> DEFINE s == [i \in 1 .. n |-> CHOOSE x \in S : place[x] = i]
<1>7. \A i \in 1 .. n : s[i] \in S /\ place[s[i]] = i
  BY <1>6 DEF Surjection
<1>8. s \in [1 .. n -> S]
  BY <1>7
<1> HIDE DEF s
<1>9. \A i, j \in 1 .. n : i # j => s[i] # s[j]
  BY <1>7
<1>10. s \in SetToSeqs(S) /\ Len(s) = n
  BY <1>1, <1>8, <1>9 DEF SetToSeqs
<1>11. ASSUME NEW i \in 1 .. n, NEW j \in 1 .. n, i < j PROVE <<s[i], s[j]>> \in R
  <2>1. s[i] \in S /\ s[j] \in S /\ s[i] # s[j]
    BY <1>7, <1>9, <1>11
  <2>2. ~ (place[s[j]] < place[s[i]])
    BY <1>7, <1>11, <1>1
  <2> QED BY <2>1, <2>2, <1>2 DEF IsStrictOrder
<1> QED BY <1>10, <1>11 DEF InOrder

\* And no other: an element stands where its place is.
LEMMA OrderIsUnique ==
    ASSUME NEW S, IsFiniteSet(S), NEW R, IsStrictOrder(R, S),
           NEW s, InOrder(R, S, s), NEW t, InOrder(R, S, t)
    PROVE  s = t
<1> DEFINE n == Cardinality(S)
<1>1. n \in Nat
  BY FS_CardinalityType
<1>2. ASSUME NEW u, InOrder(R, S, u)
      PROVE  /\ u \in [1 .. n -> S] 
             /\ \A i \in 1 .. n : i = Place(R, S)[u[i]]
  <2>1. /\ u \in Seq(S) /\ Len(u) = n /\ DOMAIN u = 1 .. n
        /\ IsInjective(u) /\ Range(u) = S
    BY <1>2, SeqsOfASet DEF InOrder
  <2>2. u \in [1 .. n -> S]
    BY <2>1
  <2>3. \A i, j \in 1 .. n : i < j => <<u[i], u[j]>> \in R
    BY <1>2, <2>1 DEF InOrder
  <2>4. ASSUME NEW i \in 1 .. n PROVE Cardinality(Under(R, S, u[i])) = i - 1
    <3> DEFINE f == [j \in 1 .. i - 1 |-> u[j]]
               U == Under(R, S, u[i])
    <3>1. \A j \in 1 .. i - 1 : j \in 1 .. n /\ u[j] \in U
      BY <1>1, <2>2, <2>3 DEF Under
    <3>2. f \in [1 .. i - 1 -> U]
      BY <3>1
    <3>3. ASSUME NEW y \in U PROVE \E j \in 1 .. i - 1 : f[j] = y
      <4>1. PICK j \in 1 .. n : u[j] = y
        BY <2>1, <2>2 DEF Under, Range
      <4>2. y \in S /\ u[i] \in S /\ <<y, u[i]>> \in R
        BY <2>2 DEF Under
      <4>3. ~ (i < j) /\ i # j
        BY <4>1, <4>2, <2>3 DEF IsStrictOrder
      <4>4. j \in 1 .. i - 1
        BY <4>3, <1>1
      <4> QED BY <4>1, <4>4
    <3>4. f \in Surjection(1 .. i - 1, U)
      BY <3>2, <3>3 DEF Surjection
    <3>5. \A j, k \in 1 .. i - 1 : f[j] = f[k] => j = k
      BY <3>1, <2>1 DEF IsInjective
    <3>6. f \in Injection(1 .. i - 1, U)
      BY <3>2, <3>5 DEF Injection, IsInjective
    <3>7. IsFiniteSet(1 .. i - 1) /\ Cardinality(1 .. i - 1) = i - 1
      <4>1. i - 1 \in Nat
        BY <1>1
      <4> QED BY <4>1, IntervalSize
    <3> QED BY <3>4, <3>6, <3>7, FS_Surjection
  <2>5. \A i \in 1 .. n : i = Place(R, S)[u[i]]
    BY <1>1, <2>2, <2>4 DEF Place
  <2> QED BY <2>2, <2>5
<1>3. ASSUME NEW x \in S, NEW y \in S, x # y PROVE Place(R, S)[x] # Place(R, S)[y]
  BY <1>3, PlacesTellApart
<1>4. s \in [1 .. n -> S] /\ t \in [1 .. n -> S]
  BY <1>2
<1>5. ASSUME NEW i \in 1 .. n PROVE s[i] = t[i]
  <2>1. s[i] \in S /\ t[i] \in S
    BY <1>4
  <2>2. Place(R, S)[s[i]] = Place(R, S)[t[i]]
    BY <1>2
  <2> QED BY <1>3, <2>1, <2>2
<1> HIDE DEF n
<1>6. \A i \in 1 .. n : s[i] = t[i]
  BY <1>5
<1>7. /\ s = [i \in 1 .. n |-> s[i]]
      /\ t = [i \in 1 .. n |-> t[i]]
  BY <1>4
<1> QED BY <1>6, <1>7, Zenon
----------------------------------------------------------------------------
\* Indexing: the windows of a page

RunRecord == [step : RunSteps, page : 1 .. MaxPages + 1, from : Nat]

\* The first n words of the page with this number are in some piece.
CoveredBy(ps, number, n) ==
    \A w \in 0 .. n - 1 : \E j \in 1 .. Len(ps) :
        ps[j].page = number /\ w \in ps[j].from .. ps[j].to - 1

\* What one piece leaves behind, another brings more.
Advances(p, q) == p.page < q.page \/ (p.page = q.page /\ p.to < q.to)

PiecesFit(ps) == \A j \in 1 .. Len(ps) : ps[j].to - ps[j].from \in 1 .. WordsPerChunk

PiecesAdvance(ps) == \A j, k \in 1 .. Len(ps) : j < k => Advances(ps[j], ps[k])

PagesAreSound(s) ==
    /\ s \in Seq(RawPage) /\ Len(s) <= MaxPages
    /\ \A i, j \in 1 .. Len(s) : i < j => s[i].number < s[j].number
    /\ \A i \in 1 .. Len(s) : s[i].meaningful => s[i].words > 0

\* The piece the window at hand becomes.
Window == [page |-> Page.number, from |-> run.from,
           to |-> Smaller(run.from + WordsPerChunk, Page.words)]

\* Pages done are covered, the page at hand as far as its window starts, and
\* the window brings more than any piece so far.
Chunking ==
    /\ run.page <= Len(pages) + 1
    /\ \A i \in 1 .. Len(pages) : i < run.page =>
          CoveredBy(pieces, pages[i].number, pages[i].words)
    /\ run.page <= Len(pages) =>
          /\ run.from < Page.words
          /\ CoveredBy(pieces, Page.number, run.from)
          /\ \A j \in 1 .. Len(pieces) : Advances(pieces[j], Window)

IndexInv ==
    /\ size \in 1 .. MaxSize /\ overlap \in 0 .. size - 1
    /\ run \in RunRecord
    /\ PagesAreSound(pages)
    /\ pieces \in Seq(Piece) /\ vectors \in Seq(Piece)
    /\ PiecesFit(pieces) /\ PiecesAdvance(pieces)
    /\ run.step # "clean" => \A i \in 1 .. Len(pages) : pages[i].words > 0
    /\ run.step = "clean" => run.page = 1 /\ run.from = 0
    /\ run.step \in {"clean", "chunk"} => vectors = <<>>
    /\ run.step = "clean" => pieces = <<>>
    /\ run.step = "chunk" => Chunking
    /\ run.step \in {"embed", "stored"} =>
          \A i \in 1 .. Len(pages) : CoveredBy(pieces, pages[i].number, pages[i].words)
    /\ Len(vectors) <= Len(pieces)
    /\ \A i \in 1 .. Len(vectors) : vectors[i] = pieces[i]
    /\ run.step = "stored" => Len(vectors) = Len(pieces)

\* However the rounding falls, a window has a word and the next one starts
\* after this one does and before it ends.
LEMMA WindowsOverlap ==
    ASSUME size \in 1 .. MaxSize, overlap \in 0 .. size - 1
    PROVE  /\ WordsPerChunk \in Nat \ {0}
           /\ StepSize \in 1 .. WordsPerChunk
<1>1. size \in Nat /\ overlap \in Nat
  BY IndexingAssumption
<1>2. (size * 3) \div 4 \in Nat /\ (overlap * 3) \div 4 \in Nat
  BY <1>1
<1>3. WordsPerChunk \in Nat \ {0} /\ WordsOverlap \in Nat
  BY <1>2 DEF WordsPerChunk, WordsOverlap, Larger
<1> QED BY <1>3 DEF StepSize, Larger

LEMMA PageFields ==
    ASSUME NEW p \in RawPage
    PROVE  p.number \in 1 .. MaxPages /\ p.number \in Int /\ p.words \in Nat
BY IndexingAssumption DEF RawPage

LEMMA PieceFields ==
    ASSUME NEW p \in Piece
    PROVE  p.page \in Int /\ p.from \in Nat /\ p.to \in Nat
BY IndexingAssumption DEF Piece

LEMMA CoverGrows ==
    ASSUME NEW ps \in Seq(Piece), NEW p \in Piece, NEW number, NEW n \in Nat,
           CoveredBy(ps, number, n)
    PROVE  CoveredBy(Append(ps, p), number, n)
<1>1. Len(Append(ps, p)) = Len(ps) + 1 /\ Len(ps) \in Nat
  BY DEF Piece
<1>2. \A j \in 1 .. Len(ps) : Append(ps, p)[j] = ps[j] /\ j \in 1 .. Len(Append(ps, p))
  BY <1>1
<1> QED BY <1>2 DEF CoveredBy

LEMMA CoverExtends ==
    ASSUME NEW ps \in Seq(Piece), NEW p \in Piece, CoveredBy(ps, p.page, p.from)
    PROVE  CoveredBy(Append(ps, p), p.page, p.to)
<1>1. Len(Append(ps, p)) = Len(ps) + 1 /\ Len(ps) \in Nat
  BY DEF Piece
<1>2. Append(ps, p)[Len(ps) + 1] = p
  BY <1>1
<1>3. p.from \in Nat /\ p.to \in Nat
  BY DEF Piece
<1>4. CoveredBy(Append(ps, p), p.page, p.from)
  BY <1>3, CoverGrows
<1>5. ASSUME NEW w \in 0 .. p.to - 1
      PROVE  \E j \in 1 .. Len(Append(ps, p)) :
                /\ Append(ps, p)[j].page = p.page
                /\ w \in Append(ps, p)[j].from .. Append(ps, p)[j].to - 1
  <2>1. CASE w \in 0 .. p.from - 1
    BY <2>1, <1>4 DEF CoveredBy
  <2>2. CASE w \notin 0 .. p.from - 1
    <3>1. w \in p.from .. p.to - 1
      BY <2>2, <1>3
    <3>2. Len(ps) + 1 \in 1 .. Len(Append(ps, p))
      BY <1>1
    <3> QED BY <3>1, <3>2, <1>2
  <2> QED BY <2>1, <2>2
<1> QED BY <1>5 DEF CoveredBy

LEMMA CoverOfLess ==
    ASSUME NEW ps, NEW number, NEW n \in Nat, NEW m \in Nat, m <= n,
           CoveredBy(ps, number, n)
    PROVE  CoveredBy(ps, number, m)
<1>1. 0 .. m - 1 \subseteq 0 .. n - 1
  OBVIOUS
<1> QED BY <1>1 DEF CoveredBy

LEMMA EmptyCover == \A ps, number : CoveredBy(ps, number, 0)
BY DEF CoveredBy

LEMMA AppendedPieces ==
    ASSUME NEW ps \in Seq(Piece), NEW p \in Piece,
           PiecesFit(ps), PiecesAdvance(ps),
           p.to - p.from \in 1 .. WordsPerChunk,
           \A j \in 1 .. Len(ps) : Advances(ps[j], p)
    PROVE  /\ Append(ps, p) \in Seq(Piece)
           /\ PiecesFit(Append(ps, p)) /\ PiecesAdvance(Append(ps, p))
<1>1. Append(ps, p) \in Seq(Piece) /\ Len(Append(ps, p)) = Len(ps) + 1 /\ Len(ps) \in Nat
  OBVIOUS
<1>2. \A j \in 1 .. Len(ps) + 1 : Append(ps, p)[j] = IF j = Len(ps) + 1 THEN p ELSE ps[j]
  OBVIOUS
<1>3. PiecesFit(Append(ps, p))
  BY <1>1, <1>2 DEF PiecesFit
<1>4. ASSUME NEW j \in 1 .. Len(ps) + 1, NEW k \in 1 .. Len(ps) + 1, j < k
      PROVE  Advances(Append(ps, p)[j], Append(ps, p)[k])
  <2>1. j \in 1 .. Len(ps) /\ Append(ps, p)[j] = ps[j]
    BY <1>1, <1>2, <1>4
  <2>2. CASE k = Len(ps) + 1
    BY <2>1, <2>2, <1>2
  <2>3. CASE k # Len(ps) + 1
    <3>1. k \in 1 .. Len(ps) /\ Append(ps, p)[k] = ps[k]
      BY <1>1, <1>2, <2>3
    <3> QED BY <3>1, <2>1, <1>4 DEF PiecesAdvance
  <2> QED BY <2>2, <2>3
<1> QED BY <1>1, <1>3, <1>4 DEF PiecesAdvance
----------------------------------------------------------------------------
LEMMA IndexInitInv == IndexInit => IndexInv
<1> SUFFICES ASSUME IndexInit PROVE IndexInv
  OBVIOUS
<1> USE DEF IndexInit
<1>1. size \in 1 .. MaxSize /\ overlap \in 0 .. size - 1
  BY IndexingAssumption DEF ValidConfig
<1>2. run \in RunRecord /\ run.step = "clean" /\ run.page = 1 /\ run.from = 0
  BY IndexingAssumption DEF RunRecord, RunSteps
<1>3. PagesAreSound(pages)
  <2>1. PICK n \in 0 .. MaxPages : pages \in [1 .. n -> RawPage]
    BY DEF BoundedSeq, SeqOf
  <2>2. n \in Nat /\ n <= MaxPages
    BY IndexingAssumption
  <2>3. pages \in Seq(RawPage) /\ Len(pages) = n /\ DOMAIN pages = 1 .. n
    BY <2>1, <2>2
  <2>4. \A i \in 1 .. n : pages[i].number = i /\ (pages[i].meaningful => pages[i].words > 0)
    BY <2>3
  <2> QED BY <2>2, <2>3, <2>4 DEF PagesAreSound
<1>4. pieces = <<>> /\ vectors = <<>>
  OBVIOUS
<1> QED BY <1>1, <1>2, <1>3, <1>4 DEF IndexInv, PiecesFit, PiecesAdvance

\* Cleaning keeps the pages that have text, in their order.
LEMMA CleanedPages ==
    ASSUME PagesAreSound(pages)
    PROVE  LET kept == {p \in Range(pages) : p.meaningful}
               s == CHOOSE t \in SetToSeqs(kept) :
                       \A i, j \in DOMAIN t : i < j => t[i].number < t[j].number
           IN  PagesAreSound(s) /\ \A i \in 1 .. Len(s) : s[i] \in kept
<1> DEFINE kept == {p \in Range(pages) : p.meaningful}
           R == {pq \in kept \X kept : pq[1].number < pq[2].number}
           Fits(t) == /\ t \in SetToSeqs(kept)
                      /\ \A i, j \in DOMAIN t : i < j => t[i].number < t[j].number
           s == CHOOSE t \in SetToSeqs(kept) :
                   \A i, j \in DOMAIN t : i < j => t[i].number < t[j].number
           n == Len(pages)
<1>1. pages \in Seq(RawPage) /\ n \in Nat /\ n <= MaxPages /\ DOMAIN pages = 1 .. n
  BY DEF PagesAreSound
<1>2. \A p \in Range(pages) : p \in RawPage /\ \E i \in 1 .. n : p = pages[i]
  BY <1>1 DEF Range
<1>3. \A p \in RawPage : p.number \in Int
  BY IndexingAssumption DEF RawPage
<1>4. IsFiniteSet(Range(pages)) /\ Cardinality(Range(pages)) <= n
  <2>1. pages \in Surjection(1 .. n, Range(pages))
    BY <1>1 DEF Surjection, Range
  <2>2. IsFiniteSet(1 .. n) /\ Cardinality(1 .. n) = n
    BY <1>1, IntervalSize
  <2> QED BY <2>1, <2>2, FS_Surjection
<1>5. IsFiniteSet(kept) /\ Cardinality(kept) <= n
  <2>1. kept \in SUBSET Range(pages)
    OBVIOUS
  <2>2. IsFiniteSet(kept) /\ Cardinality(kept) <= Cardinality(Range(pages))
    BY <1>4, <2>1, FS_Subset
  <2> QED BY <2>2, <1>1, <1>4, FS_CardinalityType
<1>6. IsStrictOrder(R, kept)
  <2>1. \A x, y \in kept : <<x, y>> \in R <=> x.number < y.number
    OBVIOUS
  <2>2. \A x \in kept : x.number \in Int
    BY <1>2, <1>3
  <2>3. ASSUME NEW x \in kept, NEW y \in kept, x # y PROVE x.number # y.number
    <3>1. PICK i \in 1 .. n, j \in 1 .. n : x = pages[i] /\ y = pages[j]
      BY <1>2
    <3>2. i < j \/ j < i
      BY <2>3, <3>1
    <3>3. x.number < y.number \/ y.number < x.number
      BY <3>1, <3>2 DEF PagesAreSound
    <3> QED BY <3>3, <2>2
  <2> HIDE DEF R, kept
  <2> QED BY <2>1, <2>2, <2>3 DEF IsStrictOrder
<1>7. PICK t : InOrder(R, kept, t)
  BY <1>5, <1>6, OrderExists
<1>8. Fits(t)
  <2>1. DOMAIN t = 1 .. Len(t)
    BY <1>5, <1>7, SeqsOfASet DEF InOrder
  <2> QED BY <1>7, <2>1 DEF InOrder
<1>9. Fits(s)
  BY <1>8
<1> HIDE DEF s
<1>10. s \in Seq(kept) /\ Len(s) = Cardinality(kept) /\ Len(s) \in Nat /\ DOMAIN s = 1 .. Len(s)
  BY <1>5, <1>9, SeqsOfASet
<1>11. \A i \in 1 .. Len(s) : s[i] \in kept
  BY <1>10
<1>12. s \in Seq(RawPage)
  BY <1>10, <1>11, <1>2
<1>13. Len(s) <= MaxPages
  <2>1. MaxPages \in Nat
    BY IndexingAssumption
  <2> QED BY <1>1, <1>5, <1>10, <2>1
<1>14. \A i, j \in 1 .. Len(s) : i < j => s[i].number < s[j].number
  BY <1>9, <1>10
<1>15. \A i \in 1 .. Len(s) : s[i].meaningful => s[i].words > 0
  BY <1>1, <1>2, <1>11 DEF PagesAreSound
<1>16. PagesAreSound(s)
  BY <1>12, <1>13, <1>14, <1>15 DEF PagesAreSound
<1> QED BY <1>11, <1>16 DEF s

\* The window at hand, as a piece of its page.
LEMMA WindowIsAPiece ==
    ASSUME IndexInv, run.step = "chunk", run.page <= Len(pages)
    PROVE  /\ run.page \in 1 .. Len(pages) /\ Page \in RawPage
           /\ Window \in Piece
           /\ Window.to - Window.from \in 1 .. WordsPerChunk
           /\ Window.page = Page.number /\ Window.from = run.from
           /\ run.from \in Nat /\ Page.words \in Nat /\ run.from < Page.words
           /\ Window.to = Smaller(run.from + WordsPerChunk, Page.words)
<1>1. run.page \in 1 .. Len(pages) /\ run.from \in Nat
  BY DEF IndexInv, RunRecord, PagesAreSound
<1>2. Page \in RawPage /\ Page.words \in Nat /\ Page.number \in 1 .. MaxPages
  <2>1. Page \in RawPage
    BY <1>1 DEF IndexInv, PagesAreSound, Page
  <2> QED BY <2>1, PageFields
<1>3. run.from < Page.words
  BY DEF IndexInv, Chunking
<1>4. WordsPerChunk \in Nat \ {0}
  BY WindowsOverlap DEF IndexInv
<1>5. Smaller(run.from + WordsPerChunk, Page.words) \in Nat
  BY <1>1, <1>2, <1>4 DEF Smaller
<1>6. Window \in Piece
  BY <1>1, <1>2, <1>5 DEF Window, Piece
<1>7. Smaller(run.from + WordsPerChunk, Page.words) - run.from \in 1 .. WordsPerChunk
  BY <1>1, <1>2, <1>3, <1>4 DEF Smaller
<1> QED BY <1>1, <1>2, <1>3, <1>6, <1>7 DEF Window

LEMMA ChunkTextKeeps ==
    ASSUME IndexInv, ChunkText
    PROVE  IndexInv'
<1> DEFINE W == Window
           next1 == Append(pieces, W)
<1>1. /\ run.step = "chunk" /\ run.page <= Len(pages)
      /\ pieces' = next1
      /\ UNCHANGED <<size, overlap, pages, vectors>>
  BY DEF ChunkText, Window
<1>2. /\ run.page \in 1 .. Len(pages) /\ Page \in RawPage
      /\ W \in Piece
      /\ W.to - W.from \in 1 .. WordsPerChunk
      /\ W.page = Page.number /\ W.from = run.from
      /\ run.from \in Nat /\ Page.words \in Nat /\ run.from < Page.words
      /\ W.to = Smaller(run.from + WordsPerChunk, Page.words)
  BY <1>1, WindowIsAPiece
<1>3. /\ pieces \in Seq(Piece) /\ PiecesFit(pieces) /\ PiecesAdvance(pieces)
      /\ pages \in Seq(RawPage) /\ Len(pages) \in Nat /\ Len(pages) <= MaxPages
      /\ \A i, j \in 1 .. Len(pages) : i < j => pages[i].number < pages[j].number
      /\ Len(vectors) <= Len(pieces)
      /\ \A i \in 1 .. Len(vectors) : vectors[i] = pieces[i]
      /\ vectors = <<>>
      /\ \A i \in 1 .. Len(pages) : pages[i].words > 0
      /\ run \in RunRecord
  BY <1>1 DEF IndexInv, PagesAreSound
<1>4. /\ WordsPerChunk \in Nat \ {0} /\ StepSize \in 1 .. WordsPerChunk
      /\ WordsPerChunk' = WordsPerChunk
  BY <1>1, WindowsOverlap DEF IndexInv, WordsPerChunk
<1>5. /\ \A i \in 1 .. Len(pages) : i < run.page =>
            CoveredBy(pieces, pages[i].number, pages[i].words)
      /\ CoveredBy(pieces, Page.number, run.from)
      /\ \A j \in 1 .. Len(pieces) : Advances(pieces[j], W)
  BY <1>1 DEF IndexInv, Chunking
<1> HIDE DEF W
<1>6. next1 \in Seq(Piece) /\ PiecesFit(next1) /\ PiecesAdvance(next1)
  BY <1>2, <1>3, <1>5, AppendedPieces
<1>7. /\ Len(next1) = Len(pieces) + 1 /\ Len(pieces) \in Nat
      /\ \A j \in 1 .. Len(next1) : next1[j] = IF j = Len(next1) THEN W ELSE pieces[j]
  BY <1>2, <1>3
<1>8. CoveredBy(next1, Page.number, W.to)
  BY <1>2, <1>3, <1>5, CoverExtends
<1>9. ASSUME NEW i \in 1 .. Len(pages), i < run.page
      PROVE  CoveredBy(next1, pages[i].number, pages[i].words)
  <2>1. pages[i].words \in Nat
    BY <1>3, PageFields
  <2> QED BY <1>2, <1>3, <1>5, <1>9, <2>1, CoverGrows
<1> HIDE DEF next1
<1>10. run' \in RunRecord /\ run'.step = "chunk" /\ Chunking'
  <2>1. CASE run.from + WordsPerChunk >= Page.words
    <3>1. run' = [run EXCEPT !.page = @ + 1, !.from = 0]
      BY <2>1 DEF ChunkText
    <3>2. /\ run'.step = "chunk" /\ run'.page = run.page + 1 /\ run'.from = 0
          /\ run' \in RunRecord
      <4>1. run.page + 1 \in 1 .. MaxPages + 1 /\ 0 \in Nat
        BY <1>2, <1>3, IndexingAssumption
      <4> QED BY <3>1, <4>1, <1>1, <1>3 DEF RunRecord
    <3>3. W.to = Page.words
      BY <2>1, <1>2, <1>4 DEF Smaller
    <3>4. ASSUME NEW i \in 1 .. Len(pages), i < run'.page
          PROVE  CoveredBy(next1, pages[i].number, pages[i].words)
      <4>1. CASE i < run.page
        BY <4>1, <1>9
      <4>2. CASE i = run.page
        BY <4>2, <1>8, <3>3 DEF Page
      <4> QED BY <4>1, <4>2, <3>2, <3>4, <1>2
    <3>5. ASSUME run'.page <= Len(pages)
          PROVE  /\ run'.from < Page'.words
                 /\ CoveredBy(next1, Page'.number, run'.from)
                 /\ \A j \in 1 .. Len(next1) : Advances(next1[j], Window')
      <4>1. run'.page \in 1 .. Len(pages) /\ Page' = pages[run'.page]
        BY <3>2, <3>5, <1>1, <1>2 DEF Page
      <4>2. run'.from < Page'.words
        BY <4>1, <3>2, <1>3
      <4>3. CoveredBy(next1, Page'.number, run'.from)
        BY <3>2, EmptyCover
      <4>4. Page.number < Page'.number
        BY <4>1, <3>2, <1>2, <1>3 DEF Page
      <4>5. Window'.page = Page'.number
        BY DEF Window
      <4>6. Page.number \in Int /\ Page'.number \in Int
        BY <4>1, <1>2, <1>3, PageFields
      <4>7. ASSUME NEW j \in 1 .. Len(next1) PROVE next1[j].page < Window'.page
        <5>1. next1[j] = W \/ (j \in 1 .. Len(pieces) /\ next1[j] = pieces[j])
          BY <1>7
        <5>2. CASE next1[j] = W
          BY <5>2, <1>2, <4>4, <4>5
        <5>3. CASE j \in 1 .. Len(pieces) /\ next1[j] = pieces[j]
          <6>1. pieces[j].page < W.page \/ pieces[j].page = W.page
            BY <5>3, <1>5 DEF Advances
          <6>2. pieces[j].page \in Int
            BY <5>3, <1>3, PieceFields
          <6> QED BY <5>3, <6>1, <6>2, <1>2, <4>4, <4>5, <4>6
        <5> QED BY <5>1, <5>2, <5>3
      <4> QED BY <4>2, <4>3, <4>7 DEF Advances
    <3>6. run'.page <= Len(pages) + 1
      BY <3>2, <1>2
    <3> QED BY <3>2, <3>4, <3>5, <3>6, <1>1 DEF Chunking
  <2>2. CASE ~ (run.from + WordsPerChunk >= Page.words)
    <3>1. run' = [run EXCEPT !.from = @ + StepSize]
      BY <2>2 DEF ChunkText
    <3>2. /\ run'.step = "chunk" /\ run'.page = run.page /\ run'.from = run.from + StepSize
          /\ run' \in RunRecord
      <4>1. run.from + StepSize \in Nat
        BY <1>2, <1>4
      <4> QED BY <3>1, <4>1, <1>1, <1>3 DEF RunRecord
    <3>3. Page' = Page
      BY <3>2, <1>1 DEF Page
    <3>4. W.to = run.from + WordsPerChunk
      BY <2>2, <1>2, <1>4 DEF Smaller
    <3>5. run'.from < Page.words /\ run'.from <= W.to /\ W.to \in Nat /\ run'.from \in Nat
      BY <2>2, <3>2, <3>4, <1>2, <1>4
    <3>6. CoveredBy(next1, Page.number, run'.from)
      BY <3>2, <3>5, <1>8, CoverOfLess
    <3>7. /\ Window'.page = W.page
          /\ Window'.to > W.to /\ Window'.to \in Int
      <4>1. Window'.page = Page.number
        BY <3>3 DEF Window
      <4>2. Window'.to = Smaller(run.from + StepSize + WordsPerChunk, Page.words)
        BY <3>2, <3>3, <1>4 DEF Window
      <4>3. /\ StepSize \in Nat /\ StepSize > 0
            /\ run.from + WordsPerChunk < Page.words
        BY <2>2, <1>2, <1>4
      <4>4. Window'.to \in Int /\ Window'.to > run.from + WordsPerChunk
        BY <4>2, <4>3, <1>2, <1>4 DEF Smaller
      <4> QED BY <4>1, <4>4, <3>4, <1>2
    <3>8. ASSUME NEW j \in 1 .. Len(next1) PROVE Advances(next1[j], Window')
      <4>1. next1[j] = W \/ (j \in 1 .. Len(pieces) /\ next1[j] = pieces[j])
        BY <1>7
      <4>2. CASE next1[j] = W
        BY <4>2, <3>5, <3>7 DEF Advances
      <4>3. CASE j \in 1 .. Len(pieces) /\ next1[j] = pieces[j]
        <5>1. pieces[j].to \in Nat
          BY <4>3, <1>3, PieceFields
        <5>2. Advances(pieces[j], W)
          BY <4>3, <1>5
        <5> QED BY <4>3, <5>1, <5>2, <3>5, <3>7 DEF Advances
      <4> QED BY <4>1, <4>2, <4>3
    <3>9. run'.page <= Len(pages) + 1
      BY <3>2, <1>2
    <3> QED BY <3>2, <3>3, <3>5, <3>6, <3>8, <3>9, <1>1, <1>9 DEF Chunking
  <2> QED BY <2>1, <2>2
<1>11. PiecesFit(pieces') /\ PiecesFit(pieces)' = PiecesFit(pieces')
  BY <1>1, <1>4, <1>6 DEF PiecesFit
<1>12. /\ size' \in 1 .. MaxSize /\ overlap' \in 0 .. size' - 1
       /\ PagesAreSound(pages')
  BY <1>1 DEF IndexInv
<1>13. Len(vectors') <= Len(pieces') /\ \A i \in 1 .. Len(vectors') : vectors'[i] = pieces'[i]
  BY <1>1, <1>3, <1>6
<1>14. vectors' \in Seq(Piece) /\ \A i \in 1 .. Len(pages') : pages'[i].words > 0
  BY <1>1, <1>3
<1> QED BY <1>1, <1>3, <1>6, <1>10, <1>11, <1>12, <1>13, <1>14 DEF IndexInv

LEMMA CleanTextKeeps ==
    ASSUME IndexInv, CleanText
    PROVE  IndexInv'
<1>1. /\ run.step = "clean" /\ UNCHANGED <<size, overlap, pieces, vectors>>
      /\ run' = [run EXCEPT !.step = IF pages' = <<>> THEN "failed" ELSE "chunk"]
  BY DEF CleanText
<1>2. /\ run \in RunRecord /\ run.page = 1 /\ run.from = 0
      /\ pieces = <<>> /\ vectors = <<>>
      /\ size \in 1 .. MaxSize /\ overlap \in 0 .. size - 1
      /\ pieces \in Seq(Piece) /\ vectors \in Seq(Piece)
      /\ PiecesFit(pieces) /\ PiecesAdvance(pieces)
  BY <1>1 DEF IndexInv
<1>3. /\ PagesAreSound(pages')
      /\ \A i \in 1 .. Len(pages') : pages'[i] \in {p \in Range(pages) : p.meaningful}
  BY CleanedPages DEF IndexInv, CleanText
<1>4. \A i \in 1 .. Len(pages') : pages'[i].words > 0
  BY <1>3 DEF PagesAreSound
<1>5. PiecesFit(pieces)' /\ PiecesAdvance(pieces)'
  BY <1>1, <1>2 DEF PiecesFit, PiecesAdvance
<1>6. run' \in RunRecord /\ run'.step \in {"failed", "chunk"} /\ run'.page = 1 /\ run'.from = 0
  BY <1>1, <1>2 DEF RunRecord, RunSteps
<1>7. Len(pages') \in Nat /\ pages' \in Seq(RawPage)
  BY <1>3 DEF PagesAreSound
<1>8. Chunking'
  <2>1. 1 <= Len(pages') => Page' = pages'[1] /\ 0 < Page'.words
    BY <1>4, <1>6, <1>7, PageFields DEF Page
  <2>2. \A j \in 1 .. Len(pieces') : FALSE
    BY <1>1, <1>2
  <2> QED BY <1>6, <1>7, <2>1, <2>2, EmptyCover DEF Chunking
<1> QED BY <1>1, <1>2, <1>3, <1>4, <1>5, <1>6, <1>8 DEF IndexInv

LEMMA ChunkedKeeps ==
    ASSUME IndexInv, Chunked
    PROVE  IndexInv'
<1>1. /\ run.step = "chunk" /\ run.page > Len(pages)
      /\ run' = [run EXCEPT !.step = "embed"]
      /\ UNCHANGED <<size, overlap, pages, pieces, vectors>>
  BY DEF Chunked
<1>2. /\ run \in RunRecord
      /\ vectors = <<>> /\ size \in 1 .. MaxSize /\ overlap \in 0 .. size - 1
      /\ PagesAreSound(pages)
      /\ pieces \in Seq(Piece) /\ vectors \in Seq(Piece)
      /\ PiecesFit(pieces) /\ PiecesAdvance(pieces)
      /\ \A i \in 1 .. Len(pages) : pages[i].words > 0
      /\ Len(vectors) <= Len(pieces)
      /\ \A i \in 1 .. Len(vectors) : vectors[i] = pieces[i]
  BY <1>1 DEF IndexInv
<1>3. run' \in RunRecord /\ run'.step = "embed"
  BY <1>1, <1>2 DEF RunRecord, RunSteps
<1>4. \A i \in 1 .. Len(pages) : CoveredBy(pieces, pages[i].number, pages[i].words)
  <2>1. run.page \in Nat /\ Len(pages) \in Nat
    BY <1>2, IndexingAssumption DEF RunRecord, PagesAreSound
  <2> QED BY <1>1, <2>1 DEF IndexInv, Chunking
<1>5. PiecesFit(pieces)' /\ PiecesAdvance(pieces)'
  BY <1>1, <1>2 DEF PiecesFit, PiecesAdvance, WordsPerChunk
<1> QED BY <1>1, <1>2, <1>3, <1>4, <1>5 DEF IndexInv

\* What the actions after chunking leave alone.
LEMMA EmbeddingKeeps ==
    ASSUME IndexInv, run.step = "embed", UNCHANGED <<size, overlap, pages, pieces>>,
           run' \in RunRecord, run'.step \in {"embed", "stored", "failed"},
           vectors' \in Seq(Piece), Len(vectors') <= Len(pieces),
           \A i \in 1 .. Len(vectors') : vectors'[i] = pieces[i],
           run'.step = "stored" => Len(vectors') = Len(pieces)
    PROVE  IndexInv'
<1>1. /\ size \in 1 .. MaxSize /\ overlap \in 0 .. size - 1
      /\ PagesAreSound(pages)
      /\ pieces \in Seq(Piece)
      /\ PiecesFit(pieces) /\ PiecesAdvance(pieces)
      /\ \A i \in 1 .. Len(pages) : pages[i].words > 0
      /\ \A i \in 1 .. Len(pages) : CoveredBy(pieces, pages[i].number, pages[i].words)
  BY DEF IndexInv
<1>2. PiecesFit(pieces)' /\ PiecesAdvance(pieces)'
  BY <1>1 DEF PiecesFit, PiecesAdvance, WordsPerChunk
<1> QED BY <1>1, <1>2 DEF IndexInv

LEMMA EmbedBatchKeeps ==
    ASSUME IndexInv, EmbedBatch
    PROVE  IndexInv'
<1> DEFINE n == Smaller(BatchSize, Len(pieces) - Len(vectors))
           m == Len(vectors)
           batch == [i \in 1 .. n |-> pieces[m + i]]
<1>1. /\ run.step = "embed" /\ m < Len(pieces)
      /\ vectors' = vectors \o batch
      /\ UNCHANGED <<size, overlap, pages, run, pieces>>
  BY DEF EmbedBatch
<1>2. /\ pieces \in Seq(Piece) /\ vectors \in Seq(Piece) /\ run \in RunRecord
      /\ \A i \in 1 .. m : vectors[i] = pieces[i]
      /\ m \in Nat /\ Len(pieces) \in Nat
  BY DEF IndexInv
<1>3. n \in Nat /\ m + n <= Len(pieces)
  BY <1>1, <1>2, IndexingAssumption DEF Smaller
<1> HIDE DEF n, m
<1>4. \A i \in 1 .. n : m + i \in 1 .. Len(pieces) /\ batch[i] = pieces[m + i]
  BY <1>2, <1>3
<1>5. batch \in Seq(Piece) /\ Len(batch) = n
  <2>1. batch \in [1 .. n -> Piece]
    BY <1>2, <1>4
  <2> QED BY <2>1, <1>3
<1> HIDE DEF batch
<1>6. vectors' \in Seq(Piece) /\ Len(vectors') = m + n
  <2>1. /\ vectors \o batch \in Seq(Piece)
        /\ Len(vectors \o batch) = Len(vectors) + Len(batch)
    BY <1>2, <1>5, ConcatProperties
  <2> QED BY <2>1, <1>1, <1>5 DEF m
<1>7. \A i \in 1 .. Len(vectors') : vectors'[i] = pieces[i]
  <2> SUFFICES ASSUME NEW i \in 1 .. m + n PROVE vectors'[i] = pieces[i]
    BY <1>6
  <2>1. CASE i <= m
    BY <2>1, <1>1, <1>2, <1>5 DEF m
  <2>2. CASE i > m
    <3>1. i - m \in 1 .. n /\ m + (i - m) = i
      BY <2>2, <1>2, <1>3
    <3>2. vectors'[i] = batch[i - m]
      BY <2>2, <3>1, <1>1, <1>2, <1>3, <1>5 DEF m
    <3> QED BY <3>1, <3>2, <1>4
  <2> QED BY <2>1, <2>2, <1>2, <1>3
<1> QED BY <1>1, <1>2, <1>3, <1>6, <1>7, EmbeddingKeeps

LEMMA IndexNextInv ==
    ASSUME IndexInv, [IndexNext]_indexVars
    PROVE  IndexInv'
<1>1. CASE CleanText
  BY <1>1, CleanTextKeeps
<1>2. CASE ChunkText
  BY <1>2, ChunkTextKeeps
<1>3. CASE Chunked
  BY <1>3, ChunkedKeeps
<1>4. CASE EmbedBatch
  BY <1>4, EmbedBatchKeeps
<1>5. CASE EmbeddingFails
  <2>1. /\ run.step = "embed" /\ run' = [run EXCEPT !.step = "failed"]
        /\ UNCHANGED <<size, overlap, pages, pieces, vectors>>
    BY <1>5 DEF EmbeddingFails
  <2>2. run' \in RunRecord /\ run'.step = "failed"
    BY <2>1 DEF IndexInv, RunRecord, RunSteps
  <2>3. /\ vectors' \in Seq(Piece) /\ Len(vectors') <= Len(pieces)
        /\ \A i \in 1 .. Len(vectors') : vectors'[i] = pieces[i]
    BY <2>1 DEF IndexInv
  <2> QED BY <2>1, <2>2, <2>3, EmbeddingKeeps
<1>6. CASE StorePieces
  <2>1. /\ run.step = "embed" /\ run' = [run EXCEPT !.step = "stored"]
        /\ Len(vectors) = Len(pieces)
        /\ UNCHANGED <<size, overlap, pages, pieces, vectors>>
    BY <1>6 DEF StorePieces
  <2>2. run' \in RunRecord /\ run'.step = "stored"
    BY <2>1 DEF IndexInv, RunRecord, RunSteps
  <2>3. /\ vectors' \in Seq(Piece) /\ Len(vectors') <= Len(pieces)
        /\ \A i \in 1 .. Len(vectors') : vectors'[i] = pieces[i]
    BY <2>1 DEF IndexInv
  <2> QED BY <2>1, <2>2, <2>3, EmbeddingKeeps
<1>7. CASE UNCHANGED indexVars
  <2>1. PiecesFit(pieces)' <=> PiecesFit(pieces)
    BY <1>7 DEF indexVars, PiecesFit, WordsPerChunk
  <2>2. PiecesAdvance(pieces)' <=> PiecesAdvance(pieces)
    BY <1>7 DEF indexVars
  <2>3. Chunking' <=> Chunking
    BY <1>7 DEF indexVars, Chunking, Page, Window, WordsPerChunk
  <2> QED BY <1>7, <2>1, <2>2, <2>3 DEF indexVars, IndexInv
<1> QED BY <1>1, <1>2, <1>3, <1>4, <1>5, <1>6, <1>7 DEF IndexNext

\* Every run, whatever it is asked to index, has values of its types.
THEOREM IndexTypeCorrect == IndexSpec => []IndexTypeOK
<1>1. IndexInv => IndexTypeOK
  <2> SUFFICES ASSUME IndexInv PROVE IndexTypeOK
    OBVIOUS
  <2>1. /\ pages \in Seq(RawPage) /\ pieces \in Seq(Piece) /\ vectors \in Seq(Piece)
        /\ run \in RunRecord
    BY DEF IndexInv, PagesAreSound
  <2>2. /\ \A i \in DOMAIN pages : pages[i] \in RawPage
        /\ \A i \in DOMAIN pieces : pieces[i] \in Piece
        /\ \A i \in DOMAIN vectors : vectors[i] \in Piece
    BY <2>1
  <2> QED BY <2>1, <2>2 DEF IndexInv, IndexTypeOK, RunRecord
<1> QED BY <1>1, IndexInitInv, IndexNextInv, PTL DEF IndexSpec

LEMMA StoredIsWhole == IndexInv => IndexIsWhole
<1> SUFFICES ASSUME IndexInv, run.step = "stored" PROVE IndexIsWhole
  BY DEF IndexIsWhole
<1>1. /\ PagesAreSound(pages) /\ pages \in Seq(RawPage)
      /\ pieces \in Seq(Piece) /\ vectors \in Seq(Piece)
      /\ PiecesFit(pieces) /\ PiecesAdvance(pieces)
      /\ \A i \in 1 .. Len(pages) : CoveredBy(pieces, pages[i].number, pages[i].words)
      /\ Len(vectors) = Len(pieces) /\ \A i \in 1 .. Len(vectors) : vectors[i] = pieces[i]
  BY DEF IndexInv, PagesAreSound
<1>2. DOMAIN pages = 1 .. Len(pages) /\ DOMAIN pieces = 1 .. Len(pieces)
  BY <1>1
<1>3. \A i \in DOMAIN pages : \A w \in 0 .. pages[i].words - 1 :
          \E j \in DOMAIN pieces : /\ pieces[j].page = pages[i].number
                                   /\ w \in pieces[j].from .. pieces[j].to - 1
  BY <1>1, <1>2 DEF CoveredBy
<1>4. \A j \in DOMAIN pieces : pieces[j].to - pieces[j].from \in 1 .. WordsPerChunk
  BY <1>1, <1>2 DEF PiecesFit
<1>5. \A j, k \in DOMAIN pieces : j < k =>
          \/ pieces[j].page < pieces[k].page
          \/ pieces[j].page = pieces[k].page /\ pieces[j].to < pieces[k].to
  BY <1>1, <1>2 DEF PiecesAdvance, Advances
<1>6. vectors = pieces
  BY <1>1, SeqEqual
<1> QED BY <1>3, <1>4, <1>5, <1>6 DEF IndexIsWhole

\* What is stored is the document: chunkText leaves no word out, repeats no
\* chunk and keeps the order, whatever chunkSize and chunkOverlap are, and
\* generateEmbeddings gives each chunk its own vector, whatever the batches.
THEOREM IndexIsWholeHolds == IndexSpec => []IndexIsWhole
<1> QED BY StoredIsWhole, IndexInitInv, IndexNextInv, PTL DEF IndexSpec
----------------------------------------------------------------------------
\* Retrieval: rankings

IsList(s) == s \in Seq(Chunks) /\ IsInjective(s)

LEMMA ListFacts ==
    ASSUME NEW s, IsList(s)
    PROVE  /\ Len(s) \in Nat /\ DOMAIN s = 1 .. Len(s)
           /\ \A i \in 1 .. Len(s) : s[i] \in Chunks /\ s[i] \in Range(s)
           /\ \A c \in Range(s) : \E i \in 1 .. Len(s) : s[i] = c
           /\ Range(s) \subseteq Chunks
           /\ \A i, j \in 1 .. Len(s) : s[i] = s[j] => i = j
BY DEF IsList, Range, IsInjective

LEMMA ListIsASeqOfItsRange ==
    ASSUME NEW s, IsList(s)
    PROVE  /\ IsFiniteSet(Range(s)) /\ Cardinality(Range(s)) = Len(s)
           /\ s \in SetToSeqs(Range(s))
<1> DEFINE n == Len(s)
<1>1. n \in Nat /\ s \in [1 .. n -> Range(s)]
  BY DEF IsList, Range
<1>2. s \in Surjection(1 .. n, Range(s)) /\ s \in Injection(1 .. n, Range(s))
  BY <1>1, ListFacts DEF Surjection, Injection, IsInjective
<1>3. IsFiniteSet(1 .. n) /\ Cardinality(1 .. n) = n
  BY <1>1, IntervalSize
<1>4. IsFiniteSet(Range(s)) /\ Cardinality(Range(s)) = n
  BY <1>2, <1>3, FS_Surjection
<1> QED BY <1>1, <1>4, ListFacts DEF SetToSeqs

LEMMA SeqOfListIsAList ==
    ASSUME NEW s, IsList(s), NEW t \in SetToSeqs(Range(s))
    PROVE  IsList(t) /\ Len(t) = Len(s) /\ Range(t) = Range(s)
<1>1. IsFiniteSet(Range(s)) /\ Cardinality(Range(s)) = Len(s)
  BY ListIsASeqOfItsRange
<1>2. /\ t \in Seq(Range(s)) /\ Len(t) = Cardinality(Range(s))
      /\ IsInjective(t) /\ Range(t) = Range(s)
  BY <1>1, SeqsOfASet
<1>3. Range(s) \subseteq Chunks
  BY ListFacts
<1>4. t \in Seq(Chunks)
  BY <1>2, <1>3
<1> QED BY <1>1, <1>2, <1>4 DEF IsList

LEMMA IndexInList ==
    ASSUME NEW s, IsList(s), NEW i \in 1 .. Len(s)
    PROVE  IndexIn(s, s[i]) = i
BY ListFacts DEF IndexIn

LEMMA IndexInRange ==
    ASSUME NEW s, IsList(s), NEW c \in Range(s)
    PROVE  IndexIn(s, c) \in 1 .. Len(s) /\ s[IndexIn(s, c)] = c
BY ListFacts DEF IndexIn

LEMMA LeadsInList ==
    ASSUME NEW s, IsList(s), NEW i \in 1 .. Len(s), NEW j \in 1 .. Len(s)
    PROVE  Leads(s, s[i], s[j]) <=> i < j
BY ListFacts, IndexInList DEF Leads

LEMMA CutOfList ==
    ASSUME NEW s, IsList(s), NEW n \in Nat
    PROVE  /\ IsList(Cut(s, n))
           /\ Len(Cut(s, n)) = IF Len(s) < n THEN Len(s) ELSE n
           /\ \A i \in 1 .. Len(Cut(s, n)) : i \in 1 .. Len(s) /\ Cut(s, n)[i] = s[i]
           /\ Range(Cut(s, n)) \subseteq Range(s)
<1> DEFINE m == IF Len(s) < n THEN Len(s) ELSE n
           t == Cut(s, n)
<1>1. m \in 0 .. Len(s) /\ Len(s) \in Nat /\ t = SubSeq(s, 1, m)
  BY ListFacts DEF Cut
<1>2. s \in Seq(Chunks)
  BY DEF IsList
<1>3. t \in Seq(Chunks) /\ Len(t) = m /\ DOMAIN t = 1 .. m
  BY <1>1, <1>2
<1>4. \A i \in 1 .. m : i \in 1 .. Len(s) /\ t[i] = s[i]
  BY <1>1, <1>2
<1> HIDE DEF t, m
<1>5. IsInjective(t)
  BY <1>3, <1>4, ListFacts DEF IsInjective
<1>6. Range(t) \subseteq Range(s)
  BY <1>3, <1>4, ListFacts DEF Range
<1> QED BY <1>3, <1>4, <1>5, <1>6 DEF IsList, t, m

LEMMA UncutList ==
    ASSUME NEW s, IsList(s), NEW n \in Nat, Len(s) <= n
    PROVE  Cut(s, n) = s
<1>1. /\ Cut(s, n) \in Seq(Chunks) /\ s \in Seq(Chunks)
      /\ Len(Cut(s, n)) = Len(s)
      /\ \A i \in 1 .. Len(Cut(s, n)) : Cut(s, n)[i] = s[i]
  BY CutOfList, ListFacts DEF IsList
<1> QED BY <1>1, SeqEqual
----------------------------------------------------------------------------
\* Scores, which are fractions

Fraction == Nat \X (Nat \ {0})

LEMMA ProductOrder ==
    ASSUME NEW a \in Nat, NEW b \in Nat, NEW c \in Nat \ {0}
    PROVE  a < b <=> a * c < b * c
OBVIOUS

LEMMA GreaterIsTransitive ==
    ASSUME NEW x \in Fraction, NEW y \in Fraction, NEW z \in Fraction
    PROVE  /\ Greater(x, y) /\ ~Greater(z, y) => Greater(x, z)
           /\ ~Greater(y, x) /\ Greater(y, z) => Greater(x, z)
           /\ Greater(x, y) => ~Greater(y, x)
<1>1. /\ x[1] \in Nat /\ x[2] \in Nat \ {0}
      /\ y[1] \in Nat /\ y[2] \in Nat \ {0}
      /\ z[1] \in Nat /\ z[2] \in Nat \ {0}
  BY DEF Fraction
<1>2. ASSUME NEW a \in Nat, NEW b \in Nat, NEW c \in Nat, NEW p \in Nat \ {0},
             NEW q \in Nat \ {0}, NEW r \in Nat \ {0},
             a * q >= b * p, b * r >= c * q, a * q > b * p \/ b * r > c * q
      PROVE  a * r > c * p
  <2>1. (a * q) * r >= (b * p) * r /\ (b * r) * p >= (c * q) * p
    BY <1>2
  <2>2. (a * q) * r > (b * p) * r \/ (b * r) * p > (c * q) * p
    BY <1>2
  <2>3. (a * q) * r = (a * r) * q /\ (b * p) * r = (b * r) * p /\ (c * q) * p = (c * p) * q
    OBVIOUS
  <2>4. (a * r) * q > (c * p) * q
    BY <2>1, <2>2, <2>3
  <2>5. a * r \in Nat /\ c * p \in Nat
    OBVIOUS
  <2> QED BY <2>4, <2>5, ProductOrder
<1>3. /\ x[1] * y[2] \in Nat /\ y[1] * x[2] \in Nat
      /\ y[1] * z[2] \in Nat /\ z[1] * y[2] \in Nat
      /\ x[1] * z[2] \in Nat /\ z[1] * x[2] \in Nat
  BY <1>1
<1>4. ASSUME Greater(x, y), ~Greater(z, y) PROVE Greater(x, z)
  <2>1. x[1] * y[2] > y[1] * x[2] /\ y[1] * z[2] >= z[1] * y[2]
    BY <1>3, <1>4 DEF Greater
  <2>2. x[1] * y[2] >= y[1] * x[2]
    BY <2>1, <1>3
  <2>3. x[1] * z[2] > z[1] * x[2]
    BY <1>1, <1>2, <2>1, <2>2
  <2> QED BY <2>3 DEF Greater
<1>5. ASSUME ~Greater(y, x), Greater(y, z) PROVE Greater(x, z)
  <2>1. x[1] * y[2] >= y[1] * x[2] /\ y[1] * z[2] > z[1] * y[2]
    BY <1>3, <1>5 DEF Greater
  <2>2. y[1] * z[2] >= z[1] * y[2]
    BY <2>1, <1>3
  <2>3. x[1] * z[2] > z[1] * x[2]
    BY <1>1, <1>2, <2>1, <2>2
  <2> QED BY <2>3 DEF Greater
<1>6. Greater(x, y) => ~Greater(y, x)
  BY <1>3 DEF Greater
<1> QED BY <1>4, <1>5, <1>6

LEMMA SumsOfFractions ==
    ASSUME NEW x \in Fraction, NEW y \in Fraction
    PROVE  Sum2(x, y) \in Fraction
<1>1. /\ x[1] \in Nat /\ x[2] \in Nat \ {0}
      /\ y[1] \in Nat /\ y[2] \in Nat \ {0}
  BY DEF Fraction
<1>2. x[1] * y[2] + y[1] * x[2] \in Nat /\ x[2] * y[2] \in Nat \ {0}
  BY <1>1
<1> QED BY <1>2 DEF Sum2, Fraction

\* More of one share and no less of the other is more of both.
LEMMA SumsAreOrdered ==
    ASSUME NEW x \in Fraction, NEW y \in Fraction, NEW u \in Fraction, NEW w \in Fraction,
           ~Greater(u, x), ~Greater(w, y), Greater(x, u) \/ Greater(y, w)
    PROVE  Greater(Sum2(x, y), Sum2(u, w))
<1>1. /\ x[1] \in Nat /\ x[2] \in Nat \ {0} /\ y[1] \in Nat /\ y[2] \in Nat \ {0}
      /\ u[1] \in Nat /\ u[2] \in Nat \ {0} /\ w[1] \in Nat /\ w[2] \in Nat \ {0}
  BY DEF Fraction
<1>2. ASSUME NEW a \in Nat, NEW b \in Nat, NEW c \in Nat, NEW d \in Nat,
             NEW p \in Nat \ {0}, NEW q \in Nat \ {0}, NEW r \in Nat \ {0}, NEW t \in Nat \ {0},
             a * r >= c * p, b * t >= d * q, a * r > c * p \/ b * t > d * q
      PROVE  (a * q + b * p) * (r * t) > (c * t + d * r) * (p * q)
  <2> DEFINE A == a * r
             B == b * t
             C == c * p
             D == d * q
             Q == q * t
             P == p * r
  <2>1. A \in Nat /\ B \in Nat /\ C \in Nat /\ D \in Nat /\ Q \in Nat \ {0} /\ P \in Nat \ {0}
    OBVIOUS
  <2>2. (a * q + b * p) * (r * t) = A * Q + B * P
    OBVIOUS
  <2>3. (c * t + d * r) * (p * q) = C * Q + D * P
    OBVIOUS
  <2>4. A >= C /\ B >= D /\ (A > C \/ B > D)
    BY <1>2
  <2> HIDE DEF A, B, C, D, P, Q
  <2>5. A * Q >= C * Q /\ B * P >= D * P
    BY <2>1, <2>4
  <2>6. A * Q > C * Q \/ B * P > D * P
    BY <2>1, <2>4
  <2>7. /\ A * Q \in Nat /\ C * Q \in Nat /\ B * P \in Nat /\ D * P \in Nat
    BY <2>1
  <2>8. A * Q + B * P > C * Q + D * P
    BY <2>5, <2>6, <2>7
  <2> QED BY <2>2, <2>3, <2>8
<1>3. /\ x[1] * u[2] \in Nat /\ u[1] * x[2] \in Nat
      /\ y[1] * w[2] \in Nat /\ w[1] * y[2] \in Nat
  BY <1>1
<1>4. /\ x[1] * u[2] >= u[1] * x[2] /\ y[1] * w[2] >= w[1] * y[2]
      /\ x[1] * u[2] > u[1] * x[2] \/ y[1] * w[2] > w[1] * y[2]
  BY <1>3 DEF Greater
<1>5. (x[1] * y[2] + y[1] * x[2]) * (u[2] * w[2]) > (u[1] * w[2] + w[1] * u[2]) * (x[2] * y[2])
  BY <1>1, <1>2, <1>4
<1> QED BY <1>5 DEF Greater, Sum2

LEMMA Shares ==
    ASSUME NEW s, IsList(s), NEW c
    PROVE  Share(s, c) \in Fraction
<1>1. RrfK \in Nat
  BY RetrievalAssumption
<1>2. CASE c \in Range(s)
  <2>1. IndexIn(s, c) \in Nat \ {0}
    BY <1>2, IndexInRange, ListFacts
  <2> QED BY <1>1, <1>2, <2>1 DEF Share, Fraction
<1>3. CASE c \notin Range(s)
  BY <1>3 DEF Share, Fraction
<1> QED BY <1>2, <1>3

LEMMA SharesAreOrdered ==
    ASSUME NEW s, IsList(s), NEW a, NEW b
    PROVE  /\ Leads(s, a, b) => Greater(Share(s, a), Share(s, b))
           /\ ~Leads(s, b, a) => ~Greater(Share(s, b), Share(s, a))
<1> DEFINE i == IndexIn(s, a)
           j == IndexIn(s, b)
<1>1. RrfK \in Nat
  BY RetrievalAssumption
<1>2. /\ a \in Range(s) => i \in Nat \ {0}
      /\ b \in Range(s) => j \in Nat \ {0}
  BY IndexInRange, ListFacts
<1>3. /\ a \in Range(s) => Share(s, a)[1] = 1 /\ Share(s, a)[2] = RrfK + i
      /\ a \notin Range(s) => Share(s, a)[1] = 0 /\ Share(s, a)[2] = 1
      /\ b \in Range(s) => Share(s, b)[1] = 1 /\ Share(s, b)[2] = RrfK + j
      /\ b \notin Range(s) => Share(s, b)[1] = 0 /\ Share(s, b)[2] = 1
  BY DEF Share
<1>4. /\ Leads(s, a, b) <=> a \in Range(s) /\ (b \in Range(s) => i < j)
      /\ Leads(s, b, a) <=> b \in Range(s) /\ (a \in Range(s) => j < i)
  BY DEF Leads
<1> HIDE DEF i, j
<1> QED BY <1>1, <1>2, <1>3, <1>4 DEF Greater
----------------------------------------------------------------------------
\* Fusion

ScoreOf(v, k) == [c \in Range(v) \cup Range(k) |-> Sum2(Share(v, c), Share(k, c))]

Found(v, k) == Range(v) \cup Range(k)

Preference(v, k) ==
    {ab \in Found(v, k) \X Found(v, k) : Precedes(v, k, ScoreOf(v, k), ab[1], ab[2])}

LEMMA Scores ==
    ASSUME NEW v, IsList(v), NEW k, IsList(k), NEW c \in Found(v, k)
    PROVE  /\ ScoreOf(v, k)[c] \in Fraction
           /\ ScoreOf(v, k)[c] = Sum2(Share(v, c), Share(k, c))
<1>1. ScoreOf(v, k)[c] = Sum2(Share(v, c), Share(k, c))
  BY DEF ScoreOf, Found
<1> QED BY <1>1, Shares, SumsOfFractions

LEMMA LeadsIsAnOrder ==
    ASSUME NEW s, IsList(s)
    PROVE  /\ \A a : ~Leads(s, a, a)
           /\ \A a, b, c : Leads(s, a, b) /\ Leads(s, b, c) => Leads(s, a, c)
           /\ \A a, b : a \in Range(s) /\ a # b => Leads(s, a, b) \/ Leads(s, b, a)
<1>1. \A c \in Range(s) : IndexIn(s, c) \in Nat /\ s[IndexIn(s, c)] = c
  BY IndexInRange, ListFacts
<1>2. \A a : ~Leads(s, a, a)
  BY <1>1 DEF Leads
<1>3. ASSUME NEW a, NEW b, NEW c, Leads(s, a, b), Leads(s, b, c) PROVE Leads(s, a, c)
  BY <1>1, <1>3 DEF Leads
<1>4. ASSUME NEW a, NEW b, a \in Range(s), a # b PROVE Leads(s, a, b) \/ Leads(s, b, a)
  <2>1. CASE b \notin Range(s)
    BY <1>4, <2>1 DEF Leads
  <2>2. CASE b \in Range(s)
    <3>1. IndexIn(s, a) # IndexIn(s, b)
      BY <1>1, <1>4, <2>2
    <3> QED BY <3>1, <1>1, <1>4, <2>2 DEF Leads
  <2> QED BY <2>1, <2>2
<1> QED BY <1>2, <1>3, <1>4

\* The place in the Map puts all chunks found in an order.
LEMMA EarlierIsAnOrder ==
    ASSUME NEW v, IsList(v), NEW k, IsList(k)
    PROVE  /\ \A a : ~Earlier(v, k, a, a)
           /\ \A a, b, c : Earlier(v, k, a, b) /\ Earlier(v, k, b, c) => Earlier(v, k, a, c)
           /\ \A a, b \in Found(v, k) : a # b => Earlier(v, k, a, b) \/ Earlier(v, k, b, a)
<1>1. \A a : ~Earlier(v, k, a, a)
  BY LeadsIsAnOrder DEF Earlier
<1>2. ASSUME NEW a, NEW b, NEW c, Earlier(v, k, a, b), Earlier(v, k, b, c)
      PROVE  Earlier(v, k, a, c)
  <2>1. CASE Leads(v, a, b) /\ Leads(v, b, c)
    BY <2>1, LeadsIsAnOrder DEF Earlier
  <2>2. CASE Leads(v, a, b) /\ ~Leads(v, b, c)
    <3>1. c \notin Range(v) /\ a \in Range(v)
      BY <2>2, <1>2 DEF Earlier, Leads
    <3> QED BY <3>1 DEF Earlier, Leads
  <2>3. CASE ~Leads(v, a, b)
    <3>1. a \notin Range(v) /\ b \notin Range(v) /\ Leads(k, a, b)
      BY <2>3, <1>2 DEF Earlier
    <3>2. c \notin Range(v) /\ Leads(k, b, c)
      BY <3>1, <1>2 DEF Earlier, Leads
    <3>3. Leads(k, a, c)
      BY <3>1, <3>2, LeadsIsAnOrder
    <3> QED BY <3>1, <3>2, <3>3 DEF Earlier
  <2> QED BY <2>1, <2>2, <2>3
<1>3. ASSUME NEW a \in Found(v, k), NEW b \in Found(v, k), a # b
      PROVE  Earlier(v, k, a, b) \/ Earlier(v, k, b, a)
  <2>1. CASE a \in Range(v)
    BY <2>1, <1>3, LeadsIsAnOrder DEF Earlier
  <2>2. CASE b \in Range(v)
    BY <2>2, <1>3, LeadsIsAnOrder DEF Earlier
  <2>3. CASE a \notin Range(v) /\ b \notin Range(v)
    <3>1. a \in Range(k)
      BY <2>3 DEF Found
    <3>2. Leads(k, a, b) \/ Leads(k, b, a)
      BY <3>1, <1>3, LeadsIsAnOrder
    <3> QED BY <2>3, <3>2 DEF Earlier
  <2> QED BY <2>1, <2>2, <2>3
<1> QED BY <1>1, <1>2, <1>3

LEMMA PreferenceIsAnOrder ==
    ASSUME NEW v, IsList(v), NEW k, IsList(k)
    PROVE  IsStrictOrder(Preference(v, k), Found(v, k))
<1> DEFINE S == Found(v, k)
           score == ScoreOf(v, k)
           P(a, b) == Precedes(v, k, score, a, b)
           G(a, b) == Greater(score[a], score[b])
           E(a, b) == Earlier(v, k, a, b)
<1>1. \A a, b \in S : <<a, b>> \in Preference(v, k) <=> P(a, b)
  BY DEF Preference
<1>2. \A a, b : P(a, b) <=> G(a, b) \/ (~G(b, a) /\ E(a, b))
  BY DEF Precedes
<1>3. \A a \in S : score[a] \in Fraction
  BY Scores
<1>4. /\ \A a, b \in S : G(a, b) => ~G(b, a)
      /\ \A a, b, c \in S : /\ G(a, b) /\ ~G(c, b) => G(a, c)
                            /\ ~G(b, a) /\ G(b, c) => G(a, c)
  BY <1>3, GreaterIsTransitive
<1>5. /\ \A a : ~E(a, a)
      /\ \A a, b, c : E(a, b) /\ E(b, c) => E(a, c)
      /\ \A a, b \in S : a # b => E(a, b) \/ E(b, a)
  BY EarlierIsAnOrder
<1> HIDE DEF S, P, G, E
<1>6. \A a \in S : ~P(a, a)
  BY <1>2, <1>4, <1>5
<1>7. ASSUME NEW a \in S, NEW b \in S, NEW c \in S, P(a, b), P(b, c) PROVE P(a, c)
  <2>1. G(a, b) => ~G(b, a)
    BY <1>4
  <2>2. G(b, c) => ~G(c, b)
    BY <1>4
  <2>3. ~G(b, a) /\ ~G(c, b)
    BY <1>2, <1>7, <2>1, <2>2
  <2>4. CASE G(a, b) \/ G(b, c)
    BY <2>3, <2>4, <1>2, <1>4
  <2>5. CASE ~G(a, b) /\ ~G(b, c)
    <3>1. E(a, c)
      BY <2>5, <1>2, <1>5, <1>7
    <3>2. ~G(c, a)
      BY <2>3, <2>5, <1>4
    <3> QED BY <3>1, <3>2, <1>2
  <2> QED BY <2>4, <2>5
<1>8. \A a, b \in S : a # b => P(a, b) \/ P(b, a)
  BY <1>2, <1>5
<1> QED BY <1>1, <1>6, <1>7, <1>8 DEF IsStrictOrder, S

LEMMA FoundIsFinite ==
    ASSUME NEW v, IsList(v), NEW k, IsList(k)
    PROVE  IsFiniteSet(Found(v, k)) /\ Found(v, k) \subseteq Chunks
BY ListIsASeqOfItsRange, FS_Union, ListFacts DEF Found

\* So the best first are one list: sort has one result.
LEMMA BestFirstIsTheOrder ==
    ASSUME NEW v, IsList(v), NEW k, IsList(k)
    PROVE  /\ InOrder(Preference(v, k), Found(v, k), BestFirst(v, k, ScoreOf(v, k)))
           /\ \A t : InOrder(Preference(v, k), Found(v, k), t)
                        => t = BestFirst(v, k, ScoreOf(v, k))
           /\ IsList(BestFirst(v, k, ScoreOf(v, k)))
           /\ Range(BestFirst(v, k, ScoreOf(v, k))) = Found(v, k)
<1> DEFINE S == Found(v, k)
           R == Preference(v, k)
           score == ScoreOf(v, k)
           Fits(t) == /\ t \in SetToSeqs(DOMAIN score)
                      /\ \A i, j \in 1 .. Len(t) : i < j => Precedes(v, k, score, t[i], t[j])
           s == BestFirst(v, k, score)
<1>1. DOMAIN score = S
  BY DEF ScoreOf, Found
<1>2. IsFiniteSet(S) /\ S \subseteq Chunks /\ IsStrictOrder(R, S)
  BY FoundIsFinite, PreferenceIsAnOrder
<1>3. ASSUME NEW t, t \in SetToSeqs(S)
      PROVE  /\ t \in Seq(S) /\ IsInjective(t) /\ Range(t) = S
             /\ \A i, j \in 1 .. Len(t) :
                   <<t[i], t[j]>> \in R <=> Precedes(v, k, score, t[i], t[j])
  <2>1. t \in Seq(S) /\ IsInjective(t) /\ Range(t) = S
    BY <1>2, <1>3, SeqsOfASet
  <2>2. \A i \in 1 .. Len(t) : t[i] \in S
    BY <2>1
  <2> QED BY <2>1, <2>2 DEF Preference
<1>4. \A t : Fits(t) <=> InOrder(R, S, t)
  BY <1>1, <1>3 DEF InOrder
<1>5. \E t : Fits(t)
  BY <1>2, <1>4, OrderExists
<1>6. s = CHOOSE t \in SetToSeqs(DOMAIN score) :
             \A i, j \in 1 .. Len(t) : i < j => Precedes(v, k, score, t[i], t[j])
  BY DEF BestFirst
<1>7. Fits(s)
  BY <1>5, <1>6
<1> HIDE DEF s, Fits
<1>8. InOrder(R, S, s)
  BY <1>4, <1>7
<1>9. \A t : InOrder(R, S, t) => t = s
  BY <1>2, <1>8, OrderIsUnique
<1>10. s \in Seq(S) /\ IsInjective(s) /\ Range(s) = S
  BY <1>3, <1>8 DEF InOrder
<1>11. s \in Seq(Chunks)
  BY <1>2, <1>10
<1> QED BY <1>8, <1>9, <1>10, <1>11 DEF IsList, s

\* Ahead in one list and not behind in the other is ahead in the order.
LEMMA AheadIsPreferred ==
    ASSUME NEW v, IsList(v), NEW k, IsList(k),
           NEW a \in Found(v, k), NEW b \in Found(v, k),
           Leads(v, a, b) \/ Leads(k, a, b), ~Leads(v, b, a), ~Leads(k, b, a)
    PROVE  <<a, b>> \in Preference(v, k)
<1>1. /\ Share(v, a) \in Fraction /\ Share(v, b) \in Fraction
      /\ Share(k, a) \in Fraction /\ Share(k, b) \in Fraction
  BY Shares
<1>2. /\ ~Greater(Share(v, b), Share(v, a)) /\ ~Greater(Share(k, b), Share(k, a))
      /\ Greater(Share(v, a), Share(v, b)) \/ Greater(Share(k, a), Share(k, b))
  BY SharesAreOrdered
<1>3. Greater(Sum2(Share(v, a), Share(k, a)), Sum2(Share(v, b), Share(k, b)))
  BY <1>1, <1>2, SumsAreOrdered
<1>4. Greater(ScoreOf(v, k)[a], ScoreOf(v, k)[b])
  BY <1>3, Scores
<1> QED BY <1>4 DEF Preference, Precedes

\* The list of one search is in order when the other found nothing.
LEMMA AloneInOrder ==
    ASSUME NEW v, IsList(v), NEW k, IsList(k), NEW s, IsList(s),
           Found(v, k) = Range(s),
           \A a, b : Leads(s, a, b) <=> Leads(v, a, b) \/ Leads(k, a, b)
    PROVE  s = BestFirst(v, k, ScoreOf(v, k))
<1>1. s \in SetToSeqs(Found(v, k))
  BY ListIsASeqOfItsRange
<1>2. ASSUME NEW i \in 1 .. Len(s), NEW j \in 1 .. Len(s), i < j
      PROVE  <<s[i], s[j]>> \in Preference(v, k)
  <2>1. s[i] \in Found(v, k) /\ s[j] \in Found(v, k)
    BY ListFacts
  <2>2. Leads(s, s[i], s[j]) /\ ~Leads(s, s[j], s[i])
    BY <1>2, ListFacts, LeadsInList
  <2> QED BY <2>1, <2>2, AheadIsPreferred
<1>3. InOrder(Preference(v, k), Found(v, k), s)
  BY <1>1, <1>2 DEF InOrder
<1> QED BY <1>3, BestFirstIsTheOrder

LEMMA AloneIsFirst ==
    ASSUME NEW v, IsList(v), NEW k, IsList(k)
    PROVE  /\ k = <<>> => v = BestFirst(v, k, ScoreOf(v, k))
           /\ v = <<>> => k = BestFirst(v, k, ScoreOf(v, k))
<1>1. ASSUME k = <<>> PROVE v = BestFirst(v, k, ScoreOf(v, k))
  <2>1. Found(v, k) = Range(v) /\ \A a, b : ~Leads(k, a, b)
    BY <1>1 DEF Found, Range, Leads
  <2> QED BY <2>1, AloneInOrder
<1>2. ASSUME v = <<>> PROVE k = BestFirst(v, k, ScoreOf(v, k))
  <2>1. Found(v, k) = Range(k) /\ \A a, b : ~Leads(v, a, b)
    BY <1>2 DEF Found, Range, Leads
  <2> QED BY <2>1, AloneInOrder
<1> QED BY <1>1, <1>2

\* What FusionIsFaithful says of two lists and their fusion.
Faithful(v, k, fused) ==
    /\ Range(fused) \subseteq Found(v, k)
    /\ Len(fused) = FusedTopK \/ Range(fused) = Found(v, k)
    /\ IsInjective(fused)
    /\ \A a \in Found(v, k), b \in Range(fused) :
          (/\ Leads(v, a, b) \/ Leads(k, a, b)
           /\ ~Leads(v, b, a) /\ ~Leads(k, b, a))
          => Leads(fused, a, b)
    /\ k = <<>> => fused = Cut(v, FusedTopK)
    /\ v = <<>> => fused = Cut(k, FusedTopK)

LEMMA FusedIsFaithful ==
    ASSUME NEW v, IsList(v), NEW k, IsList(k)
    PROVE  /\ IsRanking(FuseResults(v, k), FusedTopK)
           /\ Faithful(v, k, FuseResults(v, k))
<1> DEFINE s == BestFirst(v, k, ScoreOf(v, k))
           f == Cut(s, FusedTopK)
<1>1. FuseResults(v, k) = f
  BY DEF FuseResults, ScoreOf
<1>2. /\ InOrder(Preference(v, k), Found(v, k), s)
      /\ IsList(s) /\ Range(s) = Found(v, k)
  BY BestFirstIsTheOrder
<1>3. FusedTopK \in Nat
  BY RetrievalAssumption
<1> HIDE DEF s
<1>4. /\ IsList(f)
      /\ Len(f) = IF Len(s) < FusedTopK THEN Len(s) ELSE FusedTopK
      /\ \A i \in 1 .. Len(f) : i \in 1 .. Len(s) /\ f[i] = s[i]
      /\ Range(f) \subseteq Range(s)
  BY <1>2, <1>3, CutOfList
<1>5. IsRanking(f, FusedTopK)
  BY <1>3, <1>4, <1>2, ListFacts DEF IsRanking, IsList
<1>6. Len(f) = FusedTopK \/ Range(f) = Found(v, k)
  <2>1. CASE Len(s) <= FusedTopK
    BY <2>1, <1>2, <1>3, UncutList
  <2>2. CASE ~ (Len(s) <= FusedTopK)
    BY <2>2, <1>2, <1>3, <1>4, ListFacts
  <2> QED BY <2>1, <2>2
<1>7. ASSUME NEW a \in Found(v, k), NEW b \in Range(f),
             Leads(v, a, b) \/ Leads(k, a, b), ~Leads(v, b, a), ~Leads(k, b, a)
      PROVE  Leads(f, a, b)
  <2>1. PICK i \in 1 .. Len(s) : a = s[i]
    BY <1>2, ListFacts
  <2>2. PICK j \in 1 .. Len(f) : b = f[j]
    BY <1>4, ListFacts
  <2>3. j \in 1 .. Len(s) /\ b = s[j] /\ b \in Found(v, k)
    BY <2>2, <1>2, <1>4, ListFacts
  <2>4. <<a, b>> \in Preference(v, k)
    BY <1>7, <2>3, AheadIsPreferred
  <2>5. ~ (j < i) /\ i # j
    <3>1. IsStrictOrder(Preference(v, k), Found(v, k))
      BY PreferenceIsAnOrder
    <3>2. j < i => <<b, a>> \in Preference(v, k)
      BY <1>2, <2>1, <2>3 DEF InOrder
    <3> QED BY <2>1, <2>3, <2>4, <3>1, <3>2 DEF IsStrictOrder
  <2>6. i < j /\ i \in 1 .. Len(f)
    BY <2>5, <2>3, <2>1, <2>2, <1>2, <1>4, ListFacts
  <2>7. f[i] = a
    BY <2>1, <2>6, <1>4
  <2> HIDE DEF f
  <2> QED BY <2>2, <2>6, <2>7, <1>4, LeadsInList
<1>8. (k = <<>> => f = Cut(v, FusedTopK)) /\ (v = <<>> => f = Cut(k, FusedTopK))
  BY AloneIsFirst DEF s
<1> HIDE DEF f
<1>9. Faithful(v, k, f)
  BY <1>2, <1>4, <1>6, <1>7, <1>8 DEF Faithful, IsList
<1> QED BY <1>1, <1>5, <1>9

LEMMA AloneIsFaithful ==
    ASSUME NEW v, IsList(v), Len(v) <= FusedTopK
    PROVE  Faithful(v, <<>>, v)
<1>1. FusedTopK \in Nat
  BY RetrievalAssumption
<1>2. Found(v, <<>>) = Range(v) /\ \A a, b : Leads(<<>>, a, b) = FALSE
  BY DEF Found, Range, Leads
<1>3. Cut(v, FusedTopK) = v
  BY <1>1, UncutList
<1>4. v = <<>> => v = Cut(<<>>, FusedTopK)
  BY <1>3
<1> QED BY <1>2, <1>3, <1>4 DEF Faithful, IsList
----------------------------------------------------------------------------
\* The run of a question

HalfRecord == [pc : HalfStates, list : Seq(Chunks)]

HalfLimit == IF hybrid THEN HalfTopK ELSE FusedTopK

\* What the searches answered.
HalvesInv ==
    /\ hybrid \in BOOLEAN
    /\ halves \in [Halves -> HalfRecord]
    /\ \A h \in Halves : IsInjective(halves[h].list) /\ Len(halves[h].list) <= HalfLimit
    /\ ~hybrid => halves["keyword"].list = <<>>

\* What is ranked before the reranking is the fusion of it.
FusedInv ==
    step = "rerank" \/ (step = "answer" /\ ranked = <<>>) =>
        Faithful(halves["vector"].list, halves["keyword"].list, ranked)

\* The chosen ones are candidates looked at.
ChosenInv ==
    /\ IsList(ranked) /\ Len(ranked) <= FusedTopK
    /\ IsList(chosen)
    /\ next \in 1 .. Len(ranked) + 1 /\ spent \in Nat
    /\ Len(chosen) < next
    /\ \A c \in Range(chosen) : \E i \in 1 .. Len(ranked) : i < next /\ c = ranked[i]

\* Of those looked at, none was passed over without a reason that lasts.
PassedInv ==
    \A i \in 1 .. Len(ranked) : i < next =>
        Repeats(ranked[i]) \/ CountFor(DocumentOf[ranked[i]]) >= PerDocument

StageInv ==
    /\ step \in RetSteps
    /\ step = "search" => ranked = <<>>
    /\ step \in {"rerank", "select"} => ranked # <<>>
    /\ step \in {"search", "rerank", "failed"} => chosen = <<>> /\ next = 1 /\ spent = 0
    /\ step = "answer" => NothingDroppedWithoutReason

RetInv ==
    /\ StageInv /\ HalvesInv /\ FusedInv /\ ChosenInv /\ PassedInv
    /\ ContextFits /\ OthersFirst

LEMMA HalvesAreLists ==
    ASSUME HalvesInv
    PROVE  \A h \in Halves : IsList(halves[h].list)
BY DEF HalvesInv, IsList, HalfRecord

\* Before the selection.
Unchosen ==
    /\ IsList(ranked) /\ Len(ranked) <= FusedTopK
    /\ chosen = <<>> /\ next = 1 /\ spent = 0

LEMMA NothingChosen == Unchosen => ChosenInv /\ PassedInv /\ ContextFits /\ OthersFirst
<1> SUFFICES ASSUME Unchosen PROVE ChosenInv /\ PassedInv /\ ContextFits /\ OthersFirst
  OBVIOUS
<1> USE DEF Unchosen
<1>1. IsList(chosen) /\ Len(chosen) = 0 /\ Range(chosen) = {}
  BY DEF IsList, IsInjective, Range
<1>2. Len(ranked) \in Nat
  BY ListFacts
<1>3. ChosenInv /\ PassedInv
  BY <1>1, <1>2 DEF ChosenInv, PassedInv
<1>4. ContextFits
  BY <1>1, RetrievalAssumption DEF ContextFits
<1>5. OthersFirst
  BY <1>1 DEF OthersFirst
<1> QED BY <1>3, <1>4, <1>5

LEMMA NothingChosenNext == Unchosen' => ChosenInv' /\ PassedInv' /\ ContextFits' /\ OthersFirst'
BY NothingChosen, PTL

LEMMA RetInitInv == RetInit => RetInv
<1> SUFFICES ASSUME RetInit PROVE RetInv
  OBVIOUS
<1> USE DEF RetInit
<1>1. {HalfTopK, FusedTopK} \subseteq Nat
  BY RetrievalAssumption
<1>2. StageInv /\ FusedInv
  BY DEF StageInv, RetSteps, FusedInv
<1>3. HalvesInv
  <2>1. IsInjective(<<>>) /\ <<>> \in Seq(Chunks) /\ Len(<<>>) = 0
    BY DEF IsInjective
  <2>2. halves \in [Halves -> HalfRecord] /\ \A h \in Halves : halves[h].list = <<>>
    BY <2>1 DEF Unsearched, HalfRecord, HalfStates
  <2> QED BY <1>1, <2>1, <2>2 DEF HalvesInv, HalfLimit, Halves
<1>4. IsList(ranked) /\ Len(ranked) <= FusedTopK
  BY <1>1 DEF IsList, IsInjective
<1>5. ChosenInv /\ PassedInv /\ ContextFits /\ OthersFirst
  BY <1>4, NothingChosen DEF Unchosen
<1> QED BY <1>2, <1>3, <1>5 DEF RetInv

\* What the selection does not read may change.
LEMMA SelectionUnchanged ==
    ASSUME ChosenInv, PassedInv, ContextFits, OthersFirst,
           UNCHANGED <<ranked, next, chosen, spent>>
    PROVE  ChosenInv' /\ PassedInv' /\ ContextFits' /\ OthersFirst'
<1>1. ChosenInv'
  BY DEF ChosenInv
<1>2. PassedInv'
  BY DEF PassedInv, Repeats, CountFor
<1>3. ContextFits'
  BY DEF ContextFits
<1>4. OthersFirst'
  BY DEF OthersFirst
<1> QED BY <1>1, <1>2, <1>3, <1>4

LEMMA SearchKeeps ==
    ASSUME RetInv, NEW h \in Halves,
           NEW list \in Rankings(IF hybrid THEN HalfTopK ELSE FusedTopK),
           HalfAnswers(h, list) \/ HalfFails(h)
    PROVE  RetInv'
<1>1. /\ step = "search" /\ (hybrid \/ h = "vector")
      /\ UNCHANGED <<hybrid, ranked, next, chosen, spent>>
      /\ step' \in {"search", "failed"}
  BY DEF HalfAnswers, HalfFails
<1>2. /\ ranked = <<>> /\ chosen = <<>> /\ next = 1 /\ spent = 0
      /\ HalvesInv /\ ChosenInv /\ PassedInv /\ ContextFits /\ OthersFirst
  BY <1>1 DEF RetInv, StageInv
<1>3. list \in Seq(Chunks) /\ IsInjective(list) /\ Len(list) <= HalfLimit
  <2>1. PICK n \in 0 .. HalfLimit : list \in [1 .. n -> Chunks]
    BY DEF Rankings, BoundedSeq, SeqOf, HalfLimit
  <2>2. HalfLimit \in Nat
    BY RetrievalAssumption DEF HalfLimit
  <2> QED BY <2>1, <2>2 DEF Rankings
<1>4. /\ HalfLimit' = HalfLimit
      /\ halves' \in [Halves -> HalfRecord]
      /\ \A g \in Halves \ {h} : halves'[g] = halves[g]
      /\ halves'[h].list = list \/ halves'[h].list = halves[h].list
  <2>1. halves \in [Halves -> HalfRecord]
    BY <1>2 DEF HalvesInv
  <2>2. HalfLimit' = HalfLimit
    BY <1>1 DEF HalfLimit
  <2>3. CASE HalfAnswers(h, list)
    <3>1. halves' = [halves EXCEPT ![h] = [pc |-> "answered", list |-> list]]
      BY <2>3 DEF HalfAnswers
    <3>2. [pc |-> "answered", list |-> list] \in HalfRecord
      BY <1>3 DEF HalfRecord, HalfStates
    <3> QED BY <2>1, <2>2, <3>1, <3>2
  <2>4. CASE HalfFails(h)
    <3>1. halves' = [halves EXCEPT ![h].pc = "rejected"]
      BY <2>4 DEF HalfFails
    <3> QED BY <2>1, <2>2, <3>1 DEF HalfRecord, HalfStates
  <2> QED BY <2>3, <2>4
<1>5. HalvesInv'
  BY <1>1, <1>2, <1>3, <1>4 DEF HalvesInv, Halves
<1>6. StageInv' /\ FusedInv'
  BY <1>1, <1>2 DEF StageInv, FusedInv, RetSteps
<1> QED BY <1>1, <1>2, <1>5, <1>6, SelectionUnchanged DEF RetInv

LEMMA RetrievedKeeps ==
    ASSUME RetInv, step = "search", NEW list, Retrieved(list),
           IsRanking(list, FusedTopK),
           Faithful(halves["vector"].list, halves["keyword"].list, list)
    PROVE  RetInv'
<1>1. /\ ranked' = list /\ step' = IF list = <<>> THEN "answer" ELSE "rerank"
      /\ UNCHANGED <<hybrid, halves, next, chosen, spent>>
  BY DEF Retrieved
<1>2. HalvesInv /\ chosen = <<>> /\ next = 1 /\ spent = 0
  BY DEF RetInv, StageInv
<1>3. HalvesInv'
  BY <1>1, <1>2 DEF HalvesInv, HalfLimit
<1>4. FusedInv'
  BY <1>1 DEF FusedInv
<1>5. IsList(ranked)' /\ Len(ranked') <= FusedTopK
  BY <1>1 DEF IsRanking, IsList
<1>6. ChosenInv' /\ PassedInv' /\ ContextFits' /\ OthersFirst'
  BY <1>1, <1>2, <1>5, NothingChosenNext DEF Unchosen
<1>7. StageInv'
  <2>1. step' = "answer" => NothingDroppedWithoutReason'
    BY <1>1 DEF NothingDroppedWithoutReason
  <2> QED BY <1>1, <1>2, <2>1 DEF StageInv, RetSteps
<1> QED BY <1>3, <1>4, <1>6, <1>7 DEF RetInv

LEMMA RerankKeeps ==
    ASSUME RetInv, Rerank
    PROVE  RetInv'
<1>1. /\ step = "rerank" /\ step' = "select" /\ halves' = Unsearched
      /\ UNCHANGED <<hybrid, next, chosen, spent>>
  BY DEF Rerank
<1>2. PICK order \in SetToSeqs(Range(ranked)) : ranked' \in {Cut(order, RerankTopK), ranked}
  BY DEF Rerank
<1>3. /\ IsList(ranked) /\ Len(ranked) <= FusedTopK /\ ranked # <<>>
      /\ hybrid \in BOOLEAN /\ chosen = <<>> /\ next = 1 /\ spent = 0
  BY <1>1 DEF RetInv, StageInv, ChosenInv, HalvesInv
<1>4. /\ RerankTopK \in Nat \ {0} /\ FusedTopK \in Nat /\ HalfTopK \in Nat
  BY RetrievalAssumption
<1>5. Len(ranked) \in Nat /\ Len(ranked) > 0
  BY <1>3, ListFacts DEF IsList
<1>6. IsList(order) /\ Len(order) = Len(ranked)
  BY <1>3, SeqOfListIsAList
<1>7. IsList(ranked)' /\ Len(ranked') <= FusedTopK /\ ranked' # <<>>
  <2>1. CASE ranked' = ranked
    BY <2>1, <1>3
  <2>2. CASE ranked' = Cut(order, RerankTopK)
    <3>1. IsList(ranked') /\ Len(ranked') = IF Len(order) < RerankTopK THEN Len(order) ELSE RerankTopK
      BY <2>2, <1>4, <1>6, CutOfList
    <3>2. Len(ranked') > 0 /\ Len(ranked') <= FusedTopK
      BY <3>1, <1>3, <1>4, <1>5, <1>6
    <3> QED BY <3>1, <3>2
  <2> QED BY <1>2, <2>1, <2>2
<1>8. HalvesInv'
  <2>1. IsInjective(<<>>) /\ <<>> \in Seq(Chunks) /\ Len(<<>>) = 0
    BY DEF IsInjective
  <2>2. halves' \in [Halves -> HalfRecord] /\ \A h \in Halves : halves'[h].list = <<>>
    BY <1>1, <2>1 DEF Unsearched, HalfRecord, HalfStates
  <2>3. HalfLimit' \in Nat
    BY <1>4 DEF HalfLimit
  <2> QED BY <1>1, <1>3, <2>1, <2>2, <2>3 DEF HalvesInv, Halves
<1>9. StageInv' /\ FusedInv'
  BY <1>1, <1>7 DEF StageInv, FusedInv, RetSteps
<1>10. ChosenInv' /\ PassedInv' /\ ContextFits' /\ OthersFirst'
  BY <1>1, <1>3, <1>7, NothingChosenNext DEF Unchosen
<1> QED BY <1>8, <1>9, <1>10 DEF RetInv

\* Chosen chunks of one document, counted by place and by chunk.
Count(ch, document) == Cardinality({i \in DOMAIN ch : DocumentOf[ch[i]] = document})

LEMMA CountIsNat ==
    ASSUME NEW ch, IsList(ch), NEW document
    PROVE  /\ IsFiniteSet({i \in DOMAIN ch : DocumentOf[ch[i]] = document})
           /\ Count(ch, document) \in Nat
<1> DEFINE P == {i \in DOMAIN ch : DocumentOf[ch[i]] = document}
<1>1. Len(ch) \in Nat /\ DOMAIN ch = 1 .. Len(ch)
  BY ListFacts
<1>2. IsFiniteSet(1 .. Len(ch))
  BY <1>1, IntervalSize
<1>3. P \in SUBSET (1 .. Len(ch))
  BY <1>1
<1>4. IsFiniteSet(P)
  BY <1>2, <1>3, FS_Subset
<1> QED BY <1>4, FS_CardinalityType DEF Count

LEMMA CountsFit ==
    ASSUME NEW ch, IsList(ch), NEW document, NEW T,
           \A d \in T : d \in Range(ch) /\ DocumentOf[d] = document
    PROVE  Cardinality(T) \in Nat /\ Cardinality(T) <= Count(ch, document)
<1> DEFINE P == {i \in DOMAIN ch : DocumentOf[ch[i]] = document}
           U == {d \in Range(ch) : DocumentOf[d] = document}
           f == [i \in P |-> ch[i]]
<1>1. DOMAIN ch = 1 .. Len(ch)
  BY ListFacts
<1>2. IsFiniteSet(P) /\ Cardinality(P) = Count(ch, document) /\ Count(ch, document) \in Nat
  BY CountIsNat DEF Count
<1>3. f \in Surjection(P, U)
  <2>1. f \in [P -> U]
    BY <1>1, ListFacts
  <2>2. \A d \in U : \E i \in P : f[i] = d
    BY <1>1, ListFacts
  <2> QED BY <2>1, <2>2 DEF Surjection
<1> HIDE DEF f
<1>4. IsFiniteSet(U) /\ Cardinality(U) <= Cardinality(P)
  BY <1>2, <1>3, FS_Surjection
<1>5. T \in SUBSET U
  OBVIOUS
<1>6. IsFiniteSet(T) /\ Cardinality(T) <= Cardinality(U)
  BY <1>4, <1>5, FS_Subset
<1>7. Cardinality(T) \in Nat /\ Cardinality(U) \in Nat
  BY <1>4, <1>6, FS_CardinalityType
<1> QED BY <1>2, <1>4, <1>6, <1>7

LEMMA CountGrows ==
    ASSUME NEW ch, IsList(ch), NEW c, IsList(Append(ch, c)), NEW document
    PROVE  Count(ch, document) <= Count(Append(ch, c), document)
<1> DEFINE P == {i \in DOMAIN ch : DocumentOf[ch[i]] = document}
           Q == {i \in DOMAIN Append(ch, c) : DocumentOf[Append(ch, c)[i]] = document}
<1>1. ch \in Seq(Chunks) /\ Len(ch) \in Nat /\ DOMAIN ch = 1 .. Len(ch)
  BY ListFacts DEF IsList
<1>2. DOMAIN Append(ch, c) = 1 .. Len(Append(ch, c))
  BY ListFacts
<1>3. /\ Len(Append(ch, c)) = Len(ch) + 1
      /\ \A i \in 1 .. Len(ch) : Append(ch, c)[i] = ch[i]
  BY <1>1
<1>4. P \subseteq Q
  BY <1>1, <1>2, <1>3
<1>5. IsFiniteSet(Q)
  BY CountIsNat
<1> QED BY <1>4, <1>5, FS_Subset DEF Count

\* Chunks taken before this candidate, of its document.
Taken(c) == {d \in Range(chosen) : DocumentOf[d] = DocumentOf[c] /\ Leads(ranked, d, c)}

LEMMA TakeKeeps ==
    ASSUME RetInv, TakeCandidate
    PROVE  RetInv'
<1> DEFINE c == ranked[next]
           ch == Append(chosen, c)
<1>1. /\ step = "select" /\ next <= Len(ranked) /\ Len(chosen) < MaxChunks
      /\ ~Repeats(c) /\ ~OverBudget(c) /\ ~Crowds(c)
      /\ chosen' = ch /\ spent' = spent + Tokens[c] /\ next' = next + 1
      /\ UNCHANGED <<step, hybrid, halves, ranked>>
  BY DEF TakeCandidate, Looking
<1>2. /\ IsList(ranked) /\ Len(ranked) <= FusedTopK /\ IsList(chosen)
      /\ next \in 1 .. Len(ranked) + 1 /\ spent \in Nat /\ Len(chosen) < next
      /\ \A d \in Range(chosen) : \E i \in 1 .. Len(ranked) : i < next /\ d = ranked[i]
  BY DEF RetInv, ChosenInv
<1>3. /\ Len(ranked) \in Nat /\ Len(chosen) \in Nat /\ DOMAIN chosen = 1 .. Len(chosen)
      /\ next \in 1 .. Len(ranked) /\ c \in Chunks /\ Tokens[c] \in Nat
      /\ MaxChunks \in Nat /\ MaxTokens \in Nat /\ PerDocument \in Nat
  <2>1. Len(ranked) \in Nat /\ Len(chosen) \in Nat /\ DOMAIN chosen = 1 .. Len(chosen)
    BY <1>2, ListFacts
  <2>2. next \in 1 .. Len(ranked)
    BY <1>1, <1>2, <2>1
  <2>3. c \in Chunks
    BY <2>2, <1>2, ListFacts
  <2>4. Tokens[c] \in Nat /\ MaxChunks \in Nat /\ MaxTokens \in Nat /\ PerDocument \in Nat
    BY <2>3, RetrievalAssumption
  <2> QED BY <2>1, <2>2, <2>3, <2>4
<1>4. c \notin Range(chosen)
  BY <1>1 DEF Repeats
<1>5. chosen \in Seq(Chunks)
  BY <1>2 DEF IsList
<1> HIDE DEF c
<1>6. /\ ch \in Seq(Chunks) /\ Len(ch) = Len(chosen) + 1 /\ DOMAIN ch = 1 .. Len(ch)
      /\ \A p \in 1 .. Len(ch) : ch[p] = IF p = Len(ch) THEN c ELSE chosen[p]
  BY <1>3, <1>5
<1> HIDE DEF ch
<1>7. Range(ch) = Range(chosen) \cup {c}
  <2>1. \A d \in Range(ch) : d \in Range(chosen) \cup {c}
    BY <1>3, <1>6 DEF Range
  <2>2. \A d \in Range(chosen) : d \in Range(ch)
    <3> SUFFICES ASSUME NEW p \in 1 .. Len(chosen) PROVE chosen[p] \in Range(ch)
      BY <1>3 DEF Range
    <3>1. p \in 1 .. Len(ch) /\ ch[p] = chosen[p]
      BY <1>3, <1>6
    <3> QED BY <3>1, <1>6 DEF Range
  <2>3. c \in Range(ch)
    <3>1. Len(ch) \in 1 .. Len(ch) /\ ch[Len(ch)] = c
      BY <1>3, <1>6
    <3> QED BY <3>1, <1>6 DEF Range
  <2> QED BY <2>1, <2>2, <2>3
<1>8. IsList(ch)
  <2>1. ASSUME NEW p \in 1 .. Len(ch), NEW q \in 1 .. Len(ch), p < q PROVE ch[p] # ch[q]
    <3>1. p \in 1 .. Len(chosen) /\ ch[p] = chosen[p]
      BY <2>1, <1>3, <1>6
    <3>2. CASE q = Len(ch)
      <4>1. ch[q] = c /\ chosen[p] \in Range(chosen)
        BY <3>1, <3>2, <1>2, <1>6, ListFacts
      <4> QED BY <3>1, <4>1, <1>4
    <3>3. CASE q # Len(ch)
      <4>1. q \in 1 .. Len(chosen) /\ ch[q] = chosen[q]
        BY <3>3, <1>3, <1>6
      <4> QED BY <2>1, <3>1, <4>1, <1>2, ListFacts
    <3> QED BY <3>2, <3>3
  <2>2. \A p, q \in 1 .. Len(ch) : ch[p] = ch[q] => p = q
    <3> SUFFICES ASSUME NEW p \in 1 .. Len(ch), NEW q \in 1 .. Len(ch), p # q
                 PROVE  ch[p] # ch[q]
      OBVIOUS
    <3>1. p < q \/ q < p
      OBVIOUS
    <3> QED BY <3>1, <2>1
  <2> QED BY <2>2, <1>6 DEF IsList, IsInjective
<1>9. ChosenInv'
  <2>1. ASSUME NEW d \in Range(ch)
        PROVE  \E i \in 1 .. Len(ranked) : i < next + 1 /\ d = ranked[i]
    <3>1. CASE d = c
      BY <3>1, <1>3 DEF c
    <3>2. CASE d \in Range(chosen)
      <4>1. PICK i \in 1 .. Len(ranked) : i < next /\ d = ranked[i]
        BY <3>2, <1>2
      <4> QED BY <4>1, <1>3
    <3> QED BY <3>1, <3>2, <1>7
  <2>2. next + 1 \in 1 .. Len(ranked) + 1 /\ spent + Tokens[c] \in Nat /\ Len(ch) < next + 1
    BY <1>2, <1>3, <1>6
  <2> QED BY <2>1, <2>2, <1>1, <1>2, <1>8 DEF ChosenInv
<1>10. PassedInv'
  <2> SUFFICES ASSUME NEW i \in 1 .. Len(ranked), i < next + 1
               PROVE  Repeats(ranked[i])' \/ CountFor(DocumentOf[ranked[i]])' >= PerDocument
    BY <1>1 DEF PassedInv
  <2>1. CASE i = next
    <3>1. ranked[i] \in Range(ch)
      BY <2>1, <1>7 DEF c
    <3> QED BY <3>1, <1>1 DEF Repeats
  <2>2. CASE i # next
    <3>1. i < next
      BY <2>2, <1>3
    <3>2. CASE Repeats(ranked[i])
      BY <3>2, <1>1, <1>7 DEF Repeats
    <3>3. CASE CountFor(DocumentOf[ranked[i]]) >= PerDocument
      <4> DEFINE D == DocumentOf[ranked[i]]
      <4>1. Count(chosen, D) <= Count(ch, D)
        BY <1>2, <1>8, CountGrows DEF ch
      <4>2. Count(chosen, D) \in Nat /\ Count(ch, D) \in Nat
        BY <1>2, <1>8, CountIsNat
      <4>3. Count(chosen, D) >= PerDocument
        BY <3>3 DEF CountFor, Count
      <4>4. CountFor(DocumentOf[ranked[i]])' = Count(ch, D)
        BY <1>1 DEF CountFor, Count
      <4> QED BY <4>1, <4>2, <4>3, <4>4, <1>3
    <3> QED BY <3>1, <3>2, <3>3 DEF RetInv, PassedInv
  <2> QED BY <2>1, <2>2
<1>11. ContextFits'
  <2>1. ContextFits
    BY DEF RetInv
  <2>2. Len(ch) <= MaxChunks
    BY <1>1, <1>3, <1>6
  <2>3. Len(ch) > 1 => spent + Tokens[c] <= MaxTokens
    BY <1>1, <1>2, <1>3, <1>6 DEF OverBudget
  <2>4. ASSUME NEW p \in 1 .. Len(ch), NEW q \in 1 .. Len(ch), p < q
        PROVE  Snippet[ch[p]] # Snippet[ch[q]]
    <3>1. p \in 1 .. Len(chosen) /\ ch[p] = chosen[p]
      BY <2>4, <1>3, <1>6
    <3>2. CASE q = Len(ch)
      <4>1. ch[q] = c /\ chosen[p] \in Range(chosen)
        BY <3>1, <3>2, <1>2, <1>6, ListFacts
      <4> QED BY <3>1, <4>1, <1>1 DEF Repeats
    <3>3. CASE q # Len(ch)
      <4>1. q \in 1 .. Len(chosen) /\ ch[q] = chosen[q]
        BY <3>3, <1>3, <1>6
      <4> QED BY <2>1, <2>4, <3>1, <4>1 DEF ContextFits
    <3> QED BY <3>2, <3>3
  <2>5. ASSUME NEW p \in 1 .. Len(ch), NEW q \in 1 .. Len(ch), p # q
        PROVE  Snippet[ch[p]] # Snippet[ch[q]]
    <3>1. p < q \/ q < p
      BY <2>5
    <3> QED BY <3>1, <2>4
  <2> QED BY <2>2, <2>3, <2>5, <1>1 DEF ContextFits
<1>12. OthersFirst'
  <2> SUFFICES ASSUME NEW i \in 1 .. Len(ranked), Len(ranked) > DiversityFrom,
                      ranked[i] \in Range(ch),
                      Cardinality(Taken(ranked[i])') >= PerDocument
               PROVE  \A j \in i + 1 .. Len(ranked) :
                         DocumentOf[ranked[j]] = DocumentOf[ranked[i]]
    BY <1>1 DEF OthersFirst, Taken
  <2>1. Taken(ranked[i])' = {d \in Range(ch) : DocumentOf[d] = DocumentOf[ranked[i]]
                                              /\ Leads(ranked, d, ranked[i])}
    BY <1>1 DEF Taken
  <2>2. CASE i = next
    <3>1. /\ Count(chosen, DocumentOf[c]) \in Nat
          /\ CountFor(DocumentOf[c]) = Count(chosen, DocumentOf[c])
      BY <1>2, CountIsNat DEF CountFor, Count
    <3>2. \A d \in Taken(ranked[i])' : d \in Range(chosen) /\ DocumentOf[d] = DocumentOf[c]
      BY <2>1, <2>2, <1>2, <1>7, LeadsIsAnOrder DEF c
    <3>3. /\ Cardinality(Taken(ranked[i])') \in Nat
          /\ Cardinality(Taken(ranked[i])') <= Count(chosen, DocumentOf[c])
      BY <3>2, <1>2, CountsFit
    <3>4. CountFor(DocumentOf[c]) >= PerDocument
      BY <3>1, <3>3, <1>3
    <3>5. ~OthersWaiting(c)
      BY <3>4, <1>1 DEF Crowds
    <3>6. ASSUME NEW j \in i + 1 .. Len(ranked) PROVE DocumentOf[ranked[j]] = DocumentOf[c]
      <4>1. j \in Len(chosen) + 1 .. Len(ranked) /\ j \in 1 .. Len(ranked) /\ next < j
        BY <3>6, <2>2, <1>2, <1>3
      <4>2. ranked[j] \notin Range(chosen)
        <5> SUFFICES ASSUME ranked[j] \in Range(chosen) PROVE FALSE
          OBVIOUS
        <5>1. PICK m \in 1 .. Len(ranked) : m < next /\ ranked[j] = ranked[m]
          BY <1>2
        <5>2. m = j
          BY <4>1, <5>1, <1>2, ListFacts
        <5> QED BY <4>1, <5>1, <5>2, <1>3
      <4> QED BY <3>5, <4>1, <4>2 DEF OthersWaiting
    <3> QED BY <3>6, <2>2 DEF c
  <2>3. CASE i # next
    <3>1. ranked[i] # c /\ ranked[i] \in Range(chosen)
      BY <2>3, <1>2, <1>3, <1>7, ListFacts DEF c
    <3>2. i < next
      BY <3>1, <1>2, ListFacts
    <3>3. ~Leads(ranked, c, ranked[i])
      BY <3>2, <1>2, <1>3, LeadsInList, ListFacts DEF c
    <3>4. Taken(ranked[i])' = Taken(ranked[i])
      BY <2>1, <3>3, <1>7 DEF Taken
    <3> QED BY <3>1, <3>4 DEF RetInv, OthersFirst, Taken
  <2> QED BY <2>2, <2>3
<1>13. StageInv' /\ HalvesInv' /\ FusedInv'
  BY <1>1 DEF RetInv, StageInv, HalvesInv, HalfLimit, FusedInv, RetSteps
<1> QED BY <1>9, <1>10, <1>11, <1>12, <1>13 DEF RetInv

LEMMA SkipKeeps ==
    ASSUME RetInv, SkipCandidate
    PROVE  RetInv'
<1>1. /\ step = "select" /\ next <= Len(ranked) /\ next' = next + 1
      /\ Repeats(ranked[next]) \/ Crowds(ranked[next])
      /\ UNCHANGED <<step, hybrid, halves, ranked, chosen, spent>>
  BY DEF SkipCandidate, Looking
<1>2. ChosenInv /\ PassedInv /\ ContextFits /\ OthersFirst
  BY DEF RetInv
<1>3. Len(ranked) \in Nat /\ next \in Nat /\ Len(chosen) \in Nat
  BY <1>2, ListFacts DEF ChosenInv
<1>4. ChosenInv'
  <2>1. next + 1 \in 1 .. Len(ranked) + 1 /\ Len(chosen) < next + 1
    BY <1>1, <1>2, <1>3 DEF ChosenInv
  <2>2. \A c \in Range(chosen) : \E i \in 1 .. Len(ranked) : i < next + 1 /\ c = ranked[i]
    BY <1>2, <1>3 DEF ChosenInv
  <2> QED BY <2>1, <2>2, <1>1, <1>2 DEF ChosenInv
<1>5. PassedInv'
  <2>1. ASSUME NEW i \in 1 .. Len(ranked), i < next + 1
        PROVE  Repeats(ranked[i]) \/ CountFor(DocumentOf[ranked[i]]) >= PerDocument
    <3>1. CASE i = next
      BY <3>1, <1>1 DEF Crowds
    <3>2. CASE i # next
      BY <3>2, <2>1, <1>2, <1>3 DEF PassedInv
    <3> QED BY <3>1, <3>2
  <2> QED BY <2>1, <1>1 DEF PassedInv, Repeats, CountFor
<1>6. ContextFits' /\ OthersFirst'
  BY <1>1, <1>2 DEF ContextFits, OthersFirst
<1>7. StageInv' /\ HalvesInv' /\ FusedInv'
  BY <1>1 DEF RetInv, StageInv, HalvesInv, HalfLimit, FusedInv, RetSteps
<1> QED BY <1>4, <1>5, <1>6, <1>7 DEF RetInv

LEMMA StopKeeps ==
    ASSUME RetInv, StopSelecting
    PROVE  RetInv'
<1>1. /\ step = "select" /\ step' = "answer"
      /\ Looking => ~Repeats(ranked[next]) /\ OverBudget(ranked[next])
      /\ UNCHANGED <<hybrid, halves, ranked, next, chosen, spent>>
  BY DEF StopSelecting
<1>2. /\ ChosenInv /\ PassedInv /\ ContextFits /\ OthersFirst
      /\ ranked # <<>>
  BY <1>1 DEF RetInv, StageInv
<1>3. Len(ranked) \in Nat /\ next \in Nat /\ Len(chosen) \in Nat /\ MaxChunks \in Nat
  BY <1>2, ListFacts, RetrievalAssumption DEF ChosenInv
<1>4. NothingDroppedWithoutReason
  <2> SUFFICES ASSUME NEW i \in 1 .. Len(ranked), ~ (i < next), Len(chosen) # MaxChunks
               PROVE  \E j \in 1 .. i : ~Repeats(ranked[j]) /\ OverBudget(ranked[j])
    BY <1>2 DEF NothingDroppedWithoutReason, PassedInv
  <2>1. Looking
    BY <1>1, <1>2, <1>3 DEF Looking, ContextFits
  <2>2. next \in 1 .. i
    BY <1>2, <1>3 DEF ChosenInv
  <2> QED BY <2>1, <2>2, <1>1
<1>5. NothingDroppedWithoutReason'
  BY <1>1, <1>4 DEF NothingDroppedWithoutReason, Repeats, OverBudget, CountFor
<1>6. HalvesInv'
  BY <1>1 DEF RetInv, HalvesInv, HalfLimit
<1>7. StageInv' /\ FusedInv'
  BY <1>1, <1>2, <1>5 DEF StageInv, FusedInv, RetSteps
<1> QED BY <1>1, <1>2, <1>6, <1>7, SelectionUnchanged DEF RetInv

LEMMA RetNextInv ==
    ASSUME RetInv, [RetNext]_retVars
    PROVE  RetInv'
<1>1. ASSUME NEW h \in Halves,
             NEW list \in Rankings(IF hybrid THEN HalfTopK ELSE FusedTopK), HalfAnswers(h, list)
      PROVE  RetInv'
  BY <1>1, SearchKeeps
<1>2. ASSUME NEW h \in Halves, HalfFails(h) PROVE RetInv'
  <2>1. <<>> \in Rankings(IF hybrid THEN HalfTopK ELSE FusedTopK)
    <3>1. (IF hybrid THEN HalfTopK ELSE FusedTopK) \in Nat
      BY RetrievalAssumption
    <3>2. <<>> \in [1 .. 0 -> Chunks] /\ IsInjective(<<>>)
      BY DEF IsInjective
    <3> QED BY <3>1, <3>2 DEF Rankings, BoundedSeq, SeqOf
  <2> QED BY <1>2, <2>1, SearchKeeps
<1>3. CASE Fuse
  <2>1. HalvesInv
    BY DEF RetInv
  <2>2. IsList(halves["vector"].list) /\ IsList(halves["keyword"].list)
    BY <2>1, HalvesAreLists DEF Halves
  <2>3. /\ step = "search"
        /\ Retrieved(FuseResults(halves["vector"].list, halves["keyword"].list))
    BY <1>3 DEF Fuse
  <2> QED BY <2>2, <2>3, FusedIsFaithful, RetrievedKeeps
<1>4. CASE VectorOnly
  <2>1. HalvesInv /\ step = "search" /\ ~hybrid /\ Retrieved(halves["vector"].list)
    BY <1>4 DEF RetInv, VectorOnly
  <2>2. IsList(halves["vector"].list) /\ halves["keyword"].list = <<>>
    BY <2>1, HalvesAreLists DEF Halves, HalvesInv
  <2>3. Len(halves["vector"].list) <= FusedTopK
    BY <2>1 DEF HalvesInv, HalfLimit, Halves
  <2>4. Faithful(halves["vector"].list, halves["keyword"].list, halves["vector"].list)
    BY <2>2, <2>3, AloneIsFaithful
  <2>5. IsRanking(halves["vector"].list, FusedTopK)
    BY <2>2, <2>3 DEF IsRanking, IsList
  <2> QED BY <2>1, <2>4, <2>5, RetrievedKeeps
<1>5. CASE Rerank
  BY <1>5, RerankKeeps
<1>6. CASE StopSelecting
  BY <1>6, StopKeeps
<1>7. CASE SkipCandidate
  BY <1>7, SkipKeeps
<1>8. CASE TakeCandidate
  BY <1>8, TakeKeeps
<1>9. CASE UNCHANGED retVars
  <2>1. HalvesInv'
    BY <1>9 DEF retVars, RetInv, HalvesInv, HalfLimit
  <2>2. StageInv' /\ FusedInv'
    BY <1>9 DEF retVars, RetInv, StageInv, FusedInv, NothingDroppedWithoutReason,
                Repeats, OverBudget, CountFor
  <2> QED BY <1>9, <2>1, <2>2, SelectionUnchanged DEF retVars, RetInv
<1> QED BY <1>1, <1>2, <1>3, <1>4, <1>5, <1>6, <1>7, <1>8, <1>9 DEF RetNext

\* A question, whatever is found and whatever fails, has values of its types.
THEOREM RetTypeCorrect == RetSpec => []RetTypeOK
<1>1. RetInv => RetTypeOK
  <2> SUFFICES ASSUME RetInv PROVE RetTypeOK
    OBVIOUS
  <2>1. HalvesInv /\ ChosenInv /\ ContextFits /\ StageInv
    BY DEF RetInv
  <2>2. HalfTopK \in Nat /\ FusedTopK \in Nat
    BY RetrievalAssumption
  <2>3. ASSUME NEW h \in Halves
        PROVE  halves[h].pc \in HalfStates /\ IsRanking(halves[h].list, HalfTopK + FusedTopK)
    <3>1. halves[h] \in HalfRecord /\ IsList(halves[h].list)
      BY <2>1, HalvesAreLists DEF HalvesInv
    <3>2. Len(halves[h].list) <= HalfLimit /\ Len(halves[h].list) \in Nat
      BY <2>1, <3>1, ListFacts DEF HalvesInv
    <3>3. Len(halves[h].list) <= HalfTopK + FusedTopK
      BY <2>2, <3>2 DEF HalfLimit
    <3> QED BY <3>1, <3>3 DEF HalfRecord, IsList, IsRanking
  <2>4. DOMAIN halves = Halves
    BY <2>1 DEF HalvesInv
  <2>5. IsRanking(ranked, FusedTopK) /\ IsRanking(chosen, MaxChunks)
    BY <2>1 DEF ChosenInv, ContextFits, IsList, IsRanking
  <2> QED BY <2>1, <2>3, <2>4, <2>5 DEF RetTypeOK, StageInv, HalvesInv, ChosenInv
<1> QED BY <1>1, RetInitInv, RetNextInv, PTL DEF RetSpec

LEMMA FusedHolds == RetInv => FusionIsFaithful
<1> SUFFICES ASSUME RetInv, step = "rerank" \/ (step = "answer" /\ ranked = <<>>)
             PROVE  FusionIsFaithful
  BY DEF FusionIsFaithful
<1> DEFINE list == [h \in Halves |-> halves[h].list]
           v == list["vector"]
           k == list["keyword"]
<1>1. v = halves["vector"].list /\ k = halves["keyword"].list
  BY DEF Halves
<1>2. Faithful(v, k, ranked)
  BY <1>1 DEF RetInv, FusedInv
<1>3. \A h \in Halves : h = "vector" \/ h = "keyword"
  BY DEF Halves
<1>4. ASSUME NEW a \in Found(v, k), NEW b \in Range(ranked),
             \E h \in Halves : Leads(list[h], a, b),
             \A h \in Halves : ~Leads(list[h], b, a)
      PROVE  Leads(ranked, a, b)
  <2>1. Leads(v, a, b) \/ Leads(k, a, b)
    BY <1>3, <1>4
  <2>2. ~Leads(v, b, a) /\ ~Leads(k, b, a)
    BY <1>4 DEF Halves
  <2> QED BY <2>1, <2>2, <1>2 DEF Faithful
<1>5. ASSUME NEW g \in Halves, NEW h \in Halves, g # h, list[g] = <<>>
      PROVE  ranked = Cut(list[h], FusedTopK)
  BY <1>2, <1>3, <1>5 DEF Faithful
<1> HIDE DEF list
<1> QED BY <1>2, <1>4, <1>5 DEF FusionIsFaithful, Faithful, Found, list

\* RRFService.fuseResults, whatever the two searches of HybridSearchService
\* answer and whichever fails: nothing lost that fits, nothing added, nobody
\* overruled, and a failed search costs its own chunks alone.
THEOREM FusionIsFaithfulHolds == RetSpec => []FusionIsFaithful
<1> QED BY FusedHolds, RetInitInv, RetNextInv, PTL DEF RetSpec

\* ContextSelectorService.selectContext, for every ranking and all limits: the
\* context fits, repeats nothing, leaves out no candidate without a reason and
\* lets other documents go first.
THEOREM ContextIsFaithfulHolds == RetSpec => []ContextIsFaithful
<1>1. RetInv => ContextIsFaithful
  BY DEF RetInv, StageInv, ContextIsFaithful
<1> QED BY <1>1, RetInitInv, RetNextInv, PTL DEF RetSpec
=============================================================================
