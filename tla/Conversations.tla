---------------------------- MODULE Conversations ----------------------------
(***************************************************************************)
(* One conversation of modules/conversations: the turns sent to it, each a *)
(* chain of database calls around one RAG query, with other turns, renames *)
(* and a deletion between any two of them, and the listings that page      *)
(* through its messages while they are written.                            *)
(*                                                                         *)
(* A message's createdAt is given when its INSERT is built and becomes     *)
(* visible when the transaction commits, so messages can appear out of     *)
(* their order.  Every message gets a time of its own.                     *)
(***************************************************************************)
EXTENDS Naturals, FiniteSets

CONSTANTS
    Turns,         \* sendMessage requests, each made once
    Editors,       \* rename and delete requests, each made once
    Listings,      \* clients that page through the messages, each once
    HistoryLimit,  \* CONVERSATION_HISTORY_LIMIT
    PageLimit      \* the limit of a listing

ASSUME ConversationsAssumption ==
    /\ IsFiniteSet(Turns)
    /\ HistoryLimit \in Nat \ {0}
    /\ PageLimit \in Nat \ {0}
    /\ Turns \cap {"none", "default", "named", "gone"} = {}

VARIABLES
    title,     \* conversations.title; "none" and "gone" for no row
    early,     \* history: turns under way when the title was last given
    messages,  \* rows of messages
    cited,     \* turns whose answer has rows in message_sources
    clock,     \* the last createdAt given
    document,  \* is the document the answers cite still there
    turns,     \* sendMessage requests
    edits,     \* rename and delete requests
    listings   \* listMessages clients

convVars == <<title, early, messages, cited, clock, document, turns, edits, listings>>
----------------------------------------------------------------------------

\* The default title, one a user gave, or the one made of a turn's question.
Titles == {"default", "named"} \cup Turns

Message == [turn : Turns, role : {"USER", "ASSISTANT"}, at : Nat]

\* before is history: the messages there when the turn found its conversation.
Turn == [pc : {"idle", "history", "question", "commit", "query", "answer",
               "store", "title", "replied", "failed"},
         title : {"none"} \cup Titles, history : SUBSET Message,
         before : SUBSET Message, at : Nat, cites : BOOLEAN]

Edit == [pc : {"idle", "found", "done"}, op : {"rename", "delete"}]

\* needs: the queries of the page that have not answered yet.  after is the
\* cursor, page the offset; atStart, late and repeated are history.
Listing == [pc : {"idle", "next", "page", "done", "stopped"},
            mode : {"cursor", "offset"}, needs : SUBSET {"rows", "count"},
            after : Nat, page : Nat, rows : SUBSET Message, total : Nat,
            got : SUBSET Message, atStart : SUBSET Message,
            late : BOOLEAN, repeated : BOOLEAN]

UnderWay == {t \in Turns : turns[t].pc \notin {"idle", "replied", "failed"}}

Live == title \notin {"none", "gone"}

\* The n oldest, the n youngest and all but the n oldest of a set of messages.
Oldest(S, n) == {m \in S : Cardinality({o \in S : o.at < m.at}) < n}
Youngest(S, n) == {m \in S : Cardinality({o \in S : o.at > m.at}) < n}
Skipping(S, n) == {m \in S : Cardinality({o \in S : o.at < m.at}) >= n}

NoTurn == [pc |-> "idle", title |-> "none", history |-> {},
           before |-> {}, at |-> 0, cites |-> FALSE]
NoEdit == [pc |-> "idle", op |-> "rename"]
NoListing == [pc |-> "idle", mode |-> "cursor", needs |-> {}, after |-> 0,
              page |-> 0, rows |-> {}, total |-> 0, got |-> {}, atStart |-> {},
              late |-> FALSE, repeated |-> FALSE]

ConvInit ==
    /\ title = "none"
    /\ early = {}
    /\ messages = {}
    /\ cited = {}
    /\ clock = 0
    /\ document = TRUE
    /\ turns = [t \in Turns |-> NoTurn]
    /\ edits = [e \in Editors |-> NoEdit]
    /\ listings = [l \in Listings |-> NoListing]
----------------------------------------------------------------------------
\* The conversation and its title

\* createConversation: a blank title is the default one.
CreateConversation(given) ==
    /\ title = "none"
    /\ title' = given
    /\ UNCHANGED <<early, messages, cited, clock, document, turns, edits, listings>>

\* updateConversation and deleteConversation: find the row, or 404.
FindToEdit(e, op) ==
    /\ edits[e].pc = "idle" /\ title # "none"
    /\ edits' = [edits EXCEPT ![e] = [pc |-> IF Live THEN "found" ELSE "done", op |-> op]]
    /\ UNCHANGED <<title, early, messages, cited, clock, document, turns, listings>>

\* updateMany writes nothing when the row has gone meanwhile.
Rename(e, given) ==
    /\ edits[e].pc = "found" /\ edits[e].op = "rename"
    /\ title' = IF Live THEN given ELSE title
    /\ early' = UnderWay
    /\ edits' = [edits EXCEPT ![e].pc = "done"]
    /\ UNCHANGED <<messages, cited, clock, document, turns, listings>>

\* deleteMany, which takes the messages and their sources along.
DeleteConversation(e) ==
    /\ edits[e].pc = "found" /\ edits[e].op = "delete"
    /\ title' = "gone"
    /\ messages' = {}
    /\ cited' = {}
    /\ edits' = [edits EXCEPT ![e].pc = "done"]
    /\ UNCHANGED <<early, clock, document, turns, listings>>

\* Deleting a document takes the sources that cite it along.
DeleteDocument ==
    /\ document
    /\ document' = FALSE
    /\ cited' = {}
    /\ UNCHANGED <<title, early, messages, clock, turns, edits, listings>>
----------------------------------------------------------------------------
\* sendMessage

In(t, step) == turns[t].pc = step
Fail(t) == turns' = [turns EXCEPT ![t].pc = "failed"]

FindForTurn(t) ==
    /\ In(t, "idle") /\ title # "none"
    /\ IF Live
       THEN turns' = [turns EXCEPT ![t].pc = "history", ![t].title = title,
                                   ![t].before = messages]
       ELSE Fail(t)
    /\ UNCHANGED <<title, early, messages, cited, clock, document, edits, listings>>

ReadHistory(t) ==
    /\ In(t, "history")
    /\ turns' = [turns EXCEPT ![t].pc = "question",
                              ![t].history = Youngest(messages, HistoryLimit)]
    /\ UNCHANGED <<title, early, messages, cited, clock, document, edits, listings>>

\* A message is given its createdAt on the way into the transaction.
Stamp(t, from, to) ==
    /\ In(t, from)
    /\ clock' = clock + 1
    /\ turns' = [turns EXCEPT ![t].pc = to, ![t].at = clock + 1]
    /\ UNCHANGED <<title, early, messages, cited, document, edits, listings>>

StampQuestion(t) == Stamp(t, "question", "commit")
StampAnswer(t) == Stamp(t, "answer", "store")

\* A row that commits after a younger one shows up behind a listing's back.
Add(m) ==
    /\ messages' = messages \cup {m}
    /\ listings' = [l \in Listings |-> [listings[l] EXCEPT
          !.late = @ \/ (listings[l].pc # "idle" /\ \E o \in messages : o.at > m.at)]]

\* createMessage; the conversation's updatedAt moves in the same transaction,
\* which fails when the conversation has gone.
StoreQuestion(t) ==
    /\ In(t, "commit")
    /\ IF Live
       THEN /\ Add([turn |-> t, role |-> "USER", at |-> turns[t].at])
            /\ turns' = [turns EXCEPT ![t].pc = "query"]
       ELSE Fail(t) /\ UNCHANGED <<messages, listings>>
    /\ UNCHANGED <<title, early, cited, clock, document, edits>>

\* queryService.query: an answer with or without citations, or it throws.
Answer(t, cites) ==
    /\ In(t, "query")
    /\ cites => document
    /\ turns' = [turns EXCEPT ![t].pc = "answer", ![t].cites = cites]
    /\ UNCHANGED <<title, early, messages, cited, clock, document, edits, listings>>

\* Mutant: only the history decides.
UntitledAnyTitle(t) == turns[t].history = {}

\* Auto-title: the title and the history as this turn read them decide.
Untitled(t) == turns[t].title = "default" /\ turns[t].history = {}

\* Mutant: the sources are written after the transaction, best effort.
StoreAnswerFirst(t) ==
    /\ In(t, "store")
    /\ IF Live
       THEN /\ Add([turn |-> t, role |-> "ASSISTANT", at |-> turns[t].at])
            /\ turns' = [turns EXCEPT ![t].pc = IF Untitled(t) THEN "title" ELSE "replied"]
       ELSE Fail(t) /\ UNCHANGED <<messages, listings>>
    /\ UNCHANGED <<title, early, cited, clock, document, edits>>

\* createAssistantMessageWithSources: one transaction, which fails when the
\* conversation or a cited document has gone.
StoreAnswer(t) ==
    /\ In(t, "store")
    /\ IF Live /\ (turns[t].cites => document)
       THEN /\ Add([turn |-> t, role |-> "ASSISTANT", at |-> turns[t].at])
            /\ cited' = IF turns[t].cites THEN cited \cup {t} ELSE cited
            /\ turns' = [turns EXCEPT ![t].pc = IF Untitled(t) THEN "title" ELSE "replied"]
       ELSE Fail(t) /\ UNCHANGED <<messages, cited, listings>>
    /\ UNCHANGED <<title, early, clock, document, edits>>

\* The updateMany that sets the title looks at neither the title nor whether
\* the conversation is still there.
SetTitle(t) ==
    /\ In(t, "title")
    /\ title' = IF Live THEN t ELSE title
    /\ turns' = [turns EXCEPT ![t].pc = "replied"]
    /\ UNCHANGED <<early, messages, cited, clock, document, edits, listings>>

\* A database call or the query throws, or the process dies: what was
\* committed stays.
Abort(t) ==
    /\ turns[t].pc \notin {"idle", "replied", "failed"}
    /\ Fail(t)
    /\ UNCHANGED <<title, early, messages, cited, clock, document, edits, listings>>
----------------------------------------------------------------------------
\* listMessages, page after page

Paging(l, step) == listings[l].pc = step

OpenListing(l, mode) ==
    /\ Paging(l, "idle") /\ Live
    /\ listings' = [listings EXCEPT ![l] =
          [NoListing EXCEPT !.pc = "next", !.mode = mode, !.atStart = messages]]
    /\ UNCHANGED <<title, early, messages, cited, clock, document, turns, edits>>

\* The conversation is found again for every page; with a page number the
\* rows and their count are asked for at the same time.
FindPage(l) ==
    /\ Paging(l, "next")
    /\ listings' = [listings EXCEPT
          ![l].pc = IF Live THEN "page" ELSE "stopped",
          ![l].needs = IF listings[l].mode = "offset" THEN {"rows", "count"} ELSE {"rows"}]
    /\ UNCHANGED <<title, early, messages, cited, clock, document, turns, edits>>

\* take limit + 1 after the cursor, or limit after skipping the pages before.
PageRows(q) ==
    IF q.mode = "cursor"
    THEN Oldest({m \in messages : m.at > q.after}, PageLimit + 1)
    ELSE Oldest(Skipping(messages, q.page * PageLimit), PageLimit)

ReadRows(l) ==
    /\ Paging(l, "page") /\ "rows" \in listings[l].needs
    /\ listings' = [listings EXCEPT ![l].needs = @ \ {"rows"},
                                    ![l].rows = PageRows(listings[l])]
    /\ UNCHANGED <<title, early, messages, cited, clock, document, turns, edits>>

ReadCount(l) ==
    /\ Paging(l, "page") /\ "count" \in listings[l].needs
    /\ listings' = [listings EXCEPT ![l].needs = @ \ {"count"},
                                    ![l].total = Cardinality(messages)]
    /\ UNCHANGED <<title, early, messages, cited, clock, document, turns, edits>>

\* The stamp of the last row of a page; the cursor is that row's id.
LastOf(S) == CHOOSE n \in {m.at : m \in S} : \A m \in S : m.at <= n

\* Mutant: the cursor is the extra row, which the next page then skips.
CursorOfExtra(rows) == LastOf(rows)

\* buildCursorPagination: the cursor is the last row that is shown.
NextCursor(rows) == LastOf(Oldest(rows, PageLimit))

\* hasNextPage, for a client that goes on until it is false.
HasNext(q) == IF q.mode = "cursor"
              THEN Cardinality(q.rows) > PageLimit
              ELSE (q.page + 1) * PageLimit < q.total

ShowPage(l) ==
    /\ Paging(l, "page") /\ listings[l].needs = {}
    /\ LET q == listings[l]
           data == Oldest(q.rows, PageLimit)
       IN listings' = [listings EXCEPT ![l] = [q EXCEPT
             !.pc = IF HasNext(q) THEN "next" ELSE "done",
             !.after = IF HasNext(q) /\ q.mode = "cursor" THEN NextCursor(q.rows) ELSE 0,
             !.page = q.page + 1,
             !.rows = {},
             !.got = @ \cup data,
             !.repeated = @ \/ q.got \cap data # {}]]
    /\ UNCHANGED <<title, early, messages, cited, clock, document, turns, edits>>
----------------------------------------------------------------------------
ConvNext ==
    \/ \E given \in {"default", "named"} : CreateConversation(given)
    \/ \E e \in Editors, op \in {"rename", "delete"} : FindToEdit(e, op)
    \/ \E e \in Editors, given \in {"default", "named"} : Rename(e, given)
    \/ \E e \in Editors : DeleteConversation(e)
    \/ DeleteDocument
    \/ \E t \in Turns : FindForTurn(t)
    \/ \E t \in Turns : ReadHistory(t)
    \/ \E t \in Turns : StampQuestion(t)
    \/ \E t \in Turns : StoreQuestion(t)
    \/ \E t \in Turns, cites \in BOOLEAN : Answer(t, cites)
    \/ \E t \in Turns : StampAnswer(t)
    \/ \E t \in Turns : StoreAnswer(t)
    \/ \E t \in Turns : SetTitle(t)
    \/ \E t \in Turns : Abort(t)
    \/ \E l \in Listings, mode \in {"cursor", "offset"} : OpenListing(l, mode)
    \/ \E l \in Listings : FindPage(l)
    \/ \E l \in Listings : ReadRows(l)
    \/ \E l \in Listings : ReadCount(l)
    \/ \E l \in Listings : ShowPage(l)

ConvSpec == ConvInit /\ [][ConvNext]_convVars
----------------------------------------------------------------------------
ConvTypeOK ==
    /\ title \in {"none", "gone"} \cup Titles
    /\ early \subseteq Turns
    /\ messages \subseteq Message
    /\ cited \subseteq Turns
    /\ clock \in Nat
    /\ document \in BOOLEAN
    /\ turns \in [Turns -> Turn]
    /\ edits \in [Editors -> Edit]
    /\ listings \in [Listings -> Listing]

\* The prompt of a turn was built from messages of the conversation, and from
\* each one that was there when the turn began unless HistoryLimit younger
\* ones took its place.
Recalled(t) ==
    /\ turns[t].history \subseteq messages
    /\ \A m \in turns[t].before :
          \/ m \in turns[t].history
          \/ Cardinality({o \in turns[t].history : o.at > m.at}) >= HistoryLimit

\* A turn that was answered has its question and its answer in the history,
\* the answer after the question and the question after everything its prompt
\* was built from, which left out no turn answered before unless it was too
\* long ago; and the answer has its sources as long as the document is there.
\* The deletion of a document or of the conversation in the middle of a turn
\* never leaves half of it.
AnsweredTurnsAreWhole ==
    \A t \in Turns : Live /\ turns[t].pc \in {"title", "replied"} =>
        /\ Recalled(t)
        /\ \E q, a \in messages :
              /\ q.turn = t /\ q.role = "USER"
              /\ a.turn = t /\ a.role = "ASSISTANT"
              /\ q.at < a.at
              /\ \A m \in turns[t].history : m.at < q.at
        /\ turns[t].cites => (t \in cited \/ ~document)

\* A name a user gave gives way to a generated title only when the turn that
\* generates it was already under way when the name was given: a conversation
\* that was created with a name, or named between two turns, keeps it.
NamesOutliveLaterTurns ==
    [][\A t \in Turns : title = "named" /\ title' = t => t \in early]_convVars

\* Following the cursor shows no message twice and every message that was
\* there at the start, whatever is written meanwhile; page numbers do so as
\* long as no message commits behind a younger one.
ListingsAreComplete ==
    \A l \in Listings :
        LET q == listings[l]
        IN Live /\ (q.mode = "offset" => ~q.late) =>
              /\ ~q.repeated
              /\ q.pc = "done" => q.atStart \subseteq q.got
=============================================================================
