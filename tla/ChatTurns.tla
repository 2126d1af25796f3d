------------------------------- MODULE ChatTurns -------------------------------
(***************************************************************************)
(* Conversations: questions that are prepared from what is stored, answered *)
(* by retrieval and a model without any transaction, and stored with their *)
(* answers at the end; regenerations that replace the latest turn; titles, *)
(* deletions, and scans of the messages page by page.                      *)
(*                                                                         *)
(* Both rows of a turn get the time at which their transaction began and   *)
(* random ids, so either may come first: a row is named by the request     *)
(* that wrote it and its rank among its two rows.  Times of transactions   *)
(* differ.  One user's conversations are modelled: every statement is      *)
(* restricted to the owner.                                                *)
(***************************************************************************)
EXTENDS Naturals, FiniteSets

CONSTANTS
  Conversations, NoConversation,
  Questions,      \* calls of query and query_stream
  PageSize        \* page_size of a scan

ASSUME ChatAssumption == NoConversation \notin Conversations /\ PageSize \in Nat \ {0}

VARIABLES
  conversations,  \* [Conversations -> "none", "untouched", "renamed" or "deleted"]
  messages,       \* [Rows -> message]
  questions,      \* [Questions -> request]
  scan,           \* a client that reads all messages of a conversation
  chatTime        \* now() of the next transaction

chatVars == <<conversations, messages, questions, scan, chatTime>>

-----------------------------------------------------------------------------
Rows == Questions \X {1, 2}

NoMessage == [conv |-> NoConversation, at |-> 0, role |-> "none"]

\* removed are the rows a regeneration is to replace; known is history: the rows of
\* the conversation when it was prepared.
NewRequest == [pc |-> "idle", kind |-> "ask", conv |-> NoConversation, removed |-> {},
               known |-> {}, at |-> 0]

\* cursor is the row the last page ended with; start is history: the rows there were
\* when the scan began, and twice whether a row came twice.
NoScan == [pc |-> "idle", way |-> "asc", conv |-> NoConversation, cursor |-> <<0, 0>>,
           got |-> {}, start |-> {}, twice |-> FALSE]

Exists(c) == conversations[c] \in {"untouched", "renamed"}
RowsOf(c) == {m \in Rows : messages[m].conv = c /\ messages[m].role \in {"user", "assistant"}}

\* (created_at, id)
Place(m) == <<messages[m].at, m[2]>>
After(p, q) == \/ p[1] > q[1]
               \/ p[1] = q[1] /\ p[2] > q[2]

\* ORDER BY created_at DESC, id DESC LIMIT n
Latest(rows, n) == {m \in rows : Cardinality({k \in rows : After(Place(k), Place(m))}) < n}

\* _trailing_turn_message_ids: among the last four rows, answers up to and including
\* the first question.
TrailingTurn(c) ==
  LET last == Latest(RowsOf(c), 4) IN
  {m \in last : \A k \in last : messages[k].role = "user" => ~After(Place(k), Place(m))}

-----------------------------------------------------------------------------
\* _prepare_conversation for a new conversation, whose id exists before its row.
PrepareNew(r, c) ==
  /\ questions[r].pc = "idle" /\ conversations[c] = "none"
  /\ \A q \in Questions : questions[q].conv # c
  /\ questions' = [questions EXCEPT ![r] = [NewRequest EXCEPT !.pc = "answering", !.kind = "new",
                                                            !.conv = c]]
  /\ UNCHANGED <<conversations, messages, scan, chatTime>>

\* _prepare_conversation for one that is stored; the transaction is rolled back.
Prepare(r, c, kind) ==
  /\ questions[r].pc = "idle" /\ Exists(c)
  /\ questions' = [questions EXCEPT ![r] =
       [NewRequest EXCEPT !.pc = "answering", !.kind = kind, !.conv = c, !.known = RowsOf(c),
                          !.removed = IF kind = "regenerate" THEN TrailingTurn(c) ELSE {}]]
  /\ UNCHANGED <<conversations, messages, scan, chatTime>>

\* Retrieval, the model, the check of its output or the client's connection fails.
AnswerFails(r) ==
  /\ questions[r].pc = "answering"
  /\ questions' = [questions EXCEPT ![r].pc = "done"]
  /\ UNCHANGED <<conversations, messages, scan, chatTime>>

\* The answer is complete and the transaction begins, perhaps with a wait for the row
\* of the conversation.
BeginPersist(r) ==
  /\ questions[r].pc = "answering"
  /\ questions' = [questions EXCEPT ![r].pc = "persisting", ![r].at = chatTime]
  /\ chatTime' = chatTime + 1
  /\ UNCHANGED <<conversations, messages, scan>>

\* The rows request r inserts when a question comes with the answer, or not; ranks are
\* those of random ids.
Inserted(r, m, question, rank) ==
  IF question
  THEN [conv |-> questions[r].conv, at |-> questions[r].at,
        role |-> IF m[2] = rank THEN "user" ELSE "assistant"]
  ELSE IF m[2] = rank
  THEN [conv |-> questions[r].conv, at |-> questions[r].at, role |-> "assistant"]
  ELSE messages[m]

\* DELETE leaves nothing; the model remembers that the id was used.
Removed(m) == [messages[m] EXCEPT !.role = "deleted"]

\* Mutant of Persist: the turn to replace is looked for when the answer is there.
PersistReplacesLatest(r, rank) ==
  LET c == questions[r].conv
      kind == questions[r].kind IN
  /\ questions[r].pc = "persisting" /\ (kind = "new" \/ Exists(c))
  /\ conversations' = [conversations EXCEPT ![c] = IF kind = "new" THEN "untouched" ELSE @]
  /\ messages' = [m \in Rows |->
       IF m[1] = r THEN Inserted(r, m, kind # "regenerate", rank)
       ELSE IF kind = "regenerate" /\ m \in TrailingTurn(c) THEN Removed(m)
       ELSE messages[m]]
  /\ questions' = [questions EXCEPT ![r].pc = "done"]
  /\ UNCHANGED <<scan, chatTime>>

\* _persist_conversation_turn: the conversation is inserted, or locked and touched; a
\* regeneration deletes the rows it found in the beginning and stores no question.
Persist(r, rank) ==
  LET c == questions[r].conv
      kind == questions[r].kind IN
  /\ questions[r].pc = "persisting" /\ (kind = "new" \/ Exists(c))
  /\ conversations' = [conversations EXCEPT ![c] = IF kind = "new" THEN "untouched" ELSE @]
  /\ messages' = [m \in Rows |->
       IF m[1] = r THEN Inserted(r, m, kind # "regenerate", rank)
       ELSE IF m \in questions[r].removed THEN Removed(m)
       ELSE messages[m]]
  /\ questions' = [questions EXCEPT ![r].pc = "done"]
  /\ UNCHANGED <<scan, chatTime>>

\* The conversation was deleted meanwhile: ConversationNotFoundError.  Or the commit
\* fails.
PersistFails(r) ==
  /\ questions[r].pc = "persisting"
  /\ questions' = [questions EXCEPT ![r].pc = "done"]
  /\ UNCHANGED <<conversations, messages, scan, chatTime>>

UpdateTitle(c) ==
  /\ Exists(c)
  /\ conversations' = [conversations EXCEPT ![c] = "renamed"]
  /\ UNCHANGED <<messages, questions, scan, chatTime>>

\* delete_conversation; the foreign key of messages cascades.
DeleteConversation(c) ==
  /\ Exists(c)
  /\ conversations' = [conversations EXCEPT ![c] = "deleted"]
  /\ messages' = [m \in Rows |-> IF m \in RowsOf(c) THEN Removed(m) ELSE messages[m]]
  /\ UNCHANGED <<questions, scan, chatTime>>

-----------------------------------------------------------------------------
(* scan_messages goes forward from the first message, scan_recent_messages *)
(* backward from the last.                                                 *)

BeginPageScan(c, way) ==
  /\ scan.pc = "idle" /\ Exists(c)
  /\ scan' = [NoScan EXCEPT !.pc = "reading", !.way = way, !.conv = c, !.start = RowsOf(c)]
  /\ UNCHANGED <<conversations, messages, questions, chatTime>>

Behind(way, p, q) == IF way = "asc" THEN After(p, q) ELSE After(q, p)

\* Mutant of Unread: times are compared without ids.
UnreadByTime(c, way, cursor) ==
  {m \in RowsOf(c) : cursor = <<0, 0>> \/ (IF way = "asc" THEN Place(m)[1] > cursor[1]
                                           ELSE Place(m)[1] < cursor[1])}

\* The rows beyond the cursor.
Unread(c, way, cursor) ==
  {m \in RowsOf(c) : cursor = <<0, 0>> \/ Behind(way, Place(m), cursor)}

\* One row more than a page is read, to know whether to hand out another cursor.
ReadPage ==
  LET rows == Unread(scan.conv, scan.way, scan.cursor)
      Ahead(m) == {k \in rows : Behind(scan.way, Place(m), Place(k))}
      page == {m \in rows : Cardinality(Ahead(m)) < PageSize}
      last == CHOOSE m \in page : page \subseteq Ahead(m) \cup {m} IN
  /\ scan.pc = "reading"
  /\ scan' = [scan EXCEPT !.got = scan.got \cup page,
                          !.twice = scan.twice \/ page \cap scan.got # {},
                          !.pc = IF page = rows THEN "done" ELSE "reading",
                          !.cursor = IF page = rows THEN scan.cursor ELSE Place(last)]
  /\ UNCHANGED <<conversations, messages, questions, chatTime>>

-----------------------------------------------------------------------------
ChatInit ==
  /\ conversations = [c \in Conversations |-> "none"]
  /\ messages = [m \in Rows |-> NoMessage]
  /\ questions = [r \in Questions |-> NewRequest]
  /\ scan = NoScan
  /\ chatTime = 1

ChatNext ==
  \/ \E r \in Questions, c \in Conversations :
       \/ PrepareNew(r, c)
       \/ \E kind \in {"ask", "regenerate"} : Prepare(r, c, kind)
  \/ \E r \in Questions :
       \/ AnswerFails(r) \/ BeginPersist(r) \/ PersistFails(r)
       \/ \E rank \in {1, 2} : Persist(r, rank)
  \/ \E c \in Conversations :
       \/ UpdateTitle(c) \/ DeleteConversation(c)
       \/ \E way \in {"asc", "desc"} : BeginPageScan(c, way)
  \/ ReadPage

ChatSpec == ChatInit /\ [][ChatNext]_chatVars

-----------------------------------------------------------------------------
(* Properties.                                                             *)

\* Types of every variable; no message without its conversation.
ChatTypeOK ==
  /\ conversations \in [Conversations -> {"none", "untouched", "renamed", "deleted"}]
  /\ messages \in [Rows -> [conv : Conversations \cup {NoConversation}, at : Nat,
                            role : {"none", "user", "assistant", "deleted"}]]
  /\ questions \in [Questions -> [pc : {"idle", "answering", "persisting", "done"},
                                kind : {"new", "ask", "regenerate"},
                                conv : Conversations \cup {NoConversation},
                                removed : SUBSET Rows, known : SUBSET Rows, at : Nat]]
  /\ scan \in [pc : {"idle", "reading", "done"}, way : {"asc", "desc"},
               conv : Conversations \cup {NoConversation}, cursor : Nat \X Nat,
               got : SUBSET Rows, start : SUBSET Rows, twice : BOOLEAN]
  /\ chatTime \in Nat
  /\ \A m \in Rows : messages[m].role \in {"user", "assistant"} => Exists(messages[m].conv)

\* An answer takes seconds; what another request stored in the conversation meanwhile
\* is not what a regeneration is to replace, and stays.
NewerTurnsKept ==
  [][\A r \in Questions, m \in Rows :
       /\ questions[r].pc = "persisting" /\ questions'[r].pc = "done"
       /\ messages[m].role \in {"user", "assistant"} /\ messages'[m].role = "deleted"
       => m \in questions[r].known]_chatVars

\* "The user's message is kept as it was": a question goes only with its conversation.
QuestionsKept ==
  [][\A m \in Rows : messages[m].role = "user" /\ messages'[m].role = "deleted"
                     => ~Exists(messages[m].conv)']_chatVars

\* A scan that is over has seen, once each, all messages that were there all the time,
\* whatever was stored and deleted while it went from page to page, and also when a
\* page ends between the two messages of one turn.
ScansComplete ==
  scan.pc = "done" =>
    /\ ~scan.twice
    /\ \A m \in scan.start : messages[m].role \in {"user", "assistant"} => m \in scan.got

=============================================================================
