----------------------------- MODULE ChatStore -----------------------------
(***************************************************************************)
(* The stored history of one chat.  Every statement of the repository      *)
(* commits by itself, requests are served by threads of their own, and     *)
(* save_session writes back a snapshot taken earlier: the row first, then  *)
(* every message of the snapshot, one statement each.                      *)
(***************************************************************************)
EXTENDS Naturals, Sequences, FiniteSets, SequencesExt

CONSTANTS
  Requests,     \* requests in flight
  Earlier,      \* message ids stored before, questions and replies in turn
  MaxRenames,   \* bound: renames through PATCH
  MaxDeletes    \* bound: deletions of the chat

\* message_id is the primary key of chat_messages.
ASSUME StoreAssumption ==
  /\ MaxRenames \in Nat /\ MaxDeletes \in Nat
  /\ Earlier \in Seq(STRING) /\ IsInjective(Earlier)

VARIABLES
  chat,       \* the row of chat_sessions
  messages,   \* the rows of chat_messages
  req,        \* the requests
  renames, deletes

storeVars == <<chat, messages, req, renames, deletes>>

Fresh == "New Chat"
\* opened: the title the handler saw; title: the one in the snapshot it will save.
Idle == [kind |-> "none", pc |-> "idle", opened |-> Fresh, title |-> Fresh, snap |-> <<>>,
         own |-> <<>>, todo |-> 0, target |-> <<>>, tries |-> 0]
Message(id, role, seq) == [id |-> id, role |-> role, seq |-> seq, text |-> 0]

StoreInit ==
  /\ chat = [live |-> TRUE, title |-> Fresh]
  /\ messages = {Message(<<Earlier[i]>>, IF i % 2 = 1 THEN "USER" ELSE "ASSISTANT", i - 1) :
                   i \in DOMAIN Earlier}
  /\ req = [r \in Requests |-> Idle]
  /\ renames = 0 /\ deletes = 0

Stands(r, pcs) == req[r].pc \in pcs
Set(r, new) == req' = [req EXCEPT ![r] = new]
\* A request that moves on keeps what it still needs.
Goes(r, pc) ==
  Set(r, CASE pc = "done" -> [Idle EXCEPT !.pc = "done", !.kind = req[r].kind,
                                          !.target = req[r].target]
           [] pc \in {"run", "answerLoad"} ->
                [req[r] EXCEPT !.pc = pc, !.snap = <<>>, !.own = <<>>, !.title = Fresh,
                               !.opened = Fresh, !.todo = 0]
           [] pc \in {"askRow", "answerRow"} -> [req[r] EXCEPT !.pc = pc, !.own = <<>>]
           [] OTHER -> [req[r] EXCEPT !.pc = pc])
StoreAsIs == UNCHANGED <<chat, messages, renames, deletes>>

----------------------------------------------------------------------------
(* The repository: what one statement does. *)

\* _list_messages_with_conn: by sequence number, equal ones in one fixed order.
Listing ==
  LET row == SetToSeq(messages)
      Place(i) == Cardinality({j \in DOMAIN row :
                    row[j].seq < row[i].seq \/ (row[j].seq = row[i].seq /\ j <= i)})
  IN [k \in DOMAIN row |-> row[CHOOSE i \in DOMAIN row : Place(i) = k]]

\* The question that edit, regenerate and retry are about: the last one listed, if any.
LastAsked ==
  LET all   == Listing
      asked == {i \in DOMAIN all : all[i].role = "USER"}
  IN {all[i].id : i \in {j \in asked : \A k \in asked : k <= j}}

IdsOf(ms) == {m.id : m \in ms}

\* _save_message_with_conn: a foreign key needs the chat; a conflict keeps the stored
\* sequence number and takes the rest from the message at hand.
Upserted(m) ==
  LET stored == {n \in messages : n.id = m.id}
  IN (messages \ stored) \union
       {IF stored = {} THEN m ELSE [m EXCEPT !.seq = (CHOOSE n \in stored : TRUE).seq]}

\* What a request does when the snapshot it saves meets a deleted chat: a routed turn
\* answers once more with an error message, everything else ends.
Broken(r) ==
  IF Stands(r, {"answerWrite", "answerList"}) /\ req[r].kind # "stream" /\ req[r].tries = 0
  THEN Set(r, [req[r] EXCEPT !.pc = "answerLoad", !.tries = 1, !.snap = <<>>, !.own = <<>>,
                             !.todo = 0])
  ELSE Goes(r, "done")

----------------------------------------------------------------------------
(* A request: POST messages or stream, edit, regenerate or retry.          *)

\* The handler's own get_session; without the row a send opens another chat, the rest is 404.
Begin(r, kind) ==
  /\ Stands(r, {"idle"})
  /\ LET about == IF kind \in {"edit", "again"} THEN LastAsked ELSE {<<r, "q">>}
     IN IF ~chat.live \/ about = {}
        THEN Goes(r, "done")
        ELSE \E id \in about :
               Set(r, [req[r] EXCEPT !.kind = kind, !.opened = chat.title, !.target = id,
                                     !.pc = CASE kind = "edit" -> "editFind"
                                              [] kind = "again" -> "run"
                                              [] OTHER -> "askLoad"])
  /\ StoreAsIs

\* (mutant) add_assistant_response works on the session its handler has loaded before.
LoadAndAppendToOld(r) ==
  /\ Stands(r, {"askLoad", "answerLoad"})
  /\ LET ask == Stands(r, {"askLoad"})
         id  == IF ask THEN <<r, "q">> ELSE <<r, "a", req[r].tries>>
         m   == Message(id, IF ask THEN "USER" ELSE "ASSISTANT", Len(req[r].snap))
     IN Set(r, [req[r] EXCEPT !.snap = Append(@, m), !.own = m,
                              !.pc = IF ask THEN "askWrite" ELSE "answerWrite"])
  /\ StoreAsIs

\* add_user_message and add_assistant_response: a snapshot of the moment, one longer.
LoadAndAppend(r) ==
  /\ Stands(r, {"askLoad", "answerLoad"})
  /\ LET ask == Stands(r, {"askLoad"})
         id  == IF ask THEN <<r, "q">> ELSE <<r, "a", req[r].tries>>
         m   == Message(id, IF ask THEN "USER" ELSE "ASSISTANT", Len(Listing))
     IN IF chat.live
        THEN Set(r, [req[r] EXCEPT !.snap = Append(Listing, m), !.own = m,
                                   !.title = chat.title,
                                   !.pc = IF ask THEN "askWrite" ELSE "answerWrite"])
        ELSE Goes(r, IF ask THEN "title" ELSE "done")
  /\ StoreAsIs

\* update_message: the stored message, found by its id alone, gets the new text.
FindMessage(r) ==
  /\ Stands(r, {"editFind"})
  /\ \/ /\ \E m \in messages :
             m.id = req[r].target
               /\ Set(r, [req[r] EXCEPT !.own = [m EXCEPT !.text = m.text + 1],
                                        !.pc = "editWrite"])
     \/ req[r].target \notin IdsOf(messages) /\ Goes(r, "done")
  /\ StoreAsIs

\* save_message
SaveMessage(r) ==
  /\ Stands(r, {"askWrite", "editWrite", "answerWrite"})
  /\ IF chat.live
     THEN /\ messages' = Upserted(req[r].own)
          /\ Goes(r, IF Stands(r, {"editWrite"}) THEN "editLoad"
                     ELSE IF Stands(r, {"askWrite"}) THEN "askRow" ELSE "answerRow")
     ELSE Broken(r) /\ UNCHANGED messages
  /\ UNCHANGED <<chat, renames, deletes>>

\* update_message puts the edited message into a snapshot taken after it was saved.
LoadForEdit(r) ==
  /\ Stands(r, {"editLoad"})
  /\ LET own == req[r].own
         all == Listing
     IN IF chat.live
        THEN Set(r, [req[r] EXCEPT
               !.snap = [i \in DOMAIN all |-> IF all[i].id = own.id THEN own ELSE all[i]],
               !.title = chat.title, !.pc = "editRow"])
        ELSE Goes(r, "run")
  /\ StoreAsIs

\* save_session, first statement: insert or overwrite the row.
SaveRow(r) ==
  /\ Stands(r, {"askRow", "editRow", "answerRow"})
  /\ chat' = [live |-> TRUE, title |-> req[r].title]
  /\ Set(r, [req[r] EXCEPT !.todo = 1,
                           !.pc = IF Stands(r, {"askRow"}) THEN "askList"
                                  ELSE IF Stands(r, {"editRow"}) THEN "editList" ELSE "answerList"])
  /\ UNCHANGED <<messages, renames, deletes>>

\* save_session, then one statement for each message of the snapshot, numbered by position.
SaveListed(r) ==
  /\ Stands(r, {"askList", "editList", "answerList"})
  /\ LET k == req[r].todo
     IN IF k > Len(req[r].snap)
        THEN /\ IF Stands(r, {"askList"})
                THEN Set(r, [req[r] EXCEPT !.snap = <<>>, !.todo = 0, !.pc = "title"])
                ELSE Goes(r, IF Stands(r, {"editList"}) THEN "run" ELSE "done")
             /\ UNCHANGED messages
        ELSE IF chat.live
             THEN /\ messages' = Upserted([req[r].snap[k] EXCEPT !.seq = k - 1])
                  /\ Set(r, [req[r] EXCEPT !.todo = k + 1])
             ELSE Broken(r) /\ UNCHANGED messages
  /\ UNCHANGED <<chat, renames, deletes>>

\* The title a first message gives to a chat that was still called "New Chat" when loaded.
AutoTitle(r) ==
  /\ Stands(r, {"title"})
  /\ chat' = IF req[r].opened = Fresh /\ chat.live THEN [chat EXCEPT !.title = "First words"]
             ELSE chat
  /\ Goes(r, "run")
  /\ UNCHANGED <<messages, renames, deletes>>

\* _execute_routed_turn or the worker of _execute_stream_turn: a reply, an error reply, or
\* (streaming) an exception that is told to the page and stored nowhere.
RunTurn(r) ==
  /\ Stands(r, {"run"})
  /\ \/ Goes(r, "answerLoad")
     \/ req[r].kind = "stream" /\ Goes(r, "done")
  /\ StoreAsIs

----------------------------------------------------------------------------
(* The other endpoints change the row in one statement. *)

\* do_PATCH
Rename ==
  /\ renames < MaxRenames /\ chat.live
  /\ chat' = [chat EXCEPT !.title = "Renamed"]
  /\ renames' = renames + 1
  /\ UNCHANGED <<messages, req, deletes>>

\* do_DELETE: the messages go with the row.
DeleteChat ==
  /\ deletes < MaxDeletes /\ chat.live
  /\ chat' = [chat EXCEPT !.live = FALSE]
  /\ messages' = {}
  /\ deletes' = deletes + 1
  /\ UNCHANGED <<req, renames>>

StoreNext ==
  \/ Rename \/ DeleteChat
  \/ \E r \in Requests :
       \/ \E kind \in {"send", "stream", "edit", "again"} : Begin(r, kind)
       \/ LoadAndAppend(r) \/ FindMessage(r) \/ SaveMessage(r) \/ LoadForEdit(r)
       \/ SaveRow(r) \/ SaveListed(r) \/ AutoTitle(r) \/ RunTurn(r)

StoreSpec == StoreInit /\ [][StoreNext]_storeVars

----------------------------------------------------------------------------
Seqs(id) == {m.seq : m \in {n \in messages : n.id = id}}
AnswersOf(r) == {m \in messages : m.id \in {<<r, "a", 0>>, <<r, "a", 1>>}}

\* In a chat nobody deletes, a reply is listed after the question it answers, whatever
\* snapshots other requests write back between its two reads (session.py:307-338).
ReplyFollowsQuestion ==
  deletes = 0 =>
    \A r \in Requests : \A a \in AnswersOf(r) : \A q \in Seqs(req[r].target) : q < a.seq

\* update_message: "Update an existing message safely" (session.py:350): once the request
\* has been answered, the stored message has the new text.  Refuted: README.md, section 5.
EditKept ==
  \A r \in Requests :
    Stands(r, {"done"}) /\ req[r].kind = "edit" /\ deletes = 0 =>
      \E m \in messages : m.id = req[r].target /\ m.text > 0
=============================================================================
