----------------------------- MODULE ChatStream -----------------------------
(***************************************************************************)
(* One streamed chat turn, from the worker thread of the backend to the    *)
(* screen: the worker talks into a bounded bridge, the request thread      *)
(* drains the bridge to the socket, the desktop shell forwards the frames  *)
(* to a channel, and the page applies them to its list of sessions while   *)
(* it keeps polling the backend's list.  Streamed words are numbered from  *)
(* 1; the word 0 is text that was never streamed, a title or a notice.     *)
(***************************************************************************)
EXTENDS Naturals, Sequences, FiniteSets

CONSTANTS
  MaxWords,     \* bound: words of an answer
  MaxQueue,     \* max_queue_size of the bridge
  MaxRefreshes  \* bound: polls of the session list

ASSUME StreamAssumption ==
  MaxWords \in Nat /\ MaxQueue \in Nat \ {0} /\ MaxRefreshes \in Nat

VARIABLES
  bridge,    \* state, queue and terminal event of StreamingChatBridge
  worker,    \* the worker thread: pc, words said, how it goes
  stored,    \* what the backend has of the session
  socket,    \* frames on the way, and whether the connection is open
  shell,     \* api_stream: "idle", "reading", "ok", "failed"
  channel,   \* messages on the way from the shell to the page
  turn,      \* the page's turn: pc, the id it gave the session, and which callback ended it
  sessions,  \* the page's list of sessions
  poll,      \* the session list a poll has fetched and not yet merged
  refreshes

streamVars == <<bridge, worker, stored, socket, shell, channel, turn, sessions, poll,
                refreshes>>

NoRow == [count |-> 0, status |-> "ABSENT", text |-> <<>>]
\* A session row without, with the question, and with the answer of the turn.
Row(count, status, text) == [count |-> count, status |-> status, text |-> text]
View(id, row, mine) == [id |-> id, row |-> row, mine |-> mine]
NoPoll == <<>>

StreamInit ==
  /\ bridge = [state |-> "OPEN", queue |-> <<>>, terminal |-> "NONE"]
  /\ worker = [pc |-> "idle", said |-> 0, outcome |-> "NONE"]
  /\ stored \in {NoRow, Row(0, "NONE", <<>>)}
  /\ socket = [frames |-> <<>>, open |-> FALSE]
  /\ shell = "idle" /\ channel = <<>>
  /\ turn = [pc |-> "idle", id |-> "REAL", end |-> "none"]
  /\ sessions = IF stored = NoRow THEN <<>> ELSE <<View("REAL", stored, FALSE)>>
  /\ poll = NoPoll /\ refreshes = 0

Words(n) == [i \in 1..n |-> i]
Notice == <<0>>

\* An event of the stream, the bridge, the thread behind it, a stored session and a session
\* as the page lists it.
Frames == [event : {"delta", "complete", "error"}, word : Nat]
Bridges == [state : {"OPEN", "TERMINAL_PENDING", "COMPLETE", "ERROR", "DISCONNECTED"},
            queue : Seq(Frames), terminal : {"NONE", "complete", "error"}]
TurnWorkers == [pc : {"idle", "talk", "send", "announce", "ended", "dead"}, said : Nat,
                outcome : {"NONE", "COMPLETED", "ERROR"}]
SessionRows == [count : 0..2, status : {"ABSENT", "NONE", "STREAMING", "COMPLETED", "ERROR"},
                text : Seq(Nat)]
SessionViews == [id : {"TEMP", "REAL"}, row : SessionRows, mine : BOOLEAN]

----------------------------------------------------------------------------
(* The page sends the turn; the shell opens the request; the backend stores the question. *)

Placeholder == Row(2, "STREAMING", <<>>)

\* handleSendMessage: a new chat gets a temporary id, an existing one two more messages.
SendMessage ==
  /\ turn.pc = "idle"
  /\ turn' = [turn EXCEPT !.pc = "streaming", !.id = IF sessions = <<>> THEN "TEMP" ELSE "REAL"]
  /\ sessions' = <<View(turn'.id, Placeholder, TRUE)>>
  /\ shell' = "calling"
  /\ UNCHANGED <<bridge, worker, stored, socket, channel, poll, refreshes>>

\* api_stream: a path, token or connection error ends the call at once.
OpenStream ==
  /\ shell = "calling"
  /\ \/ shell' = "failed" /\ UNCHANGED <<socket, worker, stored>>
     \/ /\ shell' = "reading" /\ socket' = [socket EXCEPT !.open = TRUE]
        /\ worker' = [worker EXCEPT !.pc = "talk"]
        /\ stored' = Row(1, "NONE", <<>>)
  /\ UNCHANGED <<bridge, channel, turn, sessions, poll, refreshes>>

----------------------------------------------------------------------------
(* The worker thread *)

Serving == worker.pc # "dead"
\* send_progress and send_delta wait while the open bridge is full.
Enqueue(item) ==
  /\ bridge.state = "OPEN" => Len(bridge.queue) < MaxQueue
  /\ bridge' = IF bridge.state = "OPEN"
               THEN [bridge EXCEPT !.queue = Append(@, item)] ELSE bridge

SendWord ==
  /\ worker.pc = "send"
  /\ Enqueue([event |-> "delta", word |-> worker.said + 1])
  /\ worker' = [worker EXCEPT !.pc = "talk", !.said = @ + 1]
  /\ UNCHANGED <<stored, socket, shell, channel, turn, sessions, poll, refreshes>>

NextWord ==
  /\ worker.pc = "talk" /\ worker.said < MaxWords
  /\ worker' = [worker EXCEPT !.pc = "send"]
  /\ UNCHANGED <<bridge, stored, socket, shell, channel, turn, sessions, poll, refreshes>>

\* The route ends, well or badly, and the reply is stored before it is announced.  What is
\* stored need not be what was streamed: a title is put in front of it, and a cancelled
\* workflow, a failed route or a fallback stores a notice in place of the words.
StoreReply ==
  /\ worker.pc = "talk"
  /\ \E status \in {"COMPLETED", "ERROR"},
        text \in {Notice, Words(worker.said), Notice \o Words(worker.said)} :
       /\ worker' = [worker EXCEPT !.pc = "announce", !.outcome = status]
       /\ stored' = Row(2, status, text)
  /\ UNCHANGED <<bridge, socket, shell, channel, turn, sessions, poll, refreshes>>

Terminal(t) ==
  bridge' = IF bridge.state # "OPEN" THEN bridge
            ELSE [bridge EXCEPT !.state = "TERMINAL_PENDING", !.terminal = t]

\* send_complete or send_error.
Announce ==
  /\ worker.pc = "announce"
  /\ Terminal(IF worker.outcome = "COMPLETED" THEN "complete" ELSE "error")
  /\ worker' = [worker EXCEPT !.pc = "ended"]
  /\ UNCHANGED <<stored, socket, shell, channel, turn, sessions, poll, refreshes>>

\* An exception of the route or of the store: an error event, and no reply is stored.
WorkerRaises ==
  /\ worker.pc = "talk" /\ Terminal("error")
  /\ worker' = [worker EXCEPT !.pc = "ended", !.outcome = "ERROR"]
  /\ UNCHANGED <<stored, socket, shell, channel, turn, sessions, poll, refreshes>>

\* The backend process ends; its connections close.
BackendDies ==
  /\ worker.pc \in {"talk", "send", "announce", "ended"}
  /\ worker' = [worker EXCEPT !.pc = "dead"]
  /\ socket' = [socket EXCEPT !.open = FALSE]
  /\ UNCHANGED <<bridge, stored, shell, channel, turn, sessions, poll, refreshes>>

----------------------------------------------------------------------------
(* drain_to_writer, on the request thread *)

WriterVars == <<worker, stored, shell, channel, turn, sessions, poll, refreshes>>

DrainItemIgnoresFailure ==
  /\ Serving /\ bridge.state \in {"OPEN", "TERMINAL_PENDING"} /\ bridge.queue # <<>>
  /\ socket.open
  /\ socket' = [socket EXCEPT !.frames = Append(@, Head(bridge.queue))]
  /\ bridge' = [bridge EXCEPT !.queue = Tail(@)]
  /\ UNCHANGED WriterVars
DrainItem ==
  /\ Serving /\ bridge.state \in {"OPEN", "TERMINAL_PENDING"} /\ bridge.queue # <<>>
  /\ \/ /\ socket.open
        /\ socket' = [socket EXCEPT !.frames = Append(@, Head(bridge.queue))]
        /\ bridge' = [bridge EXCEPT !.queue = Tail(@)]
     \/ /\ ~socket.open \* the write fails
        /\ bridge' = [bridge EXCEPT !.queue = Tail(@), !.state = "DISCONNECTED"]
        /\ UNCHANGED socket
  /\ UNCHANGED WriterVars

DrainTerminalAtOnce ==
  /\ Serving /\ bridge.state = "TERMINAL_PENDING"
  /\ \/ /\ socket.open
        /\ socket' = [frames |-> Append(socket.frames, [event |-> bridge.terminal, word |-> 0]),
                      open |-> FALSE]
        /\ bridge' = [bridge EXCEPT !.state =
                        IF bridge.terminal = "complete" THEN "COMPLETE" ELSE "ERROR"]
     \/ ~socket.open /\ bridge' = [bridge EXCEPT !.state = "DISCONNECTED"] /\ UNCHANGED socket
  /\ UNCHANGED WriterVars
DrainTerminal ==
  /\ Serving /\ bridge.state = "TERMINAL_PENDING" /\ bridge.queue = <<>>
  /\ \/ /\ socket.open
        /\ socket' = [frames |-> Append(socket.frames, [event |-> bridge.terminal, word |-> 0]),
                      open |-> FALSE]
        /\ bridge' = [bridge EXCEPT !.state =
                        IF bridge.terminal = "complete" THEN "COMPLETE" ELSE "ERROR"]
     \/ ~socket.open /\ bridge' = [bridge EXCEPT !.state = "DISCONNECTED"] /\ UNCHANGED socket
  /\ UNCHANGED WriterVars

----------------------------------------------------------------------------
(* perform_loopback_sse_stream, in the desktop shell *)

ShellVars == <<bridge, worker, stored, turn, sessions, poll, refreshes>>

ForwardFrame ==
  /\ shell = "reading" /\ socket.frames # <<>>
  /\ channel' = Append(channel, Head(socket.frames))
  /\ socket' = [socket EXCEPT !.frames = Tail(@)]
  /\ shell' = IF Head(socket.frames).event = "delta" THEN "reading" ELSE "ok"
  /\ UNCHANGED ShellVars

\* A bad frame, the read timeout, or the end of the connection before a terminal event.
StreamFails ==
  /\ shell = "reading"
  /\ shell' = "failed" /\ socket' = [frames |-> <<>>, open |-> FALSE]
  /\ UNCHANGED <<channel, ShellVars>>

----------------------------------------------------------------------------
(* streamChatTurn and the page's session list *)

PageVars == <<bridge, worker, stored, socket, shell, poll, refreshes>>

\* A word goes to the session of the turn, at its end.
ApplyDelta(w) ==
  sessions' = [i \in DOMAIN sessions |->
    IF sessions[i].id = turn.id /\ sessions[i].mine
    THEN [sessions[i] EXCEPT !.row.text = Append(@, w)] ELSE sessions[i]]

\* The session adopts the backend's id, and so does any other session with either id.
ApplyComplete(known) ==
  sessions' = [i \in DOMAIN sessions |->
    [sessions[i] EXCEPT !.id = IF known THEN "REAL" ELSE @,
                        !.row.status = IF sessions[i].mine THEN "COMPLETED" ELSE @]]

\* What was shown stays; an empty answer becomes the error's message.
Failed(row) == [row EXCEPT !.status = "ERROR", !.text = IF @ = <<>> THEN Notice ELSE @]
ApplyError ==
  sessions' = [i \in DOMAIN sessions |->
    IF sessions[i].id = turn.id /\ sessions[i].mine
    THEN [sessions[i] EXCEPT !.row = Failed(@)] ELSE sessions[i]]

DeliverDelta ==
  /\ turn.pc = "streaming" /\ channel # <<>> /\ Head(channel).event = "delta"
  /\ ApplyDelta(Head(channel).word) /\ channel' = Tail(channel)
  /\ UNCHANGED <<PageVars, turn>>

\* The channel closes with the first outcome; what it still held is never shown.
EndTurn(how) == turn' = [turn EXCEPT !.pc = "done", !.end = how] /\ channel' = <<>>

\* A terminal frame, or the end of the shell's call: that is handled when it comes, whatever
\* frames are still on the way.
DeliverTerminal ==
  /\ turn.pc = "streaming"
  /\ \/ /\ channel # <<>> /\ Head(channel).event = "complete"
        /\ ApplyComplete(TRUE) /\ EndTurn("complete")
     \/ /\ channel # <<>> /\ Head(channel).event = "error"
        /\ ApplyError /\ EndTurn("error")
     \/ shell = "failed" /\ ApplyError /\ EndTurn("rejected")
     \/ shell = "ok" /\ ApplyComplete(FALSE) /\ EndTurn("resolved")
  /\ UNCHANGED PageVars

\* fetchCoreData: the list is fetched now and merged when the answer arrives.
FetchSessions ==
  /\ poll = NoPoll /\ refreshes < MaxRefreshes
  /\ worker.pc # "dead"
  /\ poll' = <<stored>> /\ refreshes' = refreshes + 1
  /\ UNCHANGED <<bridge, worker, stored, socket, shell, channel, turn, sessions>>

Busy(s) == s.row.status \in {"ERROR", "STREAMING"}
MergeAdoptsAll(local, row) ==
  LET kept == [i \in DOMAIN local |-> IF local[i].id = "TEMP" \/ row = NoRow \/ Busy(local[i])
                                      THEN local[i] ELSE View("REAL", row, FALSE)]
  IN  IF row = NoRow \/ \E i \in DOMAIN local : local[i].id = "REAL"
      THEN kept ELSE Append(kept, View("REAL", row, FALSE))
Merge(local, row) ==
  LET kept == [i \in DOMAIN local |->
        IF local[i].id = "TEMP" \/ row = NoRow \/ Busy(local[i]) \/ local[i].row.count > row.count
        THEN local[i] ELSE View("REAL", row, FALSE)]
  IN  IF row = NoRow \/ \E i \in DOMAIN local : local[i].id = "REAL"
      THEN kept ELSE Append(kept, View("REAL", row, FALSE))

MergeSessions ==
  /\ poll # NoPoll
  /\ sessions' = Merge(sessions, poll[1]) /\ poll' = NoPoll
  /\ UNCHANGED <<bridge, worker, stored, socket, shell, channel, turn, refreshes>>

----------------------------------------------------------------------------
TurnOver == turn.pc = "done" /\ worker.pc \in {"idle", "ended", "dead"} /\ poll = NoPoll

StreamDone == TurnOver /\ UNCHANGED streamVars

WorkerTurn == NextWord \/ SendWord \/ StoreReply \/ Announce \/ WorkerRaises
WriterTurn == DrainItem \/ DrainTerminal
PageTurn == DeliverDelta \/ DeliverTerminal

StreamNext ==
  \/ SendMessage \/ OpenStream \/ WorkerTurn \/ BackendDies \/ WriterTurn
  \/ ForwardFrame \/ StreamFails \/ PageTurn \/ FetchSessions \/ MergeSessions \/ StreamDone

\* Fairness: threads and event loops run; a read of the shell has a timeout.
StreamSpec ==
  /\ StreamInit /\ [][StreamNext]_streamVars
  /\ WF_streamVars(OpenStream) /\ WF_streamVars(WorkerTurn) /\ WF_streamVars(WriterTurn)
  /\ WF_streamVars(ForwardFrame \/ StreamFails) /\ WF_streamVars(PageTurn)

----------------------------------------------------------------------------
StreamTypeOK ==
  /\ bridge \in Bridges /\ worker \in TurnWorkers /\ stored \in SessionRows
  /\ socket \in [frames : Seq(Frames), open : BOOLEAN] /\ channel \in Seq(Frames)
  /\ shell \in {"idle", "calling", "reading", "ok", "failed"}
  /\ turn \in [pc : {"idle", "streaming", "done"}, id : {"TEMP", "REAL"},
               end : {"none", "complete", "error", "resolved", "rejected"}]
  /\ sessions \in Seq(SessionViews) /\ refreshes \in Nat
  /\ poll # NoPoll => poll[1] \in SessionRows /\ poll = <<poll[1]>>

\* The page's own answer is what was said so far, word for word, or a notice in its place
\* after an error; when the complete event ended it, no word is missing and a reply is stored
\* as completed.  A reply the page took from the backend's list is the stored one.
CompletedMeansWhole ==
  \A i \in DOMAIN sessions :
    LET row == sessions[i].row IN
    IF sessions[i].mine
    THEN /\ \/ row.text = Words(Len(row.text)) /\ Len(row.text) <= worker.said
            \/ row.text = Notice /\ row.status = "ERROR"
         /\ turn.end = "complete" =>
              /\ row.status = "COMPLETED" /\ Len(row.text) = worker.said
              /\ stored.count = 2 /\ stored.status = "COMPLETED"
    ELSE row.count = 2 => row = stored

\* Once the page has shown the end of the turn, no late poll takes the answer away again: a
\* session stays as it is or becomes the backend's, with no fewer messages, and a reply in it
\* is the stored reply.
ShownAnswerStays ==
  [][turn.pc = "done" => \A i \in DOMAIN sessions :
        /\ i \in DOMAIN sessions'
        /\ sessions'[i] # sessions[i] =>
             /\ ~sessions'[i].mine /\ sessions'[i].row.count >= sessions[i].row.count
             /\ sessions'[i].row.count = 2 => sessions'[i].row = stored]_streamVars

\* A turn that was sent ends on the screen, and the worker that serves it is not left
\* waiting for room in the bridge, whatever becomes of the connection.
TurnEnds ==
  /\ turn.pc = "streaming" ~> turn.pc = "done"
  /\ worker.pc = "send" ~> worker.pc \in {"ended", "dead"}

\* Merging adopts a migrated session without duplicating it.  Refuted: README.md, section 5.
NoDuplicateSession ==
  \A i, j \in DOMAIN sessions : sessions[i].id = sessions[j].id => i = j
=============================================================================
