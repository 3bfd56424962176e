--------------------------- MODULE ChatConversation ---------------------------
(***************************************************************************)
(* A browser tab (web/src/stores/chat.ts), the chat routes that serve it   *)
(* (api/routers/chat.py), the session histories they read and write and    *)
(* the inferences they capture for the evaluation flywheel (agent/eval).   *)
(*                                                                         *)
(* A turn is one request of the tab: to /chat/stream, which sends events   *)
(* and saves the question and the answer before its `done' event, or to    *)
(* /chat, which saves both in background tasks after its response.  Every  *)
(* await of a route is a step boundary, and what it sends travels on a     *)
(* wire that the tab reads at its own pace.  Meanwhile the user may open   *)
(* another session, start a new one, reload the page, delete a session or  *)
(* rate an answer.                                                         *)
(*                                                                         *)
(* The session memory of a process (core/memory/redis_memory.py) starts on *)
(* Redis; the first save that Redis answers, or fails, moves it to SQLite  *)
(* until the process ends.  SessionMemory has the operations of a save on  *)
(* either and the window, which is left out here.  What a run of the agent *)
(* answers is AgentLoop's.                                                 *)
(***************************************************************************)
EXTENDS Naturals, SequencesExt

CONSTANTS MaxTurns,     \* bound: requests of the tab
          Sessions,     \* session ids
          MaxIncidents, \* bound: sessions opened, started or deleted, reloads,
                        \* restarts of the API process, operations of a store that raise
          None

ASSUME ConversationAssumption ==
    /\ {MaxTurns, MaxIncidents} \subseteq Nat
    /\ Sessions # {} /\ None \notin Sessions \cup Nat

VARIABLES
    messages,   \* the list of the tab: turn, role, whose text it shows, whose ids
    sessionId,  \* the session the tab sends to
    stream,     \* the turn the tab waits for (isStreaming, isLoading)
    index,      \* assistantIndex of a streamed turn
    load,       \* a history on its way to the tab, if any
    turn,       \* what each request is and how far its route got
    wire,       \* what was sent to the tab and not read yet
    history,    \* the messages of each session in SQLite, oldest first
    inRedis,    \* its list in Redis, oldest first
    memory,     \* the store of this process: Redis, SQLite, or Redis again after an
                \* earlier process had moved
    begun,      \* the turns whose save has begun with Redis
    inference,  \* the turns whose inference is recorded
    judged,     \* history: answers of running routes rated without an inference
    received,   \* history: turns whose answer, no degraded one, the tab has
    replaced,   \* history: turns during which the list of the tab was replaced
    hijacked,   \* history: a replaced turn has set sessionId since
    lost,       \* history: turns ended before both saves were done, deleted, or
                \* with a save that SQLite did not get
    incidents   \* sessions opened, started or deleted, reloads, restarts, failures

tab == <<messages, sessionId, stream, index>>
traces == <<judged, received, replaced, hijacked, lost>>
redisSide == <<inRedis, memory, begun>>
vars == <<tab, load, turn, wire, history, redisSide, inference, traces, incidents>>

Turns == 1 .. MaxTurns
Modes == {"stream", "plain"}
Routes == {"chat", "rag"}
Roles == {"question", "answer"}
Places == {"new", "sent", "read", "answer", "reread", "reanswer",
           "respond", "question", "reply", "finish", "ended"}
Stores == {"redis", "sqlite", "again"}
Events == {"session", "token", "done", "error", "response", "degraded", "failed",
           "broken"}

\* seen: the turns of its session that the tab had answers of when it asked;
\* context: the messages its route was given; excused: the turns of seen that
\* need not be among them.
Unsent == [at |-> "new", mode |-> "stream", route |-> "chat", session |-> None,
           seen |-> {}, excused |-> {}, context |-> None]

Init ==
    /\ sessionId = (CHOOSE s \in Sessions : TRUE)
    /\ messages = <<>> /\ stream = None /\ index = 0
    /\ load = None
    /\ turn = [t \in Turns |-> Unsent]
    /\ wire = [t \in Turns |-> <<>>]
    /\ history = [s \in Sessions |-> <<>>] /\ inRedis = history
    /\ memory = "redis" /\ begun = {}
    /\ inference = {}
    /\ judged = {} /\ received = {} /\ replaced = {} /\ hijacked = FALSE
    /\ lost = {}
    /\ incidents = 0

At(t, place) == turn[t].at = place
SessionOf(t) == turn[t].session
Running(t) == turn[t].at \notin {"new", "ended"}
Unsaved(t) == turn[t].at \in {"question", "reply"}
Fresh(s) == sessionId # s /\ \A t \in Turns : SessionOf(t) # s
Entry(t, role, text, ids) == [turn |-> t, role |-> role, text |-> text, ids |-> ids]
GoTo(t, place) == turn' = [turn EXCEPT ![t].at = place]

\* A route keeps neither the history it was given nor what it could have been
\* given once it has its answer, and nothing once it has ended.
Ended(t) == [Unsent EXCEPT !.at = "ended", !.mode = turn[t].mode, !.session = turn[t].session]
Answered(t, place) ==
    turn' = [turn EXCEPT ![t] = [Ended(t) EXCEPT !.at = place, !.route = turn[t].route]]
End(t) == turn' = [turn EXCEPT ![t] = Ended(t)]

\* What is sent to a page that was reloaded is lost.
Emit(t, events) == wire' = IF stream = t THEN [wire EXCEPT ![t] = @ \o events] ELSE wire
-----------------------------------------------------------------------------
(* The tab. *)

\* handleSend: sendMessageStream or sendMessage, one at a time.
Send(t) ==
    /\ stream = None /\ At(t, "new") /\ \A u \in 1 .. t - 1 : ~At(u, "new")
    /\ \E mode \in Modes :
         /\ turn' = [turn EXCEPT ![t] =
                       [Unsent EXCEPT !.at = "sent", !.mode = mode, !.session = sessionId,
                                      !.seen = {u \in received : SessionOf(u) = sessionId}]]
         /\ messages' = Append(messages, Entry(t, "question", {t}, None)) \o
                          (IF mode = "stream" THEN <<Entry(t, "answer", {}, None)>> ELSE <<>>)
    /\ index' = Len(messages) + 2
    /\ stream' = t
    /\ UNCHANGED <<sessionId, load, wire, history, redisSide, inference, traces, incidents>>

\* handleStreamEvent changes the message at assistantIndex, if there is one.
Shown == messages[index]
SetSlot(text, ids) ==
    messages' = IF index \in DOMAIN messages
                THEN [messages EXCEPT ![index].text = text, ![index].ids = ids]
                ELSE messages

\* The session of an event or a response becomes the tab's.
Adopt(t) ==
    /\ sessionId' = SessionOf(t)
    /\ hijacked' = (hijacked \/ (t \in replaced /\ sessionId # SessionOf(t)))

KeepSession == UNCHANGED <<sessionId, hijacked>>

\* The tab is given back to its user.
Free == stream' = None /\ index' = 0
Wait == UNCHANGED <<stream, index>>

ReadSession(t, event) ==
    /\ event = "session"
    /\ Adopt(t)
    /\ Wait /\ UNCHANGED <<messages, received>>

ReadToken(t, event) ==
    /\ event = "token"
    /\ SetSlot(Shown.text \cup {t}, Shown.ids)
    /\ KeepSession /\ Wait /\ UNCHANGED received

\* The end of the stream is read with its last event.
ReadDone(t, event) ==
    /\ event = "done"
    /\ SetSlot({t}, t)
    /\ received' = received \cup {t}
    /\ KeepSession /\ Free

ReadError(t, event) ==
    /\ event = "error"
    /\ SetSlot({}, Shown.ids)
    /\ KeepSession /\ Free /\ UNCHANGED received

ReadResponse(t, event) ==
    /\ event \in {"response", "degraded"}
    /\ messages' = Append(messages, Entry(t, "answer", {t}, t))
    /\ Adopt(t)
    /\ received' = IF event = "response" THEN received \cup {t} ELSE received
    /\ Free

\* Mutation of ReadFailure: no finally.
ReadFailureOnly(t, event) ==
    /\ event \in {"failed", "broken"}
    /\ IF turn[t].mode = "stream" THEN SetSlot({}, Shown.ids)
       ELSE messages' = Append(messages, Entry(t, "answer", {}, None))
    /\ KeepSession /\ Wait /\ UNCHANGED received

\* HTTP 500, or the connection broke: the catch and the finally of both senders.
ReadFailure(t, event) ==
    /\ event \in {"failed", "broken"}
    /\ IF turn[t].mode = "stream" THEN SetSlot({}, Shown.ids)
       ELSE messages' = Append(messages, Entry(t, "answer", {}, None))
    /\ Free
    /\ KeepSession /\ UNCHANGED received

\* The tab reads what comes next for the turn it waits for.
Read ==
    /\ stream # None
    /\ wire[stream] # <<>>
    /\ wire' = [wire EXCEPT ![stream] = Tail(@)]
    /\ LET event == Head(wire[stream]) IN
         \/ ReadSession(stream, event) \/ ReadToken(stream, event) \/ ReadDone(stream, event)
         \/ ReadError(stream, event)
         \/ ReadResponse(stream, event) \/ ReadFailure(stream, event)
    /\ UNCHANGED <<load, turn, history, redisSide, inference, judged, replaced, lost, incidents>>

\* The list and the session change under the turn the tab waits for.
Replace(list, s) ==
    /\ messages' = list
    /\ sessionId' = s
    /\ replaced' = IF stream = None THEN replaced ELSE replaced \cup {stream}
    /\ hijacked' = FALSE

\* newSession
NewSession ==
    /\ incidents < MaxIncidents /\ incidents' = incidents + 1
    /\ \E s \in Sessions : Fresh(s) /\ Replace(<<>>, s)
    /\ UNCHANGED <<stream, index, load, turn, wire, history, redisSide, inference, judged, received, lost>>

\* What get_messages reads: the store of this process.
Readable(s) == IF memory = "sqlite" THEN history[s] ELSE inRedis[s]

\* The messages of a session as get_chat_history returns them: without ids.
Listed(s) == [i \in DOMAIN Readable(s) |->
                Entry(Readable(s)[i].turn, Readable(s)[i].role, {Readable(s)[i].turn}, None)]

\* loadHistory: the route answers with what it reads ...
LoadHistory ==
    /\ incidents < MaxIncidents /\ incidents' = incidents + 1
    /\ load = None
    /\ \E s \in {r \in Sessions : history[r] # <<>> \/ inRedis[r] # <<>>} :
         load' = [session |-> s, list |-> Listed(s)]
    /\ UNCHANGED <<tab, turn, wire, history, redisSide, inference, traces>>

\* Mutation of HistoryArrives: the session was chosen before the fetch.
HistoryArrivesLate ==
    /\ load # None
    /\ load' = None
    /\ \/ Replace(load.list, sessionId)
       \/ UNCHANGED <<messages, sessionId, replaced, hijacked>>
    /\ UNCHANGED <<stream, index, turn, wire, history, redisSide, inference, judged, received, lost,
                   incidents>>

\* ... and the tab shows it when it arrives, or never.
HistoryArrives ==
    /\ load # None
    /\ load' = None
    /\ \/ Replace(load.list, load.session)
       \/ UNCHANGED <<messages, sessionId, replaced, hijacked>>
    /\ UNCHANGED <<stream, index, turn, wire, history, redisSide, inference, judged, received, lost,
                   incidents>>

\* The page is reloaded: the store starts empty, in a session of its own.
Reload ==
    /\ incidents < MaxIncidents /\ incidents' = incidents + 1
    /\ \E s \in Sessions : Fresh(s) /\ sessionId' = s
    /\ messages' = <<>> /\ stream' = None /\ index' = 0 /\ load' = None
    /\ hijacked' = FALSE
    /\ wire' = [t \in Turns |-> <<>>]
    /\ UNCHANGED <<turn, history, redisSide, inference, judged, received, replaced, lost>>

\* submitFeedback and on_negative_feedback: an answer with ids is looked up
\* among the inferences.  That nothing was found matters while the route could
\* still record it.
Rate ==
    /\ \E i \in DOMAIN messages :
         /\ messages[i].role = "answer" /\ messages[i].ids # None
         /\ judged' = judged \cup {t \in {messages[i].ids} \ inference : Running(t)}
    /\ UNCHANGED <<tab, load, turn, wire, history, redisSide, inference, received, replaced, hijacked, lost,
                   incidents>>
-----------------------------------------------------------------------------
(* The routes. *)

\* The session event, and the routing.  The identity shortcut and the fast mode
\* answer without a history.
Open(t) ==
    /\ At(t, "sent")
    /\ \/ GoTo(t, "answer")
       \/ \E route \in Routes : turn' = [turn EXCEPT ![t].at = "read", ![t].route = route]
    /\ Emit(t, IF turn[t].mode = "stream" THEN <<"session">> ELSE <<>>)
    /\ UNCHANGED <<tab, load, history, redisSide, inference, traces, incidents>>

\* The turns of /chat whose background tasks may still be saving, and, in a
\* process that has forgotten the move to SQLite, all of them.
OutOfReach(t) ==
    {u \in turn[t].seen : memory = "again" \/ (turn[u].mode = "plain" /\ Running(u))}

\* get_messages, for the general chat and for the agent, and again when the
\* agent's answer is taken over by the general chat.  A store that raises has
\* an empty history.
ReadHistory(t) ==
    /\ turn[t].at \in {"read", "reread"}
    /\ \E given \in {ToSet(Readable(SessionOf(t))), {}} :
         /\ turn' = [turn EXCEPT ![t].at = IF @ = "read" THEN "answer" ELSE "reanswer",
                                 ![t].context = given,
                                 ![t].excused = IF given = ToSet(Readable(SessionOf(t)))
                                                THEN OutOfReach(t) ELSE turn[t].seen]
         /\ IF given = ToSet(Readable(SessionOf(t)))
              THEN UNCHANGED incidents
              ELSE incidents < MaxIncidents /\ incidents' = incidents + 1
    /\ UNCHANGED <<tab, load, wire, history, redisSide, inference, traces>>

TakenOver(t) ==
    /\ At(t, "answer") /\ turn[t].route = "rag"
    /\ turn' = [turn EXCEPT ![t].at = "reread", ![t].route = "chat"]
    /\ UNCHANGED <<tab, load, wire, history, redisSide, inference, traces, incidents>>

\* Mutation of StreamAnswer: done is sent when the answer is, before the saves.
StreamAnswerDone(t) ==
    /\ turn[t].at \in {"answer", "reanswer"} /\ turn[t].mode = "stream"
    /\ Answered(t, "question")
    /\ Emit(t, <<"token", "done">>)
    /\ UNCHANGED <<tab, load, history, redisSide, inference, traces, incidents>>

StreamAnswer(t) ==
    /\ turn[t].at \in {"answer", "reanswer"} /\ turn[t].mode = "stream"
    /\ Answered(t, "question")
    /\ Emit(t, <<"token">>)
    /\ UNCHANGED <<tab, load, history, redisSide, inference, traces, incidents>>

PlainAnswer(t) ==
    /\ turn[t].at \in {"answer", "reanswer"} /\ turn[t].mode = "plain"
    /\ Answered(t, "respond")
    /\ UNCHANGED <<tab, load, wire, history, redisSide, inference, traces, incidents>>

\* maybe_capture_inference: important answers and a sample of the others.
Capture(t) == inference' \in {inference, inference \cup {t}}

Message(t, role) == [turn |-> t, role |-> role]
Saving(t) == Message(t, IF At(t, "question") THEN "question" ELSE "answer")
Insert(t, role) == history' = [history EXCEPT ![SessionOf(t)] = Append(@, Message(t, role))]

\* save_message begins with Redis, where the push lands or is about to raise.
Push(t) ==
    /\ Unsaved(t) /\ memory # "sqlite" /\ t \notin begun
    /\ begun' = begun \cup {t}
    /\ inRedis' \in {inRedis, [inRedis EXCEPT ![SessionOf(t)] = Append(@, Saving(t))]}
    /\ UNCHANGED <<tab, load, turn, wire, history, memory, inference, traces, incidents>>

\* The save moves this process to SQLite, whatever Redis did, and starts over
\* there.  One that had begun when another moved goes on behind it, and one whose
\* insert raises returns False, which nobody reads: SQLite does not get either.
Save(t, role) ==
    /\ t \in begun \/ memory = "sqlite"
    /\ memory' = "sqlite" /\ begun' = begun \ {t}
    /\ \/ /\ t \notin begun \/ memory # "sqlite"
          /\ Insert(t, role)
          /\ UNCHANGED <<lost, incidents>>
       \/ /\ t \in begun /\ memory = "sqlite"
          /\ lost' = lost \cup {t}
          /\ UNCHANGED <<history, incidents>>
       \/ /\ incidents < MaxIncidents /\ incidents' = incidents + 1
          /\ lost' = lost \cup {t}
          /\ UNCHANGED history
    /\ UNCHANGED <<inRedis, judged, received, replaced, hijacked>>

\* Mutation of Fail: the question of a failed turn is saved.
FailSaving(t) ==
    /\ turn[t].at \in {"read", "answer", "reread", "reanswer"}
    /\ Insert(t, "question")
    /\ memory' = "sqlite"
    /\ End(t)
    /\ Emit(t, IF turn[t].mode = "stream" THEN <<"error">> ELSE <<"failed">>)
    /\ UNCHANGED <<tab, load, inRedis, begun, inference, traces, incidents>>

\* The model, the agent or the classifier raised.  Only /chat has a degraded
\* answer, for an open circuit, and always captures it; neither saves anything.
Fail(t) ==
    /\ turn[t].at \in {"read", "answer", "reread", "reanswer"}
    /\ End(t)
    /\ \/ /\ Emit(t, IF turn[t].mode = "stream" THEN <<"error">> ELSE <<"failed">>)
          /\ UNCHANGED inference
       \/ /\ turn[t].mode = "plain"
          /\ inference' = inference \cup {t}
          /\ Emit(t, <<"degraded">>)
    /\ UNCHANGED <<tab, load, history, redisSide, traces, incidents>>

\* Mutation of Respond: the inference is captured by a background task.
RespondFirst(t) ==
    \/ /\ At(t, "respond")
       /\ GoTo(t, "question")
       /\ Emit(t, <<"response">>)
       /\ UNCHANGED <<tab, load, history, redisSide, inference, traces, incidents>>
    \/ /\ At(t, "question") /\ turn[t].mode = "plain" /\ t \notin inference
       /\ inference' = inference \cup {t}
       /\ UNCHANGED <<tab, load, turn, wire, history, redisSide, traces, incidents>>

\* /chat: capture, then the response; its background tasks save afterwards.
Respond(t) ==
    /\ At(t, "respond")
    /\ Capture(t)
    /\ GoTo(t, "question")
    /\ Emit(t, <<"response">>)
    /\ UNCHANGED <<tab, load, history, redisSide, traces, incidents>>

SaveQuestion(t) ==
    /\ At(t, "question")
    /\ Save(t, "question")
    /\ GoTo(t, "reply")
    /\ UNCHANGED <<tab, load, wire, inference>>

SaveAnswer(t) ==
    /\ At(t, "reply")
    /\ Save(t, "answer")
    /\ IF turn[t].mode = "stream" THEN GoTo(t, "finish") ELSE End(t)
    /\ UNCHANGED <<tab, load, wire, inference>>

\* Only an answer of the agent is captured by a stream.
Finish(t) ==
    /\ At(t, "finish")
    /\ IF turn[t].route = "rag" THEN Capture(t) ELSE UNCHANGED inference
    /\ End(t)
    /\ Emit(t, <<"done">>)
    /\ UNCHANGED <<tab, load, history, redisSide, traces, incidents>>

\* A stream whose page is gone is cancelled at the await it has reached.
Cancel(t) ==
    /\ Running(t) /\ turn[t].mode = "stream" /\ stream # t
    /\ End(t)
    /\ begun' = begun \ {t}
    /\ lost' = IF Unsaved(t) THEN lost \cup {t} ELSE lost
    /\ UNCHANGED <<tab, load, wire, history, inRedis, memory, inference, judged, received,
                   replaced, hijacked, incidents>>

\* DELETE of a session, in the store of this process.
DeleteSession ==
    /\ incidents < MaxIncidents /\ incidents' = incidents + 1
    /\ \E s \in {r \in Sessions : Readable(r) # <<>>} :
         IF memory = "sqlite"
           THEN /\ history' = [history EXCEPT ![s] = <<>>]
                /\ lost' = lost \cup {history[s][i].turn : i \in DOMAIN history[s]}
                /\ UNCHANGED inRedis
           ELSE /\ inRedis' = [inRedis EXCEPT ![s] = <<>>]
                /\ UNCHANGED <<history, lost>>
    /\ UNCHANGED <<tab, load, turn, wire, memory, begun, inference, judged, received, replaced,
                   hijacked>>

\* The API process restarts: every route ends where it is, and the next process
\* starts on Redis.
Restart ==
    /\ incidents < MaxIncidents /\ incidents' = incidents + 1
    /\ turn' = [t \in Turns |-> IF Running(t) THEN Ended(t) ELSE turn[t]]
    /\ wire' = [t \in Turns |-> IF stream = t /\ Running(t) THEN Append(wire[t], "broken")
                                ELSE wire[t]]
    /\ lost' = lost \cup {t \in Turns : Unsaved(t)}
    /\ memory' = IF memory = "redis" THEN "redis" ELSE "again"
    /\ begun' = {}
    /\ UNCHANGED <<tab, load, history, inRedis, inference, judged, received, replaced, hijacked>>

Serve(t) ==
    \/ Open(t) \/ ReadHistory(t) \/ TakenOver(t) \/ StreamAnswer(t) \/ PlainAnswer(t)
    \/ Fail(t) \/ Respond(t) \/ Push(t) \/ SaveQuestion(t) \/ SaveAnswer(t) \/ Finish(t)

Next ==
    \/ \E t \in Turns : Send(t) \/ Serve(t) \/ Cancel(t)
    \/ Read \/ NewSession \/ LoadHistory \/ HistoryArrives \/ Reload \/ Rate
    \/ DeleteSession \/ Restart

Spec == Init /\ [][Next]_vars

\* A route that started goes on, and a tab reads what arrives.
FairSpec == Spec /\ WF_vars(Read) /\ \A t \in Turns : WF_vars(Serve(t))
-----------------------------------------------------------------------------
(* What the conversation promises. *)

\* Every variable keeps its type.
TypeOK ==
    /\ \A i \in DOMAIN messages :
         messages[i] \in [turn : Turns, role : Roles, text : SUBSET Turns, ids : Turns \cup {None}]
    /\ sessionId \in Sessions /\ stream \in Turns \cup {None} /\ index \in Nat
    /\ turn \in [Turns -> [at : Places, mode : Modes, route : Routes,
                           session : Sessions \cup {None}, seen : SUBSET Turns,
                           excused : SUBSET Turns,
                           context : SUBSET [turn : Turns, role : Roles] \cup {None}]]
    /\ \A t \in Turns : ToSet(wire[t]) \subseteq Events
    /\ \A s \in Sessions : ToSet(history[s]) \cup ToSet(inRedis[s])
                              \subseteq [turn : Turns, role : Roles]
    /\ memory \in Stores /\ begun \subseteq Turns
    /\ {inference, judged, received, replaced, lost} \subseteq SUBSET Turns
    /\ hijacked \in BOOLEAN

\* The tab shows one conversation, the one its next question is sent to:
\* every message in it, and every answer whose text it shows, belongs to
\* sessionId, through streams, failures, histories that arrive late and new
\* sessions.  The exceptions are the turns the list was replaced under (their
\* tokens go to whatever message has their index now) and a list under which
\* such a turn has set sessionId back.
SessionIsShown ==
    hijacked \/ \A i \in DOMAIN messages : \A t \in messages[i].text \cup {messages[i].turn} :
                   t \in replaced \/ SessionOf(t) = sessionId

\* A follow-up question is answered with the turns before it: the history it
\* was given holds question and answer of every turn the tab had received an
\* answer for when it asked, unless the session was deleted, the process died in
\* between, or SQLite did not get one of its saves.  Excused are the turns of
\* /chat whose background tasks may still be saving; all of them where the store
\* raised; and all of them in a process that was started after another had moved
\* to SQLite and has saved nothing yet, because it reads Redis.
FollowUpSees ==
    \A u \in {w \in Turns : turn[w].context # None} :
        \A t \in (turn[u].seen \ turn[u].excused) \ lost :
            {Message(t, role) : role \in Roles} \subseteq turn[u].context

\* No history holds half a turn: in SQLite an answer comes after its question,
\* and a question is left alone only while its answer is being saved, unless the
\* route was cut down, a save was lost, or the session deleted, between the two
\* saves.  No message is there twice.  Redis, which a process reads until its
\* first save, holds questions only, none of them twice, so it never shows an
\* answer without its question.
TurnsAreWhole ==
    /\ \A t \in Turns \ lost : SessionOf(t) # None =>
         LET saved == history[SessionOf(t)]
             SavedAs(role) == {i \in DOMAIN saved : saved[i] = Message(t, role)} IN
         /\ \A i \in SavedAs("answer") : \E j \in SavedAs("question") : j < i
         /\ SavedAs("question") # {} /\ SavedAs("answer") = {} => At(t, "reply")
    /\ \A s \in Sessions :
         /\ IsInjective(history[s]) /\ IsInjective(inRedis[s])
         /\ \A i \in DOMAIN inRedis[s] : inRedis[s][i].role = "question"

\* Feedback on an answer finds the inference captured for it: an answer can
\* only be rated once it is settled whether its inference is recorded.
\* (Answers shown from a history carry no ids and are never looked up.)
FeedbackFindsItsAnswer == judged \cap inference = {}

\* A tab that waits for an answer is given back to its user, whatever fails.
TabIsFreed == stream # None ~> stream = None
=============================================================================
